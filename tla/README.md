# TLA+ specifications of castware-operator

The castware-operator installs and maintains CAST AI's in-cluster components. It runs as a
Kubernetes operator with one Cluster CR and one Component CR per component, drives helm, takes
orders from the CAST AI control plane ("Mothership"), upgrades itself through a Kubernetes job,
and can move a cluster from individually installed charts to one umbrella chart.

This directory holds models of its state machines, the instances on which TLC checks them, and
theorems about them that TLAPS checks for every instance. Paths below are relative to `src/`.

## 1. The system

| component | state it keeps | operations | who it meets |
|---|---|---|---|
| **Umbrella migration** `internal/controller/migration_controller.go` | umbrella CR: `spec.migrate`, `spec.readonly`, finalizer; `status.migrationPhase`, derived mode, snapshot of absorbed charts, Migrating condition | phases MarkReadonly, UninstallIndividuals, InstallUmbrella, Verify, Finalize; rollback; abort on deletion; status repair | component reconciler (same CR, sub-component CRs), webhook, helm, users |
| **Component reconciler** `internal/controller/component_controller.go` | Component CR status (conditions, current version, observed generation, reported revision, rollback request), finalizer, helm revisions | install, adopt, upgrade, rollback, progress check, deletion, report; two gates against the other regime, forced readonly | users, cluster controller, migration, helm |
| **Operator upgrade** `internal/controller/cluster_controller_operator_upgrade.go`, `internal/selfupgrade`, `cmd/upgrade.go` | Cluster CR status (`upgradeJobName`, `lastReportedHelmRevision`), jobs, the operator's helm release | create job, follow it, delete it, report; in the job: dry run, upgrade, check, wait, roll back | Mothership's action queue, users who upgrade with helm, the operator it replaces |
| **Onboarding** `cluster_controller_registration.go`, `cluster_controller.go` | Cluster CR `spec.cluster`, `lastRegistrationVersion`, `lastSecretVersion`, Available | register, fill in the ID, initial report, key check | Mothership, the agent's logs, the Cluster webhook, log shipping |
| **Scan, actions, terraform** `cluster_controller_scan.go`, `_actions.go`, `_terraform.go` | hybrid warning, Migrated condition | adopt releases and YAML installations as CRs, hand over CRs of terraform, carry out and acknowledge actions | Mothership, component CRs, helm |
| **Admission webhooks** `internal/webhook/v1alpha1` | none | defaulting, validation of creates and updates (permissions, readonly, mutual exclusivity, immutable cluster ID) | every writer of a CR |
| **Migration gate** `internal/migrationgate` | none | probes which sub-components are installed, resolves their release names, shows values to Mothership | migration, scan, webhook |
| **Covering tags and profiles** `internal/component` | tables | the smallest umbrella mode that renders a set of components, the permission rule | migration, scan, webhook |
| **Value handling** `internal/values`, `internal/utils` | none | merging and carrying over helm values | component reconciler, migration |
| **Log shipping** `internal/logingest` | bounded channel, batch, target | drop or batch and post entries | onboarding, everything that logs |
| **Cleanup, preflight** `internal/cleanup`, `cmd/` | none | hooks run by helm when the operator's chart goes or comes | CRs, component reconciler |
| **Helm client** `internal/helm` | helm's store | install, upgrade, rollback, uninstall, forget, get, list | everything above |
| **API client, auth** `internal/castai` | token | HTTP calls | everything above |
| **Operator process** `cmd/`, `internal/config` | none | wiring, certificates, probes | |

What is hard about it:

- **Crashes between calls.** A reconcile is a dozen API and helm calls with nothing atomic about
  them; what it knows is lost with the process and is found again from CRs and helm's store.
- **Stale copies.** A reconcile reads a CR once, works for seconds or minutes, and then writes
  the whole status back.
- **Two controllers, one CR.** The migration and the component reconciler write the same CR, with
  `spec.readonly` as the lock between them, and the validating webhook refuses updates of a
  readonly CR, the operator's own included.
- **Partial failure.** Rollbacks are sequences of best-effort steps; helm fails before or after it
  recorded a revision, and a rollback means something else in the two cases.
- **Deadlines.** Ten minutes for an operation, a verify timeout for the umbrella, ten minutes for
  an upgrade job: each races the completion it waits for.
- **At-least-once orders.** An action whose acknowledgement is lost is delivered again.
- **Check, then act.** The webhook, the scan, the actions and the reconciler each look for the
  other regime before they let it in, and none of them holds a lock.
- **Decisions used later.** The umbrella's mode, its permissions and its values are put together in
  one phase and used two phases on, after what they were read from was uninstalled.
- **Two processes at the end.** The hook that removes the CRs runs beside the operator, which
  uninstalls what belongs to a deleted CR.

What makes each part correct: the migration loses no component and leaves no lock; the agent's
heartbeat is never interrupted; what a component claims is what helm runs, and a rollback restores
what last ran; an upgrade of the operator never leaves a failed release behind, and never holds
the controller up; what is noted as reported was reported, and what should be reported is; the
operator never runs both regimes, and adopts what nobody manages; the umbrella renders what ran
before and nothing that was not agreed to; a cluster has one ID, and logs arrive once; taking the
operator away leaves the components running.

## 2. Modules

| module | contents |
|---|---|
| `UmbrellaMigration` | the migration state machine, with users, the component reconciler and Mothership as its environment |
| `MigrationContract` | what the migration promises, seen from outside; `UmbrellaMigration` implements it |
| `CoveringMode` | the mode, permissions and values a migration installs the umbrella with |
| `ComponentLifecycle` | one Component CR and its release under the component reconciler |
| `Coexistence` | umbrella and individual CRs and releases under webhook, scan, actions and component reconciler |
| `Teardown` | extends `Coexistence` by the pre-delete hook |
| `OperatorUpgrade` | the cluster controller's upgrade of the operator, its jobs and its action queue |
| `LogShipping` | the log hook |
| `Onboarding` | extends `LogShipping` by the first steps of the cluster reconcile |
| `MC...` | values for the constants of the TLC instances |
| `...Proofs` | theorems, one module per component |

### UmbrellaMigration

`cr`, `status`, `overdue`, `kept` and `locked` are what the API server holds of the umbrella CR and
of the three sub-component CRs; `individual`, `standalone`, `umbrella` and `agentPods` are helm
releases and the owner of the agent's workloads; `pc`, `todo`, `present` and `seen` are the locals
of `Reconcile`. Every call in a phase that changes the cluster is one action (`ArmGuard`,
`LockUmbrella`, `LockSub`, `SnapshotCovered`, `UninstallCovered`, `UninstallSub`,
`DeleteAgentWorkloads`, `InstallUmbrella`, `Verify`, `ForgetAgent`, `RetireSub`, ...). `Fail` has
the calls' failures and `Abandon`, a return or a stop between any two of them. `Environment` has
the component reconciler's finalizer and forced readonly, users who delete, abort, retrigger,
install or remove charts, the verify deadline and the loss of the cluster CR, each of which a
constant can switch off.

A mode, tag or kent profile, is the set of parts it renders, and `CoveringModes` is any smallest
mode that covers what is installed. `ever` and `unresolved` are history variables: what users
installed, and what a rollback said it could not undo.

### MigrationContract

Four variables: the recorded phase, who runs the agent, the umbrella's release, and whether the
umbrella is still wanted. `KeepsContract` in `UmbrellaMigration` is `MigrationContract!Spec` under
the refinement mapping `Contract`: the phase is `status.phase`; the umbrella holds the agent once
the agent's own release is gone; the umbrella is wanted until its CR is deleted. Every phase's many
calls, their failures, stops and resumes are stutters of it.

### CoveringMode

A value map is reduced to the switches the chart reads: five modes and three components of their
own. `MinimalCoveringTag`, `MinimalCoveringProfile`, `UmbrellaValues`, `GateValues` and
`RequiresExtendedPermissions` are the functions of `internal/component` and
`migration_controller.go`; `Renders` is the chart as the code and its tests describe it, and is
external. The actions are the calls between which something can change: the first phase (derive,
show to Mothership), the readonly patch, the uninstall with its snapshot, the install.
`legacy` behaviours start where an earlier operator version left off: readonly, with a snapshot,
without a mode.

### ComponentLifecycle

`cr` and `status` are the CR, `history` helm's revisions, `told` what Mothership knows. A reconcile
starts with `Read`, which copies the CR to `seen`; the decision (`NeedsInstall`, `NeedsUpgrade`,
rollback requests, deadlines) is made on the copy and `Write` replaces the whole status by the
copy's, as `updateStatus` does. A failing helm call is a disjunct of its action, a stop between
two calls is `Stop`. A report may reach Mothership and a status write after it fail (`WritesFail`):
an error of the kind `write`, or `refresh` where the write would have reopened the deadline.
`Interference` is users and others: version, values, readonly, deletion, Mothership's rollback
request, and a release that is uninstalled or repaired by hand.

### OperatorUpgrade

The controller (`pc`, `todo`, `cur`) and the pod of every job are processes; a job's record holds
its pod's program counter and locals. `JobGone`, `JobSucceeded`, `JobFailed`, `DeleteJob` and
`ClearJob` are `checkUpgradeJobStatus`; `DetectRevision` to `PollDone` the reconcile without a job.
`DryRun` to `RollBack` are `selfupgrade.Service.Run`. Helm's upgrade is two steps, as the pending
revision is visible to the other jobs. `alone`, `before` and `cut` are history: whether somebody
else touched the release while the job ran, the revision it started from, and whether it was
killed or ran out of time. `cur.reported` is the revision in the reconcile's copy of the status,
which later status writes of the same reconcile take along.

### Coexistence and Teardown

Each controller has one worker. `work` is the component reconcile: the CR it is about, its copy,
the next call that matters to the other regime (gate, install, uninstall, forced readonly and its
report, finalizer); `job` is the cluster reconcile: the CR it is about to create because it saw a
release (`ScanReleases`) or was told to (`InstallAction`). `admitted` holds a creation between the
webhook and the store, which is where two creations pass each other. `release` says who installed
a release, so that what a user does by hand is told apart from what the operator does. In
`Teardown` the hook lists once and then works on its copies (`HookMarks`, `HookDeletes`,
`HookWaits`, `HookDeletesCluster`, `HookDeletesCRDs`), and any step of `Coexistence` may come
between, the operator's own adopting and finalizing included: only once the components' CRD has
been deleted is no CR created any more. `hook.took` is history: the CRs the hook has handed off to
the operator, or deleted for good, on which the operator has put no finalizer since.

The scan waits for its own last `Create`, so that `Missing`, which finds no CR, also asks that none
of that name is on its way; creations of users and of actions race it as they do each other.

### Onboarding and LogShipping

`pc` is the call that the cluster reconcile makes next: `Identify`, `Register`, `NoteRegistered`,
`FillIn`, `StartShipping`, `SetUp`, `NoteAvailable`, `CheckKey`, `LoadKey`. A status write is refused
if the CR was edited after the copy was made. The log goroutine is `Receive`, `Tick`, `Post`,
`BeginDrain`, `Drain`; `Fire` is everybody who logs. `accepted`, `posted` and `due` are history:
what the channel took, what a post was tried for, and how much had been taken when the context was
cancelled. `heard` has the IDs Mothership was given.

## 3. What TLC checks

Passing runs:

| run | states | shows |
|---|---|---|
| `migration_safety` | 1.1 M | `NothingLost`, `GuardWhileHalfMigrated`, `LocksReleased`, `SoleOwner`, `AgentHandedOver`, `TypeOK`, and the refinement `KeepsContract`, from every set of individuals, with every failure, a stop between any two calls, a deletion before Finalize, charts installed after the snapshot, and a cluster CR that may go |
| `migration_liveness` | 143 k | `Settles`, `DeletionCompletes` once failures cease, whatever users delete, abort or retrigger, and whatever names fail to resolve |
| `component_safety` | 287 k | `SettledIsDeployed`, `ValuesReachHelm`, `NoPhantomReport`, `NoOrphanRelease`, `RestoresLastDeployed` from every origin |
| `component_liveness` | 121 k | `UpgradeConverges`, `DeletionEnds` (unless the CR is locked), `RevisionReported`, `FollowsRelease`, `TypeOK` from every origin, under every fault, with mid-flight edits, the CR locked and unlocked and the release removed or repaired by others |
| `upgrade_safety` | 377 k | `NoPhantomReport`, `LeftDeployed`, `FailureUndone`, `TypeOK` with two requests, overlapping jobs and two faults |
| `upgrade_liveness` | 28 k | `UpgradeEnds`, `RevisionReported`, `ActionsAnswered` under every fault, beside a direct upgrade |
| `coexistence` | 123 k | `NotBothByOperator`, `TypeOK`; `Adopted`: an individual nobody manages gets a CR; `PutAside`: an individual's CR beside an umbrella becomes readonly |
| `teardown` | 758 k | `ReleasePreserved`: no release goes with a CR the hook handed off, with every step of the operator beside it, until the operator puts a finalizer on a CR of that name again |
| `covering` | 55 k | `NothingDropped` (unless the user names another mode than the derived one, or switches that one off), `MinimalMode`, `GateCoversInstall`, `PermissionsSuffice` from every set of nine kinds of charts, twelve choices of the user, with and without extended permissions, migrated at once or resumed from an earlier version |
| `onboarding` | 124 k | `OneIdentity`, `NoEntryLost`, `AvailabilityFollowsKey`, `EntriesShipped`, `TypeOK` with failing calls, kills and shutdowns, rotations of the key and edits by others |

`CHECK_DEADLOCK` is off in all of them: a migration that is over, a component at rest and an
operator with nothing to do are states in which nothing further has to happen, and budgets of
faults and edits run out.

Two runs expect a violation of what a comment says:

- `covering_customizations`: `migration_controller.go:607-611` says that each present individual's
  values are carried over, so that customizations "are not silently dropped during migration",
  fetched "before the individuals are uninstalled/forgotten". They are fetched in InstallUmbrella,
  from the individuals helm then finds, and the phase before it has uninstalled the spot-handler and
  the cluster-controller.
- `teardown_readopted`: `cleanup.go:57-59` and `:166` say of the hook's label that it preserves the
  umbrella's release, which "stays preserved either way". The hook lists once: when the labelled CR
  has gone, the scan of the operator, which still runs, finds a release without a CR and adopts it
  in a new one, without the label (`cluster_controller_scan.go:208`); that CR gets its finalizer
  (`component_controller.go:226`), is deleted with the CRD, and the operator uninstalls the umbrella.

### Deviations the models reach that no run is kept for

Each row names the constants to change in the passing run's configuration and the property that
then falls. They are switched off, by these constants, in the passing runs of those properties, so
what these runs show holds outside of them; `ReleaseRestored`, `LockedDeletionEnds` and `ChoiceWins`
are properties of no run. The MC modules have the values named here.

| deviation | module, constants | property |
|---|---|---|
| A chart installed after the mode was derived, before the snapshot, is absorbed by a mode that does not render it (`migration_controller.go:433`) | `UmbrellaMigration`, `DriftPhases <- BeforeSnapshot` | `NothingLost` |
| A name that Mothership does not resolve hides an individual; the migration succeeds beside it (`migrationgate.go:138`) | `PartialOutage = TRUE` | `SoleOwner` |
| `spec.migrate` set again after a success runs a migration with nothing to restore; its rollback uninstalls the umbrella (`:148`) | `Retriggers <- AfterSuccess` | `NothingLost`, `GuardWhileHalfMigrated`, `SoleOwner` |
| A user clears `spec.migrate` and `spec.readonly` mid-flight; the repair reports a rollback that nobody ran (`:1232`) | `UserAborts = TRUE` | `NothingLost`, `LocksReleased`, `SoleOwner` |
| An individual without a CR is uninstalled and not in the snapshot (`:512`) | `Orphans = TRUE` | `NothingLost` |
| The umbrella CR deleted in Finalize is rolled back when the individuals' CRs are already retired: the umbrella goes, and nothing brings them back (`:1048`; the comment at `:23-26` has the deletion "converted into a rollback that restores the individual regime") | `DeletablePhases <- OnlyFinalize` | `NothingLost`, `SoleOwner` |
| An umbrella CR that is readonly without the finalizer when its migration begins gets no guard (`:303`, a deliberate choice for the resume of an older version's migration) | `BornReadonly = TRUE` | `GuardWhileHalfMigrated`, `LocksReleased`, `NothingLost` |
| Without the cluster CR the guard cannot be released from a readonly CR (`:1066`) | `Phase1FairSpec`, `ClusterMayGo = TRUE` | `DeletionCompletes` |
| Values changed during an install or upgrade are marked as observed on its completion and never handed to helm (`component_controller.go:1122`, against `api/v1alpha1/component_types.go:128`) | `ComponentLifecycle`, `MidFlight = TRUE` | `ValuesReachHelm` |
| A rollback that Mothership asked for fails: the component stays available and settled over a failed release (`:1006`, `:1159`) | `Edits <- UpgradeEdits`, `Faults <- TwoFailures` | `SettledIsDeployed` |
| Values are marked as observed although the process stopped, or the chart was not there, before helm had them: the release that ran before looks like the operation's success (`:1122`) | `Faults <- MoreFaults` | `ValuesReachHelm` |
| The note of the reported revision outlives a release that others uninstall: its successor counts from one (`:1304`) | `Edits <- Removal` | `NoPhantomReport` |
| A release that others repair under a lock is rolled back by the deadline of the operation that was in progress before (`:285`) | `Edits <- LockEdits` | `RestoresLastDeployed` |
| A release uninstalled while its CR was locked is not reinstalled when it is unlocked (`:403`) | liveness run, `Edits <- Removal`, `MaxEdits = 3` | `ReleaseRestored` |
| An upgrade whose chart cannot be fetched added no revision; the rollback goes one too far (`:1006`) | `Faults <- OnlyFetch` | `RestoresLastDeployed` |
| A failed rollback is itself rolled back, to the failed upgrade (`:1159`) | `Faults <- TwoFailures` | `RestoresLastDeployed` |
| The write that reopens the deadline after the rollback of an overdue operation fails: the next reconcile rolls back again, to the revision that failed (`:343`) | `Faults <- NotReopened` | `RestoresLastDeployed` |
| An upgrade that succeeded while the operator was down past the deadline is rolled back (`:285`) | `Downtime = TRUE` | `RestoresLastDeployed` |
| A CR that is deleted while it is locked, or that a reconcile under way locks when its migration is overdue (`:300`), loses its release and stays: its finalizer cannot be removed (`:822`) | liveness run, `Edits <- LockedDelete` | `LockedDeletionEnds` |
| A first install that is cut off leaves a pending release; locked and unlocked with another version asked for, the CR has it upgraded and fail, over and over (`:180`, `:1006`) | liveness run, `Edits <- LockedVersion`, `MaxEdits = 3` | `UpgradeConverges` |
| An upgrade of the operator that fails before helm recorded a revision, followed by a failing read, is "rolled back" from the version that runs to the one before it (`selfupgrade.go:156`) | `OperatorUpgrade`, `Faults <- NotStarted` | `FailureUndone` |
| With two individuals and a name that does not resolve, the umbrella's gate skips the one that is there (`component_controller.go:372-374`) | `Coexistence`, two `Subs`, `PartialOutage = TRUE` | `NotBothByOperator` |
| The CR's values change between the permission gate and the readonly patch (`migration_controller.go:433`) | `CoveringMode`, `LateEdits = TRUE` | `GateCoversInstall` |
| The user's choice of a mode and the derived one are merged switch by switch, so that both may be on; the comment at `migration_controller.go:591-592` says "an explicit user choice still wins", `umbrella_tags.go:38-40` that "exactly one" tag "is expected to be set" | `CoveringMode`, as in the passing run | `ChoiceWins` |

Traces the models also have, which no property here is about:

- *Migration.* A rollback that is interrupted after it reinstalled a covered chart blocks the next
  install on that chart; a migration set again after a rollback stays in the rolled-back phase.
- *Components.* A rollback request of Mothership is lost to a status write from an older copy; an
  install that left no release stays in progress; a reconcile that read the CR before it was
  locked still changes the release; a release repaired after a timed out take-over is locked again
  by the old condition's age.
- *Coexistence.* A CR that was forced readonly stays so when the umbrella is removed: the readonly
  path returns before the check that would say "component management resumed"
  (`component_controller.go:591`). A stop between the forced readonly and the status write leaves
  the conflict out of the status. An individual release nobody manages, beside an umbrella CR that
  is itself held back by it, is adopted by neither side.
- *Teardown.* What the re-adoption of `teardown_readopted` does to the umbrella it does to an
  individual too, and a finalizer that the operator puts on a CR after the hook listed it without
  one, or put back by a reconcile that read the CR before the hook took its finalizer
  (`component_controller.go:597-602` reads it again), has the same end. This is why
  `ReleasePreserved` speaks of a component only until then. The hook's update of a readonly CR
  with a finalizer is refused by the webhook, and
  so is the removal of a finalizer when the cluster CR has gone: the hook then fails each time.
- *Modes.* live is absorbed, and left off by the defaults of every tag
  (`umbrella_tags.go:163-169`); a tag chosen by the user beside another derived one switches two
  modes on (`ChoiceWins`), and so does kent set after a tag was derived; a migration of an
  earlier version that is resumed derives its mode without the spot-handler and the
  cluster-controller, which are gone by then: every mode has the former, readonly has not the latter.
- *Onboarding.* A `spec.cluster` without an ID, made by a user or by the operator's own patch when
  a stop lost the registration's answer and the agent's logs show none, is never filled in: the
  webhook refuses the change, though `cluster_types.go:36-39` says that what is missing is filled
  in at runtime. A secret whose key is removed leaves the cluster available, as the reconcile
  returns before the check. An entry logged after the log goroutine returned is lost.
- *Operator upgrade.* Two upgrades created in the same second share one job, and the second
  version is never tried; of two jobs only the last is tracked; an upgrade that did not start,
  followed by a good check, ends as a success; the job's liveness probe, which nothing in the
  `upgrade` command answers, may kill it.

### Bounds

- Migration: the three sub-components are always all there. One covered chart is enough for each
  of the code's treatments of it (in the mode or not, snapshotted, reinstalled, reported), two let
  the loops over them be interrupted in the middle: the safety properties also hold with
  `TwoCovered` and `TwoModes` (6.6 million states, four minutes), which is kept out of the runs
  for its time only. There is no counter: the number of failures and stops is unbounded.
- Component: `MaxEdits = 3` lets a version go and come back and be deleted, `MaxFaults = 2` lets
  the recovery from a fault fail, three versions tell the previous one from the one before it.
  In the liveness run `MaxEdits = 2` lets one edit of any kind follow another (a lock and a repair,
  a version and a deletion); what a third one reaches is in the deviations.
- Upgrade: `MaxRequests = 2` is what overlapping jobs need, `MaxFaults = 2` lets a rollback fail
  after what it is for, `Installed` starts with one revision (nothing to roll back to) or two.
  `MaxDirect = 1` holds in the safety run too (5.2 million states, three minutes), and is left to
  the liveness run.
- Coexistence: one individual, as each is treated alone but for `PartialOutage`, which needs two
  and is off in this run; `MaxEdits = 2` lets a user create on one side while an action or a second
  creation is under way on the other. Restarts are unbounded. Teardown: `MaxEdits = 1` is what
  brings a CR or a release the operator did not make; the hook runs once and may fail at any call.
  `ReleasePreserved` also holds when it is then started again (`MaxRuns = 2`, as its job's
  `backoffLimit` has it: 4.1 million states, three minutes), which is kept out of the run for its
  time only. The theorems have neither bound.
- Covering: one chart or two of every kind the derivation tells apart, and every kind of choice:
  none, one mode on, kent off, a switch of a chart's own on or off, two modes.
- Onboarding: two IDs are the fewest that can differ; `SomeOfEach` has behaviours with two
  rotations, an edit and two faults and no entries, with six entries (more than `Capacity`, which
  is five at `BatchSize = 2`) and one fault, and one between. Their product is not checked: the two
  halves share the hook's target only. The theorems about both have no bounds.

### Fairness

- `UmbrellaMigration`: a reconcile that returned an error is retried and an idle one is requeued
  (`WF` on `Advance`), controller-runtime retries the component reconciler's deletion (`WF` on
  `CleanUp`), and time passes (`WF` on `VerifyDeadline`). `FailuresCease` states the assumption
  under which a retry loop can end at all: from some point on calls succeed. Users and the cluster
  owe nothing.
- `ComponentLifecycle`: `WF` on `Reconcile` for the same reason (watches, `RequeueAfter` in every
  path that waits, retries) and on `Deadline`. Faults end with their budget.
- `OperatorUpgrade`: `WF` on `Controller` (every path of the reconcile requeues or returns an
  error) and on each job's pod: Kubernetes schedules it and it runs. The code has no answer to a
  pod that is never scheduled: the reconcile then does nothing but look at the job, and
  `UpgradeEnds` is false without that assumption.

- `Coexistence`: `WF` on the controllers' calls, which return; `SF` on beginning a CR's reconcile,
  on scanning an individual, on forcing readonly and on the scan's creation, which restarts and
  failing calls may disable again and again but do not hit for ever; `WF` on the API server that
  stores what it admitted. Nothing users do is fair.
- `Onboarding`: `WF` on the reconcile (every path requeues), on the log goroutine (its ticker
  fires), and on the restart of a process that ended. Faults end with their budget.

## 4. What TLAPS proves

| theorem | says | argument |
|---|---|---|
| `UmbrellaMigrationProofs!TypeCorrect` | `TypeOK` for every set of covered charts, modes and environment | inductive as it stands, one lemma per action |
| `UmbrellaMigrationProofs!AgentHandover` | no step gives up the agent's release before the umbrella is deployed and owns its workloads, if users delete the umbrella CR only before Finalize | invariant `HandoverInv`: which phase each call belongs to (`PhaseOf`), the umbrella is deployed from Verify's success on (`VerifiedDeployed`), and the uninstall loop never has the agent |
| `UmbrellaMigrationProofs!GuardHolds` | the finalizer that turns a deletion into a rollback is on from the first uninstall to the end of the migration, if the CR is not born readonly and no migration is set again | invariant `GuardInv`: a migration in flight has the guard (`Armed`), or it has taken nothing down yet and the reconcile's copy does not say that the guard is there already (`Harmless`) |
| `UmbrellaMigrationProofs!LocksGo` | a migration that ended left no individual readonly, unless it reported the umbrella as still there; also nobody ends it by hand | `LockInv` adds that no lock precedes the guard (`Untouched`), and what the last loop of Finalize (`Retiring`) and of the rollback (`Unwinding`, `Reenabling`) has done so far |
| `ComponentLifecycleProofs!TypeCorrect` | `TypeOK` for all versions, origins, edits, faults and budgets | inductive |
| `ComponentLifecycleProofs!NoOrphan` | a release that the operator installed does not outlive its CR | invariant `OwnerInv`: a release exists only while the CR has its finalizer, the copy of a running reconcile that may install has it too, and the finalizer goes only after the uninstall |
| `ComponentLifecycleProofs!OnlyToldIsNoted` | a revision noted as reported was reported, unless others uninstall the release | invariant `ReportInv`: a note is vouched for in the status and in the reconcile's copy (`Vouched`), or its release is gone and the CR is going (`Departing`) |
| `ComponentLifecycleProofs!SettledRuns` | an available component with nothing left to do runs the version it reports, if requested rollbacks succeed (`RequestsSucceed`) | `SettledInv`: a claim is true whenever it is made (`TrueClaim`), the calls that could make it false are made while the status claims nothing (`Dirty`), and a rollback that was asked for goes back to what is claimed (`AskedBack`) |
| `ComponentLifecycleProofs!ValuesArrive` | the values of a settled component were handed to helm, under `Orderly` | `HandInv` adds that the copy has the CR's values (`SameValues`) and that values which no revision has are still owed (`Owed`): the component is neither at rest nor given up, and an upgrade comes first |
| `ComponentLifecycleProofs!LastDeployedRestored` | a rollback nobody asked for restores the last deployed revision, under `Calm` | `RestInv`: of the last two revisions one is deployed, as upgrades go out over a deployed one (`Backed`, `Unwell`, `Decided`), and it is the former one, as the operator turns to a rollback only over a revision that failed or hangs (`ToUndo`, `Late`) |
| `OperatorUpgradeProofs!TypeCorrect` | `TypeOK` for all versions, faults and budgets: a job is deleted only while the status names one | inductive, by the parts of `TypeOK` that a step can disturb |
| `OperatorUpgradeProofs!OnlyToldIsNoted` | a revision noted as reported was reported | invariant `ReportInv`: the same holds of the copy of the status that a running reconcile will write |
| `OperatorUpgradeProofs!NoFailedLeft` | when all jobs are over and none was cut off, the operator's release is deployed, for any number of jobs that overlap | invariant `AnswerInv`: somebody answers for a release that is not deployed (`Answers`): the pod whose upgrade is pending, one that looks at the failed release or rolls it back, or a job that was cut off |
| `OperatorUpgradeProofs!FailedJobUndone` | a job that had the release to itself and failed in time leaves what ran before, if an upgrade that helm begins is recorded | `UndoInv`: a job that nobody disturbed is the only one that runs, and from its upgrade on the revision before the latest is the one it started from |
| `MigrationContractProofs!ContractKept` | the migration implements `MigrationContract`, where users do not delete the umbrella CR in Finalize, abort by hand or set the migration again (`Ordinary`) | `ContractInv` adds to `HandoverInv` what holds once the agent's release is gone (`AgentGone`: umbrella deployed and wanted, and no way back) and when it must be (`Retired`); then one lemma per action says which step of the contract, or that none, it is |
| `MigrationContractProofs!SoleOwnership` | a migration reported successful has left the umbrella and nothing else, where `ContractKept` holds and names resolve | `SoleInv` adds to `ContractInv` what the loops have taken down so far (`OnlyTheAgent`), and that the end of Finalize, its repair and its report come after the last individual (`AllRetired`) |
| `MigrationContractProofs!NothingIsLost` | everything users had installed has a release, a CR, a place in the snapshot or an umbrella that renders it, or is reported, under `Undisturbed` | `LossInv` adds to `ContractInv` and `LockInv`, at each phase and inside each loop, that what is gone is in the snapshot, restored, reported or rendered (`Recorded`, `CoveredLoops`), and that the mode and the umbrella render what there was (`ModeCovers`, `AllRendered`) |
| `CoexistenceProofs!TypeCorrect` | `TypeOK` for any set of individuals and any number of edits | one lemma per action |
| `CoexistenceProofs!OneSide` | the operator never has both regimes installed, if names resolve all together or not at all | invariant `GateHolds`: a reconcile that is past its gate and the other side's release exclude each other, because there is one worker |
| `TeardownProofs!TeardownTypeCorrect` | the types of `Coexistence` and of the hook's own variables through failures and restarts of the hook | the step lemma of `CoexistenceProofs` for what the operator does beside the hook, and one lemma for the hook's calls |
| `TeardownProofs!OneSideInTeardown` | the hook does not bring the two regimes together, if names resolve all together or not at all | `GateHolds` again, which the hook's calls leave alone |
| `TeardownProofs!ReleaseKept` | only users take down the release of a component whose CR the hook handed off, until the operator puts a finalizer on a CR of that name | `ReleaseInv`: a CR handed off has no finalizer, or is the umbrella's and marked, and the copy of a reconcile that uninstalls it is the umbrella's and marked (`Taken`); a CR keeps its mark as long as its finalizer (`Persists`) |
| `CoveringModeProofs!Complete` | if the user names no mode but the derived one, and leaves that on, what ran standalone is rendered, or is a chart that the mode leaves off (`LeftOff`), for every set of charts and all other values; a resumed migration that derives readonly loses the cluster-controller | `CoverInv`: the recorded mode covers (`Covers`) what was there when the migration began, or the snapshot of one that is resumed; `KeptRenders`: of the user's other switches only those of live and of the cluster-controller change what that mode renders |
| `CoveringModeProofs!Minimal` | no tag that has all the charts that were there is smaller than the derived one, for every set of charts | `OriginInv`: the mode was derived from charts that were there at the start, all of them or, in a migration that is resumed, those of the snapshot and those still there; `TagSizes` counts the code's tables, `TagMinimal` compares them |
| `CoveringModeProofs!AgreedTo` | Mothership has agreed to every chart the install renders, under `PlainChoice` | `GateInv` keeps what was shown; `InstallWithinShown` compares the two merges switch by switch |
| `CoveringModeProofs!WithinPermissions` | without extended permissions only readonly charts are rendered | `ReadonlyRenders`: what the webhook admits has the readonly tag on, and any second mode renders nothing |
| `OnboardingProofs!OneClusterID` | reports and entries go under the ID in the spec | `Identity`: an ID in the reconcile's copy is the CR's |
| `OnboardingProofs!EntriesKept` | entries are posted once, in order, and before the process ends | `Kept` and `Counts`: posts, batch and channel are what was accepted, and from the end of the drain on the batch completes what was due |
| `OnboardingProofs!TypeCorrect` | `TypeOK` for all IDs, faults, budgets and batch sizes | the same invariant, with `Versions` |

The assumptions are those named in the modules (`ModesAssumption`, `EnvironmentAssumption`,
`LifecycleAssumption`, `UpgradeAssumption`, `CoexistenceAssumption`, `TeardownAssumption`,
`CoveringAssumption`, `ShippingAssumption`, `OnboardingAssumption`), which TLC evaluates for the
instances, and the hypotheses in the statements, which the instances of the passing runs satisfy:

| theorem | hypothesis | without it |
|---|---|---|
| `AgentHandover` | users delete the umbrella CR only before Finalize | false, with the deletion in Finalize |
| `ContractKept`, `SoleOwnership` | `Ordinary`: that, no abort by hand, no migration set again; for `SoleOwnership` also that names resolve | false, for each part |
| `GuardHolds` | not born readonly, no migration set again | false, for either |
| `LocksGo` | those of `GuardHolds`, and no abort by hand | false if born readonly or aborted; that no migration is set again is what `GuardInv` needs, and TLC finds no lock left without it |
| `NothingIsLost` | `Undisturbed`: `Ordinary`, names resolve, every individual has a CR, not born readonly, no chart installed between the derivation and the snapshot | false, for each part |
| `ComponentLifecycleProofs!OnlyToldIsNoted` | others do not uninstall the release | false: the note outlives the release it was about |
| `SettledRuns` | nobody asks for a rollback, or rollbacks go through | false: the release is left failed, the status untouched |
| `ValuesArrive` | `Orderly`: that; no edit while an operation is in progress; charts and versions are there; no stop between two calls | false, for each part |
| `LastDeployedRestored` | `Calm`: no unlock or repair by others; charts are there, no stop between two calls, rollbacks go through and reopen the deadline; no downtime past a deadline | false, for each part |
| `FailedJobUndone` | an upgrade that helm begins is recorded | false (`Faults <- NotStarted`) |
| `OneSide`, `OneSideInTeardown` | release names resolve all together or not at all | `OneSide` is false |
| `AgreedTo` | `PlainChoice`: no edit behind the gate; who switches a mode off switches none on | false, for either: Mothership was shown both modes |

"False" is TLC's answer, with the hypothesis dropped from the passing run's instance; most of these
are the deviations listed above, and the hypotheses are the reason why the theorems are worth
having: they say that nothing else goes wrong.

`AgentHandover`'s hypothesis is why `PhaseOf` is needed: the agent's release is given up in one
call only, `ForgetAgent`, which asks nothing of the umbrella itself; that it comes after a
successful Verify is a fact about `pc` and the phase, and that nothing takes the umbrella down in
between is a fact about who may uninstall it.

`NothingIsLost` is about loops that stop anywhere. The invariant says of every part that users
installed who has it (its own release, its CR, the snapshot, a report, the umbrella), for each loop
before and after the loop reached it; the umbrella has it only through the mode, and hence only what
was there when the mode was derived: `Undisturbed` is what makes the two sets the same.

`SettledRuns`, `ValuesArrive` and `LastDeployedRestored` are about copies. A reconcile decides on a
copy, calls helm, and writes the copy back, over whatever others have written; each invariant says
what must hold of the CR, of the copy and of the release for every call the reconcile can be at.
`RestInv` is the largest, because the deadline may start a rollback at any reconcile: that nothing
would be rolled back that is deployed has to hold of the status at every call, not at rollbacks only.

Every safety invariant and action property of the passing runs is stated by a theorem. Only
model-checked are the liveness properties: `Settles`, `DeletionCompletes`, `UpgradeConverges`,
`DeletionEnds`, `RevisionReported`, `FollowsRelease`, `UpgradeEnds`, `ActionsAnswered`, `Adopted`,
`PutAside`, `AvailabilityFollowsKey`, `EntriesShipped`. Liveness under fairness and `ENABLED` are out
of the prover's reach, and so are induction over data and `RECURSIVE` operators; none of the modules
uses one.

## 5. What is not modelled

- Values beyond the switches of `CoveringMode`: the other models number sets of values; what a
  merge computes is a pure function over nested maps.
- Versions: which version a scan detects, an action names or a webhook defaults to (after a failed
  detection, the latest one), and Mothership's validation of it.
- Permissions of single components: the phase-2 upgrade of the spot-handler, and the correction of
  values of CRs whose permissions changed.
- What Mothership is told besides the helm revision and the installation: the messages are sent
  and never read again. Conditions nobody reads, and the text of failures.
- HTTP and authentication, certificates, probes, parameter extraction, role bindings, developer
  tools: I/O without state that the modelled parts read.
- Informer lag: a Get returns the API server's state. The stale copy of a running reconcile, which
  has the same effect for longer, is modelled.
- The migration beside a second umbrella or beside the scan: `Coexistence` never sets
  `spec.migrate`, and `UmbrellaMigration` has the component reconciler only as far as it touches
  the CRs of a migration.

## 6. Plan

The modules above are the plan's first seven steps, and the safety properties of all of them are
proved. What is left to prove:

1. `LocksReleased` with a migration that is set again: TLC finds it true of the instances, but
   `GuardInv`, on which `LockInv` rests, is not an invariant there.
2. The safety half of `PutAside` and `Adopted`: which calls may clear a lock, or leave an individual
   unmanaged, between the two ends of the liveness property.
3. A contract for `ComponentLifecycle` of the kind of `MigrationContract` (idle, working, undoing,
   gone), which `SettledInv` and `RestInv` already have the cases of.
