-------------------------- MODULE UmbrellaMigration --------------------------
(***************************************************************************)
(* The migration of a cluster from individually installed charts to the    *)
(* umbrella chart: MigrationReconciler and its phases                      *)
(*   MarkReadonly -> UninstallIndividuals -> InstallUmbrella -> Verify     *)
(*     -> Finalize,  or  RolledBack.                                       *)
(*                                                                         *)
(* A reconcile is a sequence of API and helm calls; each call that changes *)
(* the cluster is an action, and between two of them the process may stop, *)
(* a call may fail, and users may act.  pc, todo, present and seen are the *)
(* locals of the reconcile that is running (there is one worker) and are   *)
(* lost with it; everything else is in the API server or in helm's store.  *)
(*                                                                         *)
(* Simplifications:                                                        *)
(*  - release names are resolved to the default ones, and a chart has at   *)
(*    most one release;                                                    *)
(*  - a mode (tag or kent profile) is the set of parts it renders;         *)
(*  - the values carried over into the umbrella install are left out;      *)
(*  - a cluster CR that exists is available (an unavailable one is a       *)
(*    reconcile that does nothing);                                        *)
(*  - a Get returns the API server's state (no informer lag);              *)
(*  - of the validating webhook, the checks on spec.readonly and on the    *)
(*    cluster CR are kept; versions, values and permissions pass.          *)
(***************************************************************************)
EXTENDS Naturals

CONSTANTS
  Covered,         \* charts the umbrella renders that have no Component CR
  Modes,           \* the sets of parts the umbrella's modes render
  DeletablePhases, \* phases in which a user may delete the umbrella CR
  DriftPhases,     \* phases in which a user may install a covered chart
  PartialOutage,   \* Mothership may fail to resolve some of the release names
  ClusterMayGo,    \* the cluster CR may be deleted mid-migration
  Orphans,         \* an individual's release may have no Component CR
  BornReadonly,    \* the umbrella CR is already readonly, with no guard on it
  UserAborts,      \* a user may clear spec.migrate and spec.readonly mid-flight
  Retriggers       \* outcomes after which a user sets spec.migrate again

Umbrella      == "castai-umbrella"   \* release of the umbrella chart
Agent         == "castai-agent"
SpotHandler   == "spot-handler"
ClusterCtrl   == "cluster-controller"
Subcomponents == {Agent, SpotHandler, ClusterCtrl}
Parts         == Subcomponents \cup Covered

\* Position in migrationgate.Subcomponents.
Rank == [s \in Subcomponents |->
           IF s = Agent THEN 1 ELSE IF s = SpotHandler THEN 2 ELSE 3]

None             == ""
MarkReadonlyP    == "MarkReadonly"
UninstallP       == "UninstallIndividuals"
InstallP         == "InstallUmbrella"
VerifyP          == "Verify"
FinalizeP        == "Finalize"
RolledBackP      == "RolledBack"
Phases == {None, MarkReadonlyP, UninstallP, InstallP, VerifyP, FinalizeP, RolledBackP}

\* Reasons of the Migrating condition that the model tells apart.
Reasons == {"none", "progress", "blocked", "degraded", "succeeded", "failed"}

NoMode == {}   \* no mode derived yet: every mode renders at least the agent

ASSUME ModesAssumption ==
  /\ Covered \cap (Subcomponents \cup {Umbrella}) = {}
  /\ Modes \subseteq SUBSET Parts
  /\ Parts \in Modes                        \* castai's "full" tag
  /\ \A M \in Modes : {Agent, SpotHandler} \subseteq M

ASSUME EnvironmentAssumption ==
  /\ DeletablePhases \subseteq Phases
  /\ DriftPhases \subseteq Phases
  /\ {PartialOutage, ClusterMayGo, Orphans, BornReadonly, UserAborts} \subseteq BOOLEAN
  /\ Retriggers \subseteq {"succeeded", "failed"}

VARIABLES
  cr,         \* umbrella CR: existence, deletion, spec flags, finalizers
  status,     \* umbrella CR status: phase, derived mode, snapshot, condition
  overdue,    \* the Verify phase is older than verifyTimeout
  clusterUp,  \* the cluster CR exists
  kept,       \* sub-component CRs that exist
  locked,     \* those of them with spec.readonly set
  individual, \* sub-components whose own helm release exists
  standalone, \* covered charts whose own helm release exists
  umbrella,   \* umbrella helm release: its status and the parts it renders
  agentPods,  \* the release that owns the agent's workloads, or "none"
  pc,         \* the call the running reconcile makes next, or "idle"
  todo,       \* what is left of the loop it is in
  present,    \* the individuals it found at its start
  seen,       \* its in-memory copy of the umbrella CR
  ever,       \* (history) parts users installed and have not removed
  unresolved  \* (history) what a rollback reported it could not undo

umbrellaCR == <<cr, status, overdue, clusterUp>>
subCRs     == <<kept, locked>>
releases   == <<individual, standalone, umbrella, agentPods>>
locals     == <<pc, todo, present, seen>>
history    == <<ever, unresolved>>
vars       == <<umbrellaCR, subCRs, releases, locals, history>>

------------------------------------------------------------------------------
(* Helpers *)

Blank      == [guard |-> FALSE, readonly |-> FALSE, cleanup |-> FALSE,
               mode |-> NoMode, absorbed |-> {}]
NoUmbrella == [release |-> "absent", renders |-> {}]
Deployed   == umbrella.release = "deployed"

\* The reconcile reads the CR and goes on to the call named next.
Enter(next) ==
  /\ pc' = next
  /\ seen' = [guard |-> cr.guard, readonly |-> cr.readonly, cleanup |-> cr.cleanup,
              mode |-> status.mode, absorbed |-> status.absorbed]

\* The reconcile returns; its locals are gone.
Return == pc' = "idle" /\ todo' = {} /\ present' = {} /\ seen' = Blank

\* The first, or last, of a loop's remaining sub-components in list order.
First(s) == s \in todo /\ \A t \in todo : Rank[s] <= Rank[t]
Last(s)  == s \in todo /\ \A t \in todo : Rank[t] <= Rank[s]

\* Reconcile starts on a CR that is neither deleting nor out of migration, and
\* dispatches on the recorded phase.
Dispatch(phases) ==
  /\ pc = "idle" /\ cr.exists /\ ~cr.deleting /\ cr.migrate /\ clusterUp
  /\ status.phase \in phases

\* ValidateUpdate on an update that leaves spec.readonly as it is, and on one
\* that clears it: a CR readonly in both states is rejected, the others are
\* validated against the cluster CR.  Setting readonly alone is always let in.
AdmitsEdit(readonly) == ~readonly /\ clusterUp
AdmitsClear          == clusterUp

\* What is left of the CR when a finalizer goes: the API server removes a
\* deleting object with its last one.
Released(c) == [c EXCEPT !.exists = c.exists /\ (~c.deleting \/ c.guard \/ c.cleanup)]

\* The sub-components InstalledSubcomponents can report: ResolveNames skips the
\* names Mothership fails to resolve and errs only if none resolves.
Visible ==
  {individual \cap v : v \in IF PartialOutage THEN SUBSET Subcomponents \ {{}}
                                              ELSE {Subcomponents}}

\* migrationModeFor: a smallest mode that renders everything in S.
CoveringModes(S) ==
  {M \in Modes : S \subseteq M /\ \A N \in Modes : S \subseteq N /\ N \subseteq M => N = M}

\* setMigrationPhase: phase, start time and condition in one status write.
SetPhase(p) ==
  /\ cr.exists
  /\ status' = [status EXCEPT !.phase = p, !.cond = "progress"]
  /\ overdue' = FALSE
  /\ Return
  /\ UNCHANGED <<cr, clusterUp, subCRs, releases, history>>

\* setMigratingFalse, then the reconcile returns.
SetMigratingFalse(reason) ==
  /\ cr.exists
  /\ status' = [status EXCEPT !.cond = reason]
  /\ Return
  /\ UNCHANGED <<cr, overdue, clusterUp, subCRs, releases, history>>

\* The running reconcile calls rollback with the copy of the CR it has.
StartRollback ==
  pc' = "rollback" /\ todo' = {} /\ present' = {} /\ UNCHANGED seen

------------------------------------------------------------------------------
(* MarkReadonly *)

\* The present set is probed and the mode derived from it, written once.
DeriveMode ==
  /\ Dispatch({None, MarkReadonlyP})
  /\ \E p \in Visible :
       \E M \in IF status.mode = NoMode THEN CoveringModes(p \cup standalone)
                                        ELSE {status.mode} :
         /\ present' = p
         /\ status' = [status EXCEPT !.mode = M]
         /\ seen' = [guard |-> cr.guard, readonly |-> cr.readonly, cleanup |-> cr.cleanup,
                     mode |-> M, absorbed |-> status.absorbed]
  /\ pc' = "gate" /\ todo' = {}
  /\ UNCHANGED <<cr, overdue, clusterUp, subCRs, releases, history>>

\* Mothership answers the permission gate: allowed, or refused with a reason.
PermissionGate ==
  /\ pc = "gate"
  /\ \/ pc' = "arm" /\ UNCHANGED <<umbrellaCR, subCRs, releases, todo, present, seen, history>>
     \/ SetMigratingFalse("blocked")

\* A plausible bug: readonly is set first and the guard patch is then rejected.
ArmGuardSkipped ==
  /\ pc = "arm" /\ pc' = "lock"
  /\ UNCHANGED <<umbrellaCR, subCRs, releases, todo, present, seen, history>>

\* The deletion guard goes on while the CR is writable; on a resume it is there,
\* and a CR that is already readonly goes on without.  The merge patch sends the
\* whole finalizer list as it was read.
ArmGuard ==
  /\ pc = "arm" /\ pc' = "lock"
  /\ \/ (seen.guard \/ seen.readonly) /\ UNCHANGED cr
     \/ /\ ~seen.guard /\ ~seen.readonly
        /\ cr.exists /\ ~cr.deleting /\ AdmitsEdit(cr.readonly)
        /\ cr' = [cr EXCEPT !.guard = TRUE, !.cleanup = seen.cleanup]
  /\ UNCHANGED <<status, overdue, clusterUp, subCRs, releases, todo, present, seen, history>>

\* The umbrella CR goes readonly, which sidelines ComponentReconciler.
LockUmbrella ==
  /\ pc = "lock" /\ pc' = "lock subs" /\ todo' = present
  /\ \/ seen.readonly /\ UNCHANGED cr
     \/ /\ ~seen.readonly /\ cr.exists /\ ~cr.readonly
        /\ cr' = [cr EXCEPT !.readonly = TRUE]
  /\ UNCHANGED <<status, overdue, clusterUp, subCRs, releases, present, seen, history>>

\* The CR of each present individual goes readonly; one without a CR is skipped.
LockSub(s) ==
  /\ pc = "lock subs" /\ First(s)
  /\ locked' = locked \cup ({s} \cap kept)
  /\ todo' = todo \ {s}
  /\ UNCHANGED <<umbrellaCR, kept, releases, pc, present, seen, history>>

MarkReadonlyDone == pc = "lock subs" /\ todo = {} /\ SetPhase(UninstallP)

------------------------------------------------------------------------------
(* UninstallIndividuals *)

\* A plausible bug: a resume takes the snapshot again.
SnapshotCoveredAgain ==
  /\ Dispatch({UninstallP})
  /\ status' = [status EXCEPT !.absorbed = standalone]
  /\ seen' = [guard |-> cr.guard, readonly |-> cr.readonly, cleanup |-> cr.cleanup,
              mode |-> status.mode, absorbed |-> standalone]
  /\ todo' = standalone
  /\ present' \in Visible
  /\ pc' = "uninstall covered"
  /\ UNCHANGED <<cr, overdue, clusterUp, subCRs, releases, history>>

\* The present set is probed again, the covered releases are listed, and unless
\* a snapshot is there already they are recorded in the status.
SnapshotCovered ==
  /\ Dispatch({UninstallP})
  /\ LET recorded == IF status.absorbed = {} THEN standalone ELSE status.absorbed IN
       /\ status' = [status EXCEPT !.absorbed = recorded]
       /\ seen' = [guard |-> cr.guard, readonly |-> cr.readonly, cleanup |-> cr.cleanup,
                   mode |-> status.mode, absorbed |-> recorded]
       /\ todo' = standalone \cap recorded
  /\ present' \in Visible
  /\ pc' = "uninstall covered"
  /\ UNCHANGED <<cr, overdue, clusterUp, subCRs, releases, history>>

\* A snapshotted release is uninstalled, in listing order.
UninstallCovered(c) ==
  /\ pc = "uninstall covered" /\ c \in todo
  /\ standalone' = standalone \ {c}
  /\ todo' = todo \ {c}
  /\ UNCHANGED <<umbrellaCR, subCRs, individual, umbrella, agentPods, pc, present, seen, history>>

\* The uninstall fails, before or after the release's record was deleted.
UninstallCoveredFails(c) ==
  /\ pc = "uninstall covered" /\ c \in todo
  /\ standalone' \in {standalone, standalone \ {c}}
  /\ StartRollback
  /\ UNCHANGED <<umbrellaCR, subCRs, individual, umbrella, agentPods, history>>

\* A plausible bug: the agent is uninstalled with the others.
UninstallCoveredDoneWithAgent ==
  /\ pc = "uninstall covered" /\ todo = {}
  /\ pc' = "uninstall subs" /\ todo' = present
  /\ UNCHANGED <<umbrellaCR, subCRs, releases, present, seen, history>>

UninstallCoveredDone ==
  /\ pc = "uninstall covered" /\ todo = {}
  /\ pc' = "uninstall subs" /\ todo' = present \ {Agent}
  /\ UNCHANGED <<umbrellaCR, subCRs, releases, present, seen, history>>

\* The non-agent individuals are uninstalled in reverse list order.
UninstallSub(s) ==
  /\ pc = "uninstall subs" /\ Last(s)
  /\ individual' = individual \ {s}
  /\ todo' = todo \ {s}
  /\ UNCHANGED <<umbrellaCR, subCRs, standalone, umbrella, agentPods, pc, present, seen, history>>

UninstallSubFails(s) ==
  /\ pc = "uninstall subs" /\ Last(s)
  /\ individual' \in {individual, individual \ {s}}
  /\ StartRollback
  /\ UNCHANGED <<umbrellaCR, subCRs, standalone, umbrella, agentPods, history>>

UninstallDone == pc = "uninstall subs" /\ todo = {} /\ SetPhase(InstallP)

------------------------------------------------------------------------------
(* InstallUmbrella *)

\* A release that is there already is taken for this migration's own; a covered
\* release that is there blocks the install until a human removes it.
CheckUmbrella ==
  /\ Dispatch({InstallP})
  /\ \/ umbrella.release # "absent" /\ SetPhase(VerifyP)
     \/ /\ umbrella.release = "absent" /\ standalone # {}
        /\ SetMigratingFalse("blocked")
     \/ /\ umbrella.release = "absent" /\ standalone = {}
        /\ Enter("take over") /\ todo' = {} /\ present' = {}
        /\ UNCHANGED <<umbrellaCR, subCRs, releases, history>>

\* deleteReleaseWorkloads: the selectors of the standalone agent's workloads are
\* immutable, so the umbrella has to create them anew.
DeleteAgentWorkloads ==
  /\ pc = "take over" /\ pc' = "install"
  /\ agentPods' = IF agentPods = "individual" THEN "none" ELSE agentPods
  /\ UNCHANGED <<umbrellaCR, subCRs, individual, standalone, umbrella, todo, present, seen,
                 history>>

InstallUmbrella ==
  /\ pc = "install" /\ pc' = "installed"
  /\ umbrella' = [release |-> "deployed", renders |-> seen.mode]
  /\ agentPods' = "umbrella"
  /\ UNCHANGED <<umbrellaCR, subCRs, individual, standalone, todo, present, seen, history>>

\* The install fails before or after helm recorded a release.
InstallUmbrellaFails ==
  /\ pc = "install"
  /\ \/ UNCHANGED <<umbrella, agentPods>>
     \/ /\ umbrella' = [release |-> "failed", renders |-> seen.mode]
        /\ agentPods' \in {agentPods, "umbrella"}
  /\ StartRollback
  /\ UNCHANGED <<umbrellaCR, subCRs, individual, standalone, history>>

\* The process stops in the middle of the install.
CrashInInstall ==
  /\ pc = "install"
  /\ umbrella' = [release |-> "pending", renders |-> seen.mode]
  /\ agentPods' \in {agentPods, "umbrella"}
  /\ Return
  /\ UNCHANGED <<umbrellaCR, subCRs, individual, standalone, history>>

InstallDone == pc = "installed" /\ SetPhase(VerifyP)

------------------------------------------------------------------------------
(* Verify *)

\* A plausible bug: a ready agent is enough, whatever the release's status.
VerifyAgentOnly ==
  /\ Dispatch({VerifyP})
  /\ \/ umbrella.release = "absent" /\ Enter("rollback")
     \/ umbrella.release # "absent" /\ overdue /\ Enter("rollback")
     \/ agentPods # "none" /\ Enter("verified")
  /\ todo' = {} /\ present' = {}
  /\ UNCHANGED <<umbrellaCR, subCRs, releases, history>>

\* A plausible bug: the deadline is not looked at.
VerifyForever ==
  /\ Dispatch({VerifyP})
  /\ \/ umbrella.release = "absent" /\ Enter("rollback")
     \/ Deployed /\ agentPods # "none" /\ Enter("verified")
  /\ todo' = {} /\ present' = {}
  /\ UNCHANGED <<umbrellaCR, subCRs, releases, history>>

\* One look at the release, the agent's readiness and the deadline.  A release
\* not deployed or an agent not ready before the deadline is looked at again.
Verify ==
  /\ Dispatch({VerifyP})
  /\ \/ umbrella.release = "absent" /\ Enter("rollback")
     \/ umbrella.release # "absent" /\ overdue /\ Enter("rollback")
     \/ Deployed /\ agentPods # "none" /\ Enter("verified")
  /\ todo' = {} /\ present' = {}
  /\ UNCHANGED <<umbrellaCR, subCRs, releases, history>>

VerifyDone == pc = "verified" /\ SetPhase(FinalizeP)

------------------------------------------------------------------------------
(* Finalize *)

BeginFinalize ==
  /\ Dispatch({FinalizeP})
  /\ Enter("forget") /\ todo' = {} /\ present' = {}
  /\ UNCHANGED <<umbrellaCR, subCRs, releases, history>>

\* The agent's release record is deleted; its workloads are the umbrella's.
ForgetAgent ==
  /\ pc = "forget" /\ pc' = "retire" /\ todo' = Subcomponents
  /\ individual' = individual \ {Agent}
  /\ UNCHANGED <<umbrellaCR, subCRs, standalone, umbrella, agentPods, present, seen, history>>

\* A plausible bug: the delete is taken for the patch.
RetireSubUnpatched(s) ==
  /\ pc = "retire" /\ First(s)
  /\ kept' = kept \ {s}
  /\ todo' = todo \ {s}
  /\ UNCHANGED <<umbrellaCR, locked, releases, pc, present, seen, history>>

\* The individual's CR is made writable and stripped of its finalizer, then
\* deleted; one that is neither readonly nor finalized is deleted as it is, and
\* which of the writable ones have their finalizer is left open.
RetireSub(s) ==
  /\ pc = "retire" /\ First(s) /\ (s \in locked => AdmitsClear)
  /\ kept' = kept \ {s} /\ locked' = locked \ {s}
  /\ todo' = todo \ {s}
  /\ UNCHANGED <<umbrellaCR, releases, pc, present, seen, history>>

\* The reconcile ends between the patch and the delete.
RetireSubInterrupted(s) ==
  /\ pc = "retire" /\ First(s) /\ s \in kept /\ AdmitsClear
  /\ locked' = locked \ {s}
  /\ Return
  /\ UNCHANGED <<umbrellaCR, kept, releases, history>>

\* The spec write of finalizeUmbrellaSuccess and of finalizeUmbrellaFailure:
\* migrate, readonly and the guard go in one update.
ClearSpec(next) ==
  /\ cr.exists /\ AdmitsClear
  /\ cr' = Released([cr EXCEPT !.migrate = FALSE, !.readonly = FALSE, !.guard = FALSE])
  /\ pc' = next
  /\ UNCHANGED <<status, overdue, clusterUp, subCRs, releases, todo, present, seen, history>>

\* writeUmbrellaSuccessStatus and writeUmbrellaFailureStatus.
WriteTerminal(phase, reason) ==
  /\ cr.exists
  /\ status' = [phase |-> phase, mode |-> NoMode, absorbed |-> {}, cond |-> reason]
  /\ overdue' = FALSE
  /\ Return
  /\ UNCHANGED <<cr, clusterUp, subCRs, releases, history>>

ClearAfterSuccess == pc = "retire" /\ todo = {} /\ ClearSpec("report success")
WriteSuccess      == pc = "report success" /\ WriteTerminal(None, "succeeded")

------------------------------------------------------------------------------
(* rollback *)

\* The umbrella is uninstalled, and the agent's workloads with it when it owns
\* them.  A failure is added to the cause and the rollback goes on.
UninstallUmbrella ==
  /\ pc = "rollback" /\ pc' = "reinstall" /\ todo' = seen.absorbed
  /\ \/ /\ umbrella' = NoUmbrella
        /\ agentPods' = IF agentPods = "umbrella" THEN "none" ELSE agentPods
        /\ unresolved' = unresolved \ {Umbrella}
     \/ /\ unresolved' = unresolved \cup {Umbrella}
        /\ UNCHANGED <<umbrella, agentPods>>
  /\ UNCHANGED <<umbrellaCR, subCRs, individual, standalone, present, seen, ever>>

\* A snapshotted release is installed again, from the snapshot.  That fails when
\* a release of that name is there, and may fail when none is: the failure is
\* added to the cause and the rollback goes on.
ReinstallCovered(c) ==
  /\ pc = "reinstall" /\ c \in todo /\ todo' = todo \ {c}
  /\ \/ standalone' = standalone \cup {c} /\ unresolved' = unresolved \ {c}
     \/ /\ c \notin standalone
        /\ unresolved' = unresolved \cup {c} /\ UNCHANGED standalone
  /\ UNCHANGED <<umbrellaCR, subCRs, individual, umbrella, agentPods, pc, present, seen, ever>>

ReinstallDone ==
  /\ pc = "reinstall" /\ todo = {}
  /\ pc' = "reenable" /\ todo' = Subcomponents
  /\ UNCHANGED <<umbrellaCR, subCRs, releases, present, seen, history>>

\* An individual's CR is made writable again.
ReenableSub(s) ==
  /\ pc = "reenable" /\ First(s) /\ (s \in locked => AdmitsClear)
  /\ locked' = locked \ {s}
  /\ todo' = todo \ {s}
  /\ UNCHANGED <<umbrellaCR, kept, releases, pc, present, seen, history>>

\* A plausible bug: the spec is cleared before the individuals are re-enabled.
ClearAfterRollbackEarly == pc = "reenable" /\ ClearSpec("report failure")

ClearAfterRollback == pc = "reenable" /\ todo = {} /\ ClearSpec("report failure")
WriteFailure       == pc = "report failure" /\ WriteTerminal(RolledBackP, "failed")

------------------------------------------------------------------------------
(* Deletion, repair, and how a reconcile ends early *)

\* A plausible bug: the abort waits for a recorded phase.
AbortOnDeletionLate ==
  /\ pc = "idle" /\ cr.exists /\ cr.deleting /\ cr.guard /\ cr.migrate /\ clusterUp
  /\ status.phase # None
  /\ Enter("rollback") /\ todo' = {} /\ present' = {}
  /\ UNCHANGED <<umbrellaCR, subCRs, releases, history>>

\* handleUmbrellaDeletion, with a migration in flight.
AbortOnDeletion ==
  /\ pc = "idle" /\ cr.exists /\ cr.deleting /\ cr.guard /\ cr.migrate /\ clusterUp
  /\ Enter("rollback") /\ todo' = {} /\ present' = {}
  /\ UNCHANGED <<umbrellaCR, subCRs, releases, history>>

\* handleUmbrellaDeletion, with the guard on and no migration in flight or no
\* cluster to drive the rollback with: removeMigrationFinalizer.
ReleaseGuard ==
  /\ pc = "idle" /\ cr.exists /\ cr.deleting /\ cr.guard
  /\ ~cr.migrate \/ ~clusterUp
  /\ AdmitsEdit(cr.readonly)
  /\ cr' = Released([cr EXCEPT !.guard = FALSE])
  /\ UNCHANGED <<status, overdue, clusterUp, subCRs, releases, locals, history>>

\* repairStaleMigrationStatus: the phase a finished migration left behind tells
\* how it ended.
RepairStatus ==
  /\ pc = "idle" /\ cr.exists /\ ~cr.deleting /\ ~cr.migrate
  /\ \/ status.phase = FinalizeP /\ WriteTerminal(None, "succeeded")
     \/ status.phase \notin {None, FinalizeP, RolledBackP} /\ WriteTerminal(RolledBackP, "failed")

\* degradeMigration: the CAST AI client cannot be built, a probe fails, or the
\* permission gate cannot be asked.
Degrade ==
  /\ Dispatch(Phases) \/ pc = "gate"
  /\ SetMigratingFalse("degraded")

\* The process stops, or a call returns an error and the reconcile with it.
Abandon ==
  /\ pc # "idle" /\ Return
  /\ UNCHANGED <<umbrellaCR, subCRs, releases, history>>

------------------------------------------------------------------------------
(* The component reconciler, users and time *)

\* Only what ComponentReconciler does to the state above is modelled here: it
\* puts its own finalizer on a writable umbrella CR,
AddCleanup ==
  /\ cr.exists /\ ~cr.deleting /\ ~cr.cleanup /\ AdmitsEdit(cr.readonly)
  /\ cr' = [cr EXCEPT !.cleanup = TRUE]
  /\ UNCHANGED <<status, overdue, clusterUp, subCRs, releases, locals, history>>

\* uninstalls the umbrella when its CR is deleted (deleteComponent), which a
\* readonly CR survives: the update that removes the finalizer is rejected,
CleanUp ==
  /\ cr.exists /\ cr.deleting /\ cr.cleanup
  /\ umbrella' = NoUmbrella
  /\ agentPods' = IF agentPods = "umbrella" THEN "none" ELSE agentPods
  /\ cr' = IF AdmitsEdit(cr.readonly) THEN Released([cr EXCEPT !.cleanup = FALSE]) ELSE cr
  /\ UNCHANGED <<status, overdue, clusterUp, subCRs, individual, standalone, locals, history>>

\* and sets the CR of an individual readonly while the umbrella is installed
\* (forceReadonlyIfUmbrellaInstalled).
ForceReadonly(s) ==
  /\ s \in kept \ locked /\ umbrella.release # "absent" /\ clusterUp
  /\ locked' = locked \cup {s}
  /\ UNCHANGED <<umbrellaCR, kept, releases, locals, history>>

\* (Only a deletion that the migration has to do with matters here.)
UserDeletes ==
  /\ cr.exists /\ ~cr.deleting /\ (cr.migrate \/ cr.guard) /\ status.phase \in DeletablePhases
  /\ cr' = Released([cr EXCEPT !.deleting = TRUE])
  /\ UNCHANGED <<status, overdue, clusterUp, subCRs, releases, locals, history>>

UserClearsMigrate ==
  /\ UserAborts /\ cr.exists /\ ~cr.deleting /\ cr.migrate /\ status.phase # None
  /\ AdmitsClear
  /\ cr' = [cr EXCEPT !.migrate = FALSE, !.readonly = FALSE]
  /\ UNCHANGED <<status, overdue, clusterUp, subCRs, releases, locals, history>>

UserSetsMigrate ==
  /\ cr.exists /\ ~cr.deleting /\ ~cr.migrate /\ status.cond \in Retriggers
  /\ AdmitsEdit(cr.readonly)
  /\ cr' = [cr EXCEPT !.migrate = TRUE]
  /\ UNCHANGED <<status, overdue, clusterUp, subCRs, releases, locals, history>>

UserInstalls(c) ==
  /\ cr.exists /\ cr.migrate /\ status.phase \in DriftPhases /\ c \notin standalone
  /\ standalone' = standalone \cup {c} /\ ever' = ever \cup {c}
  /\ UNCHANGED <<umbrellaCR, subCRs, individual, umbrella, agentPods, locals, unresolved>>

\* A user removes a release the install is waiting for them to remove; what the
\* snapshot has of that chart stays the migration's to restore.
UserRemoves(c) ==
  /\ Dispatch({InstallP}) /\ status.cond = "blocked" /\ c \in standalone
  /\ standalone' = standalone \ {c} /\ ever' = ever \ ({c} \ status.absorbed)
  /\ UNCHANGED <<umbrellaCR, subCRs, individual, umbrella, agentPods, locals, unresolved>>

VerifyDeadline ==
  /\ cr.exists /\ status.phase = VerifyP /\ ~overdue /\ overdue' = TRUE
  /\ UNCHANGED <<cr, status, clusterUp, subCRs, releases, locals, history>>

ClusterGoes ==
  /\ ClusterMayGo /\ clusterUp /\ clusterUp' = FALSE
  /\ UNCHANGED <<cr, status, overdue, subCRs, releases, locals, history>>

------------------------------------------------------------------------------
(* The specification *)

Init ==
  /\ \E ro \in BOOLEAN :
       /\ ro => BornReadonly
       /\ cr = [exists |-> TRUE, deleting |-> FALSE, migrate |-> TRUE, readonly |-> ro,
                guard |-> FALSE, cleanup |-> FALSE]
  /\ status = [phase |-> None, mode |-> NoMode, absorbed |-> {}, cond |-> "none"]
  /\ overdue = FALSE /\ clusterUp = TRUE
  /\ individual \in {I \in SUBSET Subcomponents : Agent \in I}
  /\ kept \in {K \in SUBSET Subcomponents : individual \subseteq K \/ Orphans}
  /\ locked = {}
  /\ standalone \in SUBSET Covered
  /\ umbrella = NoUmbrella /\ agentPods = "individual"
  /\ pc = "idle" /\ todo = {} /\ present = {} /\ seen = Blank
  /\ ever = individual \cup standalone /\ unresolved = {}

\* The steps of a reconcile in which no call fails.
Advance ==
  \/ DeriveMode \/ PermissionGate \/ ArmGuard \/ LockUmbrella \/ MarkReadonlyDone
  \/ SnapshotCovered \/ UninstallCoveredDone \/ UninstallDone
  \/ CheckUmbrella \/ DeleteAgentWorkloads \/ InstallUmbrella \/ InstallDone
  \/ Verify \/ VerifyDone
  \/ BeginFinalize \/ ForgetAgent \/ ClearAfterSuccess \/ WriteSuccess
  \/ UninstallUmbrella \/ ReinstallDone \/ ClearAfterRollback \/ WriteFailure
  \/ AbortOnDeletion \/ ReleaseGuard \/ RepairStatus
  \/ \E c \in Covered : UninstallCovered(c) \/ ReinstallCovered(c)
  \/ \E s \in Subcomponents :
       LockSub(s) \/ UninstallSub(s) \/ RetireSub(s) \/ ReenableSub(s)

\* A call fails, or the process stops.
Fail ==
  \/ InstallUmbrellaFails \/ CrashInInstall \/ Degrade \/ Abandon
  \/ \E c \in Covered : UninstallCoveredFails(c)
  \/ \E s \in Subcomponents : UninstallSubFails(s) \/ RetireSubInterrupted(s)

Environment ==
  \/ AddCleanup \/ CleanUp \/ (\E s \in Subcomponents : ForceReadonly(s))
  \/ UserDeletes \/ UserClearsMigrate \/ UserSetsMigrate
  \/ (\E c \in Covered : UserInstalls(c) \/ UserRemoves(c))
  \/ VerifyDeadline \/ ClusterGoes

Next == Advance \/ Fail \/ Environment

Spec == Init /\ [][Next]_vars

\* A reconcile that returned an error is retried and an idle one is requeued, a
\* deleting CR with the component finalizer is retried, and time passes.
Fairness == WF_vars(Advance) /\ WF_vars(CleanUp) /\ WF_vars(VerifyDeadline)

\* From some point on no call fails and the process stays up.
FailuresCease == <>[][~Fail]_vars

FairSpec == Spec /\ Fairness /\ FailuresCease

------------------------------------------------------------------------------
(* Properties *)

PCs == {"idle", "gate", "arm", "lock", "lock subs", "uninstall covered", "uninstall subs",
        "take over", "install", "installed", "verified", "forget", "retire",
        "report success", "rollback", "reinstall", "reenable", "report failure"}

\* Every variable has its type, and the sub-component CRs that are readonly
\* exist.
TypeOK ==
  /\ cr \in [exists : BOOLEAN, deleting : BOOLEAN, migrate : BOOLEAN, readonly : BOOLEAN,
             guard : BOOLEAN, cleanup : BOOLEAN]
  /\ status \in [phase : Phases, mode : Modes \cup {NoMode}, absorbed : SUBSET Covered,
                 cond : Reasons]
  /\ overdue \in BOOLEAN /\ clusterUp \in BOOLEAN
  /\ kept \in SUBSET Subcomponents /\ locked \in SUBSET kept
  /\ individual \in SUBSET Subcomponents /\ standalone \in SUBSET Covered
  /\ umbrella \in [release : {"absent", "pending", "deployed", "failed"},
                   renders : Modes \cup {NoMode}]
  /\ agentPods \in {"none", "individual", "umbrella"}
  /\ pc \in PCs /\ todo \in SUBSET Parts /\ present \in SUBSET Subcomponents
  /\ seen \in [guard : BOOLEAN, readonly : BOOLEAN, cleanup : BOOLEAN,
               mode : Modes \cup {NoMode}, absorbed : SUBSET Covered]
  /\ ever \in SUBSET Parts /\ unresolved \in SUBSET (Covered \cup {Umbrella})

\* Somebody can still produce a running p: its own release, the migration's
\* snapshot of it, its CR, the umbrella; or the rollback has reported it.
InCustody(p) ==
  \/ p \in individual \cup standalone
  \/ cr.exists /\ p \in status.absorbed
  \/ p \in kept
  \/ Deployed /\ p \in umbrella.renders
  \/ p \in unresolved

\* Whatever fails, stops or is deleted on the way, no component a user had
\* installed is dropped without a record to restore it from
\* (migration_controller.go, the deletion guard and rollback's contract).
NothingLost == \A p \in ever : InCustody(p)

\* While the migration has taken releases down, the umbrella CR, which holds the
\* only record of the phase and the snapshot, cannot vanish under a user's
\* deletion (MigrationFinalizer).
GuardWhileHalfMigrated ==
  cr.exists /\ cr.migrate /\ ~(ever \subseteq individual \cup standalone) => cr.guard

\* When the migration is over, whichever way, no individual's CR is left
\* readonly with nobody to write it again, unless the rollback has reported that
\* the umbrella is still there.
LocksReleased ==
  (cr.exists => ~cr.migrate) /\ Umbrella \notin unresolved => locked = {}

\* A migration reported successful leaves the umbrella as the sole owner.
SoleOwner ==
  cr.exists /\ ~cr.migrate /\ status.cond = "succeeded"
    => Deployed /\ individual = {} /\ kept = {}

\* The agent's release is never given up before the umbrella is deployed and
\* owns the agent's workloads (heartbeat continuity).
AgentHandedOver ==
  [][(Agent \in individual \ individual') => Deployed /\ agentPods = "umbrella"]_vars

\* The migration implements the contract of MigrationContract, whatever fails, stops
\* and resumes inside its phases.
Contract == INSTANCE MigrationContract
              WITH phase <- status.phase,
                   holder <- IF Agent \in individual THEN "itself" ELSE "umbrella",
                   umbrella <- umbrella.release,
                   wanted <- cr.exists /\ ~cr.deleting

KeepsContract == Contract!Spec

\* Every migration ends, or is blocked for a human to act.
Settles ==
  cr.exists /\ cr.migrate ~> ~cr.exists \/ ~cr.migrate \/ status.cond = "blocked"

\* A deletion that the guard has turned into a rollback completes.
DeletionCompletes == cr.deleting /\ cr.guard ~> ~cr.exists

==============================================================================
