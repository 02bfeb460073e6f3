----------------------------- MODULE Coexistence -----------------------------
(***************************************************************************)
(* The umbrella chart and the individual charts render the same workloads, *)
(* so only one side may be installed.  Who may create a CR or a release is *)
(* decided in four places, none of which holds a lock: the admission       *)
(* webhook (CRs), the cluster controller's scan and its install actions    *)
(* (releases, before a CR is created), and the component reconciler        *)
(* (releases, before helm is called).                                      *)
(*                                                                         *)
(* Each controller has one worker: work and job are the locals of the      *)
(* component and of the cluster reconcile that run, and are lost with the  *)
(* process.  Everything else is in the API server or in helm's store.      *)
(*                                                                         *)
(* Simplifications:                                                        *)
(*  - spec.migrate is never set (UmbrellaMigration has the migration);     *)
(*  - a cluster CR that exists is available and its ID is known            *)
(*    (Onboarding has how it gets there); it goes, and CRs are condemned,  *)
(*    only in Teardown;                                                    *)
(*  - versions, values and permissions pass the webhook, and the operator  *)
(*    has the extended permissions some components are only scanned with;  *)
(*  - upgrades and rollbacks, which need a release and leave one, are      *)
(*    ComponentLifecycle's;                                                *)
(*  - a resource version is the object's content.                          *)
(***************************************************************************)
EXTENDS Naturals

CONSTANTS
  Subs,            \* individual components that overlap with the umbrella
  MaxEdits,        \* bound on what users (and Mothership's actions) do
  PartialOutage    \* Mothership may fail to resolve some of the release names

Umbrella == "castai-umbrella"
Comps    == Subs \cup {Umbrella}

Migrations == {"", "helm", "yaml", "terraform"}
Statuses   == {"new", "progressing", "failed", "installed"}
Owners     == {"absent", "operator", "user"}

CRs == [exists : BOOLEAN, deleting : BOOLEAN, readonly : BOOLEAN, finalizer : BOOLEAN,
        condemned : BOOLEAN, conflict : BOOLEAN, migration : Migrations, status : Statuses]
WorkPcs == {"idle", "gate", "report", "finalize", "decide", "mark", "install",
            "uninstall", "release"}

ASSUME CoexistenceAssumption ==
  /\ Umbrella \notin Subs
  /\ MaxEdits \in Nat
  /\ PartialOutage \in BOOLEAN

VARIABLES
  cluster,   \* the cluster CR: does it exist, spec.terraform, migrationMode read
  cr,        \* the component CRs
  admitted,  \* creations that passed the webhook and are not stored yet
  release,   \* who installed each helm release that exists
  manifests, \* individuals that run from plain YAML
  work,      \* component reconcile: next call, component, its copy of the CR
  job,       \* cluster reconcile: the CR it is about to create, if any
  warned,    \* lastHybridWarnClusterID is this cluster's
  edits      \* what users did so far

vars == <<cluster, cr, admitted, release, manifests, work, job, warned, edits>>

Api  == <<cluster, cr, admitted>>
Helm == <<release, manifests>>

------------------------------------------------------------------------------
(* Helpers *)

NoCR == [exists |-> FALSE, deleting |-> FALSE, readonly |-> FALSE, finalizer |-> FALSE,
         condemned |-> FALSE, conflict |-> FALSE, migration |-> "", status |-> "new"]

NewCR(migration, readonly) ==
  [NoCR EXCEPT !.exists = TRUE, !.migration = migration, !.readonly = readonly]

Idle   == [pc |-> "idle", on |-> Umbrella, seen |-> NoCR]
NoJob  == [pc |-> "idle", on |-> Umbrella, migration |-> ""]

Present(c)  == release[c] # "absent"
HelmRuns(S) == {s \in S : Present(s)}

\* releasePresent fails safe: a helm error counts as a release that is there.
MayLookPresent == IF Present(Umbrella) THEN {TRUE} ELSE BOOLEAN

\* InstalledSubcomponents over the names ResolveNames returned: names Mothership
\* fails to resolve are skipped, and an error is returned only if all are.
Visible ==
  LET resolved == IF PartialOutage THEN SUBSET Subs \ {{}} ELSE {Subs}
  IN  {p \in SUBSET Subs : \E v \in resolved : HelmRuns(v) \subseteq p}

\* ValidateUpdate for an update that leaves spec.readonly as it is.
AdmitsEdit(c) == ~cr[c].readonly /\ cluster.up

\* A finalizer goes: a deleting CR goes with its last one.
Unfinalized(r) == IF r.deleting THEN NoCR ELSE [r EXCEPT !.finalizer = FALSE]

\* A plausible bug: a Delete always waits for a finalizer.
DeletedAlways(r) == [r EXCEPT !.deleting = TRUE]

\* A Delete: a CR with no finalizer goes at once.
Deleted(r) == IF r.finalizer THEN [r EXCEPT !.deleting = TRUE] ELSE NoCR

Return == work' = Idle

\* updateStatus: the latest object, with the status of the reconcile's copy.
PutStatus(c, status, conflict) ==
  /\ cr[c].exists
  /\ cr' = [cr EXCEPT ![c].status = status, ![c].conflict = conflict]

\* An Update carries the resource version of the copy.
Unchanged(c) == cr[c] = work.seen

------------------------------------------------------------------------------
(* Creating a CR: the webhook, then the API server *)

\* validateMutualExclusivity.
Exclusive(c) ==
  IF c = Umbrella THEN \A s \in Subs : ~cr[s].exists ELSE ~cr[Umbrella].exists

\* ValidateCreate: the cluster exists, a release to adopt is there, and no CR of
\* the other side is.  Nothing is reserved: the object is stored later.
Admits(c, r) ==
  /\ cluster.up
  /\ r.migration = "helm" => Present(c)
  /\ Exclusive(c)

Submit(c, r) ==
  /\ ~admitted[c].exists /\ Admits(c, r)
  /\ admitted' = [admitted EXCEPT ![c] = r]

\* The API server stores the object, unless there is one of that name.
Store(c) ==
  /\ admitted[c].exists
  /\ admitted' = [admitted EXCEPT ![c] = NoCR]
  /\ cr' = IF cr[c].exists THEN cr ELSE [cr EXCEPT ![c] = admitted[c]]
  /\ UNCHANGED <<cluster, Helm, work, job, warned, edits>>

------------------------------------------------------------------------------
(* The cluster controller: scan, terraform sync, install actions *)

\* The scan finds no CR; its own last Create, which it waited for, has been stored.
Missing(c) == ~cr[c].exists /\ ~admitted[c].exists

\* A plausible bug: only components with a release are looked for.
ScanReleases(s) ==
  /\ job.pc = "idle" /\ cluster.up /\ ~cluster.terraform
  /\ s \in Subs /\ Missing(s) /\ Present(s)
  /\ FALSE \in MayLookPresent
  /\ job' = [pc |-> "scanned", on |-> s, migration |-> "helm"]
  /\ UNCHANGED <<Api, Helm, work, warned, edits>>

\* No umbrella release: each component with a release, or running from YAML, and
\* no CR is to get one.
ScanIndividual(s) ==
  /\ job.pc = "idle" /\ cluster.up /\ ~cluster.terraform
  /\ s \in Subs /\ Missing(s) /\ (Present(s) \/ s \in manifests)
  /\ FALSE \in MayLookPresent
  /\ job' = [pc |-> "scanned", on |-> s, migration |-> IF Present(s) THEN "helm" ELSE "yaml"]
  /\ UNCHANGED <<Api, Helm, work, warned, edits>>

\* The umbrella release and no individual one: adoptUmbrellaFromExistingRelease.
ScanUmbrella ==
  /\ job.pc = "idle" /\ cluster.up /\ ~cluster.terraform
  /\ Present(Umbrella) /\ {} \in Visible /\ Missing(Umbrella)
  /\ job' = [pc |-> "scanned", on |-> Umbrella, migration |-> "helm"]
  /\ UNCHANGED <<Api, Helm, work, warned, edits>>

\* Both are installed: nothing is adopted, Mothership is told once per process.
WarnHybrid ==
  /\ job.pc = "idle" /\ cluster.up /\ ~cluster.terraform /\ ~warned
  /\ TRUE \in MayLookPresent /\ Visible # {{}}
  /\ warned' = TRUE
  /\ UNCHANGED <<Api, Helm, work, job, edits>>

\* syncTerraformComponents: the CR is handed to the component reconciler.
SyncTerraform(c) ==
  /\ job.pc = "idle" /\ cluster.up /\ cluster.terraform
  /\ cr[c].exists /\ cr[c].migration = "terraform" /\ AdmitsEdit(c)
  /\ cr' = [cr EXCEPT ![c].migration = ""]
  /\ UNCHANGED <<cluster, admitted, Helm, work, job, warned, edits>>

\* handleInstall: no CR, and no release of the other side.
InstallAction(c) ==
  /\ job.pc = "idle" /\ cluster.up /\ ~cr[c].exists /\ edits < MaxEdits
  /\ IF c = Umbrella THEN {} \in Visible ELSE FALSE \in MayLookPresent
  /\ job' = [pc |-> "ordered", on |-> c, migration |-> ""]
  /\ edits' = edits + 1
  /\ UNCHANGED <<Api, Helm, work, warned>>

\* The create that a scan or an action has decided on; newComponent makes the
\* scan's readonly in read mode.
CreateCR ==
  /\ job.pc # "idle"
  /\ Submit(job.on, NewCR(job.migration, job.pc = "scanned" /\ cluster.read))
  /\ job' = NoJob
  /\ UNCHANGED <<cluster, cr, Helm, work, warned, edits>>

\* The create is rejected, or the reconcile returns before it.
ClusterReturns ==
  /\ job.pc # "idle" /\ job' = NoJob
  /\ UNCHANGED <<Api, Helm, work, warned, edits>>

------------------------------------------------------------------------------
(* The component reconciler *)

To(pc, c) == work' = [pc |-> pc, on |-> c, seen |-> cr[c]]

\* Reconcile reads the CR.  One that terraform created waits for the cluster
\* controller; one marked by the hook is left alone unless it is deleting.
Begin(c) ==
  /\ work.pc = "idle" /\ cr[c].exists /\ cr[c].migration # "terraform"
  /\ \/ cr[c].deleting /\ To("uninstall", c)
     \/ /\ ~cr[c].deleting /\ ~cr[c].condemned /\ ~cr[c].readonly /\ cluster.up
        /\ To(IF c \in Subs /\ cr[c].migration # "helm" THEN "gate" ELSE "finalize", c)
  /\ UNCHANGED <<Api, Helm, job, warned, edits>>

\* A readonly CR follows its release and nothing else (a progressing one takes its
\* version over and stays progressing).
Observe(c) ==
  /\ work.pc = "idle" /\ cr[c].exists /\ ~cr[c].deleting /\ ~cr[c].condemned
  /\ cr[c].migration # "terraform" /\ cr[c].readonly
  /\ Present(c) /\ cr[c].status \in {"new", "failed"}
  /\ PutStatus(c, "installed", cr[c].conflict)
  /\ UNCHANGED <<cluster, admitted, Helm, work, job, warned, edits>>

\* forceReadonlyIfUmbrellaInstalled: no umbrella release, a conflict reported
\* earlier is taken back;
GatePasses ==
  /\ work.pc = "gate" /\ FALSE \in MayLookPresent
  /\ \/ ~work.seen.conflict /\ UNCHANGED cr /\ work' = [work EXCEPT !.pc = "finalize"]
     \/ /\ work.seen.conflict /\ PutStatus(work.on, work.seen.status, FALSE)
        /\ work' = [work EXCEPT !.pc = "finalize", !.seen = cr'[work.on]]
  /\ UNCHANGED <<cluster, admitted, Helm, job, warned, edits>>

\* A plausible bug: a CR whose conflict was reported is not looked at again.
ForceReadonlyOnce ==
  /\ work.pc = "gate" /\ TRUE \in MayLookPresent /\ ~work.seen.conflict
  /\ cr[work.on].exists
  /\ cr' = [cr EXCEPT ![work.on].readonly = TRUE]
  /\ work' = [work EXCEPT !.pc = "report"]
  /\ UNCHANGED <<cluster, admitted, Helm, job, warned, edits>>

\* an umbrella release, the CR is patched readonly,
ForceReadonly ==
  /\ work.pc = "gate" /\ TRUE \in MayLookPresent /\ cr[work.on].exists
  /\ cr' = [cr EXCEPT ![work.on].readonly = TRUE]
  /\ work' = [work EXCEPT !.pc = "report"]
  /\ UNCHANGED <<cluster, admitted, Helm, job, warned, edits>>

\* and then the conflict is reported in the status.
ReportConflict ==
  /\ work.pc = "report" /\ PutStatus(work.on, work.seen.status, TRUE) /\ Return
  /\ UNCHANGED <<cluster, admitted, Helm, job, warned, edits>>

AddFinalizer ==
  /\ work.pc = "finalize"
  /\ \/ work.seen.finalizer /\ UNCHANGED cr /\ work' = [work EXCEPT !.pc = "decide"]
     \/ /\ ~work.seen.finalizer /\ Unchanged(work.on) /\ AdmitsEdit(work.on)
        /\ cr' = [cr EXCEPT ![work.on].finalizer = TRUE]
        /\ work' = [work EXCEPT !.pc = "decide", !.seen = cr'[work.on]]
  /\ UNCHANGED <<cluster, admitted, Helm, job, warned, edits>>

\* A release found by the scan is only observed from here on.
BeginAdoption ==
  /\ work.pc = "decide" /\ work.seen.status = "new" /\ work.seen.migration = "helm"
  /\ PutStatus(work.on, "progressing", work.seen.conflict) /\ Return
  /\ UNCHANGED <<cluster, admitted, Helm, job, warned, edits>>

\* checkHelmProgress: helm says that the release is deployed, or that it failed.
CheckProgress ==
  /\ work.pc = "decide" /\ work.seen.status = "progressing" /\ Present(work.on) /\ Return
  /\ \E status \in {"installed", "failed"} : PutStatus(work.on, status, work.seen.conflict)
  /\ UNCHANGED <<cluster, admitted, Helm, job, warned, edits>>

\* After ten minutes an adoption is locked and left progressing, for the user to
\* repair the chart; an install, with nothing to roll back to, has failed.
ProgressTimesOut ==
  /\ work.pc = "decide" /\ work.seen.status = "progressing" /\ Return
  /\ IF work.seen.migration = "helm"
     THEN cr[work.on].exists /\ cr' = [cr EXCEPT ![work.on].readonly = TRUE]
     ELSE PutStatus(work.on, "failed", work.seen.conflict)
  /\ UNCHANGED <<cluster, admitted, Helm, job, warned, edits>>

\* A first install, of one that was not there before,
ToInstall(r) ==
  \/ r.status = "new" /\ r.migration # "helm"
  \/ r.status = "failed" /\ r.migration = ""

InstallIndividual ==
  /\ work.pc = "decide" /\ work.on \in Subs /\ ToInstall(work.seen)
  /\ work' = [work EXCEPT !.pc = "mark"]
  /\ UNCHANGED <<Api, Helm, job, warned, edits>>

\* A plausible bug: the umbrella's gate asks for CRs, as the webhook does.
UmbrellaGateByCR ==
  /\ work.pc = "decide" /\ work.on = Umbrella /\ ToInstall(work.seen)
  /\ \A s \in Subs : cr[s].status # "installed"
  /\ work' = [work EXCEPT !.pc = "mark"]
  /\ UNCHANGED <<Api, Helm, job, warned, edits>>

\* the umbrella's after refuseUmbrellaIfIndividualsPresent, which reports the
\* conflict or takes it back (an adopted umbrella that is lost is only told).
UmbrellaGate ==
  /\ work.pc = "decide" /\ work.on = Umbrella /\ work.seen.status \in {"new", "failed"}
  /\ work.seen.migration = "helm" => work.seen.status = "failed"
  /\ \E present \in Visible, conflict \in BOOLEAN :
       /\ conflict = (present # {})
       /\ IF conflict = work.seen.conflict THEN UNCHANGED cr
          ELSE PutStatus(Umbrella, work.seen.status, conflict)
       /\ IF ~conflict /\ ToInstall(work.seen)
          THEN work' = [work EXCEPT !.pc = "mark", !.seen.conflict = FALSE] ELSE Return
  /\ UNCHANGED <<cluster, admitted, Helm, job, warned, edits>>

\* installComponent: the condition is set, or the write fails and it goes on,
MarkProgressing ==
  /\ work.pc = "mark"
  /\ IF cr[work.on].exists THEN PutStatus(work.on, "progressing", work.seen.conflict)
                           ELSE UNCHANGED cr
  /\ work' = [work EXCEPT !.pc = "install"]
  /\ UNCHANGED <<cluster, admitted, Helm, job, warned, edits>>

\* and helm installs unless there is a release; it may fail, before or after it
\* recorded one.  An install over YAML takes the resources over.
HelmInstall ==
  /\ work.pc = "install" /\ Return
  /\ release' \in {release,
       [release EXCEPT ![work.on] = IF @ = "absent" THEN "operator" ELSE @]}
  /\ manifests' = IF release' = release THEN manifests ELSE manifests \ {work.on}
  /\ UNCHANGED <<Api, job, warned, edits>>

\* deleteComponent: the release goes with the CR, but the umbrella's stays when
\* the operator is being uninstalled.
Uninstall ==
  /\ work.pc = "uninstall" /\ work.seen.finalizer
  /\ release' = IF work.on = Umbrella /\ work.seen.condemned THEN release
                ELSE [release EXCEPT ![work.on] = "absent"]
  /\ work' = [work EXCEPT !.pc = "release"]
  /\ UNCHANGED <<Api, manifests, job, warned, edits>>

ReleaseFinalizer ==
  /\ work.pc = "release" /\ Unchanged(work.on) /\ AdmitsEdit(work.on) /\ Return
  /\ cr' = [cr EXCEPT ![work.on] = Unfinalized(@)]
  /\ UNCHANGED <<cluster, admitted, Helm, job, warned, edits>>

\* A call fails, or there is nothing to do.
ComponentReturns ==
  /\ work.pc # "idle" /\ Return
  /\ UNCHANGED <<Api, Helm, job, warned, edits>>

------------------------------------------------------------------------------
(* Users, and the process *)

UserCreates(c, migration) ==
  /\ edits < MaxEdits /\ edits' = edits + 1
  /\ migration = "terraform" => cluster.terraform
  /\ ~cr[c].exists /\ Submit(c, NewCR(migration, FALSE))
  /\ UNCHANGED <<cluster, cr, Helm, work, job, warned>>

\* (or Mothership's uninstall action).
UserDeletes(c) ==
  /\ edits < MaxEdits /\ edits' = edits + 1
  /\ cr[c].exists /\ ~cr[c].deleting /\ cr' = [cr EXCEPT ![c] = Deleted(@)]
  /\ UNCHANGED <<cluster, admitted, Helm, work, job, warned>>

UserLocks(c) ==
  /\ edits < MaxEdits /\ edits' = edits + 1
  /\ cr[c].exists /\ (cr[c].readonly => cluster.up)
  /\ cr' = [cr EXCEPT ![c].readonly = ~@]
  /\ UNCHANGED <<cluster, admitted, Helm, work, job, warned>>

UserInstalls(c) ==
  /\ edits < MaxEdits /\ edits' = edits + 1
  /\ ~Present(c) /\ release' = [release EXCEPT ![c] = "user"]
  /\ UNCHANGED <<Api, manifests, work, job, warned>>

UserUninstalls(c) ==
  /\ edits < MaxEdits /\ edits' = edits + 1
  /\ Present(c) /\ release' = [release EXCEPT ![c] = "absent"]
  /\ UNCHANGED <<Api, manifests, work, job, warned>>

Restart ==
  /\ <<work, job, warned>> # <<Idle, NoJob, FALSE>>
  /\ work' = Idle /\ job' = NoJob /\ warned' = FALSE
  /\ UNCHANGED <<Api, Helm, edits>>

------------------------------------------------------------------------------
(* The specification *)

Init ==
  /\ cluster \in [up : {TRUE}, terraform : BOOLEAN, read : BOOLEAN]
  /\ cluster.terraform => ~cluster.read  \* nothing is scanned then
  /\ cr = [c \in Comps |-> NoCR] /\ admitted = cr
  /\ release \in [Comps -> {"absent", "user"}]
  /\ manifests \in SUBSET {s \in Subs : release[s] = "absent"}
  /\ work = Idle /\ job = NoJob /\ warned = FALSE
  /\ edits = 0

\* What one component's reconcile does after it began.
Reconcile ==
  \/ GatePasses \/ ForceReadonly \/ ReportConflict \/ AddFinalizer
  \/ BeginAdoption \/ CheckProgress \/ ProgressTimesOut \/ InstallIndividual \/ UmbrellaGate
  \/ MarkProgressing \/ HelmInstall \/ Uninstall \/ ReleaseFinalizer

Controllers ==
  \/ Reconcile \/ ComponentReturns
  \/ WarnHybrid \/ ScanUmbrella \/ CreateCR \/ ClusterReturns
  \/ \E c \in Comps :
       Begin(c) \/ Observe(c) \/ SyncTerraform(c) \/ ScanIndividual(c) \/ Store(c)

Environment ==
  \/ Restart
  \/ \E c \in Comps :
       \/ InstallAction(c) \/ UserDeletes(c) \/ UserLocks(c)
       \/ UserInstalls(c) \/ UserUninstalls(c)
       \/ \E m \in {"", "helm", "terraform"} : UserCreates(c, m)

Next == Controllers \/ Environment

Spec == Init /\ [][Next]_vars

\* The manager's queues serve every CR again and again (a watch, or RequeueAfter),
\* so what a reconcile can do infinitely often it does: calls do not fail, and the
\* process is not restarted, at the same place for ever.  What a user does is not
\* fair.
Fairness ==
  /\ WF_vars(ComponentReturns) /\ SF_vars(ForceReadonly)
  /\ WF_vars(ClusterReturns) /\ SF_vars(CreateCR)
  /\ \A s \in Subs : SF_vars(Begin(s)) /\ SF_vars(ScanIndividual(s)) /\ WF_vars(Store(s))

FairSpec == Spec /\ Fairness

------------------------------------------------------------------------------
(* Properties *)

\* Types; a CR that is gone leaves nothing behind, and one that waits for its
\* deletion waits for a finalizer.
TypeOK ==
  /\ cluster \in [up : BOOLEAN, terraform : BOOLEAN, read : BOOLEAN]
  /\ cr \in [Comps -> CRs] /\ admitted \in [Comps -> CRs]
  /\ \A c \in Comps : (cr[c].deleting => cr[c].finalizer) /\ (~cr[c].exists => cr[c] = NoCR)
  /\ release \in [Comps -> Owners] /\ manifests \subseteq Subs
  /\ work \in [pc : WorkPcs, on : Comps, seen : CRs]
  /\ job \in [pc : {"idle", "scanned", "ordered"}, on : Comps, migration : Migrations]
  /\ warned \in BOOLEAN /\ edits \in 0 .. MaxEdits

\* The operator never has installed both sides itself, whatever CRs were let in
\* side by side: the umbrella's install and the individuals' see each other's
\* release before they go on to helm.
NotBothByOperator ==
  release[Umbrella] = "operator" => \A s \in Subs : release[s] # "operator"

\* An individual that runs with nobody to manage it, and no umbrella about, ends up
\* with a CR: the scan finds it whether it came with helm or as YAML, whatever
\* creations race the scan's.
Unmanaged(s) ==
  /\ Present(s) \/ s \in manifests
  /\ ~cr[s].exists /\ ~cluster.terraform
  /\ ~Present(Umbrella) /\ ~cr[Umbrella].exists /\ ~admitted[Umbrella].exists

Adopted ==
  \A s \in Subs : Unmanaged(s) ~> ~Unmanaged(s)

\* An individual's CR beside an umbrella release, other than one that observes a
\* release of its own, is put aside: it becomes readonly, however often a user
\* unlocks it (unless one side goes).
Contested(s) ==
  /\ cr[s].exists /\ ~cr[s].deleting /\ ~cr[s].readonly
  /\ cr[s].migration \notin {"helm", "terraform"}
  /\ Present(Umbrella)

PutAside ==
  \A s \in Subs : Contested(s) ~> ~Contested(s)
==============================================================================
