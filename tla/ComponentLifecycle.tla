-------------------------- MODULE ComponentLifecycle --------------------------
(***************************************************************************)
(* One Component CR and its helm release: ComponentReconciler's install,   *)
(* upgrade, rollback, adoption and deletion, against users who edit the CR, *)
(* Mothership's rollback requests, and helm.                               *)
(*                                                                         *)
(* A reconcile reads the CR once and works from that copy: its decisions   *)
(* are taken on the copy and updateStatus writes the copy's whole status   *)
(* over whatever the server has.  seen is the copy; it and pc are lost     *)
(* when the process stops.  Every API or helm call that changes something  *)
(* is a step of its own, taken together with the GetRelease before it.     *)
(*                                                                         *)
(* Simplifications:                                                        *)
(*  - the component is enabled, has a version, is not the umbrella, and no *)
(*    umbrella is installed (UmbrellaMigration has that);                  *)
(*  - the cluster CR exists and is available;                              *)
(*  - spot-handler's phase-2 upgrade, events and action messages are left  *)
(*    out: of what Mothership is told, the reported revision is kept;      *)
(*  - values are numbered in the order users set them;                     *)
(*  - users and faults are limited by the budgets MaxEdits and MaxFaults.  *)
(***************************************************************************)
EXTENDS Naturals, Sequences

CONSTANTS
  Versions,  \* chart versions
  Origins,   \* values of spec.migration: "", "helm" or "yaml"
  Edits,     \* what users and others do: a subset of AllEdits
  Faults,    \* what goes wrong: a subset of AllFaults
  MidFlight, \* they also act on a component with an operation in progress
  Downtime,  \* the operator may be down, or busy, past a deadline
  MaxEdits,  \* bound on edits in a behaviour
  MaxFaults  \* bound on faults in a behaviour

AllEdits == {"version", "values", "lock", "unlock", "delete", "ask rollback", "uninstall",
             "repair"}
\* The chart cannot be fetched; the version is not in the repository; helm
\* records a failed release; the process stops in the middle of an install or an
\* upgrade, or between two steps; helm's rollback fails or is stopped; an action
\* result or a status write does not get through; the one that reopens the deadline
\* after a rollback ("refresh").
AllFaults == {"fetch", "no such version", "apply", "stop in helm", "stop", "rollback", "report",
              "write", "refresh"}

None == ""

ASSUME LifecycleAssumption ==
  /\ None \notin Versions /\ Versions # {}
  /\ Origins \subseteq {"", "helm", "yaml"}
  /\ Edits \subseteq AllEdits /\ Faults \subseteq AllFaults
  /\ MidFlight \in BOOLEAN /\ Downtime \in BOOLEAN
  /\ MaxEdits \in Nat /\ MaxFaults \in Nat

VARIABLES
  cr,      \* the CR: existence, deletion, finalizer and spec, with its generation
  status,  \* its status; prog is the Progressing condition's reason, "" for none
  overdue, \* that condition is older than ten minutes
  history, \* helm's revisions of the release, oldest first
  told,    \* the revisions Mothership has been told of
  pc,      \* the call the running reconcile makes next, or "idle"
  why,     \* what its rollback is for
  seen,    \* its copy of the CR
  origin,  \* spec.migration
  edits,   \* edits left to users
  faults   \* faults left

local == <<pc, why, seen>>
vars  == <<cr, status, overdue, history, told, local, origin, edits, faults>>

------------------------------------------------------------------------------
(* Helpers *)

\* An operation is in progress; none is, and none was for a release to take over.
Active(s) == s.prog \in {"installing", "upgrading", "migrating"}
Fresh(s)  == s.prog = "" /\ origin # ""
AtRest(s) == ~Fresh(s) /\ ~Active(s)

GenerationChanged(c, s) == s.observed # 0 /\ c.gen # s.observed
VersionChanged(c, s)    == c.version # s.current

\* What a reconcile of an unlocked CR decides on, in this order.
NeedsInstall(s) ==
  \/ Fresh(s) /\ origin = "yaml"
  \/ AtRest(s) /\ s.current = None /\ origin = ""
NeedsUpgrade(c, s) ==
  AtRest(s) /\ s.current # None /\ (VersionChanged(c, s) \/ GenerationChanged(c, s))
Resting(c, s) == AtRest(s) /\ ~NeedsInstall(s) /\ ~NeedsUpgrade(c, s)

Revision == Len(history)
Released == history # <<>>
Top      == history[Revision]
Previous == history[Revision - 1]
Record(ver, val, st)   == [version |-> ver, values |-> val, status |-> st]
Add(r)   == history' = Append(history, r)

BlankCR     == [exists |-> FALSE, deleting |-> FALSE, finalizer |-> FALSE, readonly |-> FALSE,
                version |-> None, values |-> 0, gen |-> 0]
BlankStatus == [prog |-> "", avail |-> FALSE, current |-> None, observed |-> 0,
                rollback |-> FALSE, reported |-> 0]
Blank       == [cr |-> BlankCR, status |-> BlankStatus]

Fault(f)  == f \in Faults /\ faults > 0 /\ faults' = faults - 1
Go(next)  == pc' = next /\ UNCHANGED <<why, seen>>
Return    == pc' = "idle" /\ why' = "" /\ seen' = Blank
Rollback(cause) == pc' = "patch version" /\ why' = cause /\ UNCHANGED seen

\* A plausible bug: the CR is not read again before its status is written.
WriteAnyway(s) == status' = s

\* updateStatus: the whole status is replaced, if the CR is still there.
Write(s) == status' = IF cr.exists THEN s ELSE status

\* RecordActionResult with an OK status: on success the revision is recorded in
\* the status that is written next.
Tell(ok) ==
  \/ ok /\ told' = told \cup {Revision} /\ UNCHANGED faults
  \/ ~ok /\ Fault("report") /\ UNCHANGED told
Reported(s, ok) == [s EXCEPT !.reported = IF ok THEN Revision ELSE @]

\* Mothership has the report, but of the two writes, of the revision reported and of
\* the result of the operation, the second fails, or both do.
WritesFail(f) ==
  /\ told' = told \cup {Revision} /\ Fault(f)
  /\ UNCHANGED status \/ Write(Reported(seen.status, TRUE))

\* A patch of the spec on the server; the API server counts it if it changes it.
SetVersion(v) == cr' = [cr EXCEPT !.version = v, !.gen = IF cr.version = v THEN @ ELSE @ + 1]

------------------------------------------------------------------------------
(* The start of a reconcile *)

Read ==
  /\ pc = "idle" /\ cr.exists
  /\ pc' = IF cr.deleting THEN "delete" ELSE IF cr.readonly THEN "adopt" ELSE "decide"
  /\ seen' = [cr |-> cr, status |-> status]
  /\ UNCHANGED <<cr, status, overdue, history, told, why, origin, edits, faults>>

\* The finalizer is added with an Update, which is rejected if the CR changed
\* since it was read.
AddFinalizer ==
  /\ pc = "decide" /\ ~seen.cr.finalizer
  /\ \/ /\ seen = [cr |-> cr, status |-> status]
        /\ cr' = [cr EXCEPT !.finalizer = TRUE]
        /\ seen' = [seen EXCEPT !.cr.finalizer = TRUE]
        /\ UNCHANGED <<pc, why>>
     \/ seen # [cr |-> cr, status |-> status] /\ Return /\ UNCHANGED cr
  /\ UNCHANGED <<status, overdue, history, told, origin, edits, faults>>

\* A plausible bug: the finalizer is left to the end of the reconcile.
DecideWithoutFinalizer == pc = "decide"

\* The reconcile is past the finalizer and decides on its copy.
Decide == pc = "decide" /\ seen.cr.finalizer

\* A release taken over from helm starts as an operation in progress.
StartMigration ==
  /\ Decide /\ Fresh(seen.status) /\ origin = "helm"
  /\ Write([seen.status EXCEPT !.prog = "migrating"]) /\ overdue' = FALSE
  /\ Return
  /\ UNCHANGED <<cr, history, told, origin, edits, faults>>

\* A migration from yaml is tried dry; a failure is only reported.
DryRunFails ==
  /\ Decide /\ Fresh(seen.status) /\ origin = "yaml" /\ ~Released
  /\ Fault("apply") \/ Fault("fetch")
  /\ Write([seen.status EXCEPT !.avail = FALSE])
  /\ Return
  /\ UNCHANGED <<cr, overdue, history, told, origin, edits>>

------------------------------------------------------------------------------
(* Install *)

\* Progressing is set before helm is called, and helm is called even when that
\* write fails.
BeginInstall ==
  /\ Decide /\ NeedsInstall(seen.status)
  /\ pc' = "install" /\ seen' = [seen EXCEPT !.status.prog = "installing"]
  /\ \/ Write(seen'.status) /\ overdue' = FALSE /\ UNCHANGED faults
     \/ Fault("write") /\ UNCHANGED <<status, overdue>>
  /\ UNCHANGED <<cr, history, told, why, origin, edits>>

\* A release that is there is left alone, whatever its status.
Install ==
  /\ pc = "install"
  /\ \/ Released /\ UNCHANGED <<history, faults>>
     \/ /\ ~Released
        /\ \/ Add(Record(seen.cr.version, seen.cr.values, "deployed")) /\ UNCHANGED faults
           \/ Fault("apply") /\ Add(Record(seen.cr.version, seen.cr.values, "failed"))
           \/ Fault("stop in helm") /\ Add(Record(seen.cr.version, seen.cr.values, "pending"))
           \/ Fault("fetch") /\ UNCHANGED history
  /\ Return
  /\ UNCHANGED <<cr, status, overdue, told, origin, edits>>

------------------------------------------------------------------------------
(* An operation in progress *)

\* A plausible bug: any release that is there counts as installed.
CheckProgressAnyStatus ==
  /\ Decide /\ Active(seen.status) /\ ~overdue /\ Released
  /\ \E ok \in BOOLEAN :
       /\ Tell(ok)
       /\ Write(Reported([seen.status EXCEPT !.prog = "done", !.avail = TRUE,
                            !.current = Top.version, !.observed = seen.cr.gen], ok))
  /\ Return
  /\ UNCHANGED <<cr, overdue, history, origin, edits>>

\* checkHelmProgress on a deployed release.
Complete ==
  /\ Top.status = "deployed"
  /\ \/ WritesFail("write")
     \/ \E ok \in BOOLEAN :
          /\ Tell(ok)
          /\ Write(Reported([seen.status EXCEPT !.prog = "done", !.avail = TRUE,
                               !.current = Top.version, !.observed = seen.cr.gen], ok))
  /\ Return

\* A plausible bug: a failed operation is waited for.
GiveUpNever == Top.status = "failed" /\ Return /\ UNCHANGED <<status, told, faults>>

\* checkHelmProgress on a failed one: an upgrade is rolled back, anything else is
\* marked as failed.
GiveUp ==
  /\ Top.status = "failed"
  /\ \/ seen.status.prog = "upgrading" /\ seen.status.current # None
        /\ Rollback("failed") /\ UNCHANGED status
     \/ ~(seen.status.prog = "upgrading" /\ seen.status.current # None)
        /\ Write([seen.status EXCEPT !.prog = "done", !.avail = FALSE]) /\ Return
  /\ UNCHANGED <<told, faults>>

\* Before the deadline: checkHelmProgress.  A pending or a missing release is
\* looked at again later.
CheckProgress ==
  /\ Decide /\ Active(seen.status) /\ ~overdue
  /\ \/ Released /\ (Complete \/ GiveUp)
     \/ Released /\ Top.status = "pending" /\ Return /\ UNCHANGED <<status, told, faults>>
     \/ ~Released /\ Return /\ UNCHANGED <<status, told, faults>>
  /\ UNCHANGED <<cr, overdue, history, origin, edits>>

\* Past it, a migration is left to the user: the CR goes readonly.
LockOverdue ==
  /\ Decide /\ seen.status.prog = "migrating" /\ overdue
  /\ cr' = IF cr.readonly THEN cr ELSE [cr EXCEPT !.readonly = TRUE, !.gen = @ + 1]
  /\ Return
  /\ UNCHANGED <<status, overdue, history, told, origin, edits, faults>>

\* Past it, anything else is rolled back.
RollBackOverdue ==
  /\ Decide /\ seen.status.prog \in {"installing", "upgrading"} /\ overdue
  /\ Rollback("overdue")
  /\ UNCHANGED <<cr, status, overdue, history, told, origin, edits, faults>>

------------------------------------------------------------------------------
(* Upgrade *)

\* A release that is gone is an error, and the reconcile is retried.
BeginUpgrade ==
  /\ Decide /\ NeedsUpgrade(seen.cr, seen.status)
  /\ \/ ~Released /\ Return /\ UNCHANGED <<status, overdue, faults>>
     \/ /\ Released
        /\ pc' = "upgrade" /\ seen' = [seen EXCEPT !.status.prog = "upgrading"]
        /\ UNCHANGED why
        /\ \/ Write(seen'.status) /\ overdue' = FALSE /\ UNCHANGED faults
           \/ Fault("write") /\ UNCHANGED <<status, overdue>>
  /\ UNCHANGED <<cr, history, told, origin, edits>>

\* A plausible bug: the upgrade goes out with the values of the last revision.
UpgradeOldValues ==
  /\ pc = "upgrade" /\ Released
  /\ Add(Record(seen.cr.version, Top.values, "deployed")) /\ Return
  /\ UNCHANGED <<cr, status, overdue, told, origin, edits, faults>>

\* Helm upgrades, or does not: whatever the failure, unless it is that the
\* version does not exist, a rollback follows.
Upgrade ==
  /\ pc = "upgrade"
  /\ \/ /\ Released /\ Top.status # "pending"
        /\ \/ Add(Record(seen.cr.version, seen.cr.values, "deployed")) /\ Return
              /\ UNCHANGED faults
           \/ Fault("apply") /\ Add(Record(seen.cr.version, seen.cr.values, "failed"))
              /\ Rollback("upgrade")
           \/ Fault("stop in helm") /\ Add(Record(seen.cr.version, seen.cr.values, "pending"))
              /\ Return
     \/ Fault("fetch") /\ UNCHANGED history /\ Rollback("upgrade")
     \/ Fault("no such version") /\ UNCHANGED history /\ Go("revert")
     \* helm refuses to upgrade nothing, or with an operation pending
     \/ /\ Released => Top.status = "pending"
        /\ UNCHANGED <<history, faults>> /\ Rollback("upgrade")
  /\ UNCHANGED <<cr, status, overdue, told, origin, edits>>

\* The version goes back to the one installed.
Revert ==
  /\ pc = "revert" /\ Released /\ ~cr.readonly
  /\ IF seen.cr.version = Top.version THEN UNCHANGED cr ELSE SetVersion(Top.version)
  /\ Return
  /\ UNCHANGED <<status, overdue, history, told, origin, edits, faults>>

------------------------------------------------------------------------------
(* rollback *)

\* Asked for by Mothership through the status: the flag is cleared first.
TakeRequest ==
  /\ Decide /\ Resting(seen.cr, seen.status) /\ seen.status.rollback
  /\ seen' = [seen EXCEPT !.status.rollback = FALSE]
  /\ Write(seen'.status)
  /\ pc' = "patch version" /\ why' = "asked"
  /\ UNCHANGED <<cr, overdue, history, told, origin, edits, faults>>

\* Nothing to roll back to: the caller on an overdue operation marks it as
\* failed, the others return the error.  The action is reported as a success.
NothingToRollBack ==
  /\ pc = "patch version" /\ Revision = 1
  /\ \/ WritesFail("write")
     \/ \E ok \in BOOLEAN :
          /\ Tell(ok)
          /\ LET s == Reported(seen.status, ok) IN
               IF why = "overdue" THEN Write([s EXCEPT !.prog = "done", !.avail = FALSE])
               ELSE Write(IF ok THEN s ELSE status)
  /\ Return
  /\ UNCHANGED <<cr, overdue, history, origin, edits>>

\* The desired version goes back to the previous revision's.
PatchVersion ==
  /\ pc = "patch version" /\ Revision > 1 /\ ~cr.readonly
  /\ IF seen.cr.version = Previous.version THEN UNCHANGED cr ELSE SetVersion(Previous.version)
  /\ Go("roll back")
  /\ UNCHANGED <<status, overdue, history, told, origin, edits, faults>>

\* A release that is gone, or a patch the webhook rejects, is an error.
PatchVersionFails ==
  /\ pc = "patch version" /\ (Released => Revision > 1 /\ cr.readonly)
  /\ Return
  /\ UNCHANGED <<cr, status, overdue, history, told, origin, edits, faults>>

RevertFails ==
  /\ pc = "revert" /\ (~Released \/ cr.readonly)
  /\ Return
  /\ UNCHANGED <<cr, status, overdue, history, told, origin, edits, faults>>

\* A plausible bug: helm is left to roll back to the first revision.
RollBackToFirst ==
  /\ pc = "roll back" /\ Revision > 1
  /\ Add(Record(history[1].version, history[1].values, "deployed")) /\ Go("rolled back")
  /\ UNCHANGED <<cr, status, overdue, told, origin, edits, faults>>

\* Helm's rollback adds a revision like the previous one.
RollBack ==
  /\ pc = "roll back"
  /\ \/ /\ Revision > 1
        /\ \/ Add(Record(Previous.version, Previous.values, "deployed")) /\ Go("rolled back")
              /\ UNCHANGED faults
           \/ /\ Fault("rollback") /\ Return
              /\ \E st \in {"failed", "pending"} : Add(Record(Previous.version, Previous.values, st))
     \/ Revision <= 1 /\ Return /\ UNCHANGED <<history, faults>>
  /\ UNCHANGED <<cr, status, overdue, told, origin, edits>>

\* The rollback is reported; on an overdue operation the deadline is reopened.
FinishRollback ==
  /\ pc = "rolled back"
  /\ \/ WritesFail(IF why = "overdue" THEN "refresh" ELSE "write") /\ UNCHANGED overdue
     \/ /\ \E ok \in BOOLEAN :
             Tell(ok) /\ Write(IF ok \/ why = "overdue" THEN Reported(seen.status, ok) ELSE status)
        /\ overdue' = (overdue /\ why # "overdue")
  /\ Return
  /\ UNCHANGED <<cr, history, origin, edits>>

------------------------------------------------------------------------------
(* Nothing to do, readonly, deletion *)

Quiet == Decide /\ Resting(seen.cr, seen.status) /\ ~seen.status.rollback

\* A plausible bug: the revision is noted before Mothership has it.
ObserveFirst ==
  /\ Quiet /\ Released
  /\ Write([seen.status EXCEPT !.reported = Revision])
  /\ Return
  /\ UNCHANGED <<cr, overdue, history, told, origin, edits, faults>>

\* A plausible bug: only an upgrade of the operator's own is reported.
ObserveNothing ==
  Quiet /\ Return
  /\ UNCHANGED <<cr, status, overdue, history, told, origin, edits, faults>>

\* An available component's revision is reported when it changed, and a status
\* without an observed generation gets it.
Observe ==
  /\ Quiet
  /\ LET stamped(s) == [s EXCEPT !.observed = IF @ = 0 THEN seen.cr.gen ELSE @] IN
       \/ /\ seen.status.avail /\ Released /\ seen.status.reported # Revision
          /\ \/ WritesFail("write")
             \/ \E ok \in BOOLEAN :
                  /\ Tell(ok)
                  /\ Write(IF ok \/ seen.status.observed = 0
                           THEN stamped(Reported(seen.status, ok)) ELSE status)
       \/ /\ seen.status.avail /\ Released /\ seen.status.reported = Revision
          /\ Write(IF seen.status.observed = 0 THEN stamped(seen.status) ELSE status)
          /\ UNCHANGED <<told, faults>>
       \/ ~(seen.status.avail /\ Released) /\ UNCHANGED <<status, told, faults>>
  /\ Return
  /\ UNCHANGED <<cr, overdue, history, origin, edits>>

\* A plausible bug: a readonly CR is looked at when it is edited.
AdoptWhenEdited ==
  /\ pc = "adopt"
  /\ Write(IF Released /\ GenerationChanged(seen.cr, seen.status)
           THEN [seen.status EXCEPT !.current = Top.version, !.observed = seen.cr.gen]
           ELSE status)
  /\ Return
  /\ UNCHANGED <<cr, overdue, history, told, origin, edits, faults>>

\* A readonly CR follows the release.
Adopt ==
  /\ pc = "adopt"
  /\ Write(IF Released /\ (seen.status.current # Top.version \/ GenerationChanged(seen.cr, seen.status))
           THEN [seen.status EXCEPT !.current = Top.version, !.observed = seen.cr.gen]
           ELSE status)
  /\ Return
  /\ UNCHANGED <<cr, overdue, history, told, origin, edits, faults>>

\* A plausible bug: a release that is gone cannot be uninstalled.
UninstallPresent ==
  /\ pc = "delete"
  /\ IF Released THEN Go("drop finalizer") /\ history' = <<>> /\ told' = {}
     ELSE Return /\ UNCHANGED <<history, told>>
  /\ UNCHANGED <<cr, status, overdue, origin, edits, faults>>

\* deleteComponent: the release is uninstalled,
Uninstall ==
  /\ pc = "delete" /\ Go("drop finalizer")
  /\ history' = <<>> /\ told' = {}
  /\ UNCHANGED <<cr, status, overdue, origin, edits, faults>>

\* and the CR goes with its finalizer, if the update is let in.
DropFinalizer ==
  /\ pc = "drop finalizer"
  /\ IF seen = [cr |-> cr, status |-> status] /\ ~cr.readonly
     THEN cr' = BlankCR /\ status' = BlankStatus ELSE UNCHANGED <<cr, status>>
  /\ Return
  /\ UNCHANGED <<overdue, history, told, origin, edits, faults>>

\* The process stops between two calls.
Stop ==
  /\ pc # "idle" /\ Fault("stop") /\ Return
  /\ UNCHANGED <<cr, status, overdue, history, told, origin, edits>>

------------------------------------------------------------------------------
(* Users, Mothership and time *)

\* The next edit is of the kind e; unless MidFlight, a change to what is to run
\* waits until the last one is done with.
Edit(e) ==
  /\ e \in Edits /\ edits > 0 /\ edits' = edits - 1
  /\ cr.exists
  /\ \/ MidFlight \/ e \notin {"version", "values", "ask rollback"}
     \/ pc = "idle" /\ status.avail /\ Resting(cr, status) /\ ~status.rollback

SetsVersion(v) ==
  /\ Edit("version") /\ ~cr.deleting /\ ~cr.readonly /\ v # cr.version
  /\ cr' = [cr EXCEPT !.version = v, !.gen = @ + 1]
  /\ UNCHANGED <<status, overdue, history, told, local, origin, faults>>

SetsValues ==
  /\ Edit("values") /\ ~cr.deleting /\ ~cr.readonly
  /\ cr' = [cr EXCEPT !.values = @ + 1, !.gen = @ + 1]
  /\ UNCHANGED <<status, overdue, history, told, local, origin, faults>>

SetsReadonly(r) ==
  /\ Edit(IF r THEN "lock" ELSE "unlock") /\ ~cr.deleting /\ cr.readonly # r
  /\ cr' = [cr EXCEPT !.readonly = r, !.gen = @ + 1]
  /\ UNCHANGED <<status, overdue, history, told, local, origin, faults>>

\* A CR with no finalizer is gone at once.
Deletes ==
  /\ Edit("delete") /\ ~cr.deleting
  /\ IF cr.finalizer THEN cr' = [cr EXCEPT !.deleting = TRUE] /\ UNCHANGED status
     ELSE cr' = BlankCR /\ status' = BlankStatus
  /\ UNCHANGED <<overdue, history, told, local, origin, faults>>

\* handleRollback: one flag is set in the status the server has.
AsksRollback ==
  /\ Edit("ask rollback") /\ Revision > 1
  /\ status' = [status EXCEPT !.rollback = TRUE]
  /\ UNCHANGED <<cr, overdue, history, told, local, origin, faults>>

\* Somebody else uninstalls the release of a readonly CR, as a migration does, or
\* repairs it.
OthersUninstall ==
  /\ Edit("uninstall") /\ cr.readonly /\ Released
  /\ history' = <<>> /\ told' = {}
  /\ UNCHANGED <<cr, status, overdue, local, origin, faults>>

OthersRepair(v) ==
  /\ Edit("repair") /\ cr.readonly /\ Released
  /\ Add(Record(v, Top.values, "deployed"))
  /\ UNCHANGED <<cr, status, overdue, told, local, origin, faults>>

\* Ten minutes pass on an operation that is stuck, or that finished unobserved.
Deadline ==
  /\ cr.exists /\ Active(status) /\ ~overdue
  /\ Downtime \/ (pc \in {"idle", "decide"} /\ (Released => Top.status = "pending"))
  /\ overdue' = TRUE
  /\ UNCHANGED <<cr, status, history, told, local, origin, edits, faults>>

------------------------------------------------------------------------------
(* The specification *)

\* A fresh CR, or one for a release that helm already has.
Init ==
  /\ origin \in Origins
  /\ \E v \in Versions :
       /\ cr = [exists |-> TRUE, deleting |-> FALSE, finalizer |-> FALSE, readonly |-> FALSE,
                version |-> v, values |-> 1, gen |-> 1]
       /\ \/ origin # "helm" /\ history = <<>>
          \/ /\ origin = "helm"
             /\ \E st \in {"deployed", "failed", "pending"} : history = <<Record(v, 1, st)>>
  /\ status = BlankStatus /\ overdue = FALSE
  /\ told = {} /\ pc = "idle" /\ why = "" /\ seen = Blank
  /\ edits = MaxEdits /\ faults = MaxFaults

Reconcile ==
  \/ Read \/ AddFinalizer \/ StartMigration \/ BeginInstall \/ Install
  \/ CheckProgress \/ LockOverdue \/ RollBackOverdue
  \/ BeginUpgrade \/ Upgrade \/ Revert \/ RevertFails
  \/ TakeRequest \/ NothingToRollBack \/ PatchVersion \/ PatchVersionFails \/ RollBack
  \/ FinishRollback \/ Observe \/ Adopt \/ Uninstall \/ DropFinalizer

Interference ==
  \/ \E v \in Versions : SetsVersion(v) \/ OthersRepair(v)
  \/ \E r \in BOOLEAN : SetsReadonly(r)
  \/ SetsValues \/ Deletes \/ AsksRollback \/ OthersUninstall

Next == Reconcile \/ DryRunFails \/ Stop \/ Interference \/ Deadline

Spec == Init /\ [][Next]_vars

\* The controller keeps reconciling (watches, requeues and retries), and time
\* passes.
FairSpec == Spec /\ WF_vars(Reconcile) /\ WF_vars(Deadline)

------------------------------------------------------------------------------
(* Properties *)

CRs == [exists : BOOLEAN, deleting : BOOLEAN, finalizer : BOOLEAN, readonly : BOOLEAN,
        version : Versions \cup {None}, values : Nat, gen : Nat]
Statuses == [prog : {"", "installing", "upgrading", "migrating", "done"}, avail : BOOLEAN,
             current : Versions \cup {None}, observed : Nat, rollback : BOOLEAN, reported : Nat]
Records  == [version : Versions \cup {None}, values : Nat,
             status : {"deployed", "failed", "pending"}]
PCs    == {"idle", "decide", "adopt", "delete", "drop finalizer", "install", "upgrade", "revert",
           "patch version", "roll back", "rolled back"}
Causes == {"", "asked", "upgrade", "failed", "overdue"}

\* Every variable has its type, and no status outlives its CR (updateStatus).
TypeOK ==
  /\ cr \in CRs /\ status \in Statuses /\ overdue \in BOOLEAN
  /\ history \in Seq(Records) /\ told \in SUBSET Nat
  /\ pc \in PCs /\ why \in Causes /\ seen \in [cr : CRs, status : Statuses]
  /\ origin \in Origins /\ edits \in 0..MaxEdits /\ faults \in 0..MaxFaults
  /\ ~cr.exists => status = BlankStatus

\* The component is available and there is nothing left to do with it; nothing
\* is being done either.
Finished ==
  /\ cr.exists /\ ~cr.deleting /\ ~cr.readonly
  /\ status.avail /\ Resting(cr, status) /\ ~status.rollback
Settled == pc = "idle" /\ Finished

\* A component reported available, with nothing to do, runs: its latest revision
\* is deployed and of the reported version (checkHelmProgress).
SettledIsDeployed ==
  Settled => Released /\ Top.status = "deployed" /\ Top.version = status.current

\* The values a settled component has in its spec were handed to helm: a change
\* of values alone leads to an upgrade (ObservedGeneration).
ValuesReachHelm ==
  Settled => \E i \in 1..Revision : history[i].values = cr.values

\* A revision noted as reported is one that Mothership was told of, however the
\* calls and writes fail (recordActionResult).
NoPhantomReport == Released /\ status.reported # 0 => status.reported \in told

\* A release that the operator installed does not outlive its CR, whenever the
\* CR is deleted (ComponentFinalizer).
NoOrphanRelease == ~cr.exists /\ origin # "helm" => ~Released

LastDeployed ==
  {d \in 1..Revision : /\ history[d].status = "deployed"
                       /\ \A i \in d + 1..Revision : history[i].status # "deployed"}

\* A rollback that nobody asked for restores the last revision that was deployed,
\* version and values: it neither returns to a failed one nor gives up the one
\* that is running (rollback).
RestoresLastDeployed ==
  [][pc = "roll back" /\ pc' = "rolled back" /\ why # "asked"
       => \A d \in LastDeployed : history'[Revision + 1] = history[d]]_vars

\* A component that was installed and is to run another version comes to run the
\* version its spec asks for, the old one after a failure.
UpgradeConverges ==
  cr.exists /\ status.current # None /\ cr.version # status.current
    ~> ~cr.exists \/ cr.readonly \/ cr.version = status.current

\* A deletion completes (deleteComponent), unless the CR is locked: the webhook admits
\* no update of a locked one.
DeletionEnds == cr.deleting ~> ~cr.exists \/ cr.readonly

\* A deletion completes, be the CR locked before it or meanwhile.
LockedDeletionEnds == cr.deleting ~> ~cr.exists

\* The revision a component settles at is reported to Mothership.
RevisionReported ==
  Finished /\ Revision \notin told ~> ~Finished \/ Revision \in told

\* An installed component whose CR is made writable again has its release back.
ReleaseRestored ==
  cr.exists /\ ~cr.readonly /\ status.current # None /\ ~Released
    ~> ~cr.exists \/ cr.readonly \/ Released

\* The status of a readonly component follows the release, whoever changes it.
FollowsRelease ==
  cr.exists /\ cr.readonly /\ Released /\ Top.version # status.current
    ~> ~cr.exists \/ ~cr.readonly \/ ~Released \/ Top.version = status.current

==============================================================================
