------------------------------ MODULE Teardown ------------------------------
(***************************************************************************)
(* What happens when the operator's own chart is uninstalled: the pre-     *)
(* delete hook (castware-operator cleanup) takes the component CRs, the    *)
(* cluster CR and the CRDs away and must leave the components running, to  *)
(* be adopted again by a later installation.  The operator runs on         *)
(* meanwhile, so every step of Coexistence may come between the hook's     *)
(* calls: the component reconciler lets the umbrella's CR go, or puts a    *)
(* finalizer on a CR the hook has listed without one, and the scan adopts  *)
(* a release again as soon as its CR has gone.  Only the components' CRD,  *)
(* once deleted, takes no CR any more.  A hook that fails is started again *)
(* by its job.                                                             *)
(*                                                                         *)
(* The 2 minutes for which the hook waits for the umbrella's CR may be     *)
(* over at any time.                                                       *)
(***************************************************************************)
EXTENDS Coexistence

CONSTANT MaxRuns   \* how often the job runs the hook: its backoffLimit, and once

ASSUME TeardownAssumption == MaxRuns \in Nat

VARIABLE hook      \* runs so far, next call, copies of the CRs left; took, a history, has the
                   \* CRs handed off that got no finalizer from the operator since

teardownVars == <<vars, hook>>

HookPcs == {"none", "list", "delete", "clusters", "crds", "done", "failed"}
NoCopies == [c \in Comps |-> NoCR]

\* A user's deletion of c is being carried out.
Uninstalling(c) == work.pc = "uninstall" /\ work.on = c

\* What the hook leaves to the operator: a CR that goes with its deletion, or that
\* says its release is to stay.
HandedOff(c) ==
  hook' = [hook EXCEPT !.pc = "delete", !.on = c,
    !.took = IF /\ ~Uninstalling(c)
                /\ cr'[c].finalizer => hook.copy[c].finalizer /\ cr'[c].condemned
             THEN @ \cup {c} ELSE @]

------------------------------------------------------------------------------
(* cleanup.Run *)

\* It lists the component CRs once.
HookStarts ==
  /\ hook.pc \in {"none", "failed"} /\ hook.runs < MaxRuns
  /\ hook' = [hook EXCEPT !.runs = @ + 1, !.pc = "list", !.on = Umbrella, !.copy = cr,
                          !.waits = cr[Umbrella].finalizer]
  /\ UNCHANGED vars

\* A plausible bug: an individual's CR is deleted with its finalizer on.
HookMarksOnly(c) ==
  /\ hook.pc = "list" /\ hook.copy[c].exists
  /\ IF hook.copy[c].finalizer
     THEN /\ cr[c] = hook.copy[c] /\ AdmitsEdit(c)
          /\ cr' = [cr EXCEPT ![c].condemned = TRUE]
     ELSE UNCHANGED cr
  /\ HandedOff(c)
  /\ UNCHANGED <<cluster, admitted, Helm, work, job, warned, edits>>

\* One listed with its finalizer is labelled with an Update of the listed copy,
\* which takes the finalizer of an individual's CR with it.
HookMarks(c) ==
  /\ hook.pc = "list" /\ hook.copy[c].exists
  /\ IF hook.copy[c].finalizer
     THEN /\ cr[c] = hook.copy[c] /\ AdmitsEdit(c)
          /\ cr' = [cr EXCEPT ![c] =
               IF c = Umbrella THEN [@ EXCEPT !.condemned = TRUE]
                               ELSE Unfinalized([@ EXCEPT !.condemned = TRUE])]
     ELSE UNCHANGED cr
  /\ HandedOff(c)
  /\ UNCHANGED <<cluster, admitted, Helm, work, job, warned, edits>>

\* The Delete that follows fails on a CR that is gone.
HookDeletes ==
  /\ hook.pc = "delete" /\ cr[hook.on].exists
  /\ cr' = [cr EXCEPT ![hook.on] = Deleted(@)]
  /\ hook' = [hook EXCEPT !.pc = "list", !.copy[hook.on] = NoCR, !.on = Umbrella]
  /\ UNCHANGED <<cluster, admitted, Helm, work, job, warned, edits>>

\* waitForUmbrellaCRsRemoved, for an umbrella listed with its finalizer: the
\* operator lets the CR go, or after two minutes the hook does.
HookWaits ==
  /\ hook.pc = "list" /\ hook.copy = NoCopies
  /\ IF hook.waits /\ cr[Umbrella].exists
     THEN AdmitsEdit(Umbrella) /\ cr' = [cr EXCEPT ![Umbrella] = Unfinalized(@)]
     ELSE UNCHANGED cr
  /\ hook' = [hook EXCEPT !.pc = "clusters"]
  /\ UNCHANGED <<cluster, admitted, Helm, work, job, warned, edits>>

HookDeletesCluster ==
  /\ hook.pc = "clusters" /\ hook' = [hook EXCEPT !.pc = "crds"]
  /\ cluster' = [cluster EXCEPT !.up = FALSE]
  /\ UNCHANGED <<cr, admitted, Helm, work, job, warned, edits>>

\* With its CRD the API server deletes every CR there is.
HookDeletesCRDs ==
  /\ hook.pc = "crds" /\ hook' = [hook EXCEPT !.pc = "done"]
  /\ cr' = [c \in Comps |-> IF cr[c].exists THEN Deleted(cr[c]) ELSE cr[c]]
  /\ UNCHANGED <<cluster, admitted, Helm, work, job, warned, edits>>

\* A call fails; the job starts the hook again.
HookFails ==
  /\ hook.pc \notin {"none", "failed", "done"}
  /\ hook' = [hook EXCEPT !.pc = "failed", !.on = Umbrella, !.waits = FALSE,
                          !.copy = NoCopies]
  /\ UNCHANGED vars

------------------------------------------------------------------------------
(* The specification *)

TeardownInit ==
  /\ Init
  /\ hook = [runs |-> 0, pc |-> "none", on |-> Umbrella, copy |-> NoCopies, waits |-> FALSE, took |-> {}]

Hook ==
  \/ HookStarts \/ HookDeletes \/ HookWaits \/ HookDeletesCluster \/ HookDeletesCRDs
  \/ HookFails \/ \E c \in Comps : HookMarks(c)

\* The operator, and users, while the hook runs and after it: a CR is created until
\* the CRD has gone.
RunsOn ==
  /\ Next
  /\ hook.pc = "done" => admitted' = admitted
  /\ hook' = [hook EXCEPT !.took = {c \in @ : cr'[c].finalizer => cr[c].finalizer}]

TeardownSpec == TeardownInit /\ [][Hook \/ RunsOn]_teardownVars

------------------------------------------------------------------------------
(* Properties *)

TeardownTypeOK ==
  /\ TypeOK
  /\ hook.runs \in 0 .. MaxRuns /\ hook.pc \in HookPcs /\ hook.on \in Comps /\ hook.copy \in [Comps -> CRs]
  /\ hook.waits \in BOOLEAN /\ hook.took \subseteq Comps
  /\ hook.pc \in {"none", "failed", "done"} => hook.copy = NoCopies

\* The release of a component whose CR the hook has handed off stays installed, with
\* the operator running on, resolving finalizers, adopting, and taking releases down
\* with other CRs: only a user takes it down, until the operator puts a finalizer on
\* a CR of that name (the same or, adopted again, another).
ReleasePreserved ==
  [][\A c \in hook.took :
       release[c] # "absent" /\ release'[c] = "absent" => edits' # edits]_teardownVars

\* The umbrella's release stays preserved, whether the operator or the hook resolved
\* the finalizer the umbrella's CR was listed with (as waitForUmbrellaCRRemoved's
\* comment has it): not so if the scan adopts it again before the CRD goes.
UmbrellaPreserved ==
  [][hook.waits /\ Present(Umbrella) /\ ~Present(Umbrella)' => edits' # edits]_teardownVars
==============================================================================
