---------------------------- MODULE TeardownProofs ----------------------------
(***************************************************************************)
(* Theorems about Teardown, for every set of individual components and     *)
(* every bound on what users do: the operator's own steps are Coexistence's *)
(* and keep its invariant, the hook's keep it too.                         *)
(***************************************************************************)
EXTENDS Teardown, CoexistenceProofs

USE DEF Api, Helm

(* What TeardownTypeOK says of the hook. *)

HookOK ==
  /\ hook \in [runs : 0 .. MaxRuns, pc : HookPcs, on : Comps, copy : [Comps -> CRs],
               waits : BOOLEAN, took : SUBSET Comps]
  /\ hook.pc \notin {"list", "delete"} => hook.copy = NoCopies

TeardownInv == Inv /\ HookOK

LEMMA InvTypes == TeardownInv => TeardownTypeOK
  BY TypeInvType DEF TeardownInv, Inv, HookOK, TeardownTypeOK

------------------------------------------------------------------------------
(* The types. *)

\* The hook writes CRs and the cluster CR, and nothing else of Coexistence's state.
LEMMA InvOutside ==
  ASSUME Inv, ApiOK', UNCHANGED <<admitted, Helm, work, job, warned, edits>>
  PROVE  Inv'
  BY SidesKept DEF Inv, TypeInv, AdmittedOK, HelmOK, WorkOK, JobOK

LEMMA NoCopiesOK == NoCopies \in [Comps -> CRs]
  BY Blanks DEF NoCopies

LEMMA HookMarksOK ==
  ASSUME TeardownInv, NEW c \in Comps, HookMarks(c)
  PROVE  TeardownInv'
  <1> USE DEF TeardownInv
  <1>1. HookOK'
    BY DEF HookMarks, HandedOff, HookOK, HookPcs
  <1>2. CASE hook.copy[c].finalizer
    <2> DEFINE m == [cr[c] EXCEPT !.condemned = TRUE]
               r == IF c = Umbrella THEN m ELSE Unfinalized(m)
    <2>1. cr[c] \in CRs /\ Sound(cr[c]) /\ cr[c].exists
      BY <1>2 DEF HookMarks, Inv, TypeInv, ApiOK
    <2>2. m \in CRs /\ Sound(m) /\ m.exists
      <3>1. m \in CRs /\ Sound(m)
        BY <2>1 DEF CRs, Sound
      <3>2. m.exists
        BY <2>1 DEF CRs
      <3> QED BY <3>1, <3>2
    <2>3. cr' = [cr EXCEPT ![c] = r] /\ UNCHANGED cluster
      BY <1>2 DEF HookMarks
    <2> HIDE DEF m
    <2>4. r \in CRs /\ Sound(r)
      BY <2>2, Removed
    <2> HIDE DEF r
    <2>5. ApiOK'
      BY <2>3, <2>4, CRUpdate DEF Inv, TypeInv
    <2> QED BY <1>1, <2>5, InvOutside DEF HookMarks
  <1>3. CASE ~hook.copy[c].finalizer
    <2>1. ApiOK'
      BY <1>3 DEF HookMarks, Inv, TypeInv, ApiOK
    <2> QED BY <1>1, <2>1, InvOutside DEF HookMarks
  <1> QED BY <1>2, <1>3

LEMMA HookDeletesOK ==
  ASSUME TeardownInv, HookDeletes
  PROVE  TeardownInv'
  <1> USE DEF TeardownInv
  <1>1. hook.on \in Comps /\ cr[hook.on] \in CRs /\ Sound(cr[hook.on]) /\ cr[hook.on].exists
    BY DEF HookDeletes, HookOK, Inv, TypeInv, ApiOK
  <1>2. HookOK'
    BY <1>1, Blanks DEF HookDeletes, HookOK, HookPcs
  <1>3. Deleted(cr[hook.on]) \in CRs /\ Sound(Deleted(cr[hook.on]))
    BY <1>1, Removed
  <1>4. ApiOK'
    BY <1>1, <1>3, CRUpdate DEF HookDeletes, Inv, TypeInv
  <1> QED BY <1>2, <1>4, InvOutside DEF HookDeletes

LEMMA HookWaitsOK ==
  ASSUME TeardownInv, HookWaits
  PROVE  TeardownInv'
  <1> USE DEF TeardownInv
  <1>1. HookOK'
    BY DEF HookWaits, HookOK, HookPcs
  <1>2. CASE hook.waits /\ cr[Umbrella].exists
    <2>1. cr[Umbrella] \in CRs /\ Sound(cr[Umbrella])
      BY Blanks DEF Inv, TypeInv, ApiOK
    <2>2. Unfinalized(cr[Umbrella]) \in CRs /\ Sound(Unfinalized(cr[Umbrella]))
      BY <1>2, <2>1, Removed
    <2>3. ApiOK'
      BY <1>2, <2>2, Blanks, CRUpdate DEF HookWaits, Inv, TypeInv
    <2> QED BY <1>1, <2>3, InvOutside DEF HookWaits
  <1>3. CASE ~(hook.waits /\ cr[Umbrella].exists)
    <2>1. ApiOK'
      BY <1>3 DEF HookWaits, Inv, TypeInv, ApiOK
    <2> QED BY <1>1, <2>1, InvOutside DEF HookWaits
  <1> QED BY <1>2, <1>3

LEMMA HookDeletesCRDsOK ==
  ASSUME TeardownInv, HookDeletesCRDs
  PROVE  TeardownInv'
  <1> USE DEF TeardownInv
  <1>1. HookOK'
    BY DEF HookDeletesCRDs, HookOK, HookPcs
  <1>2. ASSUME NEW c \in Comps PROVE cr'[c] \in CRs /\ Sound(cr'[c])
    <2>1. cr[c] \in CRs /\ Sound(cr[c])
      BY DEF Inv, TypeInv, ApiOK
    <2>2. cr'[c] = IF cr[c].exists THEN Deleted(cr[c]) ELSE cr[c]
      BY DEF HookDeletesCRDs
    <2> QED BY <2>1, <2>2, Removed
  <1>3. ApiOK'
    BY <1>2 DEF HookDeletesCRDs, Inv, TypeInv, ApiOK, Sound
  <1> QED BY <1>1, <1>3, InvOutside DEF HookDeletesCRDs

LEMMA HookOtherOK ==
  ASSUME TeardownInv, HookStarts \/ HookDeletesCluster \/ HookFails
  PROVE  TeardownInv'
  <1> USE DEF TeardownInv
  <1>0. cr \in [Comps -> CRs] /\ cr[Umbrella].finalizer \in BOOLEAN
    BY Blanks DEF Inv, TypeInv, ApiOK, CRs
  <1>1. CASE HookStarts
    <2>1. HookOK'
      <3>1. hook.runs + 1 \in 0 .. MaxRuns
        BY <1>1, TeardownAssumption DEF HookStarts, HookOK, TeardownAssumption
      <3> QED BY <1>0, <1>1, <3>1, Blanks DEF HookStarts, HookOK, HookPcs
    <2>2. ApiOK'
      BY <1>1 DEF HookStarts, Inv, TypeInv, ApiOK, vars
    <2> QED BY <1>1, <2>1, <2>2, InvOutside DEF HookStarts, vars
  <1>2. CASE HookDeletesCluster
    <2>1. HookOK'
      BY <1>2 DEF HookDeletesCluster, HookOK, HookPcs
    <2>2. ApiOK'
      BY <1>2 DEF HookDeletesCluster, Inv, TypeInv, ApiOK
    <2> QED BY <1>2, <2>1, <2>2, InvOutside DEF HookDeletesCluster
  <1>3. CASE HookFails
    <2>1. HookOK'
      BY <1>3, Blanks, NoCopiesOK DEF HookFails, HookOK, HookPcs
    <2>2. ApiOK'
      BY <1>3 DEF HookFails, Inv, TypeInv, ApiOK, vars
    <2> QED BY <1>3, <2>1, <2>2, InvOutside DEF HookFails, vars
  <1> QED BY <1>1, <1>2, <1>3

LEMMA TeardownInvInit == TeardownInit => TeardownInv
  BY InvInit, Blanks, NoCopiesOK, TeardownAssumption
  DEF TeardownInit, TeardownInv, HookOK, HookPcs, TeardownAssumption

LEMMA TeardownInvStep == TeardownInv /\ [Hook \/ RunsOn]_teardownVars => TeardownInv'
  <1> SUFFICES ASSUME TeardownInv, [Hook \/ RunsOn]_teardownVars PROVE TeardownInv'
    OBVIOUS
  <1>1. CASE Hook
    BY <1>1, HookMarksOK, HookDeletesOK, HookWaitsOK, HookDeletesCRDsOK, HookOtherOK DEF Hook
  <1>2. CASE RunsOn
    BY <1>2, InvStep DEF RunsOn, TeardownInv, HookOK
  <1>3. CASE UNCHANGED teardownVars
    BY <1>3, InvStep DEF teardownVars, TeardownInv, HookOK
  <1> QED BY <1>1, <1>2, <1>3

\* Through the whole of the hook's run, its failures and its restarts, every variable
\* keeps its type, a CR that waits for its deletion has a finalizer, and the hook
\* holds copies of CRs only while it works on them (cleanup.Run).
THEOREM TeardownTypeCorrect == TeardownSpec => []TeardownTypeOK
  <1>1. TeardownSpec => []TeardownInv
    BY TeardownInvInit, TeardownInvStep, PTL DEF TeardownSpec
  <1> QED BY <1>1, InvTypes, PTL

\* Nor does the hook bring the two sides together: what it deletes and lets go while
\* the operator runs on leaves at most one side installed by the operator.
THEOREM OneSideInTeardown ==
  ASSUME ~PartialOutage
  PROVE  TeardownSpec => []NotBothByOperator
  <1>1. TeardownInv => NotBothByOperator
    BY DEF TeardownInv, Inv, Sides
  <1> QED BY <1>1, TeardownInvInit, TeardownInvStep, PTL DEF TeardownSpec

------------------------------------------------------------------------------
(* The releases.  A CR the hook has handed off goes as soon as it is deleted, or  *)
(* it is the umbrella's and says that its release is to stay; so does the copy of *)
(* a reconcile that finds it deleting.                                            *)

Taken ==
  \A c \in hook.took : /\ cr[c].finalizer => c = Umbrella /\ cr[c].condemned
                       /\ Uninstalling(c) => c = Umbrella /\ work.seen.condemned

ReleaseInv == TeardownInv /\ Taken

\* A CR that keeps its finalizer keeps its mark.
Persists(c) == cr[c].finalizer /\ cr'[c].finalizer => cr'[c].condemned = cr[c].condemned

LEMMA FieldsPersist ==
  ASSUME ApiOK, NEW d \in Comps, NEW v, NEW w,
         \/ UNCHANGED cr
         \/ cr' = [cr EXCEPT ![d].readonly = v]
         \/ cr' = [cr EXCEPT ![d].finalizer = v]
         \/ cr' = [cr EXCEPT ![d].migration = v]
         \/ cr' = [cr EXCEPT ![d].status = v, ![d].conflict = w]
         \/ cr' = [cr EXCEPT ![d] = Unfinalized(@)]
         \/ cr' = [cr EXCEPT ![d] = Deleted(@)],
         NEW c \in Comps
  PROVE  Persists(c)
  <1>0. cr[c] \in CRs /\ cr[d] \in CRs /\ cr \in [Comps -> CRs] /\ ~NoCR.finalizer
    BY Blanks DEF ApiOK, NoCR
  <1> USE <1>0 DEF Persists, CRs
  <1>1. CASE UNCHANGED cr
    BY <1>1
  <1>2. CASE cr' = [cr EXCEPT ![d].readonly = v]
    BY <1>2
  <1>3. CASE cr' = [cr EXCEPT ![d].finalizer = v]
    BY <1>3
  <1>4. CASE cr' = [cr EXCEPT ![d].migration = v]
    BY <1>4
  <1>5. CASE cr' = [cr EXCEPT ![d].status = v, ![d].conflict = w]
    BY <1>5
  <1>6. CASE cr' = [cr EXCEPT ![d] = Unfinalized(@)]
    BY <1>6 DEF Unfinalized
  <1>7. CASE cr' = [cr EXCEPT ![d] = Deleted(@)]
    BY <1>7 DEF Deleted
  <1> QED BY <1>1, <1>2, <1>3, <1>4, <1>5, <1>6, <1>7

LEMMA StatusPersists ==
  ASSUME ApiOK, NEW d \in Comps, NEW v, NEW w, PutStatus(d, v, w), NEW c \in Comps
  PROVE  Persists(c)
  BY FieldsPersist DEF PutStatus

LEMMA CRsPersist ==
  ASSUME TeardownInv, Next, NEW c \in Comps
  PROVE  Persists(c)
  <1>0. ApiOK /\ work.on \in Comps /\ Umbrella \in Comps
    BY Blanks DEF TeardownInv, Inv, TypeInv, WorkOK
  <1>1. CASE Reconcile
    <2>1. CASE GatePasses
      <3>1. UNCHANGED cr \/ PutStatus(work.on, work.seen.status, FALSE)
        BY <2>1 DEF GatePasses
      <3> QED BY <1>0, <3>1, FieldsPersist DEF PutStatus
    <2>2. CASE ForceReadonly
      BY <1>0, <2>2, FieldsPersist DEF ForceReadonly
    <2>3. CASE ReportConflict \/ BeginAdoption
      BY <1>0, <2>3, StatusPersists DEF ReportConflict, BeginAdoption
    <2>4. CASE AddFinalizer
      BY <1>0, <2>4, FieldsPersist DEF AddFinalizer
    <2>5. CASE CheckProgress \/ ProgressTimesOut
      <3>1. CASE ProgressTimesOut /\ work.seen.migration = "helm"
        BY <1>0, <3>1, FieldsPersist DEF ProgressTimesOut
      <3>2. CASE ProgressTimesOut /\ work.seen.migration # "helm"
        BY <1>0, <3>2, StatusPersists DEF ProgressTimesOut
      <3>3. CASE CheckProgress
        BY <1>0, <3>3, StatusPersists DEF CheckProgress
      <3> QED BY <2>5, <3>1, <3>2, <3>3
    <2>6. CASE UmbrellaGate
      <3>1. PICK conflict \in BOOLEAN :
              UNCHANGED cr \/ PutStatus(Umbrella, work.seen.status, conflict)
        BY <2>6 DEF UmbrellaGate
      <3> QED BY <1>0, <3>1, FieldsPersist DEF PutStatus
    <2>7. CASE MarkProgressing
      BY <1>0, <2>7, FieldsPersist DEF MarkProgressing, PutStatus
    <2>8. CASE InstallIndividual \/ HelmInstall \/ Uninstall
      BY <1>0, <2>8, FieldsPersist DEF InstallIndividual, HelmInstall, Uninstall
    <2>9. CASE ReleaseFinalizer
      BY <1>0, <2>9, FieldsPersist DEF ReleaseFinalizer
    <2> QED BY <1>1, <2>1, <2>2, <2>3, <2>4, <2>5, <2>6, <2>7, <2>8, <2>9 DEF Reconcile
  <1>2. CASE ComponentReturns \/ WarnHybrid \/ ScanUmbrella \/ CreateCR \/ ClusterReturns \/ Restart
    BY <1>0, <1>2, FieldsPersist
    DEF ComponentReturns, WarnHybrid, ScanUmbrella, CreateCR, ClusterReturns, Restart
  <1>3. ASSUME NEW d \in Comps, Begin(d) \/ ScanIndividual(d) PROVE Persists(c)
    BY <1>0, <1>3, FieldsPersist DEF Begin, ScanIndividual
  <1>4. ASSUME NEW d \in Comps, Observe(d) PROVE Persists(c)
    BY <1>0, <1>4, FieldsPersist DEF Observe, PutStatus
  <1>5. ASSUME NEW d \in Comps, SyncTerraform(d) PROVE Persists(c)
    BY <1>0, <1>5, FieldsPersist DEF SyncTerraform
  <1>6. ASSUME NEW d \in Comps, Store(d) PROVE Persists(c)
    <2>1. ~cr[d].exists => ~cr[d].finalizer
      <3>1. ~NoCR.finalizer
        BY DEF NoCR
      <3> QED BY <1>0, <3>1 DEF ApiOK, Sound
    <2>2. c # d \/ cr[d].exists => cr'[c] = cr[c]
      BY <1>0, <1>6 DEF Store, ApiOK
    <2> QED BY <2>1, <2>2 DEF Persists
  <1>7. CASE Environment
    BY <1>0, <1>2, <1>7, FieldsPersist
    DEF Environment, InstallAction, UserDeletes, UserLocks, UserInstalls, UserUninstalls,
        UserCreates
  <1> QED BY <1>1, <1>2, <1>3, <1>4, <1>5, <1>6, <1>7 DEF Next, Controllers

\* A reconcile that uninstalls has read the CR as it was then.
LEMMA Uninstallers ==
  ASSUME TeardownInv, Next, NEW c \in Comps, Uninstalling(c)'
  PROVE  \/ Uninstalling(c) /\ UNCHANGED work
         \/ cr[c].deleting /\ work'.seen = cr[c]
  <1>0. work.pc \in WorkPcs /\ work \in [pc : WorkPcs, on : Comps, seen : CRs]
    BY DEF TeardownInv, Inv, TypeInv, WorkOK
  <1>r. Return => work'.pc = "idle"
    BY ReturnOK DEF Return, Idle
  <1>1. CASE Reconcile
    <2>1. CASE GatePasses \/ ForceReadonly \/ AddFinalizer
      <3>1. work'.pc \in {"finalize", "report", "decide"}
        BY <1>0, <2>1 DEF GatePasses, ForceReadonly, AddFinalizer
      <3> QED BY <3>1 DEF Uninstalling
    <2>2. CASE InstallIndividual \/ MarkProgressing \/ Uninstall
      <3>1. work'.pc \in {"mark", "install", "release"}
        BY <1>0, <2>2 DEF InstallIndividual, MarkProgressing, Uninstall
      <3> QED BY <3>1 DEF Uninstalling
    <2>3. CASE \/ ReportConflict \/ BeginAdoption \/ CheckProgress \/ ProgressTimesOut
               \/ HelmInstall \/ ReleaseFinalizer
      <3>1. work'.pc = "idle"
        BY <1>r, <2>3 DEF ReportConflict, BeginAdoption, CheckProgress, ProgressTimesOut,
           HelmInstall, ReleaseFinalizer
      <3> QED BY <3>1 DEF Uninstalling
    <2>4. CASE UmbrellaGate
      <3>1. work' = [work EXCEPT !.pc = "mark", !.seen.conflict = FALSE] \/ Return
        BY <2>4 DEF UmbrellaGate
      <3>2. work'.pc \in {"mark", "idle"}
        BY <1>0, <1>r, <3>1
      <3> QED BY <3>2 DEF Uninstalling
    <2> QED BY <1>1, <2>1, <2>2, <2>3, <2>4 DEF Reconcile
  <1>2. CASE ComponentReturns \/ Restart
    <2>1. work'.pc = "idle"
      BY <1>r, <1>2 DEF ComponentReturns, Restart, Return
    <2> QED BY <2>1 DEF Uninstalling
  <1>3. ASSUME WarnHybrid \/ ScanUmbrella \/ CreateCR \/ ClusterReturns PROVE UNCHANGED work
    BY <1>3 DEF WarnHybrid, ScanUmbrella, CreateCR, ClusterReturns
  <1>4. ASSUME NEW d \in Comps, Begin(d)
        PROVE  cr[c].deleting /\ work'.seen = cr[c]
    BY <1>4 DEF Begin, To, Uninstalling
  <1>5. ASSUME NEW d \in Comps,
               \/ Observe(d) \/ SyncTerraform(d) \/ ScanIndividual(d) \/ Store(d)
               \/ InstallAction(d) \/ UserDeletes(d) \/ UserLocks(d)
               \/ UserInstalls(d) \/ UserUninstalls(d)
        PROVE  UNCHANGED work
    BY <1>5 DEF Observe, SyncTerraform, ScanIndividual, Store, InstallAction, UserDeletes,
       UserLocks, UserInstalls, UserUninstalls
  <1>6. ASSUME NEW d \in Comps, NEW m, UserCreates(d, m) PROVE UNCHANGED work
    BY <1>6 DEF UserCreates
  <1>7. ASSUME UNCHANGED work PROVE Uninstalling(c)
    BY <1>7 DEF Uninstalling
  <1> QED BY <1>1, <1>2, <1>3, <1>4, <1>5, <1>6, <1>7, Zenon DEF Next, Controllers, Environment

\* Only users take releases down, and the uninstalls of a deletion.
LEMMA ReleaseTakers ==
  ASSUME TeardownInv, Next, NEW c \in Comps, release[c] # "absent", release'[c] = "absent"
  PROVE  \/ edits' # edits
         \/ Uninstalling(c) /\ ~(c = Umbrella /\ work.seen.condemned)
  <1>0. release \in [Comps -> Owners] /\ work.on \in Comps /\ edits \in 0 .. MaxEdits
    BY DEF TeardownInv, Inv, TypeInv, HelmOK, WorkOK, JobOK
  <1>1. CASE Uninstall
    BY <1>0, <1>1 DEF Uninstall, Uninstalling
  <1>2. CASE HelmInstall
    BY <1>0, <1>2 DEF HelmInstall
  <1>3. ASSUME NEW d \in Comps, UserInstalls(d) \/ UserUninstalls(d) PROVE edits' # edits
    BY <1>0, <1>3, CoexistenceAssumption DEF UserInstalls, UserUninstalls, CoexistenceAssumption
  <1>4. UNCHANGED release \/ Uninstall \/ HelmInstall
        \/ \E d \in Comps : UserInstalls(d) \/ UserUninstalls(d)
    <2>1. Controllers => UNCHANGED release \/ Uninstall \/ HelmInstall
      BY DEF Controllers, Reconcile, GatePasses, ForceReadonly, ReportConflict, AddFinalizer,
         BeginAdoption, CheckProgress, ProgressTimesOut, InstallIndividual, UmbrellaGate,
         MarkProgressing, ReleaseFinalizer, ComponentReturns, WarnHybrid, ScanUmbrella,
         CreateCR, ClusterReturns, Begin, Observe, SyncTerraform, ScanIndividual, Store
    <2>2. Environment => UNCHANGED release \/ \E d \in Comps : UserInstalls(d) \/ UserUninstalls(d)
      BY DEF Environment, Restart, InstallAction, UserDeletes, UserLocks, UserCreates
    <2> QED BY <2>1, <2>2 DEF Next
  <1> QED BY <1>1, <1>2, <1>3, <1>4

------------------------------------------------------------------------------
(* The hook's calls, and what runs beside them. *)

LEMMA HookFacts ==
  ASSUME TeardownInv
  PROVE  /\ hook \in [runs : 0 .. MaxRuns, pc : HookPcs, on : Comps, copy : [Comps -> CRs],
                      waits : BOOLEAN, took : SUBSET Comps]
         /\ cr \in [Comps -> CRs] /\ ~NoCR.finalizer /\ Umbrella \in Comps
         /\ \A c \in Comps : cr[c].deleting => cr[c].finalizer
  <1>1. ~NoCR.finalizer
    BY DEF NoCR
  <1> QED BY <1>1, Blanks DEF TeardownInv, HookOK, Inv, TypeInv, ApiOK, Sound

\* Only individuals lose their finalizer with the mark.
LEMMA KeepsMarks ==
  ASSUME ReleaseInv, NEW c \in Comps, HookMarks(c)
  PROVE  Taken'
  <1> USE HookFacts DEF ReleaseInv, Taken
  <1>1. /\ UNCHANGED work /\ \A d \in Comps : d # c => cr'[d] = cr[d]
        /\ \A d \in hook'.took : d \in hook.took \/ d = c
        /\ c \in hook'.took =>
             \/ c \in hook.took
             \/ ~Uninstalling(c) /\ (cr'[c].finalizer => hook.copy[c].finalizer)
    BY DEF HookMarks, HandedOff
  <1>2. \A d \in Comps : Uninstalling(d)' <=> Uninstalling(d)
    BY <1>1 DEF Uninstalling
  <1>3. CASE ~hook.copy[c].finalizer
    <2>1. UNCHANGED cr
      BY <1>3 DEF HookMarks
    <2> QED BY <1>1, <1>2, <1>3, <2>1
  <1>4. CASE hook.copy[c].finalizer
    <2> DEFINE m == [cr[c] EXCEPT !.condemned = TRUE]
    <2>1. cr'[c] = IF c = Umbrella THEN m ELSE Unfinalized(m)
      BY <1>4 DEF HookMarks
    <2>2. m \in CRs /\ m.condemned
      <3>1. cr[c] \in CRs
        OBVIOUS
      <3>2. m \in CRs
        BY <3>1 DEF CRs
      <3>3. m.condemned
        BY <3>1 DEF CRs
      <3> QED BY <3>2, <3>3
    <2>3. ~Unfinalized(m).finalizer
      <3> HIDE DEF m
      <3> QED BY <2>2 DEF Unfinalized, CRs
    <2> HIDE DEF m
    <2>4. cr'[c].finalizer => c = Umbrella /\ cr'[c].condemned
      BY <2>1, <2>2, <2>3
    <2> QED BY <1>1, <1>2, <2>4
  <1> QED BY <1>3, <1>4

\* The hook's other calls put no finalizer on a CR and leave its mark.
LEMMA KeepsOther ==
  ASSUME ReleaseInv,
         \/ HookStarts \/ HookDeletes \/ HookWaits \/ HookDeletesCluster \/ HookDeletesCRDs
         \/ HookFails
  PROVE  Taken'
  <1> USE HookFacts DEF ReleaseInv, Taken
  <1>0. UNCHANGED work /\ hook'.took = hook.took
    BY DEF HookStarts, HookDeletes, HookWaits, HookDeletesCluster, HookDeletesCRDs, HookFails,
       vars
  <1>1. \A d \in Comps : Uninstalling(d)' <=> Uninstalling(d)
    BY <1>0 DEF Uninstalling
  <1>2. ASSUME NEW d \in Comps, cr'[d].finalizer
        PROVE  cr[d].finalizer /\ cr'[d].condemned = cr[d].condemned
    <2>1. CASE HookStarts \/ HookDeletesCluster \/ HookFails
      BY <1>2, <2>1 DEF HookStarts, HookDeletesCluster, HookFails, vars
    <2>2. CASE HookDeletes
      <3>1. cr'[d] = cr[d] \/ cr'[d] = Deleted(cr[d])
        BY <2>2 DEF HookDeletes
      <3> QED BY <1>2, <3>1 DEF Deleted, CRs
    <2>3. CASE HookWaits
      <3>1. cr'[d] = cr[d] \/ cr'[d] = Unfinalized(cr[d])
        BY <2>3 DEF HookWaits
      <3> QED BY <1>2, <3>1 DEF Unfinalized, CRs
    <2>4. CASE HookDeletesCRDs
      <3>1. cr'[d] = cr[d] \/ cr'[d] = Deleted(cr[d])
        BY <2>4 DEF HookDeletesCRDs
      <3> QED BY <1>2, <3>1 DEF Deleted, CRs
    <2> QED BY <2>1, <2>2, <2>3, <2>4
  <1> QED BY <1>0, <1>1, <1>2

LEMMA KeepsRunsOn ==
  ASSUME ReleaseInv, RunsOn
  PROVE  Taken'
  <1> USE HookFacts DEF ReleaseInv
  <1>1. SUFFICES ASSUME NEW c \in hook'.took
                 PROVE  /\ cr'[c].finalizer => c = Umbrella /\ cr'[c].condemned
                        /\ Uninstalling(c)' => c = Umbrella /\ work'.seen.condemned
    BY DEF Taken, Uninstalling
  <1>2. c \in hook.took /\ c \in Comps /\ (cr'[c].finalizer => cr[c].finalizer) /\ Next
    BY <1>1 DEF RunsOn
  <1>3. Persists(c)
    BY <1>2, CRsPersist
  <1>4. ASSUME Uninstalling(c)' PROVE c = Umbrella /\ work'.seen.condemned
    BY <1>2, <1>4, Uninstallers DEF Taken
  <1> QED BY <1>2, <1>3, <1>4 DEF Taken, Persists

LEMMA ReleaseInvInit == TeardownInit => ReleaseInv
  BY TeardownInvInit DEF TeardownInit, ReleaseInv, Taken

LEMMA ReleaseInvStep ==
  ASSUME ReleaseInv, [Hook \/ RunsOn]_teardownVars
  PROVE  ReleaseInv'
  <1>1. TeardownInv'
    BY TeardownInvStep DEF ReleaseInv
  <1>2. CASE Hook
    BY <1>1, <1>2, KeepsMarks, KeepsOther DEF Hook, ReleaseInv
  <1>3. CASE RunsOn
    BY <1>1, <1>3, KeepsRunsOn DEF ReleaseInv
  <1>4. CASE UNCHANGED teardownVars
    BY <1>1, <1>4 DEF teardownVars, vars, ReleaseInv, Taken, Uninstalling
  <1> QED BY <1>2, <1>3, <1>4

\* What ReleasePreserved says of one step.
KeepsReleases ==
  \A c \in hook.took : release[c] # "absent" /\ release'[c] = "absent" => edits' # edits

LEMMA ReleasesKept ==
  ASSUME ReleaseInv, [Hook \/ RunsOn]_teardownVars
  PROVE  KeepsReleases
  <1> SUFFICES ASSUME NEW c \in hook.took, release[c] # "absent", release'[c] = "absent"
               PROVE  edits' # edits
    BY DEF KeepsReleases
  <1>1. c \in Comps
    BY HookFacts DEF ReleaseInv
  <1>2. ~Hook /\ ~UNCHANGED teardownVars
    BY DEF Hook, HookStarts, HookMarks, HookDeletes, HookWaits, HookDeletesCluster,
       HookDeletesCRDs, HookFails, teardownVars, vars
  <1>3. Next
    BY <1>2 DEF RunsOn
  <1> QED BY <1>1, <1>3, ReleaseTakers DEF ReleaseInv, Taken

\* While the operator's own chart is uninstalled no component goes with its CR: of a
\* CR the hook has handed off the release stays installed, although the operator runs
\* on with every step it has, takes releases down with the CRs users delete and adopts
\* them again, and although the hook may fail at every call and be started again
\* (cleanup.Run, deleteComponent).  It ends where the operator puts a finalizer on a CR
\* of that name, on the same one or on the one it adopts the release with.
THEOREM ReleaseKept == TeardownSpec => ReleasePreserved
  <1>1. ReleaseInv /\ [Hook \/ RunsOn]_teardownVars => ReleaseInv'
    BY ReleaseInvStep
  <1>2. ReleaseInv /\ [Hook \/ RunsOn]_teardownVars => [KeepsReleases]_teardownVars
    BY ReleasesKept
  <1>3. TeardownSpec => [][KeepsReleases]_teardownVars
    BY ReleaseInvInit, <1>1, <1>2, PTL DEF TeardownSpec
  <1> QED BY <1>3 DEF ReleasePreserved, KeepsReleases

================================================================================
