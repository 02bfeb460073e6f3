-------------------------- MODULE CoexistenceProofs --------------------------
(***************************************************************************)
(* Theorems about Coexistence, for every set of individual components and  *)
(* every bound on what users do.                                           *)
(***************************************************************************)
EXTENDS Coexistence, TLAPS

USE DEF Api, Helm

(* What the invariant says of the API server, of helm and of the workers. *)

Sound(r) == (r.deleting => r.finalizer) /\ (~r.exists => r = NoCR)

ApiOK == /\ cluster \in [up : BOOLEAN, terraform : BOOLEAN, read : BOOLEAN]
         /\ cr \in [Comps -> CRs] /\ \A c \in Comps : Sound(cr[c])
AdmittedOK ==
  admitted \in [Comps -> CRs] /\ \A c \in Comps : admitted[c].exists => ~admitted[c].deleting
HelmOK == release \in [Comps -> Owners] /\ manifests \subseteq Subs
WorkOK == work \in [pc : WorkPcs, on : Comps, seen : CRs] /\ (work.pc # "idle" => work.seen.exists)
JobOK  == /\ job \in [pc : {"idle", "scanned", "ordered"}, on : Comps, migration : Migrations]
          /\ warned \in BOOLEAN /\ edits \in 0 .. MaxEdits

TypeInv == ApiOK /\ AdmittedOK /\ HelmOK /\ WorkOK /\ JobOK

LEMMA TypeInvType == TypeInv => TypeOK
  BY DEF TypeInv, ApiOK, AdmittedOK, HelmOK, WorkOK, JobOK, Sound, TypeOK

------------------------------------------------------------------------------
(* The helpers keep the type. *)

LEMMA Blanks == NoCR \in CRs /\ Sound(NoCR) /\ ~NoCR.exists /\ Umbrella \in Comps
  BY DEF NoCR, CRs, Sound, Migrations, Statuses, Comps

LEMMA NewOK ==
  ASSUME NEW m \in Migrations, NEW b \in BOOLEAN
  PROVE  NewCR(m, b) \in CRs /\ ~NewCR(m, b).deleting
  BY DEF NewCR, NoCR, CRs, Migrations, Statuses

LEMMA ReturnOK == Return => WorkOK'
  BY Blanks DEF Return, Idle, WorkOK, WorkPcs

LEMMA CRUpdate ==
  ASSUME ApiOK, NEW c \in Comps, NEW r \in CRs, Sound(r), cr' = [cr EXCEPT ![c] = r],
         UNCHANGED cluster
  PROVE  ApiOK' /\ cr'[c] = r
  <1>1. cr' \in [Comps -> CRs] /\ cr'[c] = r /\ \A d \in Comps : d # c => cr'[d] = cr[d]
    BY DEF ApiOK
  <1>2. \A d \in Comps : Sound(cr'[d])
    BY <1>1 DEF ApiOK
  <1> QED BY <1>1, <1>2 DEF ApiOK, Sound

LEMMA Removed ==
  ASSUME NEW r \in CRs, Sound(r), r.exists
  PROVE  /\ Deleted(r) \in CRs /\ Sound(Deleted(r))
         /\ Unfinalized(r) \in CRs /\ Sound(Unfinalized(r))
  BY Blanks DEF CRs, Sound, Deleted, Unfinalized

LEMMA PutStatusOK ==
  ASSUME ApiOK, NEW c \in Comps, NEW st \in Statuses, NEW b \in BOOLEAN, PutStatus(c, st, b),
         UNCHANGED cluster
  PROVE  ApiOK' /\ cr'[c] \in CRs /\ cr'[c].exists
  <1> DEFINE r == [cr[c] EXCEPT !.status = st, !.conflict = b]
  <1>1. cr[c] \in CRs /\ Sound(cr[c]) /\ cr[c].exists
    BY DEF ApiOK, PutStatus
  <1>2. r \in CRs /\ Sound(r) /\ r.exists
    <2>1. r \in CRs /\ Sound(r)
      BY <1>1 DEF CRs, Sound
    <2>2. r.exists
      BY <1>1 DEF CRs
    <2> QED BY <2>1, <2>2
  <1>3. cr' = [cr EXCEPT ![c] = r]
    <2> DEFINE one == [cr EXCEPT ![c].status = st]
    <2>1. cr' = [one EXCEPT ![c].conflict = b]
      BY DEF PutStatus
    <2>2. one = [d \in Comps |-> IF d = c THEN [cr[c] EXCEPT !.status = st] ELSE cr[d]]
      BY DEF ApiOK
    <2> HIDE DEF one
    <2>3. cr' = [d \in Comps |-> IF d = c THEN [one[c] EXCEPT !.conflict = b] ELSE one[d]]
      BY <2>1, <2>2
    <2> QED BY <2>2, <2>3 DEF ApiOK
  <1> HIDE DEF r
  <1> QED BY <1>2, <1>3, CRUpdate

LEMMA FieldOK ==
  ASSUME ApiOK, NEW c \in Comps, cr[c].exists, UNCHANGED cluster, NEW b \in BOOLEAN,
         NEW m \in Migrations,
         \/ cr' = [cr EXCEPT ![c].readonly = b]
         \/ cr' = [cr EXCEPT ![c].finalizer = TRUE]
         \/ cr' = [cr EXCEPT ![c].migration = m]
  PROVE  ApiOK' /\ cr'[c] \in CRs /\ cr'[c].exists
  <1>1. cr[c] \in CRs /\ Sound(cr[c])
    BY DEF ApiOK
  <1>2. PICK r \in CRs : Sound(r) /\ r.exists /\ cr' = [cr EXCEPT ![c] = r]
    <2>1. CASE cr' = [cr EXCEPT ![c].readonly = b]
      <3>1. [cr[c] EXCEPT !.readonly = b] \in CRs /\ Sound([cr[c] EXCEPT !.readonly = b])
            /\ [cr[c] EXCEPT !.readonly = b].exists
        BY <1>1 DEF CRs, Sound
      <3> QED BY <2>1, <3>1
    <2>2. CASE cr' = [cr EXCEPT ![c].finalizer = TRUE]
      <3>1. [cr[c] EXCEPT !.finalizer = TRUE] \in CRs /\ Sound([cr[c] EXCEPT !.finalizer = TRUE])
            /\ [cr[c] EXCEPT !.finalizer = TRUE].exists
        BY <1>1 DEF CRs, Sound
      <3> QED BY <2>2, <3>1
    <2>3. CASE cr' = [cr EXCEPT ![c].migration = m]
      <3>1. [cr[c] EXCEPT !.migration = m] \in CRs /\ Sound([cr[c] EXCEPT !.migration = m])
            /\ [cr[c] EXCEPT !.migration = m].exists
        BY <1>1 DEF CRs, Sound
      <3> QED BY <2>3, <3>1
    <2> QED BY <2>1, <2>2, <2>3
  <1> QED BY <1>2, CRUpdate

LEMMA SubmitOK ==
  ASSUME AdmittedOK, NEW c \in Comps, NEW r \in CRs, ~r.deleting, Submit(c, r)
  PROVE  AdmittedOK'
  BY DEF Submit, AdmittedOK

------------------------------------------------------------------------------
(* One side at a time. *)

\* Once its gate has let an individual's reconcile through, no umbrella of the
\* operator's is there, and once the umbrella's has, none of its individuals: there
\* is one worker, so no other install comes in between.
GateHolds ==
  /\ work.pc \in {"finalize", "decide", "mark", "install"} /\ work.on \in Subs
       /\ work.seen.migration # "helm"
     => release[Umbrella] # "operator"
  /\ work.pc \in {"mark", "install"} /\ work.on \in Subs => work.seen.migration # "helm"
  /\ work.pc \in {"mark", "install"} /\ work.on = Umbrella
     => \A s \in Subs : release[s] # "operator"

Sides == NotBothByOperator /\ GateHolds
Inv   == TypeInv /\ (~PartialOutage => Sides)

\* A look at helm with Mothership up, or at the umbrella alone, tells what is there.
LEMMA Looks ==
  /\ FALSE \in MayLookPresent => release[Umbrella] = "absent"
  /\ ~PartialOutage /\ {} \in Visible => \A s \in Subs : release[s] = "absent"
  <1>1. FALSE \in MayLookPresent => release[Umbrella] = "absent"
    BY DEF MayLookPresent, Present
  <1>2. ASSUME ~PartialOutage, {} \in Visible PROVE \A s \in Subs : release[s] = "absent"
    <2>1. HelmRuns(Subs) \subseteq {}
      BY <1>2 DEF Visible
    <2> QED BY <2>1 DEF HelmRuns, Present
  <1> QED BY <1>1, <1>2

\* A step that leaves helm alone and starts no later part of a reconcile.
LEMMA SidesKept ==
  ASSUME Sides, UNCHANGED release, UNCHANGED work \/ work'.pc \in {"idle", "gate", "report",
         "uninstall", "release"}
  PROVE  Sides'
  BY DEF Sides, NotBothByOperator, GateHolds

------------------------------------------------------------------------------
(* The component reconcile. *)

LEMMA ReconcileKeeps == Inv /\ Reconcile => Inv'
  <1> SUFFICES ASSUME Inv, Reconcile PROVE Inv'
    OBVIOUS
  <1> USE DEF Inv, TypeInv
  <1>w. work.on \in Comps /\ work.seen \in CRs /\ work.pc \in WorkPcs
        /\ work \in [pc : WorkPcs, on : Comps, seen : CRs]
    BY DEF WorkOK
  <1>1. CASE GatePasses
    <2>1. ApiOK' /\ WorkOK'
      <3>1. CASE ~work.seen.conflict /\ UNCHANGED cr /\ work' = [work EXCEPT !.pc = "finalize"]
        BY <1>1, <3>1, <1>w DEF GatePasses, ApiOK, WorkOK, WorkPcs
      <3>2. CASE work.seen.conflict /\ PutStatus(work.on, work.seen.status, FALSE)
                 /\ work' = [work EXCEPT !.pc = "finalize", !.seen = cr'[work.on]]
        <4>1. ApiOK' /\ cr'[work.on] \in CRs /\ cr'[work.on].exists
          BY <1>1, <3>2, <1>w, PutStatusOK DEF GatePasses, CRs
        <4> QED BY <3>2, <4>1, <1>w DEF WorkOK, WorkPcs
      <3> QED BY <1>1, <3>1, <3>2 DEF GatePasses
    <2>2. ~PartialOutage => Sides'
      <3>1. release[Umbrella] = "absent" /\ release' = release /\ work'.pc = "finalize"
        BY <1>1, <1>w, Looks DEF GatePasses
      <3> QED BY <3>1 DEF Sides, NotBothByOperator, GateHolds
    <2> QED BY <1>1, <2>1, <2>2 DEF GatePasses, AdmittedOK, HelmOK, JobOK
  <1>2. CASE ForceReadonly
    <2>1. ApiOK'
      BY <1>2, <1>w, FieldOK DEF ForceReadonly, Migrations
    <2>2. WorkOK' /\ work'.pc = "report"
      BY <1>2, <1>w DEF ForceReadonly, WorkOK, WorkPcs
    <2> QED BY <1>2, <2>1, <2>2, SidesKept DEF ForceReadonly, AdmittedOK, HelmOK, JobOK
  <1>3. CASE ReportConflict
    <2>1. ApiOK'
      BY <1>3, <1>w, PutStatusOK DEF ReportConflict, CRs
    <2>2. WorkOK' /\ work'.pc = "idle"
      BY <1>3, ReturnOK DEF ReportConflict, Return, Idle
    <2> QED BY <1>3, <2>1, <2>2, SidesKept DEF ReportConflict, AdmittedOK, HelmOK, JobOK
  <1>4. CASE AddFinalizer
    <2>1. ApiOK' /\ WorkOK' /\ work'.pc = "decide" /\ work'.on = work.on
          /\ work'.seen.migration = work.seen.migration
      <3>1. CASE work.seen.finalizer /\ UNCHANGED cr /\ work' = [work EXCEPT !.pc = "decide"]
        BY <1>4, <3>1, <1>w DEF AddFinalizer, ApiOK, WorkOK, WorkPcs
      <3>2. CASE /\ ~work.seen.finalizer /\ Unchanged(work.on) /\ AdmitsEdit(work.on)
                 /\ cr' = [cr EXCEPT ![work.on].finalizer = TRUE]
                 /\ work' = [work EXCEPT !.pc = "decide", !.seen = cr'[work.on]]
        <4>1. cr[work.on] = work.seen /\ cr[work.on].exists
          BY <1>4, <3>2 DEF Unchanged, WorkOK, AddFinalizer
        <4>2. ApiOK' /\ cr'[work.on] \in CRs /\ cr'[work.on].exists
          BY <1>4, <3>2, <4>1, <1>w, FieldOK DEF AddFinalizer, Migrations
        <4>3. cr'[work.on].migration = work.seen.migration
          BY <3>2, <4>1, <1>w DEF ApiOK, CRs
        <4> QED BY <3>2, <4>2, <4>3, <1>w DEF WorkOK, WorkPcs
      <3> QED BY <1>4, <3>1, <3>2 DEF AddFinalizer
    <2>2. Sides => Sides'
      BY <1>4, <2>1 DEF AddFinalizer, Sides, NotBothByOperator, GateHolds
    <2> QED BY <1>4, <2>1, <2>2 DEF AddFinalizer, AdmittedOK, HelmOK, JobOK
  <1>5. CASE BeginAdoption
    <2>1. ApiOK'
      BY <1>5, <1>w, PutStatusOK DEF BeginAdoption, CRs, Statuses
    <2>2. WorkOK' /\ work'.pc = "idle"
      BY <1>5, ReturnOK DEF BeginAdoption, Return, Idle
    <2> QED BY <1>5, <2>1, <2>2, SidesKept DEF BeginAdoption, AdmittedOK, HelmOK, JobOK
  <1>6. CASE CheckProgress \/ ProgressTimesOut
    <2>1. ApiOK'
      <3>1. {"installed", "failed"} \subseteq Statuses /\ work.seen.conflict \in BOOLEAN
        BY <1>w DEF Statuses, CRs
      <3>2. CASE CheckProgress
        <4>1. PICK status \in {"installed", "failed"} :
                PutStatus(work.on, status, work.seen.conflict)
          BY <3>2 DEF CheckProgress
        <4> QED BY <3>1, <3>2, <4>1, <1>w, PutStatusOK DEF CheckProgress
      <3>3. CASE ProgressTimesOut /\ work.seen.migration = "helm"
        BY <3>3, <1>w, FieldOK DEF ProgressTimesOut, Migrations
      <3>4. CASE ProgressTimesOut /\ work.seen.migration # "helm"
        BY <3>1, <3>4, <1>w, PutStatusOK DEF ProgressTimesOut
      <3> QED BY <1>6, <3>2, <3>3, <3>4
    <2>2. WorkOK' /\ work'.pc = "idle"
      BY <1>6, ReturnOK DEF CheckProgress, ProgressTimesOut, Return, Idle
    <2> QED BY <1>6, <2>1, <2>2, SidesKept
          DEF CheckProgress, ProgressTimesOut, AdmittedOK, HelmOK, JobOK
  <1>7. CASE InstallIndividual
    <2>1. WorkOK' /\ work'.pc = "mark" /\ work'.on = work.on /\ work'.seen = work.seen
      BY <1>7, <1>w DEF InstallIndividual, WorkOK, WorkPcs
    <2>2. work.seen.migration # "helm" /\ work.on \in Subs /\ work.on # Umbrella
      BY <1>7, CoexistenceAssumption DEF InstallIndividual, ToInstall, CoexistenceAssumption
    <2>3. Sides => Sides'
      BY <1>7, <2>1, <2>2 DEF InstallIndividual, Sides, NotBothByOperator, GateHolds
    <2> QED BY <1>7, <2>1, <2>3 DEF InstallIndividual, ApiOK, AdmittedOK, HelmOK, JobOK
  <1>8. CASE UmbrellaGate
    <2> PICK p \in Visible, conflict \in BOOLEAN :
             /\ conflict = (p # {})
             /\ IF conflict = work.seen.conflict THEN UNCHANGED cr
                ELSE PutStatus(Umbrella, work.seen.status, conflict)
             /\ IF ~conflict /\ ToInstall(work.seen)
                THEN work' = [work EXCEPT !.pc = "mark", !.seen.conflict = FALSE] ELSE Return
      BY <1>8 DEF UmbrellaGate
    <2>1. ApiOK'
      BY <1>8, <1>w, PutStatusOK, Blanks DEF UmbrellaGate, CRs, ApiOK
    <2>2. CASE ~conflict /\ ToInstall(work.seen)
      <3>1. work' = [work EXCEPT !.pc = "mark", !.seen.conflict = FALSE] /\ p = {}
        BY <2>2
      <3>2. WorkOK' /\ work'.on = Umbrella /\ work'.pc = "mark"
        BY <1>8, <3>1, <1>w DEF UmbrellaGate, WorkOK, WorkPcs, CRs
      <3>3. ~PartialOutage => Sides'
        <4>1. ASSUME ~PartialOutage PROVE \A s \in Subs : release[s] = "absent"
          BY <3>1, <4>1, Looks
        <4>2. Umbrella \notin Subs
          BY CoexistenceAssumption DEF CoexistenceAssumption
        <4> QED BY <1>8, <3>2, <4>1, <4>2
              DEF UmbrellaGate, Sides, NotBothByOperator, GateHolds
      <3> QED BY <1>8, <2>1, <3>2, <3>3 DEF UmbrellaGate, AdmittedOK, HelmOK, JobOK
    <2>3. CASE Return
      BY <1>8, <2>1, <2>3, ReturnOK, SidesKept
      DEF UmbrellaGate, AdmittedOK, HelmOK, JobOK, Return, Idle
    <2> QED BY <2>2, <2>3
  <1>9. CASE MarkProgressing
    <2>1. ApiOK'
      BY <1>9, <1>w, PutStatusOK DEF MarkProgressing, CRs, Statuses, ApiOK
    <2>2. WorkOK' /\ work'.pc = "install" /\ work'.on = work.on /\ work'.seen = work.seen
      BY <1>9, <1>w DEF MarkProgressing, WorkOK, WorkPcs
    <2>3. Sides => Sides'
      BY <1>9, <2>2 DEF MarkProgressing, Sides, NotBothByOperator, GateHolds
    <2> QED BY <1>9, <2>1, <2>2, <2>3 DEF MarkProgressing, AdmittedOK, HelmOK, JobOK
  <1>10. CASE HelmInstall
    <2>1. WorkOK' /\ work'.pc = "idle"
      BY <1>10, ReturnOK DEF HelmInstall, Return, Idle
    <2>2. \A d \in Comps :
            release'[d] = release[d] \/ (d = work.on /\ release'[d] = "operator")
      BY <1>10, <1>w DEF HelmInstall, HelmOK
    <2>3. HelmOK'
      BY <1>10, <1>w, <2>2 DEF HelmInstall, HelmOK, Owners
    <2>4. Sides => Sides'
      BY <1>10, <1>w, <2>1, <2>2, CoexistenceAssumption
      DEF HelmInstall, Sides, NotBothByOperator, GateHolds, Comps, CoexistenceAssumption
    <2> QED BY <1>10, <2>1, <2>3, <2>4 DEF HelmInstall, ApiOK, AdmittedOK, JobOK
  <1>11. CASE Uninstall
    <2>1. WorkOK' /\ work'.pc = "release"
      BY <1>11, <1>w DEF Uninstall, WorkOK, WorkPcs
    <2>2. \A d \in Comps : release'[d] = release[d] \/ release'[d] = "absent"
      BY <1>11, <1>w DEF Uninstall, HelmOK
    <2>3. HelmOK'
      BY <1>11, <1>w, <2>2 DEF Uninstall, HelmOK, Owners
    <2>4. Sides => Sides'
      BY <2>1, <2>2 DEF Sides, NotBothByOperator, GateHolds, Comps
    <2> QED BY <1>11, <2>1, <2>3, <2>4 DEF Uninstall, ApiOK, AdmittedOK, JobOK
  <1>12. CASE ReleaseFinalizer
    <2>1. ApiOK'
      <3>1. cr[work.on] \in CRs /\ Sound(cr[work.on]) /\ cr[work.on].exists
        BY <1>12, <1>w DEF ReleaseFinalizer, Unchanged, WorkOK, ApiOK
      <3>2. Unfinalized(cr[work.on]) \in CRs /\ Sound(Unfinalized(cr[work.on]))
        BY <3>1, Removed
      <3> QED BY <1>12, <3>2, <1>w, CRUpdate DEF ReleaseFinalizer
    <2>2. WorkOK' /\ work'.pc = "idle"
      BY <1>12, ReturnOK DEF ReleaseFinalizer, Return, Idle
    <2> QED BY <1>12, <2>1, <2>2, SidesKept DEF ReleaseFinalizer, AdmittedOK, HelmOK, JobOK
  <1> QED BY <1>1, <1>2, <1>3, <1>4, <1>5, <1>6, <1>7, <1>8, <1>9, <1>10, <1>11, <1>12
      DEF Reconcile

------------------------------------------------------------------------------
(* What the other steps of the controllers, users and restarts change. *)

LEMMA ControllersKeep == Inv /\ Controllers => Inv'
  <1> SUFFICES ASSUME Inv, Controllers PROVE Inv'
    OBVIOUS
  <1> USE DEF Inv, TypeInv
  <1>1. CASE ComponentReturns
    BY <1>1, ReturnOK, SidesKept
    DEF ComponentReturns, ApiOK, AdmittedOK, HelmOK, JobOK, Return, Idle
  <1>2. CASE WarnHybrid
    BY <1>2, SidesKept DEF WarnHybrid, ApiOK, AdmittedOK, HelmOK, WorkOK, JobOK
  <1>3. CASE ScanUmbrella
    BY <1>3, SidesKept, Blanks
    DEF ScanUmbrella, ApiOK, AdmittedOK, HelmOK, WorkOK, JobOK, Migrations
  <1>4. CASE CreateCR
    <2>1. AdmittedOK'
      <3> DEFINE r == NewCR(job.migration, job.pc = "scanned" /\ cluster.read)
      <3>1. job.on \in Comps /\ job.migration \in Migrations /\ cluster.read \in BOOLEAN
        BY DEF JobOK, ApiOK
      <3>2. r \in CRs /\ ~r.deleting
        BY <3>1, Blanks DEF NewCR, NoCR, CRs, Statuses
      <3>3. Submit(job.on, r)
        BY <1>4 DEF CreateCR
      <3> HIDE DEF r
      <3> QED BY <3>1, <3>2, <3>3, SubmitOK
    <2>2. JobOK'
      BY <1>4, Blanks DEF CreateCR, JobOK, NoJob, Migrations
    <2> QED BY <1>4, <2>1, <2>2, SidesKept DEF CreateCR, ApiOK, HelmOK, WorkOK
  <1>5. CASE ClusterReturns
    BY <1>5, SidesKept, Blanks
    DEF ClusterReturns, ApiOK, AdmittedOK, HelmOK, WorkOK, JobOK, NoJob, Migrations
  <1>6. ASSUME NEW c \in Comps, Begin(c) PROVE Inv'
    <2>1. cr[c] \in CRs /\ cr[c].exists
      BY <1>6 DEF Begin, ApiOK
    <2>2. /\ WorkOK'
          /\ \/ work'.pc \in {"gate", "uninstall"}
             \/ /\ work'.pc = "finalize" /\ work'.on = c
                /\ c \in Subs => work'.seen.migration = "helm"
      BY <1>6, <2>1 DEF Begin, To, WorkOK, WorkPcs
    <2>3. Sides => Sides'
      BY <1>6, <2>2 DEF Begin, Sides, NotBothByOperator, GateHolds
    <2> QED BY <1>6, <2>2, <2>3 DEF Begin, ApiOK, AdmittedOK, HelmOK, JobOK
  <1>7. ASSUME NEW c \in Comps, Observe(c) PROVE Inv'
    <2>1. ApiOK'
      BY <1>7, PutStatusOK DEF Observe, Statuses, ApiOK, CRs
    <2> QED BY <1>7, <2>1, SidesKept DEF Observe, AdmittedOK, HelmOK, WorkOK, JobOK
  <1>8. ASSUME NEW c \in Comps, SyncTerraform(c) PROVE Inv'
    <2>1. ApiOK'
      BY <1>8, FieldOK DEF SyncTerraform, Migrations
    <2> QED BY <1>8, <2>1, SidesKept DEF SyncTerraform, AdmittedOK, HelmOK, WorkOK, JobOK
  <1>9. ASSUME NEW c \in Comps, ScanIndividual(c) PROVE Inv'
    BY <1>9, SidesKept
    DEF ScanIndividual, ApiOK, AdmittedOK, HelmOK, WorkOK, JobOK, Migrations
  <1>10. ASSUME NEW c \in Comps, Store(c) PROVE Inv'
    <2>1. AdmittedOK'
      BY <1>10, Blanks DEF Store, AdmittedOK
    <2>2. ApiOK'
      BY <1>10, CRUpdate DEF Store, AdmittedOK, ApiOK, Sound
    <2> QED BY <1>10, <2>1, <2>2, SidesKept DEF Store, HelmOK, WorkOK, JobOK
  <1> QED BY ReconcileKeeps, <1>1, <1>2, <1>3, <1>4, <1>5, <1>6, <1>7, <1>8, <1>9, <1>10
      DEF Controllers

LEMMA EnvironmentKeeps == Inv /\ Environment => Inv'
  <1> SUFFICES ASSUME Inv, Environment PROVE Inv'
    OBVIOUS
  <1> USE DEF Inv, TypeInv
  <1>1. CASE Restart
    <2>1. WorkOK' /\ work'.pc = "idle"
      BY <1>1, Blanks DEF Restart, Idle, WorkOK, WorkPcs
    <2>2. JobOK'
      BY <1>1, Blanks DEF Restart, JobOK, NoJob, Migrations
    <2> QED BY <1>1, <2>1, <2>2, SidesKept DEF Restart, ApiOK, AdmittedOK, HelmOK
  <1>2. ASSUME edits < MaxEdits, edits' = edits + 1 PROVE edits' \in 0 .. MaxEdits
    BY <1>2, CoexistenceAssumption DEF JobOK, CoexistenceAssumption
  <1>3. ASSUME NEW c \in Comps, InstallAction(c) PROVE Inv'
    BY <1>3, <1>2, SidesKept
    DEF InstallAction, ApiOK, AdmittedOK, HelmOK, WorkOK, JobOK, Migrations
  <1>4. ASSUME NEW c \in Comps, UserDeletes(c) PROVE Inv'
    <2>1. Deleted(cr[c]) \in CRs /\ Sound(Deleted(cr[c]))
      BY <1>4, Removed DEF UserDeletes, ApiOK
    <2>2. ApiOK'
      BY <1>4, <2>1, CRUpdate DEF UserDeletes
    <2> QED BY <1>4, <2>2, <1>2, SidesKept DEF UserDeletes, AdmittedOK, HelmOK, WorkOK, JobOK
  <1>5. ASSUME NEW c \in Comps, UserLocks(c) PROVE Inv'
    <2>1. (~cr[c].readonly) \in BOOLEAN /\ cr' = [cr EXCEPT ![c].readonly = ~cr[c].readonly]
      BY <1>5 DEF UserLocks
    <2>2. ApiOK'
      BY <1>5, <2>1, FieldOK DEF UserLocks, Migrations
    <2> QED BY <1>5, <2>2, <1>2, SidesKept DEF UserLocks, AdmittedOK, HelmOK, WorkOK, JobOK
  <1>6. ASSUME NEW c \in Comps, UserInstalls(c) \/ UserUninstalls(c) PROVE Inv'
    <2>1. \A d \in Comps : release'[d] = release[d] \/ release'[d] \in {"absent", "user"}
      BY <1>6 DEF UserInstalls, UserUninstalls, HelmOK
    <2>2. HelmOK'
      BY <1>6, <2>1 DEF UserInstalls, UserUninstalls, HelmOK, Owners
    <2>3. Sides => Sides'
      BY <1>6, <2>1
      DEF UserInstalls, UserUninstalls, Sides, NotBothByOperator, GateHolds, Comps
    <2> QED BY <1>6, <1>2, <2>2, <2>3
        DEF UserInstalls, UserUninstalls, ApiOK, AdmittedOK, WorkOK, JobOK
  <1>7. ASSUME NEW c \in Comps, NEW m \in {"", "helm", "terraform"}, UserCreates(c, m)
        PROVE  Inv'
    <2>1. AdmittedOK'
      BY <1>7, NewOK, SubmitOK DEF UserCreates, Migrations
    <2> QED BY <1>7, <1>2, <2>1, SidesKept DEF UserCreates, ApiOK, HelmOK, WorkOK, JobOK
  <1> QED BY <1>1, <1>3, <1>4, <1>5, <1>6, <1>7 DEF Environment

LEMMA InvInit == Init => Inv
  <1> SUFFICES ASSUME Init PROVE Inv
    OBVIOUS
  <1>1. ApiOK /\ AdmittedOK
    <2>1. cr = [c \in Comps |-> NoCR] /\ admitted = [c \in Comps |-> NoCR]
          /\ cluster \in [up : {TRUE}, terraform : BOOLEAN, read : BOOLEAN]
      BY DEF Init
    <2>2. cluster \in [up : BOOLEAN, terraform : BOOLEAN, read : BOOLEAN]
      BY <2>1
    <2> QED BY <2>1, <2>2, Blanks DEF ApiOK, AdmittedOK
  <1>2. HelmOK
    BY DEF Init, HelmOK, Owners
  <1>3. WorkOK
    BY Blanks DEF Init, Idle, WorkOK, WorkPcs
  <1>4. JobOK
    <2>1. 0 \in 0 .. MaxEdits
      BY CoexistenceAssumption DEF CoexistenceAssumption
    <2> QED BY Blanks, <2>1 DEF Init, NoJob, JobOK, Migrations
  <1>5. Sides
    BY Blanks DEF Init, Idle, Sides, NotBothByOperator, GateHolds
  <1> QED BY <1>1, <1>2, <1>3, <1>4, <1>5 DEF Inv, TypeInv

LEMMA InvStep == Inv /\ [Next]_vars => Inv'
  <1>1. Inv /\ UNCHANGED vars => Inv'
    BY DEF Inv, TypeInv, ApiOK, AdmittedOK, HelmOK, WorkOK, JobOK, Sides, NotBothByOperator,
           GateHolds, vars
  <1> QED BY <1>1, ControllersKeep, EnvironmentKeeps DEF Next

\* Every variable keeps its type, a CR that waits for its deletion has a finalizer,
\* and one that is gone leaves nothing behind, whatever users do and whatever fails
\* (every write of the component and of the cluster controller).
THEOREM TypeCorrect == Spec => []TypeOK
  <1>1. Spec => []Inv
    BY InvInit, InvStep, PTL DEF Spec
  <1> QED BY <1>1, TypeInvType, PTL DEF Inv

\* While Mothership resolves every release name, the operator itself never has both
\* the umbrella and one of its individuals installed, although nothing is locked and
\* CRs of both sides may be let in (forceReadonlyIfUmbrellaInstalled,
\* refuseUmbrellaIfIndividualsPresent): the gates look at helm, and one worker
\* serves both sides.
THEOREM OneSide ==
  ASSUME ~PartialOutage
  PROVE  Spec => []NotBothByOperator
  <1>1. Inv => NotBothByOperator
    BY DEF Inv, Sides
  <1>2. Spec => []Inv
    BY InvInit, InvStep, PTL DEF Spec
  <1> QED BY <1>1, <1>2, PTL
==============================================================================
