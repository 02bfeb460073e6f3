----------------------- MODULE ComponentLifecycleProofs -----------------------
(***************************************************************************)
(* Theorems about ComponentLifecycle, for every set of versions, edits and  *)
(* faults and every bound on them.                                         *)
(***************************************************************************)
EXTENDS ComponentLifecycle, TLAPS

USE DEF local

(* What TypeOK says of the server's CR, of helm and Mothership, of the running *)
(* reconcile, and of the rest.                                              *)

Copies == [cr : CRs, status : Statuses]

ServerOK == cr \in CRs /\ status \in Statuses /\ overdue \in BOOLEAN
            /\ (~cr.exists => status = BlankStatus)
HelmOK   == history \in Seq(Records) /\ told \in SUBSET Nat
LocalOK  == pc \in PCs /\ why \in Causes /\ seen \in Copies
BudgetOK == origin \in Origins /\ edits \in 0..MaxEdits /\ faults \in 0..MaxFaults

LEMMA TypeParts == TypeOK <=> ServerOK /\ HelmOK /\ LocalOK /\ BudgetOK
  BY DEF TypeOK, ServerOK, HelmOK, LocalOK, BudgetOK, Copies

LEMMA TypePartsNext == TypeOK' <=> ServerOK' /\ HelmOK' /\ LocalOK' /\ BudgetOK'
  BY DEF TypeOK, ServerOK, HelmOK, LocalOK, BudgetOK, Copies

------------------------------------------------------------------------------
(* The helpers keep the type. *)

LEMMA BlankOK == BlankCR \in CRs /\ BlankStatus \in Statuses /\ Blank \in Copies
  <1>1. BlankCR \in CRs
    BY DEF BlankCR, CRs
  <1>2. BlankStatus \in Statuses
    BY DEF BlankStatus, Statuses
  <1> QED BY <1>1, <1>2 DEF Blank, Copies

LEMMA ReturnOK == Return => LocalOK'
  BY BlankOK DEF Return, LocalOK, PCs, Causes

LEMMA RollbackOK ==
  ASSUME LocalOK, NEW cause \in Causes, Rollback(cause)
  PROVE  LocalOK'
  BY DEF Rollback, LocalOK, PCs

LEMMA GoOK ==
  ASSUME LocalOK, NEW next \in PCs, Go(next)
  PROVE  LocalOK'
  BY DEF Go, LocalOK

LEMMA Bounds == MaxEdits \in Nat /\ MaxFaults \in Nat
  BY LifecycleAssumption

LEMMA FaultOK ==
  ASSUME faults \in 0..MaxFaults, NEW f, Fault(f)
  PROVE  faults' \in 0..MaxFaults
  BY Bounds DEF Fault

LEMMA RevisionOK == HelmOK => Revision \in Nat
  BY DEF HelmOK, Revision

\* What is recorded is a revision, the last one and the one before among them.
LEMMA TopOK == HelmOK /\ Released => Top \in Records
  BY DEF HelmOK, Released, Top, Revision

LEMMA PreviousOK == HelmOK /\ Revision > 1 => Previous \in Records
  BY DEF HelmOK, Previous, Revision

LEMMA AddOK ==
  ASSUME HelmOK, NEW v \in Versions \cup {None}, NEW n \in Nat,
         NEW st \in {"deployed", "failed", "pending"}, Add(Record(v, n, st))
  PROVE  history' \in Seq(Records) /\ history' # <<>>
  <1>1. Record(v, n, st) \in Records
    BY DEF Record, Records
  <1> QED BY <1>1 DEF Add, HelmOK

LEMMA TellOK ==
  ASSUME HelmOK, faults \in 0..MaxFaults, NEW ok, Tell(ok)
  PROVE  told' \in SUBSET Nat /\ faults' \in 0..MaxFaults
  BY RevisionOK, FaultOK DEF Tell, HelmOK

\* The histories helm starts from.
LEMMA EmptyOK == <<>> \in Seq(Records)
  OBVIOUS

LEMMA OneOK == \A r \in Records : <<r>> \in Seq(Records)
  OBVIOUS

LEMMA ReportedOK ==
  ASSUME HelmOK, NEW s \in Statuses, NEW ok
  PROVE  Reported(s, ok) \in Statuses
  BY RevisionOK DEF Reported, Statuses

LEMMA WriteOK ==
  ASSUME ServerOK, NEW s \in Statuses, Write(s), UNCHANGED cr, overdue' \in BOOLEAN
  PROVE  ServerOK'
  BY DEF Write, ServerOK

\* What an edit of the spec leaves: the CR keeps its existence and its finalizer.
LEMMA EditedOK ==
  ASSUME NEW c \in CRs, NEW v \in Versions \cup {None}, NEW r \in BOOLEAN, NEW n \in Nat
  PROVE  \A d \in {[c EXCEPT !.version = v, !.gen = c.gen + 1],
                   [c EXCEPT !.values = n, !.gen = c.gen + 1],
                   [c EXCEPT !.readonly = r, !.gen = c.gen + 1]} :
           d \in CRs /\ d.exists = c.exists /\ d.finalizer = c.finalizer
  <1> DEFINE g == c.gen + 1
  <1>1. g \in Nat
    BY DEF CRs
  <1> HIDE DEF g
  <1>2. \A d \in {[c EXCEPT !.version = v, !.gen = g], [c EXCEPT !.values = n, !.gen = g],
                 [c EXCEPT !.readonly = r, !.gen = g]} :
          d \in CRs /\ d.exists = c.exists /\ d.finalizer = c.finalizer
    BY <1>1 DEF CRs
  <1> QED BY <1>2 DEF g

LEMMA SetVersionOK ==
  ASSUME ServerOK, NEW v \in Versions \cup {None}, SetVersion(v), UNCHANGED <<status, overdue>>
  PROVE  ServerOK'
  <1>1. cr' \in CRs /\ cr'.exists = cr.exists
    <2>1. CASE cr.version = v
      <3>1. cr' = [cr EXCEPT !.version = v, !.gen = cr.gen]
        BY <2>1 DEF SetVersion
      <3> QED BY <3>1 DEF ServerOK, CRs
    <2>2. CASE cr.version # v
      <3>1. cr' = [cr EXCEPT !.version = v, !.gen = cr.gen + 1]
        BY <2>2 DEF SetVersion, ServerOK, CRs
      <3> QED BY <3>1, EditedOK DEF ServerOK
    <2> QED BY <2>1, <2>2
  <1> QED BY <1>1 DEF ServerOK

------------------------------------------------------------------------------
(* The actions keep the type. *)

\* A step that leaves helm, Mothership and the budgets alone.
LEMMA QuietOK ==
  ASSUME TypeOK, ServerOK', LocalOK', UNCHANGED <<history, told, origin, edits, faults>>
  PROVE  TypeOK'
  BY TypeParts, TypePartsNext DEF HelmOK, BudgetOK

LEMMA CopyOK == ServerOK => [cr |-> cr, status |-> status] \in Copies
  BY DEF ServerOK, Copies

LEMMA ReadOK == TypeOK /\ Read => TypeOK'
  <1> SUFFICES ASSUME TypeOK, Read PROVE TypeOK'
    OBVIOUS
  <1>1. LocalOK'
    BY TypeParts, CopyOK DEF Read, LocalOK, PCs
  <1>2. ServerOK'
    BY TypeParts DEF Read, ServerOK
  <1> QED BY <1>1, <1>2, QuietOK DEF Read

LEMMA AddFinalizerOK == TypeOK /\ AddFinalizer => TypeOK'
  <1> SUFFICES ASSUME TypeOK, AddFinalizer PROVE TypeOK'
    OBVIOUS
  <1>1. ServerOK'
    BY TypeParts DEF AddFinalizer, ServerOK, CRs
  <1>2. LocalOK'
    <2>1. CASE Return
      BY <2>1, ReturnOK
    <2>2. CASE seen' = [seen EXCEPT !.cr.finalizer = TRUE] /\ UNCHANGED <<pc, why>>
      <3>1. seen.cr \in CRs /\ seen' = [seen EXCEPT !.cr = [seen.cr EXCEPT !.finalizer = TRUE]]
        BY <2>2, TypeParts DEF LocalOK, Copies
      <3>2. [seen.cr EXCEPT !.finalizer = TRUE] \in CRs
        BY <3>1 DEF CRs
      <3> QED BY <2>2, <3>1, <3>2, TypeParts DEF LocalOK, Copies
    <2> QED BY <2>1, <2>2 DEF AddFinalizer
  <1> QED BY <1>1, <1>2, QuietOK DEF AddFinalizer

\* What a reconcile writes of its copy's status is a status.
LEMMA SeenOK == TypeOK => seen.cr \in CRs /\ seen.status \in Statuses
  BY TypeParts DEF LocalOK, Copies

LEMMA StartMigrationOK == TypeOK /\ StartMigration => TypeOK'
  <1> SUFFICES ASSUME TypeOK, StartMigration PROVE TypeOK'
    OBVIOUS
  <1>1. [seen.status EXCEPT !.prog = "migrating"] \in Statuses
    BY SeenOK DEF Statuses
  <1>2. ServerOK'
    BY <1>1, WriteOK, TypeParts DEF StartMigration
  <1> QED BY <1>2, ReturnOK, QuietOK DEF StartMigration

LEMMA DryRunFailsOK == TypeOK /\ DryRunFails => TypeOK'
  <1> SUFFICES ASSUME TypeOK, DryRunFails PROVE TypeOK'
    OBVIOUS
  <1>1. [seen.status EXCEPT !.avail = FALSE] \in Statuses
    BY SeenOK DEF Statuses
  <1>2. overdue' \in BOOLEAN
    BY TypeParts DEF DryRunFails, ServerOK
  <1>3. ServerOK'
    BY <1>1, <1>2, WriteOK, TypeParts DEF DryRunFails
  <1>4. BudgetOK'
    BY TypeParts, FaultOK DEF DryRunFails, BudgetOK
  <1>5. HelmOK'
    BY TypeParts DEF DryRunFails, HelmOK
  <1> QED BY <1>3, <1>4, <1>5, ReturnOK, TypePartsNext DEF DryRunFails

\* Progressing is set in the copy, and with luck on the server.
LEMMA ProgressOK ==
  ASSUME TypeOK, NEW reason \in {"installing", "upgrading"},
         seen' = [seen EXCEPT !.status.prog = reason], UNCHANGED <<cr, history, told, origin, edits>>,
         \/ Write(seen'.status) /\ overdue' = FALSE /\ UNCHANGED faults
         \/ Fault("write") /\ UNCHANGED <<status, overdue>>
  PROVE  ServerOK' /\ HelmOK' /\ BudgetOK' /\ seen' \in Copies
  <1>1. seen' \in Copies
    <2>1. seen' = [seen EXCEPT !.status = [seen.status EXCEPT !.prog = reason]]
      BY SeenOK, TypeParts DEF LocalOK, Copies
    <2>2. [seen.status EXCEPT !.prog = reason] \in Statuses
      BY SeenOK DEF Statuses
    <2> QED BY <2>1, <2>2, TypeParts DEF LocalOK, Copies
  <1>2. seen'.status \in Statuses
    BY <1>1 DEF Copies
  <1>3. ServerOK'
    <2>1. CASE Write(seen'.status) /\ overdue' = FALSE
      BY <2>1, <1>2, TypeParts, WriteOK
    <2>2. CASE UNCHANGED <<status, overdue>>
      BY <2>2, TypeParts DEF ServerOK
    <2> QED BY <2>1, <2>2
  <1>4. BudgetOK'
    BY TypeParts, FaultOK DEF BudgetOK
  <1>5. HelmOK'
    BY TypeParts DEF HelmOK
  <1> QED BY <1>1, <1>3, <1>4, <1>5

LEMMA BeginInstallOK == TypeOK /\ BeginInstall => TypeOK'
  <1> SUFFICES ASSUME TypeOK, BeginInstall PROVE TypeOK'
    OBVIOUS
  <1>1. ServerOK' /\ HelmOK' /\ BudgetOK' /\ seen' \in Copies
    BY ProgressOK DEF BeginInstall
  <1>2. LocalOK'
    BY <1>1, TypeParts DEF BeginInstall, LocalOK, PCs
  <1> QED BY <1>1, <1>2, TypePartsNext

LEMMA BeginUpgradeOK == TypeOK /\ BeginUpgrade => TypeOK'
  <1> SUFFICES ASSUME TypeOK, BeginUpgrade PROVE TypeOK'
    OBVIOUS
  <1>1. CASE ~Released
    <2>1. ServerOK' /\ LocalOK'
      BY <1>1, ReturnOK, TypeParts DEF BeginUpgrade, ServerOK
    <2> QED BY <1>1, <2>1, QuietOK DEF BeginUpgrade
  <1>2. CASE Released
    <2>1. ServerOK' /\ HelmOK' /\ BudgetOK' /\ seen' \in Copies
      BY <1>2, ProgressOK DEF BeginUpgrade
    <2>2. LocalOK'
      BY <1>2, <2>1, TypeParts DEF BeginUpgrade, LocalOK, PCs
    <2> QED BY <2>1, <2>2, TypePartsNext
  <1> QED BY <1>1, <1>2

\* A revision of what the copy asks for.
LEMMA AddSeenOK ==
  ASSUME TypeOK, NEW st \in {"deployed", "failed", "pending"},
         Add(Record(seen.cr.version, seen.cr.values, st))
  PROVE  history' \in Seq(Records)
  <1>1. seen.cr.version \in Versions \cup {None} /\ seen.cr.values \in Nat
    BY SeenOK DEF CRs
  <1> QED BY <1>1, AddOK, TypeParts

LEMMA InstallOK == TypeOK /\ Install => TypeOK'
  <1> SUFFICES ASSUME TypeOK, Install PROVE TypeOK'
    OBVIOUS
  <1>1. history' \in Seq(Records) /\ faults' \in 0..MaxFaults
    <2>1. UNCHANGED history => history' \in Seq(Records)
      BY TypeParts DEF HelmOK
    <2>2. faults \in 0..MaxFaults
      BY TypeParts DEF BudgetOK
    <2> QED BY <2>1, <2>2, AddSeenOK, FaultOK DEF Install
  <1>2. ServerOK'
    BY TypeParts DEF Install, ServerOK
  <1>3. HelmOK' /\ BudgetOK'
    BY <1>1, TypeParts DEF Install, HelmOK, BudgetOK
  <1>4. LocalOK'
    BY ReturnOK DEF Install
  <1> QED BY <1>2, <1>3, <1>4, TypePartsNext

\* A release's version is what a status can have as current.
LEMMA CurrentOK ==
  ASSUME TypeOK, Released
  PROVE  [seen.status EXCEPT !.prog = "done", !.avail = TRUE, !.current = Top.version,
                             !.observed = seen.cr.gen] \in Statuses
  <1>1. Top.version \in Versions \cup {None}
    BY TopOK, TypeParts DEF Records
  <1> QED BY <1>1, SeenOK DEF Statuses, CRs

\* A step that tells Mothership and cannot write all of what follows.
LEMMA WritesFailOK ==
  ASSUME TypeOK, NEW f, WritesFail(f), Return, UNCHANGED <<cr, overdue, history, origin, edits>>
  PROVE  TypeOK'
  <1>1. ServerOK'
    <2>1. Reported(seen.status, TRUE) \in Statuses
      BY ReportedOK, SeenOK, TypeParts
    <2>2. overdue' \in BOOLEAN
      BY TypeParts DEF ServerOK
    <2>3. CASE UNCHANGED status
      BY <2>3, TypeParts DEF ServerOK
    <2>4. CASE Write(Reported(seen.status, TRUE))
      BY <2>1, <2>2, <2>4, WriteOK, TypeParts
    <2> QED BY <2>3, <2>4 DEF WritesFail
  <1>2. told' \in SUBSET Nat /\ faults' \in 0..MaxFaults
    BY RevisionOK, FaultOK, TypeParts DEF WritesFail, HelmOK, BudgetOK
  <1>3. HelmOK' /\ BudgetOK'
    BY <1>2, TypeParts DEF HelmOK, BudgetOK
  <1> QED BY <1>1, <1>3, ReturnOK, TypePartsNext

LEMMA CompleteOK ==
  ASSUME TypeOK, Released, Complete, UNCHANGED <<cr, overdue, history, origin, edits>>
  PROVE  TypeOK'
  <1> DEFINE s == [seen.status EXCEPT !.prog = "done", !.avail = TRUE, !.current = Top.version,
                                      !.observed = seen.cr.gen]
  <1>0. CASE WritesFail("write")
    BY <1>0, WritesFailOK DEF Complete
  <1> SUFFICES ASSUME ~WritesFail("write") PROVE TypeOK'
    BY <1>0
  <1>1. PICK ok \in BOOLEAN : Tell(ok) /\ Write(Reported(s, ok))
    BY DEF Complete
  <1>2. Reported(s, ok) \in Statuses
    BY CurrentOK, ReportedOK, TypeParts
  <1>3. ServerOK'
    <2>1. overdue' \in BOOLEAN
      BY TypeParts DEF ServerOK
    <2> QED BY <1>1, <1>2, <2>1, WriteOK, TypeParts
  <1>4. told' \in SUBSET Nat /\ faults' \in 0..MaxFaults
    BY <1>1, TellOK, TypeParts DEF BudgetOK
  <1>5. HelmOK' /\ BudgetOK'
    BY <1>4, TypeParts DEF HelmOK, BudgetOK
  <1>6. LocalOK'
    BY ReturnOK DEF Complete
  <1> QED BY <1>3, <1>5, <1>6, TypePartsNext

LEMMA GiveUpOK ==
  ASSUME TypeOK, GiveUp, UNCHANGED <<cr, overdue, history, origin, edits>>
  PROVE  TypeOK'
  <1>1. ServerOK'
    <2>1. [seen.status EXCEPT !.prog = "done", !.avail = FALSE] \in Statuses
      BY SeenOK DEF Statuses
    <2>2. CASE UNCHANGED status
      BY <2>2, TypeParts DEF ServerOK
    <2>3. CASE Write([seen.status EXCEPT !.prog = "done", !.avail = FALSE])
      <3>1. overdue' \in BOOLEAN
        BY TypeParts DEF ServerOK
      <3> QED BY <2>1, <2>3, <3>1, WriteOK, TypeParts
    <2> QED BY <2>2, <2>3 DEF GiveUp
  <1>2. LocalOK'
    BY ReturnOK, RollbackOK, TypeParts DEF GiveUp, Causes
  <1> QED BY <1>1, <1>2, QuietOK DEF GiveUp

LEMMA CheckProgressOK == TypeOK /\ CheckProgress => TypeOK'
  <1> SUFFICES ASSUME TypeOK, CheckProgress PROVE TypeOK'
    OBVIOUS
  <1>1. CASE Released /\ Complete
    BY <1>1, CompleteOK DEF CheckProgress
  <1>2. CASE Released /\ GiveUp
    BY <1>2, GiveUpOK DEF CheckProgress
  <1>3. CASE Return /\ UNCHANGED <<status, told, faults>>
    <2>1. ServerOK'
      BY <1>3, TypeParts DEF ServerOK, CheckProgress
    <2> QED BY <1>3, <2>1, ReturnOK, QuietOK DEF CheckProgress
  <1> QED BY <1>1, <1>2, <1>3 DEF CheckProgress

LEMMA LockOverdueOK == TypeOK /\ LockOverdue => TypeOK'
  <1> SUFFICES ASSUME TypeOK, LockOverdue PROVE TypeOK'
    OBVIOUS
  <1>1. cr' \in CRs /\ cr'.exists = cr.exists
    <2>1. CASE cr.readonly
      BY <2>1, TypeParts DEF LockOverdue, ServerOK
    <2>2. CASE ~cr.readonly
      <3>1. cr' = [cr EXCEPT !.readonly = TRUE, !.gen = cr.gen + 1]
        BY <2>2, TypeParts DEF LockOverdue, ServerOK, CRs
      <3> QED BY <3>1, EditedOK, TypeParts DEF ServerOK
    <2> QED BY <2>1, <2>2
  <1>2. ServerOK'
    BY <1>1, TypeParts DEF LockOverdue, ServerOK
  <1> QED BY <1>2, ReturnOK, QuietOK DEF LockOverdue

LEMMA RollBackOverdueOK == TypeOK /\ RollBackOverdue => TypeOK'
  <1> SUFFICES ASSUME TypeOK, RollBackOverdue PROVE TypeOK'
    OBVIOUS
  <1>1. ServerOK'
    BY TypeParts DEF RollBackOverdue, ServerOK
  <1>2. LocalOK'
    BY RollbackOK, TypeParts DEF RollBackOverdue, Causes
  <1> QED BY <1>1, <1>2, QuietOK DEF RollBackOverdue

LEMMA UpgradeOK == TypeOK /\ Upgrade => TypeOK'
  <1> SUFFICES ASSUME TypeOK, Upgrade PROVE TypeOK'
    OBVIOUS
  <1>1. ServerOK'
    BY TypeParts DEF Upgrade, ServerOK
  <1>2. LocalOK'
    BY ReturnOK, RollbackOK, GoOK, TypeParts DEF Upgrade, Causes, PCs
  <1>3. history' \in Seq(Records) /\ faults' \in 0..MaxFaults
    <2>1. UNCHANGED history => history' \in Seq(Records)
      BY TypeParts DEF HelmOK
    <2>2. faults \in 0..MaxFaults
      BY TypeParts DEF BudgetOK
    <2> QED BY <2>1, <2>2, AddSeenOK, FaultOK DEF Upgrade
  <1>4. HelmOK' /\ BudgetOK'
    BY <1>3, TypeParts DEF Upgrade, HelmOK, BudgetOK
  <1> QED BY <1>1, <1>2, <1>4, TypePartsNext

LEMMA RevertOK == TypeOK /\ Revert => TypeOK'
  <1> SUFFICES ASSUME TypeOK, Revert PROVE TypeOK'
    OBVIOUS
  <1>1. ServerOK'
    <2>1. Top.version \in Versions \cup {None}
      BY TopOK, TypeParts DEF Revert, Records
    <2>2. CASE UNCHANGED cr
      BY <2>2, TypeParts DEF Revert, ServerOK
    <2>3. CASE SetVersion(Top.version)
      BY <2>1, <2>3, SetVersionOK, TypeParts DEF Revert
    <2> QED BY <2>2, <2>3 DEF Revert
  <1> QED BY <1>1, ReturnOK, QuietOK DEF Revert

LEMMA PatchVersionOK == TypeOK /\ PatchVersion => TypeOK'
  <1> SUFFICES ASSUME TypeOK, PatchVersion PROVE TypeOK'
    OBVIOUS
  <1>1. ServerOK'
    <2>1. Previous.version \in Versions \cup {None}
      BY PreviousOK, TypeParts DEF PatchVersion, Records
    <2>2. CASE UNCHANGED cr
      BY <2>2, TypeParts DEF PatchVersion, ServerOK
    <2>3. CASE SetVersion(Previous.version)
      BY <2>1, <2>3, SetVersionOK, TypeParts DEF PatchVersion
    <2> QED BY <2>2, <2>3 DEF PatchVersion
  <1>2. LocalOK'
    BY GoOK, TypeParts DEF PatchVersion, PCs
  <1> QED BY <1>1, <1>2, QuietOK DEF PatchVersion

\* Steps that only end the reconcile.
LEMMA ReturnOnlyOK ==
  ASSUME TypeOK, Return, UNCHANGED <<cr, status, overdue, history, told, origin, edits>>,
         faults' \in 0..MaxFaults
  PROVE  TypeOK'
  <1>1. ServerOK' /\ HelmOK' /\ BudgetOK'
    BY TypeParts DEF ServerOK, HelmOK, BudgetOK
  <1> QED BY <1>1, ReturnOK, TypePartsNext

LEMMA EndsOK == TypeOK /\ (PatchVersionFails \/ RevertFails \/ Stop) => TypeOK'
  <1> SUFFICES ASSUME TypeOK, PatchVersionFails \/ RevertFails \/ Stop PROVE TypeOK'
    OBVIOUS
  <1>1. faults' \in 0..MaxFaults
    BY TypeParts, FaultOK DEF BudgetOK, PatchVersionFails, RevertFails, Stop
  <1> QED BY <1>1, ReturnOnlyOK DEF PatchVersionFails, RevertFails, Stop

LEMMA TakeRequestOK == TypeOK /\ TakeRequest => TypeOK'
  <1> SUFFICES ASSUME TypeOK, TakeRequest PROVE TypeOK'
    OBVIOUS
  <1>1. seen' \in Copies
    <2>1. seen' = [seen EXCEPT !.status = [seen.status EXCEPT !.rollback = FALSE]]
      BY SeenOK, TypeParts DEF TakeRequest, LocalOK, Copies
    <2>2. [seen.status EXCEPT !.rollback = FALSE] \in Statuses
      BY SeenOK DEF Statuses
    <2> QED BY <2>1, <2>2, TypeParts DEF LocalOK, Copies
  <1>2. ServerOK'
    <2>1. seen'.status \in Statuses
      BY <1>1 DEF Copies
    <2>2. overdue' \in BOOLEAN
      BY TypeParts DEF TakeRequest, ServerOK
    <2> QED BY <2>1, <2>2, WriteOK, TypeParts DEF TakeRequest
  <1>3. LocalOK'
    BY <1>1 DEF TakeRequest, LocalOK, PCs, Causes
  <1> QED BY <1>2, <1>3, QuietOK DEF TakeRequest

\* A step that tells Mothership, or not, and writes a status, or not.
LEMMA TellAndWriteOK ==
  ASSUME TypeOK, NEW s \in Statuses, NEW ok, Tell(ok), Write(s) \/ Write(status), Return,
         UNCHANGED <<cr, history, origin, edits>>, overdue' \in BOOLEAN
  PROVE  TypeOK'
  <1>1. status \in Statuses
    BY TypeParts DEF ServerOK
  <1>2. ServerOK'
    BY <1>1, WriteOK, TypeParts
  <1>3. told' \in SUBSET Nat /\ faults' \in 0..MaxFaults
    BY TellOK, TypeParts DEF BudgetOK
  <1>4. HelmOK' /\ BudgetOK'
    BY <1>3, TypeParts DEF HelmOK, BudgetOK
  <1> QED BY <1>2, <1>4, ReturnOK, TypePartsNext

LEMMA NothingToRollBackOK == TypeOK /\ NothingToRollBack => TypeOK'
  <1> SUFFICES ASSUME TypeOK, NothingToRollBack PROVE TypeOK'
    OBVIOUS
  <1>0. CASE WritesFail("write")
    BY <1>0, WritesFailOK DEF NothingToRollBack
  <1> SUFFICES ASSUME ~WritesFail("write") PROVE TypeOK'
    BY <1>0
  <1>1. PICK ok \in BOOLEAN :
          /\ Tell(ok)
          /\ LET s == Reported(seen.status, ok) IN
               IF why = "overdue" THEN Write([s EXCEPT !.prog = "done", !.avail = FALSE])
               ELSE Write(IF ok THEN s ELSE status)
    BY DEF NothingToRollBack
  <1>2. Reported(seen.status, ok) \in Statuses
    BY ReportedOK, SeenOK, TypeParts
  <1>3. [Reported(seen.status, ok) EXCEPT !.prog = "done", !.avail = FALSE] \in Statuses
    BY <1>2 DEF Statuses
  <1>4. overdue' \in BOOLEAN
    BY TypeParts DEF NothingToRollBack, ServerOK
  <1>5. \E s \in Statuses : Write(s)
    <2>1. status \in Statuses
      BY TypeParts DEF ServerOK
    <2> QED BY <1>1, <1>2, <1>3, <2>1
  <1> QED BY <1>1, <1>4, <1>5, TellAndWriteOK DEF NothingToRollBack

LEMMA FinishRollbackOK == TypeOK /\ FinishRollback => TypeOK'
  <1> SUFFICES ASSUME TypeOK, FinishRollback PROVE TypeOK'
    OBVIOUS
  <1>0. CASE \E f : WritesFail(f) /\ UNCHANGED overdue
    BY <1>0, WritesFailOK DEF FinishRollback
  <1> SUFFICES ASSUME ~\E f : WritesFail(f) /\ UNCHANGED overdue PROVE TypeOK'
    BY <1>0
  <1>1. PICK ok \in BOOLEAN :
          Tell(ok) /\ Write(IF ok \/ why = "overdue" THEN Reported(seen.status, ok) ELSE status)
    BY DEF FinishRollback
  <1>2. Reported(seen.status, ok) \in Statuses
    BY ReportedOK, SeenOK, TypeParts
  <1>3. overdue' \in BOOLEAN
    BY DEF FinishRollback
  <1> QED BY <1>1, <1>2, <1>3, TellAndWriteOK DEF FinishRollback

LEMMA RollBackOK == TypeOK /\ RollBack => TypeOK'
  <1> SUFFICES ASSUME TypeOK, RollBack PROVE TypeOK'
    OBVIOUS
  <1>1. ServerOK'
    BY TypeParts DEF RollBack, ServerOK
  <1>2. LocalOK'
    BY ReturnOK, GoOK, TypeParts DEF RollBack, PCs
  <1>3. history' \in Seq(Records)
    <2>1. CASE Revision > 1
      <3>1. Previous.version \in Versions \cup {None} /\ Previous.values \in Nat
        BY <2>1, PreviousOK, TypeParts DEF Records
      <3>2. PICK st \in {"deployed", "failed", "pending"} :
              Add(Record(Previous.version, Previous.values, st))
        <4>1. ~(Revision <= 1)
          BY <2>1, RevisionOK, TypeParts
        <4> QED BY <4>1, Zenon DEF RollBack
      <3> QED BY <3>1, <3>2, AddOK, TypeParts
    <2>2. CASE ~(Revision > 1)
      BY <2>2, TypeParts DEF RollBack, HelmOK
    <2> QED BY <2>1, <2>2
  <1>4. faults' \in 0..MaxFaults
    <2>1. faults \in 0..MaxFaults
      BY TypeParts DEF BudgetOK
    <2> QED BY <2>1, FaultOK DEF RollBack
  <1>5. HelmOK' /\ BudgetOK'
    BY <1>3, <1>4, TypeParts DEF RollBack, HelmOK, BudgetOK
  <1> QED BY <1>1, <1>2, <1>5, TypePartsNext

\* The generation is stamped on a status that has none.
LEMMA StampedOK ==
  ASSUME TypeOK, NEW s \in Statuses
  PROVE  [s EXCEPT !.observed = IF s.observed = 0 THEN seen.cr.gen ELSE s.observed] \in Statuses
  <1>1. (IF s.observed = 0 THEN seen.cr.gen ELSE s.observed) \in Nat
    BY SeenOK DEF Statuses, CRs
  <1> QED BY <1>1 DEF Statuses

LEMMA ObserveOK == TypeOK /\ Observe => TypeOK'
  <1> SUFFICES ASSUME TypeOK, Observe PROVE TypeOK'
    OBVIOUS
  <1> DEFINE stamped(s) ==
        [s EXCEPT !.observed = IF s.observed = 0 THEN seen.cr.gen ELSE s.observed]
  <1>1. \A s \in Statuses :
          stamped(s) = [s EXCEPT !.observed = IF @ = 0 THEN seen.cr.gen ELSE @]
    BY DEF Statuses
  <1>2. overdue' \in BOOLEAN
    BY TypeParts DEF Observe, ServerOK
  <1>3. ASSUME NEW ok \in BOOLEAN, Tell(ok),
               Write(IF ok \/ seen.status.observed = 0
                     THEN stamped(Reported(seen.status, ok)) ELSE status)
        PROVE  TypeOK'
    <2>1. stamped(Reported(seen.status, ok)) \in Statuses
      BY ReportedOK, StampedOK, SeenOK, TypeParts
    <2> HIDE DEF stamped
    <2> QED BY <1>2, <1>3, <2>1, TellAndWriteOK DEF Observe
  <1>4. ASSUME Write(IF seen.status.observed = 0 THEN stamped(seen.status) ELSE status)
               \/ UNCHANGED status,
               UNCHANGED <<told, faults>>
        PROVE  TypeOK'
    <2>1. stamped(seen.status) \in Statuses /\ status \in Statuses
      BY StampedOK, SeenOK, TypeParts DEF ServerOK
    <2>2. ServerOK'
      <3>1. CASE UNCHANGED status
        BY <3>1, TypeParts DEF ServerOK, Observe
      <3>2. CASE Write(IF seen.status.observed = 0 THEN stamped(seen.status) ELSE status)
        <4> HIDE DEF stamped
        <4> QED BY <1>2, <2>1, <3>2, WriteOK, TypeParts DEF Observe
      <3> QED BY <1>4, <3>1, <3>2
    <2> QED BY <1>4, <2>2, ReturnOK, QuietOK DEF Observe
  <1>5. Reported(seen.status, TRUE) \in Statuses /\ Reported(seen.status, FALSE) \in Statuses
        /\ seen.status \in Statuses
    BY ReportedOK, SeenOK, TypeParts
  <1>6. CASE WritesFail("write")
    BY <1>6, WritesFailOK DEF Observe
  <1> HIDE DEF stamped
  <1> QED BY <1>1, <1>3, <1>4, <1>5, <1>6 DEF Observe

LEMMA AdoptOK == TypeOK /\ Adopt => TypeOK'
  <1> SUFFICES ASSUME TypeOK, Adopt PROVE TypeOK'
    OBVIOUS
  <1>1. overdue' \in BOOLEAN /\ status \in Statuses
    BY TypeParts DEF Adopt, ServerOK
  <1>2. ASSUME Released
        PROVE  [seen.status EXCEPT !.current = Top.version, !.observed = seen.cr.gen] \in Statuses
    <2>1. Top.version \in Versions \cup {None}
      BY <1>2, TopOK, TypeParts DEF Records
    <2> QED BY <2>1, SeenOK DEF Statuses, CRs
  <1>3. \E s \in Statuses : Write(s)
    BY <1>1, <1>2 DEF Adopt
  <1>4. ServerOK'
    BY <1>1, <1>3, WriteOK, TypeParts DEF Adopt
  <1> QED BY <1>4, ReturnOK, QuietOK DEF Adopt

LEMMA UninstallOK == TypeOK /\ Uninstall => TypeOK'
  <1> SUFFICES ASSUME TypeOK, Uninstall PROVE TypeOK'
    OBVIOUS
  <1>1. ServerOK' /\ HelmOK' /\ BudgetOK'
    <2>1. ServerOK' /\ BudgetOK'
      BY TypeParts DEF Uninstall, ServerOK, BudgetOK
    <2>2. HelmOK'
      <3>1. history' = <<>> /\ told' = {}
        BY DEF Uninstall
      <3> QED BY <3>1, EmptyOK DEF HelmOK
    <2> QED BY <2>1, <2>2
  <1>2. LocalOK'
    BY GoOK, TypeParts DEF Uninstall, PCs
  <1> QED BY <1>1, <1>2, TypePartsNext

LEMMA DropFinalizerOK == TypeOK /\ DropFinalizer => TypeOK'
  <1> SUFFICES ASSUME TypeOK, DropFinalizer PROVE TypeOK'
    OBVIOUS
  <1>1. ServerOK'
    BY BlankOK, TypeParts DEF DropFinalizer, ServerOK
  <1> QED BY <1>1, ReturnOK, QuietOK DEF DropFinalizer

LEMMA ReconcileOK == TypeOK /\ Reconcile => TypeOK'
  BY ReadOK, AddFinalizerOK, StartMigrationOK, BeginInstallOK, InstallOK, CheckProgressOK,
     LockOverdueOK, RollBackOverdueOK, BeginUpgradeOK, UpgradeOK, RevertOK, EndsOK, TakeRequestOK,
     NothingToRollBackOK, PatchVersionOK, RollBackOK, FinishRollbackOK, ObserveOK, AdoptOK,
     UninstallOK, DropFinalizerOK DEF Reconcile

\* A step that only edits the server's CR or its status.
LEMMA EditOK ==
  ASSUME TypeOK, NEW e, Edit(e), UNCHANGED <<local, origin, faults>>
  PROVE  LocalOK' /\ BudgetOK' /\ cr.exists
  <1>1. edits' \in 0..MaxEdits
    <2>1. edits \in 0..MaxEdits
      BY TypeParts DEF BudgetOK
    <2>2. edits > 0 /\ edits' = edits - 1
      BY DEF Edit
    <2> QED BY <2>1, <2>2, Bounds
  <1> QED BY <1>1, TypeParts DEF Edit, LocalOK, BudgetOK

LEMMA SpecEditOK ==
  ASSUME TypeOK, NEW e, Edit(e), cr' \in CRs, cr'.exists = cr.exists,
         UNCHANGED <<status, overdue, history, told, local, origin, faults>>
  PROVE  TypeOK'
  <1>1. ServerOK' /\ HelmOK'
    BY TypeParts DEF ServerOK, HelmOK
  <1> QED BY <1>1, EditOK, TypePartsNext

LEMMA SetsVersionOK == ASSUME TypeOK, NEW v \in Versions, SetsVersion(v) PROVE TypeOK'
  <1>1. cr' = [cr EXCEPT !.version = v, !.gen = cr.gen + 1]
    BY TypeParts DEF SetsVersion, ServerOK, CRs
  <1>2. cr' \in CRs /\ cr'.exists = cr.exists
    BY <1>1, EditedOK, TypeParts DEF ServerOK
  <1> QED BY <1>2, SpecEditOK DEF SetsVersion

LEMMA SetsValuesOK == TypeOK /\ SetsValues => TypeOK'
  <1> SUFFICES ASSUME TypeOK, SetsValues PROVE TypeOK'
    OBVIOUS
  <1>1. cr' = [cr EXCEPT !.values = cr.values + 1, !.gen = cr.gen + 1] /\ cr.values + 1 \in Nat
    BY TypeParts DEF SetsValues, ServerOK, CRs
  <1>2. cr' \in CRs /\ cr'.exists = cr.exists
    BY <1>1, EditedOK, TypeParts DEF ServerOK
  <1> QED BY <1>2, SpecEditOK DEF SetsValues

LEMMA SetsReadonlyOK == ASSUME TypeOK, NEW r \in BOOLEAN, SetsReadonly(r) PROVE TypeOK'
  <1>1. cr' = [cr EXCEPT !.readonly = r, !.gen = cr.gen + 1]
    BY TypeParts DEF SetsReadonly, ServerOK, CRs
  <1>2. cr' \in CRs /\ cr'.exists = cr.exists
    BY <1>1, EditedOK, TypeParts DEF ServerOK
  <1> QED BY <1>2, SpecEditOK DEF SetsReadonly

LEMMA DeletesOK == TypeOK /\ Deletes => TypeOK'
  <1> SUFFICES ASSUME TypeOK, Deletes PROVE TypeOK'
    OBVIOUS
  <1>1. CASE cr.finalizer
    <2>1. cr' \in CRs /\ cr'.exists = cr.exists
      BY <1>1, TypeParts DEF Deletes, ServerOK, CRs
    <2> QED BY <1>1, <2>1, SpecEditOK DEF Deletes
  <1>2. CASE ~cr.finalizer
    <2>1. ServerOK' /\ HelmOK'
      BY <1>2, BlankOK, TypeParts DEF Deletes, ServerOK, HelmOK
    <2> QED BY <2>1, EditOK, TypePartsNext DEF Deletes
  <1> QED BY <1>1, <1>2

LEMMA AsksRollbackOK == TypeOK /\ AsksRollback => TypeOK'
  <1> SUFFICES ASSUME TypeOK, AsksRollback PROVE TypeOK'
    OBVIOUS
  <1>1. cr.exists
    BY EditOK DEF AsksRollback
  <1>2. [status EXCEPT !.rollback = TRUE] \in Statuses
    BY TypeParts DEF ServerOK, Statuses
  <1>3. ServerOK' /\ HelmOK'
    BY <1>1, <1>2, TypeParts DEF AsksRollback, ServerOK, HelmOK
  <1> QED BY <1>3, EditOK, TypePartsNext DEF AsksRollback

LEMMA OthersOK ==
  ASSUME TypeOK, OthersUninstall \/ \E v \in Versions : OthersRepair(v)
  PROVE  TypeOK'
  <1>1. CASE OthersUninstall
    <2>1. ServerOK'
      BY <1>1, TypeParts DEF OthersUninstall, ServerOK
    <2>2. HelmOK'
      <3>1. history' = <<>> /\ told' = {}
        BY <1>1 DEF OthersUninstall
      <3> QED BY <3>1, EmptyOK DEF HelmOK
    <2> QED BY <1>1, <2>1, <2>2, EditOK, TypePartsNext DEF OthersUninstall
  <1>2. ASSUME NEW v \in Versions, OthersRepair(v) PROVE TypeOK'
    <2>1. ServerOK'
      BY <1>2, TypeParts DEF OthersRepair, ServerOK
    <2>2. Top.values \in Nat
      BY <1>2, TopOK, TypeParts DEF OthersRepair, Records
    <2>3. history' \in Seq(Records)
      BY <1>2, <2>2, AddOK, TypeParts DEF OthersRepair
    <2>4. HelmOK'
      BY <1>2, <2>3, TypeParts DEF OthersRepair, HelmOK
    <2> QED BY <1>2, <2>1, <2>4, EditOK, TypePartsNext DEF OthersRepair
  <1> QED BY <1>1, <1>2

LEMMA InterferenceOK == TypeOK /\ Interference => TypeOK'
  BY SetsVersionOK, SetsValuesOK, SetsReadonlyOK, DeletesOK, AsksRollbackOK, OthersOK
  DEF Interference

LEMMA DeadlineOK == TypeOK /\ Deadline => TypeOK'
  <1> SUFFICES ASSUME TypeOK, Deadline PROVE TypeOK'
    OBVIOUS
  <1>1. ServerOK' /\ LocalOK'
    BY TypeParts DEF Deadline, ServerOK, LocalOK
  <1> QED BY <1>1, QuietOK DEF Deadline

LEMMA TypeInit == Init => TypeOK
  <1> SUFFICES ASSUME Init PROVE TypeOK
    OBVIOUS
  <1>1. ServerOK
    <2>1. PICK v \in Versions :
            cr = [exists |-> TRUE, deleting |-> FALSE, finalizer |-> FALSE, readonly |-> FALSE,
                  version |-> v, values |-> 1, gen |-> 1]
      BY DEF Init
    <2>2. cr \in CRs /\ cr.exists
      BY <2>1 DEF CRs
    <2>3. status \in Statuses /\ overdue \in BOOLEAN
      BY BlankOK DEF Init
    <2> QED BY <2>2, <2>3 DEF ServerOK
  <1>2. HelmOK
    <2>1. PICK v \in Versions :
            \/ history = <<>>
            \/ \E st \in {"deployed", "failed", "pending"} : history = <<Record(v, 1, st)>>
      BY DEF Init
    <2>2. \A st \in {"deployed", "failed", "pending"} : Record(v, 1, st) \in Records
      BY DEF Record, Records
    <2>3. history \in Seq(Records)
      BY <2>1, <2>2, EmptyOK, OneOK, Zenon
    <2>4. told = {}
      BY DEF Init
    <2> QED BY <2>3, <2>4 DEF HelmOK
  <1>3. LocalOK
    BY BlankOK DEF Init, LocalOK, PCs, Causes
  <1>4. BudgetOK
    <2>1. origin \in Origins /\ edits = MaxEdits /\ faults = MaxFaults
      BY DEF Init
    <2> QED BY <2>1, Bounds DEF BudgetOK
  <1> QED BY <1>1, <1>2, <1>3, <1>4, TypeParts

LEMMA TypeStep == TypeOK /\ [Next]_vars => TypeOK'
  <1> SUFFICES ASSUME TypeOK, [Next]_vars PROVE TypeOK'
    OBVIOUS
  <1>1. CASE UNCHANGED vars
    BY <1>1 DEF vars, TypeOK
  <1>2. CASE Next
    BY <1>2, ReconcileOK, DryRunFailsOK, EndsOK, InterferenceOK, DeadlineOK DEF Next
  <1> QED BY <1>1, <1>2

\* Every state has its type, and no status outlives its CR.
THEOREM TypeCorrect == Spec => []TypeOK
  BY TypeInit, TypeStep, PTL DEF Spec

------------------------------------------------------------------------------
(* No release the operator installed outlives its CR.  Helm is called only by a *)
(* reconcile whose copy has the finalizer, the server's CR stays while a copy   *)
(* has it, and only a reconcile that uninstalled the release removes it.        *)

Working == {"install", "upgrade", "revert", "patch version", "roll back", "rolled back"}

CopyHolds    == /\ pc # "idle" => seen.cr.exists
                /\ pc \in Working => seen.cr.finalizer
                /\ seen.cr.finalizer => cr.exists /\ cr.finalizer
Uninstalled  == pc = "drop finalizer" => ~Released
OwnedRelease == origin # "helm" /\ Released => cr.exists /\ cr.finalizer

OwnerRest == CopyHolds /\ Uninstalled /\ OwnedRelease
OwnerInv  == TypeOK /\ OwnerRest

LEMMA ReturnHolds == Return => CopyHolds' /\ Uninstalled'
  <1> SUFFICES ASSUME Return PROVE CopyHolds' /\ Uninstalled'
    OBVIOUS
  <1>1. pc' = "idle" /\ seen' = Blank
    BY DEF Return
  <1>2. Blank.cr.finalizer = FALSE
    BY DEF Blank, BlankCR
  <1>3. "idle" \notin Working /\ "idle" # "drop finalizer"
    BY DEF Working
  <1>4. CopyHolds'
    BY <1>1, <1>2, <1>3 DEF CopyHolds
  <1>5. Uninstalled'
    BY <1>1, <1>3 DEF Uninstalled
  <1> QED BY <1>4, <1>5

\* What a step that keeps the CR's existence and finalizer must keep.
LEMMA ServerKept ==
  ASSUME OwnerRest, cr'.exists = cr.exists, cr'.finalizer = cr.finalizer, UNCHANGED origin,
         UNCHANGED history \/ (pc \in Working)
  PROVE  OwnedRelease'
  BY DEF OwnerRest, OwnedRelease, CopyHolds, Released

LEMMA ReturnKeeps ==
  ASSUME OwnerRest, Return, cr'.exists = cr.exists, cr'.finalizer = cr.finalizer,
         UNCHANGED origin, UNCHANGED history \/ (pc \in Working)
  PROVE  OwnerRest'
  BY ReturnHolds, ServerKept DEF OwnerRest

\* A reconcile at work goes on with the copy it has.
LEMMA WorkKeeps ==
  ASSUME OwnerRest, pc' \in Working, seen.cr.exists, seen.cr.finalizer, seen'.cr = seen.cr,
         cr'.exists = cr.exists, cr'.finalizer = cr.finalizer, UNCHANGED origin,
         UNCHANGED history \/ (pc \in Working)
  PROVE  OwnerRest'
  <1>1. CopyHolds' /\ Uninstalled'
    BY DEF OwnerRest, CopyHolds, Uninstalled, Working
  <1> QED BY <1>1, ServerKept DEF OwnerRest

LEMMA WorkingCopy ==
  ASSUME OwnerRest, pc \in Working \/ Decide
  PROVE  seen.cr.exists /\ seen.cr.finalizer
  BY DEF OwnerRest, CopyHolds, Working, Decide

LEMMA SetVersionKeeps ==
  ASSUME TypeOK, NEW v, SetVersion(v)
  PROVE  cr'.exists = cr.exists /\ cr'.finalizer = cr.finalizer
  BY TypeParts DEF SetVersion, ServerOK, CRs

\* A copy's CR is not touched by what is done to its status.
LEMMA StatusProg ==
  ASSUME TypeOK, NEW p
  PROVE  [seen EXCEPT !.status.prog = p].cr = seen.cr
         /\ [seen EXCEPT !.status.rollback = p].cr = seen.cr
  BY TypeParts DEF LocalOK, Copies

LEMMA OwnerRead == OwnerInv /\ Read => OwnerRest'
  BY DEF OwnerInv, OwnerRest, Read, CopyHolds, Uninstalled, OwnedRelease, Released, Working

LEMMA OwnerAddFinalizer == OwnerInv /\ AddFinalizer => OwnerRest'
  <1> SUFFICES ASSUME OwnerInv, AddFinalizer PROVE OwnerRest'
    OBVIOUS
  <1>1. CASE seen # [cr |-> cr, status |-> status]
    BY <1>1, ReturnKeeps DEF OwnerInv, AddFinalizer
  <1>2. CASE seen = [cr |-> cr, status |-> status]
    <2>1. cr' = [cr EXCEPT !.finalizer = TRUE] /\ seen' = [seen EXCEPT !.cr.finalizer = TRUE]
          /\ UNCHANGED <<pc, why, history, origin>> /\ pc = "decide"
      BY <1>2 DEF AddFinalizer
    <2>2. cr.exists
      BY <1>2, <2>1 DEF OwnerInv, OwnerRest, CopyHolds
    <2>3. cr'.exists /\ cr'.finalizer /\ seen'.cr.exists
      BY <1>2, <2>1, <2>2, TypeParts DEF OwnerInv, ServerOK, CRs
    <2> QED BY <2>1, <2>3
            DEF OwnerInv, OwnerRest, CopyHolds, Uninstalled, OwnedRelease, Working
  <1> QED BY <1>1, <1>2

LEMMA OwnerReturns ==
  ASSUME OwnerInv,
         StartMigration \/ DryRunFails \/ Install \/ LockOverdue \/ Revert \/ RevertFails
         \/ NothingToRollBack \/ PatchVersionFails \/ FinishRollback \/ Observe \/ Adopt \/ Stop
  PROVE  OwnerRest'
  <1> USE DEF OwnerInv
  <1>1. CASE StartMigration \/ DryRunFails \/ RevertFails \/ NothingToRollBack
             \/ PatchVersionFails \/ FinishRollback \/ Observe \/ Adopt \/ Stop
    BY <1>1, ReturnKeeps DEF StartMigration, DryRunFails, RevertFails, NothingToRollBack,
       PatchVersionFails, FinishRollback, Observe, Adopt, Stop
  <1>2. CASE Install
    BY <1>2, ReturnKeeps DEF Install, Working
  <1>3. CASE LockOverdue
    <2>1. cr'.exists = cr.exists /\ cr'.finalizer = cr.finalizer
      BY <1>3, TypeParts DEF LockOverdue, ServerOK, CRs
    <2> QED BY <1>3, <2>1, ReturnKeeps DEF LockOverdue
  <1>4. CASE Revert
    <2>1. cr'.exists = cr.exists /\ cr'.finalizer = cr.finalizer
      BY <1>4, SetVersionKeeps DEF Revert
    <2> QED BY <1>4, <2>1, ReturnKeeps DEF Revert
  <1> QED BY <1>1, <1>2, <1>3, <1>4

LEMMA OwnerWorks ==
  ASSUME OwnerInv,
         BeginInstall \/ BeginUpgrade \/ CheckProgress \/ RollBackOverdue \/ Upgrade
         \/ TakeRequest \/ PatchVersion \/ RollBack
  PROVE  OwnerRest'
  <1> USE DEF OwnerInv
  <1>1. CASE BeginInstall
    BY <1>1, WorkKeeps, WorkingCopy, StatusProg DEF BeginInstall, Working
  <1>2. CASE BeginUpgrade
    <2>1. CASE Released
      BY <1>2, <2>1, WorkKeeps, WorkingCopy, StatusProg DEF BeginUpgrade, Working
    <2>2. CASE ~Released
      BY <1>2, <2>2, ReturnKeeps DEF BeginUpgrade
    <2> QED BY <2>1, <2>2
  <1>3. CASE CheckProgress
    <2>1. CASE Return
      BY <1>3, <2>1, ReturnKeeps DEF CheckProgress
    <2>2. CASE Rollback("failed")
      BY <1>3, <2>2, WorkKeeps, WorkingCopy DEF CheckProgress, Rollback, Working
    <2> QED BY <1>3, <2>1, <2>2 DEF CheckProgress, Complete, GiveUp
  <1>4. CASE RollBackOverdue
    BY <1>4, WorkKeeps, WorkingCopy DEF RollBackOverdue, Rollback, Working
  <1>5. CASE Upgrade
    <2>0. pc \in Working
      BY <1>5 DEF Upgrade, Working
    <2>1. CASE Return
      BY <1>5, <2>0, <2>1, ReturnKeeps DEF Upgrade
    <2>2. CASE Rollback("upgrade") \/ Go("revert")
      BY <1>5, <2>0, <2>2, WorkKeeps, WorkingCopy DEF Upgrade, Rollback, Go, Working
    <2> QED BY <1>5, <2>1, <2>2 DEF Upgrade
  <1>6. CASE TakeRequest
    BY <1>6, WorkKeeps, WorkingCopy, StatusProg DEF TakeRequest, Working
  <1>7. CASE PatchVersion
    <2>1. cr'.exists = cr.exists /\ cr'.finalizer = cr.finalizer
      BY <1>7, SetVersionKeeps DEF PatchVersion
    <2> QED BY <1>7, <2>1, WorkKeeps, WorkingCopy DEF PatchVersion, Go, Working
  <1>8. CASE RollBack
    <2>0. pc \in Working
      BY <1>8 DEF RollBack, Working
    <2>1. CASE Return
      BY <1>8, <2>0, <2>1, ReturnKeeps DEF RollBack
    <2>2. CASE Go("rolled back")
      BY <1>8, <2>0, <2>2, WorkKeeps, WorkingCopy DEF RollBack, Go, Working
    <2> QED BY <1>8, <2>1, <2>2 DEF RollBack
  <1> QED BY <1>1, <1>2, <1>3, <1>4, <1>5, <1>6, <1>7, <1>8

LEMMA OwnerDeletion == OwnerInv /\ (Uninstall \/ DropFinalizer) => OwnerRest'
  <1> SUFFICES ASSUME OwnerInv, Uninstall \/ DropFinalizer PROVE OwnerRest'
    OBVIOUS
  <1> USE DEF OwnerInv
  <1>1. CASE Uninstall
    BY <1>1 DEF Uninstall, Go, OwnerRest, CopyHolds, Uninstalled, OwnedRelease, Released, Working
  <1>2. CASE DropFinalizer
    <2>1. ~Released'
      BY <1>2 DEF DropFinalizer, OwnerRest, Uninstalled, Released
    <2> QED BY <1>2, <2>1, ReturnHolds DEF DropFinalizer, OwnerRest, OwnedRelease
  <1> QED BY <1>1, <1>2

LEMMA OwnerInterference == OwnerInv /\ (Interference \/ Deadline) => OwnerRest'
  <1> SUFFICES ASSUME OwnerInv, Interference \/ Deadline PROVE OwnerRest'
    OBVIOUS
  <1> USE DEF OwnerInv
  \* The CR keeps its finalizer, and the release is not created.
  <1>1. ASSUME UNCHANGED <<pc, seen, origin>>, cr'.exists = cr.exists,
               cr'.finalizer = cr.finalizer, Released' => Released
        PROVE  OwnerRest'
    BY <1>1 DEF OwnerRest, CopyHolds, Uninstalled, OwnedRelease
  <1>2. ASSUME NEW v \in Versions, SetsVersion(v) PROVE OwnerRest'
    <2>1. cr'.exists = cr.exists /\ cr'.finalizer = cr.finalizer
      BY <1>2, TypeParts DEF SetsVersion, ServerOK, CRs
    <2> QED BY <1>1, <1>2, <2>1 DEF SetsVersion, Released
  <1>3. CASE SetsValues
    <2>1. cr'.exists = cr.exists /\ cr'.finalizer = cr.finalizer
      BY <1>3, TypeParts DEF SetsValues, ServerOK, CRs
    <2> QED BY <1>1, <1>3, <2>1 DEF SetsValues, Released
  <1>4. ASSUME NEW r \in BOOLEAN, SetsReadonly(r) PROVE OwnerRest'
    <2>1. cr'.exists = cr.exists /\ cr'.finalizer = cr.finalizer
      BY <1>4, TypeParts DEF SetsReadonly, ServerOK, CRs
    <2> QED BY <1>1, <1>4, <2>1 DEF SetsReadonly, Released
  <1>5. CASE Deletes
    <2>1. CASE cr.finalizer
      <3>1. cr'.exists = cr.exists /\ cr'.finalizer = cr.finalizer
        BY <1>5, <2>1, TypeParts DEF Deletes, ServerOK, CRs
      <3> QED BY <1>1, <1>5, <3>1 DEF Deletes, Released
    <2>2. CASE ~cr.finalizer
      BY <1>5, <2>2 DEF Deletes, OwnerRest, CopyHolds, Uninstalled, OwnedRelease, Released
    <2> QED BY <2>1, <2>2
  <1>6. CASE AsksRollback \/ OthersUninstall \/ Deadline
    BY <1>1, <1>6 DEF AsksRollback, OthersUninstall, Deadline, Released
  <1>7. ASSUME NEW v \in Versions, OthersRepair(v) PROVE OwnerRest'
    BY <1>1, <1>7 DEF OthersRepair
  <1> QED BY <1>2, <1>3, <1>4, <1>5, <1>6, <1>7 DEF Interference

LEMMA OwnerInit == Init => OwnerInv
  <1> SUFFICES ASSUME Init PROVE OwnerRest
    BY TypeInit DEF OwnerInv
  <1>1. origin # "helm" => ~Released
    BY DEF Init, Released
  <1>2. pc = "idle" /\ ~seen.cr.finalizer
    BY DEF Init, Blank, BlankCR
  <1> QED BY <1>1, <1>2 DEF OwnerRest, CopyHolds, Uninstalled, OwnedRelease, Working

LEMMA OwnerStep == OwnerInv /\ [Next]_vars => OwnerInv'
  <1> SUFFICES ASSUME OwnerInv, [Next]_vars PROVE OwnerInv'
    OBVIOUS
  <1>1. TypeOK'
    BY TypeStep DEF OwnerInv
  <1>2. CASE UNCHANGED vars
    BY <1>1, <1>2
    DEF OwnerInv, OwnerRest, CopyHolds, Uninstalled, OwnedRelease, Released, vars
  <1>3. CASE Next
    <2>1. OwnerRest'
      BY <1>3, OwnerRead, OwnerAddFinalizer, OwnerReturns, OwnerWorks, OwnerDeletion,
         OwnerInterference DEF Next, Reconcile
    <2> QED BY <1>1, <2>1 DEF OwnerInv
  <1> QED BY <1>2, <1>3

\* Whatever goes wrong, and whenever the CR is deleted, a release that the
\* operator installed is gone with its CR (ComponentFinalizer, deleteComponent).
THEOREM NoOrphan == Spec => []NoOrphanRelease
  <1>1. OwnerInv => NoOrphanRelease
    BY DEF OwnerInv, OwnerRest, OwnedRelease, NoOrphanRelease
  <1> QED BY <1>1, OwnerInit, OwnerStep, PTL DEF Spec

------------------------------------------------------------------------------
(* A revision noted as reported was reported.  A reconcile writes the revision  *)
(* its copy noted, or one it has just told; only where the release is           *)
(* uninstalled with its CR does a note outlive what was told, until the CR goes. *)

Known(n) == n = 0 \/ n \in told

Departing == ~Released /\ cr.deleting /\ pc \in {"idle", "delete", "drop finalizer"}
Vouched   == Known(status.reported) /\ (pc # "idle" => Known(seen.status.reported))
Deleting  == pc \in {"delete", "drop finalizer"} => cr.deleting

ReportRest == (Departing \/ Vouched) /\ Deleting
ReportInv  == TypeOK /\ ReportRest

\* What is noted is what was noted, by the server or by the copy, or was just told.
Noted == /\ told \subseteq told'
         /\ status'.reported \in {0, status.reported, seen.status.reported} \cup told'

\* The calls at which nothing departs.
Staying == Working \cup {"decide", "adopt"}

LEMMA VouchedAt ==
  ASSUME ReportRest, pc \in Staying
  PROVE  Known(status.reported) /\ Known(seen.status.reported)
  BY DEF ReportRest, Departing, Vouched, Staying, Working

LEMMA NotedKnown ==
  ASSUME ReportRest, pc \in Staying, Noted
  PROVE  Known(status.reported)' /\ Known(seen.status.reported)
         /\ (seen.status.reported = 0 \/ seen.status.reported \in told')
  BY VouchedAt DEF Noted, Known

LEMMA ReturnNotes ==
  ASSUME ReportRest, pc \in Staying, Return, Noted
  PROVE  ReportRest'
  <1>1. pc' = "idle"
    BY DEF Return
  <1> QED BY <1>1, NotedKnown DEF ReportRest, Vouched, Deleting

\* A reconcile that goes on keeps what its copy noted.
LEMMA WorkNotes ==
  ASSUME ReportRest, pc \in Staying, pc' \in Staying, Noted,
         seen'.status.reported = seen.status.reported
  PROVE  ReportRest'
  <1>1. Vouched'
    BY NotedKnown DEF Vouched, Known
  <1> QED BY <1>1 DEF ReportRest, Deleting, Staying, Working

\* What becomes of the revision noted when a status is written.
LEMMA WriteNotes ==
  ASSUME NEW s, Write(s)
  PROVE  status'.reported \in {s.reported, status.reported}
  BY DEF Write

LEMMA SeenNotes ==
  ASSUME TypeOK, NEW p
  PROVE  /\ [seen.status EXCEPT !.prog = p].reported = seen.status.reported
         /\ [seen.status EXCEPT !.avail = p].reported = seen.status.reported
         /\ [seen EXCEPT !.status.prog = p].status.reported = seen.status.reported
         /\ [seen EXCEPT !.status.rollback = p].status.reported = seen.status.reported
  <1>1. seen \in Copies /\ seen.status \in Statuses
    BY SeenOK, TypeParts DEF LocalOK
  <1> QED BY <1>1 DEF Copies, Statuses

LEMMA FollowNotes ==
  ASSUME TypeOK, NEW v, NEW g
  PROVE  /\ [seen.status EXCEPT !.current = v, !.observed = g].reported = seen.status.reported
         /\ [seen.status EXCEPT !.prog = "done", !.avail = TRUE, !.current = v,
                                !.observed = g].reported = seen.status.reported
         /\ [seen.status EXCEPT !.prog = "done", !.avail = FALSE].reported = seen.status.reported
  BY SeenOK DEF Statuses

LEMMA TellNotes ==
  ASSUME NEW ok \in BOOLEAN, Tell(ok)
  PROVE  told \subseteq told' /\ (ok => Revision \in told')
  BY DEF Tell

LEMMA ReportedNotes ==
  ASSUME NEW s \in Statuses, NEW ok \in BOOLEAN
  PROVE  Reported(s, ok).reported = IF ok THEN Revision ELSE s.reported
  BY DEF Reported, Statuses

\* What was told is noted, or the note stays as the copy or the server has it.
LEMMA TellThenWrite ==
  ASSUME NEW ok \in BOOLEAN, Tell(ok), NEW s \in Statuses,
         s.reported = seen.status.reported, NEW t, t.reported = Reported(s, ok).reported,
         Write(t) \/ Write(status)
  PROVE  Noted
  <1>1. status'.reported \in {t.reported, status.reported}
    BY WriteNotes
  <1>2. t.reported = IF ok THEN Revision ELSE seen.status.reported
    BY ReportedNotes
  <1> QED BY <1>1, <1>2, TellNotes DEF Noted

LEMMA WritesFailNotes ==
  ASSUME seen.status \in Statuses, NEW f, WritesFail(f)
  PROVE  Noted
  <1>1. Revision \in told' /\ told \subseteq told'
    BY DEF WritesFail
  <1>2. CASE UNCHANGED status
    BY <1>1, <1>2 DEF Noted
  <1>3. CASE Write(Reported(seen.status, TRUE))
    <2>1. status'.reported \in {Revision, status.reported}
      BY <1>3, ReportedNotes, WriteNotes
    <2> QED BY <1>1, <2>1 DEF Noted
  <1> QED BY <1>2, <1>3 DEF WritesFail

LEMMA ReportComplete ==
  ASSUME ReportInv, pc = "decide", Released, Complete
  PROVE  ReportRest'
  <1> DEFINE s == [seen.status EXCEPT !.prog = "done", !.avail = TRUE, !.current = Top.version,
                                      !.observed = seen.cr.gen]
  <1>1. s \in Statuses /\ s.reported = seen.status.reported
    BY CurrentOK, FollowNotes DEF ReportInv
  <1>2. WritesFail("write") \/ \E ok \in BOOLEAN : Tell(ok) /\ Write(Reported(s, ok))
    BY DEF Complete
  <1> HIDE DEF s
  <1>3. Noted
    BY <1>1, <1>2, TellThenWrite, WritesFailNotes, SeenOK DEF ReportInv
  <1> QED BY <1>3, ReturnNotes DEF ReportInv, Complete, Staying, Working

LEMMA ReportCheckProgress == ReportInv /\ CheckProgress => ReportRest'
  <1> SUFFICES ASSUME ReportInv, CheckProgress PROVE ReportRest'
    OBVIOUS
  <1>0. pc = "decide" /\ pc \in Staying /\ ReportRest
    BY DEF CheckProgress, Decide, Staying, Working, ReportInv
  <1>1. CASE Released /\ Complete
    BY <1>0, <1>1, ReportComplete
  <1>2. CASE GiveUp
    <2>1. status'.reported \in {seen.status.reported, status.reported} /\ UNCHANGED told
      BY <1>2, WriteNotes, FollowNotes DEF GiveUp, ReportInv
    <2>2. Noted
      BY <2>1 DEF Noted
    <2>3. CASE Return
      BY <1>0, <2>2, <2>3, ReturnNotes
    <2>4. CASE Rollback("failed")
      <3>1. pc' \in Staying /\ seen' = seen
        BY <2>4 DEF Rollback, Staying, Working
      <3> QED BY <1>0, <2>2, <3>1, WorkNotes
    <2> QED BY <1>2, <2>3, <2>4 DEF GiveUp
  <1>3. CASE Return /\ UNCHANGED <<status, told, faults>>
    BY <1>0, <1>3, ReturnNotes DEF Noted
  <1> QED BY <1>1, <1>2, <1>3 DEF CheckProgress

\* Steps that end the reconcile and tell nothing.
LEMMA ReportReturns ==
  ASSUME ReportInv,
         StartMigration \/ DryRunFails \/ Install \/ LockOverdue \/ Revert \/ RevertFails
         \/ PatchVersionFails \/ Adopt
  PROVE  ReportRest'
  <1>1. pc \in Staying /\ Return /\ UNCHANGED told /\ ReportRest
    BY DEF StartMigration, DryRunFails, Install, LockOverdue, Revert, RevertFails,
       PatchVersionFails, Adopt, Decide, Staying, Working, ReportInv
  <1>2. status'.reported \in {seen.status.reported, status.reported}
    <2>1. CASE StartMigration \/ DryRunFails
      BY <2>1, WriteNotes, SeenNotes DEF StartMigration, DryRunFails, ReportInv
    <2>2. CASE Adopt
      <3>1. [seen.status EXCEPT !.current = Top.version, !.observed = seen.cr.gen].reported
              = seen.status.reported
        BY FollowNotes DEF ReportInv
      <3> QED BY <2>2, <3>1, WriteNotes DEF Adopt
    <2>3. CASE UNCHANGED status
      BY <2>3
    <2> QED BY <2>1, <2>2, <2>3
            DEF Install, LockOverdue, Revert, RevertFails, PatchVersionFails
  <1>3. Noted
    BY <1>1, <1>2 DEF Noted
  <1> QED BY <1>1, <1>3, ReturnNotes

LEMMA ReportNothingToRollBack == ReportInv /\ NothingToRollBack => ReportRest'
  <1> SUFFICES ASSUME ReportInv, NothingToRollBack PROVE ReportRest'
    OBVIOUS
  <1> DEFINE t(ok) == [Reported(seen.status, ok) EXCEPT !.prog = "done", !.avail = FALSE]
  <1>0. Noted => ReportRest'
    BY ReturnNotes DEF NothingToRollBack, ReportInv, Staying, Working
  <1>2. seen.status \in Statuses
    BY SeenOK DEF ReportInv
  <1> SUFFICES ASSUME ~WritesFail("write") PROVE ReportRest'
    BY <1>0, <1>2, WritesFailNotes
  <1>1. PICK ok \in BOOLEAN :
          /\ Tell(ok)
          /\ IF why = "overdue" THEN Write(t(ok))
             ELSE Write(IF ok THEN Reported(seen.status, ok) ELSE status)
    BY DEF NothingToRollBack
  <1>3. t(ok).reported = Reported(seen.status, ok).reported
    BY <1>2, ReportedOK, TypeParts DEF Statuses, ReportInv
  <1> HIDE DEF t
  <1>4. \E u \in {Reported(seen.status, ok), t(ok)} : Write(u) \/ Write(status)
    BY <1>1
  <1>5. Noted
    BY <1>1, <1>2, <1>3, <1>4, TellThenWrite
  <1> QED BY <1>0, <1>5

LEMMA ReportFinishRollback == ReportInv /\ FinishRollback => ReportRest'
  <1> SUFFICES ASSUME ReportInv, FinishRollback PROVE ReportRest'
    OBVIOUS
  <1>0. Noted => ReportRest'
    BY ReturnNotes DEF FinishRollback, ReportInv, Staying, Working
  <1>2. seen.status \in Statuses
    BY SeenOK DEF ReportInv
  <1> SUFFICES ASSUME ~\E f : WritesFail(f) PROVE ReportRest'
    BY <1>0, <1>2, WritesFailNotes
  <1>1. PICK ok \in BOOLEAN :
          Tell(ok) /\ Write(IF ok \/ why = "overdue" THEN Reported(seen.status, ok) ELSE status)
    BY DEF FinishRollback
  <1>3. Write(Reported(seen.status, ok)) \/ Write(status)
    BY <1>1
  <1>4. Noted
    BY <1>1, <1>2, <1>3, TellThenWrite
  <1> QED BY <1>0, <1>4

LEMMA ReportObserve == ReportInv /\ Observe => ReportRest'
  <1> SUFFICES ASSUME ReportInv, Observe PROVE ReportRest'
    OBVIOUS
  <1> DEFINE stamped(s) == [s EXCEPT !.observed = IF @ = 0 THEN seen.cr.gen ELSE @]
  <1>1. \A s \in Statuses : stamped(s).reported = s.reported
    BY DEF Statuses
  <1>2. seen.status \in Statuses /\ \A ok \in BOOLEAN : Reported(seen.status, ok) \in Statuses
    BY SeenOK, ReportedOK, TypeParts DEF ReportInv
  <1> HIDE DEF stamped
  <1>3. ASSUME NEW ok \in BOOLEAN, Tell(ok),
               Write(IF ok \/ seen.status.observed = 0
                     THEN stamped(Reported(seen.status, ok)) ELSE status)
        PROVE  Noted
    <2>1. Write(stamped(Reported(seen.status, ok))) \/ Write(status)
      BY <1>3
    <2>2. stamped(Reported(seen.status, ok)).reported = Reported(seen.status, ok).reported
      BY <1>1, <1>2
    <2> QED BY <1>2, <1>3, <2>1, <2>2, TellThenWrite
  <1>4. ASSUME UNCHANGED told,
               \/ UNCHANGED status
               \/ Write(IF seen.status.observed = 0 THEN stamped(seen.status) ELSE status)
        PROVE  Noted
    <2>1. stamped(seen.status).reported = seen.status.reported
      BY <1>1, <1>2
    <2>2. status'.reported \in {seen.status.reported, status.reported}
      BY <1>4, <2>1, WriteNotes
    <2> QED BY <1>4, <2>2 DEF Noted
  <1>5. Noted
    BY <1>2, <1>3, <1>4, WritesFailNotes DEF Observe, stamped
  <1>6. pc \in Staying /\ Return /\ ReportRest
    BY DEF Observe, Quiet, Decide, Staying, Working, ReportInv
  <1> QED BY <1>5, <1>6, ReturnNotes

\* Steps after which the reconcile goes on.
LEMMA ReportWorks ==
  ASSUME ReportInv,
         BeginInstall \/ BeginUpgrade \/ RollBackOverdue \/ Upgrade \/ TakeRequest
         \/ PatchVersion \/ RollBack \/ AddFinalizer
  PROVE  ReportRest'
  <1>0. ASSUME NEW p, \/ seen' = [seen EXCEPT !.status.prog = p]
                      \/ seen' = [seen EXCEPT !.status.rollback = p]
        PROVE  seen'.status.reported = seen.status.reported
    BY <1>0, SeenNotes DEF ReportInv
  <1>1. pc \in Staying /\ UNCHANGED told /\ ReportRest
    BY DEF BeginInstall, BeginUpgrade, RollBackOverdue, Upgrade, TakeRequest, PatchVersion,
       RollBack, AddFinalizer, Decide, Staying, Working, ReportInv
  <1>2. Return \/ (pc' \in Staying /\ seen'.status.reported = seen.status.reported)
    <2>1. CASE BeginInstall \/ BeginUpgrade \/ TakeRequest
      <3>1. Return \/ pc' \in Staying
        BY <2>1 DEF BeginInstall, BeginUpgrade, TakeRequest, Staying, Working
      <3>2. Return \/ seen'.status.reported = seen.status.reported
        BY <1>0, <2>1 DEF BeginInstall, BeginUpgrade, TakeRequest
      <3> QED BY <3>1, <3>2
    <2>2. CASE RollBackOverdue \/ Upgrade \/ PatchVersion \/ RollBack
      <3>1. \/ Return
            \/ /\ pc' \in {"patch version", "revert", "roll back", "rolled back"}
               /\ seen' = seen
        BY <2>2 DEF RollBackOverdue, Upgrade, PatchVersion, RollBack, Rollback, Go
      <3> QED BY <3>1 DEF Staying, Working
    <2>3. CASE AddFinalizer
      <3>1. seen \in Copies
        BY TypeParts DEF ReportInv, LocalOK
      <3>2. [seen EXCEPT !.cr.finalizer = TRUE].status = seen.status
        BY <3>1 DEF Copies
      <3> QED BY <2>3, <3>2 DEF AddFinalizer, Staying
    <2> QED BY <2>1, <2>2, <2>3
  <1>3. status'.reported \in {seen.status.reported, status.reported}
    <2>1. CASE BeginInstall \/ BeginUpgrade \/ TakeRequest
      <3>1. \/ UNCHANGED status
            \/ Write(seen'.status) /\ seen'.status.reported = seen.status.reported
        BY <1>0, <2>1 DEF BeginInstall, BeginUpgrade, TakeRequest
      <3> QED BY <3>1, WriteNotes
    <2>2. CASE RollBackOverdue \/ Upgrade \/ PatchVersion \/ RollBack \/ AddFinalizer
      BY <2>2 DEF RollBackOverdue, Upgrade, PatchVersion, RollBack, AddFinalizer
    <2> QED BY <2>1, <2>2
  <1>4. Noted
    BY <1>1, <1>3 DEF Noted
  <1> QED BY <1>1, <1>2, <1>4, ReturnNotes, WorkNotes

LEMMA ReportRead == ReportInv /\ Read => ReportRest'
  <1> SUFFICES ASSUME ReportInv, Read PROVE ReportRest'
    OBVIOUS
  <1> USE DEF ReportInv, ReportRest
  <1>1. pc' = (IF cr.deleting THEN "delete" ELSE IF cr.readonly THEN "adopt" ELSE "decide")
        /\ UNCHANGED <<cr, status, history, told>> /\ pc = "idle"
    BY DEF Read
  <1>2. seen'.status.reported = status.reported
    BY DEF Read
  <1>3. Deleting'
    BY <1>1 DEF Deleting
  <1>4. CASE Departing
    BY <1>1, <1>3, <1>4 DEF Departing, Released
  <1>5. CASE Vouched
    BY <1>1, <1>2, <1>3, <1>5 DEF Vouched, Known
  <1> QED BY <1>4, <1>5

LEMMA ReportDeletion == ReportInv /\ (Uninstall \/ DropFinalizer \/ Stop) => ReportRest'
  <1> SUFFICES ASSUME ReportInv, Uninstall \/ DropFinalizer \/ Stop PROVE ReportRest'
    OBVIOUS
  <1> USE DEF ReportInv, ReportRest
  <1>1. CASE Uninstall
    <2>1. cr.deleting /\ UNCHANGED cr
      BY <1>1 DEF Uninstall, Deleting
    <2>2. pc' = "drop finalizer" /\ ~Released'
      BY <1>1 DEF Uninstall, Go, Released
    <2> QED BY <2>1, <2>2 DEF Departing, Deleting
  <1>2. CASE Return /\ UNCHANGED <<cr, status, history, told>>
    <2>1. pc' = "idle" /\ Deleting'
      BY <1>2 DEF Return, Deleting
    <2> QED BY <1>2, <2>1 DEF Departing, Vouched, Known, Released
  <1>3. CASE DropFinalizer /\ status' = BlankStatus
    <2>1. pc' = "idle" /\ Deleting'
      BY <1>3 DEF DropFinalizer, Return, Deleting
    <2>2. Vouched'
      BY <1>3, <2>1 DEF Vouched, Known, BlankStatus
    <2> QED BY <2>1, <2>2
  <1> QED BY <1>1, <1>2, <1>3 DEF DropFinalizer, Stop

\* Users change neither what was told nor what was noted, except with the CR; who
\* uninstalls the release under a locked CR would.
LEMMA ReportInterference ==
  ASSUME "uninstall" \notin Edits, ReportInv, Interference \/ Deadline
  PROVE  ReportRest'
  <1> USE DEF ReportInv, ReportRest
  <1>1. ASSUME UNCHANGED <<pc, seen, told>>, status'.reported = status.reported,
               cr.deleting => cr'.deleting, Released' => Released
        PROVE  ReportRest'
    BY <1>1 DEF Departing, Vouched, Known, Deleting
  <1>2. ASSUME NEW v \in Versions, SetsVersion(v) PROVE ReportRest'
    BY <1>1, <1>2 DEF SetsVersion, Released
  <1>3. CASE SetsValues
    BY <1>1, <1>3 DEF SetsValues, Released
  <1>4. ASSUME NEW r \in BOOLEAN, SetsReadonly(r) PROVE ReportRest'
    BY <1>1, <1>4 DEF SetsReadonly, Released
  <1>5. CASE Deletes
    <2>1. CASE cr.finalizer
      BY <1>1, <1>5, <2>1 DEF Deletes, Released
    <2>2. CASE ~cr.finalizer
      <3>1. ~cr.deleting /\ UNCHANGED <<pc, seen, told>> /\ status' = BlankStatus
        BY <1>5, <2>2 DEF Deletes
      <3>2. ~Departing /\ pc \notin {"delete", "drop finalizer"}
        BY <3>1 DEF Departing, Deleting
      <3> QED BY <3>1, <3>2 DEF Vouched, Known, Deleting, BlankStatus
    <2> QED BY <2>1, <2>2
  <1>6. CASE AsksRollback
    <2>1. status' = [status EXCEPT !.rollback = TRUE] /\ status \in Statuses
      BY <1>6, TypeParts DEF AsksRollback, ServerOK
    <2>2. status'.reported = status.reported
      BY <2>1 DEF Statuses
    <2> QED BY <1>1, <1>6, <2>2 DEF AsksRollback, Released
  <1>7. CASE Deadline
    BY <1>1, <1>7 DEF Deadline, Released
  <1>8. ASSUME NEW v \in Versions, OthersRepair(v) PROVE ReportRest'
    BY <1>1, <1>8 DEF OthersRepair
  <1>9. ~OthersUninstall
    BY DEF OthersUninstall, Edit
  <1> QED BY <1>2, <1>3, <1>4, <1>5, <1>6, <1>7, <1>8, <1>9 DEF Interference

LEMMA ReportInit == Init => ReportInv
  <1> SUFFICES ASSUME Init PROVE ReportRest
    BY TypeInit DEF ReportInv
  <1>1. pc = "idle" /\ status.reported = 0
    BY DEF Init, BlankStatus
  <1> QED BY <1>1 DEF ReportRest, Vouched, Known, Deleting

LEMMA ReportStep == "uninstall" \notin Edits /\ ReportInv /\ [Next]_vars => ReportInv'
  <1> SUFFICES ASSUME "uninstall" \notin Edits, ReportInv, [Next]_vars PROVE ReportInv'
    OBVIOUS
  <1>1. TypeOK'
    BY TypeStep DEF ReportInv
  <1>2. CASE UNCHANGED vars
    BY <1>1, <1>2
    DEF ReportInv, ReportRest, Departing, Vouched, Known, Deleting, Released, vars
  <1>3. CASE Next
    <2>1. ReportRest'
      BY <1>3, ReportRead, ReportWorks, ReportReturns, ReportCheckProgress,
         ReportNothingToRollBack, ReportFinishRollback, ReportObserve, ReportDeletion,
         ReportInterference DEF Next, Reconcile
    <2> QED BY <1>1, <2>1 DEF ReportInv
  <1> QED BY <1>2, <1>3

\* A revision that a component's status notes as reported is one that Mothership
\* was told of, however the calls and writes fail and whoever edits the CR
\* (recordActionResult), unless somebody else uninstalls the release: its
\* successor counts its revisions from one, and the note is of the old release.
THEOREM OnlyToldIsNoted ==
  ASSUME "uninstall" \notin Edits
  PROVE  Spec => []NoPhantomReport
  <1>1. ReportInv => NoPhantomReport
    BY DEF ReportInv, ReportRest, Departing, Deleting, Vouched, Known, NoPhantomReport
  <1>2. ReportInv /\ [Next]_vars => ReportInv'
    BY ReportStep
  <1> QED BY <1>1, <1>2, ReportInit, PTL DEF Spec

------------------------------------------------------------------------------
(* What a step does to the CR, to the status, to the copy and to the release,   *)
(* and what a running reconcile may rely on: its copy is what the server had at *)
(* some generation, and only a reconcile writes the fields it decides on.       *)

Section == {"patch version", "roll back", "rolled back"}

\* The parts of a status that decide what a reconcile does, but for its operation.
LikeTold(s, t) == s.current = t.current /\ s.observed = t.observed /\ s.avail = t.avail
Like(s, t)     == s.prog = t.prog /\ LikeTold(s, t)

SameSpec(c, d) == /\ c.version = d.version /\ c.values = d.values
                  /\ c.readonly = d.readonly /\ c.gen = d.gen

\* A CR that stays has its spec or counts the change.
CrStep ==
  cr'.exists =>
    /\ cr.exists /\ cr'.version # None
    /\ SameSpec(cr', cr) \/ cr'.gen = cr.gen + 1
    /\ cr.deleting => cr'.deleting

\* A reconcile reads, answers a request, or repairs.
Looking  == pc \in {"decide", "adopt", "delete", "drop finalizer"}
Asked    == pc \in Section /\ why = "asked"
Mending  == pc \in Section /\ why # "asked"

\* The status says the same, has an operation begun, is unavailable, or follows
\* the release.
Begun     == /\ \/ StartMigration \/ BeginInstall \/ BeginUpgrade
                \/ Mending /\ (FinishRollback \/ (NothingToRollBack /\ why # "overdue"))
             /\ Active(status') /\ LikeTold(status', status)
GivenUp   == /\ pc # "idle" /\ pc' = "idle" /\ ~status'.avail
             /\ \/ status'.prog = status.prog
                \/ /\ CheckProgress \/ (NothingToRollBack /\ why = "overdue")
                   /\ status'.prog = "done"
             /\ status'.current = status.current /\ status'.observed = status.observed
Completed == /\ pc = "decide" /\ pc' = "idle" /\ UNCHANGED <<cr, overdue, history>>
             /\ Active(seen.status) /\ ~overdue
             /\ Released /\ Top.status = "deployed"
             /\ status'.prog = "done" /\ status'.avail
             /\ status'.current = Top.version /\ status'.observed = seen.cr.gen
Adopted   == /\ pc = "adopt" /\ pc' = "idle" /\ UNCHANGED <<cr, overdue, history>>
             /\ Released
             /\ status'.prog = seen.status.prog /\ status'.avail = seen.status.avail
             /\ status'.current = Top.version /\ status'.observed = seen.cr.gen

StatusStep ==
  cr'.exists => Like(status', status) \/ Begun \/ GivenUp \/ Completed \/ Adopted

\* A reconcile ends, starts, or keeps what its copy says.
LocalStep ==
  \/ pc' = "idle"
  \/ Read
  \/ pc # "idle" /\ SameSpec(seen'.cr, seen.cr) /\ LikeTold(seen'.status, seen.status)

\* Helm adds a revision of a version that is one, or the release goes.
HistoryStep ==
  \/ UNCHANGED history
  \/ history' = <<>>
  \/ \E r \in Records : r.version # None /\ Add(r)

\* Versions are versions.
Named ==
  /\ cr.exists => cr.version # None
  /\ pc # "idle" => seen.cr.version # None
  /\ \A i \in 1..Revision : history[i].version # None

\* An observed generation is one the CR had, and an available component has one.
Countable(c, s) ==
  /\ c.gen > 0 /\ s.observed <= c.gen
  /\ s.avail => s.observed # 0 /\ s.current # None
Counted == cr.exists => Countable(cr, status)

\* The copy is of a generation between the observed one and the server's.
Dated ==
  pc # "idle" /\ cr.exists =>
    /\ seen.cr.gen > 0 /\ seen.cr.gen <= cr.gen /\ status.observed <= seen.cr.gen
    /\ seen.cr.gen = cr.gen => SameSpec(seen.cr, cr)
    /\ LikeTold(seen.status, status)

\* The copy's operation is the server's, until the reconcile begins one.
Tracked ==
  cr.exists =>
    /\ Looking \/ Asked \/ (Mending /\ why = "overdue") => seen.status.prog = status.prog
    /\ pc = "upgrade" \/ Mending => Active(seen.status)
    /\ pc = "adopt" => seen.cr.readonly

CopyInv == TypeOK /\ Deleting /\ Named /\ Counted /\ Dated /\ Tracked

LEMMA TopNamed ==
  ASSUME TypeOK, Named, Released
  PROVE  Top \in Records /\ Top.version # None
  <1>1. Revision \in 1..Revision
    BY TypeParts DEF HelmOK, Revision, Released
  <1> QED BY <1>1, TopOK, TypeParts DEF Named, Top

LEMMA PreviousNamed ==
  ASSUME TypeOK, Named, Revision > 1
  PROVE  Previous \in Records /\ Previous.version # None
  <1>1. Revision - 1 \in 1..Revision
    BY TypeParts DEF HelmOK, Revision
  <1> QED BY <1>1, PreviousOK, TypeParts DEF Named, Previous

LEMMA NumbersOK ==
  TypeOK => /\ cr.gen \in Nat /\ seen.cr.gen \in Nat /\ status.observed \in Nat
            /\ seen.status.observed \in Nat /\ cr \in CRs /\ status \in Statuses
  BY TypeParts, SeenOK DEF ServerOK, CRs, Statuses

LEMMA SetVersionSteps ==
  ASSUME TypeOK, Named, NEW v, v # None, SetVersion(v) \/ UNCHANGED cr
  PROVE  CrStep
  BY NumbersOK DEF SetVersion, CRs, CrStep, SameSpec, Named

\* What a step does to the CR.
LEMMA CrEffect == ASSUME TypeOK, Named, Next PROVE CrStep
  <1>1. CASE UNCHANGED cr
    BY <1>1 DEF CrStep, SameSpec, Named
  <1>2. CASE AddFinalizer
    <2>1. UNCHANGED cr \/ cr' = [cr EXCEPT !.finalizer = TRUE]
      BY <1>2 DEF AddFinalizer
    <2> QED BY <2>1, <1>1, NumbersOK DEF CRs, CrStep, SameSpec, Named
  <1>3. CASE LockOverdue
    BY <1>3, NumbersOK DEF LockOverdue, CRs, CrStep, SameSpec, Named
  <1>4. CASE Revert
    BY <1>4, TopNamed, SetVersionSteps DEF Revert
  <1>5. CASE PatchVersion
    BY <1>5, PreviousNamed, SetVersionSteps DEF PatchVersion
  <1>6. CASE DropFinalizer
    <2>1. UNCHANGED cr \/ cr' = BlankCR
      BY <1>6 DEF DropFinalizer
    <2> QED BY <2>1, <1>1 DEF CrStep, BlankCR
  <1>7. ASSUME NEW v \in Versions, SetsVersion(v) PROVE CrStep
    <2>1. v # None
      BY LifecycleAssumption
    <2> QED BY <2>1, <1>7, NumbersOK DEF SetsVersion, Edit, CRs, CrStep
  <1>8. CASE SetsValues
    BY <1>8, NumbersOK DEF SetsValues, CRs, CrStep, Named
  <1>9. ASSUME NEW r \in BOOLEAN, SetsReadonly(r) PROVE CrStep
    BY <1>9, NumbersOK DEF SetsReadonly, CRs, CrStep, Named
  <1>10. CASE Deletes
    <2>1. cr' = [cr EXCEPT !.deleting = TRUE] \/ cr' = BlankCR
      BY <1>10 DEF Deletes
    <2> QED BY <2>1, NumbersOK DEF CRs, CrStep, SameSpec, Named, BlankCR
  <1>11. CASE Reconcile
    <2>1. UNCHANGED cr \/ AddFinalizer \/ LockOverdue \/ Revert \/ PatchVersion \/ DropFinalizer
      BY <1>11 DEF Reconcile, Read, StartMigration, BeginInstall, Install, CheckProgress,
         RollBackOverdue, BeginUpgrade, Upgrade, RevertFails, TakeRequest, NothingToRollBack,
         PatchVersionFails, RollBack, FinishRollback, Observe, Adopt, Uninstall
    <2> QED BY <2>1, <1>1, <1>2, <1>3, <1>4, <1>5, <1>6
  <1>12. CASE Interference
    <2>1. CASE AsksRollback \/ OthersUninstall \/ \E v \in Versions : OthersRepair(v)
      BY <2>1, <1>1 DEF AsksRollback, OthersUninstall, OthersRepair
    <2> QED BY <2>1, <1>7, <1>8, <1>9, <1>10, <1>12 DEF Interference
  <1>13. CASE DryRunFails \/ Stop \/ Deadline
    BY <1>13, <1>1 DEF DryRunFails, Stop, Deadline
  <1> QED BY <1>11, <1>12, <1>13 DEF Next

\* What is done to a status or to a copy of it, field by field.
LEMMA ReportedLike ==
  ASSUME NEW s \in Statuses, NEW ok \in BOOLEAN
  PROVE  Like(Reported(s, ok), s) /\ Reported(s, ok).rollback = s.rollback
  BY DEF Reported, Statuses, Like, LikeTold

\* Writes that fail leave the status, or the copy's with a note.
LEMMA WritesFailLike ==
  ASSUME TypeOK, cr.exists, NEW f, WritesFail(f)
  PROVE  UNCHANGED status \/ (Like(status', seen.status) /\ status'.rollback = seen.status.rollback)
  BY ReportedLike, SeenOK, TypeParts DEF WritesFail, Write

LEMMA ProgLike ==
  ASSUME TypeOK, NEW p
  PROVE  LET s == seen.status IN
         /\ [s EXCEPT !.prog = p].prog = p /\ LikeTold([s EXCEPT !.prog = p], s)
         /\ [seen EXCEPT !.status.prog = p].cr = seen.cr
         /\ [seen EXCEPT !.status.prog = p].status.prog = p
         /\ LikeTold([seen EXCEPT !.status.prog = p].status, s)
         /\ [seen EXCEPT !.status.rollback = p].cr = seen.cr
         /\ Like([seen EXCEPT !.status.rollback = p].status, s)
  BY SeenOK, TypeParts DEF LocalOK, Copies, Statuses, Like, LikeTold

LEMMA ActiveProgs == \A s : s.prog \in {"installing", "upgrading", "migrating"} <=> Active(s)
  BY DEF Active

LEMMA WriteIs == ASSUME NEW s, Write(s), cr.exists PROVE status' = s
  BY DEF Write

\* A reconcile that ends, or goes on with its copy.
LEMMA LocalEffect == ASSUME TypeOK, Next PROVE LocalStep
  <1>1. CASE Return
    BY <1>1 DEF Return, LocalStep
  <1>2. CASE UNCHANGED <<pc, seen>>
    BY <1>2 DEF LocalStep, SameSpec, LikeTold
  <1>3. ASSUME pc # "idle", UNCHANGED seen PROVE LocalStep
    BY <1>3 DEF LocalStep, SameSpec, LikeTold
  <1>4. CASE AddFinalizer
    <2>1. CASE seen' = [seen EXCEPT !.cr.finalizer = TRUE]
      <3>1. SameSpec(seen'.cr, seen.cr) /\ LikeTold(seen'.status, seen.status)
        BY <2>1, TypeParts DEF LocalOK, Copies, CRs, SameSpec, LikeTold
      <3> QED BY <1>4, <3>1 DEF AddFinalizer, LocalStep
    <2> QED BY <1>1, <1>4, <2>1 DEF AddFinalizer
  <1>5. CASE BeginInstall \/ (BeginUpgrade /\ Released) \/ TakeRequest
    <2>1. SameSpec(seen'.cr, seen.cr) /\ LikeTold(seen'.status, seen.status)
      <3>1. PICK p : \/ seen' = [seen EXCEPT !.status.prog = p]
                     \/ seen' = [seen EXCEPT !.status.rollback = p]
        BY <1>5 DEF BeginInstall, BeginUpgrade, TakeRequest
      <3> DEFINE x == [seen EXCEPT !.status.prog = p]
                 y == [seen EXCEPT !.status.rollback = p]
      <3>2. x.cr = seen.cr /\ LikeTold(x.status, seen.status)
            /\ y.cr = seen.cr /\ LikeTold(y.status, seen.status)
        BY ProgLike DEF Like
      <3>3. seen' = x \/ seen' = y
        BY <3>1
      <3> HIDE DEF x, y
      <3>4. seen'.cr = seen.cr /\ LikeTold(seen'.status, seen.status)
        BY <3>2, <3>3
      <3> QED BY <3>4 DEF SameSpec
    <2> QED BY <1>5, <2>1 DEF BeginInstall, BeginUpgrade, TakeRequest, LocalStep, Decide
  <1>6. CASE Reconcile
    <2>1. CASE Read
      BY <2>1 DEF LocalStep
    <2>2. CASE StartMigration \/ Install \/ LockOverdue \/ (BeginUpgrade /\ ~Released) \/ Revert
               \/ RevertFails \/ NothingToRollBack \/ PatchVersionFails \/ FinishRollback
               \/ Observe \/ Adopt \/ DropFinalizer
      BY <1>1, <2>2 DEF StartMigration, Install, LockOverdue, BeginUpgrade, Revert, RevertFails,
         NothingToRollBack, PatchVersionFails, FinishRollback, Observe, Adopt, DropFinalizer
    <2>3. CASE CheckProgress \/ RollBackOverdue \/ Upgrade \/ PatchVersion \/ RollBack \/ Uninstall
      BY <1>1, <1>3, <2>3 DEF CheckProgress, Complete, GiveUp, RollBackOverdue, Upgrade,
         PatchVersion, RollBack, Uninstall, Rollback, Go, Decide
    <2> QED BY <1>4, <1>5, <1>6, <2>1, <2>2, <2>3 DEF Reconcile
  <1>7. CASE Interference
    BY <1>2, <1>7 DEF Interference, SetsVersion, SetsValues, SetsReadonly, Deletes, AsksRollback,
       OthersUninstall, OthersRepair
  <1>8. CASE DryRunFails \/ Stop \/ Deadline
    BY <1>1, <1>2, <1>8 DEF DryRunFails, Stop, Deadline
  <1> QED BY <1>6, <1>7, <1>8 DEF Next

LEMMA AddNamed ==
  ASSUME TypeOK, NEW v \in Versions \cup {None}, v # None, NEW n \in Nat,
         NEW st \in {"deployed", "failed", "pending"}, Add(Record(v, n, st))
  PROVE  HistoryStep
  <1>1. Record(v, n, st) \in Records /\ Record(v, n, st).version # None
    BY DEF Record, Records
  <1> QED BY <1>1 DEF HistoryStep

LEMMA AddSeenNamed ==
  ASSUME TypeOK, Named, pc # "idle", NEW st \in {"deployed", "failed", "pending"},
         Add(Record(seen.cr.version, seen.cr.values, st))
  PROVE  HistoryStep
  <1>1. seen.cr.version \in Versions \cup {None} /\ seen.cr.version # None /\ seen.cr.values \in Nat
    BY SeenOK DEF CRs, Named
  <1> QED BY <1>1, AddNamed

\* What a step does to the release.
LEMMA HistoryEffect == ASSUME TypeOK, Named, Next PROVE HistoryStep
  <1>1. CASE UNCHANGED history
    BY <1>1 DEF HistoryStep
  <1>2. CASE Install \/ Upgrade
    <2>1. UNCHANGED history
          \/ \E st \in {"deployed", "failed", "pending"} :
               Add(Record(seen.cr.version, seen.cr.values, st))
      BY <1>2, Zenon DEF Install, Upgrade
    <2>2. pc # "idle"
      BY <1>2 DEF Install, Upgrade
    <2> QED BY <1>1, <2>1, <2>2, AddSeenNamed
  <1>3. CASE RollBack
    <2>1. CASE Revision > 1
      <3>1. Previous.version \in Versions \cup {None} /\ Previous.version # None
            /\ Previous.values \in Nat
        BY <2>1, PreviousNamed DEF Records
      <3>2. PICK st \in {"deployed", "failed", "pending"} :
              Add(Record(Previous.version, Previous.values, st))
        <4>1. ~(Revision <= 1)
          BY <2>1, RevisionOK, TypeParts
        <4> QED BY <1>3, <4>1, Zenon DEF RollBack
      <3> QED BY <3>1, <3>2, AddNamed
    <2>2. CASE ~(Revision > 1)
      BY <1>1, <1>3, <2>2 DEF RollBack
    <2> QED BY <2>1, <2>2
  <1>4. CASE Uninstall \/ OthersUninstall
    BY <1>4 DEF Uninstall, OthersUninstall, HistoryStep
  <1>5. ASSUME NEW v \in Versions, OthersRepair(v) PROVE HistoryStep
    <2>1. v # None /\ Top.values \in Nat
      BY <1>5, LifecycleAssumption, TopNamed DEF OthersRepair, Records
    <2> QED BY <1>5, <2>1, AddNamed DEF OthersRepair
  <1>6. CASE Reconcile
    <2>1. UNCHANGED history \/ Install \/ Upgrade \/ RollBack \/ Uninstall
      BY <1>6 DEF Reconcile, Read, AddFinalizer, StartMigration, BeginInstall, CheckProgress,
         LockOverdue, RollBackOverdue, BeginUpgrade, Revert, RevertFails, TakeRequest,
         NothingToRollBack, PatchVersion, PatchVersionFails, FinishRollback, Observe, Adopt,
         DropFinalizer
    <2> QED BY <1>1, <1>2, <1>3, <1>4, <2>1
  <1>7. CASE Interference
    <2>1. CASE SetsValues \/ Deletes \/ AsksRollback
               \/ (\E v \in Versions : SetsVersion(v)) \/ (\E r \in BOOLEAN : SetsReadonly(r))
      BY <1>1, <2>1 DEF SetsVersion, SetsValues, SetsReadonly, Deletes, AsksRollback
    <2> QED BY <1>4, <1>5, <1>7, <2>1 DEF Interference
  <1>8. CASE DryRunFails \/ Stop \/ Deadline
    BY <1>1, <1>8 DEF DryRunFails, Stop, Deadline
  <1> QED BY <1>6, <1>7, <1>8 DEF Next

\* What a step does to the status.
LEMMA StatusEffect == ASSUME CopyInv, Next PROVE StatusStep
  <1> USE DEF CopyInv
  <1> SUFFICES ASSUME cr'.exists
               PROVE  Like(status', status) \/ Begun \/ GivenUp \/ Completed \/ Adopted
    BY DEF StatusStep
  <1>0. cr.exists
    BY CrEffect DEF CrStep
  <1>1. seen.status \in Statuses /\ (pc # "idle" => LikeTold(seen.status, status))
    BY <1>0, SeenOK DEF Dated
  <1>2. (Looking \/ Asked) /\ pc # "idle" => Like(seen.status, status)
    BY <1>0, <1>1 DEF Tracked, Like
  <1>3. CASE UNCHANGED status
    BY <1>3 DEF Like, LikeTold
  <1>4. CASE StartMigration
    <2>1. pc # "idle" /\ status' = [seen.status EXCEPT !.prog = "migrating"]
      BY <1>0, <1>4, WriteIs DEF StartMigration, Decide
    <2>2. Begun
      BY <1>1, <1>4, <2>1, ProgLike, ActiveProgs DEF Begun, LikeTold
    <2> QED BY <2>2
  <1>5. CASE BeginInstall \/ BeginUpgrade
    <2>1. CASE UNCHANGED status
      BY <1>3, <2>1
    <2>2. ASSUME NEW p \in {"installing", "upgrading"}, seen' = [seen EXCEPT !.status.prog = p],
                 Write(seen'.status)
          PROVE  Begun
      <3>1. pc # "idle"
        BY <1>5 DEF BeginInstall, BeginUpgrade, Decide
      <3>2. status' = seen'.status
        BY <1>0, <2>2, WriteIs
      <3> QED BY <1>1, <1>5, <2>2, <3>1, <3>2, ProgLike, ActiveProgs DEF Begun, LikeTold
    <2>3. UNCHANGED status
          \/ \E p \in {"installing", "upgrading"} :
               seen' = [seen EXCEPT !.status.prog = p] /\ Write(seen'.status)
      BY <1>5 DEF BeginInstall, BeginUpgrade
    <2> QED BY <2>1, <2>2, <2>3
  <1>6. CASE TakeRequest
    <2>1. pc = "decide" /\ status' = [seen EXCEPT !.status.rollback = FALSE].status
      BY <1>0, <1>6, WriteIs DEF TakeRequest, Decide
    <2> QED BY <1>2, <2>1, ProgLike DEF Like, LikeTold, Looking
  <1>7. CASE DryRunFails
    <2>1. pc = "decide" /\ pc' = "idle" /\ status' = [seen.status EXCEPT !.avail = FALSE]
      BY <1>0, <1>7, WriteIs DEF DryRunFails, Decide, Return
    <2>2. GivenUp
      BY <1>1, <1>2, <2>1 DEF GivenUp, Looking, Like, LikeTold, Statuses
    <2> QED BY <2>2
  <1>8. CASE CheckProgress
    <2>0. pc = "decide"
      BY <1>8 DEF CheckProgress, Decide
    <2>1. CASE Released /\ Complete
      <3> DEFINE s == [seen.status EXCEPT !.prog = "done", !.avail = TRUE,
                                          !.current = Top.version, !.observed = seen.cr.gen]
      <3>0. CASE WritesFail("write")
        BY <1>0, <1>2, <1>3, <2>0, <3>0, WritesFailLike DEF Looking, Like, LikeTold
      <3> SUFFICES ASSUME ~WritesFail("write") PROVE Completed
        BY <3>0
      <3>1. PICK ok \in BOOLEAN : Write(Reported(s, ok))
        BY <2>1 DEF Complete
      <3>2. s \in Statuses
        BY <2>1, CurrentOK
      <3>3. /\ s.prog = "done" /\ s.avail = TRUE
            /\ s.current = Top.version /\ s.observed = seen.cr.gen
        BY <1>1 DEF Statuses
      <3>4. status' = Reported(s, ok)
        BY <1>0, <3>1, WriteIs
      <3> HIDE DEF s
      <3>5. /\ status'.prog = "done" /\ status'.avail
            /\ status'.current = Top.version /\ status'.observed = seen.cr.gen
        BY <3>2, <3>3, <3>4, ReportedLike DEF Like, LikeTold
      <3> QED BY <1>8, <2>0, <2>1, <3>5 DEF Completed, CheckProgress, Complete, Return
    <2>2. CASE Released /\ GiveUp
      <3>1. CASE Write([seen.status EXCEPT !.prog = "done", !.avail = FALSE]) /\ Return
        <4>1. /\ pc' = "idle"
              /\ status' = [seen.status EXCEPT !.prog = "done", !.avail = FALSE]
          BY <1>0, <3>1, WriteIs DEF Return
        <4>2. GivenUp
          BY <1>1, <1>8, <2>0, <4>1 DEF GivenUp, LikeTold, Statuses
        <4> QED BY <4>2
      <3> QED BY <1>3, <2>2, <3>1 DEF GiveUp
    <2> QED BY <1>3, <1>8, <2>1, <2>2 DEF CheckProgress
  <1>9. CASE NothingToRollBack
    <2> DEFINE t(ok) == [Reported(seen.status, ok) EXCEPT !.prog = "done", !.avail = FALSE]
    <2>2. pc = "patch version" /\ pc' = "idle"
      BY <1>9 DEF NothingToRollBack, Return
    <2>7. CASE Like(status', seen.status)
      <3>0. LikeTold(status', status)
        BY <1>1, <2>2, <2>7 DEF Like, LikeTold
      <3>1. CASE Asked \/ (Mending /\ why = "overdue")
        BY <1>0, <2>7, <3>0, <3>1 DEF Like, Tracked
      <3>2. CASE Mending /\ why # "overdue"
        <4>1. Active(status')
          BY <1>0, <2>7, <3>2 DEF Like, Tracked, Active
        <4> QED BY <1>9, <3>0, <3>2, <4>1 DEF Begun
      <3> QED BY <2>2, <3>1, <3>2 DEF Asked, Mending, Section
    <2> SUFFICES ASSUME ~WritesFail("write")
                 PROVE  Like(status', status) \/ Begun \/ GivenUp \/ Completed \/ Adopted
      BY <1>0, <1>3, <2>7, WritesFailLike
    <2>1. PICK ok \in BOOLEAN :
            IF why = "overdue" THEN Write(t(ok))
            ELSE Write(IF ok THEN Reported(seen.status, ok) ELSE status)
      BY <1>9 DEF NothingToRollBack
    <2>3. Reported(seen.status, ok) \in Statuses
      BY <1>1, ReportedOK, TypeParts
    <2>4. Like(Reported(seen.status, ok), seen.status)
      BY <1>1, ReportedLike
    <2>5. CASE why = "overdue"
      <3>1. status' = t(ok)
        BY <1>0, <2>1, <2>5, WriteIs
      <3>2. GivenUp
        BY <1>1, <1>9, <2>2, <2>3, <2>4, <2>5, <3>1 DEF GivenUp, Like, LikeTold, Statuses
      <3> QED BY <3>2
    <2>6. CASE why # "overdue"
      <3>1. status' \in {status, Reported(seen.status, ok)}
        BY <1>0, <2>1, <2>6, WriteIs
      <3> QED BY <1>3, <2>4, <2>7, <3>1
    <2> QED BY <2>5, <2>6
  <1>10. CASE FinishRollback
    <2>1. \/ \E f : WritesFail(f)
          \/ \E ok \in BOOLEAN :
               Write(IF ok \/ why = "overdue" THEN Reported(seen.status, ok) ELSE status)
      BY <1>10 DEF FinishRollback
    <2>2. pc = "rolled back"
      BY <1>10 DEF FinishRollback
    <2>3. UNCHANGED status \/ \E f : WritesFail(f)
          \/ \E ok \in BOOLEAN : status' = Reported(seen.status, ok)
      BY <1>0, <2>1, WriteIs
    <2>4. UNCHANGED status \/ Like(status', seen.status)
      BY <1>0, <1>1, <2>3, ReportedLike, WritesFailLike
    <2> QED BY <1>0, <1>1, <1>2, <1>3, <1>10, <2>2, <2>4
            DEF Like, LikeTold, Tracked, Asked, Mending, Section, Begun, Active
  <1>11. CASE Observe
    <2> DEFINE stamped(s) == [s EXCEPT !.observed = IF @ = 0 THEN seen.cr.gen ELSE @]
    <2>0. pc = "decide"
      BY <1>11 DEF Observe, Quiet, Decide
    <2>1. CASE seen.status.avail
      <3>1. seen.status.observed # 0
        BY <1>0, <1>1, <2>0, <2>1 DEF LikeTold, Counted, Countable
      <3>2. \A s \in Statuses : s.observed # 0 => Like(stamped(s), s)
        BY DEF Statuses, Like, LikeTold
      <3>3. UNCHANGED status \/ WritesFail("write")
            \/ \E s \in {Reported(seen.status, TRUE), Reported(seen.status, FALSE), seen.status} :
                 Write(stamped(s)) \/ Write(status)
        BY <1>11 DEF Observe
      <3>4. \A s \in {Reported(seen.status, TRUE), Reported(seen.status, FALSE), seen.status} :
              s \in Statuses /\ Like(s, seen.status)
        BY <1>1, ReportedOK, ReportedLike, TypeParts DEF Like, LikeTold
      <3> HIDE DEF stamped
      <3>5. \A s \in {Reported(seen.status, TRUE), Reported(seen.status, FALSE), seen.status} :
              Like(stamped(s), seen.status)
        BY <3>1, <3>2, <3>4 DEF Like, LikeTold
      <3>6. UNCHANGED status \/ Like(status', seen.status)
        <4>1. CASE UNCHANGED status
          BY <4>1
        <4>2. ASSUME NEW s \in {Reported(seen.status, TRUE), Reported(seen.status, FALSE),
                                seen.status},
                     Write(stamped(s)) \/ Write(status)
              PROVE  UNCHANGED status \/ Like(status', seen.status)
          <5>1. status' = stamped(s) \/ status' = status
            BY <1>0, <4>2, WriteIs
          <5> QED BY <3>5, <5>1
        <4> QED BY <1>0, <3>3, <4>1, <4>2, WritesFailLike
      <3>7. Like(seen.status, status)
        BY <1>2, <2>0 DEF Looking
      <3>8. UNCHANGED status \/ Like(status', status)
        BY <3>6, <3>7 DEF Like, LikeTold
      <3> QED BY <1>3, <3>8
    <2>2. CASE ~seen.status.avail
      BY <1>3, <1>11, <2>2 DEF Observe
    <2> QED BY <2>1, <2>2
  <1>12. CASE Adopt
    <2>1. CASE UNCHANGED status
      BY <1>3, <2>1
    <2>2. CASE Released
               /\ status' = [seen.status EXCEPT !.current = Top.version, !.observed = seen.cr.gen]
      <3>1. /\ status'.prog = seen.status.prog /\ status'.avail = seen.status.avail
            /\ status'.current = Top.version /\ status'.observed = seen.cr.gen
        BY <1>1, <2>2 DEF Statuses
      <3>2. Adopted
        BY <1>12, <2>2, <3>1 DEF Adopted, Adopt, Return
      <3> QED BY <3>2
    <2> QED BY <1>0, <1>12, <2>1, <2>2, WriteIs DEF Adopt
  <1>13. CASE DropFinalizer
    <2>1. UNCHANGED status \/ cr' = BlankCR
      BY <1>13 DEF DropFinalizer
    <2> QED BY <1>3, <2>1 DEF BlankCR
  <1>14. CASE Deletes
    <2>1. UNCHANGED status \/ cr' = BlankCR
      BY <1>14 DEF Deletes
    <2> QED BY <1>3, <2>1 DEF BlankCR
  <1>15. CASE AsksRollback
    <2>1. status' = [status EXCEPT !.rollback = TRUE]
      BY <1>15 DEF AsksRollback
    <2> QED BY <2>1, NumbersOK DEF Statuses, Like, LikeTold
  <1>16. CASE Reconcile
    <2>1. \/ UNCHANGED status
          \/ StartMigration \/ BeginInstall \/ BeginUpgrade \/ TakeRequest \/ CheckProgress
          \/ NothingToRollBack \/ FinishRollback \/ Observe \/ Adopt \/ DropFinalizer
      BY <1>16 DEF Reconcile, Read, AddFinalizer, Install, LockOverdue, RollBackOverdue, Upgrade,
         Revert, RevertFails, PatchVersion, PatchVersionFails, RollBack, Uninstall
    <2> QED BY <2>1, <1>3, <1>4, <1>5, <1>6, <1>8, <1>9, <1>10, <1>11, <1>12, <1>13
  <1>17. CASE Interference
    <2>1. UNCHANGED status \/ Deletes \/ AsksRollback
      BY <1>17 DEF Interference, SetsVersion, SetsValues, SetsReadonly, OthersUninstall,
         OthersRepair
    <2> QED BY <2>1, <1>3, <1>14, <1>15
  <1>18. CASE Stop \/ Deadline
    BY <1>3, <1>18 DEF Stop, Deadline
  <1> QED BY <1>7, <1>16, <1>17, <1>18 DEF Next

\* What a revision that is added leaves of the others.
LEMMA AddAt ==
  ASSUME TypeOK, NEW r \in Records, Add(r)
  PROVE  /\ Revision \in Nat /\ Revision' = Revision + 1 /\ Released'
         /\ history'[Revision + 1] = r /\ Top' = r
         /\ Revision > 0 => Previous' = Top
         /\ \A i \in 1..Revision + 1 :
              i = Revision + 1 \/ (i \in 1..Revision /\ history'[i] = history[i])
  <1>1. history \in Seq(Records) /\ history' = Append(history, r)
    BY TypeParts DEF HelmOK, Add
  <1>2. /\ Revision \in Nat /\ Revision' = Revision + 1
        /\ history'[Revision + 1] = r
        /\ \A i \in 1..Revision : history'[i] = history[i]
    BY <1>1 DEF Revision
  <1>3. \A i \in 1..Revision + 1 : i = Revision + 1 \/ i \in 1..Revision
    BY <1>2
  <1>4. history' # <<>>
    BY <1>1
  <1>5. Revision > 0 => Revision \in 1..Revision
    BY <1>2
  <1>6. Revision' - 1 = Revision
    BY <1>2
  <1>7. Top' = history'[Revision'] /\ Previous' = history'[Revision' - 1]
    BY DEF Top, Previous
  <1> QED BY <1>2, <1>3, <1>4, <1>5, <1>6, <1>7 DEF Top, Released

LEMMA NamedStep == ASSUME CopyInv, Next PROVE Named'
  <1> USE DEF CopyInv
  <1>1. cr'.exists => cr'.version # None
    BY CrEffect DEF CrStep
  <1>2. pc' # "idle" => seen'.cr.version # None
    <2>1. CASE Read
      BY <2>1 DEF Read, Named
    <2>2. CASE ~Read
      BY <2>2, LocalEffect DEF LocalStep, SameSpec, Named
    <2> QED BY <2>1, <2>2
  <1>3. \A i \in 1..Revision' : history'[i].version # None
    <2>0. history \in Seq(Records)
      BY TypeParts DEF HelmOK
    <2>1. CASE UNCHANGED history
      BY <2>1 DEF Named, Revision
    <2>2. CASE history' = <<>>
      BY <2>2 DEF Revision
    <2>3. ASSUME NEW r \in Records, r.version # None, Add(r)
          PROVE  \A i \in 1..Revision' : history'[i].version # None
      <3>1. /\ Revision' = Revision + 1 /\ history'[Revision + 1] = r
            /\ \A i \in 1..Revision + 1 :
                 i = Revision + 1 \/ (i \in 1..Revision /\ history'[i] = history[i])
        BY <2>3, AddAt
      <3> QED BY <2>3, <3>1 DEF Named
    <2> QED BY <2>1, <2>2, <2>3, HistoryEffect DEF HistoryStep
  <1> QED BY <1>1, <1>2, <1>3 DEF Named

\* A generation never goes back.
LEMMA GenGrows ==
  ASSUME CopyInv, Next, cr'.exists
  PROVE  /\ cr.exists /\ cr'.gen \in Nat /\ cr.gen \in Nat /\ cr'.gen >= cr.gen
         /\ SameSpec(cr', cr) \/ cr'.gen = cr.gen + 1
  BY CrEffect, NumbersOK DEF CopyInv, CrStep, SameSpec

LEMMA CountedStep == ASSUME CopyInv, Next PROVE Counted'
  <1> USE DEF CopyInv
  <1> SUFFICES ASSUME cr'.exists PROVE Countable(cr', status')
    BY DEF Counted
  <1>1. /\ cr.exists /\ cr'.gen \in Nat /\ cr'.gen >= cr.gen
        /\ Countable(cr, status) /\ cr.gen \in Nat /\ status.observed \in Nat
        /\ seen.cr.gen \in Nat
    BY GenGrows, NumbersOK DEF Counted
  <1>2. CASE LikeTold(status', status)
    BY <1>1, <1>2 DEF LikeTold, Countable
  <1>3. CASE GivenUp
    BY <1>1, <1>3 DEF GivenUp, Countable
  <1>4. CASE Completed \/ Adopted
    <2>1. /\ status'.observed = seen.cr.gen /\ status'.current = Top.version /\ Released
          /\ pc # "idle"
      BY <1>4 DEF Completed, Adopted
    <2>2. seen.cr.gen > 0 /\ seen.cr.gen <= cr.gen
      BY <1>1, <2>1 DEF Dated
    <2>3. Top.version # None
      BY <2>1, TopNamed
    <2> QED BY <1>1, <2>1, <2>2, <2>3 DEF Countable
  <1> QED BY <1>2, <1>3, <1>4, StatusEffect DEF StatusStep, Like, Begun

LEMMA DatedStep == ASSUME CopyInv, Next PROVE Dated'
  <1> USE DEF CopyInv
  <1> SUFFICES ASSUME pc' # "idle", cr'.exists
               PROVE  /\ seen'.cr.gen > 0 /\ seen'.cr.gen <= cr'.gen
                      /\ status'.observed <= seen'.cr.gen
                      /\ seen'.cr.gen = cr'.gen => SameSpec(seen'.cr, cr')
                      /\ LikeTold(seen'.status, status')
    BY DEF Dated
  <1>1. /\ cr.exists /\ cr'.gen \in Nat /\ cr'.gen >= cr.gen
        /\ SameSpec(cr', cr) \/ cr'.gen = cr.gen + 1
        /\ cr.gen \in Nat /\ status.observed \in Nat /\ seen.cr.gen \in Nat
    BY GenGrows, NumbersOK
  <1>2. CASE Read
    <2>1. seen'.cr = cr /\ seen'.status = status /\ UNCHANGED <<cr, status>>
      BY <1>2 DEF Read
    <2> QED BY <1>1, <2>1 DEF Counted, Countable, SameSpec, LikeTold
  <1>3. CASE ~Read
    <2>1. /\ pc # "idle" /\ SameSpec(seen'.cr, seen.cr) /\ LikeTold(seen'.status, seen.status)
      BY <1>3, LocalEffect DEF LocalStep
    <2>2. LikeTold(status', status)
      BY StatusEffect DEF StatusStep, Like, Begun, GivenUp, Completed, Adopted
    <2>3. /\ seen.cr.gen > 0 /\ seen.cr.gen <= cr.gen /\ status.observed <= seen.cr.gen
          /\ seen.cr.gen = cr.gen => SameSpec(seen.cr, cr)
          /\ LikeTold(seen.status, status)
      BY <1>1, <2>1 DEF Dated
    <2>4. seen'.cr.gen = cr'.gen => SameSpec(seen'.cr, cr')
      <3>1. ASSUME seen'.cr.gen = cr'.gen PROVE SameSpec(cr', cr) /\ seen.cr.gen = cr.gen
        BY <1>1, <2>1, <2>3, <3>1 DEF SameSpec
      <3> QED BY <2>1, <2>3, <3>1 DEF SameSpec
    <2> QED BY <1>1, <2>1, <2>2, <2>3, <2>4 DEF LikeTold, SameSpec
  <1> QED BY <1>2, <1>3

LEMMA DeletingStep == ASSUME CopyInv, Next PROVE Deleting'
  <1> USE DEF CopyInv
  <1> SUFFICES ASSUME pc' \in {"delete", "drop finalizer"} PROVE cr'.deleting
    BY DEF Deleting
  <1>1. CASE Reconcile
    <2>1. CASE Read
      BY <2>1 DEF Read
    <2>2. CASE Uninstall
      BY <2>2 DEF Uninstall, Deleting
    <2>3. CASE ~(Read \/ Uninstall)
      BY <1>1, <2>3 DEF Reconcile, AddFinalizer, StartMigration, BeginInstall, Install,
         CheckProgress, Complete, GiveUp, LockOverdue, RollBackOverdue, BeginUpgrade, Upgrade,
         Revert, RevertFails, TakeRequest, NothingToRollBack, PatchVersion, PatchVersionFails,
         RollBack, FinishRollback, Observe, Adopt, DropFinalizer, Return, Rollback, Go
    <2> QED BY <2>1, <2>2, <2>3
  <1>2. CASE DryRunFails \/ Stop
    BY <1>2 DEF DryRunFails, Stop, Return
  <1>3. CASE Interference \/ Deadline
    <2>1. UNCHANGED pc
      BY <1>3 DEF Interference, SetsVersion, SetsValues, SetsReadonly, Deletes, AsksRollback,
         OthersUninstall, OthersRepair, Deadline
    <2>2. cr.deleting
      BY <2>1 DEF Deleting
    <2>3. UNCHANGED cr
      BY <1>3, <2>2 DEF Interference, SetsVersion, SetsValues, SetsReadonly, Deletes,
         AsksRollback, OthersUninstall, OthersRepair, Deadline
    <2> QED BY <2>2, <2>3
  <1> QED BY <1>1, <1>2, <1>3 DEF Next

\* A step that ends the reconcile leaves no copy to track.
LEMMA ReturnTracks == Return => Tracked'
  BY DEF Return, Tracked, Looking, Asked, Mending, Section

LEMMA TrackedStep == ASSUME CopyInv, Next PROVE Tracked'
  <1> USE DEF CopyInv
  <1> SUFFICES ASSUME cr'.exists PROVE Tracked'
    BY DEF Tracked
  <1>0. cr.exists
    BY CrEffect DEF CrStep
  <1>1. CASE Return
    BY <1>1, ReturnTracks
  <1>2. ASSUME UNCHANGED <<pc, why, seen>>, status'.prog = status.prog PROVE Tracked'
    BY <1>0, <1>2 DEF Tracked, Looking, Asked, Mending
  <1>3. ASSUME pc \in Section \cup {"delete"}, Go(pc'), pc' \in Section \cup {"drop finalizer"},
               pc \in Section <=> pc' \in Section, UNCHANGED status
        PROVE  Tracked'
    BY <1>0, <1>3 DEF Go, Tracked, Looking, Asked, Mending, Section
  <1>4. ASSUME NEW c, c # "asked", c # "overdue", Rollback(c), Active(seen.status)
        PROVE  Tracked'
    BY <1>4 DEF Rollback, Tracked, Looking, Asked, Mending, Section
  <1>5. CASE Read
    BY <1>5 DEF Read, Tracked, Looking, Asked, Mending, Section
  <1>6. CASE AddFinalizer
    <2>1. CASE seen' = [seen EXCEPT !.cr.finalizer = TRUE] /\ UNCHANGED <<pc, why, status>>
      <3>1. seen'.status = seen.status /\ pc = "decide"
        BY <1>6, <2>1, TypeParts DEF LocalOK, Copies, AddFinalizer
      <3> QED BY <1>0, <2>1, <3>1 DEF Tracked, Looking, Asked, Mending, Section
    <2> QED BY <1>1, <1>6, <2>1 DEF AddFinalizer
  <1>7. CASE BeginInstall
    BY <1>7 DEF BeginInstall, Tracked, Looking, Asked, Mending, Section
  <1>8. CASE BeginUpgrade
    <2>1. CASE Released
      <3>1. seen'.status.prog = "upgrading" /\ pc' = "upgrade"
        BY <1>8, <2>1, ProgLike DEF BeginUpgrade
      <3>2. Active(seen'.status)
        BY <3>1, ActiveProgs
      <3> QED BY <3>1, <3>2 DEF Tracked, Looking, Asked, Mending, Section
    <2> QED BY <1>1, <1>8, <2>1 DEF BeginUpgrade
  <1>9. CASE CheckProgress
    <2>1. Return \/ Rollback("failed")
      BY <1>9 DEF CheckProgress, Complete, GiveUp
    <2> QED BY <1>1, <1>4, <1>9, <2>1 DEF CheckProgress
  <1>10. CASE RollBackOverdue
    <2>1. Rollback("overdue") /\ Active(seen.status) /\ pc = "decide" /\ UNCHANGED status
      BY <1>10 DEF RollBackOverdue, Active, Decide
    <2> QED BY <1>0, <2>1 DEF Rollback, Tracked, Looking, Asked, Mending, Section
  <1>11. CASE Upgrade
    <2>1. Active(seen.status)
      BY <1>0, <1>11 DEF Upgrade, Tracked
    <2>2. CASE Go("revert")
      BY <2>2 DEF Go, Tracked, Looking, Asked, Mending, Section
    <2>3. Return \/ Rollback("upgrade") \/ Go("revert")
      BY <1>11 DEF Upgrade
    <2> QED BY <1>1, <1>4, <2>1, <2>2, <2>3
  <1>12. CASE TakeRequest
    <2> DEFINE t == [seen EXCEPT !.status.rollback = FALSE]
    <2>1. seen' = t /\ Write(t.status) /\ pc' = "patch version" /\ why' = "asked"
      BY <1>12 DEF TakeRequest
    <2> HIDE DEF t
    <2>2. seen'.status.prog = status'.prog
      BY <1>0, <2>1, WriteIs
    <2> QED BY <2>1, <2>2 DEF Tracked, Looking, Asked, Mending, Section
  <1>13. CASE PatchVersion
    <2>1. pc = "patch version" /\ pc' = "roll back" /\ Go(pc') /\ UNCHANGED status
      BY <1>13 DEF PatchVersion, Go
    <2> QED BY <1>3, <2>1 DEF Section
  <1>14. CASE RollBack
    <2>1. CASE Go("rolled back")
      <3>1. pc = "roll back" /\ pc' = "rolled back" /\ Go(pc') /\ UNCHANGED status
        BY <1>14, <2>1 DEF RollBack, Go
      <3> QED BY <1>3, <3>1 DEF Section
    <2> QED BY <1>1, <1>14, <2>1 DEF RollBack
  <1>15. CASE Uninstall
    <2>1. pc = "delete" /\ pc' = "drop finalizer" /\ Go(pc') /\ UNCHANGED status
      BY <1>15 DEF Uninstall, Go
    <2> QED BY <1>3, <2>1 DEF Section
  <1>16. CASE Reconcile
    <2>1. Return \/ Read \/ AddFinalizer \/ BeginInstall \/ BeginUpgrade \/ CheckProgress
          \/ RollBackOverdue \/ Upgrade \/ TakeRequest \/ PatchVersion \/ RollBack \/ Uninstall
      BY <1>16 DEF Reconcile, StartMigration, Install, LockOverdue, Revert, RevertFails,
         NothingToRollBack, PatchVersionFails, FinishRollback, Observe, Adopt, DropFinalizer
    <2> QED BY <2>1, <1>1, <1>5, <1>6, <1>7, <1>8, <1>9, <1>10, <1>11, <1>12, <1>13, <1>14, <1>15
  <1>17. CASE Interference \/ Deadline
    <2>1. UNCHANGED <<pc, why, seen>>
      BY <1>17 DEF Interference, SetsVersion, SetsValues, SetsReadonly, Deletes, AsksRollback,
         OthersUninstall, OthersRepair, Deadline
    <2>2. status'.prog = status.prog
      <3>1. CASE AsksRollback
        BY <3>1, NumbersOK DEF AsksRollback, Statuses
      <3>2. CASE Deletes
        BY <3>2 DEF Deletes, BlankCR
      <3>3. CASE ~(AsksRollback \/ Deletes)
        BY <1>17, <3>3 DEF Interference, SetsVersion, SetsValues, SetsReadonly,
           OthersUninstall, OthersRepair, Deadline
      <3> QED BY <3>1, <3>2, <3>3
    <2> QED BY <1>2, <2>1, <2>2
  <1>18. CASE DryRunFails \/ Stop
    BY <1>1, <1>18 DEF DryRunFails, Stop
  <1> QED BY <1>16, <1>17, <1>18 DEF Next

LEMMA CopyInit == Init => CopyInv
  <1> SUFFICES ASSUME Init PROVE CopyInv
    OBVIOUS
  <1>0. pc = "idle"
    BY DEF Init
  <1>1. PICK v \in Versions :
          /\ cr = [exists |-> TRUE, deleting |-> FALSE, finalizer |-> FALSE, readonly |-> FALSE,
                   version |-> v, values |-> 1, gen |-> 1]
          /\ history = <<>>
             \/ \E st \in {"deployed", "failed", "pending"} : history = <<Record(v, 1, st)>>
    BY DEF Init
  <1>2. v # None
    BY LifecycleAssumption
  <1>3. Named
    <2>1. cr.version # None
      BY <1>1, <1>2
    <2>2. ASSUME NEW i \in 1..Revision PROVE history[i].version # None
      <3>1. CASE history = <<>>
        BY <3>1 DEF Revision
      <3>2. ASSUME NEW st, history = <<Record(v, 1, st)>> PROVE history[i].version # None
        <4>1. Revision = 1 /\ history[1].version = v
          BY <3>2 DEF Revision, Record
        <4>2. i = 1
          BY <4>1
        <4> QED BY <1>2, <4>1, <4>2
      <3> QED BY <1>1, <3>1, <3>2
    <2> QED BY <1>0, <2>1, <2>2 DEF Named
  <1>4. Counted
    <2>1. status.observed = 0 /\ ~status.avail
      BY DEF Init, BlankStatus
    <2> QED BY <1>1, <2>1 DEF Counted, Countable
  <1>5. Deleting /\ Dated /\ Tracked
    BY <1>0 DEF Deleting, Dated, Tracked, Looking, Asked, Mending, Section
  <1> QED BY <1>3, <1>4, <1>5, TypeInit DEF CopyInv

LEMMA CopyStep == CopyInv /\ [Next]_vars => CopyInv'
  <1> SUFFICES ASSUME CopyInv, [Next]_vars PROVE CopyInv'
    OBVIOUS
  <1>1. TypeOK'
    BY TypeStep DEF CopyInv
  <1>2. CASE UNCHANGED vars
    BY <1>1, <1>2 DEF CopyInv, Deleting, Named, Revision, Counted, Dated, Tracked, Looking, Asked,
       Mending, vars
  <1>3. CASE Next
    BY <1>1, <1>3, NamedStep, CountedStep, DatedStep, DeletingStep, TrackedStep DEF CopyInv
  <1> QED BY <1>2, <1>3

------------------------------------------------------------------------------
(* A settled component runs.  What is claimed of a component that is neither    *)
(* locked nor deleted is true whenever the claim is made: a call that could     *)
(* make it false is made while the status claims nothing, and an edit of the CR *)
(* withdraws the claim, as its generation is no longer the observed one.        *)

Claims(c, s) == c.exists /\ ~c.deleting /\ ~c.readonly /\ s.avail /\ Resting(c, s)
Claimed      == Claims(cr, status)

TrueClaim == Claimed => Released /\ Top.status = "deployed" /\ Top.version = status.current
Dirty     == pc = "upgrade" \/ Mending => ~Claimed
AskedBack == pc = "roll back" /\ why = "asked" /\ Claimed
               => Revision > 1 /\ Previous.version = status.current
Unasked   == "ask rollback" \notin Edits =>
               ~status.rollback /\ ~seen.status.rollback /\ why # "asked"

SettledInv == CopyInv /\ Unasked /\ TrueClaim /\ Dirty /\ AskedBack

LEMMA ClaimsSay ==
  ASSUME NEW c, NEW s, Claims(c, s), Countable(c, s)
  PROVE  /\ s.current # None /\ c.version = s.current /\ c.gen = s.observed
         /\ s.observed # 0 /\ ~Active(s) /\ AtRest(s)
  <1>1. s.current # None /\ s.observed # 0 /\ Resting(c, s)
    BY DEF Claims, Countable
  <1>2. AtRest(s) /\ ~NeedsUpgrade(c, s) /\ ~Active(s)
    BY <1>1, Zenon DEF Resting, AtRest
  <1> QED BY <1>1, <1>2, Zenon DEF NeedsUpgrade, VersionChanged, GenerationChanged

LEMMA ClaimsLike ==
  ASSUME NEW c, NEW d, NEW s, NEW t, Claims(d, t), c.exists, ~c.deleting, SameSpec(d, c),
         Like(t, s)
  PROVE  Claims(c, s)
  <1>1. /\ d.version = c.version /\ d.gen = c.gen /\ d.readonly = c.readonly
        /\ t.prog = s.prog /\ t.current = s.current /\ t.observed = s.observed
        /\ t.avail = s.avail
    BY DEF SameSpec, Like, LikeTold
  <1>2. AtRest(s) <=> AtRest(t)
    BY <1>1, Zenon DEF AtRest, Fresh, Active
  <1>3. NeedsInstall(s) <=> NeedsInstall(t)
    BY <1>1, <1>2, Zenon DEF NeedsInstall, Fresh
  <1>4. NeedsUpgrade(c, s) <=> NeedsUpgrade(d, t)
    BY <1>1, <1>2, Zenon DEF NeedsUpgrade, VersionChanged, GenerationChanged
  <1> QED BY <1>1, <1>2, <1>3, <1>4, Zenon DEF Claims, Resting

LEMMA OriginKept == Next => UNCHANGED origin
  <1>1. Reconcile => UNCHANGED origin
    BY DEF Reconcile, Read, AddFinalizer, StartMigration, BeginInstall, Install, CheckProgress,
       LockOverdue, RollBackOverdue, BeginUpgrade, Upgrade, Revert, RevertFails, TakeRequest,
       NothingToRollBack, PatchVersion, PatchVersionFails, RollBack, FinishRollback, Observe,
       Adopt, Uninstall, DropFinalizer
  <1>2. Interference => UNCHANGED origin
    BY DEF Interference, SetsVersion, SetsValues, SetsReadonly, Deletes, AsksRollback,
       OthersUninstall, OthersRepair
  <1> QED BY <1>1, <1>2 DEF Next, DryRunFails, Stop, Deadline

LEMMA ClaimedNext == ASSUME Next PROVE Claimed' <=> Claims(cr', status')
  BY OriginKept, Zenon DEF Claimed, Claims, Resting, AtRest, Fresh, Active, NeedsInstall,
     NeedsUpgrade, VersionChanged, GenerationChanged

\* A claim is of the version and the generation that were observed.
LEMMA ClaimedSays ==
  ASSUME CopyInv', Next, Claimed'
  PROVE  /\ cr'.exists /\ ~cr'.deleting /\ ~cr'.readonly /\ status'.avail
         /\ cr'.version = status'.current /\ cr'.gen = status'.observed /\ ~Active(status')
  <1>1. Claims(cr', status')
    BY ClaimedNext
  <1>2. cr'.exists /\ ~cr'.deleting /\ ~cr'.readonly /\ status'.avail
    BY <1>1 DEF Claims
  <1>3. Countable(cr', status')
    BY <1>2 DEF CopyInv, Counted
  <1> QED BY <1>1, <1>2, <1>3, ClaimsSay

\* Nothing but a reconcile that completes makes a claim.
LEMMA StillUnclaimed ==
  ASSUME CopyInv, CopyInv', Next, ~Claimed,
         cr'.exists => Like(status', status) \/ Begun
  PROVE  ~Claimed'
  <1> SUFFICES ASSUME Claimed' PROVE FALSE
    OBVIOUS
  <1>1. cr'.exists /\ ~cr'.deleting /\ Claims(cr', status')
    BY ClaimedSays, ClaimedNext
  <1>2. ~Active(status') /\ cr'.gen = status'.observed
    BY ClaimedSays
  <1>3. Like(status', status)
    BY <1>1, <1>2 DEF Begun
  <1>4. cr.exists /\ ~cr.deleting
    BY <1>1, CrEffect DEF CopyInv, CrStep
  <1>5. cr'.gen <= cr.gen
    BY <1>2, <1>3, <1>4 DEF Like, LikeTold, CopyInv, Counted, Countable
  <1>6. SameSpec(cr', cr)
    BY <1>1, <1>5, GenGrows
  <1> QED BY <1>1, <1>3, <1>4, <1>6, ClaimsLike DEF Claimed

LEMMA HistoryActions ==
  ASSUME Next, ~UNCHANGED history
  PROVE  \/ Install \/ Upgrade \/ RollBack \/ Uninstall \/ OthersUninstall
         \/ \E v \in Versions : OthersRepair(v)
  <1>1. CASE Reconcile
    BY <1>1 DEF Reconcile, Read, AddFinalizer, StartMigration, BeginInstall, CheckProgress,
       LockOverdue, RollBackOverdue, BeginUpgrade, Revert, RevertFails, TakeRequest,
       NothingToRollBack, PatchVersion, PatchVersionFails, FinishRollback, Observe, Adopt,
       DropFinalizer
  <1>2. CASE Interference
    BY <1>2 DEF Interference, SetsVersion, SetsValues, SetsReadonly, Deletes, AsksRollback
  <1>3. CASE DryRunFails \/ Stop \/ Deadline
    BY <1>3 DEF DryRunFails, Stop, Deadline
  <1> QED BY <1>1, <1>2, <1>3 DEF Next

\* An answer to a request does not fail half way.
RequestsSucceed == "ask rollback" \notin Edits \/ "rollback" \notin Faults

LEMMA TrueClaimStep ==
  ASSUME RequestsSucceed, SettledInv, CopyInv', Next
  PROVE  TrueClaim'
  <1> USE DEF SettledInv
  <1> SUFFICES ASSUME Claimed'
               PROVE  Released' /\ Top'.status = "deployed" /\ Top'.version = status'.current
    BY DEF TrueClaim
  <1>0. cr'.exists /\ ~cr'.readonly /\ ~cr'.deleting /\ status'.avail
    BY ClaimedSays
  <1>1. ~Active(status') /\ cr'.gen = status'.observed
    BY ClaimedSays
  <1>2. CASE Like(status', status)
    <2>1. Claimed
      BY <1>2, StillUnclaimed
    <2>2. Released /\ Top.status = "deployed" /\ Top.version = status.current
      BY <2>1 DEF TrueClaim
    <2>3. CASE UNCHANGED history
      BY <1>2, <2>2, <2>3 DEF Like, LikeTold, Released, Top, Revision
    <2>4. CASE Install
      BY <2>2, <2>3, <2>4 DEF Install
    <2>5. CASE Upgrade
      BY <2>1, <2>5 DEF Upgrade, Dirty
    <2>6. CASE RollBack
      <3>1. pc = "roll back" /\ why = "asked"
        BY <2>1, <2>6 DEF RollBack, Dirty, Mending, Section
      <3>2. Revision > 1 /\ Previous.version = status.current
        BY <2>1, <3>1 DEF AskedBack
      <3>3. "rollback" \notin Faults
        BY <3>1 DEF RequestsSucceed, Unasked
      <3>4. ~Fault("rollback")
        BY <3>3 DEF Fault
      <3>5. ~(Revision <= 1)
        BY <3>2, RevisionOK, TypeParts DEF CopyInv
      <3>6. Add(Record(Previous.version, Previous.values, "deployed")) /\ UNCHANGED status
        BY <2>6, <3>4, <3>5, Zenon DEF RollBack
      <3>7. Record(Previous.version, Previous.values, "deployed") \in Records
        BY <3>2, PreviousNamed DEF CopyInv, Record, Records
      <3>8. Released' /\ Top' = Record(Previous.version, Previous.values, "deployed")
        BY <3>6, <3>7, AddAt DEF CopyInv
      <3> QED BY <3>2, <3>6, <3>8 DEF Record
    <2>7. CASE Uninstall
      BY <1>0, <2>7 DEF Uninstall, CopyInv, Deleting
    <2>8. CASE OthersUninstall \/ \E v \in Versions : OthersRepair(v)
      BY <1>0, <2>8 DEF OthersUninstall, OthersRepair
    <2> QED BY <2>3, <2>4, <2>5, <2>6, <2>7, <2>8, HistoryActions
  <1>3. CASE Completed
    BY <1>3 DEF Completed, Released, Top, Revision
  <1>4. CASE Adopted
    <2>1. cr.exists /\ pc = "adopt" /\ cr' = cr /\ status'.observed = seen.cr.gen
      BY <1>0, <1>4 DEF Adopted
    <2>2. seen.cr.readonly /\ seen.cr.gen # cr.gen
      BY <1>0, <2>1 DEF CopyInv, Tracked, Dated, SameSpec
    <2> QED BY <1>1, <2>1, <2>2
  <1> QED BY <1>0, <1>1, <1>2, <1>3, <1>4, StatusEffect
          DEF StatusStep, Begun, GivenUp, CopyInv

\* Where a reconcile turns to repair, and to the call that rolls back.
LEMMA IntoRepair ==
  ASSUME Next, pc' = "upgrade" \/ Mending', ~(pc = "upgrade" \/ Mending)
  PROVE  BeginUpgrade \/ CheckProgress \/ RollBackOverdue
  <1>1. CASE Return
    BY <1>1 DEF Return, Mending, Section
  <1>2. CASE UNCHANGED <<pc, why>>
    BY <1>2 DEF Mending
  <1>3. CASE Reconcile
    <2>1. CASE Read \/ BeginInstall \/ TakeRequest \/ Uninstall
      BY <2>1 DEF Read, BeginInstall, TakeRequest, Uninstall, Go, Mending, Section
    <2>2. CASE AddFinalizer \/ StartMigration \/ Install \/ LockOverdue \/ Revert \/ RevertFails
               \/ NothingToRollBack \/ PatchVersionFails \/ FinishRollback \/ Observe \/ Adopt
               \/ DropFinalizer
      BY <1>1, <1>2, <2>2 DEF AddFinalizer, StartMigration, Install, LockOverdue, Revert,
         RevertFails, NothingToRollBack, PatchVersionFails, FinishRollback, Observe, Adopt,
         DropFinalizer
    <2>3. CASE Upgrade
      BY <2>3 DEF Upgrade
    <2>4. CASE PatchVersion \/ RollBack
      BY <1>1, <2>4 DEF PatchVersion, RollBack, Go, Mending, Section
    <2> QED BY <1>3, <2>1, <2>2, <2>3, <2>4 DEF Reconcile
  <1>4. CASE Interference \/ Deadline
    BY <1>2, <1>4 DEF Interference, SetsVersion, SetsValues, SetsReadonly, Deletes, AsksRollback,
       OthersUninstall, OthersRepair, Deadline
  <1>5. CASE DryRunFails \/ Stop
    BY <1>1, <1>5 DEF DryRunFails, Stop
  <1> QED BY <1>3, <1>4, <1>5 DEF Next

LEMMA IntoRollBack ==
  ASSUME Next, pc' = "roll back"
  PROVE  PatchVersion \/ (UNCHANGED <<pc, why>> /\ (Interference \/ Deadline))
  <1>1. CASE Reconcile
    BY <1>1 DEF Reconcile, Read, AddFinalizer, StartMigration, BeginInstall, Install,
       CheckProgress, Complete, GiveUp, LockOverdue, RollBackOverdue, BeginUpgrade, Upgrade,
       Revert, RevertFails, TakeRequest, NothingToRollBack, PatchVersionFails, RollBack,
       FinishRollback, Observe, Adopt, Uninstall, DropFinalizer, Return, Rollback, Go, Decide,
       Quiet
  <1>2. CASE Interference \/ Deadline
    BY <1>2 DEF Interference, SetsVersion, SetsValues, SetsReadonly, Deletes, AsksRollback,
       OthersUninstall, OthersRepair, Deadline
  <1>3. CASE DryRunFails \/ Stop
    BY <1>3 DEF DryRunFails, Stop, Return
  <1> QED BY <1>1, <1>2, <1>3 DEF Next

LEMMA DirtyStep ==
  ASSUME SettledInv, CopyInv', Next
  PROVE  Dirty'
  <1> USE DEF SettledInv
  <1> SUFFICES ASSUME pc' = "upgrade" \/ Mending' PROVE ~Claimed'
    BY DEF Dirty
  <1>0. pc' # "idle"
    BY DEF Mending, Section
  <1>1. cr'.exists => Like(status', status) \/ Begun
    BY <1>0, StatusEffect DEF StatusStep, GivenUp, Completed, Adopted
  <1>2. CASE pc = "upgrade" \/ Mending
    BY <1>1, <1>2, StillUnclaimed DEF Dirty
  <1>3. CASE ~(pc = "upgrade" \/ Mending)
    <2>1. CASE CheckProgress \/ RollBackOverdue
      <3>1. pc = "decide" /\ Active(seen.status) /\ UNCHANGED <<cr>>
        BY <2>1 DEF CheckProgress, RollBackOverdue, Decide, Active
      <3>2. cr.exists => Active(status)
        BY <3>1 DEF CopyInv, Tracked, Looking, Active
      <3>3. ~Claimed
        BY <3>2, ClaimsSay DEF CopyInv, Counted, Claimed, Claims
      <3> QED BY <1>1, <3>3, StillUnclaimed
    <2>2. CASE BeginUpgrade
      <3>1. pc = "decide" /\ NeedsUpgrade(seen.cr, seen.status)
        BY <2>2 DEF BeginUpgrade, Decide
      <3>2. ~Claimed
        <4> SUFFICES ASSUME Claimed PROVE FALSE
          OBVIOUS
        <4>1. cr.exists /\ Countable(cr, status)
          BY DEF Claimed, Claims, CopyInv, Counted
        <4>2. cr.version = status.current /\ cr.gen = status.observed
          BY <4>1, ClaimsSay DEF Claimed
        <4>3. /\ seen.cr.gen <= cr.gen /\ status.observed <= seen.cr.gen
              /\ seen.cr.gen = cr.gen => SameSpec(seen.cr, cr)
              /\ LikeTold(seen.status, status)
          BY <3>1, <4>1 DEF CopyInv, Dated
        <4>4. seen.cr.gen = cr.gen
          BY <4>2, <4>3, NumbersOK DEF CopyInv
        <4>5. seen.cr.version = seen.status.current /\ seen.cr.gen = seen.status.observed
          BY <4>2, <4>3, <4>4 DEF SameSpec, LikeTold
        <4> QED BY <3>1, <4>5 DEF NeedsUpgrade, VersionChanged, GenerationChanged
      <3> QED BY <1>1, <3>2, StillUnclaimed
    <2> QED BY <1>3, <2>1, <2>2, IntoRepair
  <1> QED BY <1>2, <1>3

LEMMA Between == \A m, n \in Nat : n <= m /\ m <= n => n = m
  OBVIOUS

LEMMA AskedBackStep ==
  ASSUME SettledInv, CopyInv', Next
  PROVE  AskedBack'
  <1> USE DEF SettledInv
  <1> SUFFICES ASSUME pc' = "roll back", why' = "asked", Claimed'
               PROVE  Revision' > 1 /\ Previous'.version = status'.current
    BY DEF AskedBack
  <1>0. cr'.exists /\ ~cr'.readonly /\ ~cr'.deleting
    BY ClaimedSays
  <1>1. cr'.version = status'.current /\ cr'.gen = status'.observed /\ ~Active(status')
    BY ClaimedSays
  <1>2. Like(status', status)
    BY <1>0, <1>1, StatusEffect DEF StatusStep, GivenUp, Completed, Adopted, Begun
  <1>3. Claimed
    BY <1>2, StillUnclaimed
  <1>4. CASE PatchVersion
    <2>1. Revision > 1 /\ pc = "patch version" /\ UNCHANGED <<history, status>>
      BY <1>4 DEF PatchVersion
    <2>2. UNCHANGED <<Revision, Previous>>
      BY <2>1 DEF Revision, Previous
    <2>3. Previous.version = status.current
      <3>1. CASE seen.cr.version = Previous.version
        <4>1. cr' = cr
          BY <1>4, <3>1 DEF PatchVersion
        <4>2. /\ seen.cr.gen <= cr.gen /\ status.observed <= seen.cr.gen
              /\ seen.cr.gen = cr.gen => SameSpec(seen.cr, cr)
          BY <1>0, <2>1, <4>1 DEF CopyInv, Dated
        <4>3. cr.gen = status.observed
          BY <1>1, <2>1, <4>1
        <4>4. seen.cr.gen = cr.gen
          <5>1. cr.gen \in Nat /\ seen.cr.gen \in Nat
            BY NumbersOK DEF CopyInv
          <5> QED BY <4>2, <4>3, <5>1, Between, Zenon
        <4> QED BY <1>1, <2>1, <3>1, <4>1, <4>2, <4>4 DEF SameSpec
      <3>2. CASE seen.cr.version # Previous.version
        <4>1. SetVersion(Previous.version)
          BY <1>4, <3>2 DEF PatchVersion
        <4>2. cr'.version = Previous.version
          BY <4>1, NumbersOK DEF SetVersion, CRs, CopyInv
        <4> QED BY <1>1, <2>1, <4>2
      <3> QED BY <3>1, <3>2
    <2> QED BY <2>1, <2>2, <2>3
  <1>5. CASE UNCHANGED <<pc, why>> /\ (Interference \/ Deadline)
    <2>1. Revision > 1 /\ Previous.version = status.current
      BY <1>3, <1>5 DEF AskedBack
    <2>2. UNCHANGED history
      <3>1. ~(OthersUninstall \/ \E v \in Versions : OthersRepair(v))
        BY <1>0 DEF OthersUninstall, OthersRepair
      <3> QED BY <1>5, <3>1 DEF Interference, Deadline, SetsVersion, SetsValues, SetsReadonly,
                  Deletes, AsksRollback
    <2> QED BY <1>2, <2>1, <2>2 DEF Like, LikeTold, Revision, Previous
  <1> QED BY <1>4, <1>5, IntoRollBack

LEMMA FlagKept ==
  ASSUME NEW s \in Statuses, ~s.rollback, NEW p, NEW q, NEW v, NEW n, NEW ok \in BOOLEAN
  PROVE  /\ ~[s EXCEPT !.prog = p].rollback /\ ~[s EXCEPT !.avail = q].rollback
         /\ ~[s EXCEPT !.prog = p, !.avail = q].rollback
         /\ ~[s EXCEPT !.prog = p, !.avail = q, !.current = v, !.observed = n].rollback
         /\ ~[s EXCEPT !.current = v, !.observed = n].rollback
         /\ ~[s EXCEPT !.observed = n].rollback
         /\ ~[s EXCEPT !.rollback = FALSE].rollback
  BY DEF Statuses

LEMMA WriteUnasked ==
  ASSUME NEW s, Write(s), ~s.rollback, ~status.rollback
  PROVE  ~status'.rollback
  BY DEF Write

\* A reconcile asks for nothing of its own accord.
LEMMA UnaskedStep ==
  ASSUME TypeOK, Unasked, Next
  PROVE  Unasked'
  <1> SUFFICES ASSUME "ask rollback" \notin Edits
               PROVE  ~status'.rollback /\ ~seen'.status.rollback /\ why' # "asked"
    BY DEF Unasked
  <1>0. ~status.rollback /\ ~seen.status.rollback /\ why # "asked" /\ seen.status \in Statuses
    BY SeenOK DEF Unasked
  <1>1. ~BlankStatus.rollback /\ Blank.status = BlankStatus
    BY Zenon DEF Blank, BlankStatus
  <1>2. Return => ~seen'.status.rollback /\ why' # "asked"
    BY <1>1, Zenon DEF Return
  <1>3. /\ \A x : Go(x) => ~seen'.status.rollback /\ why' # "asked"
        /\ \A x \in {"failed", "overdue", "upgrade"} :
             Rollback(x) => ~seen'.status.rollback /\ why' # "asked"
    BY <1>0 DEF Go, Rollback
  <1>4. \A ok \in BOOLEAN : /\ Reported(seen.status, ok) \in Statuses
                            /\ ~Reported(seen.status, ok).rollback
    BY <1>0, ReportedLike, ReportedOK, TypeParts
  <1>5. CASE UNCHANGED <<status, seen, why>>
    BY <1>0, <1>5
  <1>6. CASE UNCHANGED status /\ (Return \/ (\E x : Go(x))
                                  \/ \E x \in {"failed", "overdue", "upgrade"} : Rollback(x))
    BY <1>0, <1>2, <1>3, <1>6
  <1>7. CASE Read
    BY <1>0, <1>7 DEF Read
  <1>8. CASE AddFinalizer
    <2>1. CASE seen' = [seen EXCEPT !.cr.finalizer = TRUE] /\ UNCHANGED why
      <3>1. seen'.status = seen.status
        BY <2>1, TypeParts DEF LocalOK, Copies
      <3> QED BY <1>0, <1>8, <2>1, <3>1 DEF AddFinalizer
    <2> QED BY <1>6, <1>8, <2>1 DEF AddFinalizer
  <1>9. CASE BeginInstall \/ (BeginUpgrade /\ Released) \/ TakeRequest
    <2>1. ~TakeRequest
      BY <1>0 DEF TakeRequest
    <2>2. PICK p : seen' = [seen EXCEPT !.status.prog = p]
      BY <1>9, <2>1 DEF BeginInstall, BeginUpgrade
    <2>3. seen'.status = [seen.status EXCEPT !.prog = p]
      BY <2>2, TypeParts DEF LocalOK, Copies
    <2>4. ~seen'.status.rollback
      BY <1>0, <2>3, FlagKept
    <2>5. why' = why /\ (Write(seen'.status) \/ UNCHANGED status)
      BY <1>9, <2>1 DEF BeginInstall, BeginUpgrade
    <2> QED BY <1>0, <2>4, <2>5, WriteUnasked
  <1>10. CASE \E s : Write(s) /\ ~s.rollback /\ Return
    BY <1>0, <1>2, <1>10, WriteUnasked
  <1>11. CASE StartMigration \/ DryRunFails
    BY <1>0, <1>10, <1>11, FlagKept DEF StartMigration, DryRunFails
  <1>21. CASE \E f : WritesFail(f) /\ Return
    BY <1>2, <1>4, <1>6, <1>10, <1>21 DEF WritesFail
  <1>12. CASE CheckProgress
    <2>1. CASE Released /\ Complete
      <3> DEFINE s == [seen.status EXCEPT !.prog = "done", !.avail = TRUE,
                                          !.current = Top.version, !.observed = seen.cr.gen]
      <3>0. CASE WritesFail("write")
        BY <1>21, <2>1, <3>0 DEF Complete
      <3> SUFFICES ASSUME ~WritesFail("write")
                   PROVE  ~status'.rollback /\ ~seen'.status.rollback /\ why' # "asked"
        BY <3>0
      <3>1. PICK ok \in BOOLEAN : Write(Reported(s, ok))
        BY <2>1 DEF Complete
      <3>2. s \in Statuses /\ ~s.rollback
        BY <1>0, <2>1, CurrentOK, FlagKept
      <3> HIDE DEF s
      <3>3. ~Reported(s, ok).rollback
        BY <3>2, ReportedLike
      <3> QED BY <1>10, <2>1, <3>1, <3>3 DEF Complete
    <2>2. CASE Released /\ GiveUp
      <3>1. CASE Write([seen.status EXCEPT !.prog = "done", !.avail = FALSE]) /\ Return
        BY <1>0, <1>10, <3>1, FlagKept
      <3> QED BY <1>6, <2>2, <3>1 DEF GiveUp
    <2> QED BY <1>6, <1>12, <2>1, <2>2 DEF CheckProgress
  <1>13. CASE NothingToRollBack
    <2> SUFFICES ASSUME ~WritesFail("write")
                 PROVE  ~status'.rollback /\ ~seen'.status.rollback /\ why' # "asked"
      BY <1>13, <1>21 DEF NothingToRollBack
    <2>1. PICK ok \in BOOLEAN :
            IF why = "overdue"
            THEN Write([Reported(seen.status, ok) EXCEPT !.prog = "done", !.avail = FALSE])
            ELSE Write(IF ok THEN Reported(seen.status, ok) ELSE status)
      BY <1>13 DEF NothingToRollBack
    <2>2. ~[Reported(seen.status, ok) EXCEPT !.prog = "done", !.avail = FALSE].rollback
      BY <1>4, FlagKept
    <2> QED BY <1>0, <1>4, <1>10, <1>13, <2>1, <2>2 DEF NothingToRollBack
  <1>14. CASE FinishRollback
    BY <1>0, <1>4, <1>10, <1>14, <1>21 DEF FinishRollback
  <1>15. CASE Observe
    <2> DEFINE stamped(s) == [s EXCEPT !.observed = IF @ = 0 THEN seen.cr.gen ELSE @]
    <2>1. \A s \in Statuses : ~s.rollback => ~stamped(s).rollback
      BY FlagKept
    <2>2. \A ok \in BOOLEAN : ~stamped(Reported(seen.status, ok)).rollback
                              /\ ~stamped(seen.status).rollback
      BY <1>0, <1>4, <2>1
    <2>3. \/ UNCHANGED status \/ WritesFail("write")
          \/ Write(stamped(seen.status)) \/ Write(status)
          \/ \E ok \in BOOLEAN : Write(stamped(Reported(seen.status, ok)))
      BY <1>15 DEF Observe
    <2> HIDE DEF stamped
    <2>4. Return
      BY <1>15 DEF Observe
    <2> QED BY <1>0, <1>6, <1>10, <1>21, <2>2, <2>3, <2>4
  <1>16. CASE Adopt
    <2>1. Write([seen.status EXCEPT !.current = Top.version, !.observed = seen.cr.gen])
          \/ Write(status)
      BY <1>16 DEF Adopt
    <2> QED BY <1>0, <1>10, <1>16, <2>1, FlagKept DEF Adopt
  <1>17. CASE DropFinalizer
    BY <1>0, <1>1, <1>2, <1>17, Zenon DEF DropFinalizer
  <1>18. CASE Reconcile
    <2>1. CASE Install \/ LockOverdue \/ RollBackOverdue \/ (BeginUpgrade /\ ~Released)
               \/ Upgrade \/ Revert \/ RevertFails \/ PatchVersion \/ PatchVersionFails
               \/ RollBack \/ Uninstall
      BY <1>6, <2>1 DEF Install, LockOverdue, RollBackOverdue, BeginUpgrade, Upgrade, Revert,
         RevertFails, PatchVersion, PatchVersionFails, RollBack, Uninstall
    <2> QED BY <1>7, <1>8, <1>9, <1>11, <1>12, <1>13, <1>14, <1>15, <1>16, <1>17, <1>18, <2>1
            DEF Reconcile
  <1>19. CASE Interference
    <2>1. ~AsksRollback
      BY DEF AsksRollback, Edit
    <2>2. CASE Deletes
      BY <1>0, <1>1, <2>2, Zenon DEF Deletes
    <2> QED BY <1>5, <1>19, <2>1, <2>2 DEF Interference, SetsVersion, SetsValues, SetsReadonly,
               OthersUninstall, OthersRepair
  <1>20. CASE DryRunFails \/ Stop \/ Deadline
    BY <1>5, <1>6, <1>11, <1>20 DEF Stop, Deadline
  <1> QED BY <1>18, <1>19, <1>20 DEF Next

LEMMA SettledInit == Init => SettledInv
  <1> SUFFICES ASSUME Init PROVE SettledInv
    OBVIOUS
  <1>1. CopyInv /\ pc = "idle"
    BY CopyInit DEF Init
  <1>2. ~BlankStatus.rollback /\ ~BlankStatus.avail /\ Blank.status = BlankStatus
    BY Zenon DEF Blank, BlankStatus
  <1>3. status = BlankStatus /\ seen = Blank /\ why # "asked"
    BY Zenon DEF Init
  <1>4. Unasked /\ ~Claimed
    BY <1>2, <1>3, Zenon DEF Unasked, Claimed, Claims
  <1> QED BY <1>1, <1>4, Zenon DEF SettledInv, TrueClaim, Dirty, AskedBack

LEMMA SettledStep == ASSUME RequestsSucceed, SettledInv, [Next]_vars PROVE SettledInv'
  <1>1. CASE Next
    <2>1. CopyInv'
      BY <1>1, CopyStep DEF SettledInv
    <2> QED BY <1>1, <2>1, UnaskedStep, TrueClaimStep, DirtyStep, AskedBackStep
            DEF SettledInv, CopyInv
  <1>2. CASE UNCHANGED vars
    <2>1. CopyInv'
      BY CopyStep DEF SettledInv
    <2>2. UNCHANGED <<cr, status, history, pc, why, seen, origin>>
      BY <1>2 DEF vars, local
    <2>3. UNCHANGED <<Claimed, Mending, Released, Revision, Top, Previous>>
      BY <2>2, Zenon DEF Claimed, Claims, Resting, AtRest, Fresh, Active, NeedsInstall,
         NeedsUpgrade, VersionChanged, GenerationChanged, Mending, Section, Released, Top,
         Previous, Revision
    <2> QED BY <2>1, <2>2, <2>3, Zenon DEF SettledInv, Unasked, TrueClaim, Dirty, AskedBack
  <1> QED BY <1>1, <1>2

\* If nobody asks for a rollback, or if helm's rollbacks go through, an available
\* component with nothing left to do runs the version it reports: a status is
\* stamped with a generation only when helm has what that generation asks for
\* (checkHelmProgress).  A requested rollback that fails is the exception: its
\* release is left failed and its status untouched (rollback).
THEOREM SettledRuns ==
  ASSUME RequestsSucceed
  PROVE  Spec => []SettledIsDeployed
  <1>1. Init => SettledInv
    BY SettledInit
  <1>2. SettledInv /\ [Next]_vars => SettledInv'
    BY SettledStep
  <1>3. SettledInv => SettledIsDeployed
    BY DEF SettledInv, TrueClaim, Claimed, Claims, SettledIsDeployed, Settled, Finished
  <1> QED BY <1>1, <1>2, <1>3, PTL DEF Spec

------------------------------------------------------------------------------
(* The values of a settled component were handed to helm.  Until they are, the  *)
(* status keeps the generation it observed before them, so that the CR is       *)
(* neither at rest nor given up: the upgrade that hands them over comes first.  *)

Handed     == \E i \in 1..Revision : history[i].values = cr.values
SameValues == pc # "idle" /\ cr.exists => seen.cr.values = cr.values
Stamped    == /\ status.avail => status.prog # ""
              /\ status.current # None => status.observed # 0
Unhurt     == /\ Top.status = "deployed" /\ status.current # None
              /\ pc = "upgrade" \/ status.prog = "done"
              /\ cr.readonly \/ GenerationChanged(cr, status)
              /\ pc # "revert" /\ ~Mending
Owed       == cr.exists /\ Released /\ ~Handed => Unhurt

HandInv == SettledInv /\ SameValues /\ (cr.exists => Stamped) /\ Owed

\* Users wait for each other, every chart is there, and nobody stops.
Orderly ==
  /\ MidFlight = FALSE /\ Faults \cap {"fetch", "no such version", "stop"} = {}
  /\ RequestsSucceed

LEMMA ValuesEffect == ASSUME TypeOK, Next, cr'.exists PROVE cr'.values = cr.values \/ SetsValues
  <1>1. CASE UNCHANGED cr \/ SetsValues
    BY <1>1
  <1>2. \A v : SetVersion(v) => cr'.values = cr.values
    BY NumbersOK DEF SetVersion, CRs
  <1>3. ~BlankCR.exists
    BY Zenon DEF BlankCR
  <1>4. CASE Reconcile
    <2>1. UNCHANGED cr \/ AddFinalizer \/ LockOverdue \/ Revert \/ PatchVersion \/ DropFinalizer
      BY <1>4 DEF Reconcile, Read, StartMigration, BeginInstall, Install, CheckProgress,
         RollBackOverdue, BeginUpgrade, Upgrade, RevertFails, TakeRequest, NothingToRollBack,
         PatchVersionFails, RollBack, FinishRollback, Observe, Adopt, Uninstall
    <2>2. CASE AddFinalizer \/ LockOverdue
      BY <2>2, NumbersOK DEF AddFinalizer, LockOverdue, CRs
    <2>3. CASE Revert \/ PatchVersion
      BY <1>2, <2>3 DEF Revert, PatchVersion
    <2>4. CASE DropFinalizer
      BY <1>3, <2>4 DEF DropFinalizer
    <2> QED BY <2>1, <2>2, <2>3, <2>4
  <1>5. CASE Interference
    <2>1. CASE \E v \in Versions : SetsVersion(v)
      BY <2>1, NumbersOK DEF SetsVersion, CRs
    <2>2. CASE \E r \in BOOLEAN : SetsReadonly(r)
      BY <2>2, NumbersOK DEF SetsReadonly, CRs
    <2>3. CASE Deletes
      BY <1>3, <2>3, NumbersOK DEF Deletes, CRs
    <2>4. CASE AsksRollback \/ OthersUninstall \/ \E v \in Versions : OthersRepair(v)
      BY <2>4 DEF AsksRollback, OthersUninstall, OthersRepair
    <2> QED BY <1>1, <1>5, <2>1, <2>2, <2>3, <2>4 DEF Interference
  <1> QED BY <1>4, <1>5 DEF Next, DryRunFails, Stop, Deadline

LEMMA SetsValuesWaits ==
  ASSUME Orderly, SetsValues
  PROVE  pc = "idle" /\ Claimed /\ ~status.rollback
  BY DEF Orderly, SetsValues, Edit, Claimed, Claims

LEMMA SameValuesStep ==
  ASSUME Orderly, CopyInv, SameValues, Next
  PROVE  SameValues'
  <1> SUFFICES ASSUME pc' # "idle", cr'.exists PROVE seen'.cr.values = cr'.values
    BY DEF SameValues
  <1>1. cr.exists
    BY CrEffect DEF CopyInv, CrStep
  <1>2. CASE Read
    BY <1>2, TypeParts DEF Read, CopyInv
  <1>3. CASE pc # "idle" /\ SameSpec(seen'.cr, seen.cr)
    <2>1. ~SetsValues
      BY <1>3, SetsValuesWaits
    <2> QED BY <1>1, <1>3, <2>1, ValuesEffect DEF SameValues, SameSpec, CopyInv
  <1> QED BY <1>2, <1>3, LocalEffect DEF LocalStep, CopyInv

LEMMA StampedStep ==
  ASSUME CopyInv, cr.exists => Stamped, Next, cr'.exists
  PROVE  Stamped'
  <1>1. cr.exists /\ Stamped
    BY CrEffect DEF CopyInv, CrStep
  <1>2. pc # "idle" => seen.cr.gen # 0 /\ LikeTold(seen.status, status)
    BY <1>1, NumbersOK DEF CopyInv, Dated
  <1>3. CASE Like(status', status) \/ Begun
    BY <1>1, <1>3, Zenon DEF Stamped, Like, LikeTold, Begun, Active
  <1>4. CASE GivenUp
    BY <1>1, <1>4, Zenon DEF Stamped, GivenUp
  <1>5. CASE Completed
    BY <1>2, <1>5, Zenon DEF Stamped, Completed
  <1>6. CASE Adopted
    <2>1. seen.status.prog = status.prog /\ pc # "idle"
      BY <1>1, <1>6 DEF Adopted, CopyInv, Tracked, Looking
    <2> QED BY <1>1, <1>2, <1>6, <2>1, Zenon DEF Stamped, Adopted, LikeTold
  <1> QED BY <1>3, <1>4, <1>5, <1>6, StatusEffect DEF StatusStep

\* An upgrade in hand ends with helm's answer.
LEMMA LeavesUpgrade ==
  ASSUME Next, pc = "upgrade"
  PROVE  Upgrade \/ Stop \/ (pc' = "upgrade" /\ (Interference \/ Deadline))
  <1>1. CASE Reconcile
    BY <1>1 DEF Reconcile, Read, AddFinalizer, StartMigration, BeginInstall, Install,
       CheckProgress, LockOverdue, RollBackOverdue, BeginUpgrade, Revert, RevertFails, TakeRequest,
       NothingToRollBack, PatchVersion, PatchVersionFails, RollBack, FinishRollback, Observe,
       Adopt, Uninstall, DropFinalizer, Decide, Quiet
  <1>2. CASE Interference
    BY <1>2 DEF Interference, SetsVersion, SetsValues, SetsReadonly, Deletes, AsksRollback,
       OthersUninstall, OthersRepair
  <1> QED BY <1>1, <1>2 DEF Next, DryRunFails, Decide, Deadline

LEMMA IntoRevert ==
  ASSUME Next, pc' = "revert"
  PROVE  pc = "revert" \/ Upgrade
  <1>1. CASE Reconcile
    BY <1>1 DEF Reconcile, Read, AddFinalizer, StartMigration, BeginInstall, Install,
       CheckProgress, Complete, GiveUp, LockOverdue, RollBackOverdue, BeginUpgrade, Revert,
       RevertFails, TakeRequest, NothingToRollBack, PatchVersion, PatchVersionFails, RollBack,
       FinishRollback, Observe, Adopt, Uninstall, DropFinalizer, Return, Rollback, Go
  <1>2. CASE Interference
    BY <1>2 DEF Interference, SetsVersion, SetsValues, SetsReadonly, Deletes, AsksRollback,
       OthersUninstall, OthersRepair
  <1> QED BY <1>1, <1>2 DEF Next, DryRunFails, Stop, Deadline, Return

LEMMA AddHands ==
  ASSUME TypeOK, NEW r \in Records, Add(r),
         r.values = cr'.values \/ (Handed /\ cr'.values = cr.values)
  PROVE  Handed'
  <1>1. /\ Revision \in Nat /\ Revision' = Revision + 1 /\ history'[Revision + 1] = r
        /\ \A i \in 1..Revision + 1 :
             i = Revision + 1 \/ (i \in 1..Revision /\ history'[i] = history[i])
    BY AddAt
  <1>2. CASE r.values = cr'.values
    <2>1. Revision + 1 \in 1..Revision'
      BY <1>1
    <2> QED BY <1>1, <1>2, <2>1 DEF Handed
  <1>3. CASE Handed /\ cr'.values = cr.values
    <2>1. PICK i \in 1..Revision : history[i].values = cr.values
      BY <1>3 DEF Handed
    <2>2. i \in 1..Revision' /\ i # Revision + 1
      BY <1>1, <2>1
    <2> QED BY <1>1, <1>3, <2>1, <2>2 DEF Handed
  <1> QED BY <1>2, <1>3

LEMMA FirstRelease == ASSUME Next, ~Released, Released' PROVE Install
  <1>1. ~UNCHANGED history /\ Revision = 0
    BY DEF Released, Revision
  <1>2. ~Uninstall /\ ~OthersUninstall
    BY DEF Uninstall, OthersUninstall, Released
  <1>3. ~Upgrade
    BY <1>1, Zenon DEF Upgrade
  <1>4. ~RollBack
    <2>1. ~(Revision > 1)
      BY <1>1
    <2> QED BY <1>1, <2>1, Zenon DEF RollBack
  <1>5. ~\E v \in Versions : OthersRepair(v)
    BY DEF OthersRepair
  <1> QED BY <1>1, <1>2, <1>3, <1>4, <1>5, HistoryActions

\* The values that are not handed over were not before the step either.
LEMMA StillOwed ==
  ASSUME CopyInv, SameValues, Next, cr.exists, Released', ~Handed', cr'.values = cr.values
  PROVE  Released /\ ~Handed
  <1>1. CASE UNCHANGED history
    BY <1>1 DEF Released, Handed, Revision
  <1>2. CASE ~UNCHANGED history
    <2>1. PICK r \in Records : Add(r)
      BY <1>2, HistoryEffect DEF HistoryStep, Released, CopyInv
    <2>2. ~Handed /\ r.values # cr.values
      BY <2>1, AddHands DEF CopyInv
    <2>3. CASE ~Released
      <3>3. Install
        BY <2>3, FirstRelease
      <3>4. pc # "idle" /\ \E st \in {"deployed", "failed", "pending"} :
              Add(Record(seen.cr.version, seen.cr.values, st))
        BY <1>2, <3>3 DEF Install
      <3>5. seen.cr.values = cr.values
        BY <3>4 DEF SameValues
      <3>6. PICK st \in {"deployed", "failed", "pending"} :
              Add(Record(seen.cr.version, seen.cr.values, st))
        BY <3>4
      <3>7. /\ Record(seen.cr.version, seen.cr.values, st) \in Records
            /\ Record(seen.cr.version, seen.cr.values, st).values = cr'.values
        BY <3>5, SeenOK DEF Record, Records, CopyInv, CRs
      <3> QED BY <3>6, <3>7, AddHands DEF CopyInv
    <2> QED BY <2>2, <2>3
  <1> QED BY <1>1, <1>2

LEMMA HelmWhileOwed ==
  ASSUME Orderly, HandInv, Next, cr.exists, Released, Unhurt, Released', ~Handed',
         cr'.values = cr.values
  PROVE  /\ Top'.status = "deployed"
         /\ ~Upgrade
  <1> USE DEF HandInv, SettledInv, CopyInv
  <1>1. ~Upgrade
    <2> SUFFICES ASSUME Upgrade PROVE FALSE
      OBVIOUS
    <2>1. ~Fault("fetch") /\ ~Fault("no such version")
      BY DEF Orderly, Fault
    <2>2. pc # "idle" /\ Top.status # "pending"
      BY DEF Upgrade, Unhurt
    <2>3. PICK st \in {"deployed", "failed", "pending"} :
            Add(Record(seen.cr.version, seen.cr.values, st))
      BY <2>1, <2>2 DEF Upgrade
    <2>4. seen.cr.values = cr.values
      BY <2>2 DEF SameValues
    <2>5. /\ Record(seen.cr.version, seen.cr.values, st) \in Records
          /\ Record(seen.cr.version, seen.cr.values, st).values = cr'.values
      BY <2>4, SeenOK DEF Record, Records, CRs
    <2> QED BY <2>3, <2>5, AddHands
  <1>2. CASE UNCHANGED history
    <2>1. UNCHANGED Top
      BY <1>2 DEF Top, Revision
    <2> QED BY <1>1, <2>1, Zenon DEF Unhurt
  <1>3. CASE ~UNCHANGED history
    <2>1. ~Install /\ ~Uninstall /\ ~OthersUninstall
      BY <1>3 DEF Install, Uninstall, OthersUninstall, Released
    <2>2. \A v \in Versions \cup {None}, n \in Nat :
            Add(Record(v, n, "deployed")) => Top'.status = "deployed"
      <3> TAKE v \in Versions \cup {None}, n \in Nat
      <3>1. Record(v, n, "deployed") \in Records /\ Record(v, n, "deployed").status = "deployed"
        BY DEF Record, Records
      <3> QED BY <3>1, AddAt
    <2>3. CASE RollBack
      <3>1. why = "asked"
        BY <2>3 DEF RollBack, Unhurt, Mending, Section
      <3>2. ~Fault("rollback")
        BY <3>1 DEF Orderly, RequestsSucceed, Unasked, Fault
      <3>3. Revision > 1 /\ Add(Record(Previous.version, Previous.values, "deployed"))
        BY <1>3, <2>3, <3>2 DEF RollBack
      <3>4. Previous.version \in Versions \cup {None} /\ Previous.values \in Nat
        BY <3>3, PreviousNamed DEF Records
      <3> QED BY <1>1, <2>2, <3>3, <3>4, Zenon
    <2>4. ASSUME NEW v \in Versions, OthersRepair(v) PROVE Top'.status = "deployed"
      <3>1. Top.values \in Nat
        BY TopNamed DEF Records
      <3> QED BY <2>2, <2>4, <3>1 DEF OthersRepair
    <2> QED BY <1>1, <1>3, <2>1, <2>3, <2>4, HistoryActions
  <1> QED BY <1>1, <1>2, <1>3

LEMMA OwedStep ==
  ASSUME Orderly, HandInv, CopyInv', Stamped', Next, cr'.exists
  PROVE  Owed'
  <1> USE DEF HandInv, SettledInv, CopyInv
  <1> SUFFICES ASSUME Released', ~Handed' PROVE Unhurt'
    BY DEF Owed
  <1>0. cr.exists /\ Stamped
    BY CrEffect DEF CrStep
  <1>1. CASE SetsValues
    <2>1. pc = "idle" /\ Claimed
      BY <1>1, SetsValuesWaits
    <2>2. Top.status = "deployed" /\ status.current # None /\ status.observed # 0 /\ ~Active(status)
          /\ status.avail /\ cr.gen = status.observed
      BY <1>0, <2>1, ClaimsSay DEF TrueClaim, Counted, Claimed, Claims
    <2>3. status.prog = "done"
      BY <1>0, <2>2, NumbersOK, Zenon DEF Stamped, Active, Statuses
    <2>4. cr'.gen = cr.gen + 1 /\ UNCHANGED <<history, status, pc, why>>
      BY <1>1, NumbersOK DEF SetsValues, CRs, local
    <2>5. GenerationChanged(cr', status')
      BY <2>2, <2>4, NumbersOK DEF GenerationChanged
    <2>6. pc' = "idle" /\ ~Mending' /\ pc' # "revert"
      BY <2>1, <2>4 DEF Mending, Section
    <2> QED BY <2>2, <2>3, <2>4, <2>5, <2>6, Zenon DEF Unhurt, Top, Revision, GenerationChanged
  <1>2. CASE ~SetsValues
    <2>1. cr'.values = cr.values
      BY <1>2, ValuesEffect
    <2>2. Released /\ ~Handed /\ Unhurt
      BY <1>0, <2>1, StillOwed DEF Owed
    <2>3. Top'.status = "deployed" /\ ~Upgrade
      BY <1>0, <2>1, <2>2, HelmWhileOwed
    <2>4. ~Stop
      BY DEF Orderly, Stop, Fault
    <2>5. CASE pc = "upgrade"
      <3>1. pc' = "upgrade" /\ (Interference \/ Deadline)
        BY <2>3, <2>4, <2>5, LeavesUpgrade
      <3>2. Like(status', status)
        BY <1>0, <2>5, <3>1, StatusEffect
           DEF StatusStep, Begun, GivenUp, Completed, Adopted, StartMigration, BeginInstall,
               BeginUpgrade, Decide, Mending, Section
      <3>3. pc' # "revert" /\ ~Mending'
        BY <3>1 DEF Mending, Section
      <3>4. status'.current # None
        BY <2>2, <3>2, Zenon DEF Unhurt, Like, LikeTold
      <3>5. cr'.readonly \/ GenerationChanged(cr', status')
        <4>1. status.observed # 0 /\ status'.observed = status.observed
              /\ status.observed <= cr.gen
          BY <1>0, <2>2, <3>2, Zenon DEF Unhurt, Stamped, Like, LikeTold, Counted, Countable
        <4> QED BY <2>2, <4>1, GenGrows, NumbersOK DEF Unhurt, GenerationChanged, SameSpec
      <3> QED BY <2>3, <3>1, <3>3, <3>4, <3>5 DEF Unhurt, GenerationChanged
    <2>6. CASE pc # "upgrade"
      <3>1. status.prog = "done" /\ ~Active(status) /\ status.current # None /\ status.observed # 0
            /\ ~Mending /\ pc # "revert"
        BY <1>0, <2>2, <2>6, Zenon DEF Unhurt, Active, Stamped
      <3>2. Looking => seen.status.prog = "done" /\ seen.status.current # None
        <4>1. Looking => pc # "idle"
          BY DEF Looking
        <4> QED BY <1>0, <3>1, <4>1, Zenon DEF Tracked, Dated, LikeTold
      <3>3. ~CheckProgress /\ ~RollBackOverdue /\ ~StartMigration
        BY <3>2 DEF CheckProgress, RollBackOverdue, StartMigration, Decide, Looking, Active, Fresh
      <3>4. ~BeginInstall
        BY <3>2, Zenon DEF BeginInstall, Decide, Looking, NeedsInstall, Fresh
      <3>5. pc' # "revert"
        BY <2>3, <3>1, IntoRevert
      <3>6. BeginUpgrade => pc' = "upgrade"
        BY <2>2 DEF BeginUpgrade
      <3>7. ~Mending'
        BY <2>6, <3>1, <3>3, <3>6, IntoRepair DEF Mending, Section
      <3>8. CASE Like(status', status)
        <4>1. status'.current # None /\ status'.prog = "done" /\ status'.observed = status.observed
          BY <3>1, <3>8, Zenon DEF Like, LikeTold
        <4>2. cr'.readonly \/ GenerationChanged(cr', status')
          BY <1>0, <2>2, <3>1, <4>1, GenGrows, NumbersOK
             DEF Unhurt, GenerationChanged, SameSpec, Counted, Countable
        <4> QED BY <2>3, <3>5, <3>7, <4>1, <4>2 DEF Unhurt, GenerationChanged
      <3>9. CASE Begun
        <4>1. BeginUpgrade /\ LikeTold(status', status) /\ pc' = "upgrade"
          BY <3>1, <3>3, <3>4, <3>6, <3>9 DEF Begun
        <4>2. status'.current # None /\ status'.observed = status.observed
          BY <3>1, <4>1, Zenon DEF LikeTold
        <4>3. cr'.readonly \/ GenerationChanged(cr', status')
          BY <1>0, <2>2, <3>1, <4>2, GenGrows, NumbersOK
             DEF Unhurt, GenerationChanged, SameSpec, Counted, Countable
        <4> QED BY <2>3, <3>5, <3>7, <4>1, <4>2, <4>3 DEF Unhurt, GenerationChanged
      <3>10. CASE GivenUp
        <4>1. status'.current # None /\ status'.prog = "done" /\ status'.observed = status.observed
          BY <3>1, <3>10, Zenon DEF GivenUp
        <4>2. cr'.readonly \/ GenerationChanged(cr', status')
          BY <1>0, <2>2, <3>1, <4>1, GenGrows, NumbersOK
             DEF Unhurt, GenerationChanged, SameSpec, Counted, Countable
        <4> QED BY <2>3, <3>5, <3>7, <4>1, <4>2 DEF Unhurt, GenerationChanged
      <3>11. CASE Completed
        BY <3>2, <3>11 DEF Completed, Looking, Active
      <3>12. CASE Adopted
        <4>1. /\ pc = "adopt" /\ UNCHANGED cr
              /\ status'.prog = seen.status.prog /\ status'.observed = seen.cr.gen
              /\ status'.current = Top.version
          BY <3>12 DEF Adopted
        <4>2. status'.prog = "done" /\ status'.current # None
          BY <2>2, <3>2, <4>1, TopNamed DEF Looking
        <4>3. /\ seen.cr.readonly /\ seen.cr.gen > 0
              /\ seen.cr.gen = cr.gen => seen.cr.readonly = cr.readonly
          BY <1>0, <4>1 DEF Tracked, Dated, SameSpec
        <4>4. CASE seen.cr.gen = cr.gen
          BY <2>3, <3>5, <3>7, <4>1, <4>2, <4>3, <4>4, Zenon DEF Unhurt
        <4>5. CASE seen.cr.gen # cr.gen
          <5>1. status'.observed # 0 /\ cr'.gen # status'.observed
            BY <4>1, <4>3, <4>5, NumbersOK
          <5> QED BY <2>3, <3>5, <3>7, <4>2, <5>1, Zenon DEF Unhurt, GenerationChanged
        <4> QED BY <4>4, <4>5
      <3> QED BY <3>8, <3>9, <3>10, <3>11, <3>12, StatusEffect DEF StatusStep
    <2> QED BY <2>5, <2>6
  <1> QED BY <1>1, <1>2

LEMMA HandInit == Init => HandInv
  <1> SUFFICES ASSUME Init PROVE HandInv
    OBVIOUS
  <1>1. ~BlankStatus.avail /\ BlankStatus.current = None
    BY Zenon DEF BlankStatus
  <1>2. pc = "idle" /\ status = BlankStatus /\ cr.values = 1
    <2>1. PICK v \in Versions :
            cr = [exists |-> TRUE, deleting |-> FALSE, finalizer |-> FALSE, readonly |-> FALSE,
                  version |-> v, values |-> 1, gen |-> 1]
      BY Zenon DEF Init
    <2>2. cr.values = 1
      BY <2>1
    <2> QED BY <2>2, Zenon DEF Init
  <1>3. ~Released \/ Handed
    <2>1. CASE history = <<>>
      BY <2>1 DEF Released
    <2>2. CASE \E v \in Versions, st \in {"deployed", "failed", "pending"} :
                 history = <<Record(v, 1, st)>>
      BY <1>2, <2>2 DEF Handed, Revision, Record
    <2> QED BY <2>1, <2>2, Zenon DEF Init
  <1> QED BY <1>1, <1>2, <1>3, SettledInit, Zenon DEF HandInv, SameValues, Stamped, Owed

LEMMA HandStep == ASSUME Orderly, HandInv, [Next]_vars PROVE HandInv'
  <1>0. SettledInv' /\ CopyInv /\ CopyInv'
    BY SettledStep, CopyStep DEF Orderly, HandInv, SettledInv
  <1>1. CASE Next
    <2>1. SameValues'
      BY <1>0, <1>1, SameValuesStep DEF HandInv
    <2>2. cr'.exists => Stamped'
      BY <1>0, <1>1, StampedStep DEF HandInv
    <2>3. Owed'
      BY <1>0, <1>1, <2>2, OwedStep DEF Owed
    <2> QED BY <1>0, <2>1, <2>2, <2>3 DEF HandInv
  <1>2. CASE UNCHANGED vars
    <2>1. UNCHANGED <<cr, status, history, pc, why, seen>>
      BY <1>2 DEF vars, local
    <2>2. UNCHANGED <<Released, Revision, Top, Mending, Handed>>
      BY <2>1, Zenon DEF Released, Revision, Top, Mending, Section, Handed
    <2> QED BY <1>0, <2>1, <2>2, Zenon
            DEF HandInv, SameValues, Stamped, Owed, Unhurt, GenerationChanged
  <1> QED BY <1>1, <1>2

\* The values of a settled component reached helm (ObservedGeneration), provided
\* that users leave an operation in progress alone, that charts are there, that
\* the process does not stop between two calls and that requested rollbacks
\* succeed: without any of these a generation can be observed whose values were
\* never handed over.
THEOREM ValuesArrive ==
  ASSUME Orderly
  PROVE  Spec => []ValuesReachHelm
  <1>1. Init => HandInv
    BY HandInit
  <1>2. HandInv /\ [Next]_vars => HandInv'
    BY HandStep
  <1>3. HandInv => ValuesReachHelm
    <2> SUFFICES ASSUME HandInv, Settled, ~Handed PROVE FALSE
      BY DEF ValuesReachHelm, Handed
    <2>1. Claimed /\ pc = "idle" /\ cr.exists /\ ~cr.readonly
      BY DEF Settled, Finished, Claimed, Claims
    <2>2. Released /\ cr.gen = status.observed
      BY <2>1, ClaimsSay DEF HandInv, SettledInv, TrueClaim, CopyInv, Counted, Claimed
    <2>3. Unhurt
      BY <2>1, <2>2 DEF HandInv, Owed
    <2> QED BY <2>1, <2>2, <2>3 DEF Unhurt, GenerationChanged
  <1> QED BY <1>1, <1>2, <1>3, PTL DEF Spec

------------------------------------------------------------------------------
(* A rollback that nobody asked for restores the last deployed revision: of the *)
(* last two revisions one is deployed, as an upgrade goes out only over a       *)
(* deployed one, and it is the former one, as the operator turns to rollback    *)
(* only over a revision that failed or hangs.                                   *)

\* The operator has the CR's release to itself.
Ours == cr.exists /\ ~(cr.readonly /\ pc \in {"idle", "adopt", "delete", "drop finalizer"})

Undoing    == pc \in {"patch version", "roll back"}
Doubtful   == Released /\ Top.status # "deployed"
                /\ (Revision = 1 \/ (Top.status = "failed" /\ ~Undoing))
LockedCopy == pc # "idle" /\ cr.exists /\ seen.cr.readonly => cr.readonly
Backed     == Revision > 1 => Top.status = "deployed" \/ Previous.status = "deployed"
Unwell     == Ours /\ Doubtful => status.current = None
NotYet     == Ours /\ status.prog = "" => status.current = None
Decided    == /\ pc = "install" => seen.status.current = None
              /\ pc = "upgrade" => seen.status.current # None
ToUndo     == Undoing /\ Released => why = "asked" \/ Top.status # "deployed"
AskedIdle  == Asked => ~Active(status)
\* Past the deadline, an operation hangs or has been rolled back.
Stuck      == /\ status.prog = "done" => status.current = None
              /\ Active(status) => \/ Top.status = "pending"
                                   \/ pc = "rolled back" /\ why = "overdue"
              /\ pc # "upgrade" /\ (Mending => why = "overdue")
Late       == Ours /\ overdue => /\ pc = "install" => ~Active(status)
                                 /\ Released => Stuck

RestRest == /\ LockedCopy /\ Backed /\ Unwell /\ NotYet
            /\ Decided /\ ToUndo /\ AskedIdle /\ Late
RestInv  == OwnerInv /\ CopyInv /\ RestRest

\* Nobody else touches a release that the operator may take back; no chart is
\* missing, nobody stops, rollbacks go through, the deadline is reopened after them,
\* and none passes unattended.
Calm ==
  /\ Edits \cap {"unlock", "repair"} = {}
  /\ Faults \cap {"fetch", "stop", "rollback", "refresh"} = {}
  /\ Downtime = FALSE

LEMMA CalmExcludes ==
  ASSUME Calm
  PROVE  /\ ~Stop /\ ~Fault("fetch") /\ ~Fault("rollback") /\ ~Fault("refresh") /\ ~Edit("unlock")
         /\ \A v : ~OthersRepair(v)
  BY DEF Calm, Stop, Fault, Edit, OthersRepair

LEMMA LockStays ==
  ASSUME Calm, TypeOK, Next, cr.readonly, cr'.exists
  PROVE  cr'.readonly
  <1>1. ~BlankCR.exists
    BY Zenon DEF BlankCR
  <1>2. \A v : SetVersion(v) => cr'.readonly
    BY NumbersOK DEF SetVersion, CRs
  <1>3. CASE Reconcile
    <2>1. UNCHANGED cr \/ AddFinalizer \/ LockOverdue \/ Revert \/ PatchVersion \/ DropFinalizer
      BY <1>3 DEF Reconcile, Read, StartMigration, BeginInstall, Install, CheckProgress,
         RollBackOverdue, BeginUpgrade, Upgrade, RevertFails, TakeRequest, NothingToRollBack,
         PatchVersionFails, RollBack, FinishRollback, Observe, Adopt, Uninstall
    <2>2. CASE AddFinalizer
      BY <2>2, NumbersOK DEF AddFinalizer, CRs
    <2>3. CASE LockOverdue \/ Revert \/ PatchVersion
      BY <1>2, <2>3 DEF LockOverdue, Revert, PatchVersion
    <2>4. CASE DropFinalizer
      BY <1>1, <2>4 DEF DropFinalizer
    <2> QED BY <2>1, <2>2, <2>3, <2>4
  <1>4. CASE Interference
    <2>1. CASE (\E v \in Versions : SetsVersion(v)) \/ SetsValues
      BY <2>1 DEF SetsVersion, SetsValues
    <2>2. ASSUME NEW r \in BOOLEAN, SetsReadonly(r) PROVE FALSE
      <3>1. r = FALSE
        BY <2>2 DEF SetsReadonly
      <3> QED BY <2>2, <3>1, CalmExcludes DEF SetsReadonly
    <2>3. CASE Deletes
      BY <1>1, <2>3, NumbersOK DEF Deletes, CRs
    <2>4. CASE AsksRollback \/ OthersUninstall \/ \E v \in Versions : OthersRepair(v)
      BY <2>4 DEF AsksRollback, OthersUninstall, OthersRepair
    <2> QED BY <1>4, <2>1, <2>2, <2>3, <2>4 DEF Interference
  <1> QED BY <1>3, <1>4 DEF Next, DryRunFails, Stop, Deadline

LEMMA LockedCopyStep == ASSUME Calm, CopyInv, LockedCopy, Next PROVE LockedCopy'
  <1> SUFFICES ASSUME pc' # "idle", cr'.exists, seen'.cr.readonly PROVE cr'.readonly
    BY DEF LockedCopy
  <1>1. CASE Read
    BY <1>1, TypeParts DEF Read, CopyInv
  <1>2. CASE pc # "idle" /\ SameSpec(seen'.cr, seen.cr)
    <2>1. cr.readonly
      BY <1>2, CrEffect DEF LockedCopy, SameSpec, CopyInv, CrStep
    <2> QED BY <2>1, LockStays DEF CopyInv
  <1> QED BY <1>1, <1>2, LocalEffect DEF LocalStep, CopyInv

\* What is handed over is not taken back.
LEMMA OursBack ==
  ASSUME Calm, CopyInv, Next, Ours'
  PROVE  Ours /\ cr.exists /\ cr'.exists
  <1>1. cr.exists /\ cr'.exists
    BY CrEffect DEF Ours, CopyInv, CrStep
  <1>2. ASSUME cr.readonly, pc \in {"idle", "adopt", "delete", "drop finalizer"}
        PROVE  pc' \in {"idle", "adopt", "delete", "drop finalizer"}
    <2>1. CASE Reconcile
      BY <1>2, <2>1 DEF Reconcile, Read, AddFinalizer, StartMigration, BeginInstall, Install,
         CheckProgress, LockOverdue, RollBackOverdue, BeginUpgrade, Upgrade, Revert, RevertFails,
         TakeRequest, NothingToRollBack, PatchVersion, PatchVersionFails, RollBack,
         FinishRollback, Observe, Adopt, Uninstall, DropFinalizer, Return, Decide, Quiet, Go
    <2>2. CASE Interference
      BY <1>2, <2>2 DEF Interference, SetsVersion, SetsValues, SetsReadonly, Deletes,
         AsksRollback, OthersUninstall, OthersRepair
    <2> QED BY <1>2, <2>1, <2>2 DEF Next, DryRunFails, Stop, Deadline, Return
  <1> QED BY <1>1, <1>2, LockStays DEF Ours, CopyInv

\* What the operator holds, its status follows only where it completes.
LEMMA CurrentKept ==
  ASSUME Calm, CopyInv, LockedCopy, Next, Ours'
  PROVE  /\ Like(status', status) \/ Begun \/ GivenUp \/ Completed
         /\ status'.current = status.current \/ Completed
  <1>1. cr.exists /\ cr'.exists
    BY OursBack
  <1>2. ~Adopted
    <2> SUFFICES ASSUME Adopted PROVE FALSE
      OBVIOUS
    <2>1. pc = "adopt" /\ pc' = "idle" /\ cr' = cr
      BY DEF Adopted
    <2>2. cr.readonly
      BY <1>1, <2>1 DEF LockedCopy, CopyInv, Tracked
    <2> QED BY <2>1, <2>2 DEF Ours
  <1> QED BY <1>1, <1>2, StatusEffect DEF StatusStep, Like, LikeTold, Begun, GivenUp

\* The operator's work is on a CR that is there.
LEMMA AtWork ==
  ASSUME OwnerInv
  PROVE  pc \in Working \/ Decide => Ours /\ cr.exists
  BY DEF OwnerInv, OwnerRest, CopyHolds, Working, Decide, Ours

LEMMA DecideOnStatus ==
  ASSUME OwnerInv, CopyInv, Decide
  PROVE  /\ seen.status.prog = status.prog /\ seen.status.current = status.current
         /\ Active(seen.status) <=> Active(status)
  <1>1. cr.exists
    BY AtWork
  <1>2. pc = "decide"
    BY DEF Decide
  <1>3. seen.status.prog = status.prog /\ LikeTold(seen.status, status)
    BY <1>1, <1>2 DEF CopyInv, Tracked, Dated, Looking
  <1> QED BY <1>3 DEF LikeTold, Active

LEMMA SeenRecord ==
  ASSUME TypeOK, NEW st \in {"deployed", "failed", "pending"},
         Add(Record(seen.cr.version, seen.cr.values, st))
  PROVE  /\ Revision' = Revision + 1 /\ Revision \in Nat /\ Top'.status = st
         /\ Revision > 0 => Previous' = Top
  <1>1. Record(seen.cr.version, seen.cr.values, st) \in Records
        /\ Record(seen.cr.version, seen.cr.values, st).status = st
    BY SeenOK DEF Record, Records, CRs
  <1> QED BY <1>1, AddAt

LEMMA RolledBack ==
  ASSUME Calm, CopyInv, RollBack, Revision > 1
  PROVE  /\ Top' = Record(Previous.version, Previous.values, "deployed")
         /\ Top'.status = "deployed" /\ history'[Revision + 1] = Top'
         /\ pc' = "rolled back" /\ UNCHANGED why
  <1>1. ~(Revision <= 1)
    BY RevisionOK, TypeParts DEF CopyInv
  <1>2. Add(Record(Previous.version, Previous.values, "deployed")) /\ Go("rolled back")
    BY <1>1, CalmExcludes, Zenon DEF RollBack
  <1>3. /\ Record(Previous.version, Previous.values, "deployed") \in Records
        /\ Record(Previous.version, Previous.values, "deployed").status = "deployed"
    BY PreviousNamed DEF CopyInv, Record, Records
  <1> QED BY <1>2, <1>3, AddAt DEF CopyInv, Go

\* Where a reconcile comes to a call, and where it goes from there.
LEMMA IntoCalls ==
  ASSUME Next
  PROVE  /\ pc' = "install" => pc = "install" \/ BeginInstall
         /\ pc' = "upgrade" => pc = "upgrade" \/ BeginUpgrade
  <1>1. CASE Return \/ UNCHANGED pc
    BY <1>1 DEF Return
  <1>2. ASSUME NEW x, x # "install", x # "upgrade",
               Go(x) \/ pc' \in {"decide", "adopt", "delete", "patch version"}
        PROVE  pc' # "install" /\ pc' # "upgrade"
    BY <1>2 DEF Go
  <1>3. CASE BeginInstall \/ BeginUpgrade
    BY <1>3 DEF BeginInstall, BeginUpgrade, Return
  <1>4. CASE Reconcile
    <2>1. CASE Read \/ AddFinalizer \/ StartMigration \/ Install \/ CheckProgress \/ LockOverdue
               \/ RollBackOverdue \/ Revert \/ RevertFails
      BY <1>1, <1>2, <2>1 DEF Read, AddFinalizer, StartMigration, Install, CheckProgress, Complete,
         GiveUp, LockOverdue, RollBackOverdue, Revert, RevertFails, Rollback
    <2>2. CASE Upgrade \/ TakeRequest \/ NothingToRollBack \/ PatchVersion \/ PatchVersionFails
               \/ RollBack \/ FinishRollback \/ Observe \/ Adopt \/ Uninstall \/ DropFinalizer
      BY <1>1, <1>2, <2>2 DEF Upgrade, TakeRequest, NothingToRollBack, PatchVersion,
         PatchVersionFails, RollBack, FinishRollback, Observe, Adopt, Uninstall, DropFinalizer,
         Rollback
    <2> QED BY <1>3, <1>4, <2>1, <2>2 DEF Reconcile
  <1>5. CASE Interference
    BY <1>5 DEF Interference, SetsVersion, SetsValues, SetsReadonly, Deletes, AsksRollback,
       OthersUninstall, OthersRepair
  <1> QED BY <1>1, <1>4, <1>5 DEF Next, DryRunFails, Stop, Deadline

LEMMA IntoUndoing ==
  ASSUME Next, Undoing'
  PROVE  \/ PatchVersion \/ TakeRequest \/ CheckProgress \/ RollBackOverdue \/ Upgrade
         \/ UNCHANGED <<pc, why>> /\ (Interference \/ Deadline)
  <1>1. CASE Reconcile
    BY <1>1 DEF Undoing, Reconcile, Read, AddFinalizer, StartMigration, BeginInstall, Install,
       LockOverdue, BeginUpgrade, Revert, RevertFails, NothingToRollBack, PatchVersionFails,
       RollBack, FinishRollback, Observe, Adopt, Uninstall, DropFinalizer, Return, Go, Decide
  <1>2. CASE Interference
    BY <1>2 DEF Interference, SetsVersion, SetsValues, SetsReadonly, Deletes, AsksRollback,
       OthersUninstall, OthersRepair
  <1> QED BY <1>1, <1>2 DEF Next, DryRunFails, Stop, Deadline, Return, Undoing

LEMMA OutOfUndoing ==
  ASSUME Next, Undoing, ~Undoing'
  PROVE  NothingToRollBack \/ PatchVersionFails \/ RollBack \/ Stop
  <1>1. CASE Reconcile
    BY <1>1 DEF Undoing, Reconcile, Read, AddFinalizer, StartMigration, BeginInstall, Install,
       CheckProgress, LockOverdue, RollBackOverdue, BeginUpgrade, Upgrade, Revert, RevertFails,
       TakeRequest, PatchVersion, FinishRollback, Observe, Adopt, Uninstall, DropFinalizer,
       Decide, Quiet, Go
  <1>2. CASE Interference
    BY <1>2 DEF Undoing, Interference, SetsVersion, SetsValues, SetsReadonly, Deletes,
       AsksRollback, OthersUninstall, OthersRepair
  <1> QED BY <1>1, <1>2 DEF Next, DryRunFails, Deadline, Decide, Undoing

LEMMA IntoAsked == ASSUME Next, Asked' PROVE Asked \/ TakeRequest
  <1>1. CASE Reconcile
    BY <1>1 DEF Asked, Section, Reconcile, Read, AddFinalizer, StartMigration, BeginInstall,
       Install, CheckProgress, Complete, GiveUp, LockOverdue, RollBackOverdue, BeginUpgrade,
       Upgrade, Revert, RevertFails, NothingToRollBack, PatchVersion, PatchVersionFails, RollBack,
       FinishRollback, Observe, Adopt, Uninstall, DropFinalizer, Return, Rollback, Go
  <1>2. CASE Interference
    BY <1>2 DEF Asked, Interference, SetsVersion, SetsValues, SetsReadonly, Deletes,
       AsksRollback, OthersUninstall, OthersRepair
  <1> QED BY <1>1, <1>2 DEF Next, DryRunFails, Stop, Deadline, Return, Asked, Section

LEMMA OneCause == ASSUME Next, pc \in Section, pc' \in Section PROVE UNCHANGED why
  <1>1. CASE Reconcile
    BY <1>1 DEF Section, Reconcile, Read, AddFinalizer, StartMigration, BeginInstall, Install,
       CheckProgress, LockOverdue, RollBackOverdue, BeginUpgrade, Upgrade, Revert, RevertFails,
       TakeRequest, NothingToRollBack, PatchVersion, PatchVersionFails, RollBack, FinishRollback,
       Observe, Adopt, Uninstall, DropFinalizer, Return, Decide, Quiet, Go
  <1>2. CASE Interference
    BY <1>2 DEF Interference, SetsVersion, SetsValues, SetsReadonly, Deletes, AsksRollback,
       OthersUninstall, OthersRepair
  <1> QED BY <1>1, <1>2 DEF Next, DryRunFails, Stop, Deadline, Return, Section

LEMMA AfterRollback ==
  ASSUME Next, pc = "rolled back"
  PROVE  FinishRollback \/ Stop \/ UNCHANGED <<pc, why>>
  <1>1. CASE Reconcile
    BY <1>1 DEF Reconcile, Read, AddFinalizer, StartMigration, BeginInstall, Install,
       CheckProgress, LockOverdue, RollBackOverdue, BeginUpgrade, Upgrade, Revert, RevertFails,
       TakeRequest, NothingToRollBack, PatchVersion, PatchVersionFails, RollBack,
       Observe, Adopt, Uninstall, DropFinalizer, Decide, Quiet
  <1>2. CASE Interference
    BY <1>2 DEF Interference, SetsVersion, SetsValues, SetsReadonly, Deletes, AsksRollback,
       OthersUninstall, OthersRepair
  <1> QED BY <1>1, <1>2 DEF Next, DryRunFails, Deadline, Decide

LEMMA TimePasses == ASSUME TypeOK, Next, overdue', ~overdue PROVE Deadline
  <1>1. CASE Reconcile
    BY <1>1 DEF Reconcile, Read, AddFinalizer, StartMigration, BeginInstall, Install,
       CheckProgress, LockOverdue, RollBackOverdue, BeginUpgrade, Upgrade, Revert, RevertFails,
       TakeRequest, NothingToRollBack, PatchVersion, PatchVersionFails, RollBack, FinishRollback,
       Observe, Adopt, Uninstall, DropFinalizer
  <1>2. CASE Interference
    BY <1>2 DEF Interference, SetsVersion, SetsValues, SetsReadonly, Deletes, AsksRollback,
       OthersUninstall, OthersRepair
  <1> QED BY <1>1, <1>2 DEF Next, DryRunFails, Stop

LEMMA CountOK ==
  ASSUME HelmOK
  PROVE  Revision \in Nat /\ (Released => Revision > 0) /\ (~Released => Revision = 0)
  BY DEF HelmOK, Released, Revision

LEMMA NoneLeft == history' = <<>> => Revision' = 0 /\ ~Released'
  BY DEF Released, Revision

LEMMA UpgradeOverDeployed ==
  ASSUME Calm, RestInv, Upgrade, ~UNCHANGED history
  PROVE  /\ Top.status = "deployed" /\ Released
         /\ \E st \in {"deployed", "failed", "pending"} :
              /\ Add(Record(seen.cr.version, seen.cr.values, st))
              /\ st = "failed" => pc' = "patch version"
  <1> USE DEF RestInv, RestRest
  <1>1. pc = "upgrade" /\ Ours /\ cr.exists
    BY AtWork DEF Upgrade, Working
  <1>2. status.current # None
    <2>1. LikeTold(seen.status, status)
      BY <1>1 DEF CopyInv, Dated
    <2> QED BY <1>1, <2>1, Zenon DEF Decided, LikeTold
  <1>3. /\ Released /\ Top.status # "pending"
        /\ \E st \in {"deployed", "failed", "pending"} :
             /\ Add(Record(seen.cr.version, seen.cr.values, st))
             /\ st = "failed" => pc' = "patch version"
    BY DEF Upgrade, Rollback
  <1>4. Top.status # "failed"
    BY <1>1, <1>2, <1>3 DEF Unwell, Doubtful, Undoing
  <1>5. Top.status = "deployed"
    BY <1>3, <1>4, TopOK, TypeParts DEF CopyInv, Records
  <1> QED BY <1>3, <1>5

LEMMA BackedStep == ASSUME Calm, RestInv, Next PROVE Backed'
  <1> USE DEF RestInv, RestRest
  <1>1. CASE UNCHANGED history
    BY <1>1 DEF Backed, Revision, Top, Previous
  <1>2. CASE Install
    <2>1. CASE UNCHANGED history
      BY <1>1, <2>1
    <2>2. CASE ~UNCHANGED history
      <3>1. PICK st \in {"deployed", "failed", "pending"} :
              Add(Record(seen.cr.version, seen.cr.values, st))
        BY <1>2, <2>2 DEF Install
      <3>2. Revision = 0
        <4>1. ~Released
          BY <1>2, <2>2 DEF Install
        <4> QED BY <4>1, CountOK, TypeParts DEF CopyInv
      <3> QED BY <3>1, <3>2, SeenRecord DEF Backed, CopyInv
    <2> QED BY <2>1, <2>2
  <1>3. CASE Upgrade
    <2>1. CASE ~UNCHANGED history
      <3>1. PICK st \in {"deployed", "failed", "pending"} :
              Add(Record(seen.cr.version, seen.cr.values, st))
        BY <1>3, <2>1, UpgradeOverDeployed
      <3>2. Top.status = "deployed" /\ Revision > 0
        BY <1>3, <2>1, UpgradeOverDeployed, CountOK, TypeParts DEF CopyInv
      <3>3. Previous' = Top
        BY <3>1, <3>2, SeenRecord DEF CopyInv
      <3> QED BY <3>2, <3>3 DEF Backed
    <2> QED BY <1>1, <2>1
  <1>4. CASE RollBack
    <2>1. CASE Revision > 1
      BY <1>4, <2>1, RolledBack DEF Backed
    <2>2. CASE ~(Revision > 1)
      BY <1>1, <1>4, <2>2 DEF RollBack
    <2> QED BY <2>1, <2>2
  <1>5. CASE Uninstall \/ OthersUninstall
    <2>1. history' = <<>>
      BY <1>5 DEF Uninstall, OthersUninstall
    <2>2. ~(Revision' > 1)
      BY <2>1, NoneLeft
    <2> QED BY <2>2, Zenon DEF Backed
  <1> QED BY <1>1, <1>2, <1>3, <1>4, <1>5, HistoryActions, CalmExcludes

LEMMA UnwellStep == ASSUME Calm, RestInv, Next PROVE Unwell'
  <1> USE DEF RestInv, RestRest
  <1> SUFFICES ASSUME Ours', Doubtful' PROVE status'.current = None
    BY DEF Unwell
  <1>0. Ours /\ cr.exists /\ cr'.exists
    BY OursBack
  <1>1. CASE UNCHANGED history
    <2>1. Released /\ UNCHANGED <<Top, Revision>> /\ Top.status # "deployed"
      BY <1>1 DEF Doubtful, Released, Top, Revision
    <2>2. Doubtful
      <3>1. CASE Revision = 1
        BY <2>1, <3>1 DEF Doubtful
      <3>2. CASE Revision # 1
        <4>1. Top.status = "failed" /\ ~Undoing'
          BY <2>1, <3>2 DEF Doubtful
        <4>2. ~Undoing
          <5> SUFFICES ASSUME Undoing PROVE FALSE
            OBVIOUS
          <5>1. Revision > 1
            BY <2>1, <3>2, TypeParts DEF CopyInv, Released, Revision, HelmOK
          <5>2. ~NothingToRollBack
            BY <3>2 DEF NothingToRollBack
          <5>3. ~RollBack
            BY <2>1, <5>1, RolledBack
          <5>4. ~PatchVersionFails
            <6> SUFFICES ASSUME PatchVersionFails PROVE FALSE
              OBVIOUS
            <6>1. cr.readonly /\ pc' = "idle"
              BY <2>1 DEF PatchVersionFails, Return
            <6> QED BY <1>0, <6>1, LockStays DEF Ours, CopyInv
          <5> QED BY <4>1, <5>2, <5>3, <5>4, OutOfUndoing, CalmExcludes
        <4> QED BY <2>1, <4>1, <4>2 DEF Doubtful
      <3> QED BY <3>1, <3>2
    <2>3. status.current = None
      BY <1>0, <2>2 DEF Unwell
    <2> QED BY <2>1, <2>3, CurrentKept DEF Completed
  <1>2. CASE ~UNCHANGED history /\ Install
    <2>1. pc = "install" /\ UNCHANGED status
      BY <1>2 DEF Install
    <2>2. LikeTold(seen.status, status) /\ seen.status.current = None
      BY <1>0, <2>1 DEF Decided, CopyInv, Dated
    <2> QED BY <2>1, <2>2 DEF LikeTold
  <1>3. CASE ~UNCHANGED history /\ Upgrade
    <2>1. PICK st \in {"deployed", "failed", "pending"} :
            /\ Add(Record(seen.cr.version, seen.cr.values, st))
            /\ st = "failed" => pc' = "patch version"
      BY <1>3, UpgradeOverDeployed
    <2>2. Top'.status = st /\ Revision' = Revision + 1 /\ Revision > 0 /\ Revision \in Nat
      BY <1>3, <2>1, SeenRecord, UpgradeOverDeployed, CountOK, TypeParts DEF CopyInv
    <2>3. Revision' # 1
      BY <2>2
    <2>4. st = "failed" => Undoing'
      BY <2>1, Zenon DEF Undoing
    <2> QED BY <2>2, <2>3, <2>4, Zenon DEF Doubtful
  <1>4. CASE ~UNCHANGED history /\ RollBack
    <2>1. Revision > 1
      BY <1>4 DEF RollBack
    <2> QED BY <1>4, <2>1, RolledBack DEF Doubtful
  <1>5. CASE Uninstall \/ OthersUninstall
    BY <1>5 DEF Uninstall, OthersUninstall, Doubtful, Released
  <1> QED BY <1>1, <1>2, <1>3, <1>4, <1>5, HistoryActions, CalmExcludes

LEMMA NotYetStep == ASSUME Calm, RestInv, Next PROVE NotYet'
  <1> USE DEF RestInv, RestRest
  <1> SUFFICES ASSUME Ours', status'.prog = "" PROVE status'.current = None
    BY DEF NotYet
  <1>0. Ours
    BY OursBack
  <1>1. ~Begun /\ ~Completed
    BY Zenon DEF Begun, Active, Completed
  <1>2. status'.prog = status.prog
    BY <1>1, CurrentKept, Zenon DEF Like, GivenUp
  <1> QED BY <1>0, <1>1, <1>2, CurrentKept, Zenon DEF NotYet

LEMMA DecidedStep == ASSUME Calm, RestInv, Next PROVE Decided'
  <1> USE DEF RestInv, RestRest
  <1>1. pc # "idle" /\ pc' # "idle" => seen'.status.current = seen.status.current
    <2>1. Read => pc = "idle"
      BY DEF Read
    <2> QED BY <2>1, LocalEffect DEF LocalStep, LikeTold, CopyInv
  <1>2. pc' = "install" => seen'.status.current = None
    <2>1. CASE pc = "install"
      BY <1>1, <2>1, Zenon DEF Decided
    <2>2. CASE BeginInstall
      <3>1. Decide /\ pc # "idle" /\ NeedsInstall(seen.status)
        BY <2>2 DEF BeginInstall, Decide
      <3>2. seen.status.current = None
        BY <3>1, DecideOnStatus, AtWork, Zenon DEF NeedsInstall, Fresh, NotYet
      <3> QED BY <1>1, <3>1, <3>2, Zenon
    <2> QED BY <2>1, <2>2, IntoCalls
  <1>3. pc' = "upgrade" => seen'.status.current # None
    <2>1. CASE pc = "upgrade"
      BY <1>1, <2>1, Zenon DEF Decided
    <2>2. CASE BeginUpgrade
      <3>1. pc # "idle" /\ seen.status.current # None
        BY <2>2, Zenon DEF BeginUpgrade, Decide, NeedsUpgrade
      <3> QED BY <1>1, <3>1, Zenon
    <2> QED BY <2>1, <2>2, IntoCalls
  <1> QED BY <1>2, <1>3, Zenon DEF Decided

LEMMA ToUndoStep == ASSUME Calm, RestInv, Next PROVE ToUndo'
  <1> USE DEF RestInv, RestRest
  <1> SUFFICES ASSUME Undoing', Released', why' # "asked" PROVE Top'.status # "deployed"
    BY DEF ToUndo
  <1>0. UNCHANGED history => UNCHANGED <<Top, Released>>
    BY DEF Top, Revision, Released
  <1>1. CASE PatchVersion
    <2>1. Undoing /\ UNCHANGED <<why, history>>
      BY <1>1 DEF PatchVersion, Undoing, Go
    <2> QED BY <1>0, <2>1 DEF ToUndo
  <1>2. CASE TakeRequest
    BY <1>2 DEF TakeRequest
  <1>3. CASE CheckProgress
    <2>1. ~Return
      BY DEF Return, Undoing
    <2>2. Top.status = "failed" /\ UNCHANGED history
      BY <1>3, <2>1 DEF CheckProgress, Complete, GiveUp
    <2> QED BY <1>0, <2>2
  <1>4. CASE RollBackOverdue
    <2>1. Decide /\ Active(seen.status) /\ overdue /\ UNCHANGED history
      BY <1>4 DEF RollBackOverdue, Active
    <2>2. Ours /\ Active(status) /\ Released /\ pc # "rolled back"
      BY <1>0, <2>1, AtWork, DecideOnStatus DEF Decide
    <2>3. Top.status = "pending"
      BY <2>1, <2>2 DEF Late, Stuck
    <2> QED BY <1>0, <2>1, <2>3
  <1>5. CASE Upgrade
    <2>1. CASE ~UNCHANGED history
      <3>1. PICK st \in {"deployed", "failed", "pending"} :
              Add(Record(seen.cr.version, seen.cr.values, st))
        BY <1>5, <2>1, UpgradeOverDeployed
      <3>2. Top'.status = st
        BY <3>1, SeenRecord DEF CopyInv
      <3>3. CASE st = "deployed"
        <4>1. \/ Add(Record(seen.cr.version, seen.cr.values, "failed"))
              \/ Add(Record(seen.cr.version, seen.cr.values, "pending"))
          BY <1>5, <2>1 DEF Upgrade, Return, Undoing
        <4> QED BY <4>1, SeenRecord DEF CopyInv
      <3> QED BY <3>2, <3>3
    <2>2. CASE UNCHANGED history
      <3>1. ~Return /\ ~Go("revert")
        BY DEF Return, Go, Undoing
      <3>2. \A st : ~Add(Record(seen.cr.version, seen.cr.values, st))
        <4>1. \A r : Append(history, r) # history
          BY TypeParts DEF CopyInv, HelmOK
        <4> QED BY <2>2, <4>1 DEF Add
      <3>3. Released => Top.status = "pending"
        BY <1>5, <3>1, <3>2, CalmExcludes, Zenon DEF Upgrade
      <3> QED BY <1>0, <2>2, <3>3
    <2> QED BY <2>1, <2>2
  <1>6. CASE UNCHANGED <<pc, why>> /\ (Interference \/ Deadline)
    <2>1. Undoing
      BY <1>6 DEF Undoing
    <2>2. UNCHANGED history
      <3>1. ~OthersUninstall
        BY DEF OthersUninstall, Released
      <3> QED BY <1>6, <3>1, CalmExcludes
              DEF Interference, Deadline, SetsVersion, SetsValues, SetsReadonly, Deletes,
                  AsksRollback
    <2> QED BY <1>0, <1>6, <2>1, <2>2 DEF ToUndo
  <1> QED BY <1>1, <1>2, <1>3, <1>4, <1>5, <1>6, IntoUndoing

LEMMA AskedIdleStep == ASSUME Calm, RestInv, OwnerInv', Next PROVE AskedIdle'
  <1> USE DEF RestInv, RestRest
  <1> SUFFICES ASSUME Asked' PROVE ~Active(status')
    BY DEF AskedIdle
  <1>0. Ours' /\ cr'.exists
    BY DEF OwnerInv, OwnerRest, CopyHolds, Working, Asked, Section, Ours
  <1>1. pc' # "idle"
    BY DEF Asked, Section
  <1>2. CASE Asked
    <2>1. ~Begun
      BY <1>2 DEF Begun, StartMigration, BeginInstall, BeginUpgrade, Decide, Asked, Mending, Section
    <2>2. Like(status', status)
      BY <1>0, <1>1, <2>1, CurrentKept DEF GivenUp, Completed
    <2> QED BY <1>2, <2>2, Zenon DEF AskedIdle, Like, Active
  <1>3. CASE TakeRequest
    <2>1. Decide /\ ~Active(seen.status)
      BY <1>3 DEF TakeRequest, Resting, AtRest
    <2>2. cr.exists
      BY <2>1, AtWork
    <2>3. status' = [seen EXCEPT !.status.rollback = FALSE].status
      BY <1>3, <2>2, WriteIs DEF TakeRequest
    <2>4. Like(status', seen.status)
      BY <2>3, ProgLike DEF CopyInv
    <2> QED BY <2>1, <2>4, Zenon DEF Like, Active
  <1> QED BY <1>2, <1>3, IntoAsked

\* An operation begun, or its flag rewritten, does not outlast its deadline.
LEMMA LateActive ==
  ASSUME Calm, RestInv, Next, Ours', overdue, overdue', Active(status'),
         Mending => why = "overdue"
  PROVE  Active(status)
  <1> USE DEF RestInv, RestRest
  <1>1. CASE Like(status', status)
    BY <1>1, Zenon DEF Like, Active
  <1>2. CASE Begun
    <2>1. ~StartMigration /\ ~(Mending /\ FinishRollback)
      <3>1. Mending => ~FinishRollback
        BY CalmExcludes DEF FinishRollback, WritesFail
      <3> QED BY <3>1, Zenon DEF StartMigration
    <2>2. BeginInstall \/ BeginUpgrade => UNCHANGED status
      BY DEF BeginInstall, BeginUpgrade
    <2>3. UNCHANGED status
      BY <1>2, <2>1, <2>2, Zenon DEF Begun
    <2> QED BY <2>3, Zenon DEF Active
  <1>3. CASE GivenUp \/ Completed
    BY <1>3, Zenon DEF GivenUp, Completed, Active
  <1> QED BY <1>1, <1>2, <1>3, CurrentKept

LEMMA StuckStep ==
  ASSUME Calm, RestInv, Next, Ours', overdue, overdue', Released, Released'
  PROVE  Stuck'
  <1> USE DEF RestInv, RestRest
  <1>0. Ours /\ cr.exists /\ Stuck
    BY OursBack DEF Late
  <1>1. status'.prog = "done" => status'.current = None
    <2> SUFFICES ASSUME status'.prog = "done" PROVE status'.current = None
      OBVIOUS
    <2>1. ~Completed /\ ~Begun
      BY Zenon DEF Completed, Begun, Active
    <2>2. CASE status.prog = "done"
      BY <1>0, <2>1, <2>2, CurrentKept, Zenon DEF Stuck
    <2>3. CASE status.prog # "done"
      <3>1. CheckProgress \/ (NothingToRollBack /\ why = "overdue")
        BY <2>1, <2>3, CurrentKept, Zenon DEF Like, GivenUp
      <3>2. NothingToRollBack /\ why = "overdue"
        BY <3>1 DEF CheckProgress
      <3>3. Undoing /\ Revision = 1
        BY <3>2 DEF NothingToRollBack, Undoing
      <3>4. Doubtful
        BY <3>2, <3>3 DEF Doubtful, ToUndo
      <3> QED BY <1>0, <2>1, <3>4, CurrentKept, Zenon DEF Unwell
    <2> QED BY <2>2, <2>3
  <1>2. Active(status') => Top'.status = "pending" \/ (pc' = "rolled back" /\ why' = "overdue")
    <2> SUFFICES ASSUME Active(status')
                 PROVE  Top'.status = "pending" \/ (pc' = "rolled back" /\ why' = "overdue")
      OBVIOUS
    <2>1. Active(status)
      BY <1>0, LateActive DEF Stuck
    <2>2. CASE Top.status = "pending"
      <3>1. CASE UNCHANGED history
        BY <2>2, <3>1 DEF Top, Revision
      <3>2. CASE RollBack /\ ~UNCHANGED history
        <4>1. Revision > 1 /\ pc = "roll back"
          BY <3>2 DEF RollBack
        <4>2. why = "overdue"
          BY <1>0, <2>1, <4>1 DEF Stuck, AskedIdle, Asked, Mending, Section
        <4> QED BY <3>2, <4>1, <4>2, RolledBack
      <3>3. CASE Install
        BY <3>1, <3>3 DEF Install
      <3>4. CASE Upgrade
        BY <1>0, <3>4 DEF Upgrade, Stuck
      <3>5. CASE Uninstall \/ OthersUninstall
        BY <3>5, NoneLeft DEF Uninstall, OthersUninstall
      <3> QED BY <3>1, <3>2, <3>3, <3>4, <3>5, HistoryActions, CalmExcludes
    <2>3. CASE pc = "rolled back" /\ why = "overdue"
      <3>1. ~FinishRollback
        BY <2>3, CalmExcludes DEF FinishRollback, WritesFail
      <3> QED BY <2>3, <3>1, AfterRollback, CalmExcludes
    <2> QED BY <1>0, <2>1, <2>2, <2>3 DEF Stuck
  <1>3. pc' # "upgrade"
    <2> SUFFICES ASSUME BeginUpgrade, pc' = "upgrade" PROVE FALSE
      BY <1>0, IntoCalls DEF Stuck
    <2>1. Decide /\ AtRest(seen.status) /\ seen.status.current # None
      BY Zenon DEF BeginUpgrade, NeedsUpgrade
    <2>2. status.current # None /\ ~Active(status)
      BY <2>1, DecideOnStatus DEF AtRest
    <2>3. status.prog \in {"", "done"}
      BY <2>2, NumbersOK DEF Statuses, Active, CopyInv
    <2> QED BY <1>0, <2>2, <2>3, Zenon DEF NotYet, Stuck
  <1>4. Mending' => why' = "overdue"
    <2> SUFFICES ASSUME Mending' PROVE why' = "overdue"
      OBVIOUS
    <2>1. CASE Mending
      BY <1>0, <2>1, OneCause DEF Stuck, Mending
    <2>2. CASE ~Mending
      <3>1. ~CheckProgress /\ ~BeginUpgrade
        BY DEF CheckProgress, BeginUpgrade, Mending, Section, Return
      <3>2. RollBackOverdue
        BY <1>0, <2>2, <3>1, IntoRepair DEF Stuck
      <3> QED BY <3>2 DEF RollBackOverdue, Rollback
    <2> QED BY <2>1, <2>2
  <1> QED BY <1>1, <1>2, <1>3, <1>4 DEF Stuck

LEMMA LateStep == ASSUME Calm, RestInv, Next PROVE Late'
  <1> USE DEF RestInv, RestRest
  <1> SUFFICES ASSUME Ours', overdue'
               PROVE  (pc' = "install" => ~Active(status')) /\ (Released' => Stuck')
    BY DEF Late
  <1>0. Ours /\ cr.exists
    BY OursBack
  <1>1. CASE ~overdue
    <2>1. Deadline
      BY <1>1, TimePasses DEF CopyInv
    <2>2. /\ pc \in {"idle", "decide"} /\ (Released => Top.status = "pending") /\ Active(status)
          /\ UNCHANGED <<status, history, pc, why>>
      BY <2>1 DEF Deadline, Calm, local
    <2>3. /\ pc' # "install" /\ pc' # "upgrade" /\ ~Mending' /\ status'.prog # "done"
          /\ UNCHANGED <<Released, Top>>
      BY <2>2 DEF Mending, Section, Active, Released, Top, Revision
    <2> QED BY <2>2, <2>3, Zenon DEF Stuck
  <1>2. CASE overdue
    <2>1. ASSUME pc' = "install" PROVE ~Active(status')
      <3>1. ~Active(status) /\ ~Mending
        <4>1. CASE pc = "install"
          BY <1>0, <1>2, <4>1 DEF Late, Mending, Section
        <4>2. CASE BeginInstall
          <5>1. Decide /\ ~Active(seen.status)
            <6>1. Decide /\ NeedsInstall(seen.status)
              BY <4>2 DEF BeginInstall
            <6>2. Fresh(seen.status) \/ AtRest(seen.status)
              BY <6>1, Zenon DEF NeedsInstall
            <6> QED BY <6>1, <6>2, Zenon DEF Fresh, AtRest, Active
          <5> QED BY <5>1, DecideOnStatus DEF Decide, Mending, Section
        <4> QED BY <2>1, <4>1, <4>2, IntoCalls
      <3> QED BY <1>2, <3>1, LateActive
    <2>2. ASSUME Released' PROVE Stuck'
      <3>1. CASE Released
        BY <1>2, <2>2, <3>1, StuckStep
      <3>2. CASE ~Released
        <4>1. pc = "install" /\ pc' = "idle" /\ UNCHANGED status
          BY <2>2, <3>2, FirstRelease DEF Install, Return
        <4>2. status.current = None
          <5>1. LikeTold(seen.status, status)
            BY <1>0, <4>1 DEF CopyInv, Dated
          <5> QED BY <4>1, <5>1, Zenon DEF Decided, LikeTold
        <4>3. ~Active(status') /\ status'.current = None
          BY <1>0, <1>2, <4>1, <4>2, Zenon DEF Late, Active
        <4>4. pc' # "upgrade" /\ ~Mending'
          BY <4>1 DEF Mending, Section
        <4> QED BY <4>3, <4>4, Zenon DEF Stuck
      <3> QED BY <3>1, <3>2
    <2> QED BY <2>1, <2>2
  <1> QED BY <1>1, <1>2

LEMMA RestInit == Init => RestInv
  <1> SUFFICES ASSUME Init PROVE RestRest
    BY OwnerInit, CopyInit DEF RestInv
  <1>1. BlankStatus.current = None
    BY Zenon DEF BlankStatus
  <1>2. pc = "idle" /\ status = BlankStatus /\ ~overdue
    BY Zenon DEF Init
  <1>3. history = <<>> \/ \E r : history = <<r>>
    BY Zenon DEF Init
  <1>4. ~(Revision > 1)
    <2>1. Len(<<>>) = 0 /\ \A r : Len(<<r>>) = 1
      OBVIOUS
    <2>2. Revision = 0 \/ Revision = 1
      BY <1>3, <2>1, Zenon DEF Revision
    <2> QED BY <2>2
  <1>5. Backed
    BY <1>4, Zenon DEF Backed
  <1> QED BY <1>1, <1>2, <1>5, Zenon
          DEF RestRest, LockedCopy, Unwell, NotYet, Decided, ToUndo, Undoing, AskedIdle, Asked,
              Section, Late

LEMMA RestStep == ASSUME Calm, RestInv, [Next]_vars PROVE RestInv'
  <1>0. OwnerInv' /\ CopyInv'
    BY OwnerStep, CopyStep DEF RestInv
  <1>1. CASE Next
    <2>1. LockedCopy'
      BY <1>1, LockedCopyStep DEF RestInv, RestRest
    <2> QED BY <1>0, <1>1, <2>1, BackedStep, UnwellStep, NotYetStep, DecidedStep, ToUndoStep,
               AskedIdleStep, LateStep DEF RestInv, RestRest
  <1>2. CASE UNCHANGED vars
    <2>1. UNCHANGED <<cr, status, overdue, history, pc, why, seen>>
      BY <1>2 DEF vars, local
    <2>2. UNCHANGED <<Released, Revision, Top, Previous>>
      BY <2>1, Zenon DEF Released, Revision, Top, Previous
    <2>3. UNCHANGED <<Ours, Undoing, Mending, Asked>>
      BY <2>1, Zenon DEF Ours, Undoing, Mending, Asked, Section
    <2>4. UNCHANGED Doubtful /\ (Stuck => Stuck')
      BY <2>1, <2>2, <2>3, Zenon DEF Doubtful, Stuck, Active
    <2> QED BY <1>0, <2>1, <2>2, <2>3, <2>4, Zenon
            DEF RestInv, RestRest, LockedCopy, Backed, Unwell, NotYet, Decided, ToUndo, AskedIdle,
                Late, Active
  <1> QED BY <1>1, <1>2

LEMMA LastButOne ==
  \A n \in Nat :
    /\ n > 1 => n # 0
    /\ \A d \in 1..n : d # n /\ ~(n - 1 \in d + 1..n) => d = n - 1
  OBVIOUS

\* Of the last two revisions the former is the last deployed one.
LEMMA RollsBackToLast ==
  ASSUME Calm, RestInv, Next, pc = "roll back", pc' = "rolled back", why # "asked",
         NEW d \in LastDeployed
  PROVE  history'[Revision + 1] = history[d]
  <1> USE DEF RestInv, RestRest
  <1>1. RollBack
    <2>1. Undoing /\ ~Undoing' /\ ~NothingToRollBack /\ ~PatchVersionFails
      BY DEF Undoing, NothingToRollBack, PatchVersionFails
    <2> QED BY <2>1, OutOfUndoing, CalmExcludes
  <1>2. Revision > 1 /\ Revision \in Nat
    <2>1. CASE ~(Revision > 1)
      BY <1>1, <2>1 DEF RollBack, Return
    <2> QED BY <2>1, CountOK, TypeParts DEF CopyInv
  <1>3. Released
    <2>1. ~Released => Revision = 0
      BY CountOK, TypeParts, Zenon DEF CopyInv
    <2> QED BY <1>2, <2>1, LastButOne, Zenon
  <1>4. Top.status # "deployed" /\ Previous.status = "deployed"
    BY <1>2, <1>3 DEF ToUndo, Undoing, Backed
  <1>5. /\ d \in 1..Revision /\ history[d].status = "deployed"
        /\ \A i \in d + 1..Revision : history[i].status # "deployed"
    BY DEF LastDeployed
  <1>6. d = Revision - 1
    <2>1. d # Revision
      BY <1>4, <1>5 DEF Top
    <2>2. ~(Revision - 1 \in d + 1..Revision)
      BY <1>4, <1>5 DEF Previous
    <2> QED BY <1>2, <1>5, <2>1, <2>2, LastButOne, Zenon
  <1>7. Previous = Record(Previous.version, Previous.values, "deployed")
    BY <1>2, <1>4, PreviousOK, TypeParts DEF CopyInv, Records, Record
  <1>8. history'[Revision + 1] = Record(Previous.version, Previous.values, "deployed")
    BY <1>1, <1>2, RolledBack
  <1> QED BY <1>6, <1>7, <1>8 DEF Previous

\* A rollback that nobody asked for restores the last revision that was deployed
\* (rollback), provided that nobody unlocks or repairs the release meanwhile, that
\* charts are there, that nobody stops, that rollbacks go through, and that no
\* deadline passes unattended: each of these can leave two revisions in a row that
\* are not deployed, or start a rollback over one that is.
THEOREM LastDeployedRestored ==
  ASSUME Calm
  PROVE  Spec => RestoresLastDeployed
  <1> DEFINE Restores == pc = "roll back" /\ pc' = "rolled back" /\ why # "asked"
                           => \A d \in LastDeployed : history'[Revision + 1] = history[d]
  <1>1. Init => RestInv
    BY RestInit
  <1>2. RestInv /\ [Next]_vars => RestInv'
    BY RestStep
  <1>3. RestInv /\ [Next]_vars => [Restores]_vars
    BY RollsBackToLast
  <1>4. Spec => [][Restores]_vars
    BY <1>1, <1>2, <1>3, PTL DEF Spec
  <1> QED BY <1>4 DEF RestoresLastDeployed

==============================================================================
