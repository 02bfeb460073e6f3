----------------------- MODULE UmbrellaMigrationProofs -----------------------
(***************************************************************************)
(* Theorems about UmbrellaMigration, for every set of covered charts, every *)
(* set of modes and every behaviour of users and clusters the constants     *)
(* allow, unless a theorem names what it assumes of them.                   *)
(***************************************************************************)
EXTENDS UmbrellaMigration, TLAPS

USE DEF umbrellaCR, subCRs, releases, locals, history

(* What TypeOK says of the umbrella CR and of the running reconcile. *)

Specs    == [exists : BOOLEAN, deleting : BOOLEAN, migrate : BOOLEAN, readonly : BOOLEAN,
             guard : BOOLEAN, cleanup : BOOLEAN]
Statuses == [phase : Phases, mode : Modes \cup {NoMode}, absorbed : SUBSET Covered,
             cond : Reasons]
Copies   == [guard : BOOLEAN, readonly : BOOLEAN, cleanup : BOOLEAN,
             mode : Modes \cup {NoMode}, absorbed : SUBSET Covered]

CROK     == cr \in Specs /\ status \in Statuses /\ overdue \in BOOLEAN /\ clusterUp \in BOOLEAN
LocalsOK == pc \in PCs /\ todo \in SUBSET Parts /\ present \in SUBSET Subcomponents
            /\ seen \in Copies
RestOK   == /\ kept \in SUBSET Subcomponents /\ locked \in SUBSET kept
            /\ individual \in SUBSET Subcomponents /\ standalone \in SUBSET Covered
            /\ umbrella \in [release : {"absent", "pending", "deployed", "failed"},
                             renders : Modes \cup {NoMode}]
            /\ agentPods \in {"none", "individual", "umbrella"}
            /\ ever \in SUBSET Parts /\ unresolved \in SUBSET (Covered \cup {Umbrella})

LEMMA TypeParts == TypeOK <=> CROK /\ LocalsOK /\ RestOK
  BY DEF TypeOK, CROK, LocalsOK, RestOK, Specs, Statuses, Copies

LEMMA TypePartsNext == TypeOK' <=> CROK' /\ LocalsOK' /\ RestOK'
  BY DEF TypeOK, CROK, LocalsOK, RestOK, Specs, Statuses, Copies

\* The constants of the program the provers need to tell apart.
LEMMA Names ==
  /\ Agent \in Subcomponents /\ Subcomponents \subseteq Parts /\ Covered \subseteq Parts
  /\ {None, MarkReadonlyP, UninstallP, InstallP, VerifyP, FinalizeP, RolledBackP} \subseteq Phases
  /\ {"none", "progress", "blocked", "degraded", "succeeded", "failed"} \subseteq Reasons
  BY DEF Subcomponents, Parts, Phases, Reasons

\* The modes a derivation can choose are modes.
LEMMA Choosable == \A S : CoveringModes(S) \subseteq Modes
  BY DEF CoveringModes

\* What InstalledSubcomponents reports is installed.
LEMMA VisibleInstalled == \A p \in Visible : p \subseteq individual
  BY DEF Visible

------------------------------------------------------------------------------
(* The helpers keep the type. *)

LEMMA ReturnOK == Return => LocalsOK'
  BY DEF Return, LocalsOK, Blank, Copies, PCs, NoMode

LEMMA CopyOK ==
  ASSUME CROK
  PROVE  [guard |-> cr.guard, readonly |-> cr.readonly, cleanup |-> cr.cleanup,
          mode |-> status.mode, absorbed |-> status.absorbed] \in Copies
  BY DEF CROK, Specs, Statuses, Copies

LEMMA EnterOK ==
  ASSUME CROK, NEW next \in PCs, Enter(next), todo' = {}, present' = {}
  PROVE  LocalsOK'
  BY CopyOK DEF Enter, LocalsOK

LEMMA ReleasedOK == \A c \in Specs : Released(c) \in Specs
  <1> SUFFICES ASSUME NEW c \in Specs PROVE Released(c) \in Specs
    OBVIOUS
  <1>1. (c.exists /\ (~c.deleting \/ c.guard \/ c.cleanup)) \in BOOLEAN
    OBVIOUS
  <1> QED BY <1>1 DEF Released, Specs

LEMMA PhaseOK ==
  ASSUME NEW p \in Phases, status \in Statuses
  PROVE  [status EXCEPT !.phase = p, !.cond = "progress"] \in Statuses
  BY Names DEF Statuses

LEMMA SetPhaseOK ==
  ASSUME TypeOK, NEW p \in Phases, SetPhase(p)
  PROVE  TypeOK'
  <1>1. CROK'
    BY TypeParts, PhaseOK DEF SetPhase, CROK
  <1>2. LocalsOK'
    BY ReturnOK DEF SetPhase
  <1>3. RestOK'
    BY TypeParts DEF SetPhase, RestOK
  <1> QED BY <1>1, <1>2, <1>3, TypePartsNext

LEMMA SetMigratingFalseOK ==
  ASSUME TypeOK, NEW r \in Reasons, SetMigratingFalse(r)
  PROVE  TypeOK'
  <1>1. CROK'
    BY TypeParts DEF SetMigratingFalse, CROK, Statuses
  <1>2. LocalsOK'
    BY ReturnOK DEF SetMigratingFalse
  <1>3. RestOK'
    BY TypeParts DEF SetMigratingFalse, RestOK
  <1> QED BY <1>1, <1>2, <1>3, TypePartsNext

LEMMA WriteTerminalOK ==
  ASSUME TypeOK, NEW p \in Phases, NEW r \in Reasons, WriteTerminal(p, r)
  PROVE  TypeOK'
  <1>1. CROK'
    BY TypeParts DEF WriteTerminal, CROK, Statuses
  <1>2. LocalsOK'
    BY ReturnOK DEF WriteTerminal
  <1>3. RestOK'
    BY TypeParts DEF WriteTerminal, RestOK
  <1> QED BY <1>1, <1>2, <1>3, TypePartsNext

LEMMA ClearSpecOK ==
  ASSUME TypeOK, NEW next \in PCs, ClearSpec(next)
  PROVE  TypeOK'
  <1>1. CROK'
    <2>1. [cr EXCEPT !.migrate = FALSE, !.readonly = FALSE, !.guard = FALSE] \in Specs
      BY TypeParts DEF CROK, Specs
    <2> QED BY <2>1, TypeParts, ReleasedOK DEF ClearSpec, CROK
  <1>2. LocalsOK'
    BY TypeParts DEF ClearSpec, LocalsOK
  <1>3. RestOK'
    BY TypeParts DEF ClearSpec, RestOK
  <1> QED BY <1>1, <1>2, <1>3, TypePartsNext

------------------------------------------------------------------------------
(* The actions keep the type. *)

LEMMA MarkReadonlyDoneOK == TypeOK /\ MarkReadonlyDone => TypeOK'
  BY SetPhaseOK, Names DEF MarkReadonlyDone

LEMMA UninstallDoneOK == TypeOK /\ UninstallDone => TypeOK'
  BY SetPhaseOK, Names DEF UninstallDone

LEMMA InstallDoneOK == TypeOK /\ InstallDone => TypeOK'
  BY SetPhaseOK, Names DEF InstallDone

LEMMA VerifyDoneOK == TypeOK /\ VerifyDone => TypeOK'
  BY SetPhaseOK, Names DEF VerifyDone

LEMMA WriteSuccessOK == TypeOK /\ WriteSuccess => TypeOK'
  BY WriteTerminalOK, Names DEF WriteSuccess

LEMMA WriteFailureOK == TypeOK /\ WriteFailure => TypeOK'
  BY WriteTerminalOK, Names DEF WriteFailure

LEMMA RepairStatusOK == TypeOK /\ RepairStatus => TypeOK'
  BY WriteTerminalOK, Names DEF RepairStatus

LEMMA ClearAfterSuccessOK == TypeOK /\ ClearAfterSuccess => TypeOK'
  BY ClearSpecOK, Names DEF ClearAfterSuccess, PCs

LEMMA ClearAfterRollbackOK == TypeOK /\ ClearAfterRollback => TypeOK'
  BY ClearSpecOK, Names DEF ClearAfterRollback, PCs

LEMMA DegradeOK == TypeOK /\ Degrade => TypeOK'
  BY SetMigratingFalseOK, Names DEF Degrade

LEMMA PermissionGateOK == TypeOK /\ PermissionGate => TypeOK'
  <1> SUFFICES ASSUME TypeOK, PermissionGate PROVE TypeOK'
    OBVIOUS
  <1>1. CASE SetMigratingFalse("blocked")
    BY <1>1, SetMigratingFalseOK, Names
  <1>2. CASE pc' = "arm" /\ UNCHANGED <<umbrellaCR, subCRs, releases, todo, present, seen, history>>
    BY <1>2, TypeParts, TypePartsNext DEF CROK, LocalsOK, RestOK, PCs
  <1> QED BY <1>1, <1>2 DEF PermissionGate

LEMMA CheckUmbrellaOK == TypeOK /\ CheckUmbrella => TypeOK'
  <1> SUFFICES ASSUME TypeOK, CheckUmbrella PROVE TypeOK'
    OBVIOUS
  <1>1. CASE SetPhase(VerifyP)
    BY <1>1, SetPhaseOK, Names
  <1>2. CASE SetMigratingFalse("blocked")
    BY <1>2, SetMigratingFalseOK, Names
  <1>3. CASE /\ Enter("take over") /\ todo' = {} /\ present' = {}
             /\ UNCHANGED <<umbrellaCR, subCRs, releases, history>>
    <2>1. LocalsOK'
      BY <1>3, TypeParts, EnterOK DEF PCs
    <2>2. CROK' /\ RestOK'
      BY <1>3, TypeParts DEF CROK, RestOK
    <2> QED BY <2>1, <2>2, TypePartsNext
  <1> QED BY <1>1, <1>2, <1>3 DEF CheckUmbrella

LEMMA VerifyOK == TypeOK /\ Verify => TypeOK'
  <1> SUFFICES ASSUME TypeOK, Verify PROVE TypeOK'
    OBVIOUS
  <1>1. PICK next \in {"rollback", "verified"} : Enter(next)
    BY DEF Verify
  <1>2. LocalsOK'
    BY <1>1, TypeParts, EnterOK DEF Verify, PCs
  <1>3. CROK' /\ RestOK'
    BY TypeParts DEF Verify, CROK, RestOK
  <1> QED BY <1>2, <1>3, TypePartsNext

LEMMA SnapshotCoveredOK == TypeOK /\ SnapshotCovered => TypeOK'
  <1> SUFFICES ASSUME TypeOK, SnapshotCovered PROVE TypeOK'
    OBVIOUS
  <1> DEFINE recorded == IF status.absorbed = {} THEN standalone ELSE status.absorbed
  <1>1. recorded \in SUBSET Covered
    BY TypeParts DEF CROK, RestOK, Statuses
  <1>2. CROK'
    BY <1>1, TypeParts DEF SnapshotCovered, CROK, Statuses
  <1>3. LocalsOK'
    <2>1. todo' \subseteq Covered /\ present' \subseteq Subcomponents
      BY <1>1, TypeParts, VisibleInstalled DEF SnapshotCovered, RestOK
    <2>2. seen' = [guard |-> cr.guard, readonly |-> cr.readonly, cleanup |-> cr.cleanup,
                   mode |-> status.mode, absorbed |-> recorded]
      BY DEF SnapshotCovered
    <2>3. seen' \in Copies
      BY <1>1, <2>2, TypeParts DEF CROK, Specs, Statuses, Copies
    <2> QED BY <2>1, <2>3, Names DEF SnapshotCovered, LocalsOK, PCs
  <1>4. RestOK'
    BY TypeParts DEF SnapshotCovered, RestOK
  <1> QED BY <1>2, <1>3, <1>4, TypePartsNext

LEMMA AbandonOK == TypeOK /\ Abandon => TypeOK'
  <1> SUFFICES ASSUME TypeOK, Abandon PROVE TypeOK'
    OBVIOUS
  <1>1. LocalsOK'
    BY ReturnOK DEF Abandon
  <1>2. CROK' /\ RestOK'
    BY TypeParts DEF Abandon, CROK, RestOK
  <1> QED BY <1>1, <1>2, TypePartsNext

LEMMA CleanUpOK == TypeOK /\ CleanUp => TypeOK'
  <1> SUFFICES ASSUME TypeOK, CleanUp PROVE TypeOK'
    OBVIOUS
  <1>1. CROK'
    <2>1. [cr EXCEPT !.cleanup = FALSE] \in Specs
      BY TypeParts DEF CROK, Specs
    <2> QED BY <2>1, TypeParts, ReleasedOK DEF CleanUp, CROK
  <1>2. LocalsOK'
    BY TypeParts DEF CleanUp, LocalsOK
  <1>3. RestOK'
    BY TypeParts DEF CleanUp, RestOK, NoUmbrella, NoMode
  <1> QED BY <1>1, <1>2, <1>3, TypePartsNext

LEMMA UserDeletesOK == TypeOK /\ UserDeletes => TypeOK'
  <1> SUFFICES ASSUME TypeOK, UserDeletes PROVE TypeOK'
    OBVIOUS
  <1>1. CROK'
    <2>1. [cr EXCEPT !.deleting = TRUE] \in Specs
      BY TypeParts DEF CROK, Specs
    <2> QED BY <2>1, TypeParts, ReleasedOK DEF UserDeletes, CROK
  <1>2. LocalsOK' /\ RestOK'
    BY TypeParts DEF UserDeletes, LocalsOK, RestOK
  <1> QED BY <1>1, <1>2, TypePartsNext

LEMMA UserClearsMigrateOK == TypeOK /\ UserClearsMigrate => TypeOK'
  <1> SUFFICES ASSUME TypeOK, UserClearsMigrate PROVE TypeOK'
    OBVIOUS
  <1>1. CROK'
    BY TypeParts DEF UserClearsMigrate, CROK, Specs
  <1>2. LocalsOK' /\ RestOK'
    BY TypeParts DEF UserClearsMigrate, LocalsOK, RestOK
  <1> QED BY <1>1, <1>2, TypePartsNext

LEMMA DeriveModeOK == TypeOK /\ DeriveMode => TypeOK'
  <1> SUFFICES ASSUME TypeOK, DeriveMode PROVE TypeOK'
    OBVIOUS
  <1>1. PICK p \in Visible, M \in Modes \cup {NoMode} :
          /\ present' = p
          /\ status' = [status EXCEPT !.mode = M]
          /\ seen' = [guard |-> cr.guard, readonly |-> cr.readonly, cleanup |-> cr.cleanup,
                      mode |-> M, absorbed |-> status.absorbed]
    BY Choosable, TypeParts DEF DeriveMode, CROK, Statuses
  <1>2. CROK'
    BY <1>1, TypeParts DEF DeriveMode, CROK, Statuses
  <1>3. LocalsOK'
    <2>1. seen' \in Copies
      BY <1>1, TypeParts DEF CROK, Specs, Statuses, Copies
    <2>2. present' \subseteq Subcomponents
      BY <1>1, VisibleInstalled, TypeParts DEF RestOK
    <2> QED BY <2>1, <2>2 DEF DeriveMode, LocalsOK, PCs
  <1>4. RestOK'
    BY TypeParts DEF DeriveMode, RestOK
  <1> QED BY <1>2, <1>3, <1>4, TypePartsNext

LEMMA ArmGuardOK == TypeOK /\ ArmGuard => TypeOK'
  <1> SUFFICES ASSUME TypeOK, ArmGuard PROVE TypeOK'
    OBVIOUS
  <1>1. cr' \in Specs
    BY TypeParts DEF ArmGuard, CROK, LocalsOK, Specs, Copies
  <1>2. CROK'
    BY <1>1, TypeParts DEF ArmGuard, CROK
  <1>3. LocalsOK' /\ RestOK'
    BY TypeParts DEF ArmGuard, LocalsOK, RestOK, PCs
  <1> QED BY <1>2, <1>3, TypePartsNext

LEMMA LockUmbrellaOK == TypeOK /\ LockUmbrella => TypeOK'
  BY DEF LockUmbrella, TypeOK, PCs, Parts

LEMMA UninstallCoveredDoneOK == TypeOK /\ UninstallCoveredDone => TypeOK'
  BY DEF UninstallCoveredDone, TypeOK, PCs, Parts

LEMMA DeleteAgentWorkloadsOK == TypeOK /\ DeleteAgentWorkloads => TypeOK'
  BY DEF DeleteAgentWorkloads, TypeOK, PCs

LEMMA InstallUmbrellaOK == TypeOK /\ InstallUmbrella => TypeOK'
  BY DEF InstallUmbrella, TypeOK, PCs

LEMMA BeginFinalizeOK == TypeOK /\ BeginFinalize => TypeOK'
  BY DEF BeginFinalize, TypeOK, Dispatch, Enter, PCs

LEMMA ForgetAgentOK == TypeOK /\ ForgetAgent => TypeOK'
  BY DEF ForgetAgent, TypeOK, PCs, Parts

LEMMA UninstallUmbrellaOK == TypeOK /\ UninstallUmbrella => TypeOK'
  BY DEF UninstallUmbrella, TypeOK, NoUmbrella, NoMode, PCs, Parts

LEMMA ReinstallDoneOK == TypeOK /\ ReinstallDone => TypeOK'
  BY DEF ReinstallDone, TypeOK, PCs, Parts

LEMMA AbortOnDeletionOK == TypeOK /\ AbortOnDeletion => TypeOK'
  BY DEF AbortOnDeletion, TypeOK, Enter, PCs

LEMMA ReleaseGuardOK == TypeOK /\ ReleaseGuard => TypeOK'
  BY DEF ReleaseGuard, TypeOK, Released

LEMMA InstallUmbrellaFailsOK == TypeOK /\ InstallUmbrellaFails => TypeOK'
  BY DEF InstallUmbrellaFails, TypeOK, StartRollback, PCs

LEMMA CrashInInstallOK == TypeOK /\ CrashInInstall => TypeOK'
  BY DEF CrashInInstall, TypeOK, Return, Blank, NoMode, PCs

LEMMA AddCleanupOK == TypeOK /\ AddCleanup => TypeOK'
  BY DEF AddCleanup, TypeOK

LEMMA UserSetsMigrateOK == TypeOK /\ UserSetsMigrate => TypeOK'
  BY DEF UserSetsMigrate, TypeOK

LEMMA VerifyDeadlineOK == TypeOK /\ VerifyDeadline => TypeOK'
  BY DEF VerifyDeadline, TypeOK

LEMMA ClusterGoesOK == TypeOK /\ ClusterGoes => TypeOK'
  BY DEF ClusterGoes, TypeOK

LEMMA UninstallCoveredOK == \A c \in Covered : TypeOK /\ UninstallCovered(c) => TypeOK'
  BY DEF UninstallCovered, TypeOK, PCs

LEMMA ReinstallCoveredOK == \A c \in Covered : TypeOK /\ ReinstallCovered(c) => TypeOK'
  BY DEF ReinstallCovered, TypeOK, PCs

LEMMA UninstallCoveredFailsOK == \A c \in Covered : TypeOK /\ UninstallCoveredFails(c) => TypeOK'
  BY DEF UninstallCoveredFails, TypeOK, StartRollback, PCs

LEMMA UserInstallsOK == \A c \in Covered : TypeOK /\ UserInstalls(c) => TypeOK'
  BY DEF UserInstalls, TypeOK, Parts

LEMMA UserRemovesOK == \A c \in Covered : TypeOK /\ UserRemoves(c) => TypeOK'
  BY DEF UserRemoves, TypeOK, Parts

LEMMA LockSubOK == \A s \in Subcomponents : TypeOK /\ LockSub(s) => TypeOK'
  BY DEF LockSub, TypeOK, PCs, First

LEMMA UninstallSubOK == \A s \in Subcomponents : TypeOK /\ UninstallSub(s) => TypeOK'
  BY DEF UninstallSub, TypeOK, PCs, Last

LEMMA UninstallSubFailsOK == \A s \in Subcomponents : TypeOK /\ UninstallSubFails(s) => TypeOK'
  BY DEF UninstallSubFails, TypeOK, StartRollback, PCs

LEMMA RetireSubOK == \A s \in Subcomponents : TypeOK /\ RetireSub(s) => TypeOK'
  BY DEF RetireSub, TypeOK, PCs

LEMMA RetireSubInterruptedOK == \A s \in Subcomponents : TypeOK /\ RetireSubInterrupted(s) => TypeOK'
  BY DEF RetireSubInterrupted, TypeOK, Return, Blank, NoMode, PCs

LEMMA ReenableSubOK == \A s \in Subcomponents : TypeOK /\ ReenableSub(s) => TypeOK'
  BY DEF ReenableSub, TypeOK, PCs

LEMMA ForceReadonlyOK == \A s \in Subcomponents : TypeOK /\ ForceReadonly(s) => TypeOK'
  BY DEF ForceReadonly, TypeOK

------------------------------------------------------------------------------
(* Type correctness. *)

LEMMA TypeInit == Init => TypeOK
  <1> SUFFICES ASSUME Init PROVE TypeOK
    OBVIOUS
  <1>1. cr \in Specs
    BY DEF Init, Specs
  <1>2. status \in Statuses /\ overdue \in BOOLEAN /\ clusterUp \in BOOLEAN
    BY Names DEF Init, Statuses, NoMode
  <1>3. LocalsOK
    BY DEF Init, LocalsOK, Blank, Copies, PCs, NoMode
  <1>4. RestOK
    <2>1. umbrella \in [release : {"absent", "pending", "deployed", "failed"},
                       renders : Modes \cup {NoMode}]
      BY DEF Init, NoUmbrella, NoMode
    <2>2. ever \in SUBSET Parts /\ unresolved = {}
      BY Names DEF Init
    <2> QED BY <2>1, <2>2 DEF Init, RestOK
  <1> QED BY <1>1, <1>2, <1>3, <1>4, TypeParts DEF CROK

LEMMA TypeAdvance == TypeOK /\ Advance => TypeOK'
  BY DeriveModeOK, PermissionGateOK, ArmGuardOK, LockUmbrellaOK, MarkReadonlyDoneOK,
     SnapshotCoveredOK, UninstallCoveredDoneOK, UninstallDoneOK, CheckUmbrellaOK,
     DeleteAgentWorkloadsOK, InstallUmbrellaOK, InstallDoneOK, VerifyOK, VerifyDoneOK,
     BeginFinalizeOK, ForgetAgentOK, ClearAfterSuccessOK, WriteSuccessOK, UninstallUmbrellaOK,
     ReinstallDoneOK, ClearAfterRollbackOK, WriteFailureOK, AbortOnDeletionOK, ReleaseGuardOK,
     RepairStatusOK, UninstallCoveredOK, ReinstallCoveredOK, LockSubOK, UninstallSubOK,
     RetireSubOK, ReenableSubOK, Zenon
  DEF Advance

LEMMA TypeFail == TypeOK /\ Fail => TypeOK'
  BY InstallUmbrellaFailsOK, CrashInInstallOK, DegradeOK, AbandonOK, UninstallCoveredFailsOK,
     UninstallSubFailsOK, RetireSubInterruptedOK, Zenon
  DEF Fail

LEMMA TypeEnvironment == TypeOK /\ Environment => TypeOK'
  BY AddCleanupOK, CleanUpOK, ForceReadonlyOK, UserDeletesOK, UserClearsMigrateOK,
     UserSetsMigrateOK, UserInstallsOK, UserRemovesOK, VerifyDeadlineOK, ClusterGoesOK, Zenon
  DEF Environment

LEMMA TypeStep == TypeOK /\ [Next]_vars => TypeOK'
  <1>1. TypeOK /\ UNCHANGED vars => TypeOK'
    BY DEF TypeOK, vars
  <1> QED BY <1>1, TypeAdvance, TypeFail, TypeEnvironment, Zenon DEF Next

\* Whatever the environment does and whatever fails, every variable keeps its
\* type; with it, a sub-component CR that is readonly exists
\* (migration_controller.go, every write of the reconcile).
THEOREM TypeCorrect == Spec => []TypeOK
  BY TypeInit, TypeStep, PTL DEF Spec

------------------------------------------------------------------------------
(* The handover of the agent. *)

\* The phase recorded while the reconcile is at each of its calls.
PhaseOf ==
  /\ pc \in {"gate", "arm", "lock", "lock subs"} => status.phase \in {None, MarkReadonlyP}
  /\ pc \in {"uninstall covered", "uninstall subs"} => status.phase = UninstallP
  /\ pc \in {"take over", "install", "installed"} => status.phase = InstallP
  /\ pc = "verified" => status.phase = VerifyP
  /\ pc \in {"forget", "retire", "report success"} => status.phase = FinalizeP
  /\ pc = "rollback" => status.phase # FinalizeP \/ cr.deleting

\* A migration past verification that nobody deletes has a deployed umbrella.
VerifiedDeployed ==
  /\ pc = "verified" /\ ~cr.deleting => Deployed
  /\ status.phase = FinalizeP /\ ~cr.deleting => Deployed
  /\ pc = "forget" => ~cr.deleting

\* A deployed umbrella owns the agent's workloads, and the agent is not among
\* the individuals being uninstalled.
AgentUninstalledByNobody ==
  /\ Deployed => agentPods = "umbrella"
  /\ pc = "uninstall subs" => Agent \notin todo

HandoverInv == TypeOK /\ PhaseOf /\ VerifiedDeployed /\ AgentUninstalledByNobody

\* What the parts of the invariant other than the types say.
HandoverRest == PhaseOf /\ VerifiedDeployed /\ AgentUninstalledByNobody

\* What AgentHandedOver says of one step.
AgentStep == Agent \in individual \ individual' => Deployed /\ agentPods = "umbrella"

LEMMA HandoverAdvance ==
  ASSUME FinalizeP \notin DeletablePhases, HandoverInv, Advance
  PROVE  HandoverRest' /\ AgentStep
  <1> USE DEF HandoverInv, HandoverRest, AgentStep, PhaseOf, VerifiedDeployed,
              AgentUninstalledByNobody, Deployed, Statuses, CROK, Specs, None,
              MarkReadonlyP, UninstallP, InstallP, VerifyP, FinalizeP, RolledBackP
  <1>1. CASE DeriveMode
    BY <1>1, TypeParts DEF DeriveMode, Dispatch
  <1>2. CASE PermissionGate
    BY <1>2, TypeParts DEF PermissionGate, SetMigratingFalse, Return
  <1>3. CASE ArmGuard
    BY <1>3, TypeParts DEF ArmGuard
  <1>4. CASE LockUmbrella
    BY <1>4, TypeParts DEF LockUmbrella
  <1>5. CASE MarkReadonlyDone
    BY <1>5, TypeParts DEF MarkReadonlyDone, SetPhase, Return
  <1>6. CASE SnapshotCovered
    BY <1>6, TypeParts DEF SnapshotCovered, Dispatch
  <1>7. CASE UninstallCoveredDone
    BY <1>7, TypeParts DEF UninstallCoveredDone
  <1>8. CASE UninstallDone
    BY <1>8, TypeParts DEF UninstallDone, SetPhase, Return
  <1>9. CASE CheckUmbrella
    BY <1>9, TypeParts DEF CheckUmbrella, Dispatch, Enter, SetPhase, SetMigratingFalse, Return
  <1>10. CASE DeleteAgentWorkloads
    BY <1>10, TypeParts DEF DeleteAgentWorkloads
  <1>11. CASE InstallUmbrella
    BY <1>11, TypeParts DEF InstallUmbrella
  <1>12. CASE InstallDone
    BY <1>12, TypeParts DEF InstallDone, SetPhase, Return
  <1>13. CASE Verify
    BY <1>13, TypeParts DEF Verify, Dispatch, Enter
  <1>14. CASE VerifyDone
    BY <1>14, TypeParts DEF VerifyDone, SetPhase, Return
  <1>15. CASE BeginFinalize
    BY <1>15, TypeParts DEF BeginFinalize, Dispatch, Enter
  <1>16. CASE ForgetAgent
    BY <1>16, TypeParts DEF ForgetAgent
  <1>17. CASE ClearAfterSuccess
    BY <1>17, TypeParts DEF ClearAfterSuccess, ClearSpec, Released
  <1>18. CASE WriteSuccess
    BY <1>18, TypeParts DEF WriteSuccess, WriteTerminal, Return
  <1>19. CASE UninstallUmbrella
    BY <1>19, TypeParts DEF UninstallUmbrella, NoUmbrella
  <1>20. CASE ReinstallDone
    BY <1>20, TypeParts DEF ReinstallDone
  <1>21. CASE ClearAfterRollback
    BY <1>21, TypeParts DEF ClearAfterRollback, ClearSpec, Released
  <1>22. CASE WriteFailure
    BY <1>22, TypeParts DEF WriteFailure, WriteTerminal, Return
  <1>23. CASE AbortOnDeletion
    BY <1>23, TypeParts DEF AbortOnDeletion, Enter
  <1>24. CASE ReleaseGuard
    BY <1>24, TypeParts DEF ReleaseGuard, Released
  <1>25. CASE RepairStatus
    <2>1. PICK p \in {None, RolledBackP}, r \in Reasons : WriteTerminal(p, r)
      BY <1>25, Names DEF RepairStatus
    <2> QED BY <2>1 DEF WriteTerminal, Return
  <1>26. ASSUME NEW c \in Covered, UninstallCovered(c) PROVE HandoverRest' /\ AgentStep
    BY <1>26, TypeParts DEF UninstallCovered
  <1>27. ASSUME NEW c \in Covered, ReinstallCovered(c) PROVE HandoverRest' /\ AgentStep
    BY <1>27, TypeParts DEF ReinstallCovered
  <1>28. ASSUME NEW s \in Subcomponents, LockSub(s) PROVE HandoverRest' /\ AgentStep
    BY <1>28, TypeParts DEF LockSub, First
  <1>29. ASSUME NEW s \in Subcomponents, UninstallSub(s) PROVE HandoverRest' /\ AgentStep
    BY <1>29, TypeParts DEF UninstallSub, Last
  <1>30. ASSUME NEW s \in Subcomponents, RetireSub(s) PROVE HandoverRest' /\ AgentStep
    BY <1>30, TypeParts DEF RetireSub
  <1>31. ASSUME NEW s \in Subcomponents, ReenableSub(s) PROVE HandoverRest' /\ AgentStep
    BY <1>31, TypeParts DEF ReenableSub
  <1> QED
    <2> HIDE DEF HandoverRest, HandoverInv, AgentStep
    <2> QED BY <1>1, <1>2, <1>3, <1>4, <1>5, <1>6, <1>7, <1>8, <1>9, <1>10, <1>11, <1>12, <1>13,
           <1>14, <1>15, <1>16, <1>17, <1>18, <1>19, <1>20, <1>21, <1>22, <1>23,
           <1>24, <1>25, <1>26, <1>27, <1>28, <1>29, <1>30, <1>31, Zenon DEF Advance

LEMMA HandoverFail ==
  ASSUME FinalizeP \notin DeletablePhases, HandoverInv, Fail
  PROVE  HandoverRest' /\ AgentStep
  <1> USE DEF HandoverInv, HandoverRest, AgentStep, PhaseOf, VerifiedDeployed,
              AgentUninstalledByNobody, Deployed, Statuses, CROK, Specs, None,
              MarkReadonlyP, UninstallP, InstallP, VerifyP, FinalizeP, RolledBackP
  <1>1. CASE InstallUmbrellaFails
    BY <1>1, TypeParts DEF InstallUmbrellaFails, StartRollback
  <1>2. CASE CrashInInstall
    BY <1>2, TypeParts DEF CrashInInstall, Return
  <1>3. CASE Degrade
    BY <1>3, TypeParts DEF Degrade, Dispatch, SetMigratingFalse, Return
  <1>4. CASE Abandon
    BY <1>4, TypeParts DEF Abandon, Return
  <1>5. ASSUME NEW c \in Covered, UninstallCoveredFails(c) PROVE HandoverRest' /\ AgentStep
    BY <1>5, TypeParts DEF UninstallCoveredFails, StartRollback
  <1>6. ASSUME NEW s \in Subcomponents, UninstallSubFails(s) PROVE HandoverRest' /\ AgentStep
    BY <1>6, TypeParts DEF UninstallSubFails, StartRollback, Last
  <1>7. ASSUME NEW s \in Subcomponents, RetireSubInterrupted(s) PROVE HandoverRest' /\ AgentStep
    BY <1>7, TypeParts DEF RetireSubInterrupted, Return
  <1> QED
    <2> HIDE DEF HandoverRest, HandoverInv, AgentStep
    <2> QED BY <1>1, <1>2, <1>3, <1>4, <1>5, <1>6, <1>7, Zenon DEF Fail

LEMMA HandoverEnvironment ==
  ASSUME FinalizeP \notin DeletablePhases, HandoverInv, Environment
  PROVE  HandoverRest' /\ AgentStep
  <1> USE DEF HandoverInv, HandoverRest, AgentStep, PhaseOf, VerifiedDeployed,
              AgentUninstalledByNobody, Deployed, Statuses, CROK, Specs, None,
              MarkReadonlyP, UninstallP, InstallP, VerifyP, FinalizeP, RolledBackP
  <1>1. CASE AddCleanup
    BY <1>1, TypeParts DEF AddCleanup
  <1>2. CASE CleanUp
    BY <1>2, TypeParts DEF CleanUp, Released, NoUmbrella
  <1>3. CASE UserDeletes
    BY <1>3, TypeParts DEF UserDeletes, Released
  <1>4. CASE UserClearsMigrate
    BY <1>4, TypeParts DEF UserClearsMigrate
  <1>5. CASE UserSetsMigrate
    BY <1>5, TypeParts DEF UserSetsMigrate
  <1>6. CASE VerifyDeadline
    BY <1>6, TypeParts DEF VerifyDeadline
  <1>7. CASE ClusterGoes
    BY <1>7, TypeParts DEF ClusterGoes
  <1>8. ASSUME NEW s \in Subcomponents, ForceReadonly(s) PROVE HandoverRest' /\ AgentStep
    BY <1>8, TypeParts DEF ForceReadonly
  <1>9. ASSUME NEW c \in Covered, UserInstalls(c) PROVE HandoverRest' /\ AgentStep
    BY <1>9, TypeParts DEF UserInstalls
  <1>10. ASSUME NEW c \in Covered, UserRemoves(c) PROVE HandoverRest' /\ AgentStep
    BY <1>10, TypeParts DEF UserRemoves
  <1> QED
    <2> HIDE DEF HandoverRest, HandoverInv, AgentStep
    <2> QED BY <1>1, <1>2, <1>3, <1>4, <1>5, <1>6, <1>7, <1>8, <1>9, <1>10, Zenon DEF Environment

LEMMA HandoverInit == Init => HandoverInv
  <1> SUFFICES ASSUME Init PROVE HandoverInv
    OBVIOUS
  <1>1. status.phase = None /\ umbrella = NoUmbrella /\ pc = "idle"
    BY DEF Init
  <1>2. PhaseOf /\ VerifiedDeployed /\ AgentUninstalledByNobody
    BY <1>1 DEF PhaseOf, VerifiedDeployed, AgentUninstalledByNobody, Deployed, NoUmbrella, None,
                FinalizeP
  <1> QED BY <1>2, TypeInit DEF HandoverInv

LEMMA HandoverStep ==
  ASSUME FinalizeP \notin DeletablePhases, HandoverInv, [Next]_vars
  PROVE  HandoverInv' /\ [AgentStep]_vars
  <1>1. TypeOK'
    BY TypeStep DEF HandoverInv
  <1>2. CASE Next
    <2>1. HandoverRest' /\ AgentStep
      BY <1>2, HandoverAdvance, HandoverFail, HandoverEnvironment DEF Next
    <2> QED BY <1>1, <2>1 DEF HandoverInv, HandoverRest
  <1>3. CASE UNCHANGED vars
    BY <1>1, <1>3 DEF HandoverInv, PhaseOf, VerifiedDeployed, AgentUninstalledByNobody, Deployed,
       vars
  <1> QED BY <1>2, <1>3

\* Where a user does not delete the umbrella CR during Finalize, the agent is
\* handed over and never dropped: its release is given up only once the umbrella
\* is deployed and runs the agent (migration_controller.go, uninstall phase and
\* ForgetRelease in Finalize).  Without the assumption it fails: a deletion
\* then becomes a rollback, although the agent is the umbrella's already.
THEOREM AgentHandover ==
  ASSUME FinalizeP \notin DeletablePhases
  PROVE  Spec => AgentHandedOver
  <1>1. HandoverInv /\ [Next]_vars => HandoverInv' /\ [AgentStep]_vars
    BY HandoverStep
  <1>2. Spec => [][AgentStep]_vars
    BY HandoverInit, <1>1, PTL DEF Spec
  <1> QED BY <1>2 DEF AgentHandedOver, AgentStep

------------------------------------------------------------------------------
(* The deletion guard.  A migration in flight either has the guard on its CR,  *)
(* and keeps it to the end, or has not yet come so far as to need it.          *)

InFlight == cr.exists /\ cr.migrate
Armed    == InFlight => cr.guard

\* Nothing was taken down, and nothing says that the guard is there already.
Harmless ==
  /\ pc \in {"idle", "gate", "arm"} /\ status.phase \in {None, MarkReadonlyP}
  /\ ~cr.readonly /\ ~seen.guard /\ ~seen.readonly
  /\ ever \subseteq individual \cup standalone

GuardInv == TypeOK /\ (Armed \/ Harmless)

\* The steps that write the umbrella CR's metadata or spec.
WritesCR ==
  \/ ArmGuard \/ LockUmbrella \/ ReleaseGuard
  \/ ClearSpec("report success") \/ ClearSpec("report failure")
  \/ AddCleanup \/ CleanUp \/ UserDeletes \/ UserClearsMigrate \/ UserSetsMigrate

LEMMA WritersOfCR == Next => UNCHANGED cr \/ WritesCR
  <1>1. Advance => UNCHANGED cr \/ WritesCR
    <2>1. ASSUME DeriveMode \/ PermissionGate \/ MarkReadonlyDone \/ SnapshotCovered
                 \/ UninstallCoveredDone \/ UninstallDone \/ CheckUmbrella
                 \/ DeleteAgentWorkloads \/ InstallUmbrella \/ InstallDone \/ Verify
                 \/ VerifyDone \/ BeginFinalize \/ ForgetAgent \/ WriteSuccess
                 \/ UninstallUmbrella \/ ReinstallDone \/ WriteFailure \/ AbortOnDeletion
                 \/ RepairStatus
          PROVE  UNCHANGED cr
      BY <2>1 DEF DeriveMode, PermissionGate, SetMigratingFalse, MarkReadonlyDone, SetPhase,
         SnapshotCovered, UninstallCoveredDone, UninstallDone, CheckUmbrella,
         DeleteAgentWorkloads, InstallUmbrella, InstallDone, Verify, VerifyDone, BeginFinalize,
         ForgetAgent, WriteSuccess, WriteTerminal, UninstallUmbrella, ReinstallDone,
         WriteFailure, AbortOnDeletion, RepairStatus
    <2>2. ASSUME NEW c \in Covered, UninstallCovered(c) \/ ReinstallCovered(c)
          PROVE  UNCHANGED cr
      BY <2>2 DEF UninstallCovered, ReinstallCovered
    <2>3. ASSUME NEW s \in Subcomponents,
                 LockSub(s) \/ UninstallSub(s) \/ RetireSub(s) \/ ReenableSub(s)
          PROVE  UNCHANGED cr
      BY <2>3 DEF LockSub, UninstallSub, RetireSub, ReenableSub
    <2>4. ClearAfterSuccess \/ ClearAfterRollback => WritesCR
      BY DEF ClearAfterSuccess, ClearAfterRollback, WritesCR
    <2> QED BY <2>1, <2>2, <2>3, <2>4, Zenon DEF Advance, WritesCR
  <1>2. Fail => UNCHANGED cr
    BY DEF Fail, InstallUmbrellaFails, CrashInInstall, Degrade, SetMigratingFalse, Abandon,
       UninstallCoveredFails, UninstallSubFails, RetireSubInterrupted
  <1>3. Environment => UNCHANGED cr \/ WritesCR
    BY DEF Environment, WritesCR, ForceReadonly, UserInstalls, UserRemoves, VerifyDeadline,
       ClusterGoes
  <1> QED BY <1>1, <1>2, <1>3 DEF Next

\* The guard goes only with the end of the migration, which nobody starts again.
LEMMA ArmedStays ==
  ASSUME Retriggers = {}, TypeOK, Armed, Next
  PROVE  Armed'
  <1> USE DEF Armed, InFlight
  <1>0. cr \in Specs
    BY TypeParts DEF CROK
  <1>1. CASE UNCHANGED cr
    BY <1>1
  <1>2. CASE ArmGuard \/ LockUmbrella
    BY <1>0, <1>2 DEF ArmGuard, LockUmbrella, Specs
  <1>3. CASE ClearSpec("report success") \/ ClearSpec("report failure")
    BY <1>0, <1>3 DEF ClearSpec, Released, Specs
  <1>4. CASE ReleaseGuard
    BY <1>0, <1>4 DEF ReleaseGuard, AdmitsEdit, Released, Specs
  <1>5. CASE AddCleanup \/ CleanUp \/ UserDeletes \/ UserClearsMigrate
    BY <1>0, <1>5 DEF AddCleanup, CleanUp, UserDeletes, UserClearsMigrate, Released, Specs
  <1>6. ~UserSetsMigrate
    BY DEF UserSetsMigrate
  <1> QED BY <1>1, <1>2, <1>3, <1>4, <1>5, <1>6, WritersOfCR DEF WritesCR

\* Before it, no step takes anything down, and the reconcile goes on only with it.
LEMMA HarmlessAdvance ==
  ASSUME TypeOK, ~Armed, Harmless, Advance
  PROVE  Armed' \/ Harmless'
  <1> USE DEF Armed, InFlight, Harmless
  <1>1. CASE DeriveMode
    BY <1>1, TypeParts DEF DeriveMode, Dispatch, CROK, Statuses
  <1>2. CASE PermissionGate
    BY <1>2, TypeParts DEF PermissionGate, SetMigratingFalse, Return, Blank, CROK, Statuses
  <1>3. CASE ArmGuard
    BY <1>3, TypeParts DEF ArmGuard, CROK, Specs
  <1>4. CASE SnapshotCovered \/ CheckUmbrella \/ Verify \/ BeginFinalize
    BY <1>4 DEF SnapshotCovered, CheckUmbrella, Verify, BeginFinalize, Dispatch, None,
       MarkReadonlyP, UninstallP, InstallP, VerifyP, FinalizeP
  <1>5. CASE AbortOnDeletion \/ ReleaseGuard \/ RepairStatus
    BY <1>5 DEF AbortOnDeletion, ReleaseGuard, RepairStatus
  <1>6. ASSUME pc \notin {"idle", "gate", "arm"} PROVE FALSE
    BY <1>6
  <1>7. ASSUME NEW c \in Covered, UninstallCovered(c) \/ ReinstallCovered(c) PROVE FALSE
    BY <1>7 DEF UninstallCovered, ReinstallCovered
  <1>8. ASSUME NEW s \in Subcomponents,
               LockSub(s) \/ UninstallSub(s) \/ RetireSub(s) \/ ReenableSub(s)
        PROVE  FALSE
    BY <1>8 DEF LockSub, UninstallSub, RetireSub, ReenableSub
  <1>9. CASE LockUmbrella \/ MarkReadonlyDone \/ UninstallCoveredDone \/ UninstallDone
             \/ DeleteAgentWorkloads \/ InstallUmbrella \/ InstallDone \/ VerifyDone
             \/ ForgetAgent \/ ClearAfterSuccess \/ WriteSuccess \/ UninstallUmbrella
             \/ ReinstallDone \/ ClearAfterRollback \/ WriteFailure
    BY <1>6, <1>9 DEF LockUmbrella, MarkReadonlyDone, UninstallCoveredDone, UninstallDone,
       DeleteAgentWorkloads, InstallUmbrella, InstallDone, VerifyDone, ForgetAgent,
       ClearAfterSuccess, WriteSuccess, UninstallUmbrella, ReinstallDone, ClearAfterRollback,
       WriteFailure
  <1> QED
    <2> HIDE DEF Armed, Harmless, InFlight
    <2> QED BY <1>1, <1>2, <1>3, <1>4, <1>5, <1>7, <1>8, <1>9, Zenon DEF Advance

LEMMA HarmlessFail ==
  ASSUME TypeOK, ~Armed, Harmless, Fail
  PROVE  Harmless'
  <1> USE DEF Armed, InFlight, Harmless
  <1>1. CASE Degrade
    BY <1>1, TypeParts DEF Degrade, SetMigratingFalse, Return, Blank, CROK, Statuses
  <1>2. CASE Abandon
    BY <1>2 DEF Abandon, Return, Blank
  <1>3. CASE InstallUmbrellaFails \/ CrashInInstall
    BY <1>3 DEF InstallUmbrellaFails, CrashInInstall
  <1>4. ASSUME NEW c \in Covered, UninstallCoveredFails(c) PROVE FALSE
    BY <1>4 DEF UninstallCoveredFails
  <1>5. ASSUME NEW s \in Subcomponents, UninstallSubFails(s) \/ RetireSubInterrupted(s)
        PROVE  FALSE
    BY <1>5 DEF UninstallSubFails, RetireSubInterrupted
  <1> QED
    <2> HIDE DEF Armed, Harmless, InFlight
    <2> QED BY <1>1, <1>2, <1>3, <1>4, <1>5, Zenon DEF Fail

LEMMA HarmlessEnvironment ==
  ASSUME TypeOK, ~Armed, Harmless, Environment
  PROVE  Armed' \/ Harmless'
  <1> USE DEF Armed, InFlight, Harmless
  <1>0. cr \in Specs
    BY TypeParts DEF CROK
  <1>1. CASE AddCleanup \/ CleanUp \/ UserDeletes \/ UserClearsMigrate
    BY <1>0, <1>1 DEF AddCleanup, CleanUp, UserDeletes, UserClearsMigrate, Released, Specs
  <1>2. CASE UserSetsMigrate
    BY <1>2 DEF UserSetsMigrate
  <1>3. CASE VerifyDeadline \/ ClusterGoes
    BY <1>3 DEF VerifyDeadline, ClusterGoes
  <1>4. ASSUME NEW s \in Subcomponents, ForceReadonly(s) PROVE Harmless'
    BY <1>4 DEF ForceReadonly
  <1>5. ASSUME NEW c \in Covered, UserInstalls(c) PROVE Harmless'
    BY <1>5 DEF UserInstalls
  <1>6. ASSUME NEW c \in Covered, UserRemoves(c) PROVE FALSE
    BY <1>6 DEF UserRemoves, Dispatch, None, MarkReadonlyP, InstallP
  <1> QED
    <2> HIDE DEF Armed, Harmless, InFlight
    <2> QED BY <1>1, <1>2, <1>3, <1>4, <1>5, <1>6, Zenon DEF Environment

LEMMA GuardInit == BornReadonly = FALSE /\ Init => GuardInv
  <1> SUFFICES ASSUME BornReadonly = FALSE, Init PROVE Harmless
    BY TypeInit DEF GuardInv
  <1>1. ~cr.readonly /\ status.phase = None
    BY DEF Init
  <1>2. pc = "idle" /\ ever = individual \cup standalone /\ ~seen.guard /\ ~seen.readonly
    BY DEF Init, Blank
  <1> QED BY <1>1, <1>2 DEF Harmless

LEMMA GuardStep == Retriggers = {} /\ GuardInv /\ [Next]_vars => GuardInv'
  <1> SUFFICES ASSUME Retriggers = {}, GuardInv, [Next]_vars PROVE GuardInv'
    OBVIOUS
  <1>1. TypeOK'
    BY TypeStep DEF GuardInv
  <1>2. CASE UNCHANGED vars
    BY <1>1, <1>2 DEF GuardInv, Armed, Harmless, InFlight, vars
  <1>3. CASE Next
    BY <1>1, <1>3, ArmedStays, HarmlessAdvance, HarmlessFail, HarmlessEnvironment
    DEF GuardInv, Next
  <1> QED BY <1>2, <1>3

\* From the first uninstall to the end of the migration the umbrella CR, with the
\* only record of what was uninstalled, has the finalizer that turns its deletion
\* into a rollback (MigrationFinalizer), whatever fails and whenever users delete
\* it.  An umbrella CR that is born readonly gets no guard; and one that is to
\* migrate again starts without a guard where the last migration ended.
THEOREM GuardHolds ==
  ASSUME BornReadonly = FALSE, Retriggers = {}
  PROVE  Spec => []GuardWhileHalfMigrated
  <1>1. GuardInv => GuardWhileHalfMigrated
    BY DEF GuardInv, Armed, Harmless, InFlight, GuardWhileHalfMigrated
  <1>2. Init => GuardInv
    BY GuardInit
  <1>3. GuardInv /\ [Next]_vars => GuardInv'
    BY GuardStep
  <1> QED BY <1>1, <1>2, <1>3, PTL DEF Spec

------------------------------------------------------------------------------
(* The locks on the individuals' CRs.  They are set only under the guard, and   *)
(* the loop that ends a migration, one way or the other, takes them all off;    *)
(* ComponentReconciler sets none again, because by then there is no umbrella or *)
(* no CR.                                                                       *)

\* A reconcile past the guard has a migration in flight, until it has ended it.
Reporting   == {"report success", "report failure"}
Driving     == /\ pc \notin {"idle", "gate", "arm"} \cup Reporting => InFlight
               /\ pc \in {"gate", "arm"} /\ cr.exists => cr.migrate
CopyGuarded == seen.guard \/ seen.readonly => pc \in Reporting \/ (InFlight /\ cr.guard)

\* No lock before the guard, and none after the migration.
NoUmbrellaYet == umbrella.release = "absent"
Untouched     == InFlight /\ ~cr.guard => locked = {} /\ NoUmbrellaYet
Unlocked      == ~InFlight /\ Umbrella \notin unresolved
                   => locked = {} /\ (NoUmbrellaYet \/ kept = {})

\* What the last loops of Finalize and of the rollback have done so far.
Retiring   == pc = "retire" => kept \subseteq todo
Unwinding  == pc \in {"reinstall", "reenable"} /\ Umbrella \notin unresolved => NoUmbrellaYet
Reenabling == pc = "reenable" /\ Umbrella \notin unresolved => locked \subseteq todo

LockRest ==
  Driving /\ CopyGuarded /\ Untouched /\ Unlocked /\ Retiring /\ Unwinding /\ Reenabling
LockInv == GuardInv /\ LockRest

\* The facts of the guard's invariant that the locks' needs.
LEMMA GuardFacts ==
  ASSUME GuardInv
  PROVE  /\ cr \in Specs /\ seen \in Copies /\ locked \subseteq kept /\ kept \subseteq Subcomponents
         /\ InFlight /\ ~cr.guard =>
              /\ pc \in {"idle", "gate", "arm"} /\ ~cr.readonly
              /\ status.phase \notin {UninstallP, InstallP, VerifyP, FinalizeP}
  <1>1. {None, MarkReadonlyP} \cap {UninstallP, InstallP, VerifyP, FinalizeP} = {}
    BY Zenon DEF None, MarkReadonlyP, UninstallP, InstallP, VerifyP, FinalizeP
  <1> QED BY <1>1, TypeParts DEF GuardInv, Armed, Harmless, CROK, LocalsOK, RestOK

LEMMA UmbrellaNotCovered == Umbrella \notin Covered /\ Umbrella \notin Subcomponents
  BY ModesAssumption DEF Umbrella, Subcomponents, Agent, SpotHandler, ClusterCtrl

LEMMA LockAdvance ==
  ASSUME UserAborts = FALSE, Retriggers = {}, LockInv, Advance
  PROVE  LockRest'
  <1>0. GuardInv
    BY DEF LockInv
  <1> USE <1>0, GuardFacts, UmbrellaNotCovered
          DEF LockInv, LockRest, Driving, CopyGuarded, Untouched, Unlocked, Retiring, Unwinding,
              Reenabling, Reporting, NoUmbrellaYet, InFlight, Specs
  <1>1. CASE DeriveMode
    <2>1. /\ pc = "idle" /\ pc' = "gate" /\ InFlight
          /\ UNCHANGED <<cr, kept, locked, umbrella, unresolved>>
          /\ seen'.guard = cr.guard /\ seen'.readonly = cr.readonly
      BY <1>1 DEF DeriveMode, Dispatch
    <2> QED BY <2>1
  <1>2. CASE PermissionGate
    <2>1. pc = "gate" /\ UNCHANGED <<cr, kept, locked, umbrella, unresolved>>
      BY <1>2 DEF PermissionGate, SetMigratingFalse
    <2>2. CASE pc' = "arm" /\ UNCHANGED seen
      BY <2>1, <2>2
    <2>3. CASE pc' = "idle" /\ seen' = Blank
      BY <2>1, <2>3 DEF Blank
    <2> QED BY <1>2, <2>2, <2>3 DEF PermissionGate, SetMigratingFalse, Return
  <1>3. CASE ArmGuard
    <2>1. pc = "arm" /\ pc' = "lock" /\ UNCHANGED <<kept, locked, umbrella, unresolved, seen>>
      BY <1>3 DEF ArmGuard
    <2>2. CASE (seen.guard \/ seen.readonly) /\ UNCHANGED cr
      BY <2>1, <2>2
    <2>3. CASE /\ ~seen.guard /\ ~seen.readonly /\ cr.exists
               /\ cr' = [cr EXCEPT !.guard = TRUE, !.cleanup = seen.cleanup]
      BY <2>1, <2>3
    <2> QED BY <1>3, <2>2, <2>3 DEF ArmGuard
  <1>4. CASE LockUmbrella
    BY <1>4 DEF LockUmbrella
  <1>5. CASE MarkReadonlyDone
    BY <1>5 DEF MarkReadonlyDone, SetPhase, Return, Blank
  <1>6. CASE SnapshotCovered
    BY <1>6 DEF SnapshotCovered, Dispatch
  <1>7. CASE UninstallCoveredDone
    BY <1>7 DEF UninstallCoveredDone
  <1>8. CASE UninstallDone
    BY <1>8 DEF UninstallDone, SetPhase, Return, Blank
  <1>9. CASE CheckUmbrella
    BY <1>9 DEF CheckUmbrella, Dispatch, Enter, SetPhase, SetMigratingFalse, Return, Blank
  <1>10. CASE DeleteAgentWorkloads
    BY <1>10 DEF DeleteAgentWorkloads
  <1>11. CASE InstallUmbrella
    BY <1>11 DEF InstallUmbrella
  <1>12. CASE InstallDone
    BY <1>12 DEF InstallDone, SetPhase, Return, Blank
  <1>13. CASE Verify
    BY <1>13 DEF Verify, Dispatch, Enter
  <1>14. CASE VerifyDone
    BY <1>14 DEF VerifyDone, SetPhase, Return, Blank
  <1>15. CASE BeginFinalize
    BY <1>15 DEF BeginFinalize, Dispatch, Enter
  <1>16. CASE ForgetAgent
    BY <1>16 DEF ForgetAgent
  <1>17. CASE ClearAfterSuccess
    BY <1>17 DEF ClearAfterSuccess, ClearSpec, Released
  <1>18. CASE WriteSuccess
    BY <1>18 DEF WriteSuccess, WriteTerminal, Return, Blank
  <1>19. CASE UninstallUmbrella
    BY <1>19 DEF UninstallUmbrella, NoUmbrella
  <1>20. CASE ReinstallDone
    BY <1>20 DEF ReinstallDone
  <1>21. CASE ClearAfterRollback
    BY <1>21 DEF ClearAfterRollback, ClearSpec, Released
  <1>22. CASE WriteFailure
    BY <1>22 DEF WriteFailure, WriteTerminal, Return, Blank
  <1>23. CASE AbortOnDeletion
    BY <1>23 DEF AbortOnDeletion, Enter
  <1>24. CASE ReleaseGuard
    BY <1>24 DEF ReleaseGuard, Released, AdmitsEdit
  <1>25. CASE RepairStatus
    <2>1. /\ pc = "idle" /\ pc' = "idle" /\ seen' = Blank
          /\ UNCHANGED <<cr, kept, locked, umbrella, unresolved>>
      BY <1>25 DEF RepairStatus, WriteTerminal, Return
    <2> QED BY <2>1 DEF Blank
  <1>26. ASSUME NEW c \in Covered, UninstallCovered(c) PROVE LockRest'
    BY <1>26 DEF UninstallCovered
  <1>27. ASSUME NEW c \in Covered, ReinstallCovered(c) PROVE LockRest'
    BY <1>27 DEF ReinstallCovered
  <1>28. ASSUME NEW s \in Subcomponents, LockSub(s) PROVE LockRest'
    BY <1>28 DEF LockSub, First
  <1>29. ASSUME NEW s \in Subcomponents, UninstallSub(s) PROVE LockRest'
    BY <1>29 DEF UninstallSub, Last
  <1>30. ASSUME NEW s \in Subcomponents, RetireSub(s) PROVE LockRest'
    BY <1>30 DEF RetireSub
  <1>31. ASSUME NEW s \in Subcomponents, ReenableSub(s) PROVE LockRest'
    BY <1>31 DEF ReenableSub
  <1> QED
    <2> HIDE DEF LockRest, LockInv
    <2> QED BY <1>1, <1>2, <1>3, <1>4, <1>5, <1>6, <1>7, <1>8, <1>9, <1>10, <1>11, <1>12, <1>13,
           <1>14, <1>15, <1>16, <1>17, <1>18, <1>19, <1>20, <1>21, <1>22, <1>23,
           <1>24, <1>25, <1>26, <1>27, <1>28, <1>29, <1>30, <1>31, Zenon DEF Advance

LEMMA LockFail ==
  ASSUME UserAborts = FALSE, Retriggers = {}, LockInv, Fail
  PROVE  LockRest'
  <1>0. GuardInv
    BY DEF LockInv
  <1> USE <1>0, GuardFacts, UmbrellaNotCovered
          DEF LockInv, LockRest, Driving, CopyGuarded, Untouched, Unlocked, Retiring, Unwinding,
              Reenabling, Reporting, NoUmbrellaYet, InFlight, Specs
  <1>1. CASE InstallUmbrellaFails
    BY <1>1 DEF InstallUmbrellaFails, StartRollback
  <1>2. CASE CrashInInstall
    BY <1>2 DEF CrashInInstall, Return, Blank
  <1>3. CASE Degrade
    BY <1>3 DEF Degrade, SetMigratingFalse, Return, Blank
  <1>4. CASE Abandon
    BY <1>4 DEF Abandon, Return, Blank
  <1>5. ASSUME NEW c \in Covered, UninstallCoveredFails(c) PROVE LockRest'
    BY <1>5 DEF UninstallCoveredFails, StartRollback
  <1>6. ASSUME NEW s \in Subcomponents, UninstallSubFails(s) PROVE LockRest'
    BY <1>6 DEF UninstallSubFails, StartRollback
  <1>7. ASSUME NEW s \in Subcomponents, RetireSubInterrupted(s) PROVE LockRest'
    BY <1>7 DEF RetireSubInterrupted, Return, Blank
  <1> QED
    <2> HIDE DEF LockRest, LockInv
    <2> QED BY <1>1, <1>2, <1>3, <1>4, <1>5, <1>6, <1>7, Zenon DEF Fail

LEMMA LockEnvironment ==
  ASSUME UserAborts = FALSE, Retriggers = {}, LockInv, Environment
  PROVE  LockRest'
  <1>0. GuardInv
    BY DEF LockInv
  <1> USE <1>0, GuardFacts, UmbrellaNotCovered
          DEF LockInv, LockRest, Driving, CopyGuarded, Untouched, Unlocked, Retiring, Unwinding,
              Reenabling, Reporting, NoUmbrellaYet, InFlight, Specs
  <1>1. CASE AddCleanup
    BY <1>1 DEF AddCleanup
  <1>2. CASE CleanUp
    BY <1>2 DEF CleanUp, Released, NoUmbrella
  <1>3. CASE UserDeletes
    BY <1>3 DEF UserDeletes, Released
  <1>4. CASE UserClearsMigrate \/ UserSetsMigrate
    BY <1>4 DEF UserClearsMigrate, UserSetsMigrate
  <1>5. CASE VerifyDeadline \/ ClusterGoes
    BY <1>5 DEF VerifyDeadline, ClusterGoes
  <1>6. ASSUME NEW s \in Subcomponents, ForceReadonly(s) PROVE LockRest'
    BY <1>6 DEF ForceReadonly
  <1>7. ASSUME NEW c \in Covered, UserInstalls(c) \/ UserRemoves(c) PROVE LockRest'
    BY <1>7 DEF UserInstalls, UserRemoves
  <1> QED
    <2> HIDE DEF LockRest, LockInv
    <2> QED BY <1>1, <1>2, <1>3, <1>4, <1>5, <1>6, <1>7, Zenon DEF Environment

LEMMA LockInit == BornReadonly = FALSE /\ Init => LockInv
  <1> SUFFICES ASSUME BornReadonly = FALSE, Init PROVE LockRest
    BY GuardInit DEF LockInv
  <1>1. cr.exists /\ cr.migrate /\ pc = "idle" /\ locked = {} /\ umbrella.release = "absent"
    BY DEF Init, NoUmbrella
  <1>2. ~seen.guard /\ ~seen.readonly
    BY DEF Init, Blank
  <1> QED BY <1>1, <1>2 DEF LockRest, Driving, CopyGuarded, Untouched, Unlocked, Retiring,
             Unwinding, Reenabling, NoUmbrellaYet, InFlight

LEMMA LockStep == UserAborts = FALSE /\ Retriggers = {} /\ LockInv /\ [Next]_vars => LockInv'
  <1> SUFFICES ASSUME UserAborts = FALSE, Retriggers = {}, LockInv, [Next]_vars PROVE LockInv'
    OBVIOUS
  <1>1. GuardInv'
    BY GuardStep DEF LockInv
  <1>2. CASE UNCHANGED vars
    BY <1>1, <1>2 DEF LockInv, LockRest, Driving, CopyGuarded, Untouched, Unlocked, Retiring,
       Unwinding, Reenabling, NoUmbrellaYet, InFlight, vars
  <1>3. CASE Next
    BY <1>1, <1>3, LockAdvance, LockFail, LockEnvironment DEF LockInv, Next
  <1> QED BY <1>2, <1>3

\* However a migration ends, and whatever failed on the way, the operator leaves
\* no individual's CR readonly behind it, unless it reported that the umbrella is
\* still there (the loops of Finalize and rollback, and
\* forceReadonlyIfUmbrellaInstalled).  That nobody ends it by hand is needed: who
\* clears spec.migrate keeps the locks.
THEOREM LocksGo ==
  ASSUME BornReadonly = FALSE, UserAborts = FALSE, Retriggers = {}
  PROVE  Spec => []LocksReleased
  <1>1. LockInv => LocksReleased
    BY DEF LockInv, LockRest, Unlocked, InFlight, LocksReleased
  <1>2. Init => LockInv
    BY LockInit
  <1>3. LockInv /\ [Next]_vars => LockInv'
    BY LockStep
  <1> QED BY <1>1, <1>2, <1>3, PTL DEF Spec

==============================================================================
