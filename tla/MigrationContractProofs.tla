------------------------ MODULE MigrationContractProofs ------------------------
(***************************************************************************)
(* UmbrellaMigration implements MigrationContract, for every set of covered *)
(* charts and of modes, where users leave a migration in its last phase     *)
(* alone and set it off once; and what the contract's invariant helps to    *)
(* prove: a successful migration leaves the umbrella as the sole owner, and *)
(* no migration loses what users had installed.                             *)
(***************************************************************************)
EXTENDS UmbrellaMigrationProofs

USE DEF umbrellaCR, subCRs, releases, locals, history

\* What users do not do: delete the umbrella CR during Finalize, clear
\* spec.migrate themselves, and migrate again after an outcome.
Ordinary == FinalizeP \notin DeletablePhases /\ UserAborts = FALSE /\ Retriggers = {}

Wanted      == cr.exists /\ ~cr.deleting
RollbackPCs == {"rollback", "reinstall", "reenable", "report failure"}

\* Once the agent's own release is gone, the umbrella that replaced it is
\* deployed and wanted, and the migration is past the point of turning back.
AgentGone ==
  Agent \notin individual =>
    /\ ~cr.deleting /\ Deployed
    /\ status.phase = FinalizeP \/ (status.phase = None /\ ~cr.migrate /\ ~cr.guard)
    /\ pc \in {"idle", "forget", "retire", "report success"}

\* The end of Finalize comes after the agent's release is gone.
Retired ==
  /\ pc \in {"retire", "report success"} => Agent \notin individual
  /\ pc = "report success" => ~cr.migrate /\ ~cr.guard
  /\ ~cr.migrate /\ status.phase = FinalizeP /\ ~cr.deleting
       => Agent \notin individual /\ ~cr.guard

\* Where the rest of a reconcile may be.
Plain ==
  /\ status.phase # MarkReadonlyP
  /\ ~cr.exists => cr.deleting
  /\ pc \in RollbackPCs /\ ~cr.deleting => status.phase # FinalizeP
  /\ pc = "installed" /\ ~cr.deleting => umbrella.release # "absent"
  /\ pc \in {"idle", "report success", "report failure"} \/ cr.migrate

ContractRest == AgentGone /\ Retired /\ Plain
ContractInv  == HandoverInv /\ ContractRest

\* A step of the migration is one of the contract, or does not show in it.
Same ==
  /\ status'.phase = status.phase /\ umbrella'.release = umbrella.release
  /\ Agent \in individual' <=> Agent \in individual
  /\ Wanted' <=> Wanted
Moves == Same \/ Contract!Next

\* What a repair records, by the phase it finds.
LEMMA RepairEnds ==
  ASSUME RepairStatus
  PROVE  \/ status.phase = FinalizeP /\ status'.phase = None
         \/ status.phase \notin {None, FinalizeP, RolledBackP} /\ status'.phase = RolledBackP
  <1>1. CASE status.phase = FinalizeP /\ WriteTerminal(None, "succeeded")
    <2>1. status' = [phase |-> None, mode |-> NoMode, absorbed |-> {}, cond |-> "succeeded"]
      BY <1>1 DEF WriteTerminal
    <2> QED BY <1>1, <2>1
  <1>2. CASE status.phase \notin {None, FinalizeP, RolledBackP} /\ WriteTerminal(RolledBackP, "failed")
    <2>1. status' = [phase |-> RolledBackP, mode |-> NoMode, absorbed |-> {}, cond |-> "failed"]
      BY <1>2 DEF WriteTerminal
    <2> QED BY <1>2, <2>1
  <1> QED BY <1>1, <1>2 DEF RepairStatus

LEMMA ContractAdvance ==
  ASSUME Ordinary, ContractInv, Advance
  PROVE  ContractRest' /\ Moves
  <1> USE DEF ContractInv, ContractRest, Moves, Same, Wanted, AgentGone, Retired, Plain, RollbackPCs,
              HandoverInv, PhaseOf, VerifiedDeployed, AgentUninstalledByNobody, Deployed, Ordinary,
              Statuses, CROK, RestOK, Specs, None, MarkReadonlyP, UninstallP, InstallP, VerifyP,
              FinalizeP, RolledBackP
  <1>1. CASE DeriveMode
    BY <1>1, TypeParts DEF DeriveMode, Dispatch
  <1>2. CASE PermissionGate
    BY <1>2, TypeParts DEF PermissionGate, SetMigratingFalse, Return
  <1>3. CASE ArmGuard
    BY <1>3, TypeParts DEF ArmGuard
  <1>4. CASE LockUmbrella
    BY <1>4, TypeParts DEF LockUmbrella
  <1>5. CASE MarkReadonlyDone
    BY <1>5, TypeParts DEF MarkReadonlyDone, SetPhase, Return,
       Contract!Next, Contract!Phase, Contract!Proceed, Contract!GiveBack, Contract!Installing,
       Contract!Install, Contract!Uninstall, Contract!HandOver, Contract!GiveUp
  <1>6. CASE SnapshotCovered
    BY <1>6, TypeParts DEF SnapshotCovered, Dispatch
  <1>7. CASE UninstallCoveredDone
    BY <1>7, TypeParts DEF UninstallCoveredDone
  <1>8. CASE UninstallDone
    BY <1>8, TypeParts DEF UninstallDone, SetPhase, Return,
       Contract!Next, Contract!Phase, Contract!Proceed, Contract!GiveBack, Contract!Installing,
       Contract!Install, Contract!Uninstall, Contract!HandOver, Contract!GiveUp
  <1>9. CASE CheckUmbrella
    BY <1>9, TypeParts DEF CheckUmbrella, Dispatch, Enter, SetPhase, SetMigratingFalse, Return,
       Contract!Next, Contract!Phase, Contract!Proceed, Contract!GiveBack, Contract!Installing,
       Contract!Install, Contract!Uninstall, Contract!HandOver, Contract!GiveUp
  <1>10. CASE DeleteAgentWorkloads
    BY <1>10, TypeParts DEF DeleteAgentWorkloads
  <1>11. CASE InstallUmbrella
    BY <1>11, TypeParts DEF InstallUmbrella,
       Contract!Next, Contract!Phase, Contract!Proceed, Contract!GiveBack, Contract!Installing,
       Contract!Install, Contract!Uninstall, Contract!HandOver, Contract!GiveUp
  <1>12. CASE InstallDone
    BY <1>12, TypeParts DEF InstallDone, SetPhase, Return,
       Contract!Next, Contract!Phase, Contract!Proceed, Contract!GiveBack, Contract!Installing,
       Contract!Install, Contract!Uninstall, Contract!HandOver, Contract!GiveUp
  <1>13. CASE Verify
    BY <1>13, TypeParts DEF Verify, Dispatch, Enter
  <1>14. CASE VerifyDone
    <2>1. ContractRest'
      BY <1>14, TypeParts DEF VerifyDone, SetPhase, Return
    <2>2. Contract!Proceed("Verify", "Finalize", umbrella.release = "deployed")
      BY <1>14, TypeParts DEF VerifyDone, SetPhase, Contract!Proceed
    <2> QED BY <2>1, <2>2 DEF Contract!Next, Contract!Phase
  <1>15. CASE BeginFinalize
    BY <1>15, TypeParts DEF BeginFinalize, Dispatch, Enter
  <1>16. CASE ForgetAgent
    BY <1>16, TypeParts DEF ForgetAgent,
       Contract!Next, Contract!Phase, Contract!Proceed, Contract!GiveBack, Contract!Installing,
       Contract!Install, Contract!Uninstall, Contract!HandOver, Contract!GiveUp
  <1>17. CASE ClearAfterSuccess
    BY <1>17, TypeParts DEF ClearAfterSuccess, ClearSpec, Released
  <1>18. CASE WriteSuccess
    BY <1>18, TypeParts DEF WriteSuccess, WriteTerminal, Return,
       Contract!Next, Contract!Phase, Contract!Proceed, Contract!GiveBack, Contract!Installing,
       Contract!Install, Contract!Uninstall, Contract!HandOver, Contract!GiveUp
  <1>19. CASE UninstallUmbrella
    <2>1. ContractRest'
      BY <1>19, TypeParts DEF UninstallUmbrella, NoUmbrella
    <2>2. Contract!Uninstall \/ Same
      BY <1>19, TypeParts DEF UninstallUmbrella, NoUmbrella, Contract!Uninstall
    <2> QED BY <2>1, <2>2 DEF Contract!Next
  <1>20. CASE ReinstallDone
    BY <1>20, TypeParts DEF ReinstallDone
  <1>21. CASE ClearAfterRollback
    BY <1>21, TypeParts DEF ClearAfterRollback, ClearSpec, Released
  <1>22. CASE WriteFailure
    <2>1. ContractRest'
      BY <1>22, TypeParts DEF WriteFailure, WriteTerminal, Return
    <2>2. Contract!GiveBack \/ Same
      BY <1>22, TypeParts DEF WriteFailure, WriteTerminal, Phases, Contract!GiveBack,
         Contract!Installing
    <2> QED BY <2>1, <2>2 DEF Contract!Next
  <1>23. CASE AbortOnDeletion
    BY <1>23, TypeParts DEF AbortOnDeletion, Enter
  <1>24. CASE ReleaseGuard
    BY <1>24, TypeParts DEF ReleaseGuard, Released
  <1>25. CASE RepairStatus
    <2>1. /\ cr.exists /\ ~cr.deleting /\ ~cr.migrate /\ pc = "idle" /\ pc' = "idle"
          /\ UNCHANGED <<cr, individual, umbrella, agentPods>>
      BY <1>25 DEF RepairStatus, WriteTerminal, Return
    <2>2. CASE status.phase = FinalizeP
      <3>1. status'.phase = None
        BY <1>25, <2>2, RepairEnds
      <3>2. Agent \notin individual /\ Deployed /\ ~cr.guard
        BY <2>1, <2>2
      <3>3. ContractRest'
        BY <2>1, <3>1, <3>2
      <3>4. Contract!Proceed("Finalize", "",
              (IF Agent \in individual THEN "itself" ELSE "umbrella") = "umbrella"
                /\ umbrella.release = "deployed")
        BY <2>1, <2>2, <3>1, <3>2 DEF Contract!Proceed
      <3> QED BY <3>3, <3>4 DEF Contract!Next, Contract!Phase
    <2>3. CASE status.phase # FinalizeP
      <3>1. status.phase \notin {None, FinalizeP, RolledBackP} /\ status'.phase = RolledBackP
        BY <1>25, <2>3, RepairEnds
      <3>2. Agent \in individual
        BY <3>1
      <3>3. ContractRest'
        BY <2>1, <3>1, <3>2
      <3>4. Contract!GiveBack
        BY <2>1, <3>1, <3>2, TypeParts DEF Phases, Contract!GiveBack, Contract!Installing
      <3> QED BY <3>3, <3>4 DEF Contract!Next
    <2> QED BY <2>2, <2>3
  <1>26. ASSUME NEW c \in Covered, UninstallCovered(c) PROVE ContractRest' /\ Moves
    BY <1>26, TypeParts DEF UninstallCovered
  <1>27. ASSUME NEW c \in Covered, ReinstallCovered(c) PROVE ContractRest' /\ Moves
    BY <1>27, TypeParts DEF ReinstallCovered
  <1>28. ASSUME NEW s \in Subcomponents, LockSub(s) PROVE ContractRest' /\ Moves
    BY <1>28, TypeParts DEF LockSub, First
  <1>29. ASSUME NEW s \in Subcomponents, UninstallSub(s) PROVE ContractRest' /\ Moves
    BY <1>29, TypeParts DEF UninstallSub, Last
  <1>30. ASSUME NEW s \in Subcomponents, RetireSub(s) PROVE ContractRest' /\ Moves
    BY <1>30, TypeParts DEF RetireSub
  <1>31. ASSUME NEW s \in Subcomponents, ReenableSub(s) PROVE ContractRest' /\ Moves
    BY <1>31, TypeParts DEF ReenableSub
  <1> QED
    <2> HIDE DEF ContractRest, ContractInv, Moves, Ordinary
    <2> QED BY <1>1, <1>2, <1>3, <1>4, <1>5, <1>6, <1>7, <1>8, <1>9, <1>10, <1>11, <1>12,
           <1>13, <1>14, <1>15, <1>16, <1>17, <1>18, <1>19, <1>20, <1>21, <1>22, <1>23,
           <1>24, <1>25, <1>26, <1>27, <1>28, <1>29, <1>30, <1>31, Zenon DEF Advance

LEMMA ContractFail ==
  ASSUME Ordinary, ContractInv, Fail
  PROVE  ContractRest' /\ Moves
  <1> USE DEF ContractInv, ContractRest, Moves, Same, Wanted, AgentGone, Retired, Plain, RollbackPCs,
              HandoverInv, PhaseOf, VerifiedDeployed, AgentUninstalledByNobody, Deployed, Ordinary,
              Statuses, CROK, RestOK, Specs, None, MarkReadonlyP, UninstallP, InstallP, VerifyP,
              FinalizeP, RolledBackP
  <1>1. CASE InstallUmbrellaFails
    <2>1. ContractRest'
      BY <1>1, TypeParts DEF InstallUmbrellaFails, StartRollback
    <2>2. Contract!Install \/ Same
      BY <1>1, TypeParts DEF InstallUmbrellaFails, Contract!Install
    <2> QED BY <2>1, <2>2 DEF Contract!Next
  <1>2. CASE CrashInInstall
    BY <1>2, TypeParts DEF CrashInInstall, Return,
       Contract!Next, Contract!Phase, Contract!Proceed, Contract!GiveBack, Contract!Installing,
       Contract!Install, Contract!Uninstall, Contract!HandOver, Contract!GiveUp
  <1>3. CASE Degrade
    BY <1>3, TypeParts DEF Degrade, Dispatch, SetMigratingFalse, Return
  <1>4. CASE Abandon
    BY <1>4, TypeParts DEF Abandon, Return
  <1>5. ASSUME NEW c \in Covered, UninstallCoveredFails(c) PROVE ContractRest' /\ Moves
    BY <1>5, TypeParts DEF UninstallCoveredFails, StartRollback
  <1>6. ASSUME NEW s \in Subcomponents, UninstallSubFails(s) PROVE ContractRest' /\ Moves
    BY <1>6, TypeParts DEF UninstallSubFails, StartRollback, Last
  <1>7. ASSUME NEW s \in Subcomponents, RetireSubInterrupted(s) PROVE ContractRest' /\ Moves
    BY <1>7, TypeParts DEF RetireSubInterrupted, Return
  <1> QED
    <2> HIDE DEF ContractRest, ContractInv, Moves, Ordinary
    <2> QED BY <1>1, <1>2, <1>3, <1>4, <1>5, <1>6, <1>7, Zenon DEF Fail

LEMMA ContractEnvironment ==
  ASSUME Ordinary, ContractInv, Environment
  PROVE  ContractRest' /\ Moves
  <1> USE DEF ContractInv, ContractRest, Moves, Same, Wanted, AgentGone, Retired, Plain, RollbackPCs,
              HandoverInv, PhaseOf, VerifiedDeployed, AgentUninstalledByNobody, Deployed, Ordinary,
              Statuses, CROK, RestOK, Specs, None, MarkReadonlyP, UninstallP, InstallP, VerifyP,
              FinalizeP, RolledBackP
  <1>1. CASE AddCleanup
    BY <1>1, TypeParts DEF AddCleanup
  <1>2. CASE CleanUp
    BY <1>2, TypeParts DEF CleanUp, Released, NoUmbrella,
       Contract!Next, Contract!Phase, Contract!Proceed, Contract!GiveBack, Contract!Installing,
       Contract!Install, Contract!Uninstall, Contract!HandOver, Contract!GiveUp
  <1>3. CASE UserDeletes
    BY <1>3, TypeParts DEF UserDeletes, Released,
       Contract!Next, Contract!Phase, Contract!Proceed, Contract!GiveBack, Contract!Installing,
       Contract!Install, Contract!Uninstall, Contract!HandOver, Contract!GiveUp
  <1>4. CASE UserClearsMigrate
    BY <1>4, TypeParts DEF UserClearsMigrate
  <1>5. CASE UserSetsMigrate
    BY <1>5, TypeParts DEF UserSetsMigrate
  <1>6. CASE VerifyDeadline
    BY <1>6, TypeParts DEF VerifyDeadline
  <1>7. CASE ClusterGoes
    BY <1>7, TypeParts DEF ClusterGoes
  <1>8. ASSUME NEW c \in Covered, UserInstalls(c) PROVE ContractRest' /\ Moves
    BY <1>8, TypeParts DEF UserInstalls
  <1>9. ASSUME NEW c \in Covered, UserRemoves(c) PROVE ContractRest' /\ Moves
    BY <1>9, TypeParts DEF UserRemoves
  <1>10. ASSUME NEW s \in Subcomponents, ForceReadonly(s) PROVE ContractRest' /\ Moves
    BY <1>10, TypeParts DEF ForceReadonly
  <1> QED
    <2> HIDE DEF ContractRest, ContractInv, Moves, Ordinary
    <2> QED BY <1>1, <1>2, <1>3, <1>4, <1>5, <1>6, <1>7, <1>8, <1>9, <1>10, Zenon DEF Environment

------------------------------------------------------------------------------
(* The theorem *)

LEMMA ContractInit == Init => ContractInv /\ Contract!Init
  <1> SUFFICES ASSUME Init PROVE ContractInv /\ Contract!Init
    OBVIOUS
  <1>1. /\ status.phase = None /\ umbrella = NoUmbrella /\ pc = "idle" /\ Agent \in individual
        /\ cr.exists /\ ~cr.deleting /\ cr.migrate
    BY DEF Init
  <1>2. AgentGone /\ Retired /\ Plain
    BY <1>1 DEF AgentGone, Retired, Plain, RollbackPCs, None, MarkReadonlyP, FinalizeP
  <1>3. Contract!Init
    BY <1>1 DEF Contract!Init, NoUmbrella, None
  <1> QED BY <1>2, <1>3, HandoverInit DEF ContractInv, ContractRest

LEMMA SameStutters ==
  ASSUME Same
  PROVE  UNCHANGED Contract!contract
  BY DEF Same, Wanted, Contract!contract

LEMMA ContractStep ==
  ASSUME Ordinary, ContractInv, [Next]_vars
  PROVE  ContractInv' /\ [Contract!Next]_(Contract!contract)
  <1>1. HandoverInv'
    BY HandoverStep DEF ContractInv, Ordinary
  <1>2. CASE Next
    <2>1. ContractRest' /\ Moves
      BY <1>2, ContractAdvance, ContractFail, ContractEnvironment, Zenon DEF Next
    <2> QED BY <1>1, <2>1, SameStutters DEF ContractInv, Moves
  <1>3. CASE UNCHANGED vars
    <2>1. ContractRest'
      BY <1>3 DEF ContractInv, ContractRest, AgentGone, Retired, Plain, Deployed, vars
    <2>2. Same
      BY <1>3 DEF Same, Wanted, vars
    <2> QED BY <1>1, <2>1, <2>2, SameStutters DEF ContractInv
  <1> QED BY <1>2, <1>3

\* Whatever fails, stops and resumes inside its phases, the migration goes through
\* them in order, hands the agent over to a deployed umbrella only, and succeeds
\* only then (MigrationReconciler's phases and its rollback).
THEOREM ContractKept ==
  ASSUME Ordinary
  PROVE  Spec => KeepsContract
  <1>1. ContractInv /\ [Next]_vars => ContractInv' /\ [Contract!Next]_(Contract!contract)
    BY ContractStep
  <1>2. Spec => Contract!Init /\ [][Contract!Next]_(Contract!contract)
    BY ContractInit, <1>1, PTL DEF Spec
  <1> QED BY <1>2 DEF KeepsContract, Contract!Spec

------------------------------------------------------------------------------
(* Sole ownership.  Individuals and their CRs only ever go; the migration       *)
(* reports success behind the loops that have taken the last of them.           *)

AfterUninstall == {InstallP, VerifyP, FinalizeP}

\* What the loops over the individuals have taken down so far, when every name
\* was resolved at their start.
OnlyTheAgent ==
  /\ status.phase \in AfterUninstall => individual \subseteq {Agent}
  /\ pc = "uninstall covered" => individual \subseteq present
  /\ pc = "uninstall subs" => individual \subseteq todo \cup {Agent}

\* The end of Finalize, its repair and its report come after the last one.
NoneLeft == individual = {} /\ kept = {}
AllRetired ==
  /\ pc = "retire" => individual = {} /\ kept \subseteq todo
  /\ pc = "report success" => NoneLeft
  /\ ~cr.migrate /\ status.phase = FinalizeP /\ ~cr.deleting => NoneLeft
  /\ status.cond = "succeeded" => NoneLeft

SoleInv == ContractInv /\ OnlyTheAgent /\ AllRetired

LEMMA PhasesDiffer ==
  /\ MarkReadonlyP \notin {None, UninstallP, InstallP, VerifyP, FinalizeP, RolledBackP}
  /\ UninstallP \notin {None, InstallP, VerifyP, FinalizeP, RolledBackP}
  /\ InstallP \notin {None, VerifyP, FinalizeP, RolledBackP}
  /\ VerifyP \notin {None, FinalizeP, RolledBackP}
  /\ FinalizeP \notin {None, RolledBackP} /\ RolledBackP # None
  BY Zenon DEF None, MarkReadonlyP, UninstallP, InstallP, VerifyP, FinalizeP, RolledBackP

\* The facts of the contract's invariant that this one needs.
LEMMA ContractFacts ==
  ASSUME ContractInv
  PROVE  /\ cr \in Specs /\ status \in Statuses
         /\ individual \subseteq Subcomponents /\ kept \subseteq Subcomponents
         /\ pc \in {"uninstall covered", "uninstall subs"} => status.phase = UninstallP
         /\ pc \in {"gate", "arm", "lock", "lock subs"} => status.phase \in {None, MarkReadonlyP}
         /\ pc \in {"take over", "install", "installed"} => status.phase = InstallP
         /\ pc = "verified" => status.phase = VerifyP
         /\ pc \in {"forget", "retire", "report success"} => status.phase = FinalizeP
         /\ pc \in RollbackPCs /\ ~cr.deleting => status.phase # FinalizeP
         /\ pc \in {"idle", "report success", "report failure"} \/ cr.migrate
  BY TypeParts DEF ContractInv, ContractRest, HandoverInv, PhaseOf, Plain, CROK, RestOK

\* When Mothership answers, everything installed is found.
LEMMA AllVisible ==
  ASSUME PartialOutage = FALSE, individual \subseteq Subcomponents, NEW p \in Visible
  PROVE  p = individual
  BY DEF Visible

LEMMA SoleAdvance ==
  ASSUME Ordinary, PartialOutage = FALSE, SoleInv, Advance
  PROVE  (OnlyTheAgent /\ AllRetired)'
  <1> USE ContractFacts, PhasesDiffer
          DEF SoleInv, OnlyTheAgent, AllRetired, NoneLeft, AfterUninstall, RollbackPCs, Ordinary,
              Specs, Statuses
  <1>1. CASE DeriveMode
    BY <1>1 DEF DeriveMode, Dispatch
  <1>2. CASE PermissionGate
    BY <1>2 DEF PermissionGate, SetMigratingFalse, Return
  <1>3. CASE ArmGuard
    BY <1>3 DEF ArmGuard
  <1>4. CASE LockUmbrella
    BY <1>4 DEF LockUmbrella
  <1>5. CASE MarkReadonlyDone
    BY <1>5 DEF MarkReadonlyDone, SetPhase, Return
  <1>6. CASE SnapshotCovered
    <2>1. present' = individual
      BY <1>6, AllVisible DEF SnapshotCovered
    <2>2. /\ pc = "idle" /\ pc' = "uninstall covered" /\ UNCHANGED <<cr, kept, individual>>
          /\ status'.phase = status.phase /\ status'.cond = status.cond
      BY <1>6 DEF SnapshotCovered, Dispatch
    <2> QED BY <2>1, <2>2
  <1>7. CASE UninstallCoveredDone
    BY <1>7 DEF UninstallCoveredDone
  <1>8. CASE UninstallDone
    BY <1>8 DEF UninstallDone, SetPhase, Return
  <1>9. CASE CheckUmbrella
    BY <1>9 DEF CheckUmbrella, Dispatch, Enter, SetPhase, SetMigratingFalse, Return
  <1>10. CASE DeleteAgentWorkloads
    BY <1>10 DEF DeleteAgentWorkloads
  <1>11. CASE InstallUmbrella
    BY <1>11 DEF InstallUmbrella
  <1>12. CASE InstallDone
    BY <1>12 DEF InstallDone, SetPhase, Return
  <1>13. CASE Verify
    BY <1>13 DEF Verify, Dispatch, Enter
  <1>14. CASE VerifyDone
    BY <1>14 DEF VerifyDone, SetPhase, Return
  <1>15. CASE BeginFinalize
    BY <1>15 DEF BeginFinalize, Dispatch, Enter
  <1>16. CASE ForgetAgent
    BY <1>16 DEF ForgetAgent
  <1>17. CASE ClearAfterSuccess
    BY <1>17 DEF ClearAfterSuccess, ClearSpec, Released
  <1>18. CASE WriteSuccess
    BY <1>18 DEF WriteSuccess, WriteTerminal, Return
  <1>19. CASE UninstallUmbrella
    BY <1>19 DEF UninstallUmbrella
  <1>20. CASE ReinstallDone
    BY <1>20 DEF ReinstallDone
  <1>21. CASE ClearAfterRollback
    BY <1>21 DEF ClearAfterRollback, ClearSpec, Released
  <1>22. CASE WriteFailure
    BY <1>22 DEF WriteFailure, WriteTerminal, Return
  <1>23. CASE AbortOnDeletion
    BY <1>23 DEF AbortOnDeletion, Enter
  <1>24. CASE ReleaseGuard
    BY <1>24 DEF ReleaseGuard, Released
  <1>25. CASE RepairStatus
    <2>1. /\ ~cr.deleting /\ ~cr.migrate /\ pc' = "idle" /\ UNCHANGED <<cr, kept, individual>>
      BY <1>25 DEF RepairStatus, WriteTerminal, Return
    <2>2. \/ status.phase = FinalizeP /\ status'.phase = None /\ status'.cond = "succeeded"
          \/ status'.phase = RolledBackP /\ status'.cond = "failed"
      BY <1>25, RepairEnds DEF RepairStatus, WriteTerminal
    <2> QED BY <2>1, <2>2
  <1>26. ASSUME NEW c \in Covered, UninstallCovered(c) PROVE (OnlyTheAgent /\ AllRetired)'
    BY <1>26 DEF UninstallCovered
  <1>27. ASSUME NEW c \in Covered, ReinstallCovered(c) PROVE (OnlyTheAgent /\ AllRetired)'
    BY <1>27 DEF ReinstallCovered
  <1>28. ASSUME NEW s \in Subcomponents, LockSub(s) PROVE (OnlyTheAgent /\ AllRetired)'
    BY <1>28 DEF LockSub
  <1>29. ASSUME NEW s \in Subcomponents, UninstallSub(s) PROVE (OnlyTheAgent /\ AllRetired)'
    BY <1>29 DEF UninstallSub, Last
  <1>30. ASSUME NEW s \in Subcomponents, RetireSub(s) PROVE (OnlyTheAgent /\ AllRetired)'
    BY <1>30 DEF RetireSub, First
  <1>31. ASSUME NEW s \in Subcomponents, ReenableSub(s) PROVE (OnlyTheAgent /\ AllRetired)'
    BY <1>31 DEF ReenableSub
  <1> QED
    <2> HIDE DEF OnlyTheAgent, AllRetired, SoleInv, Ordinary
    <2> QED BY <1>1, <1>2, <1>3, <1>4, <1>5, <1>6, <1>7, <1>8, <1>9, <1>10,
           <1>11, <1>12, <1>13, <1>14, <1>15, <1>16, <1>17, <1>18, <1>19, <1>20,
           <1>21, <1>22, <1>23, <1>24, <1>25, <1>26, <1>27, <1>28, <1>29, <1>30,
           <1>31, Zenon DEF Advance

LEMMA SoleFail ==
  ASSUME Ordinary, PartialOutage = FALSE, SoleInv, Fail
  PROVE  (OnlyTheAgent /\ AllRetired)'
  <1> USE ContractFacts, PhasesDiffer
          DEF SoleInv, OnlyTheAgent, AllRetired, NoneLeft, AfterUninstall, RollbackPCs, Ordinary,
              Specs, Statuses
  <1>1. CASE InstallUmbrellaFails
    BY <1>1 DEF InstallUmbrellaFails, StartRollback
  <1>2. CASE CrashInInstall
    BY <1>2 DEF CrashInInstall, Return
  <1>3. CASE Degrade
    BY <1>3 DEF Degrade, SetMigratingFalse, Return
  <1>4. CASE Abandon
    BY <1>4 DEF Abandon, Return
  <1>5. ASSUME NEW c \in Covered, UninstallCoveredFails(c) PROVE (OnlyTheAgent /\ AllRetired)'
    BY <1>5 DEF UninstallCoveredFails, StartRollback
  <1>6. ASSUME NEW s \in Subcomponents, UninstallSubFails(s) PROVE (OnlyTheAgent /\ AllRetired)'
    BY <1>6 DEF UninstallSubFails, StartRollback
  <1>7. ASSUME NEW s \in Subcomponents, RetireSubInterrupted(s) PROVE (OnlyTheAgent /\ AllRetired)'
    BY <1>7 DEF RetireSubInterrupted, Return
  <1> QED
    <2> HIDE DEF OnlyTheAgent, AllRetired, SoleInv, Ordinary
    <2> QED BY <1>1, <1>2, <1>3, <1>4, <1>5, <1>6, <1>7, Zenon DEF Fail

LEMMA SoleEnvironment ==
  ASSUME Ordinary, SoleInv, Environment
  PROVE  (OnlyTheAgent /\ AllRetired)'
  <1> USE ContractFacts, PhasesDiffer
          DEF SoleInv, OnlyTheAgent, AllRetired, NoneLeft, AfterUninstall, RollbackPCs, Ordinary,
              Specs, Statuses
  <1>1. CASE AddCleanup
    BY <1>1 DEF AddCleanup
  <1>2. CASE CleanUp
    BY <1>2 DEF CleanUp, Released
  <1>3. CASE UserDeletes
    BY <1>3 DEF UserDeletes, Released
  <1>4. CASE UserClearsMigrate
    BY <1>4 DEF UserClearsMigrate
  <1>5. CASE UserSetsMigrate
    BY <1>5 DEF UserSetsMigrate
  <1>6. CASE VerifyDeadline
    BY <1>6 DEF VerifyDeadline
  <1>7. CASE ClusterGoes
    BY <1>7 DEF ClusterGoes
  <1>8. ASSUME NEW c \in Covered, UserInstalls(c) PROVE (OnlyTheAgent /\ AllRetired)'
    BY <1>8 DEF UserInstalls
  <1>9. ASSUME NEW c \in Covered, UserRemoves(c) PROVE (OnlyTheAgent /\ AllRetired)'
    BY <1>9 DEF UserRemoves
  <1>10. ASSUME NEW s \in Subcomponents, ForceReadonly(s) PROVE (OnlyTheAgent /\ AllRetired)'
    BY <1>10 DEF ForceReadonly
  <1> QED
    <2> HIDE DEF OnlyTheAgent, AllRetired, SoleInv, Ordinary
    <2> QED BY <1>1, <1>2, <1>3, <1>4, <1>5, <1>6, <1>7, <1>8, <1>9, <1>10, Zenon DEF Environment

LEMMA SoleInit == Init => SoleInv
  <1> SUFFICES ASSUME Init PROVE OnlyTheAgent /\ AllRetired
    BY ContractInit DEF SoleInv
  <1>1. status.phase = None /\ status.cond = "none" /\ pc = "idle" /\ cr.migrate
    BY DEF Init
  <1> QED BY <1>1, PhasesDiffer DEF OnlyTheAgent, AllRetired, AfterUninstall

LEMMA SoleStep == Ordinary /\ PartialOutage = FALSE /\ SoleInv /\ [Next]_vars => SoleInv'
  <1> SUFFICES ASSUME Ordinary, PartialOutage = FALSE, SoleInv, [Next]_vars PROVE SoleInv'
    OBVIOUS
  <1>1. ContractInv'
    BY ContractStep DEF SoleInv
  <1>2. CASE UNCHANGED vars
    BY <1>1, <1>2 DEF SoleInv, OnlyTheAgent, AllRetired, NoneLeft, vars
  <1>3. CASE Next
    BY <1>1, <1>3, SoleAdvance, SoleFail, SoleEnvironment DEF SoleInv, Next
  <1> QED BY <1>2, <1>3

\* A migration that the operator reports successful, by itself or in repairing the
\* status of one that was interrupted at its end, has left the umbrella deployed
\* and nothing of the individuals (Finalize's loop before finalizeUmbrellaSuccess).
\* Mothership has to answer for every individual: one that it does not name is
\* neither uninstalled nor retired.
THEOREM SoleOwnership ==
  ASSUME Ordinary, PartialOutage = FALSE
  PROVE  Spec => []SoleOwner
  <1>1. SoleInv => SoleOwner
    BY DEF SoleInv, AllRetired, NoneLeft, ContractInv, ContractRest, AgentGone, SoleOwner
  <1>2. Init => SoleInv
    BY SoleInit
  <1>3. SoleInv /\ [Next]_vars => SoleInv'
    BY SoleStep
  <1> QED BY <1>1, <1>2, <1>3, PTL DEF Spec

------------------------------------------------------------------------------
(* Nothing is lost.  What users had installed is, step by step: their own       *)
(* releases; the snapshot of them and a mode that renders them; an umbrella of  *)
(* that mode, or the releases again, or a report of what could not come back.   *)

BeforeInstall == {None, MarkReadonlyP, UninstallP}

\* What this takes of users and of Mothership beside Ordinary: every individual
\* has a CR and is found, no guard is missing from the start, and no covered chart
\* is installed before the snapshot is complete.
Undisturbed ==
  /\ Ordinary
  /\ PartialOutage = FALSE /\ Orphans = FALSE /\ BornReadonly = FALSE
  /\ DriftPhases \cap BeforeInstall = {}

EverSubs    == ever \cap Subcomponents
EverCovered == ever \cap Covered

\* An individual's CR goes only once the umbrella is there to render it.
Replaced ==
  \A s \in EverSubs : s \in kept \/ (Agent \notin individual /\ s \in umbrella.renders)

\* The umbrella, and the mode it is installed with, render what was there.
AllRendered ==
  InFlight /\ umbrella.release # "absent" => EverSubs \cup status.absorbed \subseteq umbrella.renders
ModeCovers ==
  InFlight /\ status.mode # NoMode =>
    /\ EverSubs \cup status.absorbed \subseteq status.mode
    /\ status.phase \in BeforeInstall => standalone \subseteq status.mode
ModeKnown ==
  InFlight /\ (\/ pc \in {"gate", "arm", "lock", "lock subs"}
               \/ status.phase \in {UninstallP, InstallP, VerifyP, FinalizeP})
    => status.mode # NoMode

\* Nothing is uninstalled before its phase, and nothing installed before its own.
NothingYet ==
  InFlight =>
    /\ status.phase \in {None, MarkReadonlyP} =>
         ever \subseteq individual \cup standalone /\ status.absorbed = {}
    /\ status.phase \in BeforeInstall => umbrella.release = "absent"

\* The covered releases that are gone are in the snapshot, or restored or reported
\* or rendered once the snapshot is cleared.
Recorded ==
  /\ InFlight  => EverCovered \subseteq standalone \cup status.absorbed
  /\ ~InFlight => EverCovered \subseteq standalone \cup unresolved
                                  \cup (IF Agent \in individual THEN {} ELSE umbrella.renders)

\* The running reconcile's copy of the snapshot and of the mode is current.
CurrentCopy == pc # "idle" => seen.absorbed = status.absorbed /\ seen.mode = status.mode

\* What the loops over the snapshot have left to do.
CoveredLoops ==
  /\ pc = "uninstall covered" => todo \subseteq status.absorbed
  /\ pc = "reinstall" => /\ todo \subseteq status.absorbed
                         /\ status.absorbed \subseteq todo \cup standalone \cup unresolved
  /\ pc = "reenable" => status.absorbed \subseteq standalone \cup unresolved
  /\ pc = "report failure" => ~cr.migrate

LossRest == /\ Replaced /\ AllRendered /\ ModeCovers /\ ModeKnown
            /\ NothingYet /\ Recorded /\ CurrentCopy /\ CoveredLoops
LossInv  == ContractInv /\ LockInv /\ LossRest

\* The facts of the other invariants that this one needs.
LEMMA LossFacts ==
  ASSUME ContractInv, LockInv
  PROVE  /\ seen \in Copies /\ standalone \subseteq Covered /\ ever \subseteq Parts
         /\ Agent \notin individual =>
              ~cr.deleting /\ Deployed /\ pc \in {"idle", "forget", "retire", "report success"}
         /\ pc \in {"retire", "report success"} => Agent \notin individual
         /\ pc = "report success" => ~cr.migrate
         /\ pc \notin {"idle", "gate", "arm", "report success", "report failure"} => InFlight
         /\ InFlight /\ ~cr.guard => EverCovered \subseteq standalone
         /\ \A c \in Covered : c \notin Subcomponents
  <1>1. \A c \in Covered : c \notin Subcomponents
    BY ModesAssumption
  <1>2. /\ seen \in Copies /\ standalone \subseteq Covered /\ ever \subseteq Parts
        /\ individual \subseteq Subcomponents
    BY TypeParts DEF ContractInv, HandoverInv, RestOK, LocalsOK
  <1>3. InFlight /\ ~cr.guard => ever \subseteq individual \cup standalone
    BY DEF LockInv, GuardInv, Armed, Harmless
  <1>4. InFlight /\ ~cr.guard => EverCovered \subseteq standalone
    BY <1>1, <1>2, <1>3 DEF EverCovered
  <1> QED BY <1>1, <1>2, <1>4 DEF ContractInv, ContractRest, AgentGone, Retired, LockInv, LockRest,
             Driving, Reporting

\* Every mode has a part in it.
LEMMA ModesHaveParts == \A M \in Modes : M # NoMode
  BY ModesAssumption DEF NoMode

\* A mode that is chosen renders what it was chosen for.
LEMMA ChosenCovers == \A S : \A M \in CoveringModes(S) : S \subseteq M /\ M # NoMode
  BY ModesHaveParts DEF CoveringModes

LEMMA LossAdvance ==
  ASSUME Undisturbed, LossInv, Advance
  PROVE  LossRest'
  <1>0. ContractInv /\ LockInv
    BY DEF LossInv
  <1>a. \A M \in CoveringModes(individual \cup standalone) :
          M # NoMode /\ individual \cup standalone \subseteq M
    BY ChosenCovers
  <1> USE <1>0, ContractFacts, LossFacts, PhasesDiffer, UmbrellaNotCovered
          DEF LossInv, LossRest, Replaced, AllRendered, ModeCovers, ModeKnown, NothingYet, Recorded,
              CurrentCopy, CoveredLoops, InFlight, EverSubs, EverCovered, BeforeInstall, Deployed,
              Specs, Statuses, Copies
  <1>1. CASE DeriveMode
    <2>1. /\ pc = "idle" /\ pc' = "gate" /\ InFlight /\ status.phase \in {None, MarkReadonlyP}
          /\ UNCHANGED <<cr, kept, individual, standalone, umbrella, ever, unresolved>>
      BY <1>1 DEF DeriveMode, Dispatch
    <2>2. PICK p \in Visible :
            \E M \in IF status.mode = NoMode THEN CoveringModes(p \cup standalone)
                                             ELSE {status.mode} :
              /\ status' = [status EXCEPT !.mode = M]
              /\ seen' = [guard |-> cr.guard, readonly |-> cr.readonly, cleanup |-> cr.cleanup,
                          mode |-> M, absorbed |-> status.absorbed]
      BY <1>1 DEF DeriveMode
    <2>3. p = individual
      BY AllVisible DEF Undisturbed
    <2>4. PICK M \in IF status.mode = NoMode THEN CoveringModes(individual \cup standalone)
                                             ELSE {status.mode} :
            /\ status' = [status EXCEPT !.mode = M]
            /\ seen' = [guard |-> cr.guard, readonly |-> cr.readonly, cleanup |-> cr.cleanup,
                        mode |-> M, absorbed |-> status.absorbed]
      BY <2>2, <2>3
    <2>5. M # NoMode /\ standalone \subseteq M /\ EverSubs \subseteq M
      <3>1. EverSubs \subseteq individual \cup standalone
        BY <2>1
      <3>2. CASE status.mode = NoMode
        <4>1. M \in CoveringModes(individual \cup standalone)
          BY <2>4, <3>2
        <4>2. M # NoMode /\ individual \cup standalone \subseteq M
          BY <1>a, <4>1
        <4> QED BY <3>1, <4>2
      <3>3. CASE status.mode # NoMode
        BY <2>1, <2>4, <3>3
      <3> QED BY <3>2, <3>3
    <2>6. /\ status'.mode = M /\ status'.phase = status.phase /\ status'.absorbed = status.absorbed
          /\ seen'.mode = M /\ seen'.absorbed = status.absorbed
      BY <2>4
    <2> QED BY <2>1, <2>5, <2>6
  <1>2. CASE PermissionGate
    BY <1>2 DEF PermissionGate, SetMigratingFalse, Return
  <1>3. CASE ArmGuard
    BY <1>3 DEF ArmGuard
  <1>4. CASE LockUmbrella
    BY <1>4 DEF LockUmbrella
  <1>5. CASE MarkReadonlyDone
    BY <1>5 DEF MarkReadonlyDone, SetPhase, Return
  <1>6. CASE SnapshotCovered
    BY <1>6 DEF SnapshotCovered, Dispatch
  <1>7. CASE UninstallCoveredDone
    BY <1>7 DEF UninstallCoveredDone
  <1>8. CASE UninstallDone
    BY <1>8 DEF UninstallDone, SetPhase, Return
  <1>9. CASE CheckUmbrella
    <2>1. /\ pc = "idle" /\ InFlight /\ status.phase = InstallP
          /\ UNCHANGED <<cr, kept, individual, standalone, umbrella, ever, unresolved>>
          /\ pc' \in {"idle", "take over"}
      BY <1>9 DEF CheckUmbrella, Dispatch, Enter, SetPhase, SetMigratingFalse, Return
    <2>2. /\ status'.phase \in {InstallP, VerifyP}
          /\ status'.mode = status.mode /\ status'.absorbed = status.absorbed
      BY <1>9 DEF CheckUmbrella, Dispatch, Enter, SetPhase, SetMigratingFalse
    <2>3. \/ pc' = "idle"
          \/ seen'.mode = status.mode /\ seen'.absorbed = status.absorbed
      <3>1. SetPhase(VerifyP) \/ SetMigratingFalse("blocked") \/ Enter("take over")
        BY <1>9 DEF CheckUmbrella
      <3>2. CASE SetPhase(VerifyP) \/ SetMigratingFalse("blocked")
        BY <3>2 DEF SetPhase, SetMigratingFalse, Return
      <3>3. CASE Enter("take over")
        BY <3>3 DEF Enter
      <3> QED BY <3>1, <3>2, <3>3
    <2> QED BY <2>1, <2>2, <2>3
  <1>10. CASE DeleteAgentWorkloads
    BY <1>10 DEF DeleteAgentWorkloads
  <1>11. CASE InstallUmbrella
    BY <1>11 DEF InstallUmbrella
  <1>12. CASE InstallDone
    BY <1>12 DEF InstallDone, SetPhase, Return
  <1>13. CASE Verify
    <2>1. /\ pc = "idle" /\ pc' \in {"rollback", "verified"}
          /\ UNCHANGED <<cr, status, kept, individual, standalone, umbrella, ever, unresolved>>
          /\ seen'.mode = status.mode /\ seen'.absorbed = status.absorbed
      BY <1>13 DEF Verify, Dispatch, Enter
    <2> QED BY <2>1
  <1>14. CASE VerifyDone
    BY <1>14 DEF VerifyDone, SetPhase, Return
  <1>15. CASE BeginFinalize
    BY <1>15 DEF BeginFinalize, Dispatch, Enter
  <1>16. CASE ForgetAgent
    BY <1>16 DEF ForgetAgent
  <1>17. CASE ClearAfterSuccess
    BY <1>17 DEF ClearAfterSuccess, ClearSpec, Released
  <1>18. CASE WriteSuccess
    BY <1>18 DEF WriteSuccess, WriteTerminal, Return
  <1>19. CASE UninstallUmbrella
    BY <1>19 DEF UninstallUmbrella, NoUmbrella
  <1>20. CASE ReinstallDone
    BY <1>20 DEF ReinstallDone
  <1>21. CASE ClearAfterRollback
    BY <1>21 DEF ClearAfterRollback, ClearSpec, Released
  <1>22. CASE WriteFailure
    BY <1>22 DEF WriteFailure, WriteTerminal, Return
  <1>23. CASE AbortOnDeletion
    BY <1>23 DEF AbortOnDeletion, Enter
  <1>24. CASE ReleaseGuard
    BY <1>24 DEF ReleaseGuard, Released, AdmitsEdit
  <1>25. CASE RepairStatus
    BY <1>25 DEF RepairStatus, WriteTerminal, Return
  <1>26. ASSUME NEW c \in Covered, UninstallCovered(c) PROVE LossRest'
    BY <1>26 DEF UninstallCovered
  <1>27. ASSUME NEW c \in Covered, ReinstallCovered(c) PROVE LossRest'
    BY <1>27 DEF ReinstallCovered
  <1>28. ASSUME NEW s \in Subcomponents, LockSub(s) PROVE LossRest'
    BY <1>28 DEF LockSub, First
  <1>29. ASSUME NEW s \in Subcomponents, UninstallSub(s) PROVE LossRest'
    BY <1>29 DEF UninstallSub, Last
  <1>30. ASSUME NEW s \in Subcomponents, RetireSub(s) PROVE LossRest'
    BY <1>30 DEF RetireSub, First
  <1>31. ASSUME NEW s \in Subcomponents, ReenableSub(s) PROVE LossRest'
    BY <1>31 DEF ReenableSub, First
  <1> QED
    <2> HIDE DEF LossRest, LossInv, Ordinary
    <2> QED BY <1>1, <1>2, <1>3, <1>4, <1>5, <1>6, <1>7, <1>8, <1>9, <1>10,
           <1>11, <1>12, <1>13, <1>14, <1>15, <1>16, <1>17, <1>18, <1>19, <1>20,
           <1>21, <1>22, <1>23, <1>24, <1>25, <1>26, <1>27, <1>28, <1>29, <1>30,
           <1>31, Zenon DEF Advance

LEMMA LossFail ==
  ASSUME Undisturbed, LossInv, Fail
  PROVE  LossRest'
  <1>0. ContractInv /\ LockInv
    BY DEF LossInv
  <1> USE <1>0, ContractFacts, LossFacts, PhasesDiffer, UmbrellaNotCovered
          DEF LossInv, LossRest, Replaced, AllRendered, ModeCovers, ModeKnown, NothingYet, Recorded,
              CurrentCopy, CoveredLoops, InFlight, EverSubs, EverCovered, BeforeInstall, Deployed,
              Specs, Statuses, Copies
  <1>1. CASE InstallUmbrellaFails
    BY <1>1 DEF InstallUmbrellaFails, StartRollback
  <1>2. CASE CrashInInstall
    BY <1>2 DEF CrashInInstall, Return
  <1>3. CASE Degrade
    BY <1>3 DEF Degrade, SetMigratingFalse, Return
  <1>4. CASE Abandon
    BY <1>4 DEF Abandon, Return
  <1>5. ASSUME NEW c \in Covered, UninstallCoveredFails(c) PROVE LossRest'
    BY <1>5 DEF UninstallCoveredFails, StartRollback
  <1>6. ASSUME NEW s \in Subcomponents, UninstallSubFails(s) PROVE LossRest'
    BY <1>6 DEF UninstallSubFails, StartRollback, Last
  <1>7. ASSUME NEW s \in Subcomponents, RetireSubInterrupted(s) PROVE LossRest'
    BY <1>7 DEF RetireSubInterrupted, Return
  <1> QED
    <2> HIDE DEF LossRest, LossInv, Ordinary
    <2> QED BY <1>1, <1>2, <1>3, <1>4, <1>5, <1>6, <1>7, Zenon DEF Fail

LEMMA LossEnvironment ==
  ASSUME Undisturbed, LossInv, Environment
  PROVE  LossRest'
  <1>0. ContractInv /\ LockInv
    BY DEF LossInv
  <1> USE <1>0, ContractFacts, LossFacts, PhasesDiffer, UmbrellaNotCovered
          DEF LossInv, LossRest, Replaced, AllRendered, ModeCovers, ModeKnown, NothingYet, Recorded,
              CurrentCopy, CoveredLoops, InFlight, EverSubs, EverCovered, BeforeInstall, Deployed,
              Specs, Statuses, Copies
  <1>1. CASE AddCleanup
    BY <1>1 DEF AddCleanup
  <1>2. CASE CleanUp
    <2>1. /\ cr.deleting /\ umbrella'.release = "absent"
          /\ InFlight' => InFlight
          /\ UNCHANGED <<status, kept, individual, standalone, pc, todo, seen, ever, unresolved>>
      BY <1>2 DEF CleanUp, Released, NoUmbrella
    <2>2. Agent \in individual
      BY <2>1
    <2>3. cr'.migrate = cr.migrate /\ (InFlight /\ ~InFlight' => ~cr.guard)
      BY <1>2 DEF CleanUp, Released
    <2> QED BY <2>1, <2>2, <2>3
  <1>3. CASE UserDeletes
    <2>1. /\ InFlight' => InFlight
          /\ UNCHANGED <<status, kept, individual, standalone, umbrella, pc, todo, seen, ever,
                         unresolved>>
      BY <1>3 DEF UserDeletes, Released
    <2>2. cr'.migrate = cr.migrate /\ (InFlight /\ ~InFlight' => ~cr.guard)
      BY <1>3 DEF UserDeletes, Released
    <2> QED BY <2>1, <2>2
  <1>4. CASE UserClearsMigrate
    BY <1>4 DEF UserClearsMigrate, Undisturbed, Ordinary
  <1>5. CASE UserSetsMigrate
    BY <1>5 DEF UserSetsMigrate, Undisturbed, Ordinary
  <1>6. CASE VerifyDeadline
    BY <1>6 DEF VerifyDeadline
  <1>7. CASE ClusterGoes
    BY <1>7 DEF ClusterGoes
  <1>8. ASSUME NEW c \in Covered, UserInstalls(c) PROVE LossRest'
    <2>1. status.phase \notin BeforeInstall
      BY <1>8 DEF UserInstalls, Undisturbed
    <2>2. /\ InFlight /\ ever' = ever \cup {c} /\ standalone' = standalone \cup {c}
          /\ UNCHANGED <<cr, status, kept, individual, umbrella, pc, todo, seen, unresolved>>
      BY <1>8 DEF UserInstalls
    <2>3. EverSubs' = EverSubs
      BY <2>2 DEF EverSubs
    <2> QED BY <2>1, <2>2, <2>3
  <1>9. ASSUME NEW c \in Covered, UserRemoves(c) PROVE LossRest'
    BY <1>9 DEF UserRemoves, Dispatch
  <1>10. ASSUME NEW s \in Subcomponents, ForceReadonly(s) PROVE LossRest'
    BY <1>10 DEF ForceReadonly
  <1> QED
    <2> HIDE DEF LossRest, LossInv, Ordinary
    <2> QED BY <1>1, <1>2, <1>3, <1>4, <1>5, <1>6, <1>7, <1>8, <1>9, <1>10, Zenon DEF Environment

LEMMA LossInit == Undisturbed /\ Init => LossInv
  <1> SUFFICES ASSUME Undisturbed, Init PROVE LossRest
    BY ContractInit, LockInit DEF LossInv, Undisturbed
  <1>1. /\ InFlight /\ pc = "idle" /\ umbrella.release = "absent"
        /\ status.phase = None /\ status.mode = NoMode /\ status.absorbed = {}
    BY DEF Init, InFlight, NoUmbrella
  <1>2. individual \subseteq kept /\ ever = individual \cup standalone
        /\ individual \subseteq Subcomponents /\ standalone \subseteq Covered
    BY DEF Init, Undisturbed
  <1>3. EverSubs \subseteq kept /\ EverCovered \subseteq standalone
    BY <1>2, ModesAssumption DEF EverSubs, EverCovered
  <1> QED BY <1>1, <1>2, <1>3, PhasesDiffer DEF LossRest, Replaced, AllRendered, ModeCovers,
             ModeKnown, NothingYet, Recorded, CurrentCopy, CoveredLoops

LEMMA LossStep == Undisturbed /\ LossInv /\ [Next]_vars => LossInv'
  <1> SUFFICES ASSUME Undisturbed, LossInv, [Next]_vars PROVE LossInv'
    OBVIOUS
  <1>1. ContractInv' /\ LockInv'
    BY ContractStep, LockStep DEF LossInv, Undisturbed, Ordinary
  <1>2. CASE UNCHANGED vars
    BY <1>1, <1>2 DEF LossInv, LossRest, Replaced, AllRendered, ModeCovers, ModeKnown, NothingYet,
       Recorded, CurrentCopy, CoveredLoops, InFlight, EverSubs, EverCovered, vars
  <1>3. CASE Next
    BY <1>1, <1>3, LossAdvance, LossFail, LossEnvironment DEF LossInv, Next
  <1> QED BY <1>2, <1>3

\* What is in the invariant is enough to find everything users had installed.
LEMMA LossInvCustody == LossInv => NothingLost
  <1> SUFFICES ASSUME LossInv, NEW p \in ever PROVE InCustody(p)
    BY DEF NothingLost
  <1>1. p \in Subcomponents \/ p \in Covered
    BY TypeParts DEF LossInv, ContractInv, HandoverInv, RestOK, Parts
  <1>2. Agent \notin individual => Deployed
    BY DEF LossInv, ContractInv, ContractRest, AgentGone
  <1>3. CASE p \in Subcomponents
    BY <1>2, <1>3 DEF LossInv, LossRest, Replaced, EverSubs, InCustody
  <1>4. CASE p \in Covered
    BY <1>2, <1>4 DEF LossInv, LossRest, Recorded, EverCovered, InFlight, InCustody
  <1> QED BY <1>1, <1>3, <1>4

\* Whichever call fails, wherever the process stops, whenever users delete the
\* umbrella CR before Finalize and even if the cluster CR goes, everything users had
\* installed keeps a release, a CR, a place in the snapshot or the umbrella to run
\* it; or the rollback has reported it (migration_controller.go, from the mode's
\* derivation to the end).
THEOREM NothingIsLost ==
  ASSUME Undisturbed
  PROVE  Spec => []NothingLost
  <1>1. LossInv => NothingLost
    BY LossInvCustody
  <1>2. Init => LossInv
    BY LossInit
  <1>3. LossInv /\ [Next]_vars => LossInv'
    BY LossStep
  <1> QED BY <1>1, <1>2, <1>3, PTL DEF Spec

================================================================================
