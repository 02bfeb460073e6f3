------------------------ MODULE MCUmbrellaMigration ------------------------
(* Small instances of UmbrellaMigration. *)
EXTENDS UmbrellaMigration

Kvisor  == "castai-kvisor"
Evictor == "castai-evictor"
\* Agent and SpotHandler are in every mode, kvisor too; evictor and the cluster
\* controller only in the wider ones, as in UmbrellaTagComponents.
Small   == {Agent, SpotHandler, Kvisor}

NoCovered  == {}
OneCovered == {Evictor}
NoModes    == {{Agent, SpotHandler}, Parts}
OneModes   == {{Agent, SpotHandler}, Parts}
\* Larger than what the runs use: 6.6 million states for the safety properties.
TwoModes   == {Small, Parts}
TwoCovered == {Kvisor, Evictor}

\* Liveness is checked from one starting point: the scan path's phase 1, agent
\* and spot-handler with their CRs.
Phase1Init == Init /\ individual = {Agent, SpotHandler} /\ kept = individual

Phase1FairSpec == Phase1Init /\ [][Next]_vars /\ Fairness /\ FailuresCease

\* The phases in which the individual regime can still be restored.
BeforeFinalize == Phases \ {FinalizeP}
OnlyFinalize   == {FinalizeP}
\* The phases before and after the snapshot is taken.
BeforeSnapshot == {None, MarkReadonlyP, UninstallP}
AfterSnapshot  == {InstallP, VerifyP, FinalizeP}
Never          == {}
AfterSuccess   == {"succeeded"}
==============================================================================
