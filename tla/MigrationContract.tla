------------------------- MODULE MigrationContract -------------------------
(***************************************************************************)
(* What the migration promises, seen from the outside: it goes through its *)
(* phases in order, the agent passes from its own release to the           *)
(* umbrella's when that is deployed, and only such a migration succeeds.   *)
(* How a phase does its work, fails, stops and resumes does not show.      *)
(*                                                                         *)
(* The umbrella's user may give it up (delete its CR); from then on the    *)
(* umbrella may go at any time, and a phase that was about to be recorded  *)
(* still is.                                                               *)
(***************************************************************************)
VARIABLES
  phase,    \* the recorded phase; "" before a migration and after a success
  holder,   \* the release that runs the agent: "itself" or "umbrella"
  umbrella, \* the umbrella's release: "absent" or helm's status of it
  wanted    \* the umbrella has not been given up

contract == <<phase, holder, umbrella, wanted>>

Init == phase = "" /\ holder = "itself" /\ umbrella = "absent" /\ wanted = TRUE

\* The next phase is recorded, if what the phase was for has been reached.
Proceed(from, to, reached) ==
  /\ phase = from /\ phase' = to /\ (wanted => reached)
  /\ UNCHANGED <<holder, umbrella, wanted>>

Installing == {"", "UninstallIndividuals", "InstallUmbrella", "Verify", "Finalize"}

Phase ==
  \/ Proceed("", "UninstallIndividuals", TRUE)
  \/ Proceed("UninstallIndividuals", "InstallUmbrella", holder = "itself")
  \/ Proceed("InstallUmbrella", "Verify", umbrella # "absent")
  \/ Proceed("Verify", "Finalize", umbrella = "deployed")
  \/ Proceed("Finalize", "", holder = "umbrella" /\ umbrella = "deployed")

\* The migration ends in a rollback, which is for the agent that never left.
GiveBack ==
  /\ phase \in Installing /\ phase' = "RolledBack" /\ holder = "itself"
  /\ UNCHANGED <<holder, umbrella, wanted>>

\* helm installs the umbrella, well or not, while that is the phase.
Install ==
  /\ phase = "InstallUmbrella" /\ umbrella' \in {"pending", "deployed", "failed"}
  /\ UNCHANGED <<phase, holder, wanted>>

\* The umbrella is uninstalled: with the agent still on its own, or given up.
Uninstall ==
  /\ holder = "itself" \/ ~wanted
  /\ umbrella' = "absent" /\ UNCHANGED <<phase, holder, wanted>>

HandOver ==
  /\ phase = "Finalize" /\ umbrella = "deployed" /\ wanted
  /\ holder' = "umbrella" /\ UNCHANGED <<phase, umbrella, wanted>>

GiveUp == wanted' = FALSE /\ UNCHANGED <<phase, holder, umbrella>>

Next == Phase \/ GiveBack \/ Install \/ Uninstall \/ HandOver \/ GiveUp

Spec == Init /\ [][Next]_contract

\* What follows: an umbrella that is wanted never leaves the agent to nobody.
AgentAlwaysHeld == holder = "itself" \/ umbrella = "deployed" \/ ~wanted
============================================================================
