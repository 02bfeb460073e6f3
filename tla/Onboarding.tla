---------------------------- MODULE Onboarding ----------------------------
(***************************************************************************)
(* How a cluster gets its ID and becomes available: the first steps of     *)
(* ClusterReconciler.Reconcile (registration, the ID in the spec, the      *)
(* initial report, the check of the API key), the Cluster webhook that     *)
(* makes the ID immutable, rotations of the key, and the log hook that     *)
(* starts to ship once the ID is known.                                    *)
(*                                                                         *)
(* One reconcile runs at a time; seen is its copy of the CR, key the       *)
(* secret it loaded, id the cluster ID it found.  Everybody else acts      *)
(* between its calls.                                                      *)
(*                                                                         *)
(* Simplifications:                                                        *)
(*  - no operator upgrade runs; what a reconcile does after the key check  *)
(*    is in other modules;                                                 *)
(*  - the secret exists and has a key; the provider is supported;          *)
(*  - a key's validity only changes with the secret;                       *)
(*  - Mothership may answer a registration with any ID, the agent's logs   *)
(*    show one ID or none;                                                 *)
(*  - faults, rotations, edits and entries have budgets.                   *)
(***************************************************************************)
EXTENDS LogShipping

CONSTANTS
  IDs,          \* cluster IDs
  AgentID,      \* the one the agent logs
  Absent,       \* the CR has no spec.cluster
  Empty,        \* the CR has a spec.cluster without an ID, or no ID was found
  Faults,       \* what goes wrong: a subset of AllFaults
  Budgets       \* bounds on new versions of the secret, edits of spec.cluster by
                \* others, faults and log entries; a behaviour has one of them

\* The agent's logs cannot be looked for; registration, the patch of the spec,
\* a write of the status, the initial report or GetCluster fails; the process is
\* killed, or told to end.
AllFaults == {"logs", "register", "patch", "write", "report", "check", "kill", "end"}

ASSUME OnboardingAssumption ==
  /\ AgentID \in IDs /\ Absent \notin IDs /\ Empty \notin IDs /\ NoTarget \notin IDs
  /\ Faults \subseteq AllFaults
  /\ Budgets \subseteq [rotations : Nat, edits : Nat, faults : Nat, entries : Nat]

VARIABLES
  spec,      \* spec.cluster: Absent, Empty or its ID
  status,    \* lastRegistrationVersion set, Available, lastSecretVersion
  secret,    \* version, and whether Mothership accepts the key
  pc,        \* the call the reconcile makes next, or "idle"
  seen, key, id, \* its locals
  heard,     \* IDs under which Mothership was told of the installation
  rotations, edits, faults \* budgets

local  == <<pc, seen, key, id>>
budget == <<rotations, edits, faults>>
onboardingVars == <<spec, status, secret, local, heard, budget>>
vars == <<onboardingVars, logVars>>

NeverNoted == 0

Init ==
  /\ spec \in {Absent, Empty} \cup IDs
  /\ status = [registered |-> FALSE, available |-> FALSE, noted |-> NeverNoted]
  /\ secret = [version |-> 1, valid |-> TRUE]
  /\ pc = "idle" /\ seen = [spec |-> spec, status |-> status] /\ key = secret /\ id = Empty
  /\ heard = {}
  /\ \E bound \in Budgets :
       /\ rotations = bound.rotations /\ edits = bound.edits
       /\ faults = bound.faults /\ entries = bound.entries
  /\ LogInit

------------------------------------------------------------------------------
(* Helpers *)

Missing(cluster) == cluster \notin IDs

\* A plausible bug: the ID counts as modified only when it is removed.
AdmitsNewID(from, to) == from = Absent \/ to # Absent

\* ValidateUpdate of the Cluster webhook, as far as spec.cluster is concerned.
Admits(from, to) == from = Absent \/ to = from

Fault(f) == f \in Faults /\ faults > 0 /\ faults' = faults - 1 /\ UNCHANGED <<rotations, edits>>
NoFault  == UNCHANGED budget
\* A call fails because it must, or for a fault.
Fails(f, must) == (must /\ NoFault) \/ Fault(f)

Go(next) == pc' = next /\ UNCHANGED <<seen, key>>
Return   == pc' = "idle" /\ UNCHANGED <<seen, key, id>>

\* Status().Update of the reconcile's copy: refused when the CR was edited since.
Write(st) == spec = seen.spec /\ status' = st /\ seen' = [seen EXCEPT !.status = st] /\ NoFault
WriteRefused == Fails("write", spec # seen.spec) /\ UNCHANGED status

------------------------------------------------------------------------------
(* The reconcile *)

Begin ==
  /\ pc = "idle"
  /\ seen' = [spec |-> spec, status |-> status] /\ key' = secret
  /\ id' = Empty /\ pc' = "identify"
  /\ UNCHANGED <<spec, status, secret, heard, budget, logVars>>

\* ensureClusterRegistration up to the call: without an ID in the spec, the
\* agent's logs are asked, and registering is needed when that fails or when
\* this operator has not registered yet.
Identify ==
  /\ pc = "identify"
  /\ \E failed \in BOOLEAN :
       /\ IF failed THEN Missing(seen.spec) /\ Fault("logs") ELSE NoFault
       /\ id' \in IF Missing(seen.spec) /\ ~failed THEN {Empty, AgentID} ELSE {Empty}
       /\ Go(IF failed \/ ~seen.status.registered THEN "register" ELSE "fill in")
  /\ UNCHANGED <<spec, status, secret, heard, logVars>>

\* The logs' ID goes before the one Mothership answers with.  A failure is noted
\* in a condition nobody reads.
Register ==
  /\ pc = "register"
  /\ \/ /\ key.valid /\ NoFault
        /\ id' \in IF id = Empty THEN IDs ELSE {id}
        /\ Go("note registered")
     \/ Fails("register", ~key.valid) /\ Return
  /\ UNCHANGED <<spec, status, secret, heard, logVars>>

NoteRegistered ==
  /\ pc = "note registered"
  /\ \/ Write([seen.status EXCEPT !.registered = TRUE]) /\ pc' = "fill in" /\ UNCHANGED <<key, id>>
     \/ WriteRefused /\ Return
  /\ UNCHANGED <<spec, secret, heard, logVars>>

\* ensureClusterIDInSpec: a merge patch that sets what was missing in the copy,
\* even when no ID was found.  The reconcile ends here, well or not.
FillIn ==
  /\ pc = "fill in" /\ Missing(seen.spec)
  /\ LET patched == IF id # Empty THEN id ELSE IF spec = Absent THEN Empty ELSE spec
     IN \/ Admits(spec, patched) /\ spec' = patched /\ NoFault
        \/ Fails("patch", ~Admits(spec, patched)) /\ UNCHANGED spec
  /\ Return
  /\ UNCHANGED <<status, secret, heard, logVars>>

\* With an ID in the spec, the hook is told and the reconcile goes on.
StartShipping ==
  /\ pc = "fill in" /\ ~Missing(seen.spec)
  /\ UpdateState(seen.spec)
  /\ Go("set up")
  /\ UNCHANGED <<spec, status, secret, heard, budget, id>>

\* completeInitialSetup: a cluster that is not available is reported as
\* installed.
SetUp ==
  /\ pc = "set up"
  /\ \/ seen.status.available /\ Go("check key") /\ UNCHANGED <<heard, id>> /\ NoFault
     \/ /\ ~seen.status.available /\ key.valid
        /\ heard' = heard \cup {seen.spec} /\ Go("note available") /\ UNCHANGED id /\ NoFault
     \/ ~seen.status.available /\ Fails("report", ~key.valid) /\ Return /\ UNCHANGED heard
  /\ UNCHANGED <<spec, status, secret, logVars>>

\* A plausible bug: the key that was just used counts as checked.
NoteAvailableChecked ==
  /\ pc = "note available"
  /\ \/ Write([seen.status EXCEPT !.available = TRUE, !.noted = secret.version])
     \/ WriteRefused /\ UNCHANGED seen
  /\ pc' = "idle" /\ UNCHANGED <<key, id>>
  /\ UNCHANGED <<spec, secret, heard, logVars>>

NoteAvailable ==
  /\ pc = "note available"
  /\ \/ Write([seen.status EXCEPT !.available = TRUE])
     \/ WriteRefused /\ UNCHANGED seen
  /\ pc' = "idle" /\ UNCHANGED <<key, id>>
  /\ UNCHANGED <<spec, secret, heard, logVars>>

\* reconcileSecret reads the secret's version, ...
CheckKey ==
  /\ pc = "check key"
  /\ \/ secret.version = seen.status.noted /\ Return
     \/ /\ secret.version # seen.status.noted
        /\ pc' = "load key" /\ key' = secret /\ UNCHANGED <<seen, id>>
  /\ UNCHANGED <<spec, status, secret, heard, budget, logVars>>

\* ... loads the key, which may be a later one, and asks Mothership for the
\* cluster.  The version that was read is noted, or the cluster is unavailable.
LoadKey ==
  /\ pc = "load key"
  /\ \/ /\ secret.valid /\ Write([seen.status EXCEPT !.noted = key.version])
     \/ ~secret.valid /\ Write([seen.status EXCEPT !.available = FALSE])
     \/ /\ Fault("check") /\ spec = seen.spec
        /\ status' = [seen.status EXCEPT !.available = FALSE] /\ seen' = [seen EXCEPT !.status = status']
     \/ WriteRefused /\ UNCHANGED seen
  /\ pc' = "idle" /\ UNCHANGED <<key, id>>
  /\ UNCHANGED <<spec, secret, heard, logVars>>

Reconcile ==
  \/ Begin \/ Identify \/ Register \/ NoteRegistered \/ FillIn \/ StartShipping
  \/ SetUp \/ NoteAvailable \/ CheckKey \/ LoadKey

------------------------------------------------------------------------------
(* The others *)

\* A new key is put into the secret, good or bad.
Rotate ==
  /\ rotations > 0 /\ rotations' = rotations - 1
  /\ secret' \in [version : {secret.version + 1}, valid : BOOLEAN]
  /\ UNCHANGED <<spec, status, local, heard, edits, faults, logVars>>

\* Somebody sets spec.cluster.
Edit ==
  /\ edits > 0 /\ edits' = edits - 1
  /\ spec' \in IDs \ {spec} /\ Admits(spec, spec')
  /\ UNCHANGED <<status, secret, local, heard, rotations, faults, logVars>>

\* The process is told to end: reconcile and log goroutine come to their end.
End == Fault("end") /\ Cancel /\ UNCHANGED <<spec, status, secret, local, heard>>

\* A new process after an exit or a kill.
Restart ==
  /\ Fails("kill", phase = "done")
  /\ pc' = "idle" /\ seen' = [spec |-> spec, status |-> status] /\ key' = secret /\ id' = Empty
  /\ LogRestart
  /\ UNCHANGED <<spec, status, secret, heard>>

Log == LogNext /\ UNCHANGED onboardingVars

Next == Reconcile \/ Rotate \/ Edit \/ End \/ Restart \/ Log

Spec == Init /\ [][Next]_vars

\* Reconciles are requeued on every path; the goroutine runs, and the select's
\* ticker fires; a process that ends is started again.
FairSpec ==
  /\ Spec
  /\ WF_vars(Reconcile) /\ WF_vars(Ship /\ UNCHANGED onboardingVars)
  /\ WF_vars(phase = "done" /\ Restart)

------------------------------------------------------------------------------
(* Correctness *)

TypeOK ==
  /\ spec \in {Absent, Empty} \cup IDs
  /\ status \in [registered : BOOLEAN, available : BOOLEAN, noted : 0..secret.version]
  /\ id \in {Empty} \cup IDs
  /\ target \in {NoTarget} \cup IDs
  /\ pc \in {"set up", "note available", "check key", "load key"} => seen.spec \in IDs
  /\ LogTypeOK

\* Mothership knows the cluster by one ID: whatever a registration answers, an
\* agent logs or a user edits, reports and logs go under the ID in the spec.
OneIdentity ==
  /\ heard \subseteq {spec}
  /\ target \in {NoTarget, spec}

\* Availability follows the API key: a cluster whose key stays good becomes
\* available for good, unless its spec.cluster was made without an ID, which
\* nothing can change any more; one whose key stays bad becomes unavailable.
AvailabilityFollowsKey ==
  /\ <>[]secret.valid => <>[](status.available \/ spec = Empty)
  /\ <>[]~secret.valid => <>[]~status.available
============================================================================
