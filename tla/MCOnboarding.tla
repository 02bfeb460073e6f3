---------------------------- MODULE MCOnboarding ----------------------------
(* A small instance of Onboarding: behaviours with much to happen to the       *)
(* cluster and few log entries, and the reverse.                               *)
EXTENDS Onboarding

CONSTANTS id1, id2
TwoIDs == {id1, id2}

Bound(r, e, f, n) == [rotations |-> r, edits |-> e, faults |-> f, entries |-> n]
SomeOfEach == {Bound(2, 1, 2, 0), Bound(1, 0, 1, 2), Bound(0, 0, 1, 6)}
=============================================================================
