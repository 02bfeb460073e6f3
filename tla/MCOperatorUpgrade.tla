------------------------- MODULE MCOperatorUpgrade -------------------------
(* Small instances of OperatorUpgrade. *)
EXTENDS OperatorUpgrade

TwoVersions  == {"v1", "v2"}
\* Freshly installed, or upgraded once.
FreshOrNot   == {<<"v1">>, <<"v2", "v1">>}
Upgraded     == {<<"v2", "v1">>}

NotStarted == {"upgrade", "read"}
\* What goes wrong in a job, and with the status and the reports about it.
InJobs     == {"write", "report", "apply", "read", "pods", "rollback", "late", "kill"}
============================================================================
