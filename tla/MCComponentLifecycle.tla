----------------------- MODULE MCComponentLifecycle -----------------------
(* Small instances of ComponentLifecycle. *)
EXTENDS ComponentLifecycle

TwoVersions   == {"v1", "v2"}
ThreeVersions == {"v1", "v2", "v3"}
FromNothing   == {""}
FromNew       == {"", "yaml"}
FromAny       == {"", "helm", "yaml"}

NoFaults == {}
\* Faults that no property of the passing runs suffers from.
Tolerated  == {"apply", "stop in helm", "report", "write"}
MoreFaults == Tolerated \cup {"no such version", "stop", "rollback", "fetch",
                             "refresh"}
\* Those of the deviations that the README lists.
OnlyFetch  == {"fetch"}
TwoFailures == {"apply", "rollback"}
NotReopened == {"stop in helm", "refresh"}

SpecEdits    == {"version", "values", "delete"}
UpgradeEdits == {"version", "values", "delete", "ask rollback"}
LockEdits    == {"version", "lock", "unlock", "uninstall", "repair", "delete"}
OnlyVersion  == {"version"}
OnlyValues   == {"values"}
Removal      == {"lock", "uninstall", "unlock"}
LockedDelete == {"lock", "delete"}
LockedVersion == {"version", "lock", "unlock"}
===========================================================================
