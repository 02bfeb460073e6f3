--------------------------- MODULE MCCoveringMode ---------------------------
(* Small instances of CoveringMode. *)
EXTENDS CoveringMode

\* One chart or two of every kind that the derivation tells apart.
EveryKind ==
  {"castai-agent", "spot-handler", "cluster-controller", "castai-kvisor", "castai-evictor",
   "castai-pod-pinner", "castai-live", "castai-workload-autoscaler", "castai-kentroller"}
NoneCustom == {}
OldOrNew   == BOOLEAN
OnlyNew    == {FALSE}

\* No choice, one mode chosen or switched off, a chart's own switch.
Choices ==
  {Unset} \cup {[Unset EXCEPT ![m] = "on"] : m \in Modes}
    \cup {[Unset EXCEPT ![k] = "off"] : k \in {"kent", "cluster-controller"}}
    \cup {[Unset EXCEPT !["live"] = "on"]}
    \cup {[Unset EXCEPT !["readonly"] = "on", !["cluster-controller"] = s] : s \in {"on", "off"}}
    \cup {[Unset EXCEPT !["readonly"] = "on", !["full"] = "on"]}

TwoIndividuals == {"castai-agent", "spot-handler"}
OnlyUnset == {Unset}
==============================================================================
