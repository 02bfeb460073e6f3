------------------------- MODULE CoveringModeProofs -------------------------
(***************************************************************************)
(* Theorems about CoveringMode, for every set of charts and every choice   *)
(* of values.  What the umbrella renders is decided by the one mode its    *)
(* values switch on (RendersIn); the rest follows the mode, the values and *)
(* the snapshot through the phases.                                        *)
(***************************************************************************)
EXTENDS CoveringMode, FiniteSetTheorems, TLAPS

(* What a set of values renders. *)

OffIn(m, v) ==
  {"metrics-server"}
    \cup (IF v["live"] = "off" /\ m # "kent" THEN {"castai-live"} ELSE {})
    \cup (IF v["chart-upgrader"] = "off" THEN {"castai-chart-upgrader"} ELSE {})
    \cup (IF v["cluster-controller"] = "off" /\ m # "kent"
          THEN {"castai-cluster-controller"} ELSE {})

OnIn(m, v) ==
  IF v["cluster-controller"] = "on" /\ m # "kent" THEN {"castai-cluster-controller"} ELSE {}

RendersIn(m, v) == (ModeComponents(m) \ OffIn(m, v)) \cup OnIn(m, v)

LEMMA ModesFinite == ASSUME NEW v PROVE IsFiniteSet(ModesOf(v))
<1>1. IsFiniteSet({"readonly", "node-autoscaler", "workload-autoscaler", "full", "kent"})
  <2>1. IsFiniteSet({"readonly"}) BY FS_Singleton
  <2>2. IsFiniteSet({"readonly", "node-autoscaler"})
    BY <2>1, FS_AddElement,
       {"readonly", "node-autoscaler"} = {"readonly"} \cup {"node-autoscaler"}
  <2>3. IsFiniteSet({"readonly", "node-autoscaler", "workload-autoscaler"})
    BY <2>2, FS_AddElement,
       {"readonly", "node-autoscaler", "workload-autoscaler"}
         = {"readonly", "node-autoscaler"} \cup {"workload-autoscaler"}
  <2>4. IsFiniteSet(Tags)
    BY <2>3, FS_AddElement,
       Tags = {"readonly", "node-autoscaler", "workload-autoscaler"} \cup {"full"} DEF Tags
  <2>5. QED BY <2>4, FS_AddElement,
       {"readonly", "node-autoscaler", "workload-autoscaler", "full", "kent"} = Tags \cup {"kent"}
       DEF Tags
<1>2. ModesOf(v) \in SUBSET {"readonly", "node-autoscaler", "workload-autoscaler", "full", "kent"}
  BY DEF ModesOf, Modes, Tags
<1>3. QED BY <1>1, <1>2, FS_Subset

LEMMA RendersOne ==
  ASSUME NEW v, NEW m, ModesOf(v) = {m}
  PROVE  Renders(v) = RendersIn(m, v)
<1>1. Cardinality(ModesOf(v)) = 1 BY FS_Singleton
<1>2. (CHOOSE x \in ModesOf(v) : TRUE) = m OBVIOUS
<1>3. QED BY <1>1, <1>2 DEF Renders, RendersIn, OffIn, OnIn

LEMMA RendersCases ==
  ASSUME NEW v
  PROVE  Renders(v) = {} \/ \E m \in Modes : ModesOf(v) = {m} /\ Renders(v) = RendersIn(m, v)
<1>1. CASE Cardinality(ModesOf(v)) = 1
  <2>1. PICK m : ModesOf(v) = {m} BY <1>1, ModesFinite, FS_Singleton
  <2>2. m \in Modes BY <2>1 DEF ModesOf
  <2>3. QED BY <2>1, <2>2, RendersOne
<1>2. CASE Cardinality(ModesOf(v)) # 1
  BY <1>2 DEF Renders
<1>3. QED BY <1>1, <1>2

------------------------------------------------------------------------------
(* What a merge leaves of the values. *)

LEMMA ModeSwitches ==
  ASSUME NEW m \in Modes
  PROVE  /\ ModeValues(m) = [k \in Switches |-> IF k = m THEN "on" ELSE "unset"]
         /\ m \in Switches
         /\ m \notin {"live", "cluster-controller", "chart-upgrader"}
  BY DEF ModeValues, Unset, Switches, Modes, Tags

\* The values the umbrella is installed with, switch by switch.
LEMMA Installed ==
  ASSUME NEW m \in Modes, NEW v \in Values,
         NEW u, u = UmbrellaValues(m, v)
  PROVE  /\ \A k \in Modes : u[k] = IF v[k] # "unset" THEN v[k] ELSE IF k = m THEN "on" ELSE "unset"
         /\ u["cluster-controller"] = v["cluster-controller"]
         /\ u["live"] = IF v["live"] # "unset" THEN v["live"]
                        ELSE IF v["kent"] = "on" \/ m = "kent" THEN "unset" ELSE "off"
         /\ u["chart-upgrader"] = IF v["kent"] = "on" \/ m = "kent" THEN "off"
                                  ELSE v["chart-upgrader"]
<1> DEFINE kent == v["kent"] = "on" \/ m = "kent"
           merged == Merge(Merge(IF kent THEN Unset ELSE [Unset EXCEPT !["live"] = "off"],
                                 ModeValues(m)), v)
<1>1. merged = [k \in Switches |-> IF v[k] # "unset" THEN v[k] ELSE IF k = m THEN "on"
                                   ELSE IF k = "live" /\ ~kent THEN "off" ELSE "unset"]
  BY ModeSwitches DEF Merge, Unset
<1>2. u = IF kent THEN [merged EXCEPT !["chart-upgrader"] = "off"] ELSE merged
  BY DEF UmbrellaValues
<1>3. Modes \subseteq Switches /\ {"live", "cluster-controller", "chart-upgrader"} \subseteq Switches
      /\ \A k \in Modes : k \notin {"live", "cluster-controller", "chart-upgrader"}
  BY DEF Switches, Modes, Tags
<1> HIDE DEF merged
<1>4. QED BY <1>1, <1>2, <1>3, ModeSwitches DEF Values

------------------------------------------------------------------------------
(* Permissions *)

LEMMA ReadonlyRenders ==
  ASSUME NEW m \in Modes, NEW v \in Values, ~RequiresExtendedPermissions(v)
  PROVE  Renders(UmbrellaValues(m, v)) \subseteq Readonly
<1> DEFINE u == UmbrellaValues(m, v)
<1>1. v["readonly"] = "on" /\ v["cluster-controller"] # "on"
  BY DEF RequiresExtendedPermissions, ClusterControllerEnabled
<1>2. u["readonly"] = "on" /\ u["cluster-controller"] # "on"
  BY <1>1, Installed DEF Modes, Tags
<1>3. "readonly" \in ModesOf(u) BY <1>2 DEF ModesOf, Modes, Tags
<1>4. RendersIn("readonly", u) \subseteq Readonly
  BY <1>2 DEF RendersIn, OnIn, ModeComponents, TagComponents, Tags
<1> HIDE DEF u
<1>5. Renders(u) = {} \/ Renders(u) = RendersIn("readonly", u)
  BY <1>3, RendersCases
<1>6. QED BY <1>4, <1>5 DEF u

PermissionInv ==
  /\ user \in Values /\ Admitted(user, extended)
  /\ phase = "Verify" => derived \in Modes /\ umbrella = UmbrellaValues(derived, user)
  /\ derived \in Modes \cup {""}

LEMMA ModeOfMigration ==
  ASSUME NEW v, NEW S PROVE MigrationModeFor(v, S) \in Modes
  BY DEF MigrationModeFor, MinimalCoveringProfile, MinimalCoveringTag, Modes, Tags

LEMMA ModeOfInstall == derived \in Modes \cup {""} => ResolveInstallMode \in Modes
  BY ModeOfMigration DEF ResolveInstallMode

LEMMA PermissionInit == Init => PermissionInv
  BY CoveringAssumption DEF Init, PermissionInv

LEMMA PermissionNext == PermissionInv /\ [Next]_vars => PermissionInv'
<1> SUFFICES ASSUME PermissionInv, [Next]_vars PROVE PermissionInv'
  OBVIOUS
<1> USE DEF PermissionInv
<1>1. ASSUME NEW v \in UserValues, EditValues(v) PROVE PermissionInv'
  BY <1>1, CoveringAssumption DEF EditValues, Admitted
<1>2. CASE MarkReadonly
  <2>1. derived' \in Modes BY <1>2, ModeOfMigration DEF MarkReadonly
  <2>2. QED BY <1>2, <2>1 DEF MarkReadonly, Admitted
<1>3. CASE PatchReadonly
  BY <1>3 DEF PatchReadonly, Admitted
<1>4. CASE UninstallIndividuals
  BY <1>4 DEF UninstallIndividuals, Admitted
<1>5. CASE InstallUmbrella
  <2>1. derived' \in Modes BY <1>5, ModeOfInstall DEF InstallUmbrella
  <2>2. umbrella' = UmbrellaValues(derived', user') BY <1>5 DEF InstallUmbrella
  <2>3. QED BY <1>5, <2>1, <2>2 DEF InstallUmbrella, Admitted
<1>6. CASE UNCHANGED vars
  BY <1>6 DEF vars, Admitted
<1>7. QED BY <1>1, <1>2, <1>3, <1>4, <1>5, <1>6 DEF Next

\* An operator without extended permissions renders no more than the readonly charts,
\* whatever is installed and whatever values the webhook lets in.
THEOREM WithinPermissions == Spec => []PermissionsSuffice
<1>1. PermissionInv => PermissionsSuffice
  BY ReadonlyRenders DEF PermissionInv, PermissionsSuffice, Migrated, Admitted
<1>2. QED BY <1>1, PermissionInit, PermissionNext, PTL DEF Spec

------------------------------------------------------------------------------
(* Nothing is dropped: the mode covers what was there when the migration began *)

Covers(d, S) == d = "kent" \/ \A n \in S : Canonical(n) \in TagComponents[d]

LEMMA CanonicalNames ==
  ASSUME NEW n \in Standalone
  PROVE  /\ Canonical(n) \in Covered \cup KentOnly
         /\ n \notin KentOnly => Canonical(n) \in Covered
<1>1. n \in Covered \cup Individuals \cup KentOnly BY CoveringAssumption
<1>2. QED BY <1>1 DEF Canonical, Covered, Readonly, NodeSide, Shared, NodeOnly, WorkloadOnly,
                      KentOnly, Individuals

LEMMA TagCovers ==
  ASSUME NEW S, \A n \in S : Canonical(n) \in Covered
  PROVE  Covers(MinimalCoveringTag(S), S)
<1> DEFINE names == {Canonical(n) : n \in S} \cap Covered
           tag == MinimalCoveringTag(S)
<1>1. \A n \in S : Canonical(n) \in names OBVIOUS
<1>2. tag = CASE names \cap NodeOnly # {} /\ names \cap WorkloadOnly # {} -> "full"
              [] names \cap WorkloadOnly # {} /\ names \cap NodeOnly = {} -> "workload-autoscaler"
              [] names \cap WorkloadOnly = {} /\ names \cap NodeSide # {} -> "node-autoscaler"
              [] OTHER -> "readonly"
  BY DEF MinimalCoveringTag
<1>3. names \subseteq Covered OBVIOUS
<1> HIDE DEF names
<1>4. /\ tag \in Tags
      /\ names \subseteq TagComponents[tag]
  <2>1. CASE names \cap NodeOnly # {} /\ names \cap WorkloadOnly # {}
    <3>1. tag = "full" BY <1>2, <2>1
    <3>2. QED BY <1>3, <3>1 DEF TagComponents, Tags
  <2>2. CASE names \cap WorkloadOnly # {} /\ names \cap NodeOnly = {}
    <3>1. tag = "workload-autoscaler" BY <1>2, <2>2
    <3>2. names \subseteq Readonly \cup Shared \cup WorkloadOnly
      BY <1>3, <2>2 DEF Covered, NodeSide
    <3>3. QED BY <3>1, <3>2 DEF TagComponents, Tags
  <2>3. CASE names \cap WorkloadOnly = {} /\ names \cap NodeSide # {}
    <3>1. tag = "node-autoscaler" BY <1>2, <2>3
    <3>2. names \subseteq Readonly \cup NodeSide BY <1>3, <2>3 DEF Covered
    <3>3. QED BY <3>1, <3>2 DEF TagComponents, Tags
  <2>4. CASE names \cap WorkloadOnly = {} /\ names \cap NodeSide = {}
    <3>1. tag = "readonly" BY <1>2, <2>4
    <3>2. names \subseteq Readonly BY <1>3, <2>4 DEF Covered
    <3>3. QED BY <3>1, <3>2 DEF TagComponents, Tags
  <2>5. NodeOnly \subseteq NodeSide BY DEF NodeSide
  <2>6. QED BY <2>1, <2>2, <2>3, <2>4, <2>5
<1>5. QED BY <1>1, <1>4 DEF Covers

\* The mode that is derived renders, or has a name for, all that is present.
LEMMA ModeCovers ==
  ASSUME NEW v, NEW S, S \subseteq Standalone
  PROVE  Covers(MigrationModeFor(v, S), S)
<1>1. CASE v["kent"] = "on" \/ S \cap KentOnly # {}
  BY <1>1 DEF MigrationModeFor, MinimalCoveringProfile, Covers
<1>2. CASE ~(v["kent"] = "on") /\ S \cap KentOnly = {}
  <2>1. MigrationModeFor(v, S) = MinimalCoveringTag(S)
    BY <1>2 DEF MigrationModeFor, MinimalCoveringProfile
  <2>2. \A n \in S : Canonical(n) \in Covered BY <1>2, CanonicalNames
  <2>3. QED BY <2>1, <2>2, TagCovers
<1>3. QED BY <1>1, <1>2

CoverInv ==
  /\ before \subseteq Standalone
  /\ derived \in Modes \cup {""}
  /\ phase \in {"MarkReadonly", "gated", "UninstallIndividuals"} => installed = before
  /\ legacy => phase \notin {"MarkReadonly", "gated"} /\ (phase # "Verify" => derived = "")
  /\ ~legacy /\ phase # "MarkReadonly" => derived # ""
  /\ ~legacy /\ derived # "" => Covers(derived, before)
  /\ phase = "InstallUmbrella" => absorbed = before \ Individuals /\ installed \subseteq before
  /\ phase = "Verify" =>
       /\ derived \in Modes /\ umbrella = UmbrellaValues(derived, user)
       /\ legacy => Covers(derived, before \ Individuals)

LEMMA CoverInit == Init => CoverInv
  BY CoveringAssumption DEF Init, CoverInv, Modes

LEMMA CoverNext == CoverInv /\ [Next]_vars => CoverInv'
<1> SUFFICES ASSUME CoverInv, [Next]_vars PROVE CoverInv'
  OBVIOUS
<1> USE DEF CoverInv
<1>1. "" \notin Modes BY DEF Modes, Tags
<1>2. ASSUME NEW v \in UserValues, EditValues(v) PROVE CoverInv'
  BY <1>2 DEF EditValues, Covers
<1>3. CASE MarkReadonly
  <2>1. derived' \in Modes BY <1>3, ModeOfMigration DEF MarkReadonly
  <2>2. Covers(derived', before)
    <3>1. CASE derived = ""
      <4>1. derived' = MigrationModeFor(user, before) BY <1>3, <3>1 DEF MarkReadonly
      <4>2. QED BY <4>1, ModeCovers
    <3>2. CASE derived # ""
      <4>1. derived' = derived /\ ~legacy BY <1>3, <3>2 DEF MarkReadonly
      <4>2. QED BY <3>2, <4>1
    <3>3. QED BY <3>1, <3>2
  <2>3. ~legacy /\ phase' \in {"MarkReadonly", "gated"} BY <1>3 DEF MarkReadonly
  <2>4. UNCHANGED <<installed, before, legacy>> BY <1>3 DEF MarkReadonly
  <2>5. installed = before BY <1>3 DEF MarkReadonly
  <2>6. (Covers(derived, before))' BY <2>2, <2>4 DEF Covers
  <2>7. QED BY <2>1, <2>3, <2>4, <2>5, <2>6, <1>1
<1>4. CASE PatchReadonly
  BY <1>4 DEF PatchReadonly, Covers
<1>5. CASE UninstallIndividuals
  BY <1>5 DEF UninstallIndividuals, Covers
<1>6. CASE InstallUmbrella
  <2>1. derived' \in Modes BY <1>6, ModeOfInstall DEF InstallUmbrella
  <2>2. umbrella' = UmbrellaValues(derived', user') /\ phase' = "Verify"
    BY <1>6 DEF InstallUmbrella
  <2>3. UNCHANGED <<before, legacy>> BY <1>6 DEF InstallUmbrella
  <2>4. ASSUME ~legacy PROVE Covers(derived', before)
    <3>1. derived' = derived /\ derived # ""
      BY <1>6, <2>4 DEF InstallUmbrella, ResolveInstallMode
    <3>2. QED BY <2>4, <3>1
  <2>5. ASSUME legacy PROVE Covers(derived', before \ Individuals)
    <3>1. derived' = MigrationModeFor(user, installed \cup absorbed)
      BY <1>6, <2>5 DEF InstallUmbrella, ResolveInstallMode
    <3>2. installed \cup absorbed \subseteq Standalone /\ before \ Individuals = absorbed
      BY <1>6 DEF InstallUmbrella
    <3>3. Covers(derived', installed \cup absorbed) BY <3>1, <3>2, ModeCovers
    <3>4. QED BY <3>2, <3>3 DEF Covers
  <2>6. (~legacy => Covers(derived, before))' /\ (legacy => Covers(derived, before \ Individuals))'
    BY <2>3, <2>4, <2>5 DEF Covers
  <2>7. QED BY <2>1, <2>2, <2>3, <2>6, <1>1
<1>7. CASE UNCHANGED vars
  BY <1>7 DEF vars, Covers
<1>8. QED BY <1>2, <1>3, <1>4, <1>5, <1>6, <1>7 DEF Next

\* If the user names no other mode, the derived one decides what is rendered.
LEMMA KeptRenders ==
  ASSUME NEW m \in Modes, NEW v \in Values, ModesOf(v) \subseteq {m}, v[m] # "off",
         NEW u, u = UmbrellaValues(m, v)
  PROVE  /\ Renders(u) = RendersIn(m, u)
         /\ OffIn(m, u) \subseteq {"metrics-server", "castai-chart-upgrader"} \cup LeftOff(m, v)
<1>1. /\ \A k \in Modes : u[k] = IF v[k] # "unset" THEN v[k] ELSE IF k = m THEN "on" ELSE "unset"
      /\ u["cluster-controller"] = v["cluster-controller"]
      /\ u["live"] = IF v["live"] # "unset" THEN v["live"]
                     ELSE IF v["kent"] = "on" \/ m = "kent" THEN "unset" ELSE "off"
  BY Installed
<1>2. \A k \in Modes : v[k] \in {"unset", "on", "off"} /\ (v[k] = "on" => k = m)
  BY DEF Values, Switches, ModesOf
<1>3. ModesOf(u) = {m} BY <1>1, <1>2 DEF ModesOf
<1>4. Renders(u) = RendersIn(m, u) BY <1>3, RendersOne
<1>5. u["live"] = "off" => v["live"] # "on" BY <1>1
<1>6. QED BY <1>1, <1>4, <1>5 DEF OffIn, LeftOff

\* The charts that every mode has a place for, but for the cluster controller in readonly.
LEMMA IndividualPlaces ==
  ASSUME NEW m \in Modes, NEW n \in Individuals
  PROVE  Canonical(n) \in ModeComponents(m) \/ (m = "readonly" /\ n = "cluster-controller")
  BY DEF Individuals, Canonical, ModeComponents, Modes, Tags, TagComponents, KentComponents,
         Covered, Readonly, NodeSide, Shared

\* Every standalone chart that was there when the migration began is rendered by the
\* umbrella, or is one that the derived mode or a switch of the user's leaves off, for
\* every set of charts and all values that name no other mode; but for the cluster
\* controller of a migration taken over from an earlier operator version.
THEOREM Complete == Spec => []NothingDropped
<1>1. CoverInv /\ PermissionInv => NothingDropped
  <2> SUFFICES ASSUME CoverInv, PermissionInv, phase = "Verify", KeepsMode, NEW n \in before,
                      ~(legacy /\ derived = "readonly" /\ n = "cluster-controller")
               PROVE  Canonical(n) \in Renders(umbrella) \cup LeftOff(derived, user)
    BY DEF NothingDropped, Migrated
  <2>1. /\ derived \in Modes /\ umbrella = UmbrellaValues(derived, user)
        /\ n \in Standalone /\ "" \notin Modes /\ user \in Values
    BY DEF CoverInv, PermissionInv, Modes, Tags
  <2>2. /\ Renders(umbrella) = RendersIn(derived, umbrella)
        /\ OffIn(derived, umbrella)
             \subseteq {"metrics-server", "castai-chart-upgrader"} \cup LeftOff(derived, user)
    BY <2>1, KeptRenders DEF KeepsMode
  <2>3. Covers(derived, {n}) \/ Canonical(n) \in ModeComponents(derived)
    <3>1. CASE legacy /\ n \in Individuals BY <2>1, <3>1, IndividualPlaces
    <3>2. CASE ~(legacy /\ n \in Individuals) BY <2>1, <3>2 DEF CoverInv, Covers
    <3>3. QED BY <3>1, <3>2
  <2>4. CASE derived = "kent"
    <3>1. Canonical(n) \in Covered \cup KentOnly BY <2>1, CanonicalNames
    <3>2. Canonical(n) \in KentComponents \cup {"castai-evictor", "castai-pod-pinner"}
      BY <3>1 DEF Covered, KentOnly, KentComponents, Readonly, NodeSide, Shared, NodeOnly,
                  WorkloadOnly
    <3>3. QED BY <2>2, <2>4, <3>2 DEF RendersIn, ModeComponents, LeftOff
  <2>5. CASE derived # "kent"
    <3>1. derived \in Tags /\ Canonical(n) \in TagComponents[derived]
      BY <2>1, <2>3, <2>5 DEF Covers, Modes, ModeComponents
    <3>2. TagComponents[derived] \cap {"metrics-server", "castai-chart-upgrader"} = {}
      BY <3>1 DEF TagComponents, Tags, Covered, Readonly, NodeSide, Shared, NodeOnly, WorkloadOnly
    <3>3. QED BY <2>2, <2>5, <3>1, <3>2 DEF RendersIn, ModeComponents
  <2>6. QED BY <2>4, <2>5
<1>2. QED BY <1>1, CoverInit, CoverNext, PermissionInit, PermissionNext, PTL DEF Spec

------------------------------------------------------------------------------
(* The gate: what Mothership has agreed to *)

\* A user who switches a mode off does not switch another one on; and the values do
\* not change once Mothership has been shown them.
PlainChoice ==
  /\ ~LateEdits
  /\ \A v \in UserValues : (\E m \in Modes : v[m] = "off") => ModesOf(v) = {}

LEMMA Shown ==
  ASSUME NEW m \in Modes, NEW v \in Values, NEW g, g = GateValues(m, v)
  PROVE  /\ \A k \in Modes : g[k] = IF k = m THEN "on" ELSE v[k]
         /\ \A k \in {"live", "cluster-controller", "chart-upgrader"} : g[k] = v[k]
  BY ModeSwitches DEF GateValues, Merge, Switches

\* The values of the install render no more than those that were shown.
LEMMA InstallWithinShown ==
  ASSUME NEW m \in Modes, NEW v \in Values, v[m] = "off" => ModesOf(v) = {}
  PROVE  Renders(UmbrellaValues(m, v)) \subseteq Renders(GateValues(m, v))
<1> DEFINE u == UmbrellaValues(m, v)
           g == GateValues(m, v)
<1>1. /\ \A k \in Modes : u[k] = IF v[k] # "unset" THEN v[k] ELSE IF k = m THEN "on" ELSE "unset"
      /\ u["cluster-controller"] = v["cluster-controller"]
      /\ u["live"] = IF v["live"] # "unset" THEN v["live"]
                     ELSE IF v["kent"] = "on" \/ m = "kent" THEN "unset" ELSE "off"
      /\ u["chart-upgrader"] = IF v["kent"] = "on" \/ m = "kent" THEN "off"
                               ELSE v["chart-upgrader"]
  BY Installed
<1>2. /\ \A k \in Modes : g[k] = IF k = m THEN "on" ELSE v[k]
      /\ \A k \in {"live", "cluster-controller", "chart-upgrader"} : g[k] = v[k]
  BY Shown
<1>3. /\ \A k \in Modes : v[k] \in {"unset", "on", "off"}
      /\ v["live"] \in {"unset", "on", "off"}
  BY DEF Values, Switches
<1> HIDE DEF u, g
<1>4. CASE v[m] = "off"
  <2>1. ModesOf(u) = {} BY <1>1, <1>4 DEF ModesOf
  <2>2. Renders(u) = {} BY <2>1, RendersCases
  <2>3. QED BY <2>2 DEF u
<1>5. CASE v[m] # "off"
  <2>1. ModesOf(u) = ModesOf(g) BY <1>1, <1>2, <1>3, <1>5 DEF ModesOf
  <2>2. \A k : RendersIn(k, u) \subseteq RendersIn(k, g)
    <3>1. \A k : OnIn(k, u) = OnIn(k, g) BY <1>1, <1>2 DEF OnIn
    <3>2. \A k : OffIn(k, g) \subseteq OffIn(k, u)
      BY <1>1, <1>2 DEF OffIn
    <3>3. QED BY <3>1, <3>2 DEF RendersIn
  <2>3. Renders(u) \subseteq Renders(g)
    <3>1. CASE Renders(u) = {} BY <3>1
    <3>2. ASSUME NEW k \in Modes, ModesOf(u) = {k}, Renders(u) = RendersIn(k, u)
          PROVE  Renders(u) \subseteq Renders(g)
      <4>1. Renders(g) = RendersIn(k, g) BY <2>1, <3>2, RendersOne
      <4>2. QED BY <2>2, <3>2, <4>1
    <3>3. QED BY <3>1, <3>2, RendersCases
  <2>4. QED BY <2>3 DEF u, g
<1>6. QED BY <1>4, <1>5

GateInv ==
  /\ user \in UserValues
  /\ derived \in Modes \cup {""}
  /\ legacy => phase \notin {"MarkReadonly", "gated"}
  /\ ~legacy /\ phase # "MarkReadonly" =>
       /\ derived \in Modes /\ shown = GateValues(derived, user)
       /\ phase = "Verify" => umbrella = UmbrellaValues(derived, user)

LEMMA GateInit == Init => GateInv
  BY DEF Init, GateInv

LEMMA GateNext == ~LateEdits /\ GateInv /\ [Next]_vars => GateInv'
<1> SUFFICES ASSUME ~LateEdits, GateInv, [Next]_vars PROVE GateInv'
  OBVIOUS
<1> USE DEF GateInv
<1>1. ASSUME NEW v \in UserValues, EditValues(v) PROVE GateInv'
  BY <1>1 DEF EditValues
<1>2. CASE MarkReadonly
  <2>1. derived' \in Modes BY <1>2, ModeOfMigration DEF MarkReadonly
  <2>2. ~legacy BY <1>2 DEF MarkReadonly
  <2>3. QED BY <1>2, <2>1, <2>2 DEF MarkReadonly
<1>3. CASE PatchReadonly
  BY <1>3 DEF PatchReadonly
<1>4. CASE UninstallIndividuals
  BY <1>4 DEF UninstallIndividuals
<1>5. CASE InstallUmbrella
  <2>1. derived' \in Modes BY <1>5, ModeOfInstall DEF InstallUmbrella
  <2>2. ~legacy => derived' = derived
    BY <1>5 DEF InstallUmbrella, ResolveInstallMode, Modes, Tags
  <2>3. umbrella' = UmbrellaValues(derived', user') BY <1>5 DEF InstallUmbrella
  <2>4. QED BY <1>5, <2>1, <2>2, <2>3 DEF InstallUmbrella
<1>6. CASE UNCHANGED vars
  BY <1>6 DEF vars
<1>7. QED BY <1>1, <1>2, <1>3, <1>4, <1>5, <1>6 DEF Next

\* Mothership has agreed to every chart the install renders, unless the values are
\* edited behind its back or the user switches the derived mode off for another.
THEOREM AgreedTo ==
  ASSUME PlainChoice
  PROVE  Spec => []GateCoversInstall
<1>1. GateInv => GateCoversInstall
  <2> SUFFICES ASSUME GateInv, phase = "Verify", ~legacy
               PROVE  Renders(umbrella) \subseteq Renders(shown)
    BY DEF GateCoversInstall, Migrated
  <2>1. /\ derived \in Modes /\ user \in Values
        /\ umbrella = UmbrellaValues(derived, user) /\ shown = GateValues(derived, user)
    BY CoveringAssumption DEF GateInv
  <2>2. user[derived] = "off" => ModesOf(user) = {}
    BY <2>1 DEF PlainChoice, GateInv
  <2>3. QED BY <2>1, <2>2, InstallWithinShown
<1>2. GateInv /\ [Next]_vars => GateInv' BY GateNext DEF PlainChoice
<1>3. QED BY <1>1, <1>2, GateInit, PTL DEF Spec

------------------------------------------------------------------------------
(* The mode is no wider than needed *)

Size(t) == Cardinality(TagComponents[t])

\* Two charts more make a set larger by two.
LEMMA AddTwo ==
  ASSUME NEW S, IsFiniteSet(S), NEW a, NEW b, a # b, a \notin S, b \notin S
  PROVE  IsFiniteSet(S \cup {a, b}) /\ Cardinality(S \cup {a, b}) = Cardinality(S) + 2
<1>1. IsFiniteSet(S \cup {a}) /\ Cardinality(S \cup {a}) = Cardinality(S) + 1
  BY FS_AddElement
<1>2. b \notin S \cup {a} OBVIOUS
<1>3. /\ IsFiniteSet((S \cup {a}) \cup {b})
      /\ Cardinality((S \cup {a}) \cup {b}) = Cardinality(S \cup {a}) + 1
  BY <1>1, <1>2, FS_AddElement
<1>4. (S \cup {a}) \cup {b} = S \cup {a, b} OBVIOUS
<1>5. Cardinality(S) \in Nat BY FS_CardinalityType
<1>6. QED BY <1>1, <1>3, <1>4, <1>5

LEMMA TableEntries ==
  /\ TagComponents["readonly"] = Readonly
  /\ TagComponents["node-autoscaler"] = (Readonly \cup Shared) \cup NodeOnly
  /\ TagComponents["workload-autoscaler"] = (Readonly \cup Shared) \cup WorkloadOnly
  /\ TagComponents["full"] = ((Readonly \cup Shared) \cup NodeOnly) \cup WorkloadOnly
  /\ (Readonly \cup Shared) \cap (NodeOnly \cup WorkloadOnly) = {}
  /\ Readonly \cap Shared = {} /\ NodeOnly \cap WorkloadOnly = {}
<1>1. "readonly" \in Tags /\ "node-autoscaler" \in Tags /\ "workload-autoscaler" \in Tags
      /\ "full" \in Tags
  BY DEF Tags
<1>2. QED BY <1>1 DEF TagComponents, Covered, NodeSide, Readonly, Shared, NodeOnly, WorkloadOnly

\* The tables of the two autoscalers are of one size, between the other two.
LEMMA TagSizes ==
  /\ \A t \in Tags : Size(t) \in Nat
  /\ Size("readonly") <= Size("node-autoscaler")
  /\ Size("node-autoscaler") = Size("workload-autoscaler")
  /\ Size("workload-autoscaler") <= Size("full")
<1> DEFINE Base == Readonly \cup Shared
<1>1. IsFiniteSet(Base)
  <2>1. IsFiniteSet({"castai-agent"}) BY FS_Singleton
  <2>2. IsFiniteSet({"castai-agent"} \cup {"castai-spot-handler"}) BY <2>1, FS_AddElement
  <2>3. {"castai-agent"} \cup {"castai-spot-handler"} = {"castai-agent", "castai-spot-handler"}
    OBVIOUS
  <2>4. IsFiniteSet({"castai-agent", "castai-spot-handler"} \cup {"castai-kvisor"})
    BY <2>2, <2>3, FS_AddElement
  <2>5. IsFiniteSet(Readonly)
    <3>1. Readonly = {"castai-agent", "castai-spot-handler"} \cup {"castai-kvisor"}
      BY DEF Readonly
    <3>2. QED BY <2>4, <3>1
  <2>6. IsFiniteSet(Readonly \cup {"castai-cluster-controller"}) BY <2>5, FS_AddElement
  <2>7. IsFiniteSet((Readonly \cup {"castai-cluster-controller"}) \cup {"castai-evictor"})
    BY <2>6, FS_AddElement
  <2>8. IsFiniteSet(((Readonly \cup {"castai-cluster-controller"}) \cup {"castai-evictor"})
                    \cup {"castai-pod-mutator"})
    BY <2>7, FS_AddElement
  <2>9. ((Readonly \cup {"castai-cluster-controller"}) \cup {"castai-evictor"})
          \cup {"castai-pod-mutator"} = Base
    BY DEF Shared
  <2>10. QED BY <2>8, <2>9
<1>2. /\ TagComponents["readonly"] \subseteq Base
      /\ TagComponents["node-autoscaler"] = Base \cup NodeOnly
      /\ TagComponents["workload-autoscaler"] = Base \cup WorkloadOnly
      /\ TagComponents["full"] = (Base \cup NodeOnly) \cup WorkloadOnly
      /\ Base \cap (NodeOnly \cup WorkloadOnly) = {} /\ NodeOnly \cap WorkloadOnly = {}
  BY TableEntries
<1> HIDE DEF Base
<1>3. /\ IsFiniteSet(Base \cup NodeOnly)
      /\ Cardinality(Base \cup NodeOnly) = Cardinality(Base) + 2
  <2>1. "castai-pod-pinner" \notin Base /\ "castai-live" \notin Base
    BY <1>2 DEF NodeOnly
  <2>2. "castai-pod-pinner" # "castai-live" OBVIOUS
  <2>3. QED BY <1>1, <2>1, <2>2, AddTwo DEF NodeOnly
<1>4. /\ IsFiniteSet(Base \cup WorkloadOnly)
      /\ Cardinality(Base \cup WorkloadOnly) = Cardinality(Base) + 2
  <2>1. /\ "castai-workload-autoscaler" \notin Base
        /\ "castai-workload-autoscaler-exporter" \notin Base
    BY <1>2 DEF WorkloadOnly
  <2>2. "castai-workload-autoscaler" # "castai-workload-autoscaler-exporter" OBVIOUS
  <2>3. QED BY <1>1, <2>1, <2>2, AddTwo DEF WorkloadOnly
<1>5. /\ IsFiniteSet((Base \cup NodeOnly) \cup WorkloadOnly)
      /\ Cardinality((Base \cup NodeOnly) \cup WorkloadOnly) = Cardinality(Base \cup NodeOnly) + 2
  <2>1. /\ "castai-workload-autoscaler" \notin Base \cup NodeOnly
        /\ "castai-workload-autoscaler-exporter" \notin Base \cup NodeOnly
    BY <1>2 DEF WorkloadOnly
  <2>2. "castai-workload-autoscaler" # "castai-workload-autoscaler-exporter" OBVIOUS
  <2>3. QED BY <1>3, <2>1, <2>2, AddTwo DEF WorkloadOnly
<1>6. /\ IsFiniteSet(TagComponents["readonly"])
      /\ Cardinality(TagComponents["readonly"]) <= Cardinality(Base)
  BY <1>1, <1>2, FS_Subset
<1>7. Cardinality(Base) \in Nat /\ Cardinality(TagComponents["readonly"]) \in Nat
  BY <1>1, <1>6, FS_CardinalityType
<1>8. /\ Size("readonly") = Cardinality(TagComponents["readonly"])
      /\ Size("node-autoscaler") = Cardinality(Base) + 2
      /\ Size("workload-autoscaler") = Cardinality(Base) + 2
      /\ Size("full") = (Cardinality(Base) + 2) + 2
  BY <1>2, <1>3, <1>4, <1>5 DEF Size
<1>9. QED BY <1>6, <1>7, <1>8 DEF Tags

\* No tag that has all the covered charts there are is smaller than the derived one.
LEMMA TagMinimal ==
  ASSUME NEW S, NEW t \in Tags,
         \A n \in S : Canonical(n) \in Covered => Canonical(n) \in TagComponents[t]
  PROVE  Size(MinimalCoveringTag(S)) <= Size(t)
<1> DEFINE names == {Canonical(n) : n \in S} \cap Covered
           tag == MinimalCoveringTag(S)
<1>1. tag = CASE names \cap NodeOnly # {} /\ names \cap WorkloadOnly # {} -> "full"
              [] names \cap WorkloadOnly # {} /\ names \cap NodeOnly = {} -> "workload-autoscaler"
              [] names \cap WorkloadOnly = {} /\ names \cap NodeSide # {} -> "node-autoscaler"
              [] OTHER -> "readonly"
  BY DEF MinimalCoveringTag
<1>2. names \subseteq TagComponents[t] OBVIOUS
<1> HIDE DEF names, tag
<1>3. names \cap NodeOnly # {} => t \in {"node-autoscaler", "full"}
  BY <1>2, TableEntries DEF Tags
<1>4. names \cap WorkloadOnly # {} => t \in {"workload-autoscaler", "full"}
  BY <1>2, TableEntries DEF Tags
<1>5. names \cap NodeSide # {} => t # "readonly"
  BY <1>2, TableEntries DEF NodeSide
<1>6. CASE names \cap NodeOnly # {} /\ names \cap WorkloadOnly # {}
  <2>1. tag = "full" /\ t = "full" BY <1>1, <1>3, <1>4, <1>6
  <2>2. QED BY <2>1, TagSizes DEF Tags, tag
<1>7. CASE names \cap WorkloadOnly # {} /\ names \cap NodeOnly = {}
  <2>1. tag = "workload-autoscaler" BY <1>1, <1>7
  <2>2. t \in {"workload-autoscaler", "full"} BY <1>4, <1>7
  <2>3. QED BY <2>1, <2>2, TagSizes DEF Tags, tag
<1>8. CASE names \cap WorkloadOnly = {} /\ names \cap NodeSide # {}
  <2>1. tag = "node-autoscaler" BY <1>1, <1>8
  <2>2. t \in {"node-autoscaler", "workload-autoscaler", "full"} BY <1>5, <1>8 DEF Tags
  <2>3. QED BY <2>1, <2>2, TagSizes DEF Tags, tag
<1>9. CASE names \cap WorkloadOnly = {} /\ names \cap NodeSide = {}
  <2>1. tag = "readonly" BY <1>1, <1>9
  <2>2. QED BY <2>1, TagSizes DEF Tags, tag
<1>10. NodeOnly \subseteq NodeSide BY DEF NodeSide
<1>11. QED BY <1>6, <1>7, <1>8, <1>9, <1>10

\* A mode that is noted was derived from charts that were there when the migration began.
OriginInv ==
  /\ installed \subseteq before /\ absorbed \subseteq before
  /\ derived # "" => \E S \in SUBSET before : derived \in {"kent", MinimalCoveringTag(S)}

LEMMA ModeOrigin ==
  ASSUME NEW v, NEW S PROVE MigrationModeFor(v, S) \in {"kent", MinimalCoveringTag(S)}
  BY DEF MigrationModeFor, MinimalCoveringProfile

LEMMA OriginNext == OriginInv /\ [Next]_vars => OriginInv'
<1> SUFFICES ASSUME OriginInv, [Next]_vars PROVE OriginInv'
  OBVIOUS
<1>1. ASSUME UNCHANGED before, UNCHANGED derived PROVE
        (derived # "" => \E S \in SUBSET before : derived \in {"kent", MinimalCoveringTag(S)})'
  BY <1>1 DEF OriginInv
<1>2. ASSUME NEW v \in UserValues, EditValues(v) PROVE OriginInv'
  BY <1>1, <1>2 DEF EditValues, OriginInv
<1>3. CASE MarkReadonly
  <2>1. UNCHANGED <<installed, absorbed, before>> BY <1>3 DEF MarkReadonly
  <2>2. \/ UNCHANGED derived
        \/ derived' = MigrationModeFor(user, installed)
    BY <1>3 DEF MarkReadonly
  <2>3. CASE UNCHANGED derived BY <1>1, <2>1, <2>3 DEF OriginInv
  <2>4. CASE derived' = MigrationModeFor(user, installed)
    BY <2>1, <2>4, ModeOrigin DEF OriginInv
  <2>5. QED BY <2>2, <2>3, <2>4
<1>4. CASE PatchReadonly
  BY <1>1, <1>4 DEF PatchReadonly, OriginInv
<1>5. CASE UninstallIndividuals
  BY <1>1, <1>5 DEF UninstallIndividuals, OriginInv
<1>6. CASE InstallUmbrella
  <2>1. UNCHANGED <<installed, absorbed, before>> BY <1>6 DEF InstallUmbrella
  <2>2. \/ UNCHANGED derived
        \/ derived' = MigrationModeFor(user, installed \cup absorbed)
    BY <1>6 DEF InstallUmbrella, ResolveInstallMode
  <2>3. CASE UNCHANGED derived BY <1>1, <2>1, <2>3 DEF OriginInv
  <2>4. CASE derived' = MigrationModeFor(user, installed \cup absorbed)
    BY <2>1, <2>4, ModeOrigin DEF OriginInv
  <2>5. QED BY <2>2, <2>3, <2>4
<1>7. CASE UNCHANGED vars
  BY <1>1, <1>7 DEF vars, OriginInv
<1>8. QED BY <1>2, <1>3, <1>4, <1>5, <1>6, <1>7 DEF Next

\* The derived tag is no wider than needed: no other tag that has all the charts that
\* were there when the migration began is smaller, for every set of charts.
THEOREM Minimal == Spec => []MinimalMode
<1>1. Init => OriginInv
  BY DEF Init, OriginInv
<1>2. OriginInv => MinimalMode
  <2> SUFFICES ASSUME OriginInv, derived \in Tags, NEW t \in Tags,
                      {Canonical(n) : n \in before} \subseteq TagComponents[t]
               PROVE  Size(derived) <= Size(t)
    BY DEF MinimalMode, Size
  <2>1. derived # "" /\ derived # "kent" BY DEF Tags
  <2>2. PICK S \in SUBSET before : derived \in {"kent", MinimalCoveringTag(S)}
    BY <2>1 DEF OriginInv
  <2>3. \A n \in S : Canonical(n) \in TagComponents[t] OBVIOUS
  <2>4. QED BY <2>1, <2>2, <2>3, TagMinimal
<1>3. QED BY <1>1, <1>2, OriginNext, PTL DEF Spec

==============================================================================
