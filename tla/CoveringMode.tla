---------------------------- MODULE CoveringMode ----------------------------
(***************************************************************************)
(* What the umbrella renders after a migration.  The umbrella chart has    *)
(* modes: four mutually exclusive tags and the kent profile.  From the     *)
(* standalone charts that are installed the migration derives the mode,    *)
(* notes it in the CR's status, has Mothership check the permissions,      *)
(* uninstalls the standalone releases (a snapshot keeps those without a    *)
(* CR) and installs the umbrella, with values merged from the operator's   *)
(* defaults, the mode, the customizations of what was uninstalled, and the *)
(* CR's spec.values, which the user may edit until the CR is readonly.     *)
(* UmbrellaMigration has the failures and the way back; here everything    *)
(* goes right, and the question is what comes out.                         *)
(*                                                                         *)
(* Simplifications:                                                        *)
(*  - values are the switches below; other keys only matter as "this       *)
(*    chart's customization is in", under the key of the profile;          *)
(*  - Mothership's permission gate lets pass what the webhook would;       *)
(*  - Renders is the chart: external, as the code and its tests state it.  *)
(***************************************************************************)
EXTENDS FiniteSets, Naturals

CONSTANTS
  Standalone,   \* charts of which a standalone release may be installed
  UserValues,   \* spec.values a user may give the umbrella CR
  Custom,       \* charts whose standalone release was customized
  LateEdits,    \* values may be edited between the permission gate and readonly
  Legacy        \* may the migration be one that an earlier operator began?

Tags  == {"readonly", "node-autoscaler", "workload-autoscaler", "full"}
Modes == Tags \cup {"kent"}

\* The switches of the values that decide what is rendered.
Switches == Modes \cup {"live", "cluster-controller", "chart-upgrader"}
Unset  == [k \in Switches |-> "unset"]
Values == [Switches -> {"unset", "on", "off"}]

\* The agent, the spot handler and the cluster controller have CRs of their own.
Individuals == {"castai-agent", "spot-handler", "cluster-controller"}

------------------------------------------------------------------------------
(* The tables, and the chart *)

Readonly == {"castai-agent", "castai-spot-handler", "castai-kvisor"}
NodeOnly == {"castai-pod-pinner", "castai-live"}
WorkloadOnly ==
  {"castai-workload-autoscaler", "castai-workload-autoscaler-exporter"}
Shared   == {"castai-cluster-controller", "castai-evictor", "castai-pod-mutator"}
NodeSide == Shared \cup NodeOnly
Covered  == Readonly \cup NodeSide \cup WorkloadOnly
KentOnly == {"castai-kentroller", "castai-chart-upgrader", "metrics-server"}

TagComponents ==
  [t \in Tags |->
     CASE t = "readonly"            -> Readonly
       [] t = "node-autoscaler"     -> Readonly \cup NodeSide
       [] t = "workload-autoscaler" -> Readonly \cup Shared \cup WorkloadOnly
       [] t = "full"                -> Covered]

KentComponents ==
  Readonly \cup WorkloadOnly \cup KentOnly
    \cup {"castai-cluster-controller", "castai-live", "castai-pod-mutator"}

ModeComponents(m) == IF m = "kent" THEN KentComponents ELSE TagComponents[m]

\* The operator's short names, and the charts'.
Canonical(name) ==
  CASE name = "spot-handler"       -> "castai-spot-handler"
    [] name = "cluster-controller" -> "castai-cluster-controller"
    [] OTHER                       -> name

ASSUME CoveringAssumption ==
  /\ Standalone \subseteq (Covered \ {"castai-spot-handler", "castai-cluster-controller"})
                          \cup Individuals \cup KentOnly
  /\ UserValues \subseteq Values /\ Custom \subseteq Standalone
  /\ LateEdits \in BOOLEAN /\ Legacy \subseteq BOOLEAN

ModesOf(v) == {m \in Modes : v[m] = "on"}

\* The chart renders one mode, and nothing if it is given several; kent leaves its
\* metrics server out unless told otherwise.  The cluster controller and live have
\* switches of their own.
Renders(v) ==
  IF Cardinality(ModesOf(v)) # 1 THEN {}
  ELSE LET mode == CHOOSE m \in ModesOf(v) : TRUE
           off  == {"metrics-server"}
                     \cup (IF v["live"] = "off" /\ mode # "kent" THEN {"castai-live"} ELSE {})
                     \cup (IF v["chart-upgrader"] = "off" THEN {"castai-chart-upgrader"} ELSE {})
                     \cup (IF v["cluster-controller"] = "off" /\ mode # "kent"
                           THEN {"castai-cluster-controller"} ELSE {})
           on   == IF v["cluster-controller"] = "on" /\ mode # "kent"
                   THEN {"castai-cluster-controller"} ELSE {}
       IN  (ModeComponents(mode) \ off) \cup on

------------------------------------------------------------------------------
(* The derivation of the mode, permissions and values *)

\* A plausible bug: everything beyond readonly takes the full tag.
FullTag(present) ==
  LET names == {Canonical(n) : n \in present} \cap Covered
  IN  IF names \subseteq Readonly THEN "readonly" ELSE "full"

\* The narrowest tag for the charts that are present; unknown names do not count.
MinimalCoveringTag(present) ==
  LET names == {Canonical(n) : n \in present} \cap Covered
  IN  CASE names \cap NodeOnly # {} /\ names \cap WorkloadOnly # {} -> "full"
        [] names \cap WorkloadOnly # {} /\ names \cap NodeOnly = {} -> "workload-autoscaler"
        [] names \cap WorkloadOnly = {} /\ names \cap NodeSide # {} -> "node-autoscaler"
        [] OTHER                                                    -> "readonly"

MinimalCoveringProfile(present) ==
  IF present \cap KentOnly # {} THEN "kent" ELSE MinimalCoveringTag(present)

MigrationModeFor(v, present) ==
  IF v["kent"] = "on" THEN "kent" ELSE MinimalCoveringProfile(present)

ModeValues(mode) == [Unset EXCEPT ![mode] = "on"]

\* MergeMaps on switches: what over sets, wins.
Merge(base, over) == [k \in Switches |-> IF over[k] # "unset" THEN over[k] ELSE base[k]]

\* umbrellaClusterControllerEnabled, and the permission rule of the webhook.
ClusterControllerEnabled(v) ==
  IF v["cluster-controller"] # "unset" THEN v["cluster-controller"] = "on"
  ELSE ModesOf(v) \cap (Tags \ {"readonly"}) # {}

\* A plausible bug: the readonly tag settles it.
RequiresUnlessReadonly(v) == v["kent"] = "on" \/ v["readonly"] # "on"

RequiresExtendedPermissions(v) ==
  v["kent"] = "on" \/ ClusterControllerEnabled(v) \/ v["readonly"] # "on"

\* A plausible bug: the user's values alone are shown.
GateOfUser(mode, v) == v

\* What Mothership is shown; here the derived mode wins.
GateValues(mode, v) == Merge(v, ModeValues(mode))

\* UmbrellaValues: defaults, then the mode, then the user's, then what the operator
\* insists on.
UmbrellaValues(mode, v) ==
  LET kent     == v["kent"] = "on" \/ mode = "kent"
      defaults == IF kent THEN Unset ELSE [Unset EXCEPT !["live"] = "off"]
      merged   == Merge(Merge(defaults, ModeValues(mode)), v)
  IN  IF kent THEN [merged EXCEPT !["chart-upgrader"] = "off"] ELSE merged

------------------------------------------------------------------------------
(* The migration *)

VARIABLES
  installed, \* standalone releases, by the names they are found under
  user,      \* the CR's spec.values
  extended,  \* the operator has extended permissions
  derived,   \* status.migrationDerivedTag or migrationDerivedProfile
  absorbed,  \* status.absorbedReleases: charts
  phase,     \* of the migration; "gated": between the gate and readonly
  shown,     \* the values Mothership last agreed to
  umbrella,  \* values the umbrella was installed with
  carried,   \* charts whose customization is among them
  before,    \* what was installed when the migration began
  legacy     \* an earlier operator made the CR readonly, and noted no mode

vars == <<installed, user, extended, derived, absorbed, phase, shown, umbrella,
          carried, before, legacy>>

Admitted(v, ext) ==
  /\ v["kent"] = "on" => ModesOf(v) = {"kent"}
  /\ RequiresExtendedPermissions(v) => ext

\* The CR has passed the webhook.  A migration that an earlier operator version began
\* and that is resumed by this one has its snapshot and no mode.
Init ==
  /\ installed \in SUBSET Standalone /\ before = installed
  /\ user \in UserValues /\ extended \in BOOLEAN /\ Admitted(user, extended)
  /\ derived = "" /\ absorbed = {} /\ shown = Unset /\ umbrella = Unset /\ carried = {}
  /\ legacy \in Legacy
  /\ phase = IF legacy THEN "UninstallIndividuals" ELSE "MarkReadonly"

\* ValidateUpdate, until the CR is readonly.
EditValues(v) ==
  /\ phase = "MarkReadonly" \/ (LateEdits /\ phase = "gated")
  /\ v # user /\ Admitted(v, extended) /\ user' = v
  /\ UNCHANGED <<installed, extended, derived, absorbed, phase, shown, umbrella,
                 carried, before, legacy>>

\* phaseMarkReadonly: the mode is written once; a refusal is retried later.
MarkReadonly ==
  /\ phase = "MarkReadonly"
  /\ derived' = IF derived = "" THEN MigrationModeFor(user, installed) ELSE derived
  /\ LET payload == GateValues(derived', user)
     IN  IF RequiresExtendedPermissions(payload) => extended
         THEN shown' = payload /\ phase' = "gated"
         ELSE UNCHANGED <<shown, phase>>
  /\ UNCHANGED <<installed, user, extended, absorbed, umbrella, carried, before, legacy>>

PatchReadonly ==
  /\ phase = "gated" /\ phase' = "UninstallIndividuals"
  /\ UNCHANGED <<installed, user, extended, derived, absorbed, shown, umbrella,
                 carried, before, legacy>>

\* phaseUninstallIndividuals: all but the agent; the snapshot is of those that have
\* no CR.
UninstallIndividuals ==
  /\ phase = "UninstallIndividuals" /\ phase' = "InstallUmbrella"
  /\ absorbed' = installed \ Individuals
  /\ installed' = installed \cap {"castai-agent"}
  /\ UNCHANGED <<user, extended, derived, shown, umbrella, carried, before, legacy>>

\* A plausible bug: a missing mode is derived from what is still there.
ResolveFromVisible == IF derived # "" THEN derived ELSE MigrationModeFor(user, installed)

\* resolveInstallMode: a migration without a mode derives it from what is there and
\* what was absorbed.
ResolveInstallMode ==
  IF derived # "" THEN derived ELSE MigrationModeFor(user, installed \cup absorbed)

\* phaseInstallUmbrella, which carries over the customizations of the absorbed
\* releases and of the individuals that are installed by then.
InstallUmbrella ==
  /\ phase = "InstallUmbrella" /\ phase' = "Verify"
  /\ derived' = ResolveInstallMode
  /\ umbrella' = UmbrellaValues(derived', user)
  /\ carried' = Custom \cap (absorbed \cup installed)
  /\ UNCHANGED <<installed, user, extended, absorbed, shown, before, legacy>>

Next ==
  \/ \E v \in UserValues : EditValues(v)
  \/ MarkReadonly \/ PatchReadonly \/ UninstallIndividuals \/ InstallUmbrella

Spec == Init /\ [][Next]_vars

------------------------------------------------------------------------------
(* Properties *)

Migrated == phase = "Verify"

\* The user's values name no other mode than the derived one, and leave that one on.
KeepsMode == ModesOf(user) \subseteq {derived} /\ user[derived] # "off"

\* What a mode leaves off: kent its own two and those it has no place for; the tags
\* live, unless the user asks for it, and the cluster controller if he switches it off.
LeftOff(mode, v) ==
  IF mode = "kent" THEN {"castai-evictor", "castai-pod-pinner", "metrics-server",
                         "castai-chart-upgrader"}
  ELSE (IF v["live"] = "on" THEN {} ELSE {"castai-live"})
         \cup (IF v["cluster-controller"] = "off" THEN {"castai-cluster-controller"} ELSE {})

\* Nothing that ran standalone is lost with the umbrella, unless the user names another
\* mode than the one that is derived (ChoiceWins), the derived mode leaves it off, or an
\* earlier operator version began the migration and noted no mode: then the cluster
\* controller, gone by the time the mode is derived, is lost if nothing else asks for it.
NothingDropped ==
  Migrated /\ KeepsMode =>
    \A n \in before :
      \/ Canonical(n) \in Renders(umbrella) \cup LeftOff(derived, user)
      \/ legacy /\ derived = "readonly" /\ n = "cluster-controller"

\* The derived mode is merged under the values of the user: "an explicit user choice
\* still wins" (migration_controller.go:592).
ChoiceWins == Migrated /\ ModesOf(user) # {} => ModesOf(umbrella) = ModesOf(user)

\* The derived tag is no wider than needed: no other tag that renders all there was
\* has fewer charts.
MinimalMode ==
  Migrated /\ derived \in Tags =>
    \A t \in Tags :
      {Canonical(n) : n \in before} \subseteq TagComponents[t] =>
        Cardinality(TagComponents[derived]) <= Cardinality(TagComponents[t])

\* Mothership has agreed to every chart the install renders.
GateCoversInstall ==
  Migrated /\ ~legacy => Renders(umbrella) \subseteq Renders(shown)

\* An operator without extended permissions renders no more than the readonly charts.
PermissionsSuffice ==
  Migrated /\ ~extended => Renders(umbrella) \subseteq Readonly

\* The values that the migration carries over "so per-component customizations are
\* not silently dropped during migration".
CustomizationsKept ==
  Migrated => \A n \in Custom \cap before : n \in carried
==============================================================================
