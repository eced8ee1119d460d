------------------------------- MODULE Routing -------------------------------
(***************************************************************************)
(* Which model serves a request: selectModel (lib/router.js) over the      *)
(* models of the registry (lib/providers/index.js), inside the plan tiers  *)
(* and the checks of POST /v1/messages, with the models that the operator  *)
(* (lib/prefs.js) and the account (lib/user-prefs.js) have switched off.   *)
(* Scores only choose among the candidates: any of them may win.           *)
(***************************************************************************)
EXTENDS Integers, FiniteSetsExt

CONSTANTS
    Catalog,        \* config/models.json: models and what they can do
    Asked,          \* what requests ask for
    FallbackModel,  \* router.fallbackModel
    NoModel

Listed == DOMAIN Catalog
Tiers == {Catalog[m].tier : m \in Listed}
Wanted == [tools : BOOLEAN, vision : BOOLEAN, audio : BOOLEAN, restricted : BOOLEAN,
        reasoning : BOOLEAN, tokens : Nat, floor : Nat, tiers : SUBSET Tiers,
        named : Listed \cup {NoModel}]

ASSUME CatalogAssumption == \A m \in Listed :
    Catalog[m] \in [tier : Tiers, tools : BOOLEAN, vision : BOOLEAN, safety : BOOLEAN,
                    reasons : BOOLEAN, window : Nat, cost : Nat]
ASSUME AskedAssumption == Asked \subseteq Wanted
ASSUME NoModelAssumption == NoModel \notin Listed

VARIABLES
    available,      \* models whose provider was configured at boot
    disabled,       \* prefs.disabledModels, in a file
    opted,          \* user_prefs.disabled_models of the account, in the database
    routed          \* the last request, and what became of it

routingVars == <<available, disabled, opted, routed>>

NotRouted == [to |-> NoModel, how |-> "none", ask |-> CHOOSE a \in Asked : TRUE]

RoutingInit ==
    /\ available \in SUBSET Listed
    /\ disabled = {} /\ opted = {}
    /\ routed = NotRouted

(***************************************************************************)
(* Preferences.                                                            *)
(***************************************************************************)

\* POST /config/models by the operator: the last available model cannot be
\* switched off.
OperatorEnables(m) ==
    /\ disabled' = disabled \ {m}
    /\ routed' = NotRouted
    /\ UNCHANGED <<available, opted>>
OperatorDisables(m) ==
    /\ ~(available \subseteq disabled \cup {m})
    /\ disabled' = disabled \cup {m}
    /\ routed' = NotRouted
    /\ UNCHANGED <<available, opted>>

\* The same by the account, for what the operator has left it.
UserEnables(m) ==
    /\ opted' = opted \ {m}
    /\ routed' = NotRouted
    /\ UNCHANGED <<available, disabled>>
UserDisables(m) ==
    /\ ~((available \ disabled) \subseteq opted \cup {m})
    /\ opted' = opted \cup {m}
    /\ routed' = NotRouted
    /\ UNCHANGED <<available, disabled>>

\* A restart may find other providers configured; the preferences remain.
Reboot(models) ==
    /\ available' = models
    /\ routed' = NotRouted
    /\ UNCHANGED <<disabled, opted>>

(***************************************************************************)
(* selectModel                                                             *)
(***************************************************************************)

\* An untagged model is "pro" already in Catalog.
TierOk(a, m) == Catalog[m].tier \in a.tiers
\* estimatedTokens, and 90% of the window
Fits(a, m) == 10 * a.tokens <= 9 * Catalog[m].window
Serves(a, m) ==
    /\ a.tools => Catalog[m].tools
    /\ a.vision => Catalog[m].vision

\* capabilityFilter
Capable(a, m) ==
    /\ TierOk(a, m) /\ Serves(a, m) /\ Fits(a, m)
    /\ a.audio => Catalog[m].vision
    /\ a.restricted => Catalog[m].safety
    /\ a.reasoning => Catalog[m].reasons

Excluded == disabled \cup opted

\* The exclusions are ignored when nothing else is left.
Pool(a) ==
    LET capable == {m \in available : Capable(a, m)}
    IN  IF capable \subseteq Excluded THEN capable ELSE capable \ Excluded

\* Mutant: the floor empties the pool.
FloorIsHard(a) == {m \in Pool(a) : Catalog[m].cost >= a.floor}
\* The rules of router-policy.json set a cost tier, unless none reaches it.
AboveFloor(a) ==
    LET kept == {m \in Pool(a) : Catalog[m].cost >= a.floor}
    IN  IF kept = {} THEN Pool(a) ELSE kept

\* No candidate: without the safety and reasoning requirements.
Widened(a) == {m \in available : TierOk(a, m) /\ Serves(a, m) /\ Fits(a, m)}

InTier(a) == {m \in available : TierOk(a, m)}
FallbackFits(a) == {m \in InTier(a) \cap {FallbackModel} : Fits(a, m)}
LargestWindow(a) ==
    {m \in InTier(a) : \A n \in InTier(a) : Catalog[n].window <= Catalog[m].window}

\* The models that may be returned; with none, TIER_EXHAUSTED.
FirstOf(sets) ==
    LET some == {i \in DOMAIN sets : sets[i] # {}}
    IN  IF some = {} THEN {} ELSE sets[Min(some)]
Selectable(a) ==
    FirstOf(<<AboveFloor(a), Widened(a), FallbackFits(a), {m \in InTier(a) : Fits(a, m)},
              LargestWindow(a)>>)

(***************************************************************************)
(* POST /v1/messages                                                       *)
(***************************************************************************)

Route(a, m, how) ==
    /\ routed' = [to |-> m, how |-> how, ask |-> a]
    /\ UNCHANGED <<available, disabled, opted>>

\* A model the caller names, when the classifier's mode is not "auto" (in
\* "auto" a name counts for nothing), faces the plan and its provider only.
RouteNamed(a) ==
    /\ a.named # NoModel
    /\ Route(a, a.named, IF ~TierOk(a, a.named) THEN "denied"
                         ELSE IF a.named \notin available THEN "failed" ELSE "named")

RouteAuto(a) ==
    /\ a.named = NoModel
    /\ \E m \in Selectable(a) : Route(a, m, "auto")

\* No tier of the plan has a model: 403, or 500 without a plan.
RouteExhausted(a) ==
    /\ a.named = NoModel
    /\ Selectable(a) = {}
    /\ Route(a, NoModel, "denied")

RoutingNext ==
    \/ \E m \in Listed : OperatorEnables(m) \/ OperatorDisables(m)
    \/ \E m \in Listed : UserEnables(m) \/ UserDisables(m)
    \/ \E models \in SUBSET Listed : Reboot(models)
    \/ \E a \in Asked : RouteNamed(a) \/ RouteAuto(a) \/ RouteExhausted(a)

RoutingSpec == RoutingInit /\ [][RoutingNext]_routingVars
-----------------------------------------------------------------------------
(***************************************************************************)
(* Properties.                                                             *)
(***************************************************************************)

\* How well a model suits a request: switched on and capable; capable; with
\* the tools, vision and window asked for; with the window; not even that.
Suits(a, m) ==
    IF Capable(a, m) /\ m \notin Excluded THEN 4
    ELSE IF Capable(a, m) THEN 3
    ELSE IF TierOk(a, m) /\ Serves(a, m) /\ Fits(a, m) THEN 2
    ELSE IF TierOk(a, m) /\ Fits(a, m) THEN 1 ELSE 0

\* A request is degraded only as far as it must be: whatever is switched off
\* and whatever the policy's floor, no available model suits it better than the
\* one that is selected.
NoBetterModelLeft ==
    routed.how = "auto" =>
        \A m \in InTier(routed.ask) : Suits(routed.ask, m) <= Suits(routed.ask, routed.to)
===============================================================================
