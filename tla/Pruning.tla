-------------------------------- MODULE Pruning --------------------------------
(***************************************************************************)
(* The tools of a request to a provider that takes only so many            *)
(* (buildPrunedBody of lib/tool-pruning.js), and the tools that the        *)
(* conversations of a family have discovered (lib/tools-registry.js), as   *)
(* POST /v1/messages uses them (index.js).  A tool is its name; the rounds *)
(* of a search, and what the client sees of them, are in module Serving.   *)
(***************************************************************************)
EXTENDS Integers, FiniteSetsExt, SequencesExt

CONSTANTS
    Offered,        \* tool lists of requests; names may repeat
    Essential,      \* ESSENTIAL_TOOLS
    MetaTool,       \* ToolSearch
    ToolCaps,       \* router.maxTools: the caps of the providers
    Families,       \* system prompts
    MaxFamilies     \* 500 in the code

ASSUME OfferedAssumption == \A tools \in Offered : tools \in Seq(ToSet(tools))
ASSUME ToolCapsAssumption == ToolCaps \subseteq Nat \ {0}
ASSUME MaxFamiliesAssumption == MaxFamilies \in Nat \ {0}

VARIABLES
    families,       \* the registry: an entry for some of the families
    turn,           \* the request under way, and what its provider gets
    foundBy         \* history: what a family has found since its entry was lost

pruningVars == <<families, turn, foundBy>>

NoTurn == [family |-> CHOOSE f \in Families : TRUE, tools |-> <<>>, cap |-> 1, known |-> {},
           found |-> {}, pruned |-> FALSE, inline |-> {}]

PruningInit ==
    /\ families = <<>>
    /\ turn = NoTurn
    /\ foundBy = [f \in Families |-> {}]

(***************************************************************************)
(* buildPrunedBody                                                         *)
(***************************************************************************)

\* Essential tools come first, then those discovered, then the others.
Rank(n, known) == IF n \in Essential THEN 1 ELSE IF n \in known THEN 2 ELSE 3
Position(tools, n) == Min({i \in DOMAIN tools : tools[i] = n})
Sooner(tools, known, m, n) ==
    \/ Rank(m, known) < Rank(n, known)
    \/ Rank(m, known) = Rank(n, known) /\ Position(tools, m) < Position(tools, n)

\* Mutant: no slot is kept for the meta-tool.
WholeCap(cap) == cap
InlineLimit(cap) == cap - 1

\* A name is taken once.
Inline(tools, known, cap) ==
    {n \in ToSet(tools) :
        Cardinality({m \in ToSet(tools) : Sooner(tools, known, m, n)}) < InlineLimit(cap)}

\* Nothing is pruned when the list fits, when the client searches itself, or
\* when no name would be deferred.
MustPrune(tools, known, cap) ==
    /\ Len(tools) > cap
    /\ MetaTool \notin ToSet(tools)
    /\ Inline(tools, known, cap) # ToSet(tools)

Prunes(f, tools, known, found, cap) ==
    turn' = [family |-> f, tools |-> tools, cap |-> cap, known |-> known, found |-> found,
             pruned |-> MustPrune(tools, known, cap),
             inline |-> IF MustPrune(tools, known, cap) THEN Inline(tools, known, cap)
                        ELSE ToSet(tools)]

(***************************************************************************)
(* The registry, a Map: what an entry has found, whether it is expired,    *)
(* and the families inserted before it.  Reading an entry refreshes its    *)
(* age and not its place.                                                  *)
(***************************************************************************)

IsFresh(f) == f \in DOMAIN families /\ ~families[f].stale
KnownTo(f) == IF IsFresh(f) THEN families[f].names ELSE {}

\* The entries that stay, in their order
Staying(some) ==
    [f \in DOMAIN families \cap some |-> [families[f] EXCEPT !.older = @ \cap some]]

\* get, on the way to the first model; an expired entry is removed.
Request(f, tools, cap) ==
    /\ families' = IF IsFresh(f) THEN families ELSE Staying(Families \ {f})
    /\ Prunes(f, tools, KnownTo(f), foundBy[f], cap)
    /\ UNCHANGED foundBy

\* A fallback to a provider with another cap has the same snapshot.
FallBack(cap) ==
    /\ turn.tools # <<>>
    /\ Prunes(turn.family, turn.tools, turn.known, turn.found, cap)
    /\ UNCHANGED <<families, foundBy>>

\* _prune: expired entries go, then the first inserted, until there is room.
Room ==
    LET fresh == {f \in DOMAIN families : IsFresh(f)}
        over == Cardinality(fresh) - MaxFamilies + 1
    IN  {f \in fresh : Cardinality(families[f].older \cap fresh) >= over}

\* record: an entry that is there, expired or not, gets the name.
Recorded(f, n) ==
    IF f \in DOMAIN families
    THEN [families EXCEPT ![f].names = @ \cup {n}, ![f].stale = FALSE]
    ELSE [g \in Room \cup {f} |->
            IF g = f THEN [names |-> {n}, stale |-> FALSE, older |-> Room] ELSE Staying(Room)[g]]

Remains(f) == f \in DOMAIN families' /\ ~families'[f].stale

\* A search resolves to any tool of the original list, one that is inline too.
Discover(n) ==
    /\ turn.pruned /\ n \in ToSet(turn.tools)
    /\ families' = Recorded(turn.family, n)
    /\ foundBy' = [f \in Families |->
          IF ~Remains(f) THEN {} ELSE IF f = turn.family THEN foundBy[f] \cup {n} ELSE foundBy[f]]
    /\ UNCHANGED turn

\* 60 idle minutes
FamilyExpires(f) ==
    /\ IsFresh(f)
    /\ families' = [families EXCEPT ![f].stale = TRUE]
    /\ foundBy' = [foundBy EXCEPT ![f] = {}]
    /\ UNCHANGED turn

PruningNext ==
    \/ \E f \in Families, tools \in Offered, cap \in ToolCaps : Request(f, tools, cap)
    \/ \E cap \in ToolCaps : FallBack(cap)
    \/ \E n \in ToSet(turn.tools) : Discover(n)
    \/ \E f \in Families : FamilyExpires(f)

PruningSpec == PruningInit /\ [][PruningNext]_pruningVars
-----------------------------------------------------------------------------
(***************************************************************************)
(* Properties.                                                             *)
(***************************************************************************)

\* A pruned list fits its provider with the meta-tool in it, and what the
\* conversation had found, and not lost to age or eviction, is inline before
\* any tool that it has not ("active working set", tool-pruning.js:8).
\* A list that is not pruned fits, is the client's to manage, or repeats names:
\* one whose names alone would fit is sent as it is, over the cap.
WorkingSetFits ==
    /\ turn.pruned =>
          /\ Cardinality(turn.inline) + 1 <= turn.cap
          /\ \A n \in (turn.found \cup Essential) \cap ToSet(turn.tools) :
                n \notin turn.inline => turn.inline \subseteq Essential \cup turn.known
    /\ ~turn.pruned /\ Len(turn.tools) > turn.cap =>
          MetaTool \in turn.inline \/ Cardinality(ToSet(turn.tools)) < turn.cap
===============================================================================
