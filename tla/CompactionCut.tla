---------------------------- MODULE CompactionCut ----------------------------
(***************************************************************************)
(* Where a compaction cuts a conversation: findCompactionCut of            *)
(* lib/classifier/text-utils.js, and the search of maybeCompact            *)
(* (lib/compaction.js) for the number of exchanges to keep.  The first cut *)
(* messages are dropped.  A loop of the code is a step of the module that  *)
(* repeats; the conversation does not change meanwhile.                    *)
(***************************************************************************)
EXTENDS Integers, Sequences, FiniteSetsExt

CONSTANTS
    Ids,            \* tool_use ids
    Conversations,  \* message lists
    Budgets,        \* [floor, ceiling]: usable * minPct and usable * maxPct
    Keep,           \* compaction.keepRecentExchanges
    MinKept,        \* compaction.minKeptExchanges, at least 1
    MostKept        \* 16 in the code

Message == [role : {"user", "assistant"}, says : BOOLEAN, uses : SUBSET Ids,
            results : SUBSET Ids, size : Nat]

ASSUME ConversationsAssumption == Conversations \subseteq Seq(Message)
ASSUME BudgetsAssumption == Budgets \subseteq [floor : Nat, ceiling : Nat]
ASSUME KeepAssumption ==
    /\ {Keep, MinKept, MostKept} \subseteq Nat \ {0}
    /\ MinKept <= Keep /\ Keep <= MostKept

VARIABLES
    messages,       \* body.messages
    budget,
    search,         \* first the configured number of exchanges, then fewer or more
    keeping,        \* the number of exchanges of the cut being looked for
    finding,        \* findCompactionCut: its walk, its repair loop, returned
    at,             \* the cut it is at; 0 stands for -1
    cut             \* the cut chosen so far

cutVars == <<messages, budget, search, keeping, finding, at, cut>>

CutInit ==
    /\ messages \in Conversations
    /\ budget \in Budgets
    /\ search = "first" /\ keeping = Keep
    /\ finding = "walk" /\ at = 0
    /\ cut = 0

(***************************************************************************)
(* findCompactionCut                                                       *)
(***************************************************************************)

\* messages[i] of the code, which counts from 0
Msg(i) == messages[i + 1]
Positions == 0..(Len(messages) - 1)

\* startsNewExchange: a user turn that is more than tool results
Starts == {i \in Positions : Msg(i).role = "user" /\ Msg(i).says}

\* The walk back from the end stops at the n-th exchange; none at -1, and a
\* conversation that ends mid-exchange is not cut.
Boundary(n) ==
    IF Len(messages) < 2 \/ Msg(Len(messages) - 1).role # "user" THEN 0
    ELSE LET here == {i \in Starts : Cardinality({j \in Starts : j >= i}) = n}
         IN  IF here = {} THEN 0 ELSE CHOOSE i \in here : TRUE

\* The tool_use ids that the kept part refers to.
Referenced(c) == UNION {Msg(i).results : i \in {j \in Positions : j >= c}}

\* The dropped assistant turns of which a result is kept.
Split(c) == {i \in Positions : /\ i < c /\ Msg(i).role = "assistant"
                               /\ Msg(i).uses \cap Referenced(c) # {}}

\* Mutant: the turn itself is the new cut, also when it is the assistant's.
MoveToTurn(i) == i
\* The user turn at or before i; the code stops at 0 whatever its role.
UserTurnAt(i) == Max({0} \cup {j \in 0..i : Msg(j).role = "user"})

Walk ==
    /\ finding = "walk"
    /\ finding' = "repair"
    /\ at' = Boundary(keeping)
    /\ UNCHANGED <<messages, budget, search, keeping, cut>>

Repair ==
    /\ finding = "repair" /\ at > 0 /\ Split(at) # {}
    /\ at' = UserTurnAt(Max(Split(at)))
    /\ UNCHANGED <<messages, budget, search, keeping, finding, cut>>

Return ==
    /\ finding = "repair"
    /\ at = 0 \/ Split(at) = {}
    /\ finding' = "returned"
    /\ UNCHANGED <<messages, budget, search, keeping, at, cut>>

(***************************************************************************)
(* The search of maybeCompact                                              *)
(***************************************************************************)

\* keptEst: the system prompt counts for nothing here
Kept(c) == SumFunctionOnSet([i \in Positions |-> Msg(i).size], {i \in Positions : i >= c})

Try(direction, n) ==
    /\ search' = direction /\ keeping' = n
    /\ finding' = "walk" /\ at' = 0

Stop == search' = "over" /\ UNCHANGED <<keeping, finding, at>>

\* Nothing can be dropped at the configured number of exchanges: no compaction.
NoCut ==
    /\ finding = "returned" /\ search = "first"
    /\ at = 0
    /\ Stop
    /\ UNCHANGED <<messages, budget, cut>>

\* Too much is kept: fewer exchanges.  Plenty of room: more.
FirstCut ==
    /\ finding = "returned" /\ search = "first"
    /\ at > 0
    /\ cut' = at
    /\ \/ Kept(at) > budget.ceiling /\ Keep > MinKept /\ Try("fewer", Keep - 1)
       \/ Kept(at) > budget.ceiling /\ Keep = MinKept /\ Stop
       \/ Kept(at) <= budget.ceiling /\ Kept(at) < budget.floor /\ Keep < MostKept
          /\ Try("more", Keep + 1)
       \/ Kept(at) <= budget.ceiling /\ (Kept(at) >= budget.floor \/ Keep = MostKept) /\ Stop
    /\ UNCHANGED <<messages, budget>>

Narrow ==
    /\ finding = "returned" /\ search = "fewer"
    /\ cut' = IF at = 0 THEN cut ELSE at
    /\ IF at = 0 \/ Kept(at) <= budget.ceiling \/ keeping = MinKept
       THEN Stop
       ELSE Try("fewer", keeping - 1)
    /\ UNCHANGED <<messages, budget>>

\* A cut that keeps too much is not taken.
Widen ==
    /\ finding = "returned" /\ search = "more"
    /\ LET fits == at > 0 /\ Kept(at) <= budget.ceiling IN
       /\ cut' = IF fits THEN at ELSE cut
       /\ IF ~fits \/ Kept(at) > budget.floor \/ keeping = MostKept
          THEN Stop
          ELSE Try("more", keeping + 1)
    /\ UNCHANGED <<messages, budget>>

CutStep == Walk \/ Repair \/ Return \/ NoCut \/ FirstCut \/ Narrow \/ Widen
CutOver == search = "over" /\ UNCHANGED cutVars
CutNext == CutStep \/ CutOver

CutSpec == CutInit /\ [][CutNext]_cutVars
-----------------------------------------------------------------------------
(***************************************************************************)
(* Properties.                                                             *)
(***************************************************************************)

CutTypeOK ==
    /\ messages \in Seq(Message)
    /\ budget \in [floor : Nat, ceiling : Nat]
    /\ search \in {"first", "fewer", "more", "over"}
    /\ finding \in {"walk", "repair", "returned"}
    /\ keeping \in MinKept..MostKept
    /\ at \in Nat /\ cut \in Nat

\* What may be kept: it begins with a user turn, and each tool result in it
\* is kept with the turn that called the tool.
Safe(c) == c \in Positions /\ Msg(c).role = "user" /\ Split(c) = {}

\* findCompactionCut returns a cut no later than the boundary asked for that
\* splits no tool_use from its tool_result ("must never be split", text-utils
\* line 178), keeps no more of the conversation than it has to, and returns
\* -1 only when there is none, whatever the results refer to.
LargestSafeCut ==
    finding = "returned" =>
        /\ at > 0 => Safe(at)
        /\ \A c \in (at + 1)..Boundary(keeping) : ~Safe(c)

\* The search gives up only when nothing is safe to drop at the configured
\* number of exchanges ("if (cut <= 0) return null", compaction.js:242): fewer
\* exchanges are then not tried, though one of them may be safe and fit.  Where
\* it does not give up, what it chooses is safe, and keeps more than the ceiling
\* only at the floor, where no smaller number of exchanges may be tried.
CeilingOrFloor ==
    search = "over" =>
        /\ cut = 0 => \A c \in 1..Boundary(Keep) : ~Safe(c)
        /\ cut > 0 =>
              /\ Safe(cut)
              /\ Kept(cut) > budget.ceiling => \A c \in (cut + 1)..Boundary(MinKept) : ~Safe(c)
===============================================================================
