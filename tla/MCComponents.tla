----------------------------- MODULE MCComponents -----------------------------
(* Instances for TLC of the components that keep no state in common.  Each   *)
(* is checked from its own initial states, with the others at rest.          *)
EXTENDS MCServing, Conversion, MCCompaction, Classifier, Routing, Streams, Sessions, Backfill,
        Pruning, MCPipeline

CONSTANTS
    Exchanges       \* of the conversations that are cut

VARIABLE component

\* Turns that alternate and begin and end with the user's, tool results bulky.
UserTurn == {m \in [role : {"user"}, says : BOOLEAN, uses : {{}}, results : SUBSET Ids, size : {1, 3}] :
                /\ m.says \/ Cardinality(m.results) = 1
                /\ m.size = IF m.results = {} THEN 1 ELSE 3}
AssistantTurn == {m \in [role : {"assistant"}, says : {TRUE}, uses : SUBSET Ids, results : {{}}, size : {1}] :
                    Cardinality(m.uses) <= 1}
MCConversations ==
    {[i \in 1..(2 * Exchanges + 1) |-> IF i % 2 = 1 THEN u[(i + 1) \div 2] ELSE a[i \div 2]] :
        u \in {w \in [1..(Exchanges + 1) -> UserTurn] : w[1].results = {}},
        a \in [1..Exchanges -> AssistantTurn]}

MCBudgets == {[floor |-> 4, ceiling |-> 6]}

\* A small model, a large one, and a safe one without tools.
MCCatalog ==
    [m \in {m1, m2, m3} |->
        [tier |-> IF m = m1 THEN "basic" ELSE "pro",
         tools |-> m # m3, vision |-> m = m2, safety |-> m = m3, reasons |-> m # m1,
         window |-> IF m = m1 THEN 10 ELSE IF m = m2 THEN 40 ELSE 20,
         cost |-> IF m = m1 THEN 0 ELSE 2]]
MCAsked ==
    {a \in [tools : BOOLEAN, vision : BOOLEAN, audio : {FALSE}, restricted : BOOLEAN,
            reasoning : BOOLEAN, tokens : {10, 30}, floor : {0, 3},
            tiers : {{"basic", "pro"}}, named : {NoModel, m1}] :
        /\ a.vision => ~a.tools /\ ~a.restricted
        /\ a.tools => ~a.restricted
        /\ a.reasoning => ~a.tools /\ ~a.vision
        /\ a.tokens = 30 => a.floor = 0
        /\ a.named = m1 => a.tokens = 10 /\ a.floor = 0 /\ ~(a.tools \/ a.vision \/ a.restricted \/ a.reasoning)}

\* A list over both caps, one that repeats a name, one with a search of its own.
MCOffered == {<<"x", "y", "z", "Read">>, <<"x", "x", "x", "y">>, <<"x", "y", "z", "ToolSearch">>}

\* The other components at rest.
CutAtRest ==
    /\ messages = <<>> /\ budget = [floor |-> 0, ceiling |-> 0]
    /\ search = "first" /\ keeping = Keep /\ finding = "walk" /\ at = 0 /\ cut = 0
ClassifierAtRest == boot = {} /\ mode = "auto" /\ ClassifierInit
RoutingAtRest == available = {} /\ RoutingInit
StreamAtRest == style = "buffered" /\ StreamInit
PipelineAtRest == seen = Plain /\ path = "auto" /\ PipelineInit

MCInit ==
    /\ component \in {"serving", "cut", "compaction", "classifier", "routing", "streams",
                      "sessions", "backfill", "pipeline", "pruning"}
    /\ IF component = "cut" THEN CutInit ELSE CutAtRest
    /\ IF component = "classifier" THEN ClassifierInit /\ boot \in {{}, {"model", "key"}}
       ELSE ClassifierAtRest
    /\ IF component = "routing" THEN RoutingInit ELSE RoutingAtRest
    /\ IF component = "streams" THEN StreamInit ELSE StreamAtRest
    /\ IF component = "pipeline" THEN PipelineInit ELSE PipelineAtRest
    /\ Init /\ CompactionInit /\ SessionsInit /\ BackfillInit /\ PruningInit

MCNext ==
    /\ UNCHANGED component
    /\ \/ /\ component = "serving" /\ Next
          /\ UNCHANGED <<cutVars, compactionVars, classifierVars, routingVars, streamVars, sessionVars, backfillVars, pipelineVars, pruningVars>>
       \/ /\ component = "cut" /\ CutNext
          /\ UNCHANGED <<vars, compactionVars, classifierVars, routingVars, streamVars, sessionVars, backfillVars, pipelineVars, pruningVars>>
       \/ /\ component = "compaction" /\ CompactionNext
          /\ UNCHANGED <<vars, cutVars, classifierVars, routingVars, streamVars, sessionVars, backfillVars, pipelineVars, pruningVars>>
       \/ /\ component = "classifier" /\ ClassifierNext
          /\ UNCHANGED <<vars, cutVars, compactionVars, routingVars, streamVars, sessionVars, backfillVars, pipelineVars, pruningVars>>
       \/ /\ component = "routing" /\ RoutingNext
          /\ UNCHANGED <<vars, cutVars, compactionVars, classifierVars, streamVars, sessionVars, backfillVars, pipelineVars, pruningVars>>
       \/ /\ component = "streams" /\ StreamNext
          /\ UNCHANGED <<vars, cutVars, compactionVars, classifierVars, routingVars, sessionVars, backfillVars, pipelineVars, pruningVars>>
       \/ /\ component = "sessions" /\ SessionsNext
          /\ UNCHANGED <<vars, cutVars, compactionVars, classifierVars, routingVars, streamVars, backfillVars, pipelineVars, pruningVars>>
       \/ /\ component = "backfill" /\ BackfillNext
          /\ UNCHANGED <<vars, cutVars, compactionVars, classifierVars, routingVars, streamVars, sessionVars, pipelineVars, pruningVars>>
       \/ /\ component = "pipeline" /\ PipelineNext
          /\ UNCHANGED <<vars, cutVars, compactionVars, classifierVars, routingVars, streamVars, sessionVars, backfillVars, pruningVars>>
       \/ /\ component = "pruning" /\ PruningNext
          /\ UNCHANGED <<vars, cutVars, compactionVars, classifierVars, routingVars, streamVars, sessionVars, backfillVars, pipelineVars>>

componentsVars ==
    <<component, vars, cutVars, compactionVars, classifierVars, routingVars, streamVars, sessionVars, backfillVars,
      pipelineVars, pruningVars>>

MCSpec ==
    /\ MCInit /\ [][MCNext]_componentsVars
    /\ ServingFairness /\ ClassifierFairness
===============================================================================
