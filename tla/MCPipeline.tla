------------------------------- MODULE MCPipeline -------------------------------
(***************************************************************************)
(* Requests, examples and answers for TLC.                                 *)
(***************************************************************************)
EXTENDS Pipeline, TLC

\* A plain request; the others vary it in a few ways at once.
Plain ==
    [last |-> {}, context |-> {}, domain |-> "general", persona |-> NoText, format |-> "text",
     modalities |-> {}, hits |-> <<>>, trivial |-> FALSE, artifact |-> FALSE, length |-> 200,
     brief |-> FALSE, wordy |-> FALSE, chars |-> 900, turns |-> 1, system |-> "minimal",
     toolsDefined |-> FALSE, toolHistory |-> FALSE, recentTools |-> FALSE, pendingTool |-> FALSE,
     images |-> FALSE]

Keyword(task, last) == task :> [last |-> last, recent |-> 1]
Keywords == {<<>>, Keyword("code_review", 1), Keyword("fact_lookup", 2), Keyword("advice", 0),
             Keyword("research", 1) @@ Keyword("document_generation", 1), Keyword("code_completion", 1)}

MCSeen ==
    {[Plain EXCEPT !.hits = hits, !.context = words, !.domain = domain, !.images = images, !.length = length] :
        hits \in Keywords, words \in {{}, {"grave"}, {"restricted"}}, domain \in {"general", "health"},
        images \in BOOLEAN, length \in {10, 200}}
    \cup
    {[Plain EXCEPT !.last = last, !.chars = chars, !.turns = turns, !.brief = turns = 9 /\ last = {},
                   !.modalities = modalities, !.toolsDefined = tools # "none", !.toolHistory = tools = "active",
                   !.recentTools = tools = "active", !.pendingTool = tools = "active", !.images = turns = 9] :
        last \in {{}, {"fast", "live"}, {"quality"}}, chars \in {900, 30000},
        turns \in {1, 9}, modalities \in {{}, {"code"}}, tools \in {"none", "defined", "active"}}

Example(task, complexity, risk) ==
    Normalize([primary_task |-> task, complexity |-> complexity, risk |-> risk, capabilities |-> {"basic_generation"}])
Near(sims, examples) == [i \in 1..3 |-> [w |-> sims[i], c |-> examples[i]]]
MCNearby ==
    {<<>>} \cup
    {Near(sims, examples) :
        sims \in {<<100, 80, 80>>, <<60, 40, 40>>},
        examples \in {<<Example("fact_lookup", "low", "low"), Example("fact_lookup", "low", "low"), Example("fact_lookup", "low", "low")>>,
                      <<Example("debugging", "high", "low"), Example("fact_lookup", "low", "low"), Example("advice", "medium", "high")>>}}

Answer(task, risk, type, review, confidence) ==
    [primary_task |-> task, complexity |-> "low", risk |-> risk, model_type |-> type,
     human_review_recommended |-> review, confidence |-> confidence]
MCAnswers ==
    {Answer("fact_lookup", "low", "fast_model", FALSE, 100), Answer("advice", "high", "fast_model", FALSE, 50),
     Answer("fact_lookup", "low", "unheard_of", TRUE, 90), [domain |-> "legal"]}

MCWeights == [rule |-> 25, embedding |-> 30, profile |-> 15, llm |-> 30]
===============================================================================
