------------------------------- MODULE Pipeline -------------------------------
(***************************************************************************)
(* How a request comes to its classification: the detectors (signals.js),  *)
(* the three free classifiers (rules.js, embedding-classifier.js,          *)
(* profile-classifier.js), their fusion, and the phases of classify        *)
(* (index.js) with the classifiers that call out.  Who pays for a call is  *)
(* the business of module Classifier.                                      *)
(*                                                                         *)
(* A request is the evidence that the code finds in it: families of words  *)
(* in the last message and in the context, lengths, tools, images.  The    *)
(* reference examples that are near it, and what a model answers, are any. *)
(***************************************************************************)
EXTENDS Fusion

CONSTANTS
    Seen,           \* requests
    Nearby,         \* sequences of the nearest reference examples, nearest first
    Answers,        \* what an LLM or Jev may answer, as it is parsed
    Threshold       \* classifier.fusionConfidenceThreshold, in hundredths

\* How often the keywords of a task occur, how near an example is, how sure a
\* model says it is.
ASSUME SeenAssumption ==
    \A r \in Seen : \A task \in DOMAIN r.hits : {r.hits[task].last, r.hits[task].recent} \subseteq Nat
ASSUME NearbyAssumption == \A near \in Nearby : near # <<>> => near[1].w \in Nat
ASSUME AnswersAssumption == \A answer \in Answers : "confidence" \in DOMAIN answer => answer.confidence \in Int

VARIABLES
    seen,           \* the request
    path,           \* classifier.mode
    stage,          \* where classify is
    signals,        \* the signals so far
    result          \* the classification

pipelineVars == <<seen, path, stage, signals, result>>

\* "live" and "recent" are about freshness, "quality" and "fast" about
\* latency, the last three about risk.
Words == {"live", "recent", "quality", "fast", "restricted", "grave", "sensitive"}

SeenType ==
    [last : SUBSET Words, context : SUBSET Words, domain : Domains, persona : STRING,
     format : STRING, modalities : SUBSET Modalities,
     hits : UNION {[tasks -> [last : 0..4, recent : 0..4]] : tasks \in SUBSET PrimaryTasks},
     trivial : BOOLEAN, artifact : BOOLEAN, length : Nat, brief : BOOLEAN, wordy : BOOLEAN,
     chars : Nat, turns : Nat, system : {"minimal", "normal", "elaborate"},
     toolsDefined : BOOLEAN, toolHistory : BOOLEAN, recentTools : BOOLEAN,
     pendingTool : BOOLEAN, images : BOOLEAN]

(***************************************************************************)
(* signals.js                                                              *)
(***************************************************************************)

DetectFreshness(words) ==
    IF "live" \in words THEN "real_time" ELSE IF "recent" \in words THEN "recent" ELSE "not_required"

DetectRisk(words, domain) ==
    CASE "restricted" \in words -> [risk |-> "restricted", safetySensitive |-> TRUE]
      [] "restricted" \notin words /\ "grave" \in words -> [risk |-> "high", safetySensitive |-> TRUE]
      [] OTHER ->
            [risk |-> IF "sensitive" \in words \/ domain \in HighStakesDomains THEN "medium" ELSE "low",
             safetySensitive |-> domain \in HighStakesDomains]

DetectLatencyPreference(words) ==
    IF words \cap {"quality", "fast"} = {"quality"} THEN "quality_first"
    ELSE IF words \cap {"quality", "fast"} = {"fast"} THEN "fast" ELSE "normal"

LargeInput(r) == r.chars > 20000

DetectInputModalities(r) ==
    {"text"} \cup r.modalities \cup Where(r.images, "image") \cup Where(LargeInput(r), "document")

\* What the rules and the profile start from.
ExtractSignals(r) ==
    [domain |-> r.domain, persona |-> r.persona, output_format |-> r.format,
     risk |-> DetectRisk(r.context, r.domain).risk,
     freshness |-> DetectFreshness(r.last),
     latency_preference |-> DetectLatencyPreference(r.last),
     input_modalities |-> DetectInputModalities(r)]

\* hasToolDefinitions, hasToolUse
ToolsActive(r) == r.toolsDefined \/ r.toolHistory
Grave(r) == DetectRisk(r.context, r.domain).risk \in {"high", "restricted"}

Context(r, force) ==
    [hasLargeInput |-> LargeInput(r), hasToolDefinitions |-> r.toolsDefined,
     safetySensitive |-> DetectRisk(r.context, r.domain).safetySensitive, forceModelType |-> force]

(***************************************************************************)
(* rules.js                                                                *)
(***************************************************************************)

\* TASK_PATTERNS: task, complexity and confidence, in the order of the table
TaskPatterns == <<
    <<"debugging", "high", 85>>, <<"code_refactoring", "high", 85>>, <<"code_review", "high", 85>>,
    <<"technical_design", "high", 80>>, <<"code_generation", "medium", 82>>,
    <<"code_completion", "low", 80>>, <<"code_explanation", "medium", 78>>,
    <<"command_generation", "low", 82>>, <<"fact_check", "medium", 85>>, <<"research", "high", 82>>,
    <<"fact_lookup", "low", 78>>, <<"explanation", "medium", 70>>, <<"tutoring", "medium", 80>>,
    <<"mathematics", "high", 85>>, <<"logical_reasoning", "high", 80>>, <<"prediction", "high", 80>>,
    <<"analysis", "high", 75>>, <<"decision_support", "high", 82>>, <<"planning", "high", 82>>,
    <<"summarization", "low", 88>>, <<"extraction", "low", 85>>, <<"classification", "low", 85>>,
    <<"translation", "low", 90>>, <<"rewriting", "low", 85>>, <<"completion", "low", 80>>,
    <<"creative_generation", "medium", 85>>, <<"document_generation", "medium", 82>>,
    <<"brainstorming", "medium", 85>>, <<"interview_simulation", "medium", 88>>,
    <<"roleplay", "medium", 85>>, <<"advice", "medium", 75>>, <<"general_conversation", "low", 80>> >>

\* matchTasks: the current message is worth more than what came before.
Score(r, i) ==
    LET hits == r.hits[TaskPatterns[i][1]].last
        score == TaskPatterns[i][3] + (IF hits > 0 THEN 5 + 2 * Min({hits - 1, 3}) ELSE -20)
    IN  Min({score, 95})
Hits(r, i) == LET h == r.hits[TaskPatterns[i][1]] IN IF h.last > 0 THEN h.last ELSE h.recent
Matches(r) == {i \in DOMAIN TaskPatterns : TaskPatterns[i][1] \in DOMAIN r.hits}
Before(r, i, j) ==
    \/ Score(r, i) > Score(r, j)
    \/ Score(r, i) = Score(r, j) /\ (Hits(r, i) > Hits(r, j) \/ (Hits(r, i) = Hits(r, j) /\ i < j))

\* The shape of a request without keywords
ByShape(r) ==
    IF ToolsActive(r) /\ r.pendingTool THEN <<"analysis", "medium", 45>>
    ELSE IF "code" \in DetectInputModalities(r) THEN <<"code_explanation", "medium", 40>>
    ELSE <<"general_conversation", "low", 30>>

\* A review of something that is not code is an analysis.
ByKeyword(r) ==
    LET i == CHOOSE m \in Matches(r) : \A j \in Matches(r) \ {m} : Before(r, m, j)
        code == r.domain \in {"software_engineering", "cybersecurity"} \/ r.artifact
                \/ "code" \in DetectInputModalities(r)
    IN  IF TaskPatterns[i][1] = "code_review" /\ ~code THEN <<"analysis", "medium", Min({Score(r, i), 60})>>
        ELSE <<TaskPatterns[i][1], TaskPatterns[i][2], Score(r, i)>>

Terse(r) == r.trivial \/ r.length \in 1..14

\* A short acknowledgement does not inherit the task of the turn before it.
RuleTask(r) ==
    IF Terse(r) /\ ~r.pendingTool THEN <<"general_conversation", "low", 90>>
    ELSE IF Matches(r) = {} THEN ByShape(r) ELSE ByKeyword(r)

SecondaryTasks(r) ==
    LET others == {i \in Matches(r) :
            /\ TaskPatterns[i][1] \notin {RuleTask(r)[1], "general_conversation", "other"}
            /\ Score(r, i) >= 70 /\ r.hits[TaskPatterns[i][1]].last > 0}
    IN  {TaskPatterns[i][1] : i \in {j \in others : Cardinality({k \in others : Before(r, k, j)}) < 3}}

Half(condition) == IF condition THEN 1 ELSE 0

\* adjustComplexity, in halves
AdjustComplexity(r, base) ==
    LET latency == DetectLatencyPreference(r.last)
        score == 2 * ComplexityRank[base]
            + (IF r.length > 2000 THEN 2 ELSE Half(r.length > 600))
            - Half(r.length \in 1..59) + Half(LargeInput(r)) + Half(r.recentTools) + Half(r.images)
            + Half(Grave(r)) + Half(latency = "quality_first") - Half(latency = "fast")
    IN  IF score >= 4 THEN "high" ELSE IF score >= 2 THEN "medium" ELSE "low"

\* Every detector's word, and a task by keywords
RuleClassification(r) ==
    LET task == RuleTask(r)
        found == ExtractSignals(r)
    IN  [primary_task |-> task[1], secondary_tasks |-> SecondaryTasks(r),
         complexity |-> IF Terse(r) THEN "low" ELSE AdjustComplexity(r, task[2]),
         capabilities |-> Where(ToolsActive(r), "tool_use") \cup Where(r.images, "vision")
                             \cup Where(LargeInput(r), "long_context"),
         domain |-> found.domain, persona |-> found.persona, output_format |-> found.output_format,
         risk |-> found.risk, freshness |-> found.freshness,
         latency_preference |-> found.latency_preference,
         input_modalities |-> found.input_modalities, confidence |-> task[3]]

\* The model type is derived.
RuleSignal(r) ==
    [source |-> "rule", opinion |-> TRUE, activity |-> "unknown", large |-> FALSE,
     c |-> ApplyRoutingRules(RuleClassification(r), Context(r, TRUE))]

(***************************************************************************)
(* profile-classifier.js: the shape of the request                         *)
(***************************************************************************)

ToolActivity(r) ==
    IF ~r.toolsDefined THEN "none"
    ELSE IF ~r.toolHistory THEN "defined_only"
    ELSE IF r.recentTools THEN "active_recent" ELSE "active_past"

ProfileScore(r) ==
    LET score == (IF r.length > 2000 THEN 2 ELSE Half(r.length > 500))
            + (IF r.recentTools THEN 2 ELSE Half(r.toolsDefined))
            + Half((r.turns > 8 /\ ~r.brief) \/ (r.turns \in 6..8 /\ r.wordy))
            + Half(r.images) + Half(r.system = "elaborate") + Half(Grave(r))
    IN  IF r.brief THEN Min({score, 1}) ELSE score
ProfileComplexity(r) ==
    IF ProfileScore(r) >= 5 THEN "high" ELSE IF ProfileScore(r) >= 2 THEN "medium" ELSE "low"

ProfileConfidence(r) ==
    LET active == Half(r.length > 100) + Half(r.recentTools \/ r.toolsDefined) + Half(r.images)
            + Half(r.turns > 2) + Half(r.system # "minimal") + Half(LargeInput(r))
            + Half("code" \in DetectInputModalities(r))
        confidence == Min({12 * active, 55})
    IN  IF r.brief /\ ProfileComplexity(r) = "low" /\ confidence < 50 THEN 50 ELSE confidence

ProfileClassification(r) ==
    LET found == ExtractSignals(r)
    IN  [capabilities |->
            Where(ToolsActive(r), "tool_use") \cup Where(r.images, "vision")
                \cup Where("audio" \in found.input_modalities, "audio")
                \cup Where(LargeInput(r), "long_context")
                \cup Where(r.pendingTool /\ ToolsActive(r), "code_execution"),
         input_modalities |-> found.input_modalities, complexity |-> ProfileComplexity(r),
         risk |-> found.risk, freshness |-> found.freshness,
         latency_preference |-> found.latency_preference, confidence |-> ProfileConfidence(r)]

ProfileSignal(r) ==
    [source |-> "profile", opinion |-> FALSE, activity |-> ToolActivity(r), large |-> LargeInput(r),
     c |-> [ApplyRoutingRules(ProfileClassification(r), Context(r, FALSE))
               EXCEPT !.model_type = "general_model"]]

(***************************************************************************)
(* embedding-classifier.js: the votes of the nearest examples, weighted by *)
(* similarity.                                                             *)
(***************************************************************************)

\* The weights of a value add up, unlike those of fusion.
SummedUnion(near, field) ==
    LET Sum(v) == WeightOf(near, {i \in DOMAIN near : v \in near[i].c[field]})
    IN  {v \in Values(near, field) : \A u \in Values(near, field) : 100 * Sum(v) >= 40 * Sum(u)}

NearVote(near) ==
    LET task == Voted(near, "primary_task") IN
    [primary_task |-> task,
     secondary_tasks |-> near[1].c.secondary_tasks \ {task},
     domain |-> Voted(near, "domain"),
     capabilities |-> SummedUnion(near, "capabilities")
                        \ {"vision", "audio", "long_context", "code_execution"},
     input_modalities |-> SummedUnion(near, "input_modalities"),
     output_format |-> Voted(near, "output_format"),
     complexity |-> Severity(near, "complexity", ComplexityRank, 40),
     risk |-> Severity(near, "risk", RiskRank, 40),
     freshness |-> Severity(near, "freshness", FreshnessRank, 40),
     latency_preference |-> Voted(near, "latency_preference")]

NoContext(force) ==
    [hasLargeInput |-> FALSE, hasToolDefinitions |-> FALSE, safetySensitive |-> FALSE,
     forceModelType |-> force]

\* Nothing near enough is no signal.
EmbeddingSignal(near) ==
    LET agree == Cardinality({near[i].c.primary_task : i \in DOMAIN near}) = 1
        confidence == (85 * near[1].w) \div 100 + (IF agree THEN 5 ELSE 0)
    IN  [source |-> "embedding", opinion |-> TRUE, activity |-> "unknown", large |-> FALSE,
         c |-> IF near = <<>> \/ near[1].w < 25 THEN Normalize([confidence |-> 5])
               ELSE [ApplyRoutingRules(NearVote(near), NoContext(TRUE))
                        EXCEPT !.confidence = Min({confidence, 85})]]

(***************************************************************************)
(* llm-classifier.js and jev-classifier.js                                 *)
(***************************************************************************)

\* finalize: an answer is worth at least 0.85.
LlmSignal(r, answer) ==
    LET c == ApplyRoutingRules(answer, [NoContext(FALSE) EXCEPT !.hasToolDefinitions = r.toolsDefined])
    IN  [source |-> "llm", opinion |-> TRUE, activity |-> "unknown", large |-> FALSE,
         c |-> IF c.confidence < 85 THEN [c EXCEPT !.confidence = 85] ELSE c]

\* Jev's count of a large input leaves out the system prompt, which is not
\* there when /v1/messages classifies.
JevContext(r) == [Context(r, TRUE) EXCEPT !.safetySensitive = FALSE]
JevQuestions == {"primary_task", "complexity", "domain", "risk", "freshness", "confidence"}

\* mapJevResponse: the five questions, and the images of the request
JevResult(r, answer) ==
    ApplyRoutingRules(
        [f \in (DOMAIN answer \cap JevQuestions) \cup {"input_modalities"} |->
            IF f = "input_modalities" THEN {"text"} \cup Where(r.images, "image") ELSE answer[f]],
        JevContext(r))

\* degraded: "safe defaults"
JevDefault(r) == ApplyRoutingRules([confidence |-> 15], JevContext(r))

(***************************************************************************)
(* classify                                                                *)
(***************************************************************************)

PipelineInit ==
    /\ seen \in Seen /\ path \in {"auto", "llm", "jev"}
    /\ stage = "new" /\ signals = <<>> /\ result = Normalize(<<>>)

\* Phases 1 and 2
VoteFree(near) ==
    /\ stage = "new" /\ path = "auto"
    /\ signals' = <<RuleSignal(seen), EmbeddingSignal(near), ProfileSignal(seen)>>
    /\ result' = Fuse(signals')
    /\ stage' = "voted"
    /\ UNCHANGED <<seen, path>>

\* Phase 3
SureEnough ==
    /\ stage = "voted" /\ result.confidence >= Threshold
    /\ stage' = "settled"
    /\ UNCHANGED <<seen, path, signals, result>>

\* Phase 3.5: one sure signal that agrees
Agrees(s) ==
    /\ s.c.confidence >= 80
    /\ s.c.primary_task = result.primary_task /\ s.c.complexity = result.complexity
    /\ s.c.model_type = result.model_type
Shortcut ==
    /\ stage = "voted" /\ result.confidence < Threshold
    /\ \E i \in DOMAIN signals : Agrees(signals[i])
    /\ result' = [result EXCEPT !.confidence = Threshold]
    /\ stage' = "settled"
    /\ UNCHANGED <<seen, path, signals>>

Uncertain ==
    /\ stage = "voted" /\ result.confidence < Threshold
    /\ ~\E i \in DOMAIN signals : Agrees(signals[i])

\* Phase 4: fused again with the answer of the LLM
Refine(answer) ==
    /\ Uncertain
    /\ signals' = Append(signals, LlmSignal(seen, answer))
    /\ result' = Fuse(signals')
    /\ stage' = "settled"
    /\ UNCHANGED <<seen, path>>

\* No model, no answer in time, or none that can be parsed
KeepFused ==
    /\ Uncertain
    /\ stage' = "degraded"
    /\ UNCHANGED <<seen, path, signals, result>>

LlmOnly(answer) ==
    /\ stage = "new" /\ path = "llm"
    /\ signals' = <<LlmSignal(seen, answer)>>
    /\ result' = signals'[1].c
    /\ stage' = "settled"
    /\ UNCHANGED <<seen, path>>

JevOnly(answer) ==
    /\ stage = "new" /\ path = "jev"
    /\ "primary_task" \in DOMAIN answer
    /\ result' = JevResult(seen, answer)
    /\ stage' = "settled"
    /\ UNCHANGED <<seen, path, signals>>

JevDegrades ==
    /\ stage = "new" /\ path = "jev"
    /\ result' = JevDefault(seen)
    /\ stage' = "degraded"
    /\ UNCHANGED <<seen, path, signals>>

\* Without a model or a key, or with an answer that cannot be parsed, mode
\* "llm" throws, and so does "jev" without its key.
Throws ==
    /\ stage = "new" /\ path \in {"llm", "jev"}
    /\ stage' = "failed"
    /\ UNCHANGED <<seen, path, signals, result>>

PipelineNext ==
    \/ \E near \in Nearby : VoteFree(near)
    \/ SureEnough \/ Shortcut \/ KeepFused \/ JevDegrades \/ Throws
    \/ \E answer \in Answers : Refine(answer) \/ LlmOnly(answer) \/ JevOnly(answer)

PipelineSpec == PipelineInit /\ [][PipelineNext]_pipelineVars
-----------------------------------------------------------------------------
(***************************************************************************)
(* Properties.                                                             *)
(***************************************************************************)

\* An image is "a hard capability requirement" (taxonomy.js:471), which the
\* router learns of from the classification alone.  It survives whatever the
\* examples and the LLM, who may not know of it, vote: the weight of the
\* rules' least certain vote is just enough.  So it does in mode "jev", as
\* long as Jev answers.
ImageIsSeen ==
    /\ seen.images
    /\ \/ path = "auto" /\ stage \in {"voted", "settled", "degraded"}
       \/ path = "jev" /\ stage = "settled"
    => result.model_type \in {"multimodal_model", "safety_specialized_model"}

\* "One clear signal is enough" (fusion.js:244): when any classifier that is
\* not guessing recommends human review, so does the classification, which is
\* then "quality first" and for none of the generic tiers, however the others
\* vote.
ReviewIsHonoured ==
    /\ stage \in {"voted", "settled", "degraded"}
    /\ \E i \in DOMAIN signals :
          signals[i].c.human_review_recommended /\ signals[i].c.confidence > 30
    => /\ result.human_review_recommended
       /\ result.latency_preference = "quality_first"
       /\ result.model_type \notin {"fast_model", "general_model"}
===============================================================================
