------------------------------- MODULE Taxonomy -------------------------------
(***************************************************************************)
(* What a request is classified as (lib/classifier/taxonomy.js): the       *)
(* vocabulary, the normalizer that lets nothing else through, and the      *)
(* deterministic routing rules applied to every classification.            *)
(* The fields of "routing" are fields of the classification here; persona  *)
(* stands for subdomain too, confidence is in hundredths, lists are sets,  *)
(* and "reason" is left out.                                               *)
(***************************************************************************)
EXTENDS Integers, FiniteSets

\* Task groupings: rules 13 to 15, 10.
CodingTasks == {"code_generation", "code_completion", "debugging", "code_explanation",
                "code_review", "code_refactoring", "technical_design", "command_generation"}
ReasoningTasks == {"mathematics", "logical_reasoning", "analysis", "planning",
                   "decision_support", "prediction", "research", "fact_check"}
FastTasks == {"fact_lookup", "extraction", "classification", "translation", "rewriting",
              "summarization", "completion", "general_conversation"}
OtherTasks == {"explanation", "creative_generation", "document_generation", "advice", "tutoring",
               "roleplay", "brainstorming", "interview_simulation", "other"}
PrimaryTasks == CodingTasks \cup ReasoningTasks \cup FastTasks \cup OtherTasks
SourceBacked == {"research", "fact_check"}
HighStakesDomains == {"health", "legal", "finance", "cybersecurity"}

\* Enum vocabularies
Domains == HighStakesDomains \cup
    {"general", "software_engineering", "data_science", "mathematics", "science", "education",
     "business", "marketing", "human_resources", "politics", "travel", "creative_writing",
     "personal_advice", "other"}
Capabilities == {"basic_generation", "deep_reasoning", "long_context", "web_search",
    "source_citation", "code_understanding", "code_execution", "structured_output", "tool_use",
    "vision", "audio", "multilingual", "high_creativity", "deterministic_output"}
Modalities == {"text", "code", "image", "audio", "document", "structured_data"}
ModelTypes == {"fast_model", "general_model", "reasoning_model", "coding_model",
               "long_context_model", "multimodal_model", "safety_specialized_model"}
ProxyTools == {"web_search", "browser", "code_interpreter", "calculator", "database",
               "file_reader", "image_analyzer", "speech_to_text"}
ComplexityRank == [low |-> 0, medium |-> 1, high |-> 2]
RiskRank == [low |-> 0, medium |-> 1, high |-> 2, restricted |-> 3]
FreshnessRank == [not_required |-> 0, recent |-> 1, real_time |-> 2]
LatencyPreferences == {"fast", "normal", "quality_first"}
NoText == "null"

(***************************************************************************)
(* normalize                                                               *)
(***************************************************************************)

ClampConfidence(n) == IF n < 0 THEN 0 ELSE IF n > 100 THEN 100 ELSE n

\* A field that is missing or not in the taxonomy gets its default.
Normalize(raw) ==
    LET Field(f, allowed, default) ==
            IF f \in DOMAIN raw THEN IF raw[f] \in allowed THEN raw[f] ELSE default ELSE default
        ListField(f, allowed) == IF f \in DOMAIN raw THEN raw[f] \cap allowed ELSE {}
        Text(f, default) == IF f \in DOMAIN raw THEN raw[f] ELSE default
        task == Field("primary_task", PrimaryTasks, "other")
        modalities == ListField("input_modalities", Modalities)
    IN  [primary_task |-> task,
         secondary_tasks |-> ListField("secondary_tasks", PrimaryTasks) \ {task},
         domain |-> Field("domain", Domains, "general"),
         persona |-> Text("persona", NoText),
         capabilities |-> ListField("capabilities", Capabilities),
         input_modalities |-> IF modalities = {} THEN {"text"} ELSE modalities,
         output_format |-> Text("output_format", "text"),
         complexity |-> Field("complexity", DOMAIN ComplexityRank, "medium"),
         risk |-> Field("risk", DOMAIN RiskRank, "low"),
         freshness |-> Field("freshness", DOMAIN FreshnessRank, "not_required"),
         latency_preference |-> Field("latency_preference", LatencyPreferences, "normal"),
         model_type |-> Field("model_type", ModelTypes, "general_model"),
         tools |-> ListField("tools", ProxyTools),
         use_multi_step_pipeline |-> Field("use_multi_step_pipeline", BOOLEAN, FALSE),
         human_review_recommended |-> Field("human_review_recommended", BOOLEAN, FALSE),
         confidence |-> IF "confidence" \in DOMAIN raw THEN ClampConfidence(raw.confidence) ELSE 30]

(***************************************************************************)
(* applyRoutingRules                                                       *)
(***************************************************************************)

\* TASK_CAPABILITIES and TASK_TOOLS, by what is seeded.
CapabilitySeeds ==
    [basic_generation |-> {"fact_lookup", "explanation", "summarization", "rewriting", "completion",
         "document_generation", "general_conversation", "advice", "tutoring", "other"},
     deep_reasoning |-> ReasoningTasks \cup
        {"debugging", "code_review", "code_refactoring", "technical_design"},
     web_search |-> SourceBacked,
     source_citation |-> SourceBacked,
     code_understanding |-> CodingTasks,
     structured_output |-> {"extraction", "classification"},
     deterministic_output |-> {"mathematics", "classification", "command_generation"},
     multilingual |-> {"translation"},
     high_creativity |-> {"creative_generation", "roleplay", "brainstorming", "interview_simulation"}]
ToolSeeds ==
    [web_search |-> SourceBacked,
     calculator |-> {"mathematics"},
     code_interpreter |-> {"debugging", "code_generation", "code_review", "code_refactoring"}]
GenerationTasks == {"document_generation", "creative_generation", "code_generation",
                    "technical_design", "planning", "decision_support"}
ArtifactFormats == {"report", "essay", "document", "slides", "letter", "email", "table"}
StructuredFormats == {"json", "xml", "yaml", "csv", "table", "structured"}

TasksOf(c) == c.secondary_tasks \cup {c.primary_task}
Seeded(seeds, tasks) == {x \in DOMAIN seeds : seeds[x] \cap tasks # {}}
Where(condition, x) == IF condition THEN {x} ELSE {}

\* Rule 10
NeedsSources(c) == TasksOf(c) \cap SourceBacked # {} \/ "source_citation" \in c.capabilities
NeedsSearch(c) == NeedsSources(c) \/ c.freshness # "not_required"

RoutedCapabilities(c, ctx) ==
    c.capabilities \cup Seeded(CapabilitySeeds, TasksOf(c))
        \cup Where(NeedsSearch(c), "web_search")
        \cup Where(NeedsSources(c), "source_citation")
        \cup Where("image" \in c.input_modalities, "vision")
        \cup Where("audio" \in c.input_modalities, "audio")
        \cup Where("structured_data" \in c.input_modalities \/ c.output_format \in StructuredFormats,
                   "structured_output")
        \cup Where("code" \in c.input_modalities, "code_understanding")
        \cup Where(ctx.hasToolDefinitions, "tool_use")
        \cup Where(ctx.hasLargeInput, "long_context")

RoutedTools(c) ==
    c.tools \cup Seeded(ToolSeeds, {c.primary_task})
        \cup Where(NeedsSearch(c), "web_search")
        \cup Where("image" \in c.input_modalities, "image_analyzer")
        \cup Where("audio" \in c.input_modalities, "speech_to_text")
        \cup Where("document" \in c.input_modalities, "file_reader")

\* Rule 17
MultiStep(c) ==
    \/ c.use_multi_step_pipeline
    \/ Cardinality(c.secondary_tasks) >= 2
    \/ /\ TasksOf(c) \cap SourceBacked # {}
       /\ TasksOf(c) \cap GenerationTasks # {} \/ c.output_format \in ArtifactFormats
    \/ c.secondary_tasks # {} /\ c.complexity = "high"

\* Rule 18
HumanReview(c, ctx) ==
    LET sensitive == c.domain \in HighStakesDomains IN
    \/ c.human_review_recommended
    \/ c.risk = "restricted"
    \/ c.risk = "high" /\ (sensitive \/ ctx.safetySensitive)
    \/ sensitive /\ c.complexity = "high"
    \/ sensitive /\ c.complexity # "low" /\ TasksOf(c) \cap {"advice", "decision_support"} # {}

\* Rules 13 to 16; the first three are requirements, not preferences.
HardOverrides == {"safety_specialized_model", "multimodal_model", "long_context_model"}

TypeByTask(c) ==
    CASE c.primary_task \in CodingTasks ->
            IF c.primary_task = "code_completion" /\ c.complexity = "low" THEN "fast_model" ELSE "coding_model"
      [] c.primary_task \in ReasoningTasks ->
            IF c.primary_task # "mathematics" /\ c.complexity = "low" THEN "general_model" ELSE "reasoning_model"
      [] c.primary_task \in FastTasks ->
            IF c.complexity = "high" THEN "general_model" ELSE "fast_model"
      [] OTHER -> IF c.complexity = "high" THEN "reasoning_model" ELSE "general_model"

DeriveModelType(c, caps) ==
    IF c.risk = "restricted" THEN "safety_specialized_model"
    ELSE IF c.input_modalities \cap {"image", "audio"} # {} \/ caps \cap {"vision", "audio"} # {}
    THEN "multimodal_model"
    ELSE IF "long_context" \in caps THEN "long_context_model"
    ELSE TypeByTask(c)

ChosenModelType(c, ctx) ==
    LET derived == DeriveModelType(c, RoutedCapabilities(c, ctx))
    IN  IF ctx.forceModelType \/ derived \in HardOverrides THEN derived ELSE c.model_type

\* The generic tiers never serve a high-stakes request.
RoutedModelType(c, ctx) ==
    IF ChosenModelType(c, ctx) \in {"fast_model", "general_model"}
        /\ (c.risk = "high" \/ HumanReview(c, ctx))
    THEN "reasoning_model" ELSE ChosenModelType(c, ctx)

RoutedLatency(c, ctx) ==
    IF HumanReview(c, ctx) \/ c.risk = "restricted" THEN "quality_first"
    ELSE IF MultiStep(c) /\ c.latency_preference = "fast" THEN "normal"
    ELSE c.latency_preference

ApplyRoutingRules(classification, ctx) ==
    LET c == Normalize(classification)
    IN  [c EXCEPT !.capabilities = RoutedCapabilities(c, ctx),
                  !.latency_preference = RoutedLatency(c, ctx),
                  !.model_type = RoutedModelType(c, ctx),
                  !.tools = RoutedTools(c),
                  !.use_multi_step_pipeline = MultiStep(c),
                  !.human_review_recommended = HumanReview(c, ctx)]
===============================================================================
