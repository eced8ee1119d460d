---------------------------- MODULE AnswerProofs ----------------------------
(***************************************************************************)
(* Proofs about the answer to a request: that the classification keeps an  *)
(* image that was sent and the review it asks for (Pipeline), that each    *)
(* usage is attributed to one request, whatever the number of requests     *)
(* that share lastClassifierUsage, their modes, timeouts and late answers  *)
(* (Classifier), that no available model suits the request better than the *)
(* one selected (Routing), and that its stream is well formed and complete *)
(* (Streams); for every catalog, set of preferences and requests, and for  *)
(* streams of any length.                                                  *)
(***************************************************************************)
EXTENDS Pipeline, Classifier, Routing, Streams, SequenceTheorems, SumTheorems

-----------------------------------------------------------------------------
(***************************************************************************)
(* The classification: human review.                                       *)
(***************************************************************************)

\* What the routing rules make of a classification.
LEMMA RoutedFields ==
    ASSUME NEW x, NEW ctx
    PROVE  LET c == Normalize(x)
               ruled == ApplyRoutingRules(x, ctx)
           IN  /\ ruled.human_review_recommended = HumanReview(c, ctx)
               /\ ruled.latency_preference = RoutedLatency(c, ctx)
               /\ ruled.model_type = RoutedModelType(c, ctx)
               /\ ruled.confidence = c.confidence
               /\ ruled.input_modalities = c.input_modalities
               /\ {"human_review_recommended", "latency_preference", "model_type", "confidence"}
                    \subseteq DOMAIN ruled
<1> DEFINE c == Normalize(x)
<1>1. DOMAIN c = {"primary_task", "secondary_tasks", "domain", "persona", "capabilities",
                  "input_modalities", "output_format", "complexity", "risk", "freshness",
                  "latency_preference", "model_type", "tools", "use_multi_step_pipeline",
                  "human_review_recommended", "confidence"}
    BY DEF Normalize
<1> HIDE DEF c
<1> QED BY <1>1 DEF ApplyRoutingRules, c

\* A classification that recommends review is one for a model that can stand it.
LEMMA ReviewIsServed ==
    ASSUME NEW x, NEW ctx, ApplyRoutingRules(x, ctx).human_review_recommended
    PROVE  /\ ApplyRoutingRules(x, ctx).latency_preference = "quality_first"
           /\ ApplyRoutingRules(x, ctx).model_type \notin {"fast_model", "general_model"}
<1> DEFINE c == Normalize(x)
<1> HIDE DEF c
<1>1. HumanReview(c, ctx)
    BY RoutedFields, Zenon DEF c
<1>2. RoutedLatency(c, ctx) = "quality_first"
    BY <1>1 DEF RoutedLatency
<1>3. RoutedModelType(c, ctx) \notin {"fast_model", "general_model"}
    BY <1>1 DEF RoutedModelType
<1> QED BY <1>2, <1>3, RoutedFields DEF c

\* One clear signal is enough.
LEMMA FlagSurvivesFusion ==
    ASSUME NEW sigs, Flagged(sigs, "human_review_recommended")
    PROVE  Fuse(sigs).human_review_recommended
<1> DEFINE fused == FusedClassification(sigs)
           ctx == FusedContext(sigs)
<1>1. Fuse(sigs) = ApplyRoutingRules(fused, ctx)
    BY DEF Fuse
<1>2. fused.human_review_recommended = Flagged(sigs, "human_review_recommended")
      /\ "human_review_recommended" \in DOMAIN fused
    BY DEF FusedClassification
<1>3. Flagged(sigs, "human_review_recommended") = TRUE
    OBVIOUS
<1> HIDE DEF fused, ctx
<1>4. Normalize(fused).human_review_recommended = TRUE
    BY <1>2, <1>3 DEF Normalize
<1>5. HumanReview(Normalize(fused), ctx)
    BY <1>4 DEF HumanReview
<1> QED BY <1>1, <1>5, RoutedFields

\* Where the signals and the result come from: only in mode "auto" are they
\* fused; the signals in mode "jev" stay out of it.
ReviewInv ==
    /\ stage \in {"new", "failed"} \/ path = "jev" => signals = <<>>
    /\ stage = "voted" => path = "auto" /\ result = Fuse(signals)

LEMMA FusionHonours ==
    ASSUME NEW sigs, Flagged(sigs, "human_review_recommended")
    PROVE  /\ Fuse(sigs).human_review_recommended
           /\ Fuse(sigs).latency_preference = "quality_first"
           /\ Fuse(sigs).model_type \notin {"fast_model", "general_model"}
<1>1. PICK fused, ctx : Fuse(sigs) = ApplyRoutingRules(fused, ctx)
    BY DEF Fuse
<1>2. ApplyRoutingRules(fused, ctx).human_review_recommended
    BY <1>1, FlagSurvivesFusion, Zenon
<1> QED BY <1>1, <1>2, ReviewIsServed

LEMMA LlmHonours ==
    ASSUME NEW r, NEW reply, LlmSignal(r, reply).c.human_review_recommended
    PROVE  /\ LlmSignal(r, reply).c.latency_preference = "quality_first"
           /\ LlmSignal(r, reply).c.model_type \notin {"fast_model", "general_model"}
<1> DEFINE ctx == [NoContext(FALSE) EXCEPT !.hasToolDefinitions = r.toolsDefined]
           c == ApplyRoutingRules(reply, ctx)
<1>1. LlmSignal(r, reply).c = IF c.confidence < 85 THEN [c EXCEPT !.confidence = 85] ELSE c
    BY DEF LlmSignal
<1>2. LlmSignal(r, reply).c.human_review_recommended = c.human_review_recommended
      /\ LlmSignal(r, reply).c.latency_preference = c.latency_preference
      /\ LlmSignal(r, reply).c.model_type = c.model_type
    <2>1. {"human_review_recommended", "latency_preference", "model_type"} \subseteq DOMAIN c
        <3> HIDE DEF ctx
        <3> QED BY RoutedFields
    <2> HIDE DEF c
    <2>2. CASE c.confidence < 85
        BY <1>1, <2>1, <2>2
    <2>3. CASE ~(c.confidence < 85)
        BY <1>1, <2>3
    <2> QED BY <2>2, <2>3
<1>3. c.human_review_recommended
    BY <1>2, Zenon
<1>4. c.latency_preference = "quality_first" /\ c.model_type \notin {"fast_model", "general_model"}
    <2> HIDE DEF ctx
    <2> QED BY <1>3, ReviewIsServed
<1> QED BY <1>2, <1>4

\* One clear recommendation of human review is honoured, whatever the other
\* classifiers vote, for any requests, examples, answers and weights.
THEOREM ReviewHonoured == PipelineSpec => []ReviewIsHonoured
<1> DEFINE Honoured(c) == /\ c.human_review_recommended
                          /\ c.latency_preference = "quality_first"
                          /\ c.model_type \notin {"fast_model", "general_model"}
           Inv == ReviewInv /\ ReviewIsHonoured
<1>1. PipelineInit => Inv
    BY DEF PipelineInit, ReviewInv, ReviewIsHonoured
<1>2. Inv /\ [PipelineNext]_pipelineVars => Inv'
    <2> SUFFICES ASSUME Inv, [PipelineNext]_pipelineVars PROVE Inv'
        OBVIOUS
    <2> USE DEF ReviewInv, ReviewIsHonoured
    <2>1. ASSUME NEW near \in Nearby, VoteFree(near) PROVE Inv'
        <3>1. stage' = "voted" /\ path' = "auto" /\ result' = Fuse(signals')
            BY <2>1 DEF VoteFree
        <3>2. ASSUME NEW i \in DOMAIN signals',
                     signals'[i].c.human_review_recommended, signals'[i].c.confidence > 30
              PROVE  Honoured(result')
            <4>1. Flagged(signals', "human_review_recommended")
                BY <3>2, Zenon DEF Flagged
            <4> QED BY <3>1, <4>1, FusionHonours
        <3> QED BY <3>1, <3>2
    <2>2. CASE SureEnough
        BY <2>2 DEF SureEnough
    <2>3. CASE Shortcut
        <3>1. PICK fused, ctx : result = ApplyRoutingRules(fused, ctx)
            BY <2>3 DEF Shortcut, Fuse
        <3>2. {"human_review_recommended", "latency_preference", "model_type"} \subseteq DOMAIN result
            BY <3>1, RoutedFields
        <3>3. /\ result'.human_review_recommended = result.human_review_recommended
              /\ result'.latency_preference = result.latency_preference
              /\ result'.model_type = result.model_type
            BY <2>3, <3>2 DEF Shortcut
        <3>4. stage = "voted" /\ stage' = "settled" /\ signals' = signals /\ path' = path
            BY <2>3 DEF Shortcut
        <3> QED BY <3>3, <3>4, Zenon
    <2>4. CASE KeepFused
        BY <2>4 DEF KeepFused, Uncertain
    <2>5. CASE JevDegrades
        BY <2>5 DEF JevDegrades
    <2>6. CASE Throws
        BY <2>6 DEF Throws
    <2>7. ASSUME NEW reply \in Answers, Refine(reply) PROVE Inv'
        <3>1. stage' = "settled" /\ path' = "auto" /\ result' = Fuse(signals')
            BY <2>7 DEF Refine, Uncertain
        <3>2. ASSUME NEW i \in DOMAIN signals',
                     signals'[i].c.human_review_recommended, signals'[i].c.confidence > 30
              PROVE  Honoured(result')
            <4>1. Flagged(signals', "human_review_recommended")
                BY <3>2, Zenon DEF Flagged
            <4> QED BY <3>1, <4>1, FusionHonours
        <3> QED BY <3>1, <3>2
    <2>8. ASSUME NEW reply \in Answers, LlmOnly(reply) PROVE Inv'
        <3>1. /\ stage' = "settled" /\ path' = "llm" /\ signals' = <<LlmSignal(seen, reply)>>
              /\ result' = LlmSignal(seen, reply).c
            BY <2>8 DEF LlmOnly
        <3>2. ASSUME NEW i \in DOMAIN signals', signals'[i].c.human_review_recommended
              PROVE  Honoured(result')
            <4>1. i = 1 /\ signals'[i].c = LlmSignal(seen, reply).c
                BY <3>1
            <4>2. LlmSignal(seen, reply).c.human_review_recommended
                BY <3>2, <4>1, Zenon
            <4> QED BY <3>1, <4>2, LlmHonours
        <3> QED BY <3>1, <3>2
    <2>9. ASSUME NEW reply \in Answers, JevOnly(reply) PROVE Inv'
        BY <2>9 DEF JevOnly
    <2>10. CASE UNCHANGED pipelineVars
        BY <2>10 DEF pipelineVars
    <2> QED BY <2>1, <2>2, <2>3, <2>4, <2>5, <2>6, <2>7, <2>8, <2>9, <2>10 DEF PipelineNext
<1> QED BY <1>1, <1>2, PTL DEF PipelineSpec
-----------------------------------------------------------------------------
(***************************************************************************)
(* Images.  How sure the classifiers are decides what their votes weigh.   *)
(***************************************************************************)

Sources == {"rule", "embedding", "profile", "llm"}

LEMMA HalfIsInt == ASSUME NEW condition PROVE Half(condition) \in {0, 1}
BY DEF Half

\* The smaller of two numbers.
LEMMA SmallerOfTwo ==
    ASSUME NEW a \in Int, NEW b \in Int
    PROVE  Min({a, b}) = IF a <= b THEN a ELSE b
<1>1. \E x \in {a, b} : \A y \in {a, b} : x =< y
    OBVIOUS
<1> QED BY <1>1 DEF Min

LEMMA ConfidenceClamped ==
    ASSUME NEW x, "confidence" \in DOMAIN x, x.confidence \in Int
    PROVE  /\ Normalize(x).confidence \in 0..100
           /\ x.confidence \in 0..100 => Normalize(x).confidence = x.confidence
BY DEF Normalize, ClampConfidence

\* The table of tasks says how sure a keyword makes.
LEMMA PatternConfidence ==
    /\ DOMAIN TaskPatterns = 1..32
    /\ \A i \in 1..32 : TaskPatterns[i][3] \in 70..90
BY DEF TaskPatterns

LEMMA ScoreBounded ==
    ASSUME NEW r \in Seen, NEW i \in Matches(r)
    PROVE  Score(r, i) \in 50..95 /\ Hits(r, i) \in Nat
<1> DEFINE hits == r.hits[TaskPatterns[i][1]].last
           score == TaskPatterns[i][3] + (IF hits > 0 THEN 5 + 2 * Min({hits - 1, 3}) ELSE -20)
<1>1. TaskPatterns[i][3] \in 70..90 /\ TaskPatterns[i][1] \in DOMAIN r.hits
    BY PatternConfidence DEF Matches
<1>2. hits \in Nat /\ r.hits[TaskPatterns[i][1]].recent \in Nat
    BY <1>1, SeenAssumption
<1>3. score \in Int /\ score >= 50
    <2>1. CASE hits > 0
        <3>1. hits - 1 \in Int /\ Min({hits - 1, 3}) = IF hits - 1 <= 3 THEN hits - 1 ELSE 3
            BY <1>2, SmallerOfTwo
        <3>2. Min({hits - 1, 3}) \in 0..3
            BY <1>2, <2>1, <3>1
        <3> QED BY <1>1, <2>1, <3>2
    <2>2. CASE ~(hits > 0)
        BY <1>1, <2>2
    <2> QED BY <2>1, <2>2
<1>4. Score(r, i) = Min({score, 95})
    BY DEF Score
<1>5. Min({score, 95}) \in 50..95
    <2> HIDE DEF score
    <2> QED BY <1>3, SmallerOfTwo
<1> QED BY <1>2, <1>4, <1>5 DEF Hits

\* One of the matching rows comes before all others.
LEMMA BestMatch ==
    ASSUME NEW r \in Seen, Matches(r) # {}
    PROVE  \E m \in Matches(r) : \A j \in Matches(r) \ {m} : Before(r, m, j)
<1> DEFINE M == Matches(r)
           score == [i \in M |-> Score(r, i)]
           hits == [i \in M |-> Hits(r, i)]
           scores == {score[i] : i \in M}
<1>1. M \subseteq 1..32 /\ IsFiniteSet(M)
    <2>1. M \subseteq 1..32
        BY PatternConfidence DEF Matches
    <2>2. IsFiniteSet(1..32)
        <3>1. 1 \in Int /\ 32 \in Int
            OBVIOUS
        <3> QED BY <3>1, FS_Interval, Zenon
    <2> HIDE DEF M
    <2> QED BY <2>1, <2>2, FS_Subset
<1>2. /\ \A i \in M : score[i] = Score(r, i) /\ score[i] \in Nat
      /\ \A i \in M : hits[i] = Hits(r, i) /\ hits[i] \in Nat
    BY ScoreBounded
<1> HIDE DEF M, score, hits
<1>3. M # {} /\ scores \in SUBSET Nat /\ IsFiniteSet(scores) /\ scores # {}
    BY <1>1, <1>2, FiniteImage DEF M
<1>4. PICK s \in scores : \A t \in scores : t <= s
    <2> HIDE DEF scores
    <2> QED BY <1>3, LargestNat
<1> DEFINE M1 == {i \in M : score[i] = s}
           counts == {hits[i] : i \in M1}
<1>5. M1 # {} /\ M1 \subseteq M /\ \A i \in M1, j \in M : score[i] >= score[j]
    BY <1>2, <1>4
<1>6. counts \in SUBSET Nat /\ IsFiniteSet(counts) /\ counts # {}
    <2>1. IsFiniteSet(M1)
        BY <1>1, FS_Subset
    <2>2. IsFiniteSet(counts)
        <3> HIDE DEF M1
        <3> QED BY <2>1, FiniteImage
    <2> QED BY <1>2, <1>5, <2>2
<1>7. PICK h \in counts : \A k \in counts : k <= h
    <2> HIDE DEF counts
    <2> QED BY <1>6, LargestNat
<1> DEFINE M2 == {i \in M1 : hits[i] = h}
<1>8. M2 # {} /\ M2 \in SUBSET Nat
    BY <1>1, <1>7
<1>9. PICK m \in M2 : \A k \in M2 : m <= k
    <2> HIDE DEF M2
    <2> QED BY <1>8, LeastNat
<1>10. ASSUME NEW j \in M \ {m} PROVE Before(r, m, j)
    <2>1. m \in M /\ m \in M1 /\ score[m] >= score[j]
        BY <1>5, <1>9
    <2>2. CASE score[j] # score[m]
        BY <1>2, <2>1, <2>2 DEF Before
    <2>3. CASE score[j] = score[m]
        <3>1. j \in M1 /\ hits[j] <= hits[m]
            BY <1>7, <1>9, <2>1, <2>3
        <3>2. CASE hits[j] # hits[m]
            BY <1>2, <2>1, <2>3, <3>1, <3>2 DEF Before
        <3>3. CASE hits[j] = hits[m]
            <4>1. j \in M2 /\ m <= j /\ m \in Nat /\ j \in Nat
                BY <1>8, <1>9, <3>1, <3>3
            <4> QED BY <1>2, <2>1, <2>3, <3>3, <4>1 DEF Before
        <3> QED BY <3>2, <3>3
    <2> QED BY <2>2, <2>3
<1> QED BY <1>5, <1>9, <1>10 DEF M

\* The rules are never less sure than of a request without keywords.
LEMMA RuleConfidence ==
    ASSUME NEW r \in Seen
    PROVE  RuleTask(r)[3] \in 30..95
<1>1. ByShape(r)[3] \in 30..95
    BY DEF ByShape
<1>2. ASSUME Matches(r) # {} PROVE ByKeyword(r)[3] \in 30..95
    <2> DEFINE i == CHOOSE m \in Matches(r) : \A j \in Matches(r) \ {m} : Before(r, m, j)
    <2>1. i \in Matches(r)
        BY <1>2, BestMatch
    <2> HIDE DEF i
    <2>2. Score(r, i) \in 50..95 /\ Min({Score(r, i), 60}) \in 50..60
        BY <2>1, ScoreBounded, SmallerOfTwo
    <2>3. \/ ByKeyword(r) = <<"analysis", "medium", Min({Score(r, i), 60})>>
          \/ ByKeyword(r) = <<TaskPatterns[i][1], TaskPatterns[i][2], Score(r, i)>>
        BY DEF ByKeyword, i
    <2> QED BY <2>2, <2>3
<1> QED BY <1>1, <1>2 DEF RuleTask

\* What a classifier says, as far as the vote on images is concerned.
Heard(signal) == signal.source \in Sources /\ signal.c.confidence \in 0..100

LEMMA RuleSeesImages ==
    ASSUME NEW r \in Seen
    PROVE  /\ RuleSignal(r).source = "rule"
           /\ RuleSignal(r).c.confidence \in 30..100
           /\ r.images => "image" \in RuleSignal(r).c.input_modalities
<1> DEFINE raw == RuleClassification(r)
           ctx == Context(r, TRUE)
<1>1. /\ RuleSignal(r).c = ApplyRoutingRules(raw, ctx)
      /\ {"confidence", "input_modalities"} \subseteq DOMAIN raw
      /\ raw.confidence = RuleTask(r)[3]
      /\ raw.input_modalities = DetectInputModalities(r)
    BY DEF RuleSignal, RuleClassification, ExtractSignals
<1> HIDE DEF raw, ctx
<1>2. RuleTask(r)[3] \in 30..95
    BY RuleConfidence
<1>3. Normalize(raw).confidence = RuleTask(r)[3]
    BY <1>1, <1>2, ConfidenceClamped
<1>4. ASSUME r.images PROVE "image" \in Normalize(raw).input_modalities
    <2>1. "image" \in raw.input_modalities
        BY <1>1, <1>4 DEF DetectInputModalities, Where
    <2> QED BY <1>1, <2>1 DEF Normalize, Modalities
<1>5. RuleSignal(r).source = "rule"
    BY DEF RuleSignal
<1> QED BY <1>1, <1>2, <1>3, <1>4, <1>5, RoutedFields

LEMMA ProfileHeard == ASSUME NEW r PROVE Heard(ProfileSignal(r))
<1> DEFINE raw == ProfileClassification(r)
           ctx == Context(r, FALSE)
<1>1. /\ ProfileSignal(r).c = [ApplyRoutingRules(raw, ctx) EXCEPT !.model_type = "general_model"]
      /\ "confidence" \in DOMAIN raw /\ raw.confidence = ProfileConfidence(r)
    BY DEF ProfileSignal, ProfileClassification
<1> HIDE DEF raw, ctx
<1>2. ProfileConfidence(r) \in Int
    <2> DEFINE active == Half(r.length > 100) + Half(r.recentTools \/ r.toolsDefined) + Half(r.images)
                + Half(r.turns > 2) + Half(r.system # "minimal") + Half(LargeInput(r))
                + Half("code" \in DetectInputModalities(r))
    <2>1. active \in Int
        BY HalfIsInt
    <2>2. ProfileConfidence(r) = 50 \/ ProfileConfidence(r) = Min({12 * active, 55})
        BY DEF ProfileConfidence
    <2> HIDE DEF active
    <2>3. 12 * active \in Int /\ Min({12 * active, 55}) \in Int
        BY <2>1, SmallerOfTwo
    <2> QED BY <2>2, <2>3
<1>3. Normalize(raw).confidence \in 0..100
    BY <1>1, <1>2, ConfidenceClamped
<1>4. ProfileSignal(r).source = "profile"
    BY DEF ProfileSignal
<1> QED BY <1>1, <1>3, <1>4, RoutedFields DEF Heard, Sources

LEMMA EmbeddingHeard == ASSUME NEW near \in Nearby PROVE Heard(EmbeddingSignal(near))
<1>1. EmbeddingSignal(near).source = "embedding"
    BY DEF EmbeddingSignal
<1>2. CASE near = <<>> \/ near[1].w < 25
    <2>1. EmbeddingSignal(near).c = Normalize([confidence |-> 5])
        BY <1>2 DEF EmbeddingSignal
    <2>2. Normalize([confidence |-> 5]).confidence \in 0..100
        BY ConfidenceClamped
    <2> QED BY <1>1, <2>1, <2>2 DEF Heard, Sources
<1>3. CASE ~(near = <<>> \/ near[1].w < 25)
    <2> DEFINE bonus == IF Cardinality({near[i].c.primary_task : i \in DOMAIN near}) = 1 THEN 5 ELSE 0
               sure == (85 * near[1].w) \div 100 + bonus
    <2>1. EmbeddingSignal(near).c =
              [ApplyRoutingRules(NearVote(near), NoContext(TRUE)) EXCEPT !.confidence = Min({sure, 85})]
        BY <1>3 DEF EmbeddingSignal
    <2>2. near[1].w \in Nat /\ near[1].w >= 25 /\ bonus \in {0, 5}
        BY <1>3, NearbyAssumption
    <2> HIDE DEF bonus
    <2>3. sure \in Nat
        BY <2>2
    <2>4. Min({sure, 85}) \in 0..85
        <3> HIDE DEF sure
        <3>1. sure \in Int /\ 85 \in Int
            BY <2>3
        <3>2. Min({sure, 85}) = IF sure <= 85 THEN sure ELSE 85
            BY <3>1, SmallerOfTwo
        <3> QED BY <2>3, <3>2
    <2>5. EmbeddingSignal(near).c.confidence = Min({sure, 85})
        <3> DEFINE c == ApplyRoutingRules(NearVote(near), NoContext(TRUE))
        <3>1. "confidence" \in DOMAIN c
            BY RoutedFields
        <3> HIDE DEF c, sure
        <3>2. EmbeddingSignal(near).c = [c EXCEPT !.confidence = Min({sure, 85})]
            BY <2>1 DEF c, sure
        <3> QED BY <3>1, <3>2
    <2> QED BY <1>1, <2>4, <2>5 DEF Heard, Sources
<1> QED BY <1>2, <1>3

LEMMA LlmHeard == ASSUME NEW r, NEW reply \in Answers PROVE Heard(LlmSignal(r, reply))
<1> DEFINE ctx == [NoContext(FALSE) EXCEPT !.hasToolDefinitions = r.toolsDefined]
           c == ApplyRoutingRules(reply, ctx)
<1>1. LlmSignal(r, reply).c = (IF c.confidence < 85 THEN [c EXCEPT !.confidence = 85] ELSE c)
      /\ LlmSignal(r, reply).source = "llm"
    BY DEF LlmSignal
<1>2. Normalize(reply).confidence \in 0..100
    <2>1. CASE "confidence" \in DOMAIN reply
        BY <2>1, AnswersAssumption, ConfidenceClamped
    <2>2. CASE "confidence" \notin DOMAIN reply
        BY <2>2 DEF Normalize
    <2> QED BY <2>1, <2>2
<1>3. c.confidence \in 0..100 /\ "confidence" \in DOMAIN c
    <2> HIDE DEF ctx
    <2> QED BY <1>2, RoutedFields
<1> HIDE DEF c
<1>4. CASE c.confidence < 85
    BY <1>1, <1>3, <1>4 DEF Heard, Sources
<1>5. CASE ~(c.confidence < 85)
    BY <1>1, <1>3, <1>5 DEF Heard, Sources
<1> QED BY <1>4, <1>5

\* The weights of the code: a rule at 0.25 and the others at no more than 0.30.
\* The rules, when they are least sure (0.30), then have a quarter of the weight
\* of any other who is sure, which is what the vote on modalities asks for.
RulesWeighEnough == \A s \in Sources : 5 * Weights[s] <= 6 * Weights["rule"]

LEMMA LargestWeight ==
    ASSUME NEW S \in SUBSET Nat, IsFiniteSet(S), S # {}
    PROVE  Max(S) \in S /\ \A n \in S : n <= Max(S)
<1>1. \E m \in S : \A n \in S : m >= n
    <2>1. PICK m \in S : \A n \in S : n <= m
        BY LargestNat
    <2> QED BY <2>1
<1> QED BY <1>1 DEF Max

LEMMA ProductMonotone ==
    ASSUME NEW w \in Nat, NEW a \in Nat, NEW b \in Nat, a <= b
    PROVE  w * a \in Nat /\ w * a <= w * b
OBVIOUS

\* An image that the rules see survives the vote of any number of others.
LEMMA ImageSurvivesVote ==
    ASSUME RulesWeighEnough,
           NEW sigs, IsFiniteSet(DOMAIN sigs), \A i \in DOMAIN sigs : Heard(sigs[i]),
           NEW k \in DOMAIN sigs, sigs[k].source = "rule", sigs[k].c.confidence >= 30,
           "image" \in sigs[k].c.input_modalities
    PROVE  "image" \in FusedModalities(Ballots(sigs))
<1> DEFINE ballots == Ballots(sigs)
           w == [i \in DOMAIN sigs |-> ballots[i].w]
           voters(v) == {i \in DOMAIN sigs : v \in ballots[i].c["input_modalities"]}
           weights(v) == {w[i] : i \in voters(v)}
           sure(i) == IF sigs[i].c.confidence < 5 THEN 5 ELSE sigs[i].c.confidence
           values == Values(ballots, "input_modalities")
<1>1. /\ DOMAIN ballots = DOMAIN sigs
      /\ \A i \in DOMAIN sigs : /\ w[i] = Weights[sigs[i].source] * sure(i)
                                /\ ballots[i].c = sigs[i].c
    BY DEF Ballots
<1>2. \A i \in DOMAIN sigs : sure(i) \in 5..100 /\ Weights[sigs[i].source] \in Nat
    BY WeightsAssumption DEF Heard, Sources
<1> HIDE DEF ballots, w, sure
<1>3. \A i \in DOMAIN sigs : w[i] \in Nat /\ w[i] <= Weights[sigs[i].source] * 100
    <2> SUFFICES ASSUME NEW i \in DOMAIN sigs
                 PROVE  w[i] \in Nat /\ w[i] <= Weights[sigs[i].source] * 100
        OBVIOUS
    <2>1. sure(i) \in Nat /\ sure(i) <= 100 /\ Weights[sigs[i].source] \in Nat
        BY <1>2
    <2>2. Weights[sigs[i].source] * sure(i) \in Nat
          /\ Weights[sigs[i].source] * sure(i) <= Weights[sigs[i].source] * 100
        BY <2>1, ProductMonotone
    <2> QED BY <1>1, <2>2
<1>4. Weights["rule"] * 30 <= w[k]
    <2>1. sure(k) \in Nat /\ 30 <= sure(k) /\ Weights["rule"] \in Nat
        BY <1>2, Heard(sigs[k]) DEF sure, Heard
    <2>2. Weights["rule"] * 30 <= Weights["rule"] * sure(k)
        BY <2>1, ProductMonotone
    <2> QED BY <1>1, <2>2
<1>5. ASSUME NEW v, voters(v) # {}
      PROVE  /\ Max(weights(v)) \in Nat
             /\ \A i \in voters(v) : w[i] <= Max(weights(v))
             /\ \E i \in voters(v) : Max(weights(v)) = w[i]
    <2>1. weights(v) \in SUBSET Nat /\ weights(v) # {}
        BY <1>3, <1>5
    <2>2. IsFiniteSet(weights(v))
        <3>1. IsFiniteSet(voters(v))
            BY FS_Subset
        <3> HIDE DEF voters
        <3> QED BY <3>1, FiniteImage
    <2>3. Max(weights(v)) \in weights(v) /\ \A n \in weights(v) : n <= Max(weights(v))
        <3> HIDE DEF weights
        <3> QED BY <2>1, <2>2, LargestWeight
    <2> QED BY <2>1, <2>3
<1>6. "image" \in values /\ \A v \in values : voters(v) # {}
    BY <1>1 DEF Values
<1>7. k \in voters("image")
    BY <1>1
<1>8. ASSUME NEW v \in values
      PROVE  100 * Max(weights("image")) >= 25 * Max(weights(v))
    <2>1. PICK i \in voters(v) : Max(weights(v)) = w[i]
        BY <1>5, <1>6
    <2>2. Max(weights("image")) \in Nat /\ w[k] <= Max(weights("image"))
        BY <1>5, <1>7
    <2>3. /\ Weights[sigs[i].source] \in Nat /\ Weights["rule"] \in Nat
          /\ 5 * Weights[sigs[i].source] <= 6 * Weights["rule"]
          /\ w[i] \in Nat /\ w[k] \in Nat /\ w[i] <= Weights[sigs[i].source] * 100
        BY <1>3, WeightsAssumption DEF RulesWeighEnough, Heard, Sources
    <2> HIDE DEF weights, voters
    <2> QED BY <1>4, <2>1, <2>2, <2>3
<1>9. FusedModalities(ballots) =
          {v \in values : \A u \in values : 100 * Max(weights(v)) >= 25 * Max(weights(u))}
    <2>1. \A v : weights(v) = {ballots[i].w : i \in {j \in DOMAIN ballots : v \in ballots[j].c["input_modalities"]}}
        BY <1>1 DEF w
    <2> HIDE DEF weights, voters, values
    <2> QED BY <2>1 DEF FusedModalities, UnionLists, values
<1> HIDE DEF values, weights, voters
<1> QED BY <1>6, <1>8, <1>9 DEF ballots

\* A request with an image is for a model that sees, or for the one that is
\* safe.
LEMMA ImageIsRouted ==
    ASSUME NEW x, NEW ctx, "input_modalities" \in DOMAIN x, "image" \in x.input_modalities
    PROVE  ApplyRoutingRules(x, ctx).model_type \in {"multimodal_model", "safety_specialized_model"}
<1> DEFINE c == Normalize(x)
<1>1. "image" \in c.input_modalities
    BY DEF Normalize, Modalities
<1> HIDE DEF c
<1>2. DeriveModelType(c, RoutedCapabilities(c, ctx)) \in {"multimodal_model", "safety_specialized_model"}
    BY <1>1 DEF DeriveModelType
<1>3. RoutedModelType(c, ctx) \in {"multimodal_model", "safety_specialized_model"}
    BY <1>2 DEF RoutedModelType, ChosenModelType, HardOverrides
<1> QED BY <1>3, RoutedFields DEF c

LEMMA FusionSeesImages ==
    ASSUME NEW sigs, "image" \in FusedModalities(Ballots(sigs))
    PROVE  Fuse(sigs).model_type \in {"multimodal_model", "safety_specialized_model"}
<1> DEFINE fused == FusedClassification(sigs)
           ctx == FusedContext(sigs)
<1>1. Fuse(sigs) = ApplyRoutingRules(fused, ctx)
    BY DEF Fuse
<1>2. "input_modalities" \in DOMAIN fused /\ fused.input_modalities = FusedModalities(Ballots(sigs))
    BY DEF FusedClassification
<1> HIDE DEF fused, ctx
<1> QED BY <1>1, <1>2, ImageIsRouted

LEMMA FourthSignal ==
    ASSUME NEW a, NEW b, NEW c, NEW d
    PROVE  LET s == Append(<<a, b, c>>, d)
           IN  DOMAIN s = 1..4 /\ s[1] = a /\ s[2] = b /\ s[3] = c /\ s[4] = d
<1>1. <<a, b, c>> \in Seq({a, b, c, d}) /\ Len(<<a, b, c>>) = 3
    OBVIOUS
<1>2. \A seq \in Seq({a, b, c, d}) :
          /\ Append(seq, d) \in Seq({a, b, c, d}) /\ Len(Append(seq, d)) = Len(seq) + 1
          /\ \A i \in 1..Len(seq) : Append(seq, d)[i] = seq[i]
          /\ Append(seq, d)[Len(seq) + 1] = d
    BY AppendProperties
<1>3. PICK t \in Seq({a, b, c, d}) : t = <<a, b, c>>
    BY <1>1
<1>4. Len(t) = 3 /\ t[1] = a /\ t[2] = b /\ t[3] = c
    BY <1>1, <1>3
<1>5. PICK u \in Seq({a, b, c, d}) :
          /\ u = Append(t, d) /\ Len(u) = Len(t) + 1 /\ u[Len(t) + 1] = d
          /\ \A i \in 1..Len(t) : u[i] = t[i]
    BY <1>2
<1>6. DOMAIN u = 1..4 /\ u[1] = a /\ u[2] = b /\ u[3] = c /\ u[4] = d
    <2>1. Len(u) = 4 /\ u[4] = d /\ \A i \in 1..3 : u[i] = t[i]
        BY <1>4, <1>5
    <2> QED BY <1>4, <2>1
<1> QED BY <1>3, <1>5, <1>6

\* A request in mode "auto" has been voted on by the rules, which see it.
ImageInv ==
    /\ seen \in Seen
    /\ stage = "voted" =>
          /\ path = "auto" /\ result = Fuse(signals)
          /\ \E near \in Nearby : signals = <<RuleSignal(seen), EmbeddingSignal(near), ProfileSignal(seen)>>

\* An image is never voted away, for any requests, examples, answers and
\* weights, as long as the weight of the rules is at least five sixths of each
\* other's (0.25 and 0.30 in the code).
THEOREM ImageSeen == RulesWeighEnough => (PipelineSpec => []ImageIsSeen)
<1> SUFFICES ASSUME RulesWeighEnough PROVE PipelineSpec => []ImageIsSeen
    OBVIOUS
<1> DEFINE Inv == ImageInv /\ ImageIsSeen
           Sees == {"multimodal_model", "safety_specialized_model"}
<1>1. PipelineInit => Inv
    BY DEF PipelineInit, ImageInv, ImageIsSeen
<1>2. ASSUME NEW r \in Seen, r.images, NEW near \in Nearby, NEW sigs,
             DOMAIN sigs \in {1..3, 1..4}, sigs[1] = RuleSignal(r),
             \A i \in DOMAIN sigs : sigs[i] \in {RuleSignal(r), EmbeddingSignal(near), ProfileSignal(r)}
                                                 \cup {LlmSignal(r, reply) : reply \in Answers}
      PROVE  Fuse(sigs).model_type \in Sees
    <2>1. \A reply \in Answers : Heard(LlmSignal(r, reply))
        BY LlmHeard
    <2>2. /\ RuleSignal(r).source = "rule" /\ RuleSignal(r).c.confidence \in 30..100
          /\ "image" \in RuleSignal(r).c.input_modalities
          /\ Heard(RuleSignal(r)) /\ Heard(EmbeddingSignal(near)) /\ Heard(ProfileSignal(r))
        BY <1>2, RuleSeesImages, ProfileHeard, EmbeddingHeard DEF Heard, Sources
    <2>3. /\ DOMAIN sigs \in {1..3, 1..4} /\ sigs[1] = RuleSignal(r)
          /\ \A i \in DOMAIN sigs : Heard(sigs[i])
        BY <1>2, <2>1, <2>2
    <2>4. IsFiniteSet(DOMAIN sigs)
        <3>1. 1 \in Int /\ 3 \in Int /\ 4 \in Int
            OBVIOUS
        <3>2. IsFiniteSet(1..3) /\ IsFiniteSet(1..4)
            BY <3>1, FS_Interval, Zenon
        <3> QED BY <2>3, <3>2
    <2>5. 1 \in DOMAIN sigs
        BY <2>3
    <2>6. "image" \in FusedModalities(Ballots(sigs))
        BY <2>2, <2>3, <2>4, <2>5, ImageSurvivesVote
    <2> QED BY <2>6, FusionSeesImages
<1>3. Inv /\ [PipelineNext]_pipelineVars => Inv'
    <2> SUFFICES ASSUME Inv, [PipelineNext]_pipelineVars PROVE Inv'
        OBVIOUS
    <2> USE DEF ImageInv, ImageIsSeen
    <2>1. ASSUME NEW near \in Nearby, VoteFree(near) PROVE Inv'
        <3>1. /\ stage' = "voted" /\ path' = "auto" /\ seen' = seen /\ result' = Fuse(signals')
              /\ signals' = <<RuleSignal(seen), EmbeddingSignal(near), ProfileSignal(seen)>>
            BY <2>1 DEF VoteFree
        <3>2. /\ DOMAIN signals' = 1..3 /\ signals'[1] = RuleSignal(seen)
              /\ \A i \in 1..3 : signals'[i] \in {RuleSignal(seen), EmbeddingSignal(near), ProfileSignal(seen)}
            BY <3>1
        <3>3. seen.images => result'.model_type \in Sees
            BY <1>2, <3>1, <3>2
        <3> QED BY <3>1, <3>3
    <2>2. CASE SureEnough
        BY <2>2 DEF SureEnough
    <2>3. CASE Shortcut
        <3>1. PICK fused, ctx : result = ApplyRoutingRules(fused, ctx)
            BY <2>3 DEF Shortcut, Fuse
        <3>2. "model_type" \in DOMAIN result
            BY <3>1, RoutedFields
        <3>3. result'.model_type = result.model_type
            BY <2>3, <3>2 DEF Shortcut
        <3>4. stage = "voted" /\ stage' = "settled" /\ path' = path /\ seen' = seen
            BY <2>3 DEF Shortcut
        <3> QED BY <3>3, <3>4
    <2>4. CASE KeepFused
        BY <2>4 DEF KeepFused, Uncertain
    <2>5. CASE JevDegrades
        BY <2>5 DEF JevDegrades
    <2>6. CASE Throws
        BY <2>6 DEF Throws
    <2>7. ASSUME NEW reply \in Answers, Refine(reply) PROVE Inv'
        <3>1. /\ stage = "voted" /\ stage' = "settled" /\ seen' = seen /\ result' = Fuse(signals')
              /\ signals' = Append(signals, LlmSignal(seen, reply))
            BY <2>7 DEF Refine, Uncertain
        <3>2. PICK near \in Nearby : signals = <<RuleSignal(seen), EmbeddingSignal(near), ProfileSignal(seen)>>
            BY <3>1
        <3>3. /\ DOMAIN signals' = 1..4 /\ signals'[1] = RuleSignal(seen)
              /\ \A i \in 1..4 : signals'[i] \in {RuleSignal(seen), EmbeddingSignal(near), ProfileSignal(seen),
                                                  LlmSignal(seen, reply)}
            BY <3>1, <3>2, FourthSignal
        <3>4. seen.images => result'.model_type \in Sees
            <4>1. \A i \in DOMAIN signals' :
                      signals'[i] \in {RuleSignal(seen), EmbeddingSignal(near), ProfileSignal(seen)}
                                        \cup {LlmSignal(seen, a) : a \in Answers}
                BY <3>3
            <4>2. DOMAIN signals' \in {1..3, 1..4}
                BY <3>3
            <4>3. ASSUME seen.images PROVE Fuse(signals').model_type \in Sees
                <5> HIDE DEF Sees
                <5> QED BY <1>2, <3>3, <4>1, <4>2, <4>3
            <4> QED BY <3>1, <4>3
        <3> QED BY <3>1, <3>4
    <2>8. ASSUME NEW reply \in Answers, LlmOnly(reply) PROVE Inv'
        BY <2>8 DEF LlmOnly
    <2>9. ASSUME NEW reply \in Answers, JevOnly(reply) PROVE Inv'
        <3>1. stage' = "settled" /\ seen' = seen /\ result' = JevResult(seen, reply)
            BY <2>9 DEF JevOnly
        <3>2. seen.images => JevResult(seen, reply).model_type \in Sees
            <4> DEFINE raw == [f \in (DOMAIN reply \cap JevQuestions) \cup {"input_modalities"} |->
                                  IF f = "input_modalities" THEN {"text"} \cup Where(seen.images, "image")
                                  ELSE reply[f]]
                       ctx == JevContext(seen)
            <4>1. JevResult(seen, reply) = ApplyRoutingRules(raw, ctx)
                BY DEF JevResult
            <4>2. "input_modalities" \in DOMAIN raw /\ (seen.images => "image" \in raw.input_modalities)
                BY DEF Where
            <4> HIDE DEF raw, ctx
            <4> QED BY <4>1, <4>2, ImageIsRouted
        <3> QED BY <3>1, <3>2
    <2>10. CASE UNCHANGED pipelineVars
        BY <2>10 DEF pipelineVars
    <2> QED BY <2>1, <2>2, <2>3, <2>4, <2>5, <2>6, <2>7, <2>8, <2>9, <2>10 DEF PipelineNext
<1> QED BY <1>1, <1>3, PTL DEF PipelineSpec

-----------------------------------------------------------------------------
(***************************************************************************)
(* The usage of the classifier.                                            *)
(***************************************************************************)

Usage == Calls \cup {NoUsage}

\* The types, less the cache: a hit may carry any charge.
ClassifyTypeOK ==
    /\ lastUsage \in Usage
    /\ classify \in [Calls -> [at : CallState, prompt : Prompts]]
    /\ answer \in [Calls -> {"none", "pending", "intime", "late", "error"}]
    /\ DOMAIN charge = Calls
    /\ \A r \in Calls : classify[r].at # "hit" => charge[r] \in Usage

Charged(r, c) == classify[r].at = "done" /\ charge[r] = c

\* A request is charged when it is done, and asks when it begins.
ChargedWhenDone ==
    \A r \in Calls :
        /\ classify[r].at \notin {"done", "hit"} => charge[r] = NoUsage
        /\ classify[r].at = "idle" => answer[r] = "none"

\* No usage before the answer.
UsageIsAnswered ==
    \A c \in Calls : answer[c] \in {"none", "pending"} =>
        /\ lastUsage # c
        /\ \A r \in Calls : ~Charged(r, c)

\* What the field holds has not been priced, and was left behind.
Left(c) == answer[c] = "late" \/ classify[c].at = "failed"
FieldIsUnpriced ==
    \A c \in Calls : lastUsage = c => Left(c) /\ \A r \in Calls : ~Charged(r, c)

PricedOnce == \A c, r, s \in Calls : Charged(r, c) /\ Charged(s, c) => r = s
StrayWasLeft ==
    \A r, c \in Calls : Charged(r, c) /\ c # r => answer[r] # "intime" /\ Left(c)

ClassifierInv ==
    /\ ClassifyTypeOK
    /\ ChargedWhenDone
    /\ UsageIsAnswered
    /\ FieldIsUnpriced
    /\ PricedOnce
    /\ StrayWasLeft
-----------------------------------------------------------------------------
LEMMA InvInit == ClassifierInit => ClassifierInv
BY PromptsAssumption, NoUsageAssumption
DEF ClassifierInit, ClassifierInv, ClassifyTypeOK, ChargedWhenDone, UsageIsAnswered, FieldIsUnpriced,
    PricedOnce, StrayWasLeft, Charged, Left, Usage, CallState

\* A hit may carry any charge, which counts for nothing.
LEMMA HitKeeps ==
    ASSUME ClassifierInv, NEW r \in Calls, NEW p \in Prompts, Hit(r, p)
    PROVE  ClassifierInv'
<1>1. ClassifyTypeOK'
    BY NoUsageAssumption
    DEF ClassifierInv, ClassifyTypeOK, Usage, CallState, ChargedWhenDone, Hit, Begins
<1>2. ChargedWhenDone'
    BY NoUsageAssumption
    DEF ClassifierInv, ClassifyTypeOK, Usage, CallState, ChargedWhenDone, Hit, Begins
<1>3. UsageIsAnswered'
    BY NoUsageAssumption
    DEF ClassifierInv, ClassifyTypeOK, Usage, CallState, ChargedWhenDone,
        UsageIsAnswered, Charged, Hit, Begins
<1>4. FieldIsUnpriced'
    BY NoUsageAssumption
    DEF ClassifierInv, ClassifyTypeOK, Usage, CallState, ChargedWhenDone,
        FieldIsUnpriced, UsageIsAnswered, Charged, Left, Hit, Begins
<1>5. PricedOnce'
    BY NoUsageAssumption
    DEF ClassifierInv, ClassifyTypeOK, Usage, CallState, ChargedWhenDone, PricedOnce,
        UsageIsAnswered, FieldIsUnpriced, Charged, Hit, Begins
<1>6. StrayWasLeft'
    BY NoUsageAssumption
    DEF ClassifierInv, ClassifyTypeOK, Usage, CallState, ChargedWhenDone, StrayWasLeft,
        UsageIsAnswered, FieldIsUnpriced, Charged, Left, Hit, Begins
<1>7. QED BY <1>1, <1>2, <1>3, <1>4, <1>5, <1>6 DEF ClassifierInv

\* Nothing has been priced for who asks now.
LEMMA AskKeeps ==
    ASSUME ClassifierInv, NEW r \in Calls, NEW p \in Prompts, Ask(r, p)
    PROVE  ClassifierInv'
<1>1. ClassifyTypeOK'
    BY NoUsageAssumption
    DEF ClassifierInv, ClassifyTypeOK, Usage, CallState, ChargedWhenDone, Ask, Begins
<1>2. ChargedWhenDone'
    BY NoUsageAssumption
    DEF ClassifierInv, ClassifyTypeOK, Usage, CallState, ChargedWhenDone, Ask, Begins
<1>3. UsageIsAnswered'
    BY NoUsageAssumption
    DEF ClassifierInv, ClassifyTypeOK, Usage, CallState, ChargedWhenDone,
        UsageIsAnswered, Charged, Ask, Begins
<1>4. FieldIsUnpriced'
    BY NoUsageAssumption
    DEF ClassifierInv, ClassifyTypeOK, Usage, CallState, ChargedWhenDone,
        FieldIsUnpriced, UsageIsAnswered, Charged, Left, Ask, Begins
<1>5. PricedOnce'
    BY NoUsageAssumption
    DEF ClassifierInv, ClassifyTypeOK, Usage, CallState, ChargedWhenDone, PricedOnce,
        UsageIsAnswered, FieldIsUnpriced, Charged, Ask, Begins
<1>6. StrayWasLeft'
    BY NoUsageAssumption
    DEF ClassifierInv, ClassifyTypeOK, Usage, CallState, ChargedWhenDone, StrayWasLeft,
        UsageIsAnswered, FieldIsUnpriced, Charged, Left, Ask, Begins
<1>7. QED BY <1>1, <1>2, <1>3, <1>4, <1>5, <1>6 DEF ClassifierInv

\* An answer in time prices its own usage.
LEMMA InTimeKeeps ==
    ASSUME ClassifierInv, NEW r \in Calls, NEW usage \in {r, NoUsage}, AnsweredInTime(r, usage)
    PROVE  ClassifierInv'
<1>1. ClassifyTypeOK'
    BY NoUsageAssumption
    DEF ClassifierInv, ClassifyTypeOK, Usage, CallState, ChargedWhenDone,
        AnsweredInTime, Price, Reset, At, Asking
<1>2. ChargedWhenDone'
    BY NoUsageAssumption
    DEF ClassifierInv, ClassifyTypeOK, Usage, CallState, ChargedWhenDone,
        AnsweredInTime, Price, Reset, At, Asking
<1>3. UsageIsAnswered'
    BY NoUsageAssumption
    DEF ClassifierInv, ClassifyTypeOK, Usage, CallState, ChargedWhenDone,
        UsageIsAnswered, Charged, AnsweredInTime, Price, Reset, At, Asking
<1>4. FieldIsUnpriced'
    BY NoUsageAssumption
    DEF ClassifierInv, ClassifyTypeOK, Usage, CallState, ChargedWhenDone,
        FieldIsUnpriced, UsageIsAnswered, Charged, Left, AnsweredInTime, Price, Reset,
        At, Asking
<1>5. PricedOnce'
    BY NoUsageAssumption
    DEF ClassifierInv, ClassifyTypeOK, Usage, CallState, ChargedWhenDone, PricedOnce,
        UsageIsAnswered, FieldIsUnpriced, Charged, AnsweredInTime, Price, Reset, At,
        Asking
<1>6. StrayWasLeft'
    BY NoUsageAssumption
    DEF ClassifierInv, ClassifyTypeOK, Usage, CallState, ChargedWhenDone, StrayWasLeft,
        UsageIsAnswered, FieldIsUnpriced, Charged, Left, AnsweredInTime, Price, Reset,
        At, Asking
<1>7. QED BY <1>1, <1>2, <1>3, <1>4, <1>5, <1>6 DEF ClassifierInv

\* A result that mode "llm" throws leaves its usage in the field.
LEMMA UnparseableKeeps ==
    ASSUME ClassifierInv, NEW r \in Calls, NEW usage \in {r, NoUsage}, Unparseable(r, usage)
    PROVE  ClassifierInv'
<1>1. ClassifyTypeOK'
    BY NoUsageAssumption
    DEF ClassifierInv, ClassifyTypeOK, Usage, CallState, ChargedWhenDone, Unparseable,
        At
<1>2. ChargedWhenDone'
    BY NoUsageAssumption
    DEF ClassifierInv, ClassifyTypeOK, Usage, CallState, ChargedWhenDone, Unparseable,
        At
<1>3. UsageIsAnswered'
    BY NoUsageAssumption
    DEF ClassifierInv, ClassifyTypeOK, Usage, CallState, ChargedWhenDone,
        UsageIsAnswered, Charged, Unparseable, At
<1>4. FieldIsUnpriced'
    BY NoUsageAssumption
    DEF ClassifierInv, ClassifyTypeOK, Usage, CallState, ChargedWhenDone,
        FieldIsUnpriced, UsageIsAnswered, Charged, Left, Unparseable, At
<1>5. PricedOnce'
    BY NoUsageAssumption
    DEF ClassifierInv, ClassifyTypeOK, Usage, CallState, ChargedWhenDone, PricedOnce,
        UsageIsAnswered, FieldIsUnpriced, Charged, Unparseable, At
<1>6. StrayWasLeft'
    BY NoUsageAssumption
    DEF ClassifierInv, ClassifyTypeOK, Usage, CallState, ChargedWhenDone, StrayWasLeft,
        UsageIsAnswered, FieldIsUnpriced, Charged, Left, Unparseable, At
<1>7. QED BY <1>1, <1>2, <1>3, <1>4, <1>5, <1>6 DEF ClassifierInv

\* A late answer leaves its usage in the field.
LEMMA LateKeeps ==
    ASSUME ClassifierInv, NEW r \in Calls, NEW usage \in {r, NoUsage}, LateAnswer(r, usage)
    PROVE  ClassifierInv'
<1>1. ClassifyTypeOK'
    BY NoUsageAssumption
    DEF ClassifierInv, ClassifyTypeOK, Usage, CallState, ChargedWhenDone, LateAnswer,
        Asking
<1>2. ChargedWhenDone'
    BY NoUsageAssumption
    DEF ClassifierInv, ClassifyTypeOK, Usage, CallState, ChargedWhenDone, LateAnswer,
        Asking
<1>3. UsageIsAnswered'
    BY NoUsageAssumption
    DEF ClassifierInv, ClassifyTypeOK, Usage, CallState, ChargedWhenDone,
        UsageIsAnswered, Charged, LateAnswer, Asking
<1>4. FieldIsUnpriced'
    BY NoUsageAssumption
    DEF ClassifierInv, ClassifyTypeOK, Usage, CallState, ChargedWhenDone,
        FieldIsUnpriced, UsageIsAnswered, Charged, Left, LateAnswer, Asking
<1>5. PricedOnce'
    BY NoUsageAssumption
    DEF ClassifierInv, ClassifyTypeOK, Usage, CallState, ChargedWhenDone, PricedOnce,
        UsageIsAnswered, FieldIsUnpriced, Charged, LateAnswer, Asking
<1>6. StrayWasLeft'
    BY NoUsageAssumption
    DEF ClassifierInv, ClassifyTypeOK, Usage, CallState, ChargedWhenDone, StrayWasLeft,
        UsageIsAnswered, FieldIsUnpriced, Charged, Left, LateAnswer, Asking
<1>7. QED BY <1>1, <1>2, <1>3, <1>4, <1>5, <1>6 DEF ClassifierInv

\* Who goes on without an answer prices what is left in the field.
LEMMA TimesOutKeeps ==
    ASSUME ClassifierInv, NEW r \in Calls, TimesOut(r)
    PROVE  ClassifierInv'
<1>1. ClassifyTypeOK'
    BY NoUsageAssumption
    DEF ClassifierInv, ClassifyTypeOK, Usage, CallState, ChargedWhenDone, TimesOut,
        GoesOn, Price, Reset, At
<1>2. ChargedWhenDone'
    BY NoUsageAssumption
    DEF ClassifierInv, ClassifyTypeOK, Usage, CallState, ChargedWhenDone, TimesOut,
        GoesOn, Price, Reset, At
<1>3. UsageIsAnswered'
    BY NoUsageAssumption
    DEF ClassifierInv, ClassifyTypeOK, Usage, CallState, ChargedWhenDone,
        UsageIsAnswered, Charged, TimesOut, GoesOn, Price, Reset, At
<1>4. FieldIsUnpriced'
    BY NoUsageAssumption
    DEF ClassifierInv, ClassifyTypeOK, Usage, CallState, ChargedWhenDone,
        FieldIsUnpriced, UsageIsAnswered, Charged, Left, TimesOut, GoesOn, Price, Reset,
        At
<1>5. PricedOnce'
    BY NoUsageAssumption
    DEF ClassifierInv, ClassifyTypeOK, Usage, CallState, ChargedWhenDone, PricedOnce,
        UsageIsAnswered, FieldIsUnpriced, Charged, TimesOut, GoesOn, Price, Reset, At
<1>6. StrayWasLeft'
    BY NoUsageAssumption
    DEF ClassifierInv, ClassifyTypeOK, Usage, CallState, ChargedWhenDone, StrayWasLeft,
        UsageIsAnswered, FieldIsUnpriced, Charged, Left, TimesOut, GoesOn, Price, Reset,
        At
<1>7. QED BY <1>1, <1>2, <1>3, <1>4, <1>5, <1>6 DEF ClassifierInv

\* The same when the call fails.
LEMMA HttpFailsKeeps ==
    ASSUME ClassifierInv, NEW r \in Calls, HttpFails(r)
    PROVE  ClassifierInv'
<1>1. ClassifyTypeOK'
    BY NoUsageAssumption
    DEF ClassifierInv, ClassifyTypeOK, Usage, CallState, ChargedWhenDone, HttpFails,
        GoesOn, Price, Reset, At
<1>2. ChargedWhenDone'
    BY NoUsageAssumption
    DEF ClassifierInv, ClassifyTypeOK, Usage, CallState, ChargedWhenDone, HttpFails,
        GoesOn, Price, Reset, At
<1>3. UsageIsAnswered'
    <2>1. CASE classify[r].at = "auto"
        BY <2>1, NoUsageAssumption
        DEF ClassifierInv, ClassifyTypeOK, UsageIsAnswered, Charged, HttpFails, GoesOn, Price, Reset, At
    <2>2. CASE classify[r].at = "llm"
        BY <2>2 DEF ClassifierInv, ClassifyTypeOK, UsageIsAnswered, Charged, HttpFails, GoesOn, At
    <2>3. QED BY <2>1, <2>2 DEF HttpFails, GoesOn
<1>4. FieldIsUnpriced'
    BY NoUsageAssumption
    DEF ClassifierInv, ClassifyTypeOK, Usage, CallState, ChargedWhenDone,
        FieldIsUnpriced, UsageIsAnswered, Charged, Left, HttpFails, GoesOn, Price,
        Reset, At
<1>5. PricedOnce'
    BY NoUsageAssumption
    DEF ClassifierInv, ClassifyTypeOK, Usage, CallState, ChargedWhenDone, PricedOnce,
        UsageIsAnswered, FieldIsUnpriced, Charged, HttpFails, GoesOn, Price, Reset, At
<1>6. StrayWasLeft'
    BY NoUsageAssumption
    DEF ClassifierInv, ClassifyTypeOK, Usage, CallState, ChargedWhenDone, StrayWasLeft,
        UsageIsAnswered, FieldIsUnpriced, Charged, Left, HttpFails, GoesOn, Price,
        Reset, At
<1>7. QED BY <1>1, <1>2, <1>3, <1>4, <1>5, <1>6 DEF ClassifierInv

\* What the other actions do: no usage moves, and who is done is charged none.
Unpriced(r) ==
    /\ UNCHANGED <<lastUsage, answer, charge>>
    /\ \/ UNCHANGED classify
       \/ /\ classify[r].at \notin {"done", "hit", "failed"}
          /\ \E where \in CallState \ {"idle", "hit"} :
                \/ classify' = [classify EXCEPT ![r].at = where]
                \/ \E p \in Prompts : classify' = [classify EXCEPT ![r] = [at |-> where, prompt |-> p]]

\* They keep the invariant.
LEMMA UnpricedKeeps ==
    ASSUME ClassifierInv, NEW r \in Calls, Unpriced(r)
    PROVE  ClassifierInv'
<1>1. ClassifyTypeOK'
    BY NoUsageAssumption
    DEF ClassifierInv, ClassifyTypeOK, Usage, CallState, ChargedWhenDone, Unpriced
<1>2. ChargedWhenDone'
    BY NoUsageAssumption
    DEF ClassifierInv, ClassifyTypeOK, Usage, CallState, ChargedWhenDone, Unpriced
<1>3. UsageIsAnswered'
    BY NoUsageAssumption
    DEF ClassifierInv, ClassifyTypeOK, Usage, CallState, ChargedWhenDone,
        UsageIsAnswered, Charged, Unpriced
<1>4. FieldIsUnpriced'
    BY NoUsageAssumption
    DEF ClassifierInv, ClassifyTypeOK, Usage, CallState, ChargedWhenDone,
        FieldIsUnpriced, UsageIsAnswered, Charged, Left, Unpriced
<1>5. PricedOnce'
    BY NoUsageAssumption
    DEF ClassifierInv, ClassifyTypeOK, Usage, CallState, ChargedWhenDone, PricedOnce,
        UsageIsAnswered, FieldIsUnpriced, Charged, Unpriced
<1>6. StrayWasLeft'
    BY NoUsageAssumption
    DEF ClassifierInv, ClassifyTypeOK, Usage, CallState, ChargedWhenDone, StrayWasLeft,
        UsageIsAnswered, FieldIsUnpriced, Charged, Left, Unpriced
<1>7. QED BY <1>1, <1>2, <1>3, <1>4, <1>5, <1>6 DEF ClassifierInv

LEMMA InvNext == ClassifierInv /\ [ClassifierNext]_classifierVars => ClassifierInv'
<1> SUFFICES ASSUME ClassifierInv, [ClassifierNext]_classifierVars PROVE ClassifierInv'
    OBVIOUS
<1>t. classify \in [Calls -> [at : CallState, prompt : Prompts]]
    BY DEF ClassifierInv, ClassifyTypeOK
<1>1. CASE UNCHANGED classifierVars
    BY <1>1 DEF classifierVars, ClassifierInv, ClassifyTypeOK, ChargedWhenDone, UsageIsAnswered,
               FieldIsUnpriced, PricedOnce, StrayWasLeft, Charged, Left
<1>2. CASE (\E m \in {"auto", "llm", "jev"} : SetMode(m)) \/ Age
    <2>1. UNCHANGED <<lastUsage, answer, charge, classify>>
        BY <1>2 DEF SetMode, Age
    <2>2. QED
        BY <2>1 DEF ClassifierInv, ClassifyTypeOK, ChargedWhenDone, UsageIsAnswered,
               FieldIsUnpriced, PricedOnce, StrayWasLeft, Charged, Left
<1>3. ASSUME NEW r \in Calls, NEW p \in Prompts,
             Hit(r, p) \/ Free(r, p) \/ Ask(r, p) \/ Refuse(r, p) \/ AskJev(r, p)
      PROVE  ClassifierInv'
    <2>1. CASE Free(r, p) \/ Refuse(r, p) \/ AskJev(r, p)
        <3>1. Unpriced(r)
            BY <1>t, <2>1 DEF Unpriced, Free, Refuse, AskJev, Begins, CallState
        <3>2. QED BY <3>1, UnpricedKeeps
    <2>2. QED BY <1>3, <2>1, HitKeeps, AskKeeps
<1>4. ASSUME NEW r \in Calls, NEW usage \in Calls \cup {NoUsage}, usage \in {r, NoUsage},
             AnsweredInTime(r, usage) \/ Unparseable(r, usage) \/ LateAnswer(r, usage)
      PROVE  ClassifierInv'
    BY <1>4, InTimeKeeps, UnparseableKeeps, LateKeeps
<1>5. ASSUME NEW r \in Calls, TimesOut(r) \/ HttpFails(r) \/ Overloaded(r) \/ JevEnds(r)
      PROVE  ClassifierInv'
    <2>1. CASE Overloaded(r) \/ JevEnds(r)
        <3>1. Unpriced(r)
            BY <2>1 DEF Unpriced, Overloaded, JevEnds, At, CallState
        <3>2. QED BY <3>1, UnpricedKeeps
    <2>2. QED BY <1>5, <2>1, TimesOutKeeps, HttpFailsKeeps
<1>6. QED BY <1>1, <1>2, <1>3, <1>4, <1>5 DEF ClassifierNext

LEMMA InvAttributes == ClassifierInv => UsageIsAttributed
<1> SUFFICES ASSUME ClassifierInv PROVE UsageIsAttributed
    OBVIOUS
<1>1. ASSUME NEW r \in Calls, classify[r].at = "done", charge[r] # NoUsage
      PROVE  charge[r] \in Calls
    BY <1>1 DEF ClassifierInv, ClassifyTypeOK, Usage
<1>2. UsagePricedOnce
    BY <1>1 DEF ClassifierInv, PricedOnce, Charged, UsagePricedOnce
<1>3. StrayUsageWasLeft
    BY <1>1 DEF ClassifierInv, StrayWasLeft, Charged, Left, StrayUsageWasLeft
<1>4. QED BY <1>2, <1>3 DEF UsageIsAttributed

\* UsageIsAttributed for every number of requests and prompts: no usage is
\* priced twice, and who was answered in time pays for its own call.
THEOREM UsageAttributed == ClassifierSpec => []UsageIsAttributed
<1>1. ClassifierInit => ClassifierInv
    BY InvInit
<1>2. ClassifierInv /\ [ClassifierNext]_classifierVars => ClassifierInv'
    BY InvNext
<1>3. ClassifierInv => UsageIsAttributed
    BY InvAttributes
<1>4. QED BY <1>1, <1>2, <1>3, PTL DEF ClassifierSpec

-----------------------------------------------------------------------------
(***************************************************************************)
(* The model.                                                              *)
(***************************************************************************)

\* The last request was routed under the preferences of now.
RoutingInv == routed.how = "auto" => routed.to \in Selectable(routed.ask)

LEMMA FirstOfFive ==
    ASSUME NEW A, NEW B, NEW C, NEW D, NEW E, NEW m \in FirstOf(<<A, B, C, D, E>>)
    PROVE  \/ m \in A
           \/ A = {} /\ m \in B
           \/ A = {} /\ B = {} /\ m \in C
           \/ A = {} /\ B = {} /\ C = {} /\ m \in D
           \/ A = {} /\ B = {} /\ C = {} /\ D = {} /\ m \in E
<1> DEFINE sets == <<A, B, C, D, E>>
           some == {i \in DOMAIN sets : sets[i] # {}}
           first == CHOOSE i \in some : \A j \in some : i <= j
<1>1. /\ DOMAIN sets = 1..5 /\ sets[1] = A /\ sets[2] = B /\ sets[3] = C /\ sets[4] = D /\ sets[5] = E
    OBVIOUS
<1>2. some # {} /\ m \in sets[Min(some)]
    BY DEF FirstOf
<1>3. Min(some) = first
    BY DEF Min
<1> HIDE DEF sets
<1>4. some \subseteq 1..5 /\ \A i \in 1..5 : i \notin some => sets[i] = {}
    BY <1>1
<1> HIDE DEF some
<1>5. \E i \in some : \A j \in some : i <= j
    <2>1. CASE 1 \in some
        BY <1>4, <2>1
    <2>2. CASE 1 \notin some /\ 2 \in some
        BY <1>4, <2>2
    <2>3. CASE 1 \notin some /\ 2 \notin some /\ 3 \in some
        BY <1>4, <2>3
    <2>4. CASE 1 \notin some /\ 2 \notin some /\ 3 \notin some /\ 4 \in some
        BY <1>4, <2>4
    <2>5. CASE some \subseteq {5}
        <3>1. PICK i \in some : TRUE
            BY <1>2
        <3>2. \A j \in some : j = 5
            BY <2>5
        <3>3. QED BY <3>1, <3>2
    <2>6. QED BY <1>4, <2>1, <2>2, <2>3, <2>4, <2>5
<1>6. first \in some /\ \A j \in some : first <= j
    BY <1>5
<1> HIDE DEF first
<1>7. /\ first \in 1..5 /\ m \in sets[first]
      /\ \A i \in 1..5 : i < first => sets[i] = {}
    BY <1>2, <1>3, <1>4, <1>6
<1>8. QED BY <1>1, <1>7

LEMMA NoneSuitsBetter ==
    ASSUME NEW a, NEW m \in Selectable(a), NEW n \in InTier(a)
    PROVE  Suits(a, n) <= Suits(a, m)
<1> DEFINE capable == {x \in available : Capable(a, x)}
           fits == {x \in InTier(a) : Fits(a, x)}
<1>1. \/ m \in AboveFloor(a)
      \/ AboveFloor(a) = {} /\ m \in Widened(a)
      \/ AboveFloor(a) = {} /\ Widened(a) = {} /\ m \in FallbackFits(a)
      \/ AboveFloor(a) = {} /\ Widened(a) = {} /\ FallbackFits(a) = {} /\ m \in fits
      \/ AboveFloor(a) = {} /\ Widened(a) = {} /\ FallbackFits(a) = {} /\ fits = {} /\ m \in LargestWindow(a)
    <2> HIDE DEF fits
    <2>1. m \in FirstOf(<<AboveFloor(a), Widened(a), FallbackFits(a), fits, LargestWindow(a)>>)
        BY DEF Selectable, fits
    <2>2. QED BY <2>1, FirstOfFive
<1>2. n \in available /\ TierOk(a, n)
    BY DEF InTier
<1>3. AboveFloor(a) \subseteq Pool(a) /\ (AboveFloor(a) = {} => Pool(a) = {})
    BY DEF AboveFloor
<1>4. \/ capable \subseteq Excluded /\ Pool(a) = capable
      \/ Pool(a) = capable \ Excluded /\ Pool(a) # {}
    BY DEF Pool
<1>5. CASE m \in AboveFloor(a)
    <2>1. Capable(a, m) /\ (m \in Excluded => capable \subseteq Excluded)
        BY <1>3, <1>4, <1>5
    <2>2. Capable(a, n) => n \in capable
        BY <1>2
    <2>3. QED BY <2>1, <2>2 DEF Suits
<1>6. CASE AboveFloor(a) = {}
    <2>1. ~Capable(a, n)
        BY <1>2, <1>3, <1>4, <1>6
    <2>2. CASE m \in Widened(a)
        BY <2>1, <2>2 DEF Suits, Widened
    <2>3. CASE Widened(a) = {}
        <3>1. ~(Serves(a, n) /\ Fits(a, n))
            BY <1>2, <2>3 DEF Widened
        <3>2. CASE m \in FallbackFits(a) \/ m \in fits
            <4>1. TierOk(a, m) /\ Fits(a, m)
                BY <3>2 DEF FallbackFits, InTier
            <4>2. QED BY <2>1, <3>1, <4>1 DEF Suits
        <3>3. CASE fits = {}
            <4>1. ~Fits(a, n)
                BY <3>3
            <4>2. QED BY <2>1, <3>1, <4>1 DEF Suits
        <3>4. QED BY <1>1, <1>3, <1>6, <2>3, <3>2, <3>3
    <2>4. QED BY <1>1, <1>6, <2>2, <2>3
<1>7. QED BY <1>1, <1>5, <1>6

LEMMA RoutingInvNext == RoutingInv /\ [RoutingNext]_routingVars => RoutingInv'
<1> SUFFICES ASSUME RoutingInv, [RoutingNext]_routingVars PROVE RoutingInv'
    OBVIOUS
<1>1. CASE UNCHANGED routingVars
    BY <1>1 DEF routingVars, RoutingInv, Selectable, AboveFloor, Widened, FallbackFits, LargestWindow,
               Pool, Excluded, InTier
<1>2. CASE routed' = NotRouted
    BY <1>2 DEF RoutingInv, NotRouted
<1>3. ASSUME NEW a \in Asked, RouteNamed(a) \/ RouteExhausted(a) PROVE RoutingInv'
    <2>1. routed'.how # "auto"
        BY <1>3 DEF RouteNamed, RouteExhausted, Route
    <2>2. QED BY <2>1 DEF RoutingInv
<1>4. ASSUME NEW a \in Asked, RouteAuto(a) PROVE RoutingInv'
    <2>1. PICK m \in Selectable(a) : Route(a, m, "auto")
        BY <1>4 DEF RouteAuto
    <2>2. routed'.to \in Selectable(routed'.ask) /\ UNCHANGED <<available, disabled, opted>>
        BY <2>1 DEF Route
    <2>3. QED
        BY <2>2 DEF RoutingInv, Selectable, AboveFloor, Widened, FallbackFits, LargestWindow,
                   Pool, Excluded, InTier
<1>5. QED
    BY <1>1, <1>2, <1>3, <1>4
    DEF RoutingNext, OperatorEnables, OperatorDisables, UserEnables, UserDisables, Reboot

\* NoBetterModelLeft for every catalog and whatever is switched off: each
\* widening gives up no more than the request has to do without.
THEOREM BestModelSelected == RoutingSpec => []NoBetterModelLeft
<1>1. RoutingInit => RoutingInv
    BY DEF RoutingInit, RoutingInv, NotRouted
<1>2. RoutingInv /\ [RoutingNext]_routingVars => RoutingInv'
    BY RoutingInvNext
<1>3. RoutingInv => NoBetterModelLeft
    BY NoneSuitsBetter DEF RoutingInv, NoBetterModelLeft
<1>4. QED BY <1>1, <1>2, <1>3, PTL DEF RoutingSpec
-----------------------------------------------------------------------------
(***************************************************************************)
(* The stream.                                                             *)
(***************************************************************************)

Amount == {"none", "part", "full"}
UpstreamType == [at : {"open", "ended", "failed"}, finish : BOOLEAN, usage : Amount]
WriterType == [next : Nat, text : BOOLEAN, block : [Keys -> Nat \cup {NoBlock}],
               finishSent : BOOLEAN, usage : Amount]
ClientType == [started : Nat, open : SUBSET Nat, stopped : BOOLEAN, broken : BOOLEAN]

\* A writer of blocks in the middle of a message: the client has open what
\* the writer takes to be open, and all blocks are behind the next.
Midway(w, c) ==
    /\ w \in WriterType /\ c \in ClientType
    /\ ~c.broken /\ ~c.stopped
    /\ c.open = TextBlock(w) \cup Blocks(w)
    /\ c.started = w.next + (IF w.text THEN 1 ELSE 0)
    /\ \A k \in Keys : w.block[k] < w.next

\* A message that is complete for the client.
Complete(c) == c \in ClientType /\ ~c.broken /\ c.stopped /\ c.open = {}

LEMMA TextKeepsMidway ==
    ASSUME NEW w, NEW c, Midway(w, c)
    PROVE  Midway(OpenAiText([w |-> w, c |-> c]).w, OpenAiText([w |-> w, c |-> c]).c)
<1> DEFINE s == [w |-> w, c |-> c]
           v == [w EXCEPT !.text = TRUE]
           d == BlockDelta(IF w.text THEN c ELSE BlockStart(c, w.next), w.next)
<1>1. OpenAiText(s).w = v /\ OpenAiText(s).c = d
    BY DEF OpenAiText
<1>2. v \in WriterType /\ v.text = TRUE /\ v.next = w.next /\ v.block = w.block
    BY DEF Midway, WriterType
<1>3. TextBlock(v) = {w.next} /\ Blocks(v) = Blocks(w)
    BY <1>2 DEF TextBlock, Blocks
<1>4. CASE w.text
    <2>1. d = [c EXCEPT !.broken = @ \/ c.stopped \/ w.next \notin c.open]
        BY <1>4 DEF BlockDelta
    <2>2. w.next \in c.open
        BY <1>4 DEF Midway, TextBlock
    <2>3. d \in ClientType /\ ~d.broken /\ ~d.stopped /\ d.open = c.open /\ d.started = c.started
        BY <2>1, <2>2 DEF Midway, ClientType
    <2>4. QED BY <1>1, <1>2, <1>3, <1>4, <2>3 DEF Midway, TextBlock
<1>5. CASE ~w.text
    <2>1. c.started = w.next /\ w.next \in Nat /\ c.open = Blocks(w)
        BY <1>5 DEF Midway, TextBlock, WriterType
    <2>2. BlockStart(c, w.next) = [c EXCEPT !.started = w.next + 1, !.open = c.open \cup {w.next},
                                            !.broken = FALSE]
        BY <2>1 DEF BlockStart, Midway, ClientType
    <2> DEFINE b == BlockStart(c, w.next)
    <2>3. b \in ClientType /\ ~b.broken /\ ~b.stopped /\ b.open = c.open \cup {w.next} /\ b.started = w.next + 1
        <3>1. c \in ClientType /\ ~c.stopped
            BY DEF Midway
        <3>2. b = [started |-> w.next + 1, open |-> c.open \cup {w.next}, stopped |-> c.stopped, broken |-> FALSE]
            BY <2>2, <3>1 DEF ClientType
        <3>3. c.open \cup {w.next} \in SUBSET Nat /\ c.stopped \in BOOLEAN
            BY <2>1, <3>1 DEF ClientType
        <3> HIDE DEF b
        <3>4. QED BY <2>1, <3>1, <3>2, <3>3 DEF ClientType
    <2>4. d = BlockDelta(b, w.next)
        BY <1>5
    <2> HIDE DEF b
    <2>5. d \in ClientType /\ ~d.broken /\ ~d.stopped /\ d.open = b.open /\ d.started = b.started
        BY <2>3, <2>4 DEF BlockDelta, ClientType
    <2>6. QED BY <1>1, <1>2, <1>3, <2>1, <2>3, <2>5 DEF Midway
<1>6. QED BY <1>4, <1>5 DEF Midway, WriterType

LEMMA CloseTextKeepsMidway ==
    ASSUME NEW s, Midway(s.w, s.c)
    PROVE  /\ Midway(CloseText(s).w, CloseText(s).c) /\ CloseText(s).w.text = FALSE
           /\ CloseText(s).w.block = s.w.block /\ CloseText(s).w.finishSent = s.w.finishSent
           /\ CloseText(s).w.usage = s.w.usage
<1>1. CASE s.w.text
    <2> DEFINE w == s.w
               c == s.c
               v == [w EXCEPT !.text = FALSE, !.next = @ + 1]
               d == BlockStop(c, w.next)
    <2>1. CloseText(s).w = v /\ CloseText(s).c = d
        BY <1>1 DEF CloseText
    <2>2. /\ v \in WriterType /\ v.text = FALSE /\ v.next = w.next + 1 /\ v.block = w.block
          /\ v.finishSent = w.finishSent /\ v.usage = w.usage
        <3>1. w \in WriterType
            BY DEF Midway
        <3>a. v = [w EXCEPT !.text = FALSE, !.next = w.next + 1]
            BY <3>1 DEF WriterType
        <3> HIDE DEF v
        <3>2. v = [next |-> w.next + 1, text |-> FALSE, block |-> w.block,
                   finishSent |-> w.finishSent, usage |-> w.usage]
            BY <3>1, <3>a DEF WriterType
        <3>3. QED BY <3>1, <3>2 DEF WriterType
    <2>3. /\ w.next \in c.open /\ c.open = {w.next} \cup Blocks(w) /\ w.next \in Nat
          /\ c.started = w.next + 1
        BY <1>1 DEF Midway, TextBlock, WriterType
    <2>4. w.next \notin Blocks(w)
        BY <2>3 DEF Midway, Blocks
    <2>5. d \in ClientType /\ ~d.broken /\ ~d.stopped /\ d.open = Blocks(w) /\ d.started = c.started
        BY <2>3, <2>4 DEF BlockStop, Midway, ClientType
    <2>6. TextBlock(v) = {} /\ Blocks(v) = Blocks(w)
        BY <2>2 DEF TextBlock, Blocks
    <2>7. \A k \in Keys : v.block[k] < v.next
        BY <2>2, <2>3 DEF Midway, WriterType, NoBlock
    <2> HIDE DEF v, d
    <2>8. QED BY <2>1, <2>2, <2>3, <2>5, <2>6, <2>7 DEF Midway
<1>2. CASE ~s.w.text
    <2>1. CloseText(s) = s /\ s.w.text = FALSE
        BY <1>2 DEF CloseText, Midway, WriterType
    <2>2. QED BY <2>1
<1>3. QED BY <1>1, <1>2

\* A block that is open takes a delta.
LEMMA DeltaKeepsMidway ==
    ASSUME NEW w, NEW c, Midway(w, c), NEW k \in Keys, w.block[k] # NoBlock
    PROVE  Midway(w, BlockDelta(c, w.block[k]))
<1> DEFINE d == BlockDelta(c, w.block[k])
<1>1. w.block[k] \in c.open
    BY DEF Midway, Blocks
<1>2. d \in ClientType /\ ~d.broken /\ ~d.stopped /\ d.open = c.open /\ d.started = c.started
    BY <1>1 DEF BlockDelta, Midway, ClientType
<1>3. QED BY <1>2 DEF Midway

\* A call that is new opens the next block.
LEMMA OpenKeepsMidway ==
    ASSUME NEW w, NEW c, Midway(w, c), w.text = FALSE, NEW k \in Keys, w.block[k] = NoBlock
    PROVE  Midway([w EXCEPT !.block[k] = w.next, !.next = @ + 1],
                  BlockDelta(BlockStart(c, w.next), w.next))
<1> DEFINE v == [w EXCEPT !.block[k] = w.next, !.next = @ + 1]
           b == BlockStart(c, w.next)
           d == BlockDelta(b, w.next)
<1>1. w.next \in Nat /\ c.started = w.next /\ c.open = Blocks(w)
          /\ w.block \in [Keys -> Nat \cup {NoBlock}]
    BY DEF Midway, WriterType, TextBlock
<1>2. b = [c EXCEPT !.started = w.next + 1, !.open = c.open \cup {w.next}, !.broken = FALSE]
    BY <1>1 DEF BlockStart, Midway, ClientType
<1>3. b \in ClientType /\ ~b.broken /\ ~b.stopped /\ b.open = Blocks(w) \cup {w.next} /\ b.started = w.next + 1
    <2>1. c \in ClientType /\ ~c.stopped
        BY DEF Midway
    <2>2. b = [started |-> w.next + 1, open |-> c.open \cup {w.next}, stopped |-> c.stopped, broken |-> FALSE]
        BY <1>2, <2>1 DEF ClientType
    <2>3. c.open \cup {w.next} \in SUBSET Nat /\ c.stopped \in BOOLEAN
        BY <1>1, <2>1 DEF ClientType
    <2> HIDE DEF b
    <2>4. QED BY <1>1, <2>1, <2>2, <2>3 DEF ClientType
<1> HIDE DEF b
<1>4. d \in ClientType /\ ~d.broken /\ ~d.stopped /\ d.open = b.open /\ d.started = b.started
    BY <1>3 DEF BlockDelta, ClientType
<1>5. /\ v = [w EXCEPT !.block = [w.block EXCEPT ![k] = w.next], !.next = w.next + 1]
      /\ [w.block EXCEPT ![k] = w.next] \in [Keys -> Nat \cup {NoBlock}]
    BY <1>1 DEF Midway, WriterType
<1>6. /\ v \in WriterType /\ v.next = w.next + 1 /\ v.text = FALSE
      /\ v.block = [w.block EXCEPT ![k] = w.next]
    <2>1. w \in WriterType
        BY DEF Midway
    <2> DEFINE blocks == [w.block EXCEPT ![k] = w.next]
    <2>3. blocks \in [Keys -> Nat \cup {NoBlock}]
        BY <1>5
    <2>a. v = [w EXCEPT !.block = blocks, !.next = w.next + 1]
        BY <1>5
    <2> HIDE DEF v, blocks
    <2>2. v = [next |-> w.next + 1, text |-> w.text, block |-> blocks,
               finishSent |-> w.finishSent, usage |-> w.usage]
        BY <2>1, <2>a DEF WriterType
    <2>4. v \in WriterType /\ v.next = w.next + 1 /\ v.text = FALSE /\ v.block = blocks
        BY <1>1, <2>1, <2>2, <2>3 DEF WriterType
    <2>5. QED BY <2>4 DEF blocks
<1> HIDE DEF v, d
<1>7. TextBlock(v) = {}
    BY <1>6 DEF TextBlock
<1>8. Blocks(v) = Blocks(w) \cup {w.next}
    <2>1. v.block[k] = w.next /\ w.next # NoBlock /\ \A j \in Keys : j # k => v.block[j] = w.block[j]
        BY <1>1, <1>6 DEF NoBlock
    <2>2. QED BY <2>1 DEF Blocks
<1>9. \A j \in Keys : v.block[j] < v.next
    <2> SUFFICES ASSUME NEW j \in Keys PROVE v.block[j] < v.next
        OBVIOUS
    <2>1. w.block[j] < w.next /\ w.block[j] \in Nat \cup {NoBlock}
        BY <1>1 DEF Midway
    <2>2. v.block[j] = IF j = k THEN w.next ELSE w.block[j]
        BY <1>1, <1>6
    <2>3. QED BY <1>1, <1>6, <2>1, <2>2 DEF NoBlock
<1>10. Midway(v, d)
    <2>1. d.started = v.next + (IF v.text THEN 1 ELSE 0)
        BY <1>1, <1>3, <1>4, <1>6
    <2>2. d.open = TextBlock(v) \cup Blocks(v)
        BY <1>3, <1>4, <1>7, <1>8
    <2>3. QED BY <1>4, <1>6, <1>9, <2>1, <2>2 DEF Midway
<1>11. QED BY <1>10 DEF v, d, b

LEMMA CallKeepsMidway ==
    ASSUME NEW s, Midway(s.w, s.c), NEW k \in Keys
    PROVE  Midway(OpenAiCall(s, k).w, OpenAiCall(s, k).c)
<1>1. CASE s.w.block[k] # NoBlock
    <2>1. OpenAiCall(s, k).w = s.w /\ OpenAiCall(s, k).c = BlockDelta(s.c, s.w.block[k])
        BY <1>1 DEF OpenAiCall
    <2>2. QED BY <1>1, <2>1, DeltaKeepsMidway
<1>2. CASE s.w.block[k] = NoBlock
    <2> DEFINE t == CloseText(s)
    <2>1. Midway(t.w, t.c) /\ t.w.text = FALSE /\ t.w.block[k] = NoBlock
        BY <1>2, CloseTextKeepsMidway
    <2>2. /\ OpenAiCall(s, k).w = [t.w EXCEPT !.block[k] = t.w.next, !.next = @ + 1]
          /\ OpenAiCall(s, k).c = BlockDelta(BlockStart(t.c, t.w.next), t.w.next)
        BY <1>2 DEF OpenAiCall
    <2> HIDE DEF t
    <2>3. Midway([t.w EXCEPT !.block[k] = t.w.next, !.next = @ + 1],
                 BlockDelta(BlockStart(t.c, t.w.next), t.w.next))
        BY <2>1, OpenKeepsMidway
    <2>4. QED BY <2>2, <2>3
<1>3. QED BY <1>1, <1>2

LEMMA StopCompletes ==
    ASSUME NEW w, NEW c, Midway(w, c)
    PROVE  Complete(MessageStop(BlockStops(c, TextBlock(w) \cup Blocks(w))))
<1> DEFINE b == BlockStops(c, TextBlock(w) \cup Blocks(w))
<1>1. b \in ClientType /\ ~b.broken /\ ~b.stopped /\ b.open = {}
    BY DEF BlockStops, Midway, ClientType
<1> HIDE DEF b
<1>2. Complete(MessageStop(b))
    BY <1>1 DEF MessageStop, Complete, ClientType
<1>3. QED BY <1>2 DEF b

\* Reporting usage, or closing the text for good, disturbs nothing.
LEMMA UsageKeepsMidway ==
    ASSUME NEW w, NEW c, Midway(w, c), NEW u \in Amount
    PROVE  LET v == [w EXCEPT !.usage = u] IN
           /\ Midway(v, c) /\ v.usage = u /\ v.finishSent = w.finishSent
<1> DEFINE v == [w EXCEPT !.usage = u]
<1>1. /\ v \in WriterType /\ v.next = w.next /\ v.text = w.text /\ v.block = w.block
      /\ v.usage = u /\ v.finishSent = w.finishSent
    BY DEF Midway, WriterType
<1> HIDE DEF v
<1>2. TextBlock(v) = TextBlock(w) /\ Blocks(v) = Blocks(w)
    BY <1>1 DEF TextBlock, Blocks
<1>3. Midway(v, c) /\ v.usage = u /\ v.finishSent = w.finishSent
    BY <1>1, <1>2 DEF Midway
<1>4. QED BY <1>3 DEF v

\* Text, calls and closing keep the rest of the writer's locals.
SameRest(v, w) == v.usage = w.usage /\ v.finishSent = w.finishSent

LEMMA OpenAiKeepsRest ==
    ASSUME NEW s, Midway(s.w, s.c), NEW k \in Keys
    PROVE  SameRest(OpenAiText(s).w, s.w) /\ SameRest(OpenAiCall(s, k).w, s.w)
<1>1. SameRest(OpenAiText(s).w, s.w)
    BY DEF OpenAiText, SameRest, Midway, WriterType
<1>2. CASE s.w.block[k] # NoBlock
    BY <1>1, <1>2 DEF OpenAiCall, SameRest
<1>3. CASE s.w.block[k] = NoBlock
    <2> DEFINE t == CloseText(s)
    <2>1. t.w \in WriterType /\ SameRest(t.w, s.w)
        BY CloseTextKeepsMidway DEF SameRest, Midway
    <2>2. OpenAiCall(s, k).w = [t.w EXCEPT !.block[k] = t.w.next, !.next = @ + 1]
        BY <1>3 DEF OpenAiCall
    <2> HIDE DEF t
    <2>3. SameRest(OpenAiCall(s, k).w, t.w)
        BY <2>1, <2>2 DEF SameRest, WriterType
    <2>4. QED BY <1>1, <2>1, <2>3 DEF SameRest
<1>4. QED BY <1>2, <1>3

\* Before its finish a Gemini writer does as an OpenAI writer does, but that
\* a call closes the text also when its block is open.
LEMMA GeminiTextKeepsMidway ==
    ASSUME NEW s, Midway(s.w, s.c), s.w.finishSent = FALSE
    PROVE  Midway(GeminiText(s).w, GeminiText(s).c) /\ SameRest(GeminiText(s).w, s.w)
<1>1. GeminiText(s).w = [s.w EXCEPT !.text = TRUE]
    BY DEF GeminiText, Midway, WriterType
<1>2. GeminiText(s).c = BlockDelta(IF s.w.text THEN s.c ELSE BlockStart(s.c, s.w.next), s.w.next)
    BY DEF GeminiText, Sent
<1>3. LET o == OpenAiText([w |-> s.w, c |-> s.c]) IN
      GeminiText(s).w = o.w /\ GeminiText(s).c = o.c
    BY <1>1, <1>2 DEF OpenAiText
<1>4. SameRest(GeminiText(s).w, s.w)
    BY <1>1 DEF SameRest, Midway, WriterType
<1>5. QED BY <1>3, <1>4, TextKeepsMidway

LEMMA GeminiKeepsMidway ==
    ASSUME NEW s, Midway(s.w, s.c), s.w.finishSent = FALSE, NEW k \in Keys
    PROVE  Midway(GeminiCall(s, k).w, GeminiCall(s, k).c) /\ SameRest(GeminiCall(s, k).w, s.w)
<1> DEFINE t == CloseText(s)
<1>2. Midway(t.w, t.c) /\ t.w.text = FALSE /\ SameRest(t.w, s.w) /\ t.w.finishSent = FALSE
    BY CloseTextKeepsMidway DEF SameRest
<1>3. CASE t.w.block[k] # NoBlock
    <2>1. GeminiCall(s, k).w = t.w /\ GeminiCall(s, k).c = BlockDelta(t.c, t.w.block[k])
        BY <1>2, <1>3 DEF GeminiCall, Sent
    <2> HIDE DEF t
    <2>2. QED BY <1>2, <1>3, <2>1, DeltaKeepsMidway
<1>4. CASE t.w.block[k] = NoBlock
    <2>1. /\ GeminiCall(s, k).w = [t.w EXCEPT !.block[k] = t.w.next, !.next = @ + 1]
          /\ GeminiCall(s, k).c = BlockDelta(BlockStart(t.c, t.w.next), t.w.next)
        BY <1>2, <1>4 DEF GeminiCall, Sent
    <2> HIDE DEF t
    <2>2. Midway([t.w EXCEPT !.block[k] = t.w.next, !.next = @ + 1],
                 BlockDelta(BlockStart(t.c, t.w.next), t.w.next))
        BY <1>2, <1>4, OpenKeepsMidway
    <2>3. SameRest(GeminiCall(s, k).w, t.w)
        BY <1>2, <2>1 DEF SameRest, Midway, WriterType
    <2>4. SameRest(GeminiCall(s, k).w, s.w)
        BY <1>2, <2>3 DEF SameRest
    <2>5. QED BY <2>1, <2>2, <2>4
<1>5. QED BY <1>3, <1>4

\* After its finish it sends nothing.
Silent(w) == w \in WriterType /\ w.finishSent = TRUE /\ w.text = FALSE

LEMMA GeminiTextIsSilent ==
    ASSUME NEW s, Silent(s.w)
    PROVE  Silent(GeminiText(s).w) /\ GeminiText(s).w.usage = s.w.usage /\ GeminiText(s).c = s.c
    BY DEF GeminiText, Sent, Silent, WriterType

LEMMA GeminiIsSilent ==
    ASSUME NEW s, Silent(s.w), NEW k \in Keys
    PROVE  Silent(GeminiCall(s, k).w) /\ GeminiCall(s, k).w.usage = s.w.usage /\ GeminiCall(s, k).c = s.c
<1>2. CloseText(s) = s
    BY DEF CloseText, Silent
<1>3. GeminiCall(s, k).c = s.c
    BY <1>2 DEF GeminiCall, Sent, Silent
<1>4. CASE s.w.block[k] # NoBlock
    BY <1>2, <1>3, <1>4 DEF GeminiCall
<1>5. CASE s.w.block[k] = NoBlock
    <2> DEFINE w == s.w
               v == [w EXCEPT !.block[k] = w.next, !.next = @ + 1]
    <2>1. GeminiCall(s, k).w = v
        BY <1>2, <1>5 DEF GeminiCall
    <2>2. w \in WriterType /\ w.next \in Nat /\ w.block \in [Keys -> Nat \cup {NoBlock}]
        BY DEF Silent, WriterType
    <2> HIDE DEF w
    <2> DEFINE blocks == [w.block EXCEPT ![k] = w.next]
    <2>3. blocks \in [Keys -> Nat \cup {NoBlock}]
        BY <2>2
    <2>4. v = [w EXCEPT !.block = blocks, !.next = w.next + 1]
        BY <2>2 DEF WriterType
    <2> HIDE DEF v, blocks
    <2>5. v = [next |-> w.next + 1, text |-> w.text, block |-> blocks,
               finishSent |-> w.finishSent, usage |-> w.usage]
        BY <2>2, <2>4 DEF WriterType
    <2>6. v \in WriterType /\ v.finishSent = w.finishSent /\ v.text = w.text /\ v.usage = w.usage
        BY <2>2, <2>3, <2>5 DEF WriterType
    <2>7. QED BY <1>3, <2>1, <2>6 DEF Silent, w
<1>6. QED BY <1>4, <1>5

\* What the client has of an Anthropic message before its end.
Relayed(n) == [started |-> n, open |-> IF n = 0 THEN {} ELSE {0}, stopped |-> FALSE, broken |-> FALSE]
\* What it has of a response that was buffered.
Delivered(n) == [started |-> n, open |-> {}, stopped |-> FALSE, broken |-> FALSE]

StreamInv ==
    /\ style \in {"openai", "gemini", "anthropic", "buffered"}
    /\ upstream \in UpstreamType /\ writer \in WriterType /\ client \in ClientType
    /\ ~client.broken
    /\ upstream.at = "open" \/ upstream.finish => writer.usage = upstream.usage
    /\ upstream.finish => Complete(client)
    /\ style = "openai" =>
          upstream.usage # "part" /\ (~upstream.finish => Midway(writer, client))
    /\ style = "gemini" =>
          /\ upstream.finish => Silent(writer)
          /\ ~upstream.finish => writer.finishSent = FALSE
          /\ ~upstream.finish /\ upstream.at = "open" => Midway(writer, client)
    /\ style = "anthropic" /\ ~upstream.finish => writer.next \in {0, 1} /\ client = Relayed(writer.next)
    /\ style = "buffered" /\ upstream.at = "open" =>
          ~upstream.finish /\ client = Delivered(writer.next)

LEMMA StreamInvInit == StreamInit => StreamInv
<1> SUFFICES ASSUME StreamInit PROVE StreamInv
    OBVIOUS
<1>1. /\ upstream = [at |-> "open", finish |-> FALSE, usage |-> "none"]
      /\ writer = [next |-> 0, text |-> FALSE, block |-> [k \in Keys |-> NoBlock],
                   finishSent |-> FALSE, usage |-> "none"]
      /\ client = [started |-> 0, open |-> {}, stopped |-> FALSE, broken |-> FALSE]
      /\ style \in {"openai", "gemini", "anthropic", "buffered"}
    BY DEF StreamInit
<1>2. [k \in Keys |-> NoBlock] \in [Keys -> Nat \cup {NoBlock}]
    OBVIOUS
<1>3. upstream \in UpstreamType /\ client \in ClientType
    BY <1>1 DEF UpstreamType, ClientType, Amount
<1>4. writer \in WriterType
    BY <1>1, <1>2 DEF WriterType, Amount
<1>5. /\ writer.next = 0 /\ writer.text = FALSE /\ writer.finishSent = FALSE /\ writer.usage = "none"
      /\ writer.block = [k \in Keys |-> NoBlock]
    BY <1>1
<1>6. TextBlock(writer) = {} /\ Blocks(writer) = {}
    BY <1>5 DEF TextBlock, Blocks
<1>7. \A k \in Keys : writer.block[k] < writer.next
    BY <1>5 DEF NoBlock
<1>a. client.started = 0 /\ client.open = {} /\ client.stopped = FALSE /\ client.broken = FALSE
    BY <1>1
<1>8. Midway(writer, client)
    <2>1. client.open = TextBlock(writer) \cup Blocks(writer)
        BY <1>6, <1>a
    <2>2. client.started = writer.next + (IF writer.text THEN 1 ELSE 0)
        BY <1>5, <1>a
    <2>3. QED BY <1>3, <1>4, <1>7, <1>a, <2>1, <2>2 DEF Midway
<1>9. client = Relayed(writer.next) /\ client = Delivered(writer.next)
    BY <1>1, <1>5 DEF Relayed, Delivered
<1>10. QED BY <1>1, <1>3, <1>4, <1>5, <1>8, <1>9 DEF StreamInv

\* A chunk leaves the provider with what the writer has made of its usage.
LEMMA ChunkSent ==
    ASSUME StreamInv, NEW text, NEW call, NEW finish \in BOOLEAN, NEW usage,
           Sends(text, call, finish, usage)
    PROVE  /\ upstream.at = "open" /\ style' = style
           /\ Merged(writer, usage) \in Amount
           /\ style = "openai" => Merged(writer, usage) # "part"
           /\ upstream' = [at |-> "open", finish |-> (upstream.finish \/ finish),
                           usage |-> Merged(writer, usage)]
           /\ upstream' \in UpstreamType
<1>1. /\ upstream.at = "open" /\ style' = style /\ usage \in Reported
      /\ upstream.usage = "full" => usage \in {"none", "full"}
      /\ upstream' = [upstream EXCEPT !.finish = upstream.finish \/ finish,
                                      !.usage = IF usage = "none" THEN upstream.usage ELSE usage]
    BY DEF Sends, MayReport
<1>2. /\ upstream \in UpstreamType /\ writer.usage = upstream.usage /\ writer.usage \in Amount
      /\ style = "openai" => upstream.usage # "part"
    BY <1>1 DEF StreamInv, WriterType
<1>3. /\ Merged(writer, usage) = IF usage = "none" THEN upstream.usage ELSE usage
      /\ Merged(writer, usage) \in Amount
      /\ style = "openai" => Merged(writer, usage) # "part"
    BY <1>1, <1>2 DEF Merged, Reported, Amount
<1> DEFINE u == Merged(writer, usage)
           f == upstream.finish \/ finish
<1>4. upstream' = [upstream EXCEPT !.finish = f, !.usage = u]
    BY <1>1, <1>3
<1>5. f \in BOOLEAN /\ u \in Amount
    BY <1>2, <1>3 DEF UpstreamType
<1> HIDE DEF u, f
<1>6. upstream' = [at |-> "open", finish |-> f, usage |-> u]
    BY <1>1, <1>2, <1>4 DEF UpstreamType
<1>7. upstream' \in UpstreamType
    BY <1>5, <1>6 DEF UpstreamType
<1>8. QED BY <1>1, <1>3, <1>6, <1>7 DEF u, f

LEMMA OpenAiChunkKeeps ==
    ASSUME StreamInv, NEW text \in BOOLEAN, NEW finish \in BOOLEAN, NEW usage,
           NEW calls \in {{}} \cup {{k} : k \in Keys}, OpenAiChunk(text, calls, finish, usage)
    PROVE  StreamInv'
<1> DEFINE u == Merged(writer, usage)
           s0 == [w |-> [writer EXCEPT !.usage = u], c |-> client]
           s1 == IF text THEN OpenAiText(s0) ELSE s0
           s2 == IF calls = {} THEN s1 ELSE OpenAiCall(s1, CHOOSE k \in calls : TRUE)
           s3 == IF finish THEN OpenAiFinish(s2) ELSE s2
<1>1. style = "openai" /\ Sends(text, calls # {}, finish, usage) /\ writer' = s3.w /\ client' = s3.c
    BY DEF OpenAiChunk, Handled
<1>2. /\ u \in Amount /\ u # "part" /\ style' = style
      /\ upstream' = [at |-> "open", finish |-> (upstream.finish \/ finish), usage |-> u]
      /\ upstream' \in UpstreamType
    BY <1>1, ChunkSent
<1> HIDE DEF u
<1>3. CASE upstream.finish
    <2>1. text = FALSE /\ calls = {} /\ finish = FALSE
        BY <1>1, <1>3 DEF Sends
    <2>2. writer' = [writer EXCEPT !.usage = u] /\ client' = client
        BY <1>1, <2>1
    <2>3. writer' \in WriterType /\ writer'.usage = u
        BY <1>2, <2>2 DEF StreamInv, WriterType
    <2>4. Complete(client')
        BY <1>3, <2>2 DEF StreamInv
    <2>5. upstream'.finish = TRUE /\ upstream'.usage = u
        BY <1>2, <1>3
    <2>6. QED BY <1>1, <1>2, <2>3, <2>4, <2>5 DEF StreamInv, Complete
<1>4. CASE ~upstream.finish
    <2>1. Midway(writer, client)
        BY <1>1, <1>4 DEF StreamInv
    <2>2. Midway(s0.w, s0.c) /\ s0.w.usage = u
        BY <1>2, <2>1, UsageKeepsMidway
    <2>a. s0 = [w |-> s0.w, c |-> s0.c]
        OBVIOUS
    <2> HIDE DEF s0
    <2>3. Midway(s1.w, s1.c) /\ s1.w.usage = u
        <3>1. CASE text
            <4>1. Midway(OpenAiText(s0).w, OpenAiText(s0).c)
                BY <2>2, <2>a, TextKeepsMidway
            <4>2. OpenAiText(s0).w.usage = u
                BY <2>2 DEF OpenAiText, Midway, WriterType
            <4>3. QED BY <3>1, <4>1, <4>2
        <3>2. CASE ~text
            BY <2>2, <3>2
        <3>3. QED BY <3>1, <3>2
    <2> HIDE DEF s1
    <2>4. Midway(s2.w, s2.c) /\ s2.w.usage = u
        <3>1. CASE calls = {}
            BY <2>3, <3>1
        <3>2. CASE calls # {}
            <4>1. (CHOOSE k \in calls : TRUE) \in Keys
                BY <3>2
            <4>2. QED BY <2>3, <3>2, <4>1, CallKeepsMidway, OpenAiKeepsRest DEF SameRest
        <3>3. QED BY <3>1, <3>2
    <2> HIDE DEF s2
    <2>5. CASE finish
        <3>1. writer' = [s2.w EXCEPT !.text = FALSE]
                /\ client' = MessageStop(BlockStops(s2.c, TextBlock(s2.w) \cup Blocks(s2.w)))
            BY <1>1, <2>5 DEF OpenAiFinish
        <3>2. writer' \in WriterType /\ writer'.usage = u
            BY <2>4, <3>1 DEF Midway, WriterType
        <3>3. Complete(client')
            BY <2>4, <3>1, StopCompletes
        <3>4. upstream'.finish = TRUE /\ upstream'.usage = u
            BY <1>2, <2>5
        <3>5. QED BY <1>1, <1>2, <3>2, <3>3, <3>4 DEF StreamInv, Complete
    <2>6. CASE ~finish
        <3>1. Midway(writer', client') /\ writer'.usage = u
            BY <1>1, <2>4, <2>6
        <3>2. upstream'.finish = FALSE /\ upstream'.usage = u
            BY <1>2, <1>4, <2>6
        <3>3. QED BY <1>1, <1>2, <3>1, <3>2 DEF StreamInv, Midway
    <2>7. QED BY <2>5, <2>6
<1>5. QED BY <1>3, <1>4

LEMMA GeminiChunkKeeps ==
    ASSUME StreamInv, NEW text \in BOOLEAN, NEW finish \in BOOLEAN, NEW usage,
           NEW calls \in {{}} \cup {{k} : k \in Keys}, GeminiChunk(text, calls, finish, usage)
    PROVE  StreamInv'
<1> DEFINE u == Merged(writer, usage)
           s0 == [w |-> [writer EXCEPT !.usage = u], c |-> client]
           s1 == IF text THEN GeminiText(s0) ELSE s0
           s2 == IF calls = {} THEN s1 ELSE GeminiCall(s1, CHOOSE k \in calls : TRUE)
           s3 == IF finish THEN GeminiFinish(s2) ELSE s2
<1>1. style = "gemini" /\ Sends(text, calls # {}, finish, usage) /\ writer' = s3.w /\ client' = s3.c
    BY DEF GeminiChunk, Handled
<1>2. /\ u \in Amount /\ style' = style
      /\ upstream' = [at |-> "open", finish |-> (upstream.finish \/ finish), usage |-> u]
      /\ upstream' \in UpstreamType /\ upstream.at = "open"
    BY <1>1, ChunkSent
<1>3. CASE upstream.finish
    <2>1. Silent(s0.w) /\ s0.w.usage = u /\ s0.c = client
        BY <1>1, <1>2, <1>3 DEF StreamInv, Silent, WriterType
    <2> HIDE DEF u, s0
    <2>2. Silent(s1.w) /\ s1.w.usage = u /\ s1.c = client
        BY <2>1, GeminiTextIsSilent
    <2> HIDE DEF s1
    <2>3. Silent(s2.w) /\ s2.w.usage = u /\ s2.c = client
        <3>1. CASE calls = {}
            BY <2>2, <3>1
        <3>2. CASE calls # {}
            <4>1. (CHOOSE k \in calls : TRUE) \in Keys
                BY <3>2
            <4>2. QED BY <2>2, <3>2, <4>1, GeminiIsSilent
        <3>3. QED BY <3>1, <3>2
    <2> HIDE DEF s2
    <2>4. s3 = s2
        BY <2>3 DEF GeminiFinish, Silent
    <2>5. Silent(writer') /\ writer'.usage = u /\ client' = client
        BY <1>1, <2>3, <2>4
    <2>6. Complete(client')
        BY <1>3, <2>5 DEF StreamInv
    <2>7. upstream'.finish = TRUE /\ upstream'.usage = u
        BY <1>2, <1>3
    <2>8. QED BY <1>1, <1>2, <2>5, <2>6, <2>7 DEF StreamInv, Complete, Silent
<1>4. CASE ~upstream.finish
    <2>1. Midway(writer, client) /\ writer.finishSent = FALSE
        BY <1>1, <1>2, <1>4 DEF StreamInv
    <2>2. Midway(s0.w, s0.c) /\ s0.w.usage = u /\ s0.w.finishSent = FALSE
        BY <1>2, <2>1, UsageKeepsMidway
    <2> HIDE DEF u, s0
    <2>3. Midway(s1.w, s1.c) /\ s1.w.usage = u /\ s1.w.finishSent = FALSE
        BY <2>2, GeminiTextKeepsMidway DEF SameRest
    <2> HIDE DEF s1
    <2>4. Midway(s2.w, s2.c) /\ s2.w.usage = u /\ s2.w.finishSent = FALSE
        <3>1. CASE calls = {}
            BY <2>3, <3>1
        <3>2. CASE calls # {}
            <4>1. (CHOOSE k \in calls : TRUE) \in Keys
                BY <3>2
            <4>2. QED BY <2>3, <3>2, <4>1, GeminiKeepsMidway DEF SameRest
        <3>3. QED BY <3>1, <3>2
    <2> HIDE DEF s2
    <2>5. CASE finish
        <3>1. writer' = [s2.w EXCEPT !.text = FALSE, !.finishSent = TRUE]
                /\ client' = MessageStop(BlockStops(s2.c, TextBlock(s2.w) \cup Blocks(s2.w)))
            BY <1>1, <2>4, <2>5 DEF GeminiFinish
        <3>2. Silent(writer') /\ writer'.usage = u
            BY <2>4, <3>1 DEF Midway, WriterType, Silent
        <3>3. Complete(client')
            BY <2>4, <3>1, StopCompletes
        <3>4. upstream'.finish = TRUE /\ upstream'.usage = u
            BY <1>2, <2>5
        <3>5. QED BY <1>1, <1>2, <3>2, <3>3, <3>4 DEF StreamInv, Complete, Silent
    <2>6. CASE ~finish
        <3>1. Midway(writer', client') /\ writer'.usage = u /\ writer'.finishSent = FALSE
            BY <1>1, <2>4, <2>6
        <3>2. upstream'.finish = FALSE /\ upstream'.usage = u
            BY <1>2, <1>4, <2>6
        <3>3. QED BY <1>1, <1>2, <3>1, <3>2 DEF StreamInv, Midway
    <2>7. QED BY <2>5, <2>6
<1>5. QED BY <1>3, <1>4

LEMMA AnthropicChunkKeeps ==
    ASSUME StreamInv, NEW finish \in BOOLEAN, NEW usage, AnthropicChunk(finish, usage)
    PROVE  StreamInv'
<1> DEFINE u == Merged(writer, usage)
           c == IF writer.next = 0 THEN BlockStart(client, 0) ELSE client
<1>1. /\ style = "anthropic" /\ ~upstream.finish /\ Sends(TRUE, FALSE, finish, usage)
      /\ writer' = [writer EXCEPT !.next = 1, !.usage = u]
      /\ client' = IF finish THEN MessageStop(BlockStop(c, 0)) ELSE BlockDelta(c, 0)
    BY DEF AnthropicChunk, Handled
<1>2. /\ u \in Amount /\ style' = style
      /\ upstream' = [at |-> "open", finish |-> (upstream.finish \/ finish), usage |-> u]
      /\ upstream' \in UpstreamType
    BY <1>1, ChunkSent
<1>3. writer \in WriterType /\ writer.next \in {0, 1} /\ client = Relayed(writer.next)
    BY <1>1 DEF StreamInv
<1> HIDE DEF u
<1>4. writer' = [next |-> 1, text |-> writer.text, block |-> writer.block,
                 finishSent |-> writer.finishSent, usage |-> u]
    BY <1>1, <1>3 DEF WriterType
<1>5. writer' \in WriterType /\ writer'.next = 1 /\ writer'.usage = u
    BY <1>2, <1>3, <1>4 DEF WriterType
<1>6. c = Relayed(1)
    <2>1. CASE writer.next = 0
        <3>1. client = [started |-> 0, open |-> {}, stopped |-> FALSE, broken |-> FALSE]
            BY <1>3, <2>1 DEF Relayed
        <3>a. client.started = 0 /\ client.open = {} /\ client.stopped = FALSE /\ client.broken = FALSE
            BY <3>1
        <3>b. client.started + 1 = 1 /\ client.open \cup {0} = {0}
            BY <3>a
        <3>2. BlockStart(client, 0) = [client EXCEPT !.started = 1, !.open = {0}, !.broken = FALSE]
            BY <3>a, <3>b DEF BlockStart
        <3>3. BlockStart(client, 0) = [started |-> 1, open |-> {0}, stopped |-> FALSE, broken |-> FALSE]
            BY <3>1, <3>2
        <3>4. QED BY <2>1, <3>3 DEF Relayed
    <2>2. CASE writer.next = 1
        BY <1>3, <2>2
    <2>3. QED BY <1>3, <2>1, <2>2
<1> HIDE DEF c
<1>7. c = [started |-> 1, open |-> {0}, stopped |-> FALSE, broken |-> FALSE]
    BY <1>6 DEF Relayed
<1>8. CASE finish
    <2>1. BlockStop(c, 0) = [started |-> 1, open |-> {}, stopped |-> FALSE, broken |-> FALSE]
        <3>1. BlockStop(c, 0) = [c EXCEPT !.open = {}, !.broken = FALSE]
            BY <1>7 DEF BlockStop
        <3>2. QED BY <1>7, <3>1
    <2> DEFINE b == BlockStop(c, 0)
    <2>a. client' = MessageStop(b)
        BY <1>1, <1>8
    <2>b. b = [started |-> 1, open |-> {}, stopped |-> FALSE, broken |-> FALSE]
        BY <2>1
    <2> HIDE DEF b
    <2>c. MessageStop(b) = [b EXCEPT !.stopped = TRUE, !.broken = FALSE]
        BY <2>b DEF MessageStop
    <2>2. client' = [started |-> 1, open |-> {}, stopped |-> TRUE, broken |-> FALSE]
        BY <2>a, <2>b, <2>c
    <2>3. Complete(client')
        BY <2>2 DEF Complete, ClientType
    <2>4. upstream'.finish = TRUE /\ upstream'.usage = u
        BY <1>2, <1>8
    <2>5. QED BY <1>1, <1>2, <1>5, <2>3, <2>4 DEF StreamInv, Complete
<1>9. CASE ~finish
    <2>1. client' = [started |-> 1, open |-> {0}, stopped |-> FALSE, broken |-> FALSE]
        BY <1>1, <1>7, <1>9 DEF BlockDelta
    <2>2. client' = Relayed(1)
        BY <2>1 DEF Relayed
    <2>3. client' \in ClientType /\ ~client'.broken
        BY <2>1 DEF ClientType
    <2>4. upstream'.finish = FALSE /\ upstream'.usage = u
        BY <1>1, <1>2, <1>9
    <2>5. QED BY <1>1, <1>2, <1>5, <2>2, <2>3, <2>4 DEF StreamInv
<1>10. QED BY <1>8, <1>9

LEMMA BufferedKeeps ==
    ASSUME StreamInv, BufferedBlock \/ BufferedEnd
    PROVE  StreamInv'
<1>1. /\ style = "buffered" /\ upstream.at = "open" /\ ~upstream.finish /\ style' = style
      /\ writer \in WriterType /\ writer.next \in Nat /\ writer.usage = upstream.usage
      /\ upstream \in UpstreamType
    BY DEF StreamInv, BufferedBlock, BufferedEnd, Sends, WriterType
<1> DEFINE n == writer.next
<1>2. client = [started |-> n, open |-> {}, stopped |-> FALSE, broken |-> FALSE]
    BY <1>1 DEF StreamInv, Delivered
<1>3. ASSUME BufferedBlock PROVE StreamInv'
    <2> DEFINE c1 == BlockStart(client, n)
               c2 == BlockDelta(c1, n)
               c3 == BlockStop(c2, n)
    <2>1. /\ writer' = [writer EXCEPT !.next = n + 1] /\ client' = c3
          /\ Sends(TRUE, FALSE, FALSE, "none")
        BY <1>3 DEF BufferedBlock, Handled
    <2>2. /\ upstream' = [at |-> "open", finish |-> (upstream.finish \/ FALSE),
                          usage |-> Merged(writer, "none")]
          /\ upstream' \in UpstreamType
        BY <2>1, ChunkSent
    <2>3. upstream'.at = "open" /\ upstream'.finish = FALSE /\ upstream'.usage = writer.usage
        BY <1>1, <2>2 DEF Merged, UpstreamType
    <2>4. writer' \in WriterType /\ writer'.next = n + 1 /\ writer'.usage = writer.usage
        BY <1>1, <2>1 DEF WriterType
    <2> HIDE DEF n
    <2>5. c1 = [started |-> n + 1, open |-> {n}, stopped |-> FALSE, broken |-> FALSE]
        <3>1. /\ client.started = n /\ client.open = {} /\ client.stopped = FALSE
              /\ client.broken = FALSE /\ client.open \cup {n} = {n}
            BY <1>2
        <3>2. c1 = [client EXCEPT !.started = n + 1, !.open = {n}, !.broken = FALSE]
            BY <3>1 DEF BlockStart
        <3>3. QED BY <1>2, <3>2
    <2> HIDE DEF c1
    <2>6. c2 = c1
        <3>1. c1.stopped = FALSE /\ c1.broken = FALSE /\ n \in c1.open
            BY <2>5
        <3>2. c2 = [c1 EXCEPT !.broken = FALSE]
            BY <3>1 DEF BlockDelta
        <3>3. QED BY <2>5, <3>2
    <2> HIDE DEF c2
    <2>7. c3 = [started |-> n + 1, open |-> {}, stopped |-> FALSE, broken |-> FALSE]
        <3>1. c2.open = {n} /\ c2.stopped = FALSE /\ c2.broken = FALSE /\ c2.open \ {n} = {}
            BY <2>5, <2>6
        <3>2. c3 = [c2 EXCEPT !.open = {}, !.broken = FALSE]
            BY <3>1 DEF BlockStop
        <3>3. QED BY <2>5, <2>6, <3>2
    <2> HIDE DEF c3
    <2>8. client' = Delivered(writer'.next)
        BY <2>1, <2>4, <2>7 DEF Delivered
    <2>9. client' \in ClientType /\ ~client'.broken
        BY <1>1, <2>1, <2>7 DEF ClientType, n
    <2>10. QED BY <1>1, <2>2, <2>3, <2>4, <2>8, <2>9 DEF StreamInv
<1>4. ASSUME BufferedEnd PROVE StreamInv'
    <2>1. /\ writer' = [writer EXCEPT !.usage = "full"] /\ client' = MessageStop(client)
          /\ upstream' = [at |-> "ended", finish |-> TRUE, usage |-> "full"]
        BY <1>4 DEF BufferedEnd, Handled
    <2>2. upstream' \in UpstreamType /\ upstream'.finish = TRUE /\ upstream'.at = "ended" /\ upstream'.usage = "full"
        BY <2>1 DEF UpstreamType, Amount
    <2>3. writer' \in WriterType /\ writer'.usage = "full"
        BY <1>1, <2>1 DEF WriterType, Amount
    <2> HIDE DEF n
    <2>4. client' = [started |-> n, open |-> {}, stopped |-> TRUE, broken |-> FALSE]
        BY <1>2, <2>1 DEF MessageStop
    <2>5. Complete(client')
        BY <1>1, <2>4 DEF Complete, ClientType, n
    <2>6. QED BY <1>1, <2>2, <2>3, <2>5 DEF StreamInv, Complete
<1>5. QED BY <1>3, <1>4

\* The end of a stream, with a last line that reports usage or without.
LEMMA EndKeeps == ASSUME StreamInv, NEW usage, End(usage) PROVE StreamInv'
<1> DEFINE u == IF usage = "none" THEN upstream.usage ELSE usage
           v == Leftover(writer, usage)
           s == [w |-> [writer EXCEPT !.usage = v], c |-> client]
           t == IF style = "gemini" THEN GeminiEnd(s) ELSE s
<1>1. /\ style \in {"openai", "gemini", "anthropic"} /\ upstream.at = "open" /\ style' = style
      /\ usage \in Reported /\ (upstream.usage = "full" => usage \in {"none", "full"})
      /\ (style = "anthropic" /\ upstream.finish => usage = "none")
      /\ upstream' = [upstream EXCEPT !.at = "ended", !.usage = u]
      /\ writer' = t.w /\ client' = t.c
    BY DEF End, Handled, MayReport, StreamInv
<1>2. /\ upstream \in UpstreamType /\ writer \in WriterType /\ writer.usage = upstream.usage
      /\ upstream.usage \in Amount /\ client \in ClientType /\ ~client.broken
    BY <1>1 DEF StreamInv, UpstreamType
<1>3. u \in Amount /\ (style = "openai" => u # "part") /\ v \in Amount
    BY <1>1, <1>2 DEF Reported, Amount, StreamInv, Leftover, Merged
<1>4. upstream.finish => v = u
    <2>1. CASE style = "openai"
        <3>1. upstream.usage \in {"none", "full"} /\ usage \in {"none", "full"}
            BY <1>1, <1>2, <2>1 DEF StreamInv, Reported, Amount
        <3>2. v = Merged(writer, usage)
            BY <2>1 DEF Leftover
        <3>3. QED BY <1>1, <1>2, <2>1, <3>1, <3>2 DEF Merged
    <2>2. CASE style = "gemini"
        BY <1>2, <2>2 DEF Leftover, Merged
    <2>3. CASE style = "anthropic"
        BY <1>1, <1>2, <2>3 DEF Leftover, Merged
    <2>4. QED BY <1>1, <2>1, <2>2, <2>3
<1> HIDE DEF u, v
<1>5. upstream' = [at |-> "ended", finish |-> upstream.finish, usage |-> u]
    BY <1>1, <1>2 DEF UpstreamType
<1>6. /\ upstream' \in UpstreamType /\ upstream'.at = "ended" /\ upstream'.finish = upstream.finish
      /\ upstream'.usage = u
    BY <1>2, <1>3, <1>5 DEF UpstreamType
<1>7. writer' = [writer EXCEPT !.usage = v]
    BY <1>1 DEF GeminiEnd
<1>8. /\ writer' \in WriterType /\ writer'.usage = v /\ writer'.finishSent = writer.finishSent
      /\ writer'.next = writer.next /\ writer'.text = writer.text
    BY <1>2, <1>3, <1>7 DEF WriterType
<1>9. CASE style # "gemini"
    <2>1. client' = client
        BY <1>1, <1>9
    <2>2. style = "openai" /\ ~upstream.finish => Midway(writer', client')
        BY <1>3, <1>7, <2>1, UsageKeepsMidway DEF StreamInv
    <2>3. QED BY <1>1, <1>2, <1>3, <1>4, <1>6, <1>8, <1>9, <2>1, <2>2 DEF StreamInv
<1>10. CASE style = "gemini" /\ upstream.finish
    <2>1. s.w.finishSent = TRUE
        BY <1>2, <1>10 DEF StreamInv, Silent, WriterType
    <2>2. client' = client
        BY <1>1, <1>10, <2>1 DEF GeminiEnd
    <2>3. Silent(writer') /\ Complete(client')
        BY <1>8, <1>10, <2>2 DEF StreamInv, Silent
    <2>4. QED BY <1>1, <1>2, <1>4, <1>6, <1>8, <1>10, <2>2, <2>3 DEF StreamInv
<1>11. CASE style = "gemini" /\ ~upstream.finish
    <2>1. Midway(writer, client) /\ writer.finishSent = FALSE
        BY <1>1, <1>11 DEF StreamInv
    <2>2. Midway(s.w, s.c) /\ s.w.finishSent = FALSE
        BY <1>3, <2>1, UsageKeepsMidway
    <2> HIDE DEF s
    <2>3. client' = MessageStop(BlockStops(s.c, TextBlock(s.w)))
        BY <1>1, <1>11, <2>2 DEF GeminiEnd
    <2> DEFINE b == BlockStops(s.c, TextBlock(s.w))
    <2>4. b \in ClientType /\ ~b.broken /\ ~b.stopped
        BY <2>2 DEF Midway, BlockStops, ClientType
    <2> HIDE DEF b
    <2>5. MessageStop(b) \in ClientType /\ ~MessageStop(b).broken
        BY <2>4 DEF MessageStop, ClientType
    <2>6. client' \in ClientType /\ ~client'.broken
        BY <2>3, <2>5 DEF b
    <2>7. QED BY <1>1, <1>2, <1>6, <1>8, <1>11, <2>1, <2>6 DEF StreamInv
<1>12. QED BY <1>1, <1>9, <1>10, <1>11

LEMMA ErrorKeeps == ASSUME StreamInv, Error PROVE StreamInv'
<1>1. /\ style # "buffered" /\ upstream.at = "open" /\ UNCHANGED <<style, writer, client>>
      /\ upstream' = [upstream EXCEPT !.at = "failed"]
    BY DEF Error
<1>2. /\ upstream' \in UpstreamType /\ upstream'.finish = upstream.finish
      /\ upstream'.usage = upstream.usage /\ upstream'.at = "failed"
    BY <1>1 DEF StreamInv, UpstreamType
<1>3. Midway(writer, client)' = Midway(writer, client)
    BY <1>1 DEF Midway, TextBlock, Blocks
<1>4. QED BY <1>1, <1>2, <1>3 DEF StreamInv, Silent, Complete, Relayed

LEMMA StreamInvNext == StreamInv /\ [StreamNext]_streamVars => StreamInv'
<1> SUFFICES ASSUME StreamInv, [StreamNext]_streamVars PROVE StreamInv'
    OBVIOUS
<1>1. CASE UNCHANGED streamVars
    BY <1>1 DEF streamVars, StreamInv, Midway, Silent, Complete, Relayed, Delivered, TextBlock, Blocks
<1>2. CASE StreamNext
    BY <1>2, OpenAiChunkKeeps, GeminiChunkKeeps, AnthropicChunkKeeps, BufferedKeeps, EndKeeps, ErrorKeeps
    DEF StreamNext
<1>3. QED BY <1>1, <1>2

LEMMA StreamsKeepInv == StreamSpec => []StreamInv
    BY StreamInvInit, StreamInvNext, PTL DEF StreamSpec

\* StreamWellFormed for streams of any length and any number of tool calls:
\* no order of text, calls and the finish breaks the sequence of events.
THEOREM StreamsFit == StreamSpec => []StreamWellFormed
<1>1. StreamInv => StreamWellFormed
    BY DEF StreamInv, StreamWellFormed
<1>2. QED BY <1>1, StreamsKeepInv, PTL

\* FinishedIsDelivered: a message that was finished is complete for the client,
\* and what it cost is known when its stream has ended.
THEOREM FinishDelivered == StreamSpec => []FinishedIsDelivered
<1>1. StreamInv => FinishedIsDelivered
    BY DEF StreamInv, FinishedIsDelivered, Complete
<1>2. QED BY <1>1, StreamsKeepInv, PTL
=============================================================================
