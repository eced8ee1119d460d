-------------------------------- MODULE Fusion --------------------------------
(***************************************************************************)
(* fuse (lib/classifier/fusion.js): the signals of several classifiers are *)
(* one classification.  A signal is a classification c and its source;     *)
(* "opinion" is FALSE for the profile (noTaskOpinion), whose metadata also *)
(* says whether the request has tools ("unknown" for the others) and is    *)
(* large.  Signals are a sequence: of two values with the same weight, the *)
(* one that was voted first wins.                                          *)
(***************************************************************************)
EXTENDS Taxonomy, Sequences, FiniteSetsExt

CONSTANT Weights    \* classifier.fusionWeights, in hundredths

ASSUME WeightsAssumption == Weights \in [{"rule", "embedding", "profile", "llm"} -> Nat]

\* A ballot is a classification c and the weight w of its votes.
WeightOf(ballots, voters) == MapThenSumSet(LAMBDA i : ballots[i].w, voters)
Values(ballots, field) == UNION {ballots[i].c[field] : i \in DOMAIN ballots}

\* tallyScalar: value -> weight
Tally(ballots, field) ==
    [v \in {ballots[i].c[field] : i \in DOMAIN ballots} |->
        WeightOf(ballots, {i \in DOMAIN ballots : ballots[i].c[field] = v})]

\* pluralityWinner
Plurality(ballots, voters, field) ==
    LET Votes(i) == WeightOf(ballots, {j \in voters : ballots[j].c[field] = ballots[i].c[field]})
        best == CHOOSE i \in voters : \A j \in voters :
                    Votes(i) > Votes(j) \/ (Votes(i) = Votes(j) /\ i <= j)
    IN  ballots[best].c[field]

\* severityWinner: the most severe value with enough of the leading weight
Severity(ballots, field, rank, percent) ==
    LET votes == Tally(ballots, field)
        supported == {v \in DOMAIN votes : \A w \in DOMAIN votes : 100 * votes[v] >= percent * votes[w]}
    IN  CHOOSE v \in supported : \A w \in supported : rank[v] >= rank[w]

\* unionLists: the values with enough of the weight of the weightiest; the
\* weight of a value is that of the weightiest ballot with it.
UnionLists(ballots, field, percent) ==
    LET ValueWeight(v) == Max({ballots[i].w : i \in {j \in DOMAIN ballots : v \in ballots[j].c[field]}})
        values == Values(ballots, field)
    IN  {v \in values : \A w \in values : 100 * ValueWeight(v) >= percent * ValueWeight(w)}

\* Mutant: modalities have the threshold of the other lists.
ModalitiesAsLists(ballots) == UnionLists(ballots, "input_modalities", 30)
FusedModalities(ballots) == UnionLists(ballots, "input_modalities", 25)

\* The weight of a signal, in 1/10000: one without confidence still has a say.
Ballots(signals) ==
    [i \in DOMAIN signals |->
        [c |-> signals[i].c,
         w |-> Weights[signals[i].source] *
                (IF signals[i].c.confidence < 5 THEN 5 ELSE signals[i].c.confidence)]]
Voted(ballots, field) == Plurality(ballots, DOMAIN ballots, field)

\* persona: of those that produced one, the most confident; the first of equals
SparseField(signals, field) ==
    LET given == {i \in DOMAIN signals : signals[i].c[field] # NoText}
        best == CHOOSE i \in given : \A j \in given :
                    \/ signals[i].c.confidence > signals[j].c.confidence
                    \/ signals[i].c.confidence = signals[j].c.confidence /\ i <= j
    IN  IF given = {} THEN NoText ELSE signals[best].c[field]

\* Mutant: everybody has to recommend it.
FlaggedByAll(signals, field) ==
    \A i \in DOMAIN signals : signals[i].c[field] /\ signals[i].c.confidence > 30
\* OR logic: one clear signal is enough
Flagged(signals, field) ==
    \E i \in DOMAIN signals : signals[i].c[field] /\ signals[i].c.confidence > 30

\* The mean of those that do not abstain, and a bonus for agreement.
FusedConfidence(signals) ==
    LET heard == {i \in DOMAIN signals : signals[i].c.confidence >= 20}
        total == MapThenSumSet(LAMBDA i : Weights[signals[i].source], heard)
        sum == MapThenSumSet(LAMBDA i : Weights[signals[i].source] * signals[i].c.confidence, heard)
        mean == IF heard = {} THEN 10 ELSE (2 * sum + total) \div (2 * total)
        task == Voted(Ballots(signals), "primary_task")
        agree == Cardinality({i \in DOMAIN signals : signals[i].c.primary_task = task})
        bonus == IF agree = Len(signals) THEN 8 ELSE IF agree >= 2 THEN 5 ELSE 0
    IN  IF bonus > 0 /\ mean + bonus > 95 THEN 95 ELSE mean + bonus

\* routing.model_type: whoever has an opinion on the task votes.
VotedModelType(signals) ==
    LET voters == {i \in DOMAIN signals : signals[i].opinion}
    IN  Plurality(Ballots(signals), voters, "model_type")

\* hasToolDefinitions: a signal that does not say is judged by its tools.
ToolsMeant(signals) ==
    \E i \in DOMAIN signals :
        IF signals[i].activity # "unknown" THEN signals[i].activity # "none"
        ELSE signals[i].c.tools \cap {"code_interpreter", "database", "file_reader"} # {}

\* The lists "routing.tools" are looked up under that name and found empty.
FusedClassification(signals) ==
    LET ballots == Ballots(signals)
        task == Voted(ballots, "primary_task")
    IN  [primary_task |-> task,
         secondary_tasks |-> UnionLists(ballots, "secondary_tasks", 30) \ {task},
         domain |-> Voted(ballots, "domain"),
         persona |-> SparseField(signals, "persona"),
         capabilities |-> UnionLists(ballots, "capabilities", 30),
         input_modalities |-> FusedModalities(ballots),
         output_format |-> Voted(ballots, "output_format"),
         complexity |-> Severity(ballots, "complexity", ComplexityRank, 33),
         risk |-> Severity(ballots, "risk", RiskRank, 33),
         freshness |-> Severity(ballots, "freshness", FreshnessRank, 33),
         latency_preference |-> Voted(ballots, "latency_preference"),
         model_type |-> VotedModelType(signals),
         tools |-> {},
         use_multi_step_pipeline |-> Flagged(signals, "use_multi_step_pipeline"),
         human_review_recommended |-> Flagged(signals, "human_review_recommended"),
         confidence |-> FusedConfidence(signals)]

\* No signal has safetySensitive in its metadata.
FusedContext(signals) ==
    [hasLargeInput |-> \E i \in DOMAIN signals : signals[i].large,
     hasToolDefinitions |-> ToolsMeant(signals), safetySensitive |-> FALSE, forceModelType |-> FALSE]

Fuse(signals) == ApplyRoutingRules(FusedClassification(signals), FusedContext(signals))
===============================================================================
