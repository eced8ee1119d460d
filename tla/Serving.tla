------------------------------- MODULE Serving -------------------------------
(***************************************************************************)
(* POST /v1/messages (index.js): a request is classified or names a model, *)
(* may be compacted, is served by the selected model, or after a failure   *)
(* by the first model of the fallback chain that answers, and is recorded  *)
(* once.  A model whose provider takes fewer tools than the request        *)
(* carries is served in internal rounds: it gets some of the tools inline  *)
(* and the ToolSearch meta-tool for the others (lib/tool-pruning.js), and  *)
(* what it finds is kept for the conversation (lib/tools-registry.js).     *)
(*                                                                         *)
(* Every await is a step boundary, so the requests of a conversation       *)
(* interleave.  Admission and the routing decision are not modelled: any   *)
(* model may be selected.                                                  *)
(***************************************************************************)
EXTENDS Integers, Sequences, FiniteSets, SequencesExt

CONSTANTS
    Requests,       \* requests of one conversation family
    Models,         \* models whose provider is available
    Chain,          \* router.providerFallbackChain, the available ones
    Capped,         \* models of a provider with a cap on the tools list
    Incompatible,   \* models that cannot serve function tools (gpt-6)
    Tools,          \* tools that pruning may defer
    None

ASSUME ChainAssumption == Chain \in Seq(Models) /\ IsInjective(Chain)
ASSUME ModelsAssumption == Capped \subseteq Models /\ Incompatible \subseteq Models

MaxRounds == 3

VARIABLES
    registry,       \* toolsRegistry: tools discovered in the conversation
    pc,             \* the await a request is in
    request,        \* asked for SSE?  how many tools?  the model selected for it
    call,           \* the call under way: model, round, and the tools inline
    discovered,     \* the snapshot of the registry taken on the way to a model
    found,          \* history: tools resolved for the model being served
    attempts,       \* providerAttempts
    tried,          \* chain index of the last fallback, 0 before the first
    body,           \* what the client has been sent
    spent,          \* classifier and compaction spend of the request
    record          \* what metrics.record was told

vars == <<registry, pc, request, call, discovered, found, attempts, tried,
          body, spent, record>>

Attempt == [model : Models, ok : BOOLEAN, usage : BOOLEAN]
Recording == [serving : Attempt \cup {None}, classifier : BOOLEAN, compaction : BOOLEAN]
NoCall == [model |-> None, round |-> 0, inline |-> {}]
Final == {"answer", "search", "cut", "error"}

ASSUME ServingNoneAssumption ==
    None \notin Models /\ None \notin Tools /\ None \notin Attempt /\ None \notin Recording

TypeOK ==
    /\ registry \subseteq Tools
    /\ pc \in [Requests -> {"idle", "classify", "compact", "call", "fallback", "done"}]
    /\ request \in [Requests -> [stream : BOOLEAN, tools : {"none", "few", "many"}, model : Models \cup {None}]]
    /\ call \in [Requests -> [model : Models \cup {None}, round : 0..(MaxRounds - 1),
                              inline : SUBSET Tools]]
    /\ discovered \in [Requests -> SUBSET Tools]
    /\ found \in [Requests -> SUBSET Tools]
    /\ attempts \in [Requests -> Seq(Attempt)]
    /\ tried \in [Requests -> 0..Len(Chain)]
    /\ body \in [Requests -> {"none", "open"} \cup Final]
    /\ spent \in [Requests -> [classifier : BOOLEAN, compaction : BOOLEAN]]
    /\ record \in [Requests -> Recording \cup {None}]

NoSpend == [classifier |-> FALSE, compaction |-> FALSE]

Init ==
    /\ registry = {}
    /\ pc = [r \in Requests |-> "idle"]
    /\ request = [r \in Requests |-> [stream |-> FALSE, tools |-> "none", model |-> None]]
    /\ call = [r \in Requests |-> NoCall]
    /\ discovered = [r \in Requests |-> {}]
    /\ found = [r \in Requests |-> {}]
    /\ attempts = [r \in Requests |-> <<>>]
    /\ tried = [r \in Requests |-> 0]
    /\ body = [r \in Requests |-> "none"]
    /\ spent = [r \in Requests |-> NoSpend]
    /\ record = [r \in Requests |-> None]

HeadersSent(r) == body[r] # "none"

(***************************************************************************)
(* Up to the first provider call.                                          *)
(***************************************************************************)

Arrive(r, stream, tools) ==
    /\ pc[r] = "idle"
    /\ pc' = [pc EXCEPT ![r] = "classify"]
    /\ request' = [request EXCEPT ![r] = [stream |-> stream, tools |-> tools, model |-> None]]
    /\ UNCHANGED <<registry, call, discovered, found, attempts, tried, body, spent, record>>

\* The classifier answers, paid or not, and the router selects a model; a
\* model named by the caller costs nothing to select.
Select(r, m, paid) ==
    /\ pc[r] = "classify"
    /\ pc' = [pc EXCEPT ![r] = "compact"]
    /\ request' = [request EXCEPT ![r].model = m]
    /\ spent' = [spent EXCEPT ![r].classifier = paid]
    /\ UNCHANGED <<registry, call, discovered, found, attempts, tried, body, record>>

\* The classifier or the router throws (the outer catch), or the named model
\* has no provider: a 500, and nothing is recorded.
SelectFails(r) ==
    /\ pc[r] = "classify"
    /\ pc' = [pc EXCEPT ![r] = "done"]
    /\ body' = [body EXCEPT ![r] = "error"]
    /\ UNCHANGED <<registry, request, call, discovered, found, attempts, tried, spent, record>>

\* "many" is more than the provider of any capped model takes.
Pruned(r, m) == request[r].tools = "many" /\ m \in Capped

\* What reaches a model at the start of serveModel: some of the tools already
\* discovered fit inline, the others are deferred.  An unpruned stream flushes
\* its headers before the provider is called.
Serve(r, m, snapshot) ==
    /\ pc' = [pc EXCEPT ![r] = "call"]
    /\ call' = [call EXCEPT ![r] = [model |-> m, round |-> 0,
                                    inline |-> IF Pruned(r, m) THEN snapshot ELSE Tools]]
    /\ found' = [found EXCEPT ![r] = {}]
    /\ body' = [body EXCEPT ![r] = IF request[r].stream /\ ~Pruned(r, m) THEN "open" ELSE @]

\* Compaction may pay for a summary, and never fails the request.  The
\* registry is read after it; a model that cannot serve tools is not called.
Compact(r, paid) ==
    LET m == request[r].model IN
    /\ pc[r] = "compact"
    /\ spent' = [spent EXCEPT ![r].compaction = paid]
    /\ discovered' = [discovered EXCEPT ![r] = registry]
    /\ IF m \in Incompatible /\ request[r].tools # "none"
       THEN /\ pc' = [pc EXCEPT ![r] = "fallback"]
            /\ UNCHANGED <<call, found, body>>
       ELSE Serve(r, m, registry)
    /\ UNCHANGED <<registry, request, attempts, tried, record>>

(***************************************************************************)
(* The call.                                                               *)
(***************************************************************************)

Attempted(r, ok, usage) ==
    [attempts EXCEPT ![r] = Append(@, [model |-> call[r].model, ok |-> ok, usage |-> usage])]

\* Mutant: the first attempt is recorded, whether it succeeded or not.
FirstAttempt(seq) == IF seq = <<>> THEN None ELSE seq[1]
\* providerAttempts.find((a) => a.ok) || providerAttempts[0] || null
ServingAttempt(seq) ==
    LET ok == {i \in DOMAIN seq : seq[i].ok} IN
    IF ok # {} THEN seq[Min(ok)] ELSE IF seq # <<>> THEN seq[1] ELSE None

\* metrics.record, then the handler returns.
Finish(r, seq) ==
    /\ pc' = [pc EXCEPT ![r] = "done"]
    /\ record' = [record EXCEPT ![r] = [serving |-> ServingAttempt(seq),
                                        classifier |-> spent[r].classifier,
                                        compaction |-> spent[r].compaction]]

\* A response that calls no ToolSearch is delivered: an unpruned stream has
\* been relayed, with or without usage, to its end or until it was cut (both
\* end the response and count as served).
Answered(r, usage, cut) ==
    /\ pc[r] = "call"
    /\ cut => request[r].stream /\ ~Pruned(r, call[r].model)
    /\ cut => ~usage
    /\ attempts' = Attempted(r, TRUE, usage)
    /\ body' = [body EXCEPT ![r] = IF cut THEN "cut" ELSE "answer"]
    /\ Finish(r, attempts'[r])
    /\ UNCHANGED <<registry, request, call, discovered, found, tried, spent>>

\* Mutant: the intermediate rounds answer on the client's response.
RelayedRound(r) == [body EXCEPT ![r] = "search"]
\* swallowRes
SwallowedRound(r) == body

\* Mutant: a query that resolves to nothing is recorded like the others.
ResolvedAny(tool) == {tool}
Resolved(tool) == {tool} \ {None}

\* The model calls ToolSearch and the query resolves to a tool, or to none.
\* The exchange is appended and the model called again; the tools inline stay
\* as they were, since the pruned list already holds a ToolSearch and
\* buildPrunedBody leaves such a list alone.
Search(r, tool) ==
    LET c == call[r] IN
    /\ pc[r] = "call"
    /\ Pruned(r, c.model)
    /\ attempts' = Attempted(r, TRUE, TRUE)
    /\ registry' = registry \cup Resolved(tool)
    /\ found' = [found EXCEPT ![r] = @ \cup Resolved(tool)]
    /\ IF c.round < MaxRounds - 1
       THEN /\ call' = [call EXCEPT ![r].round = @ + 1]
            /\ body' = SwallowedRound(r)
            /\ UNCHANGED <<pc, record>>
       ELSE /\ body' = [body EXCEPT ![r] = "search"]
            /\ Finish(r, attempts'[r])
            /\ UNCHANGED call
    /\ UNCHANGED <<request, discovered, tried, spent>>

\* The provider refuses, times out or answers something unreadable.
CallFails(r) ==
    /\ pc[r] = "call"
    /\ attempts' = Attempted(r, FALSE, FALSE)
    /\ pc' = [pc EXCEPT ![r] = "fallback"]
    /\ UNCHANGED <<registry, request, call, discovered, found, tried, body, spent, record>>

\* Mutant: the model that has just failed is not skipped.
WholeRest(r) == {i \in DOMAIN Chain : i > tried[r]}
\* The rest of the chain, without the model that has just failed.
Rest(r) == {i \in DOMAIN Chain : i > tried[r] /\ Chain[i] # request[r].model}

\* Mutant: a failure after the headers goes on to the next model.
NeverTooLate(r) == FALSE
\* if (res.headersSent) break
TooLate(r) == HeadersSent(r)

\* The next model of the chain, unless the client has already got headers.
Fallback(r) ==
    /\ pc[r] = "fallback"
    /\ ~TooLate(r)
    /\ \E i \in Rest(r) :
          /\ \A j \in Rest(r) : i <= j
          /\ tried' = [tried EXCEPT ![r] = i]
          /\ Serve(r, Chain[i], discovered[r])
    /\ UNCHANGED <<registry, request, discovered, attempts, spent, record>>

\* Mutant: the error response is forgotten.
FailedSilently(r) == body
\* if (!fallbackSuccess && !res.headersSent) res.status(...).json(...)
Failed(r) == [body EXCEPT ![r] = IF HeadersSent(r) THEN @ ELSE "error"]

\* Nothing is left to try: an error, if the headers are still to be sent.  A
\* stream that flushed them stays open.
GiveUp(r) ==
    /\ pc[r] = "fallback"
    /\ TooLate(r) \/ Rest(r) = {}
    /\ body' = Failed(r)
    /\ Finish(r, attempts[r])
    /\ UNCHANGED <<registry, request, call, discovered, found, attempts, tried, spent>>

\* The family expires after 60 idle minutes, or is evicted by newer ones.
Expire ==
    /\ registry # {}
    /\ registry' = {}
    /\ UNCHANGED <<pc, request, call, discovered, found, attempts, tried, body, spent, record>>

Handle(r) ==
    \/ \E m \in Models, paid \in BOOLEAN : Select(r, m, paid)
    \/ SelectFails(r)
    \/ \E paid \in BOOLEAN : Compact(r, paid)
    \/ \E usage \in BOOLEAN, cut \in BOOLEAN : Answered(r, usage, cut)
    \/ \E tool \in Tools \cup {None} : Search(r, tool)
    \/ CallFails(r)
    \/ Fallback(r)
    \/ GiveUp(r)

Next ==
    \/ \E r \in Requests, stream \in BOOLEAN, tools \in {"none", "few", "many"} :
           Arrive(r, stream, tools)
    \/ \E r \in Requests : Handle(r)
    \/ Expire

Spec == Init /\ [][Next]_vars

\* Every call of a non-streamed response ends: axios gives up after 300 s, and
\* so do the calls of the classifier and of the compaction.  A relayed stream
\* may stall for ever.
ServingFairness ==
    \A r \in Requests :
        WF_vars(Handle(r) /\ (pc[r] = "call" => body[r] # "open"))

FairSpec == Spec /\ ServingFairness

-----------------------------------------------------------------------------
(***************************************************************************)
(* Properties.                                                             *)
(***************************************************************************)

\* A response is ended once: no internal round, fallback or error is written
\* after an answer.
AnswerIsFinal ==
    [][\A r \in Requests : body[r] \in Final => body'[r] = body[r]]_vars

\* A client that got the provider's answer is recorded with a call that
\* succeeded, so that a failure on the way never makes a served request free.
ServedIsRecorded ==
    \A r \in Requests : body[r] \in {"answer", "search", "cut"} =>
        /\ record[r] # None
        /\ record[r].serving # None
        /\ record[r].serving.ok

\* A model that failed a request is not called again for it.
NoFailedModelAgain ==
    \A r \in Requests : \A i, j \in DOMAIN attempts[r] :
        i < j /\ ~attempts[r][i].ok => attempts[r][j].model # attempts[r][i].model

\* Once the headers of a stream are out no other model writes to it.
StreamKeepsModel ==
    [][\A r \in Requests : body[r] = "open" => call'[r].model = call[r].model]_vars

\* A request that is over has been answered, unless it was relayed as a
\* stream and the provider refused it.
AnsweredAtEnd ==
    \A r \in Requests :
        pc[r] = "done" /\ body[r] \notin Final =>
            /\ body[r] = "open"
            /\ request[r].stream
            /\ attempts[r] # <<>>
            /\ ~Last(attempts[r]).ok
            /\ ~Pruned(r, Last(attempts[r]).model)

\* A request that did not ask for a stream is answered in the end, through
\* rounds, failures and fallbacks.
EventuallyAnswered ==
    \A r \in Requests :
        pc[r] = "classify" /\ ~request[r].stream ~> body[r] \in Final

\* index.js:1025: "Primary provider failed — try fallback chain".
FailureTriesChain ==
    \A r \in Requests :
        /\ pc[r] = "done"
        /\ attempts[r] # <<>> /\ ~attempts[r][1].ok
        /\ \E i \in DOMAIN Chain : Chain[i] # request[r].model
        => tried[r] > 0

\* index.js:995: "Discovery may have grown the inline set — re-prune".
DiscoveredIsInlined ==
    \A r \in Requests : pc[r] = "call" => found[r] \subseteq call[r].inline

\* DEPLOY.md:355: the balance is debited "by provider + classifier +
\* compaction spend of every served request": of the calls that reported usage
\* only the recorded one is.
EveryCallIsBilled ==
    \A r \in Requests : pc[r] = "done" =>
        Cardinality({i \in DOMAIN attempts[r] : attempts[r][i].usage}) <= 1
=============================================================================
