------------------------------ MODULE Classifier ------------------------------
(***************************************************************************)
(* HybridClassifier.classify (lib/classifier/index.js) with the classifiers *)
(* that call out (llm-classifier.js, jev-classifier.js) and the cache of   *)
(* results (cache.js).  What is modelled is who pays: the usage of an LLM  *)
(* call is left in the one field lastClassifierUsage, and priced from      *)
(* there by whoever looks next.  What the request is classified as is any. *)
(*                                                                         *)
(* The call races a timer and is not cancelled: its answer may come after  *)
(* the request has gone on.  An answer and the continuations it resolves   *)
(* are one step.                                                           *)
(***************************************************************************)
EXTENDS Naturals, Sequences

CONSTANTS
    Calls,          \* requests to classify; each makes at most one LLM call
    Prompts,        \* cache keys: the last three messages (/v1/messages strips the system prompt)
    MaxCached,      \* classifier.cacheMaxEntries
    NoUsage

ASSUME PromptsAssumption == Prompts # {}
ASSUME CachedAssumption == MaxCached \in Nat \ {0}
ASSUME NoUsageAssumption == NoUsage \notin Calls

VARIABLES
    boot,           \* set up at boot: the LLM classifier's model, the Jev key
    mode,           \* classifier.mode, read by each request, set by the operator
    cached,         \* the cache, least recently used first
    lastUsage,      \* lastClassifierUsage: the call whose usage it is
    classify,       \* where each request is
    answer,         \* the HTTP call of its LLM classification
    charge          \* metadata.classifierCost: the call whose usage is priced

classifierVars == <<boot, mode, cached, lastUsage, classify, answer, charge>>

CallState == {"idle", "llm", "auto", "jev", "retry", "done", "hit", "failed"}
Asking == {"llm", "auto"}

ClassifierInit ==
    /\ boot \in SUBSET {"model", "key"}
    /\ mode \in {"auto", "llm", "jev"}
    /\ cached = <<>>
    /\ lastUsage = NoUsage
    /\ classify = [r \in Calls |-> [at |-> "idle", prompt |-> CHOOSE p \in Prompts : TRUE]]
    /\ answer = [r \in Calls |-> "none"]
    /\ charge = [r \in Calls |-> NoUsage]

\* POST /config/classifier of the operator
SetMode(m) ==
    /\ m # mode
    /\ mode' = m
    /\ UNCHANGED <<boot, cached, lastUsage, classify, answer, charge>>

At(r, where) == classify' = [classify EXCEPT ![r].at = where]
Begins(r, p, where) == classify' = [classify EXCEPT ![r] = [at |-> where, prompt |-> p]]

(***************************************************************************)
(* The cache.                                                              *)
(***************************************************************************)

Without(p) == SelectSeq(cached, LAMBDA e : e.prompt # p)
Entry(p) == SelectSeq(cached, LAMBDA e : e.prompt = p)

\* set: the oldest goes when it is full, whether or not the key is there; a
\* key that is there keeps its place.
CacheSet(p, paid) ==
    LET kept == IF Len(cached) >= MaxCached THEN Tail(cached) ELSE cached
        new == [prompt |-> p, charge |-> paid]
    IN  IF \E i \in DOMAIN kept : kept[i].prompt = p
        THEN [i \in DOMAIN kept |-> IF kept[i].prompt = p THEN new ELSE kept[i]]
        ELSE Append(kept, new)

\* TTL
Age ==
    /\ cached # <<>>
    /\ \E e \in {cached[i] : i \in DOMAIN cached} : cached' = Without(e.prompt)
    /\ UNCHANGED <<boot, mode, lastUsage, classify, answer, charge>>

(***************************************************************************)
(* classify                                                                *)
(***************************************************************************)

\* The cached result, with the metadata of the request that it was made for.
Hit(r, p) ==
    /\ classify[r].at = "idle" /\ mode = "auto"
    /\ Entry(p) # <<>>
    /\ Begins(r, p, "hit")
    /\ cached' = Without(p) \o Entry(p)
    /\ charge' = [charge EXCEPT ![r] = Entry(p)[1].charge]
    /\ UNCHANGED <<boot, mode, lastUsage, answer>>

\* The three free signals agree enough, one of them is sure, or there is no
\* model to ask.
Free(r, p) ==
    /\ classify[r].at = "idle" /\ mode = "auto"
    /\ Entry(p) = <<>>
    /\ Begins(r, p, "done")
    /\ cached' = CacheSet(p, NoUsage)
    /\ UNCHANGED <<boot, mode, lastUsage, answer, charge>>

\* Phase 4, or mode "llm": POST to the classifier's provider.
Ask(r, p) ==
    /\ classify[r].at = "idle" /\ "model" \in boot
    /\ mode = "llm" \/ (mode = "auto" /\ Entry(p) = <<>>)
    /\ Begins(r, p, mode)
    /\ answer' = [answer EXCEPT ![r] = "pending"]
    /\ UNCHANGED <<boot, mode, cached, lastUsage, charge>>

\* Mode "llm" without a model, or "jev" without its key, throws.
Refuse(r, p) ==
    /\ classify[r].at = "idle"
    /\ \/ mode = "llm" /\ "model" \notin boot
       \/ mode = "jev" /\ "key" \notin boot
    /\ Begins(r, p, "failed")
    /\ UNCHANGED <<boot, mode, cached, lastUsage, answer, charge>>

\* Mutant: _classifierCallCost leaves the field as it is.
ResetForgotten(usage) == usage
\* _classifierCallCost resets the field that it has read.
Reset(usage) == NoUsage

\* _classifierCallCost by r, the field holding "usage".  In mode "auto" the
\* result that the cost is attached to is in the cache.
Price(r, usage) ==
    /\ lastUsage' = Reset(usage)
    /\ charge' = [charge EXCEPT ![r] = usage]
    /\ At(r, "done")
    /\ cached' = IF classify[r].at = "auto" THEN CacheSet(classify[r].prompt, usage) ELSE cached

\* An answer in time, with usage or without: the result is refined with it,
\* or in mode "auto" degraded if it cannot be parsed.
AnsweredInTime(r, usage) ==
    /\ answer[r] = "pending" /\ classify[r].at \in Asking
    /\ answer' = [answer EXCEPT ![r] = "intime"]
    /\ Price(r, usage)
    /\ UNCHANGED <<boot, mode>>

\* Mode "llm" throws what it cannot parse, and nobody prices the usage.
Unparseable(r, usage) ==
    /\ answer[r] = "pending" /\ classify[r].at = "llm"
    /\ answer' = [answer EXCEPT ![r] = "intime"]
    /\ lastUsage' = usage
    /\ At(r, "failed")
    /\ UNCHANGED <<boot, mode, cached, charge>>

\* The request goes on without an answer: mode "auto" degrades, and prices
\* whatever the field holds; mode "llm" throws.
GoesOn(r) ==
    /\ \/ classify[r].at = "auto" /\ Price(r, lastUsage)
       \/ classify[r].at = "llm" /\ At(r, "failed") /\ UNCHANGED <<cached, lastUsage, charge>>
    /\ UNCHANGED <<boot, mode>>

TimesOut(r) ==
    /\ answer[r] = "pending"
    /\ GoesOn(r)
    /\ UNCHANGED answer

HttpFails(r) ==
    /\ answer[r] = "pending"
    /\ answer' = [answer EXCEPT ![r] = "error"]
    /\ GoesOn(r)

\* The answer of a call whose request has gone on.
LateAnswer(r, usage) ==
    /\ answer[r] = "pending" /\ classify[r].at \notin Asking
    /\ answer' = [answer EXCEPT ![r] = "late"]
    /\ lastUsage' = usage
    /\ UNCHANGED <<boot, mode, cached, classify, charge>>

(***************************************************************************)
(* Mode "jev": one call, retried once when the service is overloaded, and  *)
(* degraded rather than failed.  It costs nothing that is known.           *)
(***************************************************************************)

AskJev(r, p) ==
    /\ classify[r].at = "idle" /\ mode = "jev" /\ "key" \in boot
    /\ Begins(r, p, "jev")
    /\ UNCHANGED <<boot, mode, cached, lastUsage, answer, charge>>

Overloaded(r) ==
    /\ classify[r].at = "jev"
    /\ At(r, "retry")
    /\ UNCHANGED <<boot, mode, cached, lastUsage, answer, charge>>

\* Mutant: the loop ends after the retry without a result.
JevEndsOnce(r) ==
    /\ classify[r].at = "jev"
    /\ At(r, "done")
    /\ UNCHANGED <<boot, mode, cached, lastUsage, answer, charge>>
JevEnds(r) ==
    /\ classify[r].at \in {"jev", "retry"}
    /\ At(r, "done")
    /\ UNCHANGED <<boot, mode, cached, lastUsage, answer, charge>>

ClassifierNext ==
    \/ \E m \in {"auto", "llm", "jev"} : SetMode(m)
    \/ Age
    \/ \E r \in Calls, p \in Prompts :
          Hit(r, p) \/ Free(r, p) \/ Ask(r, p) \/ Refuse(r, p) \/ AskJev(r, p)
    \/ \E r \in Calls, usage \in Calls \cup {NoUsage} :
          /\ usage \in {r, NoUsage}
          /\ AnsweredInTime(r, usage) \/ Unparseable(r, usage) \/ LateAnswer(r, usage)
    \/ \E r \in Calls : TimesOut(r) \/ HttpFails(r) \/ Overloaded(r) \/ JevEnds(r)

ClassifierSpec == ClassifierInit /\ [][ClassifierNext]_classifierVars

\* The race has a timer of 8 s and the Jev call one of 5 s.
ClassifierFairness == \A r \in Calls : WF_classifierVars(TimesOut(r)) /\ WF_classifierVars(JevEnds(r))
-----------------------------------------------------------------------------
(***************************************************************************)
(* Properties.                                                             *)
(***************************************************************************)

\* No LLM call is priced in two results, other than by the cache: "resets
\* the capture so a stale response is never double-counted" (index.js:256),
\* with requests in all three modes at once, timeouts and late answers.
UsagePricedOnce ==
    \A r, s \in Calls :
        classify[r].at = "done" /\ classify[s].at = "done"
            /\ charge[r] # NoUsage /\ charge[r] = charge[s]
        => r = s

\* The field is shared, yet whoever was answered in time pays for its own
\* call, and what another call left behind came late, or was never priced
\* because mode "llm" threw its result away.
StrayUsageWasLeft ==
    \A r \in Calls :
        classify[r].at = "done" /\ charge[r] \notin {r, NoUsage} =>
            /\ answer[r] # "intime"
            /\ answer[charge[r]] = "late" \/ classify[charge[r]].at = "failed"

\* Both: each usage is attributed to one request, and to its own if it can be.
UsageIsAttributed == UsagePricedOnce /\ StrayUsageWasLeft

\* "Debit that balance by provider + classifier + compaction spend of every
\* served request" (DEPLOY.md:355): no LLM call is charged to two requests,
\* those that are answered from the cache included.
SpendChargedOnce ==
    \A r, s \in Calls :
        classify[r].at \in {"done", "hit"} /\ classify[s].at \in {"done", "hit"}
            /\ charge[r] # NoUsage /\ charge[r] = charge[s]
        => r = s

\* Every classification that starts ends, whatever the providers do.
ClassificationEnds ==
    \A r \in Calls :
        classify[r].at \in {"llm", "auto", "jev", "retry"}
            ~> classify[r].at \in {"done", "failed"}
===============================================================================
