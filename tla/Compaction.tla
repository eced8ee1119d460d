------------------------------ MODULE Compaction ------------------------------
(***************************************************************************)
(* Rolling compaction (lib/compaction.js): the store of frozen summaries   *)
(* and the summarize calls in flight, as the requests of one family use    *)
(* them.  A family is all conversations with the same system prompt; every *)
(* key carries it, so families do not meet.  A summary is modelled by the  *)
(* messages that its making rendered, whatever the model made of them, and *)
(* the cut a request drops at is any (module CompactionCut finds it).      *)
(*                                                                         *)
(* Up to its await a request is one step.  When the call ends, the         *)
(* continuations of the request that made it and of those that joined it   *)
(* run before the next event, so they are one step too.                    *)
(***************************************************************************)
EXTENDS Integers, Sequences, FiniteSetsExt

CONSTANTS
    Compactors,     \* requests of the family that reach maybeCompact
    Threads,        \* its conversations
    History,        \* the messages of each conversation, append-only
    MaxSummaries,   \* compaction.store.maxEntries
    MaxDropped,     \* compaction.maxDroppedChars, in messages
    Nobody

ASSUME HistoryAssumption == Threads # {} /\ History \in [Threads -> Seq(STRING)]
ASSUME NobodyAssumption == Nobody \notin Compactors
ASSUME BoundsAssumption == {MaxSummaries, MaxDropped} \subseteq Nat \ {0}

VARIABLES
    summaries,      \* the store; nth is an entry's place in insertion order
    inflight,       \* the key of each call under way, and who made it
    compactor,      \* where each request is, and what it drops
    gets            \* what was spliced into its body: text, an object, nothing

compactionVars == <<summaries, inflight, compactor, gets>>

Cuts == UNION {1..Len(History[t]) : t \in Threads}
Nothing == [kind |-> "nothing", covers |-> <<>>]

CompactionInit ==
    /\ summaries = {}
    /\ inflight = [n \in Cuts |-> Nobody]
    /\ compactor = [r \in Compactors |-> [at |-> "idle", thread |-> CHOOSE t \in Threads : TRUE,
                                          cut |-> 0, target |-> <<>>]]
    /\ gets = [r \in Compactors |-> Nothing]

(***************************************************************************)
(* The store.  An entry that has outlived its TTL is stale, and stays in   *)
(* the map until something meets it.                                       *)
(***************************************************************************)

\* get, for an entry under the key: still fresh, and its last message the
\* one that is dropped last now.
Valid(e, t, n) == e.cut = n /\ ~e.stale /\ e.boundary = History[t][n]

\* get removes what it finds under the key and cannot use.
GetRemoves(store, t, n) == {e \in store : e.cut # n \/ Valid(e, t, n)}

\* findPrevious: the entry with the largest smaller cut, among the fresh; it
\* removes the stale ones.
Fresh(store) == {e \in store : ~e.stale}
Smaller(store, n) == {e \in Fresh(store) : e.cut < n}

\* renderDropped, of the messages after the first m: the tail that there is
\* room for.
Rendered(t, m, n) ==
    SubSeq(History[t], (IF n - m > MaxDropped THEN n - MaxDropped ELSE m) + 1, n)

\* Mutant: an earlier summary is folded in whatever it ends with.
ContinuesAny(e, t) == TRUE
\* The earlier summary ends with the message that this conversation has there.
Continues(e, t) == e.boundary = History[t][e.cut]

\* What is summarized: the previous summary and the messages since, if this
\* conversation continues it, or else what is dropped; the rendering has a
\* limit, the previous summary in front of it has none.
Target(store, t, n) ==
    LET best == {e \in Smaller(store, n) : \A f \in Smaller(store, n) : f.cut <= e.cut}
        usable == {e \in best : Continues(e, t)}
    IN  IF usable = {} THEN Rendered(t, 0, n)
        ELSE LET prev == CHOOSE e \in usable : TRUE
             IN  prev.covers \o Rendered(t, prev.cut, n)

\* _prune and set: stale entries go, then the first inserted while it is full.
PrunedStore(store) ==
    {e \in Fresh(store) : Cardinality({f \in Fresh(store) : f.nth > e.nth}) < MaxSummaries - 1}

Store(store, t, n, text) ==
    PrunedStore(store) \cup {[cut |-> n, boundary |-> History[t][n], covers |-> text, stale |-> FALSE,
                         nth |-> Max({0} \cup {e.nth : e \in PrunedStore(store)}) + 1]}

SummaryExpires(e) ==
    /\ ~e.stale
    /\ summaries' = (summaries \ {e}) \cup {[e EXCEPT !.stale = TRUE]}
    /\ UNCHANGED <<inflight, compactor, gets>>

(***************************************************************************)
(* maybeCompact                                                            *)
(***************************************************************************)

\* Disabled, a short conversation, below the threshold, no cut, or a plan
\* without the summarizer's tier.
Skip(r) ==
    /\ compactor[r].at = "idle"
    /\ compactor' = [compactor EXCEPT ![r].at = "done"]
    /\ UNCHANGED <<summaries, inflight, gets>>

Enter(r, t, n, at, target) ==
    compactor' = [compactor EXCEPT ![r] = [at |-> at, thread |-> t, cut |-> n, target |-> target]]

\* The frozen summary of this cut is reused; reading it refreshes its age.
Reuse(r, t, n) ==
    /\ compactor[r].at = "idle" /\ n <= Len(History[t])
    /\ \E e \in summaries :
          /\ Valid(e, t, n)
          /\ gets' = [gets EXCEPT ![r] = [kind |-> "text", covers |-> e.covers]]
    /\ Enter(r, t, n, "done", <<>>)
    /\ UNCHANGED <<summaries, inflight>>

Misses(r, t, n) ==
    /\ compactor[r].at = "idle" /\ n <= Len(History[t])
    /\ ~ \E e \in summaries : Valid(e, t, n)

\* The key of a call in flight is the family and the number of messages.
Join(r, t, n) ==
    /\ Misses(r, t, n) /\ inflight[n] # Nobody
    /\ summaries' = GetRemoves(summaries, t, n)
    /\ Enter(r, t, n, "joined", <<>>)
    /\ UNCHANGED <<inflight, gets>>

\* Mutant: nothing is looked up in inflight.
LeadAlways(r, t, n) ==
    /\ Misses(r, t, n)
    /\ summaries' = Fresh(GetRemoves(summaries, t, n))
    /\ inflight' = [inflight EXCEPT ![n] = r]
    /\ Enter(r, t, n, "leads", Target(GetRemoves(summaries, t, n), t, n))
    /\ UNCHANGED gets
Lead(r, t, n) ==
    /\ Misses(r, t, n) /\ inflight[n] = Nobody
    /\ summaries' = Fresh(GetRemoves(summaries, t, n))
    /\ inflight' = [inflight EXCEPT ![n] = r]
    /\ Enter(r, t, n, "leads", Target(GetRemoves(summaries, t, n), t, n))
    /\ UNCHANGED gets

Joined(n) == {r \in Compactors : compactor[r].at = "joined" /\ compactor[r].cut = n}

\* The continuations of a call that has ended.
Leave(n, leader) ==
    /\ inflight' = [inflight EXCEPT ![n] = Nobody]
    /\ compactor' = [r \in Compactors |->
          IF r = leader \/ r \in Joined(n) THEN [compactor[r] EXCEPT !.at = "done"]
                                           ELSE compactor[r]]

\* The leader takes the summary out of the result and stores it; those that
\* joined await the result itself, {summary, costUsd}, as if it were the text.
Summarized(r) ==
    LET n == compactor[r].cut
        made == compactor[r].target IN
    /\ compactor[r].at = "leads"
    /\ Leave(n, r)
    /\ summaries' = Store(summaries, compactor[r].thread, n, made)
    /\ gets' = [j \in Compactors |->
          IF j = r THEN [kind |-> "text", covers |-> made]
          ELSE IF j \in Joined(n) THEN [kind |-> "object", covers |-> made]
          ELSE gets[j]]

\* No model, an error, a timeout, or empty content: the call fails for all,
\* and the bodies stay as they are.
Fails(r) ==
    /\ compactor[r].at = "leads"
    /\ Leave(compactor[r].cut, r)
    /\ UNCHANGED <<summaries, gets>>

CompactionNext ==
    \/ \E e \in summaries : SummaryExpires(e)
    \/ \E r \in Compactors : Skip(r)
    \/ \E r \in Compactors, t \in Threads, n \in Cuts : Reuse(r, t, n)
    \/ \E r \in Compactors, t \in Threads, n \in Cuts : Join(r, t, n)
    \/ \E r \in Compactors, t \in Threads, n \in Cuts : Lead(r, t, n)
    \/ \E r \in Compactors : Summarized(r)
    \/ \E r \in Compactors : Fails(r)

CompactionSpec == CompactionInit /\ [][CompactionNext]_compactionVars
-----------------------------------------------------------------------------
(***************************************************************************)
(* Properties.                                                             *)
(***************************************************************************)

\* The calls under way and the keys of inflight correspond one to one, and
\* nobody waits for a call that is not under way: "concurrent identical
\* requests must not fire duplicate summarize calls" (line 109), and a call
\* that failed leaves no key behind for a later request to wait on.
OneCallPerKey ==
    /\ \A r \in Compactors :
          compactor[r].at = "leads" => inflight[compactor[r].cut] = r
    /\ \A n \in Cuts : inflight[n] # Nobody =>
          compactor[inflight[n]].at = "leads" /\ compactor[inflight[n]].cut = n
    /\ \A r \in Compactors :
          compactor[r].at = "joined" => inflight[compactor[r].cut] # Nobody

\* Up to a position where two conversations have the same message, they are
\* the same: what the store takes for granted when it compares one message
\* ("history is append-only", compaction.js:46).  Conversations may differ
\* earlier and meet again in a message such as "continue".
ToldApart(t, n) ==
    \A s \in Threads, m \in 1..n :
        m <= Len(History[s]) /\ History[s][m] = History[t][m] =>
            \A k \in 1..m : History[s][k] = History[t][k]

\* The last thing a summary tells is the last message that is dropped.
EndsWith(text, t, n) == Len(text) > 0 /\ text[Len(text)] = History[t][n]

\* It ends with at least what one rendering has room for.
KeepsRecent(text, t, n) ==
    \A i \in 0..(n - 1) : i < MaxDropped => i < Len(text) /\ text[Len(text) - i] = History[t][n - i]

\* It tells nothing but what is dropped, in order, nothing twice.
InOrder(text, t, n) ==
    \E place \in [DOMAIN text -> 1..n] :
        /\ \A i \in DOMAIN text : text[i] = History[t][place[i]]
        /\ \A i, j \in DOMAIN text : i < j => place[i] < place[j]

\* However summaries are reused, folded into one another, truncated, evicted
\* and replaced, the one a request splices in ends with the message it drops
\* last ("the most recent dropped content matters most", line 118), whichever
\* conversation it was made in; and where the conversation is told apart from
\* the others by what the store compares, it holds only messages of what is
\* dropped, in order and once, and never loses the most recent ones that a
\* rendering has room for.  A request that joins a call is not covered.
SummaryCoversDropped ==
    \A r \in Compactors : gets[r].kind = "text" =>
        LET t == compactor[r].thread
            n == compactor[r].cut
            text == gets[r].covers
        IN  /\ EndsWith(text, t, n)
            /\ ToldApart(t, n) => KeepsRecent(text, t, n) /\ InOrder(text, t, n)

\* Every summary that is spliced into a body is text: inflight is declared a
\* map "key -> Promise<string>" (line 111).
SummaryIsText == \A r \in Compactors : gets[r].kind # "object"
===============================================================================
