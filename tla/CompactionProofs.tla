-------------------------- MODULE CompactionProofs --------------------------
(***************************************************************************)
(* Proofs about compaction: that findCompactionCut splits no tool call     *)
(* from its result and drops as much as it can, that the search of         *)
(* maybeCompact, once it has a first cut, stays over the ceiling only      *)
(* where no safe cut drops more, and that what is kept of a valid          *)
(* conversation converts to a valid one, for every conversation; and that  *)
(* the calls in flight are shared one per key and what a summary stands    *)
(* for, for any number of requests and conversations.                      *)
(***************************************************************************)
EXTENDS Conversion, Compaction, SequenceTheorems, SumTheorems

-----------------------------------------------------------------------------
(***************************************************************************)
(* The cut.                                                                *)
(***************************************************************************)

\* The cut under way is a boundary that was asked for, or has been moved back
\* from one, and nothing that may be kept was passed over.
CutSafeInv ==
    /\ messages \in Seq(Message)
    /\ finding \in {"walk", "repair", "returned"}
    /\ finding \in {"repair", "returned"} =>
          /\ at \in Nat
          /\ at > 0 => at \in Positions /\ Msg(at).role = "user"
          /\ \A c \in (at + 1)..Boundary(keeping) : ~Safe(c)
    /\ finding = "returned" => at = 0 \/ Split(at) = {}

\* A set of naturals that is bounded and not empty has its greatest element.
LEMMA MaxBelow ==
    ASSUME NEW n \in Nat, NEW S, S \subseteq 0..n, S # {}
    PROVE  Max(S) \in S /\ \A x \in S : x <= Max(S)
<1> DEFINE T == {n - x : x \in S}
<1>1. T \subseteq Nat /\ T # {}
    <2>1. \A x \in S : x \in 0..n /\ n - x \in Nat
        OBVIOUS
    <2>2. PICK s \in S : TRUE
        OBVIOUS
    <2>3. n - s \in T
        BY <2>2
    <2>4. QED BY <2>1, <2>3
<1>2. PICK t \in T : \A y \in T : ~(<<y, t>> \in OpToRel(<, Nat))
    BY <1>1, NatLessThanWellFounded, WFMin
<1>3. \A y \in T : t <= y
    <2> HIDE DEF T
    <2>1. ASSUME NEW y \in T, y < t PROVE FALSE
        BY <1>1, <1>2, <2>1 DEF OpToRel
    <2>2. QED BY <1>1, <2>1
<1>4. PICK m \in S : t = n - m
    OBVIOUS
<1>5. \A x \in S : m >= x
    BY <1>3, <1>4
<1>6. QED BY <1>5 DEF Max

LEMMA BoundaryIsUser ==
    ASSUME messages \in Seq(Message), NEW n
    PROVE  /\ Boundary(n) \in Nat
           /\ Boundary(n) > 0 => Boundary(n) \in Positions /\ Msg(Boundary(n)).role = "user"
<1> DEFINE here == {i \in Starts : Cardinality({j \in Starts : j >= i}) = n}
<1>1. here = {} \/ (CHOOSE i \in here : TRUE) \in here
    OBVIOUS
<1>2. Boundary(n) = 0 \/ Boundary(n) \in here
    BY <1>1 DEF Boundary
<1>3. here \subseteq Starts /\ Starts \subseteq Positions /\ Positions \subseteq Nat
    BY DEF Starts, Positions
<1> HIDE DEF here
<1>4. CASE Boundary(n) \in here
    <2>1. Boundary(n) \in Starts
        BY <1>3, <1>4
    <2>2. QED BY <1>3, <2>1 DEF Starts
<1>5. QED BY <1>2, <1>4

\* What a later cut keeps, an earlier one keeps as well.
LEMMA ReferencedGrows ==
    ASSUME messages \in Seq(Message), NEW b \in Nat, NEW c \in Nat, c <= b
    PROVE  Referenced(b) \subseteq Referenced(c)
BY DEF Referenced, Positions

\* One turn of the repair loop passes over no cut that is safe.
LEMMA RepairPassesNone ==
    ASSUME messages \in Seq(Message), at \in Positions, Split(at) # {}
    PROVE  LET u == UserTurnAt(Max(Split(at))) IN
           /\ u \in Nat /\ u < at
           /\ u > 0 => u \in Positions /\ Msg(u).role = "user"
           /\ \A c \in (u + 1)..at : ~Safe(c)
<1> DEFINE i == Max(Split(at))
           users == {0} \cup {j \in 0..i : Msg(j).role = "user"}
<1>1. at \in Nat /\ Positions \subseteq Nat /\ \A k \in Positions : k <= Len(messages) - 1
    BY DEF Positions
<1>2. Split(at) \subseteq 0..at
    <2> SUFFICES ASSUME NEW k \in Split(at) PROVE k \in 0..at
        OBVIOUS
    <2>1. k \in Positions /\ k < at
        BY DEF Split
    <2>2. k \in Nat
        BY <1>1, <2>1
    <2>3. QED BY <1>1, <2>1, <2>2
<1>3. i \in Split(at)
    BY <1>1, <1>2, MaxBelow
<1>4. i \in Positions /\ i < at /\ i \in Nat /\ Msg(i).role = "assistant"
          /\ Msg(i).uses \cap Referenced(at) # {}
    BY <1>1, <1>3 DEF Split
<1>5. users \subseteq 0..i /\ users # {}
    BY <1>4
<1>6. Max(users) \in users /\ \A j \in users : j <= Max(users)
    <2> HIDE DEF users
    <2>1. QED BY <1>4, <1>5, MaxBelow
<1>7. UserTurnAt(i) = Max(users)
    BY DEF UserTurnAt
<1> DEFINE u == UserTurnAt(i)
<1>8. u \in 0..i /\ u \in users /\ \A j \in users : j <= u
    BY <1>5, <1>6, <1>7
<1>9. u > 0 => u \in Positions /\ Msg(u).role = "user"
    BY <1>1, <1>4, <1>8 DEF Positions
<1>10. ASSUME NEW c \in (u + 1)..at, Safe(c) PROVE FALSE
    <2>1. c \in Positions /\ c \in Nat /\ Msg(c).role = "user" /\ Split(c) = {}
        BY <1>1, <1>10 DEF Safe
    <2>2. CASE c <= i
        <3>1. c \in users
            BY <1>4, <2>1, <2>2
        <3>2. QED BY <1>8, <1>10, <2>1, <3>1
    <2>3. CASE c > i
        <3>1. Referenced(at) \subseteq Referenced(c)
            BY <1>1, <1>10, <2>1, ReferencedGrows
        <3>2. i \in Split(c)
            BY <1>4, <2>3, <3>1 DEF Split
        <3>3. QED BY <2>1, <3>2
    <2>4. QED BY <1>4, <2>1, <2>2, <2>3
<1>11. QED
    <2> HIDE DEF u
    <2>1. u \in Nat /\ u < at
        BY <1>1, <1>4, <1>8
    <2>2. QED BY <1>9, <1>10, <2>1 DEF u

LEMMA CutSafeInit == CutInit => CutSafeInv
BY ConversationsAssumption DEF CutInit, CutSafeInv

\* Nothing moves while the conversation and the number of exchanges stay.
LEMMA SameConversation ==
    ASSUME messages' = messages, keeping' = keeping
    PROVE  /\ Boundary(keeping)' = Boundary(keeping) /\ Positions' = Positions
           /\ \A c : Safe(c)' = Safe(c) /\ Msg(c)' = Msg(c) /\ Split(c)' = Split(c)
BY DEF Boundary, Safe, Split, Referenced, Starts, Positions, Msg

LEMMA SameCut ==
    ASSUME CutSafeInv, UNCHANGED <<messages, keeping, at>>, finding' \in {"walk", "repair", "returned"},
           finding' = "walk" \/ finding \in {"repair", "returned"},
           finding' = "returned" => at = 0 \/ Split(at) = {}
    PROVE  CutSafeInv'
<1>1. messages' = messages /\ keeping' = keeping /\ at' = at
    OBVIOUS
<1>2. /\ Boundary(keeping)' = Boundary(keeping) /\ Positions' = Positions
      /\ \A c : Safe(c)' = Safe(c) /\ Msg(c)' = Msg(c) /\ Split(c)' = Split(c)
    BY <1>1, SameConversation
<1>3. (Split(at))' = Split(at) /\ (Msg(at))' = Msg(at)
    BY <1>1 DEF Split, Referenced, Positions, Msg
<1>4. ASSUME finding' \in {"repair", "returned"}
      PROVE  /\ at' \in Nat
             /\ (at > 0 => at \in Positions /\ Msg(at).role = "user")'
             /\ (\A c \in (at + 1)..Boundary(keeping) : ~Safe(c))'
    <2>1. /\ at \in Nat
          /\ at > 0 => at \in Positions /\ Msg(at).role = "user"
          /\ \A c \in (at + 1)..Boundary(keeping) : ~Safe(c)
        BY <1>4 DEF CutSafeInv
    <2>2. QED BY <1>1, <1>2, <1>3, <2>1
<1>5. messages' \in Seq(Message)
    BY <1>1 DEF CutSafeInv
<1>6. QED BY <1>1, <1>3, <1>4, <1>5 DEF CutSafeInv

LEMMA CutSafeNext == CutSafeInv /\ [CutNext]_cutVars => CutSafeInv'
<1> SUFFICES ASSUME CutSafeInv, [CutNext]_cutVars PROVE CutSafeInv'
    OBVIOUS
<1>m. messages \in Seq(Message)
    BY DEF CutSafeInv
<1>1. CASE UNCHANGED cutVars
    <2>1. UNCHANGED <<messages, keeping, at, finding>>
        BY <1>1 DEF cutVars
    <2>2. /\ finding \in {"walk", "repair", "returned"}
          /\ finding = "returned" => at = 0 \/ Split(at) = {}
        BY DEF CutSafeInv
    <2>3. QED BY <2>1, <2>2, SameCut
<1>2. CASE Walk
    <2>1. /\ messages' = messages /\ keeping' = keeping
          /\ finding' = "repair" /\ at' = Boundary(keeping)
        BY <1>2 DEF Walk
    <2>2. Boundary(keeping)' = Boundary(keeping) /\ Positions' = Positions /\ (Msg(at).role)' = Msg(Boundary(keeping)).role
        BY <2>1 DEF Boundary, Starts, Positions, Msg
    <2>3. /\ Boundary(keeping) \in Nat
          /\ Boundary(keeping) > 0 =>
                Boundary(keeping) \in Positions /\ Msg(Boundary(keeping)).role = "user"
        BY <1>m, BoundaryIsUser
    <2>4. (\A c \in (at + 1)..Boundary(keeping) : ~Safe(c))'
        BY <2>1, <2>2, <2>3
    <2>5. QED BY <1>m, <2>1, <2>2, <2>3, <2>4 DEF CutSafeInv
<1>3. CASE Repair
    <2> DEFINE u == UserTurnAt(Max(Split(at)))
    <2>1. /\ finding = "repair" /\ at > 0 /\ Split(at) # {} /\ at' = u
          /\ messages' = messages /\ keeping' = keeping /\ finding' = finding
        BY <1>3 DEF Repair
    <2>2. at \in Positions /\ at \in Nat /\ \A c \in (at + 1)..Boundary(keeping) : ~Safe(c)
        BY <2>1 DEF CutSafeInv
    <2>3. /\ u \in Nat /\ u < at
          /\ u > 0 => u \in Positions /\ Msg(u).role = "user"
          /\ \A c \in (u + 1)..at : ~Safe(c)
        BY <1>m, <2>1, <2>2, RepairPassesNone
    <2> HIDE DEF u
    <2>4. Boundary(keeping) \in Nat
        BY <1>m, BoundaryIsUser
    <2>5. \A c \in (u + 1)..Boundary(keeping) : ~Safe(c)
        BY <2>2, <2>3, <2>4
    <2>6. /\ Boundary(keeping)' = Boundary(keeping) /\ Positions' = Positions
          /\ \A c : Safe(c)' = Safe(c) /\ Msg(c)' = Msg(c)
        BY <2>1, SameConversation
    <2>7. (\A c \in (at + 1)..Boundary(keeping) : ~Safe(c))'
        BY <2>1, <2>5, <2>6
    <2>8. (at > 0 => at \in Positions /\ Msg(at).role = "user")'
        BY <2>1, <2>3, <2>6 DEF Msg
    <2>9. QED BY <1>m, <2>1, <2>3, <2>7, <2>8 DEF CutSafeInv
<1>4. CASE Return
    BY <1>4, SameCut DEF Return
<1>5. CASE NoCut \/ FirstCut \/ Narrow \/ Widen
    <2>1. /\ messages' = messages
          /\ \/ finding' = "walk"
             \/ UNCHANGED <<finding, at, keeping>>
        BY <1>5 DEF NoCut, FirstCut, Narrow, Widen, Try, Stop
    <2>2. CASE finding' = "walk"
        BY <1>m, <2>1, <2>2 DEF CutSafeInv
    <2>3. CASE UNCHANGED <<finding, at, keeping>>
        <3>1. /\ finding \in {"walk", "repair", "returned"}
              /\ finding = "returned" => at = 0 \/ Split(at) = {}
            BY DEF CutSafeInv
        <3>2. QED BY <2>1, <2>3, <3>1, SameCut
    <2>4. QED BY <2>1, <2>2, <2>3
<1>6. QED BY <1>1, <1>2, <1>3, <1>4, <1>5 DEF CutNext, CutStep, CutOver

\* LargestSafeCut for every set of conversations and budgets: a cut that
\* findCompactionCut returns splits no call from its result, and there is no
\* later one up to the boundary that would not either.
THEOREM LargestSafe == CutSpec => []LargestSafeCut
<1>1. CutInit => CutSafeInv
    BY CutSafeInit
<1>2. CutSafeInv /\ [CutNext]_cutVars => CutSafeInv'
    BY CutSafeNext
<1>3. CutSafeInv => LargestSafeCut
    BY DEF CutSafeInv, LargestSafeCut, Safe
<1>4. QED BY <1>1, <1>2, <1>3, PTL DEF CutSpec
-----------------------------------------------------------------------------
(***************************************************************************)
(* The calls in flight.                                                    *)
(***************************************************************************)

CompactorFields == {"at", "thread", "cut", "target"}

\* The keys in flight, and a request that leads or has joined is at one.
FlightInv ==
    /\ inflight \in [Cuts -> Compactors \cup {Nobody}]
    /\ DOMAIN compactor = Compactors
    /\ \A r \in Compactors :
          /\ DOMAIN compactor[r] = CompactorFields
          /\ compactor[r].at \in {"leads", "joined"} => compactor[r].cut \in Cuts
    /\ OneCallPerKey

LEMMA FlightInit == CompactionInit => FlightInv
BY NobodyAssumption DEF CompactionInit, FlightInv, OneCallPerKey, CompactorFields

\* A request that leaves at once, or joins, leaves the keys in flight alone.
LEMMA EnterKeepsFlight ==
    ASSUME FlightInv, NEW r \in Compactors, NEW t, NEW n, NEW at0 \in {"done", "joined"}, NEW target,
           compactor[r].at = "idle",
           Enter(r, t, n, at0, target),
           at0 = "joined" => n \in Cuts /\ inflight[n] # Nobody,
           inflight' = inflight
    PROVE  FlightInv'
BY DEF FlightInv, Enter, OneCallPerKey, CompactorFields

LEMMA LeadKeepsFlight ==
    ASSUME FlightInv, NEW r \in Compactors, NEW t \in Threads, NEW n \in Cuts, Lead(r, t, n)
    PROVE  FlightInv'
<1> DEFINE target == Target(GetRemoves(summaries, t, n), t, n)
<1>1. /\ compactor[r].at = "idle" /\ inflight[n] = Nobody
      /\ inflight' = [inflight EXCEPT ![n] = r]
      /\ compactor' = [compactor EXCEPT ![r] = [at |-> "leads", thread |-> t, cut |-> n, target |-> target]]
    BY DEF Lead, Misses, Enter
<1> HIDE DEF target
<1>2. QED BY <1>1, NobodyAssumption DEF FlightInv, OneCallPerKey, CompactorFields

\* When a call ends, its key goes, and so do those who wait for it.
LEMMA LeaveKeepsFlight ==
    ASSUME FlightInv, NEW r \in Compactors, compactor[r].at = "leads", Leave(compactor[r].cut, r)
    PROVE  FlightInv'
<1> DEFINE n == compactor[r].cut
<1>1. n \in Cuts /\ inflight[n] = r
    BY DEF FlightInv, OneCallPerKey
<1>2. /\ inflight' = [inflight EXCEPT ![n] = Nobody]
      /\ DOMAIN compactor' = Compactors
      /\ \A q \in Compactors :
            /\ q = r \/ q \in Joined(n) => compactor'[q] = [compactor[q] EXCEPT !.at = "done"]
            /\ ~(q = r \/ q \in Joined(n)) => compactor'[q] = compactor[q]
    BY DEF Leave
<1> HIDE DEF n
<1>3. \A q \in Compactors :
          /\ DOMAIN compactor'[q] = CompactorFields
          /\ compactor'[q].at \in {"leads", "joined"} =>
                /\ compactor'[q] = compactor[q]
                /\ q # r /\ (compactor[q].at = "joined" => compactor[q].cut # n)
    BY <1>2 DEF FlightInv, CompactorFields, Joined
<1>4. inflight' \in [Cuts -> Compactors \cup {Nobody}]
    BY <1>1, <1>2 DEF FlightInv
<1>5. ASSUME NEW q \in Compactors, compactor'[q].at = "leads"
      PROVE  inflight'[compactor'[q].cut] = q
    BY <1>1, <1>2, <1>3, <1>5 DEF FlightInv, OneCallPerKey
<1>6. ASSUME NEW k \in Cuts, inflight'[k] # Nobody
      PROVE  compactor'[inflight'[k]].at = "leads" /\ compactor'[inflight'[k]].cut = k
    <2>1. k # n /\ inflight'[k] = inflight[k]
        BY <1>1, <1>2, <1>6 DEF FlightInv
    <2> DEFINE q == inflight[k]
    <2>2. q \in Compactors /\ compactor[q].at = "leads" /\ compactor[q].cut = k
        BY <1>6, <2>1 DEF FlightInv, OneCallPerKey
    <2>3. q # r /\ q \notin Joined(n)
        BY <2>1, <2>2 DEF n, Joined
    <2>4. QED BY <1>2, <2>1, <2>2, <2>3
<1>7. ASSUME NEW q \in Compactors, compactor'[q].at = "joined"
      PROVE  inflight'[compactor'[q].cut] # Nobody
    BY <1>1, <1>2, <1>3, <1>7 DEF FlightInv, OneCallPerKey
<1>8. QED BY <1>2, <1>3, <1>4, <1>5, <1>6, <1>7 DEF FlightInv, OneCallPerKey

LEMMA FlightNext == FlightInv /\ [CompactionNext]_compactionVars => FlightInv'
<1> SUFFICES ASSUME FlightInv, [CompactionNext]_compactionVars PROVE FlightInv'
    OBVIOUS
<1>1. CASE UNCHANGED <<inflight, compactor>>
    BY <1>1 DEF FlightInv, OneCallPerKey
<1>2. ASSUME NEW r \in Compactors, Skip(r) PROVE FlightInv'
    BY <1>2 DEF Skip, FlightInv, OneCallPerKey, CompactorFields
<1>3. ASSUME NEW r \in Compactors, NEW t \in Threads, NEW n \in Cuts, Reuse(r, t, n) PROVE FlightInv'
    BY <1>3, EnterKeepsFlight DEF Reuse
<1>4. ASSUME NEW r \in Compactors, NEW t \in Threads, NEW n \in Cuts, Join(r, t, n) PROVE FlightInv'
    BY <1>4, EnterKeepsFlight DEF Join, Misses
<1>5. ASSUME NEW r \in Compactors, NEW t \in Threads, NEW n \in Cuts, Lead(r, t, n) PROVE FlightInv'
    BY <1>5, LeadKeepsFlight
<1>6. ASSUME NEW r \in Compactors, Summarized(r) \/ Fails(r) PROVE FlightInv'
    BY <1>6, LeaveKeepsFlight DEF Summarized, Fails
<1>7. ASSUME NEW e \in summaries, SummaryExpires(e) PROVE FlightInv'
    BY <1>7, <1>1 DEF SummaryExpires
<1>8. QED
    BY <1>1, <1>2, <1>3, <1>4, <1>5, <1>6, <1>7 DEF CompactionNext, compactionVars

\* OneCallPerKey for every number of requests and conversations: whoever leads
\* has its key to itself, and whoever waits, waits for a call under way.
THEOREM FlightsShared == CompactionSpec => []OneCallPerKey
<1>1. CompactionInit => FlightInv
    BY FlightInit
<1>2. FlightInv /\ [CompactionNext]_compactionVars => FlightInv'
    BY FlightNext
<1>3. FlightInv => OneCallPerKey
    BY DEF FlightInv
<1>4. QED BY <1>1, <1>2, <1>3, PTL DEF CompactionSpec
-----------------------------------------------------------------------------
(***************************************************************************)
(* What a summary stands for.                                              *)
(***************************************************************************)

EntryFields == {"cut", "boundary", "covers", "stale", "nth"}

\* What a summary says of what is dropped, whatever the other conversations
\* are, and where they are told apart.
Tells(text, t, n) ==
    /\ text \in Seq(STRING)
    /\ EndsWith(text, t, n)
    /\ ToldApart(t, n) => KeepsRecent(text, t, n) /\ InOrder(text, t, n)

\* An entry tells of the beginning of the conversation it was made in.
MadeIn(e, s) ==
    /\ e.cut \in Nat \ {0} /\ e.cut <= Len(History[s])
    /\ e.boundary = History[s][e.cut] /\ Tells(e.covers, s, e.cut)
EntryOK(e) == DOMAIN e = EntryFields /\ \E s \in Threads : MadeIn(e, s)

CoverInv ==
    /\ \A e \in summaries : EntryOK(e)
    /\ DOMAIN compactor = Compactors /\ DOMAIN gets = Compactors
    /\ \A r \in Compactors :
          /\ DOMAIN compactor[r] = CompactorFields
          /\ compactor[r].at = "leads" =>
                /\ compactor[r].thread \in Threads
                /\ compactor[r].cut \in 1..Len(History[compactor[r].thread])
                /\ Tells(compactor[r].target, compactor[r].thread, compactor[r].cut)
          /\ gets[r].kind = "text" =>
                /\ compactor[r].at = "done"
                /\ Tells(gets[r].covers, compactor[r].thread, compactor[r].cut)

LEMMA CutsArePositive == \A n \in Cuts : n \in Nat \ {0}
BY HistoryAssumption DEF Cuts

LEMMA CoverInit == CompactionInit => CoverInv
BY DEF CompactionInit, CoverInv, CompactorFields, Nothing

\* A conversation that is told apart at a position is so at those before it,
\* and so is one that has the same message there.
LEMMA ToldApartBefore ==
    ASSUME NEW t \in Threads, NEW n \in Nat, ToldApart(t, n), NEW m \in Nat, m <= n
    PROVE  ToldApart(t, m)
BY DEF ToldApart

LEMMA ToldApartTogether ==
    ASSUME NEW s \in Threads, NEW t \in Threads, NEW n \in Nat \ {0}, ToldApart(t, n),
           n <= Len(History[s]), n <= Len(History[t]), History[s][n] = History[t][n]
    PROVE  ToldApart(s, n) /\ \A k \in 1..n : History[s][k] = History[t][k]
<1>1. \A k \in 1..n : History[s][k] = History[t][k]
    BY DEF ToldApart
<1>2. ASSUME NEW u \in Threads, NEW m \in 1..n, m <= Len(History[u]), History[u][m] = History[s][m],
             NEW k \in 1..m
      PROVE  History[u][k] = History[s][k]
    <2>1. History[u][m] = History[t][m] /\ k \in 1..n
        BY <1>1, <1>2
    <2>2. History[u][k] = History[t][k]
        BY <1>2, <2>1 DEF ToldApart
    <2> QED BY <1>1, <2>1, <2>2
<1> QED BY <1>1, <1>2 DEF ToldApart

\* What is told of one conversation is told of another that has the same
\* message at the cut.
LEMMA SameBoundary ==
    ASSUME NEW e, EntryOK(e), NEW t \in Threads,
           e.cut <= Len(History[t]), e.boundary = History[t][e.cut]
    PROVE  Tells(e.covers, t, e.cut)
<1>1. PICK s \in Threads : MadeIn(e, s)
    BY DEF EntryOK
<1>2. PICK n, text : n = e.cut /\ text = e.covers
    OBVIOUS
<1>3. /\ n \in Nat \ {0} /\ n <= Len(History[s]) /\ n <= Len(History[t])
      /\ History[s][n] = History[t][n] /\ Tells(text, s, n)
    BY <1>1, <1>2 DEF MadeIn
<1>4. text \in Seq(STRING) /\ EndsWith(text, t, n)
    BY <1>3 DEF Tells, EndsWith
<1>5. ASSUME ToldApart(t, n) PROVE KeepsRecent(text, t, n) /\ InOrder(text, t, n)
    <2>1. ToldApart(s, n) /\ \A k \in 1..n : History[s][k] = History[t][k]
        BY <1>3, <1>5, ToldApartTogether
    <2>2. KeepsRecent(text, s, n) /\ InOrder(text, s, n)
        BY <1>3, <2>1 DEF Tells
    <2>3. KeepsRecent(text, t, n)
        <3>1. \A i \in 0..(n - 1) : n - i \in 1..n
            BY <1>3
        <3> QED BY <2>1, <2>2, <3>1 DEF KeepsRecent
    <2>4. InOrder(text, t, n)
        <3>1. PICK place \in [DOMAIN text -> 1..n] :
                 /\ \A i \in DOMAIN text : text[i] = History[s][place[i]]
                 /\ \A i, j \in DOMAIN text : i < j => place[i] < place[j]
            BY <2>2 DEF InOrder
        <3>2. \A i \in DOMAIN text : text[i] = History[t][place[i]]
            BY <2>1, <3>1
        <3> QED BY <3>1, <3>2 DEF InOrder
    <2> QED BY <2>3, <2>4
<1> QED BY <1>2, <1>4, <1>5 DEF Tells

\* Where a rendering begins, and what it is.
LEMMA RenderedIs ==
    ASSUME NEW t \in Threads, NEW n \in 1..Len(History[t]), NEW m \in 0..(n - 1)
    PROVE  \E k \in m..(n - 1) :
              /\ k = m \/ n - k = MaxDropped
              /\ Rendered(t, m, n) \in Seq(STRING)
              /\ Len(Rendered(t, m, n)) = n - k
              /\ \A i \in 1..(n - k) : Rendered(t, m, n)[i] = History[t][k + i]
<1>1. History[t] \in Seq(STRING) /\ n \in Nat /\ m \in Nat /\ MaxDropped \in Nat \ {0}
    BY HistoryAssumption, BoundsAssumption
<1>2. PICK k : k = IF n - m > MaxDropped THEN n - MaxDropped ELSE m
    OBVIOUS
<1>3. k \in m..(n - 1) /\ (k = m \/ n - k = MaxDropped)
    BY <1>1, <1>2
<1>4. Rendered(t, m, n) = SubSeq(History[t], k + 1, n)
    BY <1>2 DEF Rendered
<1>5. k + 1 \in 1..(Len(History[t]) + 1) /\ n \in (k + 1 - 1)..Len(History[t])
    BY <1>1, <1>3
<1>6. PICK text : text = SubSeq(History[t], k + 1, n)
    OBVIOUS
<1>7. /\ text \in Seq(STRING)
      /\ Len(text) = n - k
      /\ \A i \in 1..(n - k) : text[i] = History[t][k + i]
    BY <1>1, <1>3, <1>5, <1>6, SubSeqProperties
<1> QED BY <1>3, <1>4, <1>6, <1>7

\* A rendering tells of what it renders.
LEMMA RenderedTells ==
    ASSUME NEW t \in Threads, NEW n \in 1..Len(History[t])
    PROVE  Tells(Rendered(t, 0, n), t, n)
<1>1. n \in Nat \ {0} /\ 0 \in 0..(n - 1) /\ MaxDropped \in Nat \ {0}
    BY HistoryAssumption, BoundsAssumption
<1>r. PICK text : text = Rendered(t, 0, n)
    OBVIOUS
<1>2. PICK k \in 0..(n - 1) :
          /\ k = 0 \/ n - k = MaxDropped
          /\ text \in Seq(STRING) /\ Len(text) = n - k
          /\ \A i \in 1..(n - k) : text[i] = History[t][k + i]
    BY <1>1, <1>r, RenderedIs
<1>3. EndsWith(text, t, n)
    <2>1. n - k \in 1..(n - k) /\ k + (n - k) = n
        BY <1>1, <1>2
    <2> QED BY <1>1, <1>2, <2>1 DEF EndsWith
<1>4. KeepsRecent(text, t, n)
    <2> SUFFICES ASSUME NEW i \in 0..(n - 1), i < MaxDropped
                 PROVE  i < Len(text) /\ text[Len(text) - i] = History[t][n - i]
        BY DEF KeepsRecent
    <2>1. i < n - k
        BY <1>1, <1>2
    <2>2. (n - k) - i \in 1..(n - k) /\ k + ((n - k) - i) = n - i
        BY <1>1, <1>2, <2>1
    <2> QED BY <1>2, <2>1, <2>2
<1>5. InOrder(text, t, n)
    <2> DEFINE place == [i \in DOMAIN text |-> k + i]
    <2>1. DOMAIN text = 1..(n - k)
        BY <1>2
    <2>2. place \in [DOMAIN text -> 1..n]
        BY <1>1, <1>2, <2>1
    <2>3. /\ \A i \in DOMAIN text : text[i] = History[t][place[i]]
          /\ \A i, j \in DOMAIN text : i < j => place[i] < place[j]
        BY <1>2, <2>1
    <2> QED BY <2>2, <2>3 DEF InOrder
<1> QED BY <1>r, <1>2, <1>3, <1>4, <1>5 DEF Tells

\* Folding the messages since into a summary loses none of the recent ones,
\* and puts none out of order.
LEMMA FoldTells ==
    ASSUME NEW t \in Threads, NEW n \in 1..Len(History[t]), NEW m \in 1..(n - 1),
           NEW before, Tells(before, t, m)
    PROVE  Tells(before \o Rendered(t, m, n), t, n)
<1>1. n \in Nat \ {0} /\ m \in Nat \ {0} /\ m \in 0..(n - 1) /\ MaxDropped \in Nat \ {0}
    BY HistoryAssumption, BoundsAssumption
<1>r. PICK since : since = Rendered(t, m, n)
    OBVIOUS
<1>2. PICK k \in m..(n - 1) :
          /\ k = m \/ n - k = MaxDropped
          /\ since \in Seq(STRING) /\ Len(since) = n - k
          /\ \A i \in 1..(n - k) : since[i] = History[t][k + i]
    BY <1>1, <1>r, RenderedIs
<1>3. PICK text, z : text = before \o since /\ z = Len(before)
    OBVIOUS
<1>4. /\ before \in Seq(STRING) /\ z \in Nat /\ k \in Nat
      /\ text \in Seq(STRING) /\ Len(text) = z + (n - k) /\ DOMAIN text = 1..(z + (n - k))
      /\ \A i \in 1..z : text[i] = before[i]
      /\ \A i \in 1..(n - k) : text[z + i] = History[t][k + i]
    <2>1. before \in Seq(STRING) /\ z \in Nat /\ k \in Nat
        BY <1>1, <1>2, <1>3 DEF Tells
    <2>2. /\ text \in Seq(STRING) /\ Len(text) = z + (n - k)
          /\ \A i \in 1..(z + (n - k)) : text[i] = IF i <= z THEN before[i] ELSE since[i - z]
        <3>1. /\ before \o since \in Seq(STRING)
              /\ Len(before \o since) = z + Len(since)
              /\ \A i \in 1..(z + Len(since)) :
                    (before \o since)[i] = IF i <= z THEN before[i] ELSE since[i - z]
            BY <1>2, <1>3, <2>1, ConcatProperties
        <3> QED BY <1>2, <1>3, <3>1
    <2>3. \A i \in 1..z : i \in 1..(z + (n - k)) /\ i <= z
        BY <1>1, <1>2, <2>1
    <2>4. \A i \in 1..(n - k) : z + i \in 1..(z + (n - k)) /\ ~(z + i <= z) /\ (z + i) - z = i
        BY <1>1, <1>2, <2>1
    <2> QED BY <1>2, <2>1, <2>2, <2>3, <2>4
<1>5. EndsWith(text, t, n)
    <2>1. n - k \in 1..(n - k) /\ k + (n - k) = n /\ z + (n - k) > 0
        BY <1>1, <1>2, <1>4
    <2>2. text[z + (n - k)] = History[t][k + (n - k)]
        BY <1>4, <2>1
    <2> QED BY <1>4, <2>1, <2>2 DEF EndsWith
<1>6. ASSUME ToldApart(t, n) PROVE KeepsRecent(text, t, n) /\ InOrder(text, t, n)
    <2>1. KeepsRecent(before, t, m) /\ InOrder(before, t, m)
        BY <1>1, <1>6, ToldApartBefore DEF Tells
    <2>2. ASSUME NEW i \in 0..(n - 1), i < MaxDropped
          PROVE  i < Len(text) /\ text[Len(text) - i] = History[t][n - i]
        <3>1. CASE i < n - k
            <4>r. i \in Nat /\ n \in Nat /\ k \in Nat /\ z \in Nat /\ Len(text) = z + (n - k)
                BY <1>1, <1>4, <2>2
            <4>1. /\ (n - k) - i \in 1..(n - k) /\ k + ((n - k) - i) = n - i
                  /\ z + ((n - k) - i) = Len(text) - i /\ i < Len(text)
                BY <3>1, <4>r
            <4>2. text[z + ((n - k) - i)] = History[t][k + ((n - k) - i)]
                BY <1>4, <4>1
            <4> QED BY <4>1, <4>2
        <3>2. CASE ~(i < n - k)
            <4>1. k = m
                BY <1>1, <1>2, <2>2, <3>2
            <4>2. PICK j : j = i - (n - m)
                OBVIOUS
            <4>3. j \in 0..(m - 1) /\ j < MaxDropped
                BY <1>1, <2>2, <3>2, <4>1, <4>2
            <4>4. j < z /\ before[z - j] = History[t][m - j]
                BY <1>3, <2>1, <4>3 DEF KeepsRecent
            <4>5. /\ z - j \in 1..z /\ i < Len(text)
                  /\ z - j = Len(text) - i /\ m - j = n - i
                BY <1>1, <1>4, <4>1, <4>2, <4>3, <4>4
            <4>6. text[z - j] = before[z - j]
                BY <1>4, <4>5
            <4> QED BY <4>4, <4>5, <4>6
        <3> QED BY <3>1, <3>2
    <2>3. InOrder(text, t, n)
        <3>1. PICK place \in [DOMAIN before -> 1..m] :
                 /\ \A i \in DOMAIN before : before[i] = History[t][place[i]]
                 /\ \A i, j \in DOMAIN before : i < j => place[i] < place[j]
            BY <2>1 DEF InOrder
        <3>2. DOMAIN before = 1..z
            BY <1>3, <1>4
        <3> DEFINE both == [i \in DOMAIN text |-> IF i <= z THEN place[i] ELSE k + (i - z)]
        <3>3. ASSUME NEW i \in DOMAIN text
              PROVE  /\ both[i] \in 1..n /\ text[i] = History[t][both[i]]
                     /\ i <= z => i \in DOMAIN before /\ both[i] = place[i] /\ both[i] \in 1..m
                     /\ ~(i <= z) => both[i] = k + (i - z)
            <4>1. CASE i <= z
                <5>1. i \in 1..z /\ both[i] = place[i] /\ place[i] \in 1..m
                    BY <1>4, <3>1, <3>2, <4>1
                <5>2. text[i] = before[i] /\ before[i] = History[t][place[i]]
                    BY <1>4, <3>1, <3>2, <5>1
                <5> QED BY <1>1, <3>2, <4>1, <5>1, <5>2
            <4>2. CASE ~(i <= z)
                <5>1. PICK j : j = i - z
                    OBVIOUS
                <5>2. i \in 1..(z + (n - k)) /\ i = z + j /\ j \in 1..(n - k) /\ both[i] = k + j
                    BY <1>1, <1>2, <1>4, <4>2, <5>1
                <5>3. text[z + j] = History[t][k + j]
                    BY <1>4, <5>2
                <5>4. k + j \in 1..n
                    BY <1>1, <1>2, <1>4, <5>2
                <5>5. both[i] \in 1..n /\ text[i] = History[t][both[i]] /\ both[i] = k + (i - z)
                    BY <5>1, <5>2, <5>3, <5>4
                <5> QED BY <4>2, <5>5
            <4> QED BY <4>1, <4>2
        <3>4. both \in [DOMAIN text -> 1..n]
            BY <3>3
        <3>5. ASSUME NEW i \in DOMAIN text, NEW j \in DOMAIN text, i < j
              PROVE  both[i] < both[j]
            <4> HIDE DEF both
            <4>1. i \in Nat /\ j \in Nat
                BY <1>1, <1>2, <1>4
            <4>2. CASE j <= z
                <5>1. i <= z
                    BY <1>4, <3>5, <4>1, <4>2
                <5> QED BY <3>1, <3>3, <3>5, <4>2, <5>1
            <4>3. CASE i <= z /\ ~(j <= z)
                BY <1>1, <1>2, <1>4, <3>3, <4>1, <4>3
            <4>4. CASE ~(i <= z)
                <5>1. ~(j <= z)
                    BY <1>4, <3>5, <4>1, <4>4
                <5>2. both[i] = k + (i - z) /\ both[j] = k + (j - z)
                    BY <3>3, <4>4, <5>1
                <5> QED BY <1>4, <3>5, <4>1, <5>2
            <4> QED BY <4>2, <4>3, <4>4
        <3> HIDE DEF both
        <3> QED BY <3>3, <3>4, <3>5 DEF InOrder
    <2> QED BY <2>2, <2>3 DEF KeepsRecent
<1> QED BY <1>r, <1>3, <1>4, <1>5, <1>6 DEF Tells

\* What is summarized, from a store of entries that tell of their beginnings.
LEMMA TargetTells ==
    ASSUME NEW store, \A e \in store : EntryOK(e),
           NEW t \in Threads, NEW n \in 1..Len(History[t])
    PROVE  Tells(Target(store, t, n), t, n)
<1> DEFINE best == {e \in Smaller(store, n) : \A f \in Smaller(store, n) : f.cut <= e.cut}
           usable == {e \in best : Continues(e, t)}
           prev == CHOOSE e \in usable : TRUE
<1>1. CASE usable = {}
    BY <1>1, RenderedTells DEF Target
<1>2. CASE usable # {}
    <2>1. prev \in usable
        BY <1>2
    <2>2. prev \in store /\ prev.cut < n /\ prev.boundary = History[t][prev.cut]
        BY <2>1 DEF Smaller, Fresh, Continues
    <2>3. Target(store, t, n) = prev.covers \o Rendered(t, prev.cut, n)
        BY <1>2 DEF Target
    <2> HIDE DEF prev
    <2>4. PICK e : e = prev
        OBVIOUS
    <2>5. EntryOK(e) /\ e.cut < n /\ e.boundary = History[t][e.cut]
        BY <2>2, <2>4
    <2>6. n \in Nat /\ Len(History[t]) \in Nat
        BY HistoryAssumption
    <2>7. e.cut \in 1..(n - 1) /\ e.cut <= Len(History[t])
        BY <2>5, <2>6 DEF EntryOK, MadeIn
    <2>8. Tells(e.covers, t, e.cut)
        BY <2>5, <2>7, SameBoundary
    <2>9. Tells(e.covers \o Rendered(t, e.cut, n), t, n)
        BY <2>7, <2>8, FoldTells
    <2> QED BY <2>3, <2>4, <2>9
<1> QED BY <1>1, <1>2

LEMMA ReuseKeepsCover ==
    ASSUME CoverInv,
           NEW r \in Compactors, NEW t \in Threads, NEW n \in Cuts, Reuse(r, t, n)
    PROVE  CoverInv'
<1>1. PICK e \in summaries :
          /\ e.cut = n /\ e.boundary = History[t][n]
          /\ gets' = [gets EXCEPT ![r] = [kind |-> "text", covers |-> e.covers]]
    BY DEF Reuse, Valid
<1>2. /\ summaries' = summaries /\ n <= Len(History[t])
      /\ compactor' = [compactor EXCEPT ![r] = [at |-> "done", thread |-> t, cut |-> n, target |-> <<>>]]
    BY DEF Reuse, Enter
<1>3. Tells(e.covers, t, n)
    BY <1>1, <1>2, SameBoundary DEF CoverInv
<1>4. QED BY <1>1, <1>2, <1>3 DEF CoverInv, CompactorFields

LEMMA LeadKeepsCover ==
    ASSUME CoverInv,
           NEW r \in Compactors, NEW t \in Threads, NEW n \in Cuts, Lead(r, t, n)
    PROVE  CoverInv'
<1> DEFINE store == GetRemoves(summaries, t, n)
           target == Target(store, t, n)
<1>1. /\ compactor[r].at = "idle" /\ gets' = gets /\ n <= Len(History[t])
      /\ summaries' = Fresh(store)
      /\ compactor' = [compactor EXCEPT ![r] = [at |-> "leads", thread |-> t, cut |-> n, target |-> target]]
    BY DEF Lead, Misses, Enter
<1>2. \A e \in store : EntryOK(e)
    BY DEF CoverInv, GetRemoves
<1>3. n \in 1..Len(History[t])
    BY <1>1, CutsArePositive, HistoryAssumption
<1>4. Tells(target, t, n)
    BY <1>2, <1>3, TargetTells
<1>5. \A e \in summaries' : EntryOK(e)
    BY <1>1, <1>2 DEF Fresh
<1> HIDE DEF target
<1>6. QED BY <1>1, <1>3, <1>4, <1>5 DEF CoverInv, CompactorFields

LEMMA LeaveKeepsWho ==
    ASSUME CoverInv, NEW r \in Compactors, Leave(compactor[r].cut, r)
    PROVE  /\ DOMAIN compactor' = Compactors
           /\ \A q \in Compactors :
                 /\ DOMAIN compactor'[q] = CompactorFields
                 /\ compactor'[q].thread = compactor[q].thread
                 /\ compactor'[q].cut = compactor[q].cut
                 /\ compactor'[q].target = compactor[q].target
                 /\ compactor'[q].at \in {compactor[q].at, "done"}
                 /\ q = r => compactor'[q].at = "done"
<1> DEFINE n == compactor[r].cut
<1>1. /\ DOMAIN compactor' = Compactors
      /\ \A q \in Compactors :
            /\ compactor'[q] \in {compactor[q], [compactor[q] EXCEPT !.at = "done"]}
            /\ q = r => compactor'[q] = [compactor[q] EXCEPT !.at = "done"]
    BY DEF Leave
<1>2. QED BY <1>1 DEF CoverInv, CompactorFields

LEMMA SummarizedKeepsCover ==
    ASSUME CoverInv, NEW r \in Compactors, Summarized(r)
    PROVE  CoverInv'
<1> DEFINE t == compactor[r].thread
           n == compactor[r].cut
           made == compactor[r].target
<1>1. /\ compactor[r].at = "leads" /\ Leave(compactor[r].cut, r)
      /\ summaries' = Store(summaries, t, n, made)
      /\ DOMAIN gets' = Compactors
      /\ \A q \in Compactors :
            \/ q = r /\ gets'[q] = [kind |-> "text", covers |-> made]
            \/ q # r /\ gets'[q].kind = "object"
            \/ q # r /\ gets'[q] = gets[q]
    BY DEF Summarized
<1>2. t \in Threads /\ n \in 1..Len(History[t]) /\ Tells(made, t, n)
    BY <1>1 DEF CoverInv
<1>3. ASSUME NEW e \in summaries' PROVE EntryOK(e)
    <2>1. CASE e \in summaries
        BY <2>1 DEF CoverInv
    <2>2. CASE e \notin summaries
        <3>1. PICK k : e = [cut |-> n, boundary |-> History[t][n], covers |-> made, stale |-> FALSE, nth |-> k]
            BY <1>1, <2>2 DEF Store, PrunedStore, Fresh
        <3>2. n \in Nat \ {0} /\ n <= Len(History[t])
            BY <1>2, HistoryAssumption
        <3>3. MadeIn(e, t)
            BY <1>2, <3>1, <3>2 DEF MadeIn
        <3>4. DOMAIN e = EntryFields
            BY <3>1 DEF EntryFields
        <3>5. QED BY <1>2, <3>3, <3>4 DEF EntryOK
    <2>3. QED BY <2>1, <2>2
<1>4. /\ DOMAIN compactor' = Compactors
      /\ \A q \in Compactors :
            /\ DOMAIN compactor'[q] = CompactorFields
            /\ compactor'[q].thread = compactor[q].thread
            /\ compactor'[q].cut = compactor[q].cut
            /\ compactor'[q].target = compactor[q].target
            /\ compactor'[q].at \in {compactor[q].at, "done"}
            /\ q = r => compactor'[q].at = "done"
    BY <1>1, LeaveKeepsWho
<1>5. QED BY <1>1, <1>2, <1>3, <1>4 DEF CoverInv

LEMMA CoverNext == CoverInv /\ [CompactionNext]_compactionVars => CoverInv'
<1> SUFFICES ASSUME CoverInv, [CompactionNext]_compactionVars PROVE CoverInv'
    OBVIOUS
<1>1. CASE UNCHANGED compactionVars
    BY <1>1 DEF compactionVars, CoverInv
<1>2. ASSUME NEW r \in Compactors, Skip(r) PROVE CoverInv'
    BY <1>2 DEF Skip, CoverInv, CompactorFields
<1>3. ASSUME NEW r \in Compactors, NEW t \in Threads, NEW n \in Cuts, Reuse(r, t, n) PROVE CoverInv'
    BY <1>3, ReuseKeepsCover
<1>4. ASSUME NEW r \in Compactors, NEW t \in Threads, NEW n \in Cuts, Join(r, t, n) PROVE CoverInv'
    <2>1. summaries' \subseteq summaries /\ gets' = gets /\ compactor[r].at = "idle"
        BY <1>4 DEF Join, Misses, GetRemoves
    <2>2. compactor' = [compactor EXCEPT ![r] = [at |-> "joined", thread |-> t, cut |-> n, target |-> <<>>]]
        BY <1>4 DEF Join, Enter
    <2>3. QED BY <2>1, <2>2 DEF CoverInv, CompactorFields
<1>5. ASSUME NEW r \in Compactors, NEW t \in Threads, NEW n \in Cuts, Lead(r, t, n) PROVE CoverInv'
    BY <1>5, LeadKeepsCover
<1>6. ASSUME NEW r \in Compactors, Summarized(r) PROVE CoverInv'
    BY <1>6, SummarizedKeepsCover
<1>7. ASSUME NEW r \in Compactors, Fails(r) PROVE CoverInv'
    BY <1>7, LeaveKeepsWho DEF Fails, CoverInv
<1>8. ASSUME NEW e \in summaries, SummaryExpires(e) PROVE CoverInv'
    <2> DEFINE f == [e EXCEPT !.stale = TRUE]
    <2>1. summaries' = (summaries \ {e}) \cup {f} /\ UNCHANGED <<compactor, gets>>
        BY <1>8 DEF SummaryExpires
    <2>2. EntryOK(f)
        BY DEF CoverInv, EntryOK, MadeIn, EntryFields
    <2>3. QED BY <2>1, <2>2 DEF CoverInv
<1>9. QED
    BY <1>1, <1>2, <1>3, <1>4, <1>5, <1>6, <1>7, <1>8 DEF CompactionNext

\* SummaryCoversDropped for every family of conversations, any number of
\* requests and any limits: no expiry, eviction, folding or replacement makes a
\* request splice in a summary that does not end with the message it drops
\* last; and no conversation that the last dropped message tells apart at each
\* cut up to this one gets a message of another, or loses one of its most
\* recent that a rendering has room for.
THEOREM SummaryCovers == CompactionSpec => []SummaryCoversDropped
<1>1. CompactionInit => CoverInv
    BY CoverInit
<1>2. CoverInv /\ [CompactionNext]_compactionVars => CoverInv'
    BY CoverNext
<1>3. CoverInv => SummaryCoversDropped
    BY DEF CoverInv, SummaryCoversDropped, Tells
<1>4. QED BY <1>1, <1>2, <1>3, PTL DEF CompactionSpec

-----------------------------------------------------------------------------
(***************************************************************************)
(* The search for the number of exchanges.                                 *)
(***************************************************************************)

LEMMA PositionsFinite ==
    ASSUME messages \in Seq(Message)
    PROVE  /\ Len(messages) \in Nat /\ Positions \in SUBSET Nat /\ IsFiniteSet(Positions)
           /\ \A i \in Positions : i <= Len(messages) - 1 /\ Msg(i) \in Message
<1>1. Len(messages) \in Nat /\ DOMAIN messages = 1..Len(messages)
    OBVIOUS
<1>2. IsFiniteSet(Positions)
    <2>1. 0 \in Int /\ Len(messages) - 1 \in Int
        BY <1>1
    <2> QED BY <2>1, FS_Interval DEF Positions
<1>3. \A i \in Positions : Msg(i) \in Message
    BY <1>1 DEF Positions, Msg
<1> QED BY <1>1, <1>2, <1>3 DEF Positions

LEMMA KeptIsNat == ASSUME messages \in Seq(Message), NEW c PROVE Kept(c) \in Nat
<1> DEFINE sizes == [i \in Positions |-> Msg(i).size]
           S == {i \in Positions : i >= c}
<1>1. IsFiniteSet(Positions) /\ \A i \in Positions : sizes[i] \in Nat
    BY PositionsFinite DEF Message
<1>2. IsFiniteSet(S) /\ \A i \in S : sizes[i] \in Nat
    BY <1>1, FS_Subset
<1> HIDE DEF sizes, S
<1>3. SumFunctionOnSet(sizes, S) \in Nat
    BY <1>2, SumNat
<1> QED BY <1>3 DEF Kept, sizes, S

\* One exchange fewer is kept from a later turn.
LEMMA BoundaryFalls ==
    ASSUME messages \in Seq(Message), NEW n \in Nat \ {0}, Boundary(n + 1) > 0
    PROVE  Boundary(n + 1) < Boundary(n)
<1> DEFINE From(i) == {j \in Starts : j >= i}
           here(k) == {i \in Starts : Cardinality(From(i)) = k}
<1>1. /\ Starts \in SUBSET Nat /\ IsFiniteSet(Starts)
      /\ \A i : IsFiniteSet(From(i)) /\ Cardinality(From(i)) \in Nat
    BY PositionsFinite, FS_Subset, FS_CardinalityType DEF Starts
<1>2. ~(Len(messages) < 2 \/ Msg(Len(messages) - 1).role # "user")
    BY DEF Boundary
<1>3. ASSUME NEW k, Boundary(k) # 0 PROVE Boundary(k) \in here(k)
    BY <1>2, <1>3 DEF Boundary
<1>4. ASSUME NEW k, here(k) # {} PROVE Boundary(k) \in here(k)
    BY <1>2, <1>4 DEF Boundary
<1>5. PICK b : b = Boundary(n + 1)
    OBVIOUS
<1>6. b \in Starts /\ b \in Nat /\ Cardinality(From(b)) = n + 1
    <2>1. Boundary(n + 1) # 0
        OBVIOUS
    <2>2. b \in here(n + 1)
        BY <1>3, <1>5, <2>1
    <2> QED BY <1>1, <2>2
<1> DEFINE later == {j \in Starts : j > b}
<1>7. later = From(b) \ {b} /\ b \in From(b)
    <2>1. \A j \in Starts : j > b <=> j >= b /\ j # b
        BY <1>1, <1>6
    <2>2. b >= b
        BY <1>6
    <2> QED BY <1>6, <2>1, <2>2
<1>8. Cardinality(later) = n /\ IsFiniteSet(later)
    <2>1. PICK S : S = From(b)
        OBVIOUS
    <2>2. IsFiniteSet(S) /\ b \in S /\ Cardinality(S) = n + 1 /\ later = S \ {b}
        BY <1>1, <1>6, <1>7, <2>1
    <2> HIDE DEF later
    <2>3. IsFiniteSet(S \ {b}) /\ Cardinality(S \ {b}) = Cardinality(S) - 1
        BY <2>2, FS_RemoveElement
    <2> QED BY <2>2, <2>3
<1>9. later # {} /\ later \in SUBSET Nat
    <2>1. Cardinality({}) = 0
        BY FS_EmptySet
    <2> QED BY <1>1, <1>8, <2>1
<1>10. PICK k \in later : \A j \in later : k <= j
    <2> HIDE DEF later
    <2> QED BY <1>9, LeastNat
<1>11. k \in Starts /\ k \in Nat /\ k > b
    BY <1>1, <1>10
<1>12. From(k) = later
    <2>1. \A j \in Starts : j >= k <=> j > b
        BY <1>1, <1>6, <1>10, <1>11
    <2> QED BY <2>1
<1>13. k \in here(n)
    BY <1>8, <1>11, <1>12
<1>14. PICK m : m = Boundary(n)
    OBVIOUS
<1>15. m \in Starts /\ m \in Nat /\ Cardinality(From(m)) = n
    <2>1. m \in here(n)
        BY <1>4, <1>13, <1>14
    <2> QED BY <1>1, <2>1
<1>16. CASE m <= b
    <2>1. From(b) \subseteq From(m)
        <3>1. \A j \in Starts : j >= b => j >= m
            BY <1>1, <1>6, <1>15, <1>16
        <3> QED BY <3>1
    <2>2. PICK S, T : S = From(b) /\ T = From(m)
        OBVIOUS
    <2>3. /\ IsFiniteSet(T) /\ S \subseteq T /\ Cardinality(T) = n /\ Cardinality(S) = n + 1
        BY <1>1, <1>6, <1>15, <2>1, <2>2
    <2>4. Cardinality(S) <= Cardinality(T)
        BY <2>3, FS_Subset
    <2> QED BY <2>3, <2>4
<1> QED BY <1>5, <1>6, <1>14, <1>15, <1>16

\* The search so far.  A cut that was taken is safe; the search for fewer
\* exchanges holds one from before the boundary of one exchange more, so it
\* never comes back with nothing; the search for more takes what fits only.
CeilingInv ==
    /\ CutSafeInv
    /\ budget \in [floor : Nat, ceiling : Nat]
    /\ keeping \in MinKept..MostKept /\ cut \in Nat
    /\ search \in {"first", "fewer", "more", "over"}
    /\ search = "first" => cut = 0 /\ keeping = Keep
    /\ search \in {"fewer", "more"} => cut > 0
    /\ search = "fewer" => keeping < Keep
    /\ search = "over" /\ cut = 0 => \A d \in 1..Boundary(Keep) : ~Safe(d)
    /\ \A n \in Nat : n = keeping /\ finding \in {"repair", "returned"} => at <= Boundary(n)
    /\ \A c \in Nat : c = cut /\ c > 0 =>
          /\ Safe(c)
          /\ \A n \in Nat : n = keeping + 1 /\ search = "fewer" => c <= Boundary(n)
          /\ search = "more" => Kept(c) <= budget.ceiling
          /\ search = "over" => \/ Kept(c) <= budget.ceiling
                                \/ \A d \in (c + 1)..Boundary(MinKept) : ~Safe(d)

LEMMA SameMessages ==
    ASSUME messages' = messages
    PROVE  /\ \A n : Boundary(n)' = Boundary(n)
           /\ \A c : Safe(c)' = Safe(c) /\ Kept(c)' = Kept(c)
BY DEF Boundary, Safe, Split, Referenced, Starts, Positions, Msg, Kept

\* What is returned, in terms that no step of the search changes.
LEMMA Returned ==
    ASSUME CeilingInv, finding = "returned"
    PROVE  /\ at \in Nat /\ messages \in Seq(Message) /\ keeping \in Nat \ {0}
           /\ MinKept \in Nat \ {0}
           /\ at > 0 => Safe(at)
           /\ at <= Boundary(keeping)
           /\ \A c \in (at + 1)..Boundary(keeping) : ~Safe(c)
           /\ Kept(at) \in Nat /\ budget.ceiling \in Nat
<1>1. /\ at \in Nat /\ messages \in Seq(Message)
      /\ at > 0 => Safe(at)
      /\ \A c \in (at + 1)..Boundary(keeping) : ~Safe(c)
    BY DEF CeilingInv, CutSafeInv, Safe
<1>2. keeping \in Nat \ {0} /\ MinKept \in Nat \ {0} /\ budget.ceiling \in Nat
    BY KeepAssumption DEF CeilingInv
<1>3. at <= Boundary(keeping)
    BY <1>2 DEF CeilingInv
<1> QED BY <1>1, <1>2, <1>3, KeptIsNat

\* A step that takes a cut it has found, or leaves the one it has.
LEMMA CeilingNext == CeilingInv /\ [CutNext]_cutVars => CeilingInv'
<1> SUFFICES ASSUME CeilingInv, [CutNext]_cutVars PROVE CeilingInv'
    OBVIOUS
<1>1. CutSafeInv'
    BY CutSafeNext DEF CeilingInv
<1>2. messages' = messages /\ budget' = budget
    BY DEF CutNext, CutStep, CutOver, Walk, Repair, Return, NoCut, FirstCut, Narrow, Widen, cutVars
<1>3. /\ \A n : Boundary(n)' = Boundary(n)
      /\ \A c : Safe(c)' = Safe(c) /\ Kept(c)' = Kept(c)
    BY <1>2, SameMessages
<1>m. messages \in Seq(Message) /\ MinKept \in Nat \ {0} /\ Keep \in Nat /\ MostKept \in Nat
      /\ MinKept <= Keep /\ Keep <= MostKept /\ keeping \in Nat
    BY KeepAssumption DEF CeilingInv, CutSafeInv
<1>4. CASE UNCHANGED <<search, keeping, cut, at, finding>>
    BY <1>1, <1>2, <1>3, <1>4 DEF CeilingInv
<1>5. CASE Walk
    <2>1. at' = Boundary(keeping) /\ UNCHANGED <<search, keeping, cut>>
        BY <1>5 DEF Walk
    <2>2. Boundary(keeping) \in Nat
        BY <1>m, BoundaryIsUser
    <2>3. \A n \in Nat : n = keeping' => at' <= Boundary(n)'
        BY <1>3, <2>1, <2>2
    <2> QED BY <1>1, <1>2, <1>3, <2>1, <2>3 DEF CeilingInv
<1>6. CASE Repair
    <2> DEFINE u == UserTurnAt(Max(Split(at)))
    <2>1. /\ finding = "repair" /\ at > 0 /\ Split(at) # {} /\ at' = u
          /\ finding' = finding /\ UNCHANGED <<search, keeping, cut>>
        BY <1>6 DEF Repair
    <2>2. at \in Positions /\ at \in Nat
        BY <2>1 DEF CeilingInv, CutSafeInv
    <2>3. u \in Nat /\ u < at
        BY <1>m, <2>1, <2>2, RepairPassesNone
    <2> HIDE DEF u
    <2>4. \A n \in Nat : n = keeping' => at' <= Boundary(n)'
        <3> SUFFICES ASSUME NEW n \in Nat, n = keeping PROVE u <= Boundary(n)
            BY <1>3, <2>1
        <3>1. at <= Boundary(n)
            BY <2>1 DEF CeilingInv
        <3>2. Boundary(n) \in Nat
            BY <1>m, BoundaryIsUser
        <3> QED BY <2>2, <2>3, <3>1, <3>2
    <2> QED BY <1>1, <1>2, <1>3, <2>1, <2>4 DEF CeilingInv
<1>7. CASE Return
    <2>1. finding = "repair" /\ UNCHANGED <<search, keeping, cut, at>>
        BY <1>7 DEF Return
    <2> QED BY <1>1, <1>2, <1>3, <2>1 DEF CeilingInv
<1>8. CASE NoCut
    <2>1. /\ search' = "over" /\ cut' = 0 /\ UNCHANGED <<keeping, at, finding>>
          /\ finding = "returned" /\ at = 0 /\ keeping = Keep
        BY <1>8 DEF NoCut, Stop, CeilingInv
    <2>2. \A d \in 1..Boundary(Keep) : ~Safe(d)
        BY <2>1, Returned
    <2>3. (\A d \in 1..Boundary(Keep) : ~Safe(d))'
        BY <1>3, <2>2
    <2> QED BY <1>1, <1>2, <1>3, <2>1, <2>3 DEF CeilingInv
<1>9. ASSUME finding = "returned", cut' = at, at > 0,
             \/ /\ search' = "over" /\ UNCHANGED <<keeping, at, finding>>
                /\ Kept(at) <= budget.ceiling \/ keeping = MinKept
             \/ /\ search' = "fewer" /\ finding' = "walk"
                /\ keeping' = keeping - 1 /\ keeping > MinKept /\ keeping <= Keep
             \/ /\ search' = "more" /\ finding' = "walk"
                /\ keeping' = keeping + 1 /\ keeping < MostKept /\ Kept(at) <= budget.ceiling
      PROVE  CeilingInv'
    <2>1. /\ at \in Nat /\ keeping \in Nat \ {0} /\ Safe(at) /\ at <= Boundary(keeping)
          /\ \A c \in (at + 1)..Boundary(keeping) : ~Safe(c)
          /\ Kept(at) \in Nat /\ budget.ceiling \in Nat
        BY <1>9, Returned
    <2>2. keeping' \in MinKept..MostKept
        BY <1>m, <1>9 DEF CeilingInv
    <2>3. \A n \in Nat : n = keeping' /\ finding' \in {"repair", "returned"} => at' <= Boundary(n)'
        BY <1>3, <1>9, <2>1
    <2>4. ASSUME NEW c \in Nat, c = cut', c > 0
          PROVE  /\ Safe(c)'
                 /\ \A n \in Nat : n = keeping' + 1 /\ search' = "fewer" => c <= Boundary(n)'
                 /\ search' = "more" => Kept(c)' <= budget'.ceiling
                 /\ search' = "over" => \/ Kept(c)' <= budget'.ceiling
                                        \/ \A d \in (c + 1)..Boundary(MinKept)' : ~Safe(d)'
        <3>1. c = at
            BY <1>9, <2>4
        <3>2. ASSUME NEW n \in Nat, n = keeping' + 1, search' = "fewer" PROVE n = keeping
            BY <1>9, <1>m, <3>2
        <3>3. search' = "more" => Kept(c) <= budget.ceiling
            BY <1>9, <3>1
        <3>4. search' = "over" => Kept(c) <= budget.ceiling \/ MinKept = keeping
            BY <1>9, <3>1
        <3> QED BY <1>2, <1>3, <2>1, <3>1, <3>2, <3>3, <3>4
    <2>5. /\ budget' \in [floor : Nat, ceiling : Nat] /\ cut' \in Nat
          /\ search' \in {"fewer", "more", "over"} /\ cut' > 0
          /\ search' = "fewer" => keeping' < Keep
        BY <1>2, <1>9, <1>m, <2>1 DEF CeilingInv
    <2>6. cut' # 0 /\ search' # "first"
        BY <2>5
    <2>7. (search = "over" /\ cut = 0 => \A d \in 1..Boundary(Keep) : ~Safe(d))'
        BY <2>6
    <2> QED BY <1>1, <2>2, <2>3, <2>4, <2>5, <2>6, <2>7 DEF CeilingInv
<1>10. CASE FirstCut
    <2>1. /\ finding = "returned" /\ at > 0 /\ cut' = at /\ keeping = Keep
        BY <1>10 DEF FirstCut, CeilingInv
    <2>2. Kept(at) \in Nat /\ budget.ceiling \in Nat
        BY <2>1, Returned
    <2>3. \/ /\ search' = "over" /\ UNCHANGED <<keeping, at, finding>>
             /\ Kept(at) <= budget.ceiling \/ keeping = MinKept
          \/ /\ search' = "fewer" /\ finding' = "walk"
             /\ keeping' = keeping - 1 /\ keeping > MinKept /\ keeping <= Keep
          \/ /\ search' = "more" /\ finding' = "walk"
             /\ keeping' = keeping + 1 /\ keeping < MostKept /\ Kept(at) <= budget.ceiling
        BY <1>10, <1>m, <2>1 DEF FirstCut, Try, Stop
    <2> QED BY <1>9, <2>1, <2>3
<1>11. CASE Narrow
    <2>1. /\ finding = "returned" /\ search = "fewer" /\ cut > 0 /\ keeping < Keep /\ cut \in Nat
          /\ keeping \in MinKept..MostKept
          /\ Safe(cut) /\ cut <= Boundary(keeping + 1)
        BY <1>11, <1>m DEF Narrow, CeilingInv
    <2>2. /\ at \in Nat /\ keeping \in Nat \ {0}
          /\ \A c \in (at + 1)..Boundary(keeping) : ~Safe(c)
        BY <2>1, Returned
    <2>3. at > 0
        <3> SUFFICES ASSUME at = 0 PROVE FALSE
            BY <2>2
        <3>1. Boundary(keeping + 1) \in Nat /\ Boundary(keeping) \in Nat
            BY <1>m, BoundaryIsUser
        <3>2. Boundary(keeping + 1) < Boundary(keeping)
            BY <1>m, <2>1, <2>2, <3>1, BoundaryFalls
        <3>3. cut \in (at + 1)..Boundary(keeping)
            BY <2>1, <2>2, <3>1, <3>2
        <3> QED BY <2>1, <2>2, <3>3
    <2>4. /\ cut' = at
          /\ \/ /\ search' = "over" /\ UNCHANGED <<keeping, at, finding>>
                /\ Kept(at) <= budget.ceiling \/ keeping = MinKept
             \/ /\ search' = "fewer" /\ finding' = "walk"
                /\ keeping' = keeping - 1 /\ keeping > MinKept /\ keeping <= Keep
        BY <1>11, <1>m, <2>1, <2>3 DEF Narrow, Try, Stop
    <2> QED BY <1>9, <2>1, <2>3, <2>4
<1>12. CASE Widen
    <2>1. finding = "returned" /\ search = "more" /\ cut > 0 /\ cut \in Nat
          /\ keeping \in MinKept..MostKept
        BY <1>12 DEF Widen, CeilingInv
    <2>2. at \in Nat /\ Kept(at) \in Nat /\ budget.ceiling \in Nat
        BY <2>1, Returned
    <2>3. CASE at > 0 /\ Kept(at) <= budget.ceiling
        <3>1. /\ cut' = at
              /\ \/ search' = "over" /\ UNCHANGED <<keeping, at, finding>>
                 \/ /\ search' = "more" /\ finding' = "walk"
                    /\ keeping' = keeping + 1 /\ keeping < MostKept
            BY <1>12, <1>m, <2>1, <2>3 DEF Widen, Try, Stop
        <3> QED BY <1>9, <2>1, <2>3, <3>1
    <2>4. CASE ~(at > 0 /\ Kept(at) <= budget.ceiling)
        <3>1. cut' = cut /\ search' = "over" /\ UNCHANGED <<keeping, at, finding>>
            BY <1>12, <2>1, <2>4 DEF Widen, Stop
        <3>2. \A c \in Nat : c = cut /\ c > 0 => Safe(c) /\ Kept(c) <= budget.ceiling
            BY <2>1 DEF CeilingInv
        <3> QED BY <1>1, <1>2, <1>3, <2>1, <3>1, <3>2 DEF CeilingInv
    <2> QED BY <2>3, <2>4
<1> QED BY <1>4, <1>5, <1>6, <1>7, <1>8, <1>10, <1>11, <1>12 DEF CutNext, CutStep, CutOver, cutVars

LEMMA CeilingHolds == CeilingInv => CeilingOrFloor
<1> SUFFICES ASSUME CeilingInv, search = "over", cut > 0, cut \in Nat
             PROVE  /\ Safe(cut)
                    /\ Kept(cut) > budget.ceiling => \A c \in (cut + 1)..Boundary(MinKept) : ~Safe(c)
    <2> SUFFICES ASSUME CeilingInv PROVE CeilingOrFloor
        OBVIOUS
    <2>1. /\ cut \in Nat
          /\ search = "over" /\ cut = 0 => \A c \in 1..Boundary(Keep) : ~Safe(c)
        BY DEF CeilingInv
    <2> QED BY <2>1 DEF CeilingOrFloor
<1>1. Kept(cut) \in Nat /\ budget.ceiling \in Nat
    BY KeptIsNat DEF CeilingInv, CutSafeInv
<1>2. \A c \in Nat : c = cut /\ c > 0 =>
          /\ Safe(c)
          /\ Kept(c) <= budget.ceiling \/ \A d \in (c + 1)..Boundary(MinKept) : ~Safe(d)
    BY DEF CeilingInv
<1> QED BY <1>1, <1>2
-----------------------------------------------------------------------------
(***************************************************************************)
(* The conversion, one turn after the other.                               *)
(***************************************************************************)

Blank == [out |-> <<>>, flatten |-> FALSE]

\* The last turn of a set of them is converted after the others.
TurnStep(g, seq, known, s) ==
    IF s = {} THEN Blank ELSE ConvertTurn(g[s \ {Max(s)}], seq[Max(s)], known)
Converts(g, seq, known) == g = [s \in SUBSET DOMAIN seq |-> TurnStep(g, seq, known, s)]

\* The definition of the library, unfolded.
LEMMA ConversionUnfolded ==
    ASSUME NEW seq, NEW known
    PROVE  convertMessages(seq, known) = (CHOOSE g : Converts(g, seq, known))[DOMAIN seq].out
<1>1. convertMessages(seq, known) =
         (CHOOSE g : g = [s \in SUBSET DOMAIN seq |->
            IF s = {} THEN Blank
            ELSE ConvertTurn(g[s \ {Max(s)}], seq[Max(s)], known)])[DOMAIN seq].out
    BY DEF convertMessages, FoldLeft, MapThenFoldSet, Blank
<1> QED BY <1>1 DEF Converts, TurnStep

LEMMA LastTurn ==
    ASSUME NEW seq \in Seq(Message), NEW s \in SUBSET DOMAIN seq
    PROVE  /\ IsFiniteSet(s) /\ Cardinality(s) \in Nat
           /\ s # {} => /\ Max(s) \in s /\ \A i \in s : i <= Max(s)
                        /\ s \ {Max(s)} \in SUBSET DOMAIN seq
                        /\ Cardinality(s \ {Max(s)}) = Cardinality(s) - 1
<1>1. Len(seq) \in Nat /\ DOMAIN seq = 1..Len(seq)
    OBVIOUS
<1>2. IsFiniteSet(1..Len(seq))
    BY <1>1, FS_Interval
<1>3. IsFiniteSet(s) /\ Cardinality(s) \in Nat
    BY <1>1, <1>2, FS_Subset, FS_CardinalityType
<1>4. ASSUME s # {} PROVE Max(s) \in s /\ \A i \in s : i <= Max(s)
    <2>1. s \subseteq 0..Len(seq)
        BY <1>1
    <2> QED BY <1>1, <1>4, <2>1, MaxBelow
<1>5. ASSUME s # {} PROVE Cardinality(s \ {Max(s)}) = Cardinality(s) - 1
    BY <1>3, <1>4, <1>5, FS_RemoveElement
<1> QED BY <1>3, <1>4, <1>5

LEMMA ConversionExists ==
    ASSUME NEW seq \in Seq(Message), NEW known
    PROVE  \E g : Converts(g, seq, known)
<1> DEFINE Turns == SUBSET DOMAIN seq
           Up(g, n) == \A s \in Turns : Cardinality(s) <= n => g[s] = TurnStep(g, seq, known, s)
           Bad == {n \in Nat : ~ \E g : Up(g, n)}
<1>1. Bad = {}
    <2> SUFFICES ASSUME Bad # {} PROVE FALSE
        OBVIOUS
    <2>1. PICK n \in Bad : \A k \in Bad : n <= k
        <3>1. Bad \in SUBSET Nat
            OBVIOUS
        <3> HIDE DEF Bad
        <3> QED BY <3>1, LeastNat
    <2>2. n \in Nat /\ \A g : ~Up(g, n)
        BY <2>1
    <2>3. \E g : n > 0 => Up(g, n - 1)
        <3>1. CASE n = 0
            BY <3>1
        <3>2. CASE n > 0
            <4>1. n - 1 \in Nat /\ n - 1 \notin Bad
                BY <2>1, <2>2, <3>2
            <4> QED BY <4>1
        <3> QED BY <2>2, <3>1, <3>2
    <2>4. PICK g : n > 0 => Up(g, n - 1)
        BY <2>3
    <2> DEFINE h == [s \in Turns |-> TurnStep(g, seq, known, s)]
    <2>5. ASSUME NEW s \in Turns, Cardinality(s) <= n
          PROVE  h[s] = TurnStep(h, seq, known, s)
        <3>1. CASE s = {}
            BY <3>1 DEF TurnStep
        <3>2. CASE s # {}
            <4> DEFINE t == s \ {Max(s)}
            <4>1. /\ t \in Turns /\ Cardinality(t) = Cardinality(s) - 1
                  /\ Cardinality(t) \in Nat /\ Cardinality(s) \in Nat
                BY <3>2, LastTurn
            <4>2. n > 0 /\ Cardinality(t) <= n - 1
                BY <2>2, <2>5, <4>1
            <4>3. g[t] = TurnStep(g, seq, known, t)
                BY <2>4, <4>1, <4>2
            <4>4. h[t] = g[t]
                BY <4>1, <4>3
            <4>5. h[s] = ConvertTurn(g[t], seq[Max(s)], known)
                BY <3>2 DEF TurnStep
            <4> QED BY <3>2, <4>4, <4>5 DEF TurnStep
        <3> QED BY <3>1, <3>2
    <2>6. Up(h, n)
        BY <2>5
    <2> QED BY <2>2, <2>6
<1>2. Cardinality(DOMAIN seq) \in Nat
    BY LastTurn
<1>3. PICK g : Up(g, Cardinality(DOMAIN seq))
    BY <1>1, <1>2
<1> DEFINE h == [s \in Turns |-> g[s]]
<1>4. ASSUME NEW s \in Turns PROVE h[s] = TurnStep(h, seq, known, s)
    <2>1. Cardinality(s) <= Cardinality(DOMAIN seq)
        BY LastTurn, FS_Subset
    <2>2. g[s] = TurnStep(g, seq, known, s)
        BY <1>3, <2>1
    <2>3. s \ {Max(s)} \in Turns
        OBVIOUS
    <2> QED BY <2>2, <2>3 DEF TurnStep
<1>5. h = [s \in Turns |-> TurnStep(h, seq, known, s)]
    BY <1>4
<1>6. Converts(h, seq, known)
    BY <1>5 DEF Converts
<1> QED BY <1>6

\* The states that the conversion goes through: after[n] is that after n
\* turns.
LEMMA ConversionSteps ==
    ASSUME NEW seq \in Seq(Message), NEW known
    PROVE  \E after :
              /\ after[0] = Blank
              /\ \A n \in 1..Len(seq) : after[n] = ConvertTurn(after[n - 1], seq[n], known)
              /\ convertMessages(seq, known) = after[Len(seq)].out
<1>1. Len(seq) \in Nat /\ DOMAIN seq = 1..Len(seq)
    OBVIOUS
<1>2. PICK g : Converts(g, seq, known) /\ convertMessages(seq, known) = g[DOMAIN seq].out
    BY ConversionExists, ConversionUnfolded
<1>3. \A s \in SUBSET DOMAIN seq : g[s] = TurnStep(g, seq, known, s)
    BY <1>2 DEF Converts
<1> DEFINE after == [n \in 0..Len(seq) |-> g[1..n]]
<1>4. after[0] = Blank
    <2>1. 1..0 = {} /\ after[0] = g[1..0]
        BY <1>1
    <2> QED BY <1>3, <2>1 DEF TurnStep
<1>5. ASSUME NEW n \in 1..Len(seq)
      PROVE  after[n] = ConvertTurn(after[n - 1], seq[n], known)
    <2>b. n \in 1..n
        <3>1. n \in Int /\ 1 <= n
            BY <1>1
        <3> QED BY <3>1
    <2>d. 1..n \in SUBSET (1..Len(seq))
        BY <1>1
    <2>1. 1..n \in SUBSET DOMAIN seq /\ 1..n # {}
        BY <1>1, <2>b, <2>d
    <2>2. PICK m : m = Max(1..n)
        OBVIOUS
    <2>a. m \in 1..n /\ \A i \in 1..n : i <= m
        BY <2>1, <2>2, LastTurn
    <2>c. m \in Int /\ m <= n /\ n <= m
        BY <1>1, <2>a, <2>b
    <2>3. Max(1..n) = n
        BY <1>1, <2>2, <2>c
    <2>4. (1..n) \ {n} = 1..(n - 1)
        BY <1>1
    <2>5. g[1..n] = ConvertTurn(g[1..(n - 1)], seq[n], known)
        BY <1>3, <2>1, <2>3, <2>4 DEF TurnStep
    <2> QED BY <1>1, <2>5
<1>6. convertMessages(seq, known) = after[Len(seq)].out
    BY <1>1, <1>2
<1> HIDE DEF after
<1> QED BY <1>4, <1>5, <1>6
-----------------------------------------------------------------------------
(***************************************************************************)
(* What each turn adds.                                                    *)
(***************************************************************************)

OutMessage == [role : {"user", "assistant", "tool"}, calls : SUBSET Ids, answers : SUBSET Ids]

Extends(r, q) == Len(q) <= Len(r) /\ \A i \in 1..Len(q) : r[i] = q[i]

\* Every tool message has its call, and every call is answered, but for those
\* of the last message, which are the ones awaited.
Answering(q, awaited) ==
    /\ awaited # {} => q # <<>> /\ q[Len(q)].calls = awaited
    /\ \A i \in DOMAIN q :
          /\ q[i].role = "tool" => HasCall(q, i)
          /\ IsAnswered(q, i) \/ (i = Len(q) /\ awaited # {})

\* The results of a turn as a list: each of them, and nothing else.
LEMMA ResultsListed ==
    ASSUME NEW S \in SUBSET Ids
    PROVE  /\ IsFiniteSet(S) /\ Cardinality(S) \in Nat
           /\ SetToSeq(S) \in [1..Cardinality(S) -> S]
           /\ \A id \in S : \E i \in 1..Cardinality(S) : SetToSeq(S)[i] = id
<1>1. IsFiniteSet(S)
    BY IdsAssumption, FS_Subset
<1>2. Cardinality(S) \in Nat /\ ExistsBijection(1..Cardinality(S), S)
    BY <1>1, FS_CardinalityType
<1> DEFINE n == Cardinality(S)
<1>3. \E f \in [1..n -> S] : IsInjective(f)
    BY <1>2 DEF ExistsBijection, Bijection, Injection
<1>4. SetToSeq(S) \in [1..n -> S] /\ IsInjective(SetToSeq(S))
    BY <1>3 DEF SetToSeq
<1>5. IsFiniteSet(1..n) /\ Cardinality(1..n) = n
    <2>1. 1 \in Int /\ n \in Int
        BY <1>2
    <2>2. IsFiniteSet(1..n) /\ Cardinality(1..n) = IF n < 1 THEN 0 ELSE n - 1 + 1
        BY <2>1, FS_Interval
    <2> QED BY <1>2, <2>2
<1>6. SetToSeq(S) \in Injection(1..n, S)
    BY <1>4 DEF Injection
<1>7. SetToSeq(S) \in Surjection(1..n, S)
    <2>1. PICK f : f = SetToSeq(S)
        OBVIOUS
    <2>2. PICK D : D = 1..n
        OBVIOUS
    <2>3. f \in Injection(D, S) /\ IsFiniteSet(D) /\ Cardinality(D) = Cardinality(S)
        BY <1>5, <1>6, <2>1, <2>2
    <2>4. f \in Surjection(D, S)
        BY <1>1, <2>3, FS_Injection
    <2> QED BY <2>1, <2>2, <2>4
<1>8. \A id \in S : \E i \in 1..n : SetToSeq(S)[i] = id
    BY <1>7 DEF Surjection
<1> QED BY <1>1, <1>2, <1>4, <1>8

LEMMA PairsStay ==
    ASSUME NEW q \in Seq(OutMessage), NEW r \in Seq(OutMessage), Extends(r, q),
           NEW i \in DOMAIN q
    PROVE  /\ r[i] = q[i] /\ i \in DOMAIN r
           /\ HasCall(q, i) => HasCall(r, i)
           /\ IsAnswered(q, i) => IsAnswered(r, i)
<1>1. /\ Len(q) \in Nat /\ Len(r) \in Nat /\ DOMAIN q = 1..Len(q) /\ DOMAIN r = 1..Len(r)
    OBVIOUS
<1>2. /\ DOMAIN q \subseteq DOMAIN r /\ \A k \in DOMAIN q : r[k] = q[k]
    BY <1>1 DEF Extends
<1>3. ASSUME NEW h \in DOMAIN q, NEW j \in DOMAIN q, Follows(q, h, j) PROVE Follows(r, h, j)
    <2>1. \A k \in (j + 1)..h : k \in DOMAIN q
        BY <1>1
    <2> QED BY <1>2, <1>3, <2>1 DEF Follows
<1>4. HasCall(q, i) => HasCall(r, i)
    BY <1>2, <1>3 DEF HasCall
<1>5. IsAnswered(q, i) => IsAnswered(r, i)
    BY <1>2, <1>3 DEF IsAnswered
<1> QED BY <1>2, <1>4, <1>5

\* What an assistant turn adds: one message, whose calls are then awaited.
LEMMA AssistantAdds ==
    ASSUME NEW q \in Seq(OutMessage), Answering(q, {}), NEW uses \in SUBSET Ids
    PROVE  /\ Append(q, Out("assistant", uses, {})) \in Seq(OutMessage)
           /\ Answering(Append(q, Out("assistant", uses, {})), uses)
<1>1. PICK t : t = Out("assistant", uses, {})
    OBVIOUS
<1>2. t \in OutMessage /\ t.role = "assistant" /\ t.calls = uses
    BY <1>1 DEF Out, OutMessage
<1>3. PICK r : r = Append(q, t)
    OBVIOUS
<1>4. /\ r \in Seq(OutMessage) /\ Len(r) = Len(q) + 1 /\ r[Len(q) + 1] = t
      /\ \A i \in 1..Len(q) : r[i] = q[i]
    BY <1>2, <1>3, AppendProperties
<1>5. Len(q) \in Nat /\ DOMAIN q = 1..Len(q) /\ DOMAIN r = 1..(Len(q) + 1) /\ r # <<>>
    BY <1>4
<1>6. Extends(r, q)
    BY <1>4, <1>5 DEF Extends
<1>7. ASSUME NEW i \in DOMAIN r
      PROVE  /\ r[i].role = "tool" => HasCall(r, i)
             /\ IsAnswered(r, i) \/ (i = Len(r) /\ uses # {})
    <2>1. CASE i \in DOMAIN q
        <3>1. (q[i].role = "tool" => HasCall(q, i)) /\ IsAnswered(q, i)
            BY <2>1 DEF Answering
        <3> QED BY <1>4, <1>6, <2>1, <3>1, PairsStay
    <2>2. CASE i = Len(r)
        BY <1>2, <1>4, <2>2 DEF IsAnswered
    <2> QED BY <1>4, <1>5, <2>1, <2>2
<1>8. Answering(r, uses)
    BY <1>2, <1>4, <1>5, <1>7 DEF Answering
<1> QED BY <1>1, <1>3, <1>4, <1>8

\* What a user turn adds: its results, and what the user says.
UserAdds(r, q, f, m, k) ==
    /\ r \in Seq(OutMessage) /\ Extends(r, q)
    /\ k \in Len(q)..Len(r)
    /\ \A i \in (Len(q) + 1)..k :
          IF f THEN r[i] = Out("user", {}, {})
          ELSE \E id \in m.results : r[i] = Out("tool", {}, {id})
    /\ ~f => \A id \in m.results : \E i \in (Len(q) + 1)..k : r[i] = Out("tool", {}, {id})
    /\ \A i \in (k + 1)..Len(r) : r[i] = Out("user", {}, {})

LEMMA UserTurn ==
    ASSUME NEW q \in Seq(OutMessage), NEW f \in BOOLEAN, NEW m \in Message
    PROVE  \E r, k : /\ ConvertUser([out |-> q, flatten |-> f], m)
                           = [out |-> r, flatten |-> f /\ m.results = {}]
                     /\ UserAdds(r, q, f, m, k)
<1> DEFINE results == SetToSeq(m.results)
           n == Cardinality(m.results)
           answers == [i \in DOMAIN results |->
                         IF f THEN Out("user", {}, {}) ELSE Out("tool", {}, {results[i]})]
           rest == IF m.says THEN <<Out("user", {}, {})>> ELSE <<>>
<1>1. m.results \in SUBSET Ids
    BY DEF Message
<1>2. /\ n \in Nat /\ results \in [1..n -> m.results]
      /\ \A id \in m.results : \E i \in 1..n : results[i] = id
    BY <1>1, ResultsListed
<1> HIDE DEF results, n
<1>o. /\ Out("user", {}, {}) \in OutMessage
      /\ \A id \in Ids : Out("tool", {}, {id}) \in OutMessage
    BY DEF Out, OutMessage
<1>3. answers \in [1..n -> OutMessage]
    <2>1. DOMAIN results = 1..n /\ \A i \in 1..n : results[i] \in Ids
        BY <1>1, <1>2
    <2>2. \A i \in 1..n : Out("tool", {}, {results[i]}) \in OutMessage
        BY <1>o, <2>1
    <2> QED BY <1>o, <2>1, <2>2
<1>4. PICK a : a = answers
    OBVIOUS
<1>5. /\ a \in Seq(OutMessage) /\ Len(a) = n
      /\ \A i \in 1..n : a[i] = IF f THEN Out("user", {}, {}) ELSE Out("tool", {}, {results[i]})
    <2>1. a \in [1..n -> OutMessage]
        BY <1>3, <1>4
    <2>2. DOMAIN results = 1..n
        BY <1>2
    <2>3. \A i \in 1..n : a[i] = IF f THEN Out("user", {}, {}) ELSE Out("tool", {}, {results[i]})
        BY <1>4, <2>2
    <2>4. a \in Seq(OutMessage) /\ Len(a) = n
        BY <1>2, <2>1
    <2> QED BY <2>3, <2>4
<1>6. PICK u : u = rest
    OBVIOUS
<1>7. /\ u \in Seq(OutMessage) /\ Len(u) \in {0, 1} /\ \A i \in 1..Len(u) : u[i] = Out("user", {}, {})
    <2>1. PICK d : d = Out("user", {}, {})
        OBVIOUS
    <2>2. d \in OutMessage /\ (u = <<d>> \/ u = <<>>)
        BY <1>6, <1>o, <2>1
    <2>3. CASE u = <<d>>
        <3>1. u \in Seq(OutMessage) /\ Len(u) = 1 /\ u[1] = d
            BY <2>2, <2>3
        <3> QED BY <2>1, <3>1
    <2>4. CASE u = <<>>
        BY <2>4
    <2> QED BY <2>2, <2>3, <2>4
<1>8. PICK b : b = q \o a
    OBVIOUS
<1>9. /\ b \in Seq(OutMessage) /\ Len(b) = Len(q) + n
      /\ \A i \in 1..(Len(q) + n) : b[i] = IF i <= Len(q) THEN q[i] ELSE a[i - Len(q)]
    BY <1>5, <1>8, ConcatProperties
<1>10. PICK r : r = b \o u
    OBVIOUS
<1>11. /\ r \in Seq(OutMessage) /\ Len(r) = Len(b) + Len(u)
       /\ \A i \in 1..(Len(b) + Len(u)) : r[i] = IF i <= Len(b) THEN b[i] ELSE u[i - Len(b)]
    BY <1>7, <1>9, <1>10, ConcatProperties
<1>12. ConvertUser([out |-> q, flatten |-> f], m) = [out |-> r, flatten |-> f /\ m.results = {}]
    <2>1. ConvertUser([out |-> q, flatten |-> f], m)
            = [out |-> q \o answers \o rest, flatten |-> f /\ m.results = {}]
        BY DEF ConvertUser, FlagAfter, results
    <2> QED BY <1>4, <1>6, <1>8, <1>10, <2>1
<1> DEFINE k == Len(b)
<1>13. Len(q) \in Nat /\ Len(r) \in Nat /\ k \in Len(q)..Len(r)
    BY <1>2, <1>7, <1>9, <1>11
<1>14. Extends(r, q)
    BY <1>2, <1>7, <1>9, <1>11, <1>13 DEF Extends
<1>15. \A i \in (Len(q) + 1)..k : i - Len(q) \in 1..n /\ r[i] = a[i - Len(q)]
    BY <1>2, <1>7, <1>9, <1>11, <1>13
<1>16. \A i \in (k + 1)..Len(r) : r[i] = Out("user", {}, {})
    <2>1. \A i \in (k + 1)..Len(r) : i - k \in 1..Len(u) /\ r[i] = u[i - k]
        BY <1>2, <1>7, <1>9, <1>11, <1>13
    <2> QED BY <1>7, <2>1
<1>17. ASSUME NEW i \in (Len(q) + 1)..k
       PROVE  IF f THEN r[i] = Out("user", {}, {})
              ELSE \E id \in m.results : r[i] = Out("tool", {}, {id})
    <2>1. PICK j : j = i - Len(q)
        OBVIOUS
    <2>2. j \in 1..n /\ r[i] = a[j]
        BY <1>15, <2>1
    <2>3. results[j] \in m.results
        BY <1>2, <2>2
    <2>4. r[i] = IF f THEN Out("user", {}, {}) ELSE Out("tool", {}, {results[j]})
        BY <1>5, <2>2
    <2> QED BY <2>3, <2>4
<1>18. ASSUME ~f, NEW id \in m.results
       PROVE  \E i \in (Len(q) + 1)..k : r[i] = Out("tool", {}, {id})
    <2>1. PICK j \in 1..n : results[j] = id
        BY <1>2
    <2>2. Len(q) + j \in (Len(q) + 1)..k /\ (Len(q) + j) - Len(q) = j
        BY <1>2, <1>9, <1>13
    <2>3. r[Len(q) + j] = a[j]
        BY <1>15, <2>2
    <2>4. a[j] = Out("tool", {}, {id})
        BY <1>5, <1>18, <2>1
    <2> QED BY <2>2, <2>3, <2>4
<1>19. UserAdds(r, q, f, m, k)
    BY <1>11, <1>13, <1>14, <1>16, <1>17, <1>18 DEF UserAdds
<1> QED BY <1>12, <1>19

\* After a user turn nothing is awaited: the results it brought are those of
\* the calls that were.
LEMMA UserAnswers ==
    ASSUME NEW q \in Seq(OutMessage), NEW f \in BOOLEAN, NEW m \in Message, NEW awaited,
           Answering(q, awaited), awaited = IF f THEN {} ELSE m.results,
           NEW r, NEW k, UserAdds(r, q, f, m, k)
    PROVE  Answering(r, {})
<1>1. /\ r \in Seq(OutMessage) /\ Extends(r, q) /\ k \in Len(q)..Len(r)
      /\ \A i \in (Len(q) + 1)..k :
            IF f THEN r[i] = Out("user", {}, {})
            ELSE \E id \in m.results : r[i] = Out("tool", {}, {id})
      /\ ~f => \A id \in m.results : \E i \in (Len(q) + 1)..k : r[i] = Out("tool", {}, {id})
      /\ \A i \in (k + 1)..Len(r) : r[i] = Out("user", {}, {})
    BY DEF UserAdds
<1>2. Len(q) \in Nat /\ Len(r) \in Nat /\ DOMAIN q = 1..Len(q) /\ DOMAIN r = 1..Len(r) /\ k \in Nat
      /\ Len(q) <= k /\ k <= Len(r)
    BY <1>1
<1>3. \A i \in DOMAIN q : /\ q[i].role = "tool" => HasCall(q, i)
                          /\ IsAnswered(q, i) \/ (i = Len(q) /\ awaited # {})
    BY DEF Answering
<1>o. /\ Out("user", {}, {}).role = "user" /\ Out("user", {}, {}).calls = {}
      /\ \A id : /\ Out("tool", {}, {id}).role = "tool" /\ Out("tool", {}, {id}).calls = {}
                 /\ Out("tool", {}, {id}).answers = {id}
    BY DEF Out
<1>4. ASSUME ~f, NEW i \in (Len(q) + 1)..k
      PROVE  /\ Len(q) \in DOMAIN r /\ r[Len(q)].calls = m.results /\ Follows(r, i, Len(q))
             /\ \E id \in m.results : r[i].answers = {id}
    <2>1. \A j \in (Len(q) + 1)..k : \E id \in m.results : r[j] = Out("tool", {}, {id})
        BY <1>1, <1>4
    <2>2. PICK id \in m.results : r[i] = Out("tool", {}, {id})
        BY <2>1
    <2>3. awaited # {} /\ awaited = m.results
        BY <1>4, <2>2
    <2>4. q # <<>> /\ q[Len(q)].calls = m.results
        BY <2>3 DEF Answering
    <2>5. Len(q) \in DOMAIN q
        BY <1>2, <2>4
    <2>6. r[Len(q)].calls = m.results /\ Len(q) \in DOMAIN r
        BY <1>1, <2>4, <2>5, PairsStay
    <2>7. ASSUME NEW j \in (Len(q) + 1)..i PROVE r[j].role = "tool"
        <3>1. j \in (Len(q) + 1)..k
            BY <1>2
        <3>2. PICK other \in m.results : r[j] = Out("tool", {}, {other})
            BY <2>1, <3>1
        <3> QED BY <3>2 DEF Out
    <2>8. Follows(r, i, Len(q))
        BY <1>2, <2>7 DEF Follows
    <2> QED BY <1>o, <2>2, <2>6, <2>8
<1>5. ASSUME NEW i \in DOMAIN r, r[i].role = "tool" PROVE HasCall(r, i)
    <2>1. CASE i \in DOMAIN q
        <3>1. r[i] = q[i]
            BY <1>1, <2>1, PairsStay
        <3>2. HasCall(q, i)
            BY <1>3, <1>5, <2>1, <3>1
        <3> QED BY <1>1, <2>1, <3>2, PairsStay
    <2>2. CASE i \notin DOMAIN q
        <3>1. i \in (Len(q) + 1)..k \/ i \in (k + 1)..Len(r)
            BY <1>2, <2>2
        <3>2. i \in (Len(q) + 1)..k /\ ~f
            BY <1>1, <1>5, <1>o, <3>1
        <3>3. PICK id \in m.results : r[i].answers = {id}
            BY <1>4, <3>2
        <3>4. r[i].answers \subseteq r[Len(q)].calls
            BY <1>4, <3>2, <3>3
        <3> QED BY <1>4, <3>2, <3>4 DEF HasCall
    <2> QED BY <2>1, <2>2
<1>6. ASSUME NEW i \in DOMAIN r PROVE IsAnswered(r, i)
    <2>1. CASE i \in DOMAIN q /\ IsAnswered(q, i)
        BY <1>1, <2>1, PairsStay
    <2>2. CASE i = Len(q) /\ awaited # {} /\ i \in DOMAIN q
        <3>1. ~f /\ awaited = m.results
            BY <2>2
        <3>2. r[i].calls = m.results
            <4>1. q[i].calls = m.results
                BY <2>2, <3>1 DEF Answering
            <4> QED BY <1>1, <2>2, <4>1, PairsStay
        <3>3. ASSUME NEW id \in m.results
              PROVE  \E j \in DOMAIN r : Follows(r, j, i) /\ r[j].answers = {id}
            <4>1. PICK j \in (Len(q) + 1)..k : r[j] = Out("tool", {}, {id})
                BY <1>1, <3>1
            <4>2. j \in DOMAIN r
                BY <1>2
            <4> QED BY <1>4, <1>o, <2>2, <3>1, <4>1, <4>2
        <3> QED BY <3>2, <3>3 DEF IsAnswered
    <2>3. CASE i \notin DOMAIN q
        <3>1. i \in (Len(q) + 1)..k \/ i \in (k + 1)..Len(r)
            BY <1>2, <2>3
        <3>2. r[i].calls = {}
            BY <1>1, <1>o, <3>1
        <3> QED BY <3>2 DEF IsAnswered
    <2> QED BY <1>3, <2>1, <2>2, <2>3
<1> QED BY <1>5, <1>6 DEF Answering
-----------------------------------------------------------------------------
(***************************************************************************)
(* What is kept of a valid conversation is valid, and so is what it is     *)
(* converted to.                                                           *)
(***************************************************************************)

\* The conversion of a valid conversation goes from list to list: nothing is
\* wrong with the messages made so far, and only the calls of the turn that
\* was converted last may be waiting for their results, in structured form
\* unless that turn has been flattened.
LEMMA ConvertedIsAccepted ==
    ASSUME NEW seq \in Seq(Message), WellPaired(seq), NEW known
    PROVE  Accepted(convertMessages(seq, known))
<1>1. Len(seq) \in Nat /\ DOMAIN seq = 1..Len(seq) /\ \A n \in 1..Len(seq) : seq[n] \in Message
    OBVIOUS
<1>2. PICK after : /\ after[0] = Blank
                   /\ \A n \in 1..Len(seq) : after[n] = ConvertTurn(after[n - 1], seq[n], known)
                   /\ convertMessages(seq, known) = after[Len(seq)].out
    BY ConversionSteps
<1> DEFINE Awaited(n, f) == IF n > 0 /\ ~f THEN seq[n].uses ELSE {}
           Good(n, q, f) == /\ q \in Seq(OutMessage) /\ f \in BOOLEAN
                            /\ after[n] = [out |-> q, flatten |-> f]
                            /\ f => n > 0 /\ seq[n].uses # {}
                            /\ Answering(q, Awaited(n, f))
           Bad == {n \in 0..Len(seq) : ~ \E q, f : Good(n, q, f)}
<1>3. Bad = {}
    <2> SUFFICES ASSUME Bad # {} PROVE FALSE
        OBVIOUS
    <2>1. PICK n \in Bad : \A k \in Bad : n <= k
        <3>1. Bad \in SUBSET Nat
            BY <1>1
        <3> HIDE DEF Bad
        <3> QED BY <3>1, LeastNat
    <2>2. n \in 0..Len(seq) /\ n \in Nat /\ \A q, f : ~Good(n, q, f)
        BY <1>1, <2>1
    <2>3. CASE n = 0
        <3>1. PICK q : q = <<>>
            OBVIOUS
        <3>2. q \in Seq(OutMessage) /\ DOMAIN q = {}
            BY <3>1
        <3>3. Answering(q, {})
            BY <3>2 DEF Answering
        <3>4. Good(0, q, FALSE)
            BY <1>2, <3>1, <3>2, <3>3 DEF Blank
        <3> QED BY <2>2, <2>3, <3>4
    <2>4. CASE n > 0
        <3>1. n - 1 \in 0..Len(seq) /\ n \in 1..Len(seq) /\ n - 1 \in Nat
            BY <1>1, <2>2, <2>4
        <3>2. n - 1 \notin Bad
            <4>1. n - 1 \in Bad => n <= n - 1
                BY <2>1
            <4> HIDE DEF Bad
            <4> QED BY <2>2, <4>1
        <3>3. PICK q, f : Good(n - 1, q, f)
            BY <3>1, <3>2
        <3>4. PICK m : m = seq[n]
            OBVIOUS
        <3>5. /\ m \in Message
              /\ IF m.role = "user" THEN m.uses = {} ELSE m.results = {}
              /\ n = 1 => m.role = "user" /\ m.results = {}
              /\ n > 1 => m.results = seq[n - 1].uses
            <4>1. m \in Message /\ IF m.role = "user" THEN m.uses = {} ELSE m.results = {}
                BY <1>1, <3>1, <3>4 DEF WellPaired
            <4>2. n = 1 => m.role = "user" /\ m.results = {}
                <5>1. seq # <<>>
                    BY <1>1, <3>1
                <5> QED BY <3>4, <5>1 DEF WellPaired
            <4>3. n > 1 => m.results = seq[n - 1].uses
                <5>1. n > 1 => n \in 2..Len(seq)
                    BY <1>1, <3>1
                <5> QED BY <3>4, <5>1 DEF WellPaired
            <4> QED BY <4>1, <4>2, <4>3
        <3>6. PICK awaited : awaited = Awaited(n - 1, f)
            OBVIOUS
        <3>7. /\ q \in Seq(OutMessage) /\ f \in BOOLEAN /\ after[n - 1] = [out |-> q, flatten |-> f]
              /\ f => m.results # {}
              /\ awaited = (IF f THEN {} ELSE m.results) /\ Answering(q, awaited)
            <4>1. n - 1 > 0 <=> n > 1
                BY <2>2
            <4>2. n = 1 \/ n > 1
                BY <2>2, <2>4
            <4> QED BY <3>3, <3>5, <3>6, <4>1, <4>2
        <3>8. after[n] = ConvertTurn([out |-> q, flatten |-> f], m, known)
            BY <1>2, <3>1, <3>4, <3>7
        <3>9. CASE m.role = "user"
            <4>1. PICK r, k : /\ ConvertUser([out |-> q, flatten |-> f], m)
                                    = [out |-> r, flatten |-> f /\ m.results = {}]
                              /\ UserAdds(r, q, f, m, k)
                BY <3>5, <3>7, UserTurn
            <4>2. Answering(r, {}) /\ r \in Seq(OutMessage)
                BY <3>5, <3>7, <4>1, UserAnswers DEF UserAdds
            <4>3. (f /\ m.results = {}) = FALSE
                BY <3>7
            <4>4. after[n] = [out |-> r, flatten |-> FALSE]
                BY <3>8, <3>9, <4>1, <4>3 DEF ConvertTurn
            <4>5. Awaited(n, FALSE) = {}
                BY <2>4, <3>4, <3>5, <3>9
            <4>6. Good(n, r, FALSE)
                BY <4>2, <4>4, <4>5
            <4> QED BY <2>2, <4>6
        <3>10. CASE m.role # "user"
            <4>1. m.results = {} /\ f = FALSE /\ Answering(q, {}) /\ m.uses \in SUBSET Ids
                BY <3>5, <3>7, <3>10 DEF Message
            <4>2. CASE m.uses # {} /\ m.uses \cap known = {}
                <5>1. PICK r : r = Append(q, Out("assistant", {}, {}))
                    OBVIOUS
                <5>2. r \in Seq(OutMessage) /\ Answering(r, {})
                    BY <3>7, <4>1, <5>1, AssistantAdds
                <5>3. after[n] = [out |-> r, flatten |-> TRUE]
                    BY <3>8, <3>10, <4>2, <5>1 DEF ConvertTurn, ConvertAssistant
                <5>4. Good(n, r, TRUE)
                    BY <2>4, <3>4, <4>2, <5>2, <5>3
                <5> QED BY <2>2, <5>4
            <4>3. CASE ~(m.uses # {} /\ m.uses \cap known = {})
                <5>1. PICK r : r = Append(q, Out("assistant", m.uses, {}))
                    OBVIOUS
                <5>2. r \in Seq(OutMessage) /\ Answering(r, m.uses)
                    BY <3>7, <4>1, <5>1, AssistantAdds
                <5>3. after[n] = [out |-> r, flatten |-> FALSE]
                    BY <3>8, <3>10, <4>1, <4>3, <5>1 DEF ConvertTurn, ConvertAssistant
                <5>4. Good(n, r, FALSE)
                    BY <2>4, <3>4, <5>2, <5>3
                <5> QED BY <2>2, <5>4
            <4> QED BY <4>2, <4>3
        <3> QED BY <3>9, <3>10
    <2> QED BY <2>2, <2>3, <2>4
<1>4. PICK q, f : Good(Len(seq), q, f)
    <2>1. Len(seq) \in 0..Len(seq)
        BY <1>1
    <2>2. Len(seq) \notin Bad
        <3> HIDE DEF Bad
        <3> QED BY <1>3
    <2> QED BY <2>1, <2>2
<1>5. Awaited(Len(seq), f) = {}
    <2>1. Len(seq) > 0 => seq # <<>>
        OBVIOUS
    <2> QED BY <1>1, <2>1 DEF WellPaired
<1>6. Answering(q, {})
    BY <1>4, <1>5
<1>7. convertMessages(seq, known) = q
    BY <1>2, <1>4
<1>8. Accepted(q)
    BY <1>6 DEF Accepted, Answering
<1> QED BY <1>7, <1>8

\* A safe cut leaves a valid conversation: its first turn has no results,
\* since their calls would be dropped.
LEMMA SafeKeepsPairing ==
    ASSUME messages \in Seq(Message), WellPaired(messages),
           NEW c \in Nat, c > 0 => Safe(c)
    PROVE  /\ SubSeq(messages, c + 1, Len(messages)) \in Seq(Message)
           /\ WellPaired(SubSeq(messages, c + 1, Len(messages)))
<1>1. Len(messages) \in Nat /\ DOMAIN messages = 1..Len(messages)
      /\ \A n \in 1..Len(messages) : messages[n] \in Message
    OBVIOUS
<1>2. PICK z : z = Len(messages)
    OBVIOUS
<1>3. PICK kept : kept = SubSeq(messages, c + 1, z)
    OBVIOUS
<1>4. c <= z /\ (c > 0 => c < z) /\ z \in Nat
    BY <1>1, <1>2 DEF Safe, Positions
<1>5. /\ kept \in Seq(Message) /\ Len(kept) = z - c
      /\ \A i \in 1..(z - c) : kept[i] = messages[c + i]
    <2>1. c + 1 \in Int /\ z \in Int /\ \A i \in (c + 1)..z : messages[i] \in Message
        BY <1>1, <1>2, <1>4
    <2>2. /\ kept \in Seq(Message) /\ Len(kept) = (IF c + 1 <= z THEN z - (c + 1) + 1 ELSE 0)
          /\ \A i \in 1..(z - (c + 1) + 1) : kept[i] = messages[(c + 1) + i - 1]
        BY <1>3, <2>1, SubSeqProperties
    <2>3. Len(kept) = z - c
        BY <1>4, <2>2
    <2>4. ASSUME NEW i \in 1..(z - c) PROVE kept[i] = messages[c + i]
        <3>1. (c + 1) + i - 1 = c + i /\ i \in 1..(z - (c + 1) + 1)
            BY <1>4
        <3> QED BY <2>2, <3>1
    <2> QED BY <2>2, <2>3, <2>4
<1>6. DOMAIN kept = 1..(z - c) /\ \A i \in 1..(z - c) : c + i \in 1..z
    BY <1>4, <1>5
<1>7. ASSUME kept # <<>>
      PROVE  kept[1].role = "user" /\ kept[1].results = {} /\ kept[Len(kept)].uses = {}
    <2>1. z - c > 0 /\ messages # <<>>
        BY <1>1, <1>2, <1>4, <1>5, <1>7
    <2>2. kept[Len(kept)] = messages[z]
        BY <1>4, <1>5, <2>1
    <2>3. messages[z].uses = {}
        BY <1>2, <2>1 DEF WellPaired
    <2>4. kept[1] = messages[c + 1]
        BY <1>4, <1>5, <2>1
    <2>5. CASE c = 0
        BY <2>1, <2>2, <2>3, <2>4, <2>5 DEF WellPaired
    <2>6. CASE c > 0
        <3>1. Msg(c).role = "user" /\ Split(c) = {}
            BY <2>6 DEF Safe
        <3>2. messages[c + 1].results = messages[c].uses
            <4>1. c + 1 \in 2..z /\ (c + 1) - 1 = c
                BY <1>4, <2>1, <2>6
            <4> QED BY <1>2, <4>1 DEF WellPaired
        <3>3. c \in DOMAIN messages /\ messages[c] \in Message
            BY <1>1, <1>2, <1>4, <2>6
        <3>4. CASE messages[c].role = "user"
            <4>1. messages[c].uses = {}
                BY <3>3, <3>4 DEF WellPaired
            <4> QED BY <2>2, <2>3, <2>4, <3>1, <3>2, <4>1 DEF Msg
        <3>5. CASE messages[c].role # "user"
            <4>1. messages[c].role = "assistant"
                BY <3>3, <3>5 DEF Message
            <4>2. c - 1 \in Positions /\ c - 1 < c /\ Msg(c - 1) = messages[c]
                BY <1>2, <1>4, <2>6 DEF Positions, Msg
            <4>3. messages[c].uses \cap Referenced(c) = {}
                BY <3>1, <4>1, <4>2 DEF Split
            <4>4. c \in Positions /\ c >= c /\ Msg(c) = messages[c + 1]
                BY <1>2, <1>4, <2>6 DEF Positions, Msg
            <4>5. messages[c + 1].results \subseteq Referenced(c)
                BY <4>4 DEF Referenced
            <4>6. messages[c + 1].results = {}
                BY <3>2, <4>3, <4>5
            <4> QED BY <2>2, <2>3, <2>4, <3>1, <4>6 DEF Msg
        <3> QED BY <3>4, <3>5
    <2> QED BY <2>5, <2>6
<1>8. ASSUME NEW i \in DOMAIN kept
      PROVE  IF kept[i].role = "user" THEN kept[i].uses = {} ELSE kept[i].results = {}
    <2>1. c + i \in DOMAIN messages /\ kept[i] = messages[c + i]
        BY <1>1, <1>2, <1>5, <1>6
    <2> QED BY <2>1 DEF WellPaired
<1>9. ASSUME NEW i \in 2..Len(kept) PROVE kept[i].results = kept[i - 1].uses
    <2>1. /\ i \in 1..(z - c) /\ i - 1 \in 1..(z - c) /\ c + i \in 2..z
          /\ (c + i) - 1 = c + (i - 1)
        BY <1>4, <1>5
    <2>2. messages[c + i].results = messages[(c + i) - 1].uses
        BY <1>2, <2>1 DEF WellPaired
    <2> QED BY <1>5, <2>1, <2>2
<1>10. WellPaired(kept)
    BY <1>7, <1>8, <1>9 DEF WellPaired
<1> QED BY <1>2, <1>3, <1>5, <1>10

\* KeptIsFitToSend (maybeCompact with findCompactionCut, then convertMessages):
\* for every conversation, budget and number of exchanges, the search gives up
\* only if nothing is safe to drop at the configured number of exchanges; the
\* cut it settles on otherwise is safe, and over the ceiling only if no safe
\* cut up to the last boundary drops more; and what is kept of a valid
\* conversation converts to a list in which every tool message follows its call
\* and every call is answered, whichever of the reasoning has been lost.
THEOREM KeptFitToSend == CutSpec => []KeptIsFitToSend
<1>1. CutInit => CeilingInv
    <2> SUFFICES ASSUME CutInit PROVE CeilingInv
        OBVIOUS
    <2>1. CutSafeInv
        BY CutSafeInit
    <2>2. budget \in [floor : Nat, ceiling : Nat]
        BY BudgetsAssumption DEF CutInit
    <2>3. keeping \in MinKept..MostKept
        BY KeepAssumption DEF CutInit
    <2> QED BY <2>1, <2>2, <2>3 DEF CeilingInv, CutInit
<1>2. CeilingInv => KeptConvertsValidly
    <2> SUFFICES ASSUME CeilingInv, search = "over", WellPaired(messages), NEW known \in SUBSET Ids
                 PROVE  Accepted(convertMessages(SubSeq(messages, cut + 1, Len(messages)), known))
        BY DEF KeptConvertsValidly
    <2>1. PICK c : c = cut
        OBVIOUS
    <2>2. messages \in Seq(Message) /\ c \in Nat /\ (c > 0 => Safe(c))
        BY <2>1 DEF CeilingInv, CutSafeInv
    <2>3. PICK kept : kept = SubSeq(messages, c + 1, Len(messages))
        OBVIOUS
    <2>4. kept \in Seq(Message) /\ WellPaired(kept)
        BY <2>2, <2>3, SafeKeepsPairing
    <2>5. Accepted(convertMessages(kept, known))
        BY <2>4, ConvertedIsAccepted
    <2> QED BY <2>1, <2>3, <2>5
<1>3. CeilingInv => KeptIsFitToSend
    BY <1>2, CeilingHolds DEF KeptIsFitToSend
<1> QED BY <1>1, <1>3, CeilingNext, PTL DEF CutSpec
=============================================================================
