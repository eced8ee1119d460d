--------------------------- MODULE ServingProofs ----------------------------
(***************************************************************************)
(* Proofs about Serving, for every set of requests, models and tools and   *)
(* every fallback chain without repetition; and about the tools that are   *)
(* sent with a request (Pruning), for every list of them and every         *)
(* registry.                                                               *)
(***************************************************************************)
EXTENDS Serving, Pruning, SumTheorems

-----------------------------------------------------------------------------
(***************************************************************************)
(* Serving.                                                                *)
(***************************************************************************)

\* A request has attempted nothing, and told its client nothing, before it
\* reaches a model.
Fresh(r) ==
    pc[r] \in {"idle", "classify", "compact"} =>
        attempts[r] = <<>> /\ tried[r] = 0 /\ body[r] = "none"

\* The models a request may have attempted: the selected one, and those of the
\* chain up to the last fallback.
Seen(r) == {request[r].model} \cup {Chain[j] : j \in 1..tried[r]}

\* The model being called is the selected one until a fallback replaces it,
\* and has not failed the request.
Calling(r) ==
    pc[r] = "call" =>
        /\ call[r].model = IF tried[r] = 0 THEN request[r].model ELSE Chain[tried[r]]
        /\ tried[r] > 0 => call[r].model # request[r].model
        /\ \A i \in DOMAIN attempts[r] :
               ~attempts[r][i].ok => attempts[r][i].model # call[r].model

UnderWay(r) ==
    pc[r] \in {"compact", "call", "fallback"} =>
        /\ request[r].model \in Models
        /\ \A i \in DOMAIN attempts[r] : attempts[r][i].model \in Seen(r)

\* Only a relayed stream has its headers out before the answer, and a call
\* that leaves it so has failed.
Refused(r) ==
    /\ request[r].stream
    /\ attempts[r] # <<>>
    /\ ~Last(attempts[r]).ok
    /\ ~Pruned(r, Last(attempts[r]).model)

Opened(r) ==
    /\ body[r] \in Final => pc[r] = "done"
    /\ pc[r] = "done" /\ body[r] \notin Final => body[r] = "open" /\ Refused(r)
    /\ pc[r] = "fallback" /\ body[r] = "open" => Refused(r)
    /\ pc[r] = "call" /\ body[r] = "open" => request[r].stream /\ ~Pruned(r, call[r].model)

Tallied(r) ==
    body[r] \in {"answer", "search", "cut"} =>
        /\ record[r] # None
        /\ record[r].serving # None
        /\ record[r].serving.ok

Skipping(r) ==
    \A i, j \in DOMAIN attempts[r] :
        i < j /\ ~attempts[r][i].ok => attempts[r][j].model # attempts[r][i].model

RequestInv(r) ==
    Fresh(r) /\ Calling(r) /\ UnderWay(r) /\ Opened(r) /\ Tallied(r) /\ Skipping(r)

ServingInv == TypeOK /\ \A r \in Requests : RequestInv(r)

-----------------------------------------------------------------------------
(***************************************************************************)
(* The operators.                                                          *)
(***************************************************************************)

\* A non-empty set of naturals has a least element.
LEMMA MinType ==
    ASSUME NEW S \in SUBSET Nat, S # {}
    PROVE  Min(S) \in S
<1>1. PICK x \in S : \A y \in S : ~(<<y, x>> \in OpToRel(<, Nat))
  BY NatLessThanWellFounded, WFMin
<1>2. \A y \in S : x <= y
  <2>1. ASSUME NEW y \in S, y < x PROVE FALSE
    BY <1>1, <2>1 DEF OpToRel
  <2> QED BY <2>1
<1> QED BY <1>2 DEF Min

\* The recorded attempt is one of the attempts, and one that succeeded when
\* any did.
LEMMA ServingAttemptType ==
    ASSUME NEW seq \in Seq(Attempt)
    PROVE  /\ ServingAttempt(seq) \in Attempt \cup {None}
           /\ \A i \in DOMAIN seq : seq[i].ok =>
                 ServingAttempt(seq) \in Attempt /\ ServingAttempt(seq).ok
<1> DEFINE ok == {i \in DOMAIN seq : seq[i].ok}
<1>1. ok \in SUBSET Nat
  OBVIOUS
<1>2. CASE ok # {}
  <2>1. Min(ok) \in ok
    BY <1>1, <1>2, MinType
  <2>2. ServingAttempt(seq) = seq[Min(ok)]
    BY <1>2 DEF ServingAttempt
  <2>3. Min(ok) \in DOMAIN seq /\ seq[Min(ok)].ok
    BY <2>1
  <2>4. \A i \in DOMAIN seq : seq[i] \in Attempt
    OBVIOUS
  <2> HIDE DEF ok
  <2> QED BY <2>2, <2>3, <2>4, Zenon
<1>3. CASE ok = {}
  BY <1>3 DEF ServingAttempt
<1> QED BY <1>2, <1>3

-----------------------------------------------------------------------------
(***************************************************************************)
(* A step of one request leaves the others alone.                          *)
(***************************************************************************)

Same(r) ==
    /\ pc'[r] = pc[r]
    /\ request'[r] = request[r]
    /\ call'[r] = call[r]
    /\ attempts'[r] = attempts[r]
    /\ tried'[r] = tried[r]
    /\ body'[r] = body[r]
    /\ record'[r] = record[r]

LEMMA SameKeepsInv ==
    ASSUME NEW r \in Requests, RequestInv(r), Same(r)
    PROVE  RequestInv(r)'
  BY DEF RequestInv, Same, Fresh, Calling, UnderWay, Seen, Opened, Refused, Pruned, Tallied, Skipping

LEMMA InitInv == Init => ServingInv
<1> SUFFICES ASSUME Init PROVE ServingInv
  OBVIOUS
<1>1. TypeOK
  <2>1. Len(Chain) \in Nat
    BY ChainAssumption
  <2> QED BY <2>1 DEF Init, TypeOK, NoCall, NoSpend, MaxRounds
<1>2. ASSUME NEW r \in Requests PROVE RequestInv(r)
  BY DEF Init, RequestInv, Fresh, Calling, UnderWay, Opened, Tallied, Skipping, Final
<1> QED BY <1>1, <1>2 DEF ServingInv

\* What a completed call adds to the attempts, and that it was of a model that
\* had not failed.
LEMMA AttemptedKeeps ==
    ASSUME ServingInv, NEW r \in Requests, pc[r] = "call",
           NEW ok \in BOOLEAN, NEW usage \in BOOLEAN,
           attempts' = Attempted(r, ok, usage)
    PROVE  /\ call[r].model \in Models
           /\ attempts' \in [Requests -> Seq(Attempt)]
           /\ \A q \in Requests \ {r} : attempts'[q] = attempts[q]
           /\ DOMAIN attempts'[r] = 1..(Len(attempts[r]) + 1)
           /\ attempts'[r] # <<>>
           /\ Last(attempts'[r]).model = call[r].model
           /\ Last(attempts'[r]).ok = ok
           /\ attempts'[r][Len(attempts[r]) + 1].ok = ok
           /\ \A i \in DOMAIN attempts'[r] : attempts'[r][i].model \in Seen(r)
           /\ \A i \in DOMAIN attempts[r] : attempts'[r][i] = attempts[r][i]
           /\ attempts'[r][Len(attempts[r]) + 1].model = call[r].model
           /\ Skipping(r)'
<1> DEFINE a == [model |-> call[r].model, ok |-> ok, usage |-> usage]
<1> DEFINE n == Len(attempts[r])
<1>1. RequestInv(r) /\ attempts[r] \in Seq(Attempt) /\ tried[r] \in 0..Len(Chain)
  BY DEF ServingInv, TypeOK
<1>2. call[r].model \in Models /\ call[r].model \in Seen(r)
  <2>1. CASE tried[r] = 0
    BY <1>1, <2>1 DEF RequestInv, Calling, UnderWay, Seen
  <2>2. CASE tried[r] # 0
    <3>1. tried[r] \in 1..Len(Chain) /\ tried[r] \in 1..tried[r]
      BY <1>1, <2>2, ChainAssumption
    <3>2. call[r].model = Chain[tried[r]]
      BY <1>1, <2>2 DEF RequestInv, Calling
    <3> QED BY <3>1, <3>2, ChainAssumption DEF Seen
  <2> QED BY <2>1, <2>2
<1>3. a \in Attempt /\ a.model = call[r].model /\ a.ok = ok
  BY <1>2 DEF Attempt
<1>4. attempts' = [attempts EXCEPT ![r] = Append(attempts[r], a)]
  BY DEF Attempted
<1> HIDE DEF a
<1>5. /\ attempts' \in [Requests -> Seq(Attempt)]
      /\ \A q \in Requests \ {r} : attempts'[q] = attempts[q]
      /\ attempts'[r] = Append(attempts[r], a)
  BY <1>1, <1>3, <1>4 DEF ServingInv, TypeOK
<1>6. /\ DOMAIN attempts'[r] = 1..(n + 1)
      /\ n \in Nat
      /\ Len(attempts'[r]) = n + 1
      /\ attempts'[r] # <<>>
      /\ attempts'[r][n + 1] = a
      /\ \A i \in 1..n : attempts'[r][i] = attempts[r][i]
      /\ DOMAIN attempts[r] = 1..n
  BY <1>1, <1>3, <1>5
<1> HIDE DEF n
<1>7. Last(attempts'[r]) = a
  BY <1>6 DEF Last
<1>8. ASSUME NEW i \in 1..(n + 1) PROVE attempts'[r][i].model \in Seen(r)
  <2>1. CASE i = n + 1
    BY <1>2, <1>3, <1>6, <2>1
  <2>2. CASE i \in 1..n
    BY <1>1, <1>6, <2>2 DEF RequestInv, UnderWay
  <2> QED BY <1>6, <2>1, <2>2
<1>9. Skipping(r)'
  <2> SUFFICES ASSUME NEW i \in 1..(n + 1), NEW j \in 1..(n + 1), i < j, ~attempts'[r][i].ok
               PROVE  attempts'[r][j].model # attempts'[r][i].model
    BY <1>6 DEF Skipping
  <2>1. i \in 1..n /\ attempts'[r][i] = attempts[r][i]
    BY <1>6
  <2>2. CASE j = n + 1
    BY <1>1, <1>3, <1>6, <2>1, <2>2 DEF RequestInv, Calling
  <2>3. CASE j \in 1..n
    <3>1. attempts'[r][j] = attempts[r][j]
      BY <1>6, <2>3
    <3>2. ~attempts[r][i].ok
      BY <2>1
    <3>3. attempts[r][j].model # attempts[r][i].model
      BY <1>1, <1>6, <2>1, <2>3, <3>2 DEF RequestInv, Skipping
    <3> QED BY <2>1, <3>1, <3>3
  <2> QED BY <1>6, <2>2, <2>3
<1> QED BY <1>2, <1>3, <1>5, <1>6, <1>7, <1>8, <1>9 DEF n

\* What the recording of a request holds.
LEMMA FinishKeeps ==
    ASSUME TypeOK, NEW r \in Requests, NEW seq \in Seq(Attempt), Finish(r, seq)
    PROVE  /\ pc' \in [Requests -> {"idle", "classify", "compact", "call", "fallback", "done"}]
           /\ record' \in [Requests -> Recording \cup {None}]
           /\ pc'[r] = "done"
           /\ \A q \in Requests \ {r} : pc'[q] = pc[q] /\ record'[q] = record[q]
           /\ record'[r] # None
           /\ \A i \in DOMAIN seq : seq[i].ok =>
                 record'[r].serving # None /\ record'[r].serving.ok
<1> DEFINE rec == [serving |-> ServingAttempt(seq),
                   classifier |-> spent[r].classifier,
                   compaction |-> spent[r].compaction]
<1>1. rec \in Recording /\ rec.serving = ServingAttempt(seq)
  BY ServingAttemptType DEF Recording, TypeOK
<1>2. \A i \in DOMAIN seq : seq[i].ok => ServingAttempt(seq) \in Attempt /\ ServingAttempt(seq).ok
  BY ServingAttemptType
<1>3. pc' = [pc EXCEPT ![r] = "done"] /\ record' = [record EXCEPT ![r] = rec]
  BY DEF Finish
<1> HIDE DEF rec
<1>4. record'[r] = rec
  BY <1>3 DEF TypeOK
<1> QED BY <1>1, <1>2, <1>3, <1>4, ServingNoneAssumption DEF TypeOK

\* What the start of a call sets.
LEMMA ServeKeeps ==
    ASSUME TypeOK, NEW r \in Requests, NEW m \in Models, NEW snapshot \in SUBSET Tools,
           Serve(r, m, snapshot), body[r] = "none"
    PROVE  /\ pc' \in [Requests -> {"idle", "classify", "compact", "call", "fallback", "done"}]
           /\ call' \in [Requests -> [model : Models \cup {None}, round : 0..(MaxRounds - 1),
                                      inline : SUBSET Tools]]
           /\ found' \in [Requests -> SUBSET Tools]
           /\ body' \in [Requests -> {"none", "open"} \cup Final]
           /\ pc'[r] = "call"
           /\ call'[r].model = m
           /\ body'[r] \in {"none", "open"}
           /\ body'[r] = "open" => request[r].stream /\ ~Pruned(r, m)
           /\ \A q \in Requests \ {r} :
                 pc'[q] = pc[q] /\ call'[q] = call[q] /\ body'[q] = body[q]
  BY DEF Serve, TypeOK, MaxRounds, Final

LEMMA OneRequest ==
    ASSUME ServingInv, NEW r \in Requests, TypeOK', RequestInv(r)',
           \A q \in Requests \ {r} : Same(q)
    PROVE  ServingInv'
  BY SameKeepsInv DEF ServingInv

-----------------------------------------------------------------------------
(***************************************************************************)
(* The steps.                                                              *)
(***************************************************************************)

LEMMA ArriveStep ==
    ASSUME ServingInv, NEW r \in Requests, NEW stream \in BOOLEAN,
           NEW tools \in {"none", "few", "many"}, Arrive(r, stream, tools)
    PROVE  ServingInv'
<1>1. TypeOK'
  BY DEF ServingInv, TypeOK, Arrive
<1>2. /\ pc[r] = "idle" /\ pc'[r] = "classify"
      /\ UNCHANGED <<call, attempts, tried, body, record>>
      /\ \A q \in Requests \ {r} : Same(q)
  BY DEF ServingInv, TypeOK, Arrive, Same
<1>3. RequestInv(r)'
  BY <1>2 DEF ServingInv, RequestInv, Fresh, Calling, UnderWay, Opened, Tallied, Skipping, Final
<1> QED BY <1>1, <1>2, <1>3, OneRequest

LEMMA SelectStep ==
    ASSUME ServingInv, NEW r \in Requests, NEW m \in Models, NEW paid \in BOOLEAN,
           Select(r, m, paid)
    PROVE  ServingInv'
<1>1. TypeOK'
  <2>1. request' \in [Requests -> [stream : BOOLEAN, tools : {"none", "few", "many"},
                                  model : Models \cup {None}]]
    <3>1. /\ request \in [Requests -> [stream : BOOLEAN, tools : {"none", "few", "many"},
                                       model : Models \cup {None}]]
          /\ request' = [request EXCEPT ![r].model = m]
      BY DEF ServingInv, TypeOK, Select
    <3> QED BY <3>1
  <2>2. spent' \in [Requests -> [classifier : BOOLEAN, compaction : BOOLEAN]]
    BY DEF ServingInv, TypeOK, Select
  <2>3. pc' \in [Requests -> {"idle", "classify", "compact", "call", "fallback", "done"}]
    BY DEF ServingInv, TypeOK, Select
  <2> QED BY <2>1, <2>2, <2>3 DEF ServingInv, TypeOK, Select
<1>2. /\ pc[r] = "classify" /\ pc'[r] = "compact" /\ request'[r].model = m
      /\ UNCHANGED <<call, attempts, tried, body, record>>
      /\ \A q \in Requests \ {r} : Same(q)
  BY DEF ServingInv, TypeOK, Select, Same
<1>3. RequestInv(r)'
  BY <1>2 DEF ServingInv, RequestInv, Fresh, Calling, UnderWay, Opened, Tallied, Skipping, Final
<1> QED BY <1>1, <1>2, <1>3, OneRequest

LEMMA SelectFailsStep ==
    ASSUME ServingInv, NEW r \in Requests, SelectFails(r)
    PROVE  ServingInv'
<1>1. TypeOK'
  BY DEF ServingInv, TypeOK, SelectFails, Final
<1>2. /\ pc[r] = "classify" /\ pc'[r] = "done" /\ body'[r] = "error"
      /\ UNCHANGED <<request, call, attempts, tried, record>>
      /\ \A q \in Requests \ {r} : Same(q)
  BY DEF ServingInv, TypeOK, SelectFails, Same
<1>3. RequestInv(r)'
  BY <1>2 DEF ServingInv, RequestInv, Fresh, Calling, UnderWay, Opened, Tallied, Skipping, Final
<1> QED BY <1>1, <1>2, <1>3, OneRequest

LEMMA CompactStep ==
    ASSUME ServingInv, NEW r \in Requests, NEW paid \in BOOLEAN, Compact(r, paid)
    PROVE  ServingInv'
<1> DEFINE m == request[r].model
<1>1. /\ TypeOK /\ RequestInv(r) /\ pc[r] = "compact"
      /\ spent' = [spent EXCEPT ![r].compaction = paid]
      /\ discovered' = [discovered EXCEPT ![r] = registry]
      /\ UNCHANGED <<registry, request, attempts, tried, record>>
  BY DEF ServingInv, Compact
<1>2. m \in Models /\ attempts[r] = <<>> /\ tried[r] = 0 /\ body[r] = "none"
  BY <1>1 DEF RequestInv, Fresh, UnderWay
<1>3. /\ spent' \in [Requests -> [classifier : BOOLEAN, compaction : BOOLEAN]]
      /\ discovered' \in [Requests -> SUBSET Tools]
  BY <1>1 DEF TypeOK
<1>4. CASE pc' = [pc EXCEPT ![r] = "fallback"] /\ UNCHANGED <<call, found, body>>
  <2>1. TypeOK'
    BY <1>1, <1>3, <1>4 DEF TypeOK
  <2>2. pc'[r] = "fallback" /\ \A q \in Requests \ {r} : Same(q)
    BY <1>1, <1>4 DEF TypeOK, Same
  <2>3. RequestInv(r)'
    BY <1>1, <1>2, <1>4, <2>2
       DEF RequestInv, Fresh, Calling, UnderWay, Opened, Tallied, Skipping, Final
  <2> QED BY <2>1, <2>2, <2>3, OneRequest
<1>5. CASE Serve(r, m, registry)
  <2> HIDE DEF m
  <2>1. registry \in SUBSET Tools
    BY <1>1 DEF TypeOK
  <2>2. /\ pc' \in [Requests -> {"idle", "classify", "compact", "call", "fallback", "done"}]
        /\ call' \in [Requests -> [model : Models \cup {None}, round : 0..(MaxRounds - 1),
                                   inline : SUBSET Tools]]
        /\ found' \in [Requests -> SUBSET Tools]
        /\ body' \in [Requests -> {"none", "open"} \cup Final]
        /\ pc'[r] = "call"
        /\ call'[r].model = m
        /\ body'[r] \in {"none", "open"}
        /\ body'[r] = "open" => request[r].stream /\ ~Pruned(r, m)
        /\ \A q \in Requests \ {r} :
              pc'[q] = pc[q] /\ call'[q] = call[q] /\ body'[q] = body[q]
    BY <1>1, <1>2, <1>5, <2>1, ServeKeeps
  <2>3. TypeOK'
    BY <1>1, <1>3, <2>2 DEF TypeOK
  <2>4. \A q \in Requests \ {r} : Same(q)
    BY <1>1, <2>2 DEF Same
  <2>5. RequestInv(r)'
    BY <1>1, <1>2, <2>2
       DEF m, RequestInv, Fresh, Calling, UnderWay, Opened, Pruned, Tallied, Skipping, Final
  <2> QED BY <2>3, <2>4, <2>5, OneRequest
<1> QED BY <1>4, <1>5 DEF Compact

LEMMA AnsweredStep ==
    ASSUME ServingInv, NEW r \in Requests, NEW usage \in BOOLEAN, NEW cut \in BOOLEAN,
           Answered(r, usage, cut)
    PROVE  ServingInv'
<1>1. /\ TypeOK /\ RequestInv(r) /\ pc[r] = "call"
      /\ attempts' = Attempted(r, TRUE, usage)
      /\ body' = [body EXCEPT ![r] = IF cut THEN "cut" ELSE "answer"]
      /\ Finish(r, attempts'[r])
      /\ UNCHANGED <<registry, request, call, discovered, found, tried, spent>>
  BY DEF ServingInv, Answered
<1>2. /\ attempts' \in [Requests -> Seq(Attempt)]
      /\ \A q \in Requests \ {r} : attempts'[q] = attempts[q]
      /\ Len(attempts[r]) + 1 \in DOMAIN attempts'[r]
      /\ attempts'[r][Len(attempts[r]) + 1].ok
      /\ Skipping(r)'
  <2>1. Len(attempts[r]) \in Nat
    BY <1>1 DEF TypeOK
  <2>2. /\ attempts' \in [Requests -> Seq(Attempt)]
        /\ \A q \in Requests \ {r} : attempts'[q] = attempts[q]
        /\ DOMAIN attempts'[r] = 1..(Len(attempts[r]) + 1)
        /\ attempts'[r][Len(attempts[r]) + 1].ok = TRUE
        /\ Skipping(r)'
    BY <1>1, AttemptedKeeps, Zenon
  <2> QED BY <2>1, <2>2
<1>3. /\ pc' \in [Requests -> {"idle", "classify", "compact", "call", "fallback", "done"}]
      /\ record' \in [Requests -> Recording \cup {None}]
      /\ pc'[r] = "done"
      /\ \A q \in Requests \ {r} : pc'[q] = pc[q] /\ record'[q] = record[q]
      /\ record'[r] # None /\ record'[r].serving # None /\ record'[r].serving.ok
  BY <1>1, <1>2, FinishKeeps
<1>4. /\ body' \in [Requests -> {"none", "open"} \cup Final]
      /\ body'[r] \in {"cut", "answer"}
      /\ \A q \in Requests \ {r} : body'[q] = body[q]
  BY <1>1 DEF TypeOK, Final
<1>5. TypeOK'
  BY <1>1, <1>2, <1>3, <1>4 DEF TypeOK
<1>6. \A q \in Requests \ {r} : Same(q)
  BY <1>1, <1>2, <1>3, <1>4 DEF Same
<1>7. RequestInv(r)'
  BY <1>2, <1>3, <1>4 DEF RequestInv, Fresh, Calling, UnderWay, Opened, Tallied, Final
<1> QED BY <1>5, <1>6, <1>7, OneRequest

LEMMA SearchStep ==
    ASSUME ServingInv, NEW r \in Requests, NEW tool \in Tools \cup {None}, Search(r, tool)
    PROVE  ServingInv'
<1>1. /\ TypeOK /\ RequestInv(r) /\ pc[r] = "call" /\ Pruned(r, call[r].model)
      /\ attempts' = Attempted(r, TRUE, TRUE)
      /\ registry' = registry \cup Resolved(tool)
      /\ found' = [found EXCEPT ![r] = @ \cup Resolved(tool)]
      /\ UNCHANGED <<request, discovered, tried, spent>>
  BY DEF ServingInv, Search
<1>2. /\ attempts' \in [Requests -> Seq(Attempt)]
      /\ \A q \in Requests \ {r} : attempts'[q] = attempts[q]
      /\ DOMAIN attempts'[r] = 1..(Len(attempts[r]) + 1)
      /\ Len(attempts[r]) + 1 \in DOMAIN attempts'[r]
      /\ attempts'[r][Len(attempts[r]) + 1].ok
      /\ \A i \in DOMAIN attempts'[r] : attempts'[r][i].model \in Seen(r)
      /\ \A i \in DOMAIN attempts[r] : attempts'[r][i] = attempts[r][i]
      /\ DOMAIN attempts[r] = 1..Len(attempts[r])
      /\ Len(attempts[r]) \in Nat
      /\ Skipping(r)'
  <2>1. Len(attempts[r]) \in Nat /\ DOMAIN attempts[r] = 1..Len(attempts[r])
    BY <1>1 DEF TypeOK
  <2>2. /\ attempts' \in [Requests -> Seq(Attempt)]
        /\ \A q \in Requests \ {r} : attempts'[q] = attempts[q]
        /\ DOMAIN attempts'[r] = 1..(Len(attempts[r]) + 1)
        /\ attempts'[r][Len(attempts[r]) + 1].ok = TRUE
        /\ \A i \in DOMAIN attempts'[r] : attempts'[r][i].model \in Seen(r)
        /\ \A i \in DOMAIN attempts[r] : attempts'[r][i] = attempts[r][i]
        /\ Skipping(r)'
    BY <1>1, AttemptedKeeps, Zenon
  <2> QED BY <2>1, <2>2
<1>3. registry' \subseteq Tools /\ found' \in [Requests -> SUBSET Tools]
  BY <1>1 DEF TypeOK, Resolved
<1>4. CASE call[r].round < MaxRounds - 1
  <2>1. /\ call' = [call EXCEPT ![r].round = @ + 1]
        /\ UNCHANGED <<pc, body, record>>
    BY <1>4 DEF Search, SwallowedRound
  <2>2. /\ call' \in [Requests -> [model : Models \cup {None}, round : 0..(MaxRounds - 1),
                                   inline : SUBSET Tools]]
        /\ call'[r].model = call[r].model
        /\ \A q \in Requests \ {r} : call'[q] = call[q]
    <3>1. call[r].round + 1 \in 0..(MaxRounds - 1)
      <4>1. call[r].round \in 0..2
        BY <1>1 DEF TypeOK, MaxRounds
      <4> QED BY <1>4, <4>1 DEF MaxRounds
    <3>2. call' = [call EXCEPT ![r] = [call[r] EXCEPT !.round = call[r].round + 1]]
      BY <2>1
    <3> QED BY <1>1, <3>1, <3>2 DEF TypeOK
  <2>3. TypeOK'
    BY <1>1, <1>2, <1>3, <2>1, <2>2 DEF TypeOK
  <2>4. \A q \in Requests \ {r} : Same(q)
    BY <1>1, <1>2, <2>1, <2>2 DEF Same
  <2>5. Calling(r)'
    <3>1. ASSUME NEW i \in DOMAIN attempts'[r], ~attempts'[r][i].ok
          PROVE  attempts'[r][i].model # call[r].model
      <4>1. i \in DOMAIN attempts[r]
        BY <1>2, <3>1
      <4> QED BY <1>1, <1>2, <3>1, <4>1 DEF RequestInv, Calling
    <3> QED BY <1>1, <2>1, <2>2, <3>1 DEF RequestInv, Calling
  <2>6. UnderWay(r)'
    BY <1>1, <1>2, <2>1 DEF RequestInv, UnderWay, Seen
  <2>7. RequestInv(r)'
    BY <1>1, <1>2, <2>1, <2>2, <2>5, <2>6
       DEF RequestInv, Fresh, Opened, Pruned, Tallied, Final
  <2> QED BY <2>3, <2>4, <2>7, OneRequest
<1>5. CASE ~(call[r].round < MaxRounds - 1)
  <2>1. /\ body' = [body EXCEPT ![r] = "search"]
        /\ Finish(r, attempts'[r])
        /\ UNCHANGED call
    BY <1>5 DEF Search
  <2>2. /\ pc' \in [Requests -> {"idle", "classify", "compact", "call", "fallback", "done"}]
        /\ record' \in [Requests -> Recording \cup {None}]
        /\ pc'[r] = "done"
        /\ \A q \in Requests \ {r} : pc'[q] = pc[q] /\ record'[q] = record[q]
        /\ record'[r] # None /\ record'[r].serving # None /\ record'[r].serving.ok
    BY <1>1, <1>2, <2>1, FinishKeeps
  <2>3. /\ body' \in [Requests -> {"none", "open"} \cup Final]
        /\ body'[r] = "search"
        /\ \A q \in Requests \ {r} : body'[q] = body[q]
    BY <1>1, <2>1 DEF TypeOK, Final
  <2>4. TypeOK'
    BY <1>1, <1>2, <1>3, <2>1, <2>2, <2>3 DEF TypeOK
  <2>5. \A q \in Requests \ {r} : Same(q)
    BY <1>1, <1>2, <2>1, <2>2, <2>3 DEF Same
  <2>6. RequestInv(r)'
    BY <1>2, <2>2, <2>3 DEF RequestInv, Fresh, Calling, UnderWay, Opened, Tallied, Final
  <2> QED BY <2>4, <2>5, <2>6, OneRequest
<1> QED BY <1>4, <1>5

LEMMA CallFailsStep ==
    ASSUME ServingInv, NEW r \in Requests, CallFails(r)
    PROVE  ServingInv'
<1>1. /\ TypeOK /\ RequestInv(r) /\ pc[r] = "call"
      /\ attempts' = Attempted(r, FALSE, FALSE)
      /\ pc' = [pc EXCEPT ![r] = "fallback"]
      /\ UNCHANGED <<registry, request, call, discovered, found, tried, body, spent, record>>
  BY DEF ServingInv, CallFails
<1>2. /\ attempts' \in [Requests -> Seq(Attempt)]
      /\ \A q \in Requests \ {r} : attempts'[q] = attempts[q]
      /\ attempts'[r] # <<>>
      /\ Last(attempts'[r]).model = call[r].model
      /\ Last(attempts'[r]).ok = FALSE
      /\ \A i \in DOMAIN attempts'[r] : attempts'[r][i].model \in Seen(r)
      /\ Skipping(r)'
  BY <1>1, AttemptedKeeps, Zenon
<1>3. TypeOK' /\ pc'[r] = "fallback"
  BY <1>1, <1>2 DEF TypeOK
<1>4. \A q \in Requests \ {r} : Same(q)
  BY <1>1, <1>2 DEF TypeOK, Same
<1>5. UnderWay(r)'
  BY <1>1, <1>2 DEF RequestInv, UnderWay, Seen
<1>6. Opened(r)'
  <2>1. body[r] = "open" => request[r].stream /\ ~Pruned(r, call[r].model)
    BY <1>1 DEF RequestInv, Opened
  <2>2. ~Last(attempts'[r]).ok
    BY <1>2
  <2>3. body[r] = "open" => Refused(r)'
    BY <1>1, <1>2, <2>1, <2>2 DEF Refused, Pruned
  <2>4. body[r] \notin Final
    BY <1>1 DEF RequestInv, Opened
  <2> QED BY <1>1, <1>3, <2>3, <2>4 DEF Opened
<1>7. RequestInv(r)'
  BY <1>1, <1>2, <1>3, <1>5, <1>6 DEF RequestInv, Fresh, Calling, Tallied
<1> QED BY <1>3, <1>4, <1>7, OneRequest

LEMMA FallbackStep ==
    ASSUME ServingInv, NEW r \in Requests, Fallback(r)
    PROVE  ServingInv'
<1>1. /\ TypeOK /\ RequestInv(r) /\ pc[r] = "fallback" /\ body[r] = "none"
      /\ UNCHANGED <<registry, request, discovered, attempts, spent, record>>
  BY DEF ServingInv, Fallback, TooLate, HeadersSent
<1>2. PICK i \in Rest(r) : /\ tried' = [tried EXCEPT ![r] = i]
                           /\ Serve(r, Chain[i], discovered[r])
  BY DEF Fallback
<1>3. /\ i \in 1..Len(Chain) /\ i > tried[r] /\ tried[r] \in 0..Len(Chain)
      /\ Chain[i] \in Models /\ Chain[i] # request[r].model
      /\ Len(Chain) \in Nat
  BY <1>1, ChainAssumption DEF Rest, TypeOK
<1>4. /\ tried' \in [Requests -> 0..Len(Chain)] /\ tried'[r] = i
      /\ \A q \in Requests \ {r} : tried'[q] = tried[q]
  BY <1>1, <1>2, <1>3 DEF TypeOK
<1>5. discovered[r] \in SUBSET Tools
  BY <1>1 DEF TypeOK
<1>6. /\ pc' \in [Requests -> {"idle", "classify", "compact", "call", "fallback", "done"}]
      /\ call' \in [Requests -> [model : Models \cup {None}, round : 0..(MaxRounds - 1),
                                 inline : SUBSET Tools]]
      /\ found' \in [Requests -> SUBSET Tools]
      /\ body' \in [Requests -> {"none", "open"} \cup Final]
      /\ pc'[r] = "call"
      /\ call'[r].model = Chain[i]
      /\ body'[r] \in {"none", "open"}
      /\ body'[r] = "open" => request[r].stream /\ ~Pruned(r, Chain[i])
      /\ \A q \in Requests \ {r} :
            pc'[q] = pc[q] /\ call'[q] = call[q] /\ body'[q] = body[q]
  BY <1>1, <1>2, <1>3, <1>5, ServeKeeps
<1>7. TypeOK'
  BY <1>1, <1>4, <1>6 DEF TypeOK
<1>8. \A q \in Requests \ {r} : Same(q)
  BY <1>1, <1>4, <1>6 DEF Same
\* The chain does not repeat a model, so the next one is none of those seen.
<1>9. Chain[i] \notin Seen(r)
  <2>1. ASSUME NEW j \in 1..tried[r] PROVE Chain[i] # Chain[j]
    BY <1>3, ChainAssumption DEF IsInjective
  <2> QED BY <1>3, <2>1 DEF Seen
<1>10. Calling(r)'
  BY <1>1, <1>3, <1>4, <1>6, <1>9 DEF RequestInv, UnderWay, Calling
<1>11. UnderWay(r)'
  <2>1. \A j \in 1..tried[r] : j \in 1..i
    BY <1>3
  <2> QED BY <1>1, <1>4, <2>1 DEF RequestInv, UnderWay, Seen
<1>12. RequestInv(r)'
  BY <1>1, <1>6, <1>10, <1>11
     DEF RequestInv, Fresh, Opened, Pruned, Tallied, Skipping, Final
<1> QED BY <1>7, <1>8, <1>12, OneRequest

LEMMA GiveUpStep ==
    ASSUME ServingInv, NEW r \in Requests, GiveUp(r)
    PROVE  ServingInv'
<1>1. /\ TypeOK /\ RequestInv(r) /\ pc[r] = "fallback"
      /\ body' = [body EXCEPT ![r] = IF body[r] # "none" THEN body[r] ELSE "error"]
      /\ Finish(r, attempts[r])
      /\ UNCHANGED <<registry, request, call, discovered, found, attempts, tried, spent>>
  BY DEF ServingInv, GiveUp, Failed, HeadersSent
<1>2. /\ pc' \in [Requests -> {"idle", "classify", "compact", "call", "fallback", "done"}]
      /\ record' \in [Requests -> Recording \cup {None}]
      /\ pc'[r] = "done"
      /\ \A q \in Requests \ {r} : pc'[q] = pc[q] /\ record'[q] = record[q]
  <2>1. attempts[r] \in Seq(Attempt)
    BY <1>1 DEF TypeOK
  <2> QED BY <1>1, <2>1, FinishKeeps
<1>3. /\ body' \in [Requests -> {"none", "open"} \cup Final]
      /\ body'[r] = IF body[r] # "none" THEN "open" ELSE "error"
      /\ \A q \in Requests \ {r} : body'[q] = body[q]
  BY <1>1 DEF TypeOK, RequestInv, Opened, Final
<1>4. TypeOK'
  BY <1>1, <1>2, <1>3 DEF TypeOK
<1>5. \A q \in Requests \ {r} : Same(q)
  BY <1>1, <1>2, <1>3 DEF Same
<1>6. Opened(r)'
  <2>1. body[r] # "none" => body[r] = "open"
    BY <1>1 DEF TypeOK, RequestInv, Opened
  <2>2. body[r] = "open" => Refused(r)'
    BY <1>1 DEF RequestInv, Opened, Refused, Pruned
  <2> QED BY <1>2, <1>3, <2>1, <2>2 DEF Opened, Final
<1>7. RequestInv(r)'
  BY <1>1, <1>2, <1>3, <1>6 DEF RequestInv, Fresh, Calling, UnderWay, Tallied, Skipping
<1> QED BY <1>4, <1>5, <1>7, OneRequest

LEMMA NextInv == ServingInv /\ [Next]_vars => ServingInv'
<1> SUFFICES ASSUME ServingInv, [Next]_vars PROVE ServingInv'
  OBVIOUS
<1>1. ASSUME NEW r \in Requests, Handle(r) PROVE ServingInv'
  BY <1>1, SelectStep, SelectFailsStep, CompactStep, AnsweredStep, SearchStep,
     CallFailsStep, FallbackStep, GiveUpStep DEF Handle
<1>2. CASE Expire
  <2>1. TypeOK'
    BY <1>2 DEF Expire, ServingInv, TypeOK
  <2>2. \A r \in Requests : Same(r)
    BY <1>2 DEF Expire, Same
  <2> QED BY <2>1, <2>2, SameKeepsInv DEF ServingInv
<1>3. CASE UNCHANGED vars
  <2>1. TypeOK'
    BY <1>3 DEF vars, ServingInv, TypeOK
  <2>2. \A r \in Requests : Same(r)
    BY <1>3 DEF vars, Same
  <2> QED BY <2>1, <2>2, SameKeepsInv DEF ServingInv
<1> QED BY <1>1, <1>2, <1>3, ArriveStep DEF Next

-----------------------------------------------------------------------------
(***************************************************************************)
(* The theorems.                                                           *)
(***************************************************************************)

LEMMA AlwaysInv == Spec => []ServingInv
  BY InitInv, NextInv, PTL DEF Spec

\* Every request keeps its types, whatever the others do with the registry.
THEOREM ServingTyping == Spec => []TypeOK
  <1>1. ServingInv => TypeOK
    BY DEF ServingInv
  <1> QED BY <1>1, AlwaysInv, PTL

\* A failed call on the way to an answer never makes the request free: what is
\* recorded is a call that succeeded.
THEOREM ServedRecorded == Spec => []ServedIsRecorded
  <1>1. ServingInv => ServedIsRecorded
    BY DEF ServingInv, RequestInv, Tallied, ServedIsRecorded
  <1> QED BY <1>1, AlwaysInv, PTL

\* The fallback loop of index.js never goes back to a model that failed the
\* request, for every chain without repetition.
THEOREM FailedNotRetried == Spec => []NoFailedModelAgain
  <1>1. ServingInv => NoFailedModelAgain
    BY DEF ServingInv, RequestInv, Skipping, NoFailedModelAgain
  <1> QED BY <1>1, AlwaysInv, PTL

\* A request that ends has been answered, or is a relayed stream whose
\* provider refused it after the headers were out.
THEOREM EndAnswered == Spec => []AnsweredAtEnd
  <1>1. ServingInv => AnsweredAtEnd
    BY DEF ServingInv, RequestInv, Opened, Refused, AnsweredAtEnd
  <1> QED BY <1>1, AlwaysInv, PTL

\* What no step takes back: an answer, and the model of an open stream.
Settled(r) ==
    /\ body[r] \in Final => body'[r] = body[r]
    /\ body[r] = "open" => call'[r].model = call[r].model

\* A step of one request moves only what is written of that request, and only
\* while it is under way.
LEMMA HandleSettles ==
    ASSUME ServingInv, NEW q \in Requests, Handle(q), NEW r \in Requests
    PROVE  Settled(r)
<1>0. /\ TypeOK /\ RequestInv(r)
      /\ body \in [Requests -> {"none", "open"} \cup Final]
      /\ call \in [Requests -> [model : Models \cup {None}, round : 0..(MaxRounds - 1),
                                inline : SUBSET Tools]]
  BY DEF ServingInv, TypeOK
<1>1. pc[q] # "done" /\ \A p \in Requests \ {q} : body'[p] = body[p] /\ call'[p] = call[p]
  <2>1. CASE (\E m \in Models, paid \in BOOLEAN : Select(q, m, paid)) \/ SelectFails(q)
             \/ (\E paid \in BOOLEAN : Compact(q, paid)) \/ CallFails(q) \/ Fallback(q) \/ GiveUp(q)
    BY <1>0, <2>1 DEF Select, SelectFails, Compact, CallFails, Fallback, GiveUp, Serve, Failed
  <2>2. ASSUME NEW usage \in BOOLEAN, NEW cut \in BOOLEAN, Answered(q, usage, cut)
        PROVE  pc[q] # "done" /\ \A p \in Requests \ {q} : body'[p] = body[p] /\ call'[p] = call[p]
    BY <1>0, <2>2 DEF Answered
  <2>3. ASSUME NEW tool \in Tools \cup {None}, Search(q, tool)
        PROVE  pc[q] # "done" /\ \A p \in Requests \ {q} : body'[p] = body[p] /\ call'[p] = call[p]
    BY <1>0, <2>3 DEF Search, SwallowedRound
  <2> QED BY <2>1, <2>2, <2>3 DEF Handle
<1>2. body[q] \notin Final
  BY <1>1 DEF ServingInv, RequestInv, Opened
<1>3. body[q] = "open" => call'[q].model = call[q].model
  <2> SUFFICES ASSUME body[q] = "open" PROVE call'[q].model = call[q].model
    OBVIOUS
  \* The headers are out: nothing before the first call, and no fallback.
  <2>1. pc[q] \in {"call", "fallback", "done"} /\ ~Fallback(q)
    BY <1>0 DEF ServingInv, RequestInv, Fresh, TypeOK, Fallback, TooLate, HeadersSent
  <2>2. CASE CallFails(q) \/ GiveUp(q) \/ \E usage \in BOOLEAN, cut \in BOOLEAN : Answered(q, usage, cut)
    BY <2>2 DEF CallFails, GiveUp, Answered
  <2>3. ASSUME NEW tool \in Tools \cup {None}, Search(q, tool)
        PROVE  call'[q].model = call[q].model
    <3>1. UNCHANGED call \/ call' = [call EXCEPT ![q].round = @ + 1]
      BY <2>3 DEF Search
    <3> QED BY <1>0, <3>1
  <2>4. ~(\E m \in Models, paid \in BOOLEAN : Select(q, m, paid)) /\ ~SelectFails(q)
        /\ ~(\E paid \in BOOLEAN : Compact(q, paid))
    BY <2>1 DEF Select, SelectFails, Compact
  <2> QED BY <2>1, <2>2, <2>3, <2>4 DEF Handle
<1> QED BY <1>1, <1>2, <1>3 DEF Settled

LEMMA NextSettles ==
    ASSUME ServingInv, [Next]_vars, NEW r \in Requests
    PROVE  Settled(r)
<1>1. ASSUME NEW q \in Requests, Handle(q) PROVE Settled(r)
  BY <1>1, HandleSettles
<1>2. CASE (\E q \in Requests, stream \in BOOLEAN, tools \in {"none", "few", "many"} :
              Arrive(q, stream, tools)) \/ Expire \/ UNCHANGED vars
  BY <1>2 DEF Arrive, Expire, vars, Settled
<1> QED BY <1>1, <1>2 DEF Next

\* Whatever the rounds, the fallbacks and the errors of the request write, and
\* whatever the other requests do, a response that ended is not written again.
THEOREM AnswersFinal == Spec => AnswerIsFinal
  <1>1. ServingInv /\ [Next]_vars =>
          [\A r \in Requests : body[r] \in Final => body'[r] = body[r]]_vars
    BY NextSettles DEF Settled
  <1> QED BY <1>1, AlwaysInv, PTL DEF AnswerIsFinal, Spec

\* Once the headers of a relayed stream are out, no other model is called for
\* the request.
THEOREM StreamsKeepModel == Spec => StreamKeepsModel
  <1>1. ServingInv /\ [Next]_vars =>
          [\A r \in Requests : body[r] = "open" => call'[r].model = call[r].model]_vars
    BY NextSettles DEF Settled
  <1> QED BY <1>1, AlwaysInv, PTL DEF StreamKeepsModel, Spec

-----------------------------------------------------------------------------
(***************************************************************************)
(* The working set of tools.                                               *)
(***************************************************************************)

\* How late a tool of the list is in line: by rank, then by position.
Lateness(tools, known, n) == Rank(n, known) * (Len(tools) + 1) + Position(tools, n)

LEMMA NamedPositions ==
    ASSUME NEW tools \in Offered
    PROVE  /\ Len(tools) \in Nat /\ IsFiniteSet(ToSet(tools))
           /\ \A n \in ToSet(tools) : Position(tools, n) \in 1..Len(tools) /\ tools[Position(tools, n)] = n
<1>1. tools \in Seq(ToSet(tools))
    BY OfferedAssumption
<1>2. Len(tools) \in Nat /\ DOMAIN tools = 1..Len(tools)
    BY <1>1
<1>3. ToSet(tools) = {tools[i] : i \in DOMAIN tools}
    BY DEF ToSet
<1>4. IsFiniteSet(ToSet(tools))
    <2>1. IsFiniteSet(1..Len(tools))
        BY <1>2, FS_Interval
    <2> QED BY <1>2, <1>3, <2>1, FiniteImage
<1>5. ASSUME NEW n \in ToSet(tools)
      PROVE  Position(tools, n) \in 1..Len(tools) /\ tools[Position(tools, n)] = n
    <2> DEFINE S == {i \in DOMAIN tools : tools[i] = n}
    <2>1. S \in SUBSET Nat /\ S # {}
        BY <1>2, <1>3
    <2>2. PICK i \in S : \A j \in S : i <= j
        <3> HIDE DEF S
        <3> QED BY <2>1, LeastNat
    <2>3. Min(S) \in S
        <3>1. \E x \in S : \A y \in S : x =< y
            BY <2>2
        <3> QED BY <3>1 DEF Min
    <2> QED BY <1>2, <2>3 DEF Position
<1> QED BY <1>2, <1>4, <1>5

\* The tools are in a line.
LEMMA SoonerIsOrder ==
    ASSUME NEW tools \in Offered, NEW known, NEW m \in ToSet(tools), NEW n \in ToSet(tools)
    PROVE  /\ Lateness(tools, known, m) \in Nat /\ Lateness(tools, known, n) \in Nat
           /\ Sooner(tools, known, m, n) <=> Lateness(tools, known, m) < Lateness(tools, known, n)
           /\ Lateness(tools, known, m) = Lateness(tools, known, n) => m = n
<1> DEFINE p == Position(tools, m)
           q == Position(tools, n)
           last == Len(tools)
<1>1. /\ last \in Nat /\ p \in 1..last /\ q \in 1..last
      /\ tools[p] = m /\ tools[q] = n
    BY NamedPositions
<1>2. Rank(m, known) \in {1, 2, 3} /\ Rank(n, known) \in {1, 2, 3}
    BY DEF Rank
<1>3. /\ Lateness(tools, known, m) = Rank(m, known) * (last + 1) + p
      /\ Lateness(tools, known, n) = Rank(n, known) * (last + 1) + q
      /\ Sooner(tools, known, m, n) <=> \/ Rank(m, known) < Rank(n, known)
                                        \/ Rank(m, known) = Rank(n, known) /\ p < q
    BY DEF Lateness, Sooner
<1> HIDE DEF p, q, last
<1>4. \A a \in {1, 2, 3}, b \in {1, 2, 3} :
          /\ a * (last + 1) + p \in Nat /\ b * (last + 1) + q \in Nat
          /\ (a < b \/ (a = b /\ p < q)) <=> a * (last + 1) + p < b * (last + 1) + q
          /\ a * (last + 1) + p = b * (last + 1) + q => p = q
    BY <1>1
<1> QED BY <1>1, <1>2, <1>3, <1>4

\* The tools that come sooner than another of the list.
SoonerThan(tools, known, n) == {m \in ToSet(tools) : Sooner(tools, known, m, n)}

LEMMA SoonerCounted ==
    ASSUME NEW tools \in Offered, NEW known, NEW n
    PROVE  IsFiniteSet(SoonerThan(tools, known, n)) /\ Cardinality(SoonerThan(tools, known, n)) \in Nat
<1>1. SoonerThan(tools, known, n) \subseteq ToSet(tools) /\ IsFiniteSet(ToSet(tools))
    BY NamedPositions DEF SoonerThan
<1> QED BY <1>1, FS_Subset, FS_CardinalityType

\* No more tools are inline than there are slots for: the last of them has
\* only the others before it.
LEMMA InlineFits ==
    ASSUME NEW tools \in Offered, NEW known, NEW cap \in Nat \ {0}
    PROVE  /\ IsFiniteSet(Inline(tools, known, cap))
           /\ Cardinality(Inline(tools, known, cap)) \in Nat
           /\ Cardinality(Inline(tools, known, cap)) <= cap - 1
<1> DEFINE I == Inline(tools, known, cap)
           late == [n \in ToSet(tools) |-> Lateness(tools, known, n)]
           Late == {late[n] : n \in I}
<1>1. /\ I \subseteq ToSet(tools) /\ IsFiniteSet(ToSet(tools))
      /\ \A n \in I : Cardinality(SoonerThan(tools, known, n)) < cap - 1
    BY NamedPositions DEF Inline, InlineLimit, SoonerThan
<1>2. IsFiniteSet(I) /\ Cardinality(I) \in Nat
    BY <1>1, FS_Subset, FS_CardinalityType
<1>3. CASE I = {}
    BY <1>2, <1>3, FS_EmptySet
<1>4. CASE I # {}
    <2>1. \A n \in ToSet(tools) : late[n] = Lateness(tools, known, n) /\ late[n] \in Nat
        BY SoonerIsOrder
    <2> HIDE DEF late, I
    <2>2. Late \in SUBSET Nat /\ Late # {} /\ IsFiniteSet(Late)
        BY <1>1, <1>2, <1>4, <2>1, FiniteImage
    <2>3. PICK n \in I : \A m \in I : late[m] <= late[n]
        <3>1. PICK l \in Late : \A k \in Late : k <= l
            <4> HIDE DEF Late
            <4> QED BY <2>2, LargestNat
        <3> QED BY <3>1
    <2> DEFINE S == SoonerThan(tools, known, n)
    <2>4. I \subseteq S \cup {n}
        <3> SUFFICES ASSUME NEW m \in I, m # n PROVE m \in S
            OBVIOUS
        <3>1. m \in ToSet(tools) /\ n \in ToSet(tools) /\ late[m] <= late[n]
            BY <1>1, <2>3
        <3>2. late[m] # late[n]
            BY <2>1, <3>1, SoonerIsOrder
        <3>3. Sooner(tools, known, m, n)
            BY <2>1, <3>1, <3>2, SoonerIsOrder
        <3> QED BY <3>1, <3>3 DEF SoonerThan
    <2>5. /\ IsFiniteSet(S) /\ Cardinality(S) \in Nat /\ Cardinality(S) < cap - 1
        BY <1>1, <2>3, SoonerCounted
    <2>6. n \notin S
        <3>1. n \in ToSet(tools)
            BY <1>1, <2>3
        <3>2. ~Sooner(tools, known, n, n)
            BY <3>1, SoonerIsOrder
        <3> QED BY <3>2 DEF SoonerThan
    <2> HIDE DEF S
    <2>7. IsFiniteSet(S \cup {n}) /\ Cardinality(S \cup {n}) = Cardinality(S) + 1
        BY <2>5, <2>6, FS_AddElement
    <2>8. Cardinality(I) <= Cardinality(S \cup {n})
        BY <2>4, <2>7, FS_Subset
    <2> QED BY <1>2, <2>5, <2>7, <2>8 DEF I
<1> QED BY <1>2, <1>3, <1>4

\* A tool that has been found, or is essential, is deferred only when all that
\* is inline has been found or is essential too.
LEMMA KnownComeFirst ==
    ASSUME NEW tools \in Offered, NEW known, NEW cap \in Nat \ {0},
           NEW n \in (known \cup Essential) \cap ToSet(tools), n \notin Inline(tools, known, cap)
    PROVE  Inline(tools, known, cap) \subseteq Essential \cup known
<1> SUFFICES ASSUME NEW m \in Inline(tools, known, cap), m \notin Essential \cup known
             PROVE  FALSE
    OBVIOUS
<1>1. /\ m \in ToSet(tools) /\ n \in ToSet(tools)
      /\ Cardinality(SoonerThan(tools, known, m)) < cap - 1
      /\ ~(Cardinality(SoonerThan(tools, known, n)) < cap - 1)
    BY DEF Inline, InlineLimit, SoonerThan
<1>2. Rank(n, known) \in {1, 2} /\ Rank(m, known) = 3
    BY DEF Rank
<1>3. SoonerThan(tools, known, n) \subseteq SoonerThan(tools, known, m)
    <2> SUFFICES ASSUME NEW k \in ToSet(tools), Sooner(tools, known, k, n)
                 PROVE  Sooner(tools, known, k, m)
        BY DEF SoonerThan
    <2>1. Sooner(tools, known, n, m)
        BY <1>2 DEF Sooner
    <2> QED BY <1>1, <2>1, SoonerIsOrder
<1>4. /\ IsFiniteSet(SoonerThan(tools, known, m))
      /\ Cardinality(SoonerThan(tools, known, m)) \in Nat
      /\ Cardinality(SoonerThan(tools, known, n)) \in Nat
    BY SoonerCounted
<1>5. Cardinality(SoonerThan(tools, known, n)) <= Cardinality(SoonerThan(tools, known, m))
    BY <1>3, <1>4, FS_Subset
<1> QED BY <1>1, <1>4, <1>5
-----------------------------------------------------------------------------
\* The tools of all the lists
ToolNames == UNION {ToSet(tools) : tools \in Offered}
Entry == [names : SUBSET ToolNames, stale : BOOLEAN, older : SUBSET Families]

\* What a family has found is in its entry, which has not expired; what the
\* conversation had found is in the snapshot of the request.
PruningInv ==
    /\ DOMAIN families \subseteq Families /\ families \in [DOMAIN families -> Entry]
    /\ foundBy \in [Families -> SUBSET ToolNames]
    /\ \A f \in Families : foundBy[f] # {} => IsFresh(f) /\ foundBy[f] \subseteq families[f].names
    /\ turn.tools # <<>> => turn.family \in Families /\ turn.tools \in Offered /\ turn.cap \in ToolCaps
    /\ turn.found \subseteq turn.known
    /\ turn.pruned => turn.tools # <<>>
    /\ WorkingSetFits

\* Whatever is known of a conversation, the list of its request is fit.
LEMMA PrunedFits ==
    ASSUME NEW f \in Families, NEW tools \in Offered, NEW known, NEW sought, sought \subseteq known,
           NEW cap \in ToolCaps, Prunes(f, tools, known, sought, cap)
    PROVE  /\ turn'.family = f /\ turn'.tools = tools /\ turn'.cap = cap
           /\ turn'.found \subseteq turn'.known
           /\ turn'.pruned => turn'.tools # <<>>
           /\ WorkingSetFits'
<1> DEFINE I == Inline(tools, known, cap)
<1>1. /\ turn'.family = f /\ turn'.tools = tools /\ turn'.cap = cap /\ turn'.known = known
      /\ turn'.found = sought
      /\ turn'.inline = IF MustPrune(tools, known, cap) THEN I ELSE ToSet(tools)
      /\ turn'.pruned <=> MustPrune(tools, known, cap)
    BY DEF Prunes
<1>2. cap \in Nat \ {0}
    BY ToolCapsAssumption
<1>3. IsFiniteSet(I) /\ Cardinality(I) \in Nat /\ Cardinality(I) <= cap - 1
    BY <1>2, InlineFits
<1>4. \A n \in (known \cup Essential) \cap ToSet(tools) : n \notin I => I \subseteq Essential \cup known
    BY <1>2, KnownComeFirst
<1>5. Len(tools) \in Nat /\ (Len(tools) > cap => tools # <<>>)
    BY <1>2, NamedPositions
<1> HIDE DEF I
<1>6. CASE MustPrune(tools, known, cap)
    BY <1>1, <1>2, <1>3, <1>4, <1>5, <1>6 DEF WorkingSetFits, MustPrune
<1>7. CASE ~MustPrune(tools, known, cap)
    <2>1. ~turn'.pruned /\ turn'.inline = ToSet(tools)
        BY <1>1, <1>7
    <2>2. ASSUME Len(tools) > cap, MetaTool \notin ToSet(tools)
          PROVE  Cardinality(ToSet(tools)) < cap
        <3>1. I = ToSet(tools)
            BY <1>7, <2>2 DEF MustPrune, I
        <3> QED BY <1>2, <1>3, <3>1
    <2> QED BY <1>1, <2>1, <2>2 DEF WorkingSetFits
<1> QED BY <1>6, <1>7

\* What is expired or evicted takes what the family had found with it.
LEMMA PruningInvNext ==
    ASSUME PruningInv, [PruningNext]_pruningVars
    PROVE  PruningInv'
<1> USE DEF PruningInv
<1>1. ASSUME NEW f \in Families, NEW tools \in Offered, NEW cap \in ToolCaps, Request(f, tools, cap)
      PROVE  PruningInv'
    <2>1. foundBy[f] \subseteq KnownTo(f)
        BY DEF KnownTo, IsFresh
    <2>2. /\ turn'.family = f /\ turn'.tools = tools /\ turn'.cap = cap
          /\ turn'.found \subseteq turn'.known
          /\ turn'.pruned => turn'.tools # <<>>
          /\ WorkingSetFits'
        BY <1>1, <2>1, PrunedFits DEF Request
    <2>3. foundBy' = foundBy
        BY <1>1 DEF Request
    <2>4. CASE IsFresh(f)
        BY <1>1, <2>2, <2>3, <2>4 DEF Request, IsFresh
    <2>5. CASE ~IsFresh(f)
        <3>1. families' = Staying(Families \ {f})
            BY <1>1, <2>5 DEF Request
        <3>2. /\ DOMAIN families' = DOMAIN families \ {f}
              /\ \A g \in DOMAIN families' : /\ families'[g] \in Entry
                                             /\ families'[g].names = families[g].names
                                             /\ families'[g].stale = families[g].stale
              /\ families' = [g \in DOMAIN families' |-> families'[g]]
            BY <3>1 DEF Staying, Entry
        <3>3. \A g \in Families : foundBy[g] # {} => g # f
            BY <2>5
        <3>4. families' \in [DOMAIN families' -> Entry]
            BY <3>2
        <3> QED BY <2>2, <2>3, <3>2, <3>3, <3>4 DEF IsFresh
    <2> QED BY <2>4, <2>5
<1>2. ASSUME NEW cap \in ToolCaps, FallBack(cap) PROVE PruningInv'
    <2>1. /\ turn'.family = turn.family /\ turn'.tools = turn.tools /\ turn'.cap = cap
          /\ turn'.found \subseteq turn'.known
          /\ turn'.pruned => turn'.tools # <<>>
          /\ WorkingSetFits'
        BY <1>2, PrunedFits DEF FallBack
    <2>2. UNCHANGED <<families, foundBy>>
        BY <1>2 DEF FallBack
    <2> QED BY <1>2, <2>1, <2>2 DEF IsFresh, FallBack
<1>3. ASSUME NEW n \in ToSet(turn.tools), Discover(n) PROVE PruningInv'
    <2> DEFINE f == turn.family
    <2>1. turn' = turn /\ f \in Families /\ n \in ToolNames
        BY <1>3 DEF Discover, ToolNames
    <2>2. /\ families' = Recorded(f, n)
          /\ foundBy' = [g \in Families |->
                IF ~Remains(g) THEN {} ELSE IF g = f THEN foundBy[g] \cup {n} ELSE foundBy[g]]
        BY <1>3 DEF Discover
    <2> HIDE DEF f
    <2>3. /\ DOMAIN families' \subseteq Families
          /\ families' = [g \in DOMAIN families' |-> families'[g]]
          /\ \A g \in DOMAIN families' :
                /\ families'[g] \in Entry
                /\ g # f => g \in DOMAIN families /\ families'[g].names = families[g].names
                /\ g = f => /\ n \in families'[g].names
                            /\ g \in DOMAIN families => families[g].names \subseteq families'[g].names
        <3>1. CASE f \in DOMAIN families
            <4>1. families' = [families EXCEPT ![f].names = @ \cup {n}, ![f].stale = FALSE]
                BY <2>2, <3>1 DEF Recorded
            <4>2. families[f] \in Entry /\ \A g \in DOMAIN families : families[g] \in Entry
                BY <3>1
            <4>3. DOMAIN families' = DOMAIN families
                BY <4>1
            <4>4. \A g \in DOMAIN families : g # f => families'[g] = families[g]
                BY <4>1
            <4>5. families'[f] = [families[f] EXCEPT !.names = @ \cup {n}, !.stale = FALSE]
                BY <3>1, <4>1
            <4>6. /\ families'[f] \in Entry /\ n \in families'[f].names
                  /\ families[f].names \subseteq families'[f].names
                <5>1. PICK e \in Entry : e = families[f]
                    BY <4>2
                <5>2. families'[f] = [e EXCEPT !.names = e.names \cup {n}, !.stale = FALSE]
                    BY <4>5, <5>1
                <5>3. PICK new : new = families'[f]
                    OBVIOUS
                <5>4. new = [e EXCEPT !.names = e.names \cup {n}, !.stale = FALSE]
                    BY <5>2, <5>3
                <5>5. new \in Entry /\ new.names = e.names \cup {n}
                    BY <2>1, <5>4 DEF Entry
                <5> QED BY <5>1, <5>3, <5>5
            <4>7. families' = [g \in DOMAIN families' |-> families'[g]]
                BY <4>1
            <4> QED BY <4>2, <4>3, <4>4, <4>6, <4>7
        <3>2. CASE f \notin DOMAIN families
            <4>1. families' = [g \in Room \cup {f} |->
                      IF g = f THEN [names |-> {n}, stale |-> FALSE, older |-> Room] ELSE Staying(Room)[g]]
                BY <2>2, <3>2 DEF Recorded
            <4>2. Room \subseteq DOMAIN families
                BY DEF Room
            <4>3. \A g \in Room : Staying(Room)[g] = [families[g] EXCEPT !.older = @ \cap Room]
                BY <4>2 DEF Staying
            <4>4. \A g \in Room : /\ Staying(Room)[g] \in Entry
                                  /\ Staying(Room)[g].names = families[g].names
                <5> SUFFICES ASSUME NEW g \in Room
                             PROVE  Staying(Room)[g] \in Entry /\ Staying(Room)[g].names = families[g].names
                    OBVIOUS
                <5>1. PICK e \in Entry : e = families[g]
                    BY <4>2
                <5>2. Staying(Room)[g] = [e EXCEPT !.older = e.older \cap Room]
                    BY <4>3, <5>1
                <5>3. PICK new : new = Staying(Room)[g]
                    OBVIOUS
                <5>4. new = [e EXCEPT !.older = e.older \cap Room]
                    BY <5>2, <5>3
                <5>5. new \in Entry /\ new.names = e.names
                    BY <5>4 DEF Entry
                <5> QED BY <5>1, <5>3, <5>5
            <4> HIDE DEF PruningInv
            <4>5. DOMAIN families \subseteq Families
                BY DEF PruningInv
            <4> QED BY <2>1, <3>2, <4>1, <4>2, <4>4, <4>5 DEF Entry
        <3> QED BY <3>1, <3>2
    <2>4. families' \in [DOMAIN families' -> Entry]
        BY <2>3
    <2>5. foundBy' \in [Families -> SUBSET ToolNames]
        BY <2>1, <2>2
    <2>6. ASSUME NEW g \in Families, foundBy'[g] # {}
          PROVE  IsFresh(g)' /\ foundBy'[g] \subseteq families'[g].names
        <3>1. Remains(g) /\ foundBy'[g] = IF g = f THEN foundBy[g] \cup {n} ELSE foundBy[g]
            BY <2>2, <2>6
        <3>2. g \in DOMAIN families' /\ IsFresh(g)'
            BY <3>1 DEF Remains, IsFresh
        <3>3. foundBy[g] # {} => g \in DOMAIN families /\ foundBy[g] \subseteq families[g].names
            BY DEF IsFresh
        <3> QED BY <2>3, <2>6, <3>1, <3>2, <3>3
    <2> QED BY <2>1, <2>3, <2>4, <2>5, <2>6 DEF WorkingSetFits
<1>4. ASSUME NEW f \in Families, FamilyExpires(f) PROVE PruningInv'
    <2>1. /\ f \in DOMAIN families /\ families' = [families EXCEPT ![f].stale = TRUE]
          /\ foundBy' = [foundBy EXCEPT ![f] = {}] /\ turn' = turn
        BY <1>4 DEF FamilyExpires, IsFresh
    <2>2. /\ DOMAIN families' = DOMAIN families
          /\ families' \in [DOMAIN families -> Entry]
          /\ \A g \in DOMAIN families : g # f => families'[g] = families[g]
        BY <2>1 DEF Entry
    <2>3. \A g \in Families : foundBy'[g] # {} => g # f /\ foundBy'[g] = foundBy[g]
        BY <2>1
    <2> QED BY <2>1, <2>2, <2>3 DEF IsFresh, WorkingSetFits
<1>5. CASE UNCHANGED pruningVars
    BY <1>5 DEF pruningVars, IsFresh, WorkingSetFits
<1> QED BY <1>1, <1>2, <1>3, <1>4, <1>5 DEF PruningNext

\* A pruned list fits its provider, and the working set comes first, for any
\* lists of tools, caps and number of families.
THEOREM WorkingSet == PruningSpec => []WorkingSetFits
<1>1. PruningInit => PruningInv
    <2> SUFFICES ASSUME PruningInit PROVE PruningInv
        OBVIOUS
    <2>1. families = <<>> /\ foundBy = [f \in Families |-> {}] /\ turn = NoTurn
        BY DEF PruningInit
    <2>2. DOMAIN families = {} /\ families \in [DOMAIN families -> Entry]
        BY <2>1
    <2>3. WorkingSetFits
        BY <2>1 DEF WorkingSetFits, NoTurn
    <2> QED BY <2>1, <2>2, <2>3 DEF PruningInv, NoTurn
<1>2. PruningInv /\ [PruningNext]_pruningVars => PruningInv'
    BY PruningInvNext
<1>3. PruningInv => WorkingSetFits
    BY DEF PruningInv
<1> QED BY <1>1, <1>2, <1>3, PTL DEF PruningSpec
=============================================================================
