---------------------------- MODULE WebhookProofs ----------------------------
(***************************************************************************)
(* Proofs about Webhook, for every set of accounts, sessions, events and   *)
(* payloads and every number of crashes and failing statements.            *)
(***************************************************************************)
EXTENDS Webhook, FiniteSetTheorems, TLAPS

\* Every session Dodo knows has an owner, the session of a payment has its
\* row, and a payment's payload carries that owner and that session or loses
\* them.
SessionInv ==
    /\ \A s \in Sessions : checkout[s].state # "none" => Exists(checkout[s].owner)
    /\ \A e \in Events : paidFor[e] # None =>
         /\ sent[e] # None
         /\ HasRow(paidFor[e])
         /\ sent[e].meta \in {None, checkout[paidFor[e]].owner}
         /\ sent[e].session \in {None, paidFor[e]}

\* The event in hand has been emitted.
HandlerInv ==
    /\ \A e \in Events : dodo[e] = "unsent" =>
         sent[e] = None /\ paidFor[e] = None /\ appliedTo[e] = None
    /\ \A e \in Events : dodo[e] # "unsent" => sent[e] # None
    /\ handler.pc # "idle" => handler.event \in Events /\ dodo[handler.event] # "unsent"
    /\ handler.pc \in {"apply", "mark", "fail"} => rows[handler.event] # None

TInv == TypeOK /\ SessionInv /\ HandlerInv

LEMMA CorrelateType ==
    ASSUME TypeOK, NEW p \in Payload,
           SessionInv
    PROVE  Correlate(p) \in Users \cup {None}
  BY DEF TypeOK, Payload, Correlate, Exists, SessionInv, HasRow

LEMMA VerdictType ==
    ASSUME NEW p \in Payload, NEW u
    PROVE  /\ Verdict(p, u) \in {"logged", "credited", "subscribed", "uncorrelated", "flagged"}
           /\ Verdict(p, u) \in {"credited", "subscribed"} => u # None
           /\ Verdict(p, u) = "credited" => p.cents > 0 /\ p.type \notin SubTypes
           /\ Verdict(p, u) = "subscribed" => p.sub # None
  BY DEF Verdict, Payload, SubTypes, PaymentTypes

\* A credit adds exactly its cents, and leaves no account absent.
LEMMA FundedType ==
    ASSUME NEW a \in Account, NEW c \in Int
    PROVE  /\ Funded(a, c) \in Account
           /\ Funded(a, c).balance = a.balance + c
           /\ Funded(a, c).status # "absent"
           /\ a.status = "suspended" => Funded(a, c).status = "suspended"
<1>1. a.status \in Statuses /\ a.balance \in Int /\ a.expiry \in {"none", "live", "lapsed"}
  BY DEF Account
<1>2. QED
  BY <1>1 DEF Funded, Account, Activated, Statuses

\* The operator's UPDATE adds exactly its cents and leaves the account active.
LEMMA SetActiveType ==
    ASSUME NEW a \in Account, NEW c \in Int
    PROVE  /\ SetActive(a, c) \in Account
           /\ SetActive(a, c).balance = a.balance + c
           /\ SetActive(a, c).status = "active"
  BY DEF SetActive, Account, Statuses

\* A gift keeps the type of the history and adds exactly its cents.
LEMMA GiftType ==
    ASSUME byHand \in ByHand, NEW u \in Users, NEW c \in Int, NEW a \in SUBSET Events,
           Gift(u, c, a)
    PROVE  /\ byHand' \in ByHand
           /\ byHand'.opened = byHand.opened \cup {u}
           /\ byHand'.again = byHand.again \cup a
           /\ \A w \in Users : byHand'.granted[w] =
                IF w = u THEN byHand.granted[u] + c ELSE byHand.granted[w]
  BY DEF Gift, ByHand

LEMMA InitTInv == Init => TInv
  BY NoneAssumption, FaultAssumption
     DEF Init, TInv, TypeOK, SessionInv, HandlerInv, Idle, Account, Statuses, Verdicts, Errors, Exists, HasRow, ByHand

\* Facts about the session of a payment survive a step that emits nothing,
\* deletes no account and keeps the owner and the row of every session.
LEMMA SessionStable ==
    ASSUME TypeOK, SessionInv,
           sent' = sent, paidFor' = paidFor,
           \A u \in Users : account[u].status # "absent" => account'[u].status # "absent",
           \A s \in Sessions : checkout'[s].owner = checkout[s].owner,
           \A s \in Sessions : checkout'[s].state # "none" => checkout[s].state # "none",
           \A s \in Sessions : checkout[s].state \in {"open", "completed"} =>
                                  checkout'[s].state \in {"open", "completed"}
    PROVE  SessionInv'
<1>0. /\ \A s \in Sessions : checkout[s].owner \in Users \cup {None}
      /\ \A e \in Events : paidFor[e] # None => paidFor[e] \in Sessions
  BY DEF TypeOK
<1>1. ASSUME NEW s \in Sessions, checkout'[s].state # "none" PROVE Exists(checkout[s].owner)'
  <2>1. Exists(checkout[s].owner)
    BY <1>1 DEF SessionInv
  <2>2. QED
    BY <1>0, <2>1 DEF Exists
<1>2. ASSUME NEW e \in Events, paidFor'[e] # None
      PROVE  (/\ sent[e] # None
              /\ HasRow(paidFor[e])
              /\ sent[e].meta \in {None, checkout[paidFor[e]].owner}
              /\ sent[e].session \in {None, paidFor[e]})'
  <2>1. /\ paidFor[e] \in Sessions
        /\ sent[e] # None
        /\ HasRow(paidFor[e])
        /\ sent[e].meta \in {None, checkout[paidFor[e]].owner}
        /\ sent[e].session \in {None, paidFor[e]}
    BY <1>0, <1>2 DEF SessionInv
  <2>2. QED
    BY <2>1 DEF HasRow
<1>3. QED
  BY <1>1, <1>2 DEF SessionInv

\* The same for a step that leaves accounts and checkouts alone.
COROLLARY SessionUnchanged ==
    ASSUME TypeOK, SessionInv, sent' = sent, paidFor' = paidFor,
           account' = account, checkout' = checkout
    PROVE  SessionInv'
  BY SessionStable

\* Closing a checkout changes no owner and reopens nothing.
LEMMA CompletionKeeps ==
    ASSUME TypeOK, NEW u \in Users, CompleteNewestCheckout(u) \/ UNCHANGED checkout
    PROVE  /\ checkout' \in [Sessions -> [state : {"none", "created", "open", "completed"},
                                         owner : Users \cup {None}, at : Nat]]
           /\ \A s \in Sessions : /\ checkout'[s].owner = checkout[s].owner
                                  /\ checkout'[s].state # "none" => checkout[s].state # "none"
                                  /\ checkout[s].state \in {"open", "completed"} =>
                                       checkout'[s].state \in {"open", "completed"}
<1>1. CASE UNCHANGED checkout
  BY <1>1 DEF TypeOK
<1>2. ASSUME NEW s \in OpenOf(u), checkout' = [checkout EXCEPT ![s].state = "completed"]
      PROVE  /\ checkout' \in [Sessions -> [state : {"none", "created", "open", "completed"},
                                         owner : Users \cup {None}, at : Nat]]
             /\ \A t \in Sessions : /\ checkout'[t].owner = checkout[t].owner
                                    /\ checkout'[t].state # "none" => checkout[t].state # "none"
                                    /\ checkout[t].state \in {"open", "completed"} =>
                                         checkout'[t].state \in {"open", "completed"}
  <2>1. s \in Sessions /\ checkout[s].state = "open"
    BY DEF OpenOf
  <2>2. QED
    BY <1>2, <2>1 DEF TypeOK
<1>3. QED
  BY <1>1, <1>2 DEF CompleteNewestCheckout

\* What every step keeps: owners, rows of sessions and payloads are settled
\* once, so facts about the session of a payment survive.
LEMMA NextTInv == TInv /\ [Next]_vars => TInv'
<1> SUFFICES ASSUME TInv, [Next]_vars PROVE TInv'
  OBVIOUS
<1> USE NoneAssumption, FaultAssumption DEF TInv, history
<1>1. ASSUME NEW u \in Users, Signup(u) PROVE TInv'
  <2>1. TypeOK'
    BY <1>1 DEF Signup, TypeOK, Account, Statuses
  <2>2. SessionInv'
    <3>1. \A w \in Users : account[w].status # "absent" => account'[w].status # "absent"
      BY <1>1 DEF Signup, TypeOK, Account, Statuses
    <3>2. QED
      BY <1>1, <3>1, SessionStable DEF Signup
  <2>3. HandlerInv'
    BY <1>1 DEF Signup, TypeOK, HandlerInv
  <2>4. QED
    BY <2>1, <2>2, <2>3
<1>2. ASSUME NEW u \in Users, Suspend(u) PROVE TInv'
  <2>1. TypeOK'
    BY <1>2 DEF Suspend, TypeOK, Account, Statuses
  <2>2. SessionInv'
    <3>1. \A w \in Users : account[w].status # "absent" => account'[w].status # "absent"
      BY <1>2 DEF Suspend, TypeOK, Account, Statuses
    <3>2. QED
      BY <1>2, <3>1, SessionStable DEF Suspend
  <2>3. HandlerInv'
    BY <1>2 DEF Suspend, TypeOK, HandlerInv
  <2>4. QED
    BY <2>1, <2>2, <2>3
<1>a. ASSUME NEW u \in Users, OperatorSignup(u) \/ Grant(u) PROVE TInv'
  <2>1. /\ account \in [Users -> Account] /\ account[u] \in Account
        /\ byHand \in ByHand
        /\ UNCHANGED <<checkout, subs, rows, sent, dodo, handler, paidFor, credits, appliedTo, faults>>
    BY <1>a DEF OperatorSignup, Grant, TypeOK
  <2>2. /\ account' \in [Users -> Account]
        /\ \A w \in Users : account[w].status # "absent" => account'[w].status # "absent"
    <3>1. CASE OperatorSignup(u)
      BY <2>1, <3>1 DEF OperatorSignup, Account, Statuses
    <3>2. CASE Grant(u)
      <4>1. GrantCents \in Int
        BY DEF GrantCents
      <4>2. account' = [account EXCEPT ![u] = SetActive(account[u], GrantCents)]
        BY <3>2 DEF Grant
      <4>3. QED
        BY <2>1, <4>1, <4>2, SetActiveType
    <3>3. QED
      BY <1>a, <3>1, <3>2
  <2>3. byHand' \in ByHand
    <3>1. Gift(u, 0, {}) \/ Gift(u, GrantCents, {})
      BY <1>a DEF OperatorSignup, Grant
    <3>2. GrantCents \in Int
      BY DEF GrantCents
    <3>3. QED
      BY <2>1, <3>1, <3>2, GiftType
  <2>4. TypeOK'
    BY <2>1, <2>2, <2>3 DEF TypeOK
  <2>5. SessionInv'
    BY <2>1, <2>2, SessionStable
  <2>6. HandlerInv'
    BY <2>1 DEF HandlerInv
  <2>7. QED
    BY <2>4, <2>5, <2>6
<1>3. ASSUME NEW u \in Users, NEW s \in Sessions, CreateSession(u, s) PROVE TInv'
  <2>1. TypeOK'
    <3>1. checkout' \in [Sessions -> [state : {"none", "created", "open", "completed"},
                                    owner : Users \cup {None}, at : Nat]]
      BY <1>3 DEF CreateSession, TypeOK
    <3>2. QED
      BY <1>3, <3>1 DEF CreateSession, TypeOK
  <2>2. SessionInv'
    <3>1. /\ checkout'[s].state = "created" /\ checkout'[s].owner = u /\ Exists(u)
          /\ checkout[s].state = "none" /\ \A t \in Sessions \ {s} : checkout'[t] = checkout[t]
          /\ UNCHANGED <<account, sent, paidFor>>
      BY <1>3 DEF CreateSession, TypeOK
    <3>2. \A e \in Events : paidFor[e] # None => paidFor[e] \in Sessions \ {s}
      BY <3>1 DEF TypeOK, SessionInv, HasRow
    <3>3. QED
      BY <3>1, <3>2 DEF TypeOK, SessionInv, HasRow, Exists
  <2>3. HandlerInv'
    BY <1>3 DEF CreateSession, TypeOK, HandlerInv
  <2>4. QED
    BY <2>1, <2>2, <2>3
<1>4. ASSUME NEW s \in Sessions, InsertCheckout(s) PROVE TInv'
  <2>1. Cardinality({t \in Sessions : HasRow(t)}) \in Nat
    BY SessionAssumption, FS_Subset, FS_CardinalityType
  <2>2. /\ checkout' \in [Sessions -> [state : {"none", "created", "open", "completed"},
                                       owner : Users \cup {None}, at : Nat]]
        /\ checkout[s].state = "created" /\ checkout'[s].state = "open"
        /\ checkout'[s].owner = checkout[s].owner
        /\ \A t \in Sessions \ {s} : checkout'[t] = checkout[t]
    <3> DEFINE n == 1 + Cardinality({t \in Sessions : HasRow(t)})
    <3>1. n \in Nat /\ checkout' = [checkout EXCEPT ![s].state = "open", ![s].at = n]
          /\ checkout[s].state = "created"
      BY <1>4, <2>1 DEF InsertCheckout
    <3> HIDE DEF n
    <3>2. QED
      BY <3>1 DEF TypeOK
  <2>6. TypeOK'
    BY <1>4, <2>2 DEF InsertCheckout, TypeOK
  <2>3. SessionInv'
    BY <1>4, <2>2, SessionStable DEF InsertCheckout
  <2>4. HandlerInv'
    BY <1>4 DEF InsertCheckout, TypeOK, HandlerInv
  <2>5. QED
    BY <2>6, <2>3, <2>4
<1>5. ASSUME NEW e \in Events, NEW s \in Sessions, NEW shape \in Payments, EmitPayment(e, s, shape)
      PROVE TInv'
  <2>1. checkout[s].owner \in Users /\ HasRow(s)
    BY <1>5 DEF EmitPayment, TypeOK, SessionInv, Payable, HasRow, Exists
  <2>2. /\ sent'[e] \in Payload
        /\ sent'[e].meta \in {None, checkout[s].owner}
        /\ sent'[e].session \in {None, s}
    BY <1>5, <2>1, ShapeAssumption DEF EmitPayment, TypeOK, Payload, PaymentShape
  <2>3. TypeOK'
    BY <1>5, <2>2 DEF EmitPayment, TypeOK
  <2>4. SessionInv'
    <3>1. \A f \in Events : paidFor'[f] # None => /\ sent'[f] # None
                                                 /\ HasRow(paidFor'[f])
                                                 /\ sent'[f].meta \in {None, checkout[paidFor'[f]].owner}
                                                 /\ sent'[f].session \in {None, paidFor'[f]}
      <4>1. \A f \in Events \ {e} : paidFor'[f] = paidFor[f] /\ sent'[f] = sent[f]
        BY <1>5 DEF EmitPayment, TypeOK
      <4>2. paidFor'[e] = s
        BY <1>5 DEF EmitPayment, TypeOK
      <4>3. QED
        BY <2>1, <2>2, <4>1, <4>2 DEF SessionInv
    <3>2. account' = account /\ checkout' = checkout
      BY <1>5 DEF EmitPayment
    <3>3. QED
      BY <3>1, <3>2 DEF SessionInv, HasRow, Exists
  <2>5. HandlerInv'
    BY <1>5, <2>2 DEF EmitPayment, TypeOK, HandlerInv
  <2>6. QED
    BY <2>3, <2>4, <2>5
<1>6. ASSUME NEW e \in Events, NEW p \in SubNotices, EmitSubscription(e, p) PROVE TInv'
  <2>1. p \in Payload /\ p # None /\ paidFor[e] = None
    BY <1>6, ShapeAssumption DEF EmitSubscription, HandlerInv
  <2>2. TypeOK'
    BY <1>6, <2>1 DEF EmitSubscription, TypeOK
  <2>3. SessionInv'
    BY <1>6, <2>1 DEF EmitSubscription, TypeOK, SessionInv, HasRow, Exists
  <2>4. HandlerInv'
    BY <1>6, <2>1 DEF EmitSubscription, TypeOK, HandlerInv
  <2>5. QED
    BY <2>2, <2>3, <2>4
<1>7. ASSUME NEW e \in Events, Deliver(e) \/ Redeliver(e) PROVE TInv'
  <2>1. TypeOK'
    <3>1. handler' = [pc |-> "insert", event |-> e, user |-> None, verdict |-> "none"]
      BY <1>7 DEF Deliver, Redeliver, Begin, Idle
    <3>2. UNCHANGED <<account, checkout, subs, rows, sent, dodo, paidFor, credits, appliedTo, byHand, faults>>
      BY <1>7 DEF Deliver, Redeliver, Begin
    <3>3. QED
      BY <3>1, <3>2 DEF TypeOK, Verdicts
  <2>2. SessionInv'
    BY <1>7, SessionUnchanged DEF Deliver, Redeliver, Begin, Idle
  <2>3. HandlerInv'
    BY <1>7 DEF Deliver, Redeliver, Begin, Idle, TypeOK, HandlerInv
  <2>4. QED
    BY <2>1, <2>2, <2>3
<1>8. ASSUME NEW e \in Events, Reconcile(e) PROVE TInv'
  <2> DEFINE u == checkout[paidFor[e]].owner
  <2>1. u \in Users /\ account[u].status # "absent" /\ sent[e].cents \in Int
    BY <1>8 DEF Reconcile, TypeOK, SessionInv, Exists, HasRow, Payload
  <2>2. /\ account' = [account EXCEPT ![u] = SetActive(account[u], sent[e].cents)]
        /\ rows' = [rows EXCEPT ![e].processed = TRUE, ![e].user = u]
        /\ rows[e] \in Row
        /\ credits' = [credits EXCEPT ![e] = @ + 1]
        /\ \/ appliedTo' = [appliedTo EXCEPT ![e] = u] /\ UNCHANGED byHand
           \/ Gift(u, sent[e].cents, {e}) /\ UNCHANGED appliedTo
        /\ dodo[e] # "unsent"
        /\ UNCHANGED <<checkout, subs, sent, dodo, handler, paidFor, faults>>
    BY <1>8 DEF Reconcile, TypeOK, HandlerInv
  <2> HIDE DEF u
  <2>3. account' \in [Users -> Account]
    BY <2>1, <2>2, SetActiveType DEF TypeOK
  <2>4. \A w \in Users : account[w].status # "absent" => account'[w].status # "absent"
    BY <2>1, <2>2, SetActiveType DEF TypeOK
  <2>5. rows' \in [Events -> {None} \cup Row] /\ \A f \in Events : rows[f] # None => rows'[f] # None
    <3>1. [rows[e] EXCEPT !.processed = TRUE, !.user = u] \in Row
      BY <2>1, <2>2 DEF Row
    <3>2. rows' = [rows EXCEPT ![e] = [rows[e] EXCEPT !.processed = TRUE, !.user = u]]
      BY <2>2 DEF TypeOK
    <3>3. QED
      BY <3>1, <3>2 DEF TypeOK
  <2>6. TypeOK'
    <3>1. /\ credits' \in [Events -> Nat] /\ appliedTo' \in [Events -> Users \cup {None}]
      BY <2>1, <2>2 DEF TypeOK
    <3>3. byHand' \in ByHand
      <4>1. byHand \in ByHand /\ {e} \in SUBSET Events
        BY DEF TypeOK
      <4>2. QED
        BY <2>1, <2>2, <4>1, GiftType
    <3>2. QED
      BY <2>2, <2>3, <2>5, <3>1, <3>3 DEF TypeOK
  <2>7. SessionInv'
    BY <2>2, <2>4, SessionStable
  <2>8. HandlerInv'
    <3>1. \A f \in Events \ {e} : appliedTo'[f] = appliedTo[f]
      BY <2>2 DEF TypeOK
    <3>2. QED
      BY <2>2, <2>5, <3>1 DEF HandlerInv
  <2>9. QED
    BY <2>6, <2>7, <2>8
<1>9. CASE InsertEvent
  <2>1. handler.event \in Events /\ dodo[handler.event] # "unsent"
    BY <1>9 DEF InsertEvent, HandlerInv
  <2>2. NewRow \in Row /\ NewRow # None
    <3>1. NewRow \in Row
      BY DEF NewRow, Row, Errors
    <3>2. QED
      BY <3>1
  <2>3. TypeOK'
    BY <1>9, <2>1, <2>2 DEF InsertEvent, Answer200, Idle, TypeOK, Verdicts
  <2>4. SessionInv'
    BY <1>9, SessionUnchanged DEF InsertEvent
  <2>5. HandlerInv'
    BY <1>9, <2>1, <2>2 DEF InsertEvent, FirstDelivery, Answer200, Idle, TypeOK, HandlerInv
  <2>6. QED
    BY <2>3, <2>4, <2>5
<1>10. CASE ApplyEvent
  <2> DEFINE e == handler.event
             p == sent[e]
             u == Correlate(p)
             v == Verdict(p, u)
  <2>1. /\ e \in Events /\ dodo[e] # "unsent" /\ rows[e] # None
        /\ p \in Payload
        /\ UNCHANGED <<rows, sent, dodo, byHand, faults>>
    BY <1>10 DEF ApplyEvent, Credit, Subscribe, HandlerInv, TypeOK
  <2>2. u \in Users \cup {None}
    BY <2>1, CorrelateType
  <2>3. /\ v \in {"logged", "credited", "subscribed", "uncorrelated", "flagged"}
        /\ v \in {"credited", "subscribed"} => u \in Users
        /\ v = "subscribed" => p.sub \in Subs
    BY <2>1, <2>2, VerdictType DEF Payload
  <2>4. handler' = [handler EXCEPT !.pc = "mark", !.user = u, !.verdict = v]
    BY <1>10 DEF ApplyEvent
  <2>5. /\ account' \in [Users -> Account]
        /\ \A w \in Users : account[w].status # "absent" => account'[w].status # "absent"
        /\ checkout' \in [Sessions -> [state : {"none", "created", "open", "completed"},
                                       owner : Users \cup {None}, at : Nat]]
        /\ \A s \in Sessions : /\ checkout'[s].owner = checkout[s].owner
                               /\ checkout'[s].state # "none" => checkout[s].state # "none"
                               /\ checkout[s].state \in {"open", "completed"} =>
                                    checkout'[s].state \in {"open", "completed"}
        /\ subs' \in [Subs -> Users \cup {None}]
        /\ credits' \in [Events -> Nat]
        /\ appliedTo' \in [Events -> Users \cup {None}]
        /\ \A f \in Events \ {e} : appliedTo'[f] = appliedTo[f]
        /\ paidFor' = paidFor
    <3>1. CASE v = "credited" /\ Credit(e, p, u)
      <4>1. u \in Users /\ p.cents \in Int
        BY <2>1, <2>3, <3>1 DEF Payload
      <4>2. account' = [account EXCEPT ![u] = Funded(account[u], p.cents)]
        BY <3>1 DEF Credit
      <4>3. /\ credits' = [credits EXCEPT ![e] = @ + 1]
            /\ appliedTo' = [appliedTo EXCEPT ![e] = u]
            /\ UNCHANGED <<subs, paidFor>>
            /\ CompleteNewestCheckout(u)
        BY <3>1 DEF Credit
      <4> HIDE DEF e, p, u, v
      <4>4. /\ account' \in [Users -> Account]
            /\ \A w \in Users : account[w].status # "absent" => account'[w].status # "absent"
        BY <4>1, <4>2, FundedType DEF TypeOK
      <4>5. QED
        BY <2>1, <4>1, <4>3, <4>4, CompletionKeeps DEF TypeOK
    <3>2. CASE v = "subscribed" /\ Subscribe(e, p, u)
      <4>1. u \in Users /\ p.sub \in Subs
        BY <2>3, <3>2
      <4>2. /\ subs' = [subs EXCEPT ![p.sub] = u]
            /\ appliedTo' = [appliedTo EXCEPT ![e] = u]
            /\ UNCHANGED <<paidFor, credits>>
            /\ CompleteNewestCheckout(u) \/ UNCHANGED checkout
        BY <3>2 DEF Subscribe
      <4>3. \/ account' = [account EXCEPT ![u] = Enrolled(account[u])]
            \/ account' = [account EXCEPT ![u].expiry = "live"]
            \/ account' = [account EXCEPT ![u].expiry = "lapsed"]
            \/ UNCHANGED account
        BY <3>2 DEF Subscribe
      <4> HIDE DEF e, p, u, v
      <4>4. /\ account' \in [Users -> Account]
            /\ \A w \in Users : account[w].status # "absent" => account'[w].status # "absent"
        <5>1. account[u] \in Account
          BY <4>1 DEF TypeOK
        <5>2. CASE account' = [account EXCEPT ![u] = Enrolled(account[u])]
          <6>1. Enrolled(account[u]) \in Account /\ Enrolled(account[u]).status # "absent"
            BY <5>1 DEF Enrolled, Account, Activated, Statuses
          <6>2. QED
            BY <4>1, <5>2, <6>1 DEF TypeOK
        <5>3. CASE account' = [account EXCEPT ![u].expiry = "live"]
          BY <4>1, <5>3 DEF TypeOK, Account
        <5>4. CASE account' = [account EXCEPT ![u].expiry = "lapsed"]
          BY <4>1, <5>4 DEF TypeOK, Account
        <5>5. CASE UNCHANGED account
          BY <5>5 DEF TypeOK
        <5>6. QED
          BY <4>3, <5>2, <5>3, <5>4, <5>5
      <4>5. QED
        BY <2>1, <4>1, <4>2, <4>4, CompletionKeeps DEF TypeOK
    <3>3. CASE UNCHANGED <<account, checkout, subs, history>>
      BY <3>3 DEF TypeOK
    <3>4. QED
      BY <1>10, <3>1, <3>2, <3>3 DEF ApplyEvent
  <2> HIDE DEF e, p, u, v
  <2>6. handler' \in [pc : {"idle", "insert", "apply", "mark", "fail"}, event : Events \cup {None},
                      user : Users \cup {None}, verdict : Verdicts]
        /\ handler'.event = handler.event
    BY <2>2, <2>3, <2>4 DEF TypeOK, Verdicts
  <2>7. TypeOK'
    BY <2>1, <2>5, <2>6 DEF TypeOK
  <2>8. SessionInv'
    BY <2>1, <2>5, SessionStable
  <2>9. HandlerInv'
    BY <2>1, <2>5, <2>6 DEF HandlerInv, e
  <2>10. QED
    BY <2>7, <2>8, <2>9
<1>11. CASE MarkEvent
  <2> DEFINE e == handler.event
             r == Marked(rows[e], handler.user, handler.verdict)
  <2>1. e \in Events /\ dodo[e] # "unsent" /\ rows[e] \in Row
    BY <1>11 DEF MarkEvent, HandlerInv, TypeOK
  <2>2. r \in Row /\ r # None
    <3>1. handler.user \in Users \cup {None}
      BY DEF TypeOK
    <3>2. r \in Row
      BY <2>1, <3>1 DEF Marked, Row, Errors
    <3>3. QED
      BY <3>2
  <2>3. rows' = [rows EXCEPT ![e] = r] /\ dodo' = [dodo EXCEPT ![e] = "acked"] /\ handler' = Idle
        /\ UNCHANGED <<account, checkout, subs, sent, paidFor, credits, appliedTo, byHand, faults>>
    BY <1>11 DEF MarkEvent, Answer200
  <2> HIDE DEF e, r
  <2>4. TypeOK'
    BY <2>1, <2>2, <2>3 DEF Idle, TypeOK, Verdicts
  <2>5. SessionInv'
    BY <2>3, SessionUnchanged
  <2>6. HandlerInv'
    BY <2>1, <2>2, <2>3 DEF Idle, TypeOK, HandlerInv
  <2>7. QED
    BY <2>4, <2>5, <2>6
<1>12. CASE InsertFails \/ StatementFails \/ MarkErrorFails \/ Crash
  <2>1. TypeOK'
    BY <1>12 DEF InsertFails, StatementFails, MarkErrorFails, Crash, Fault, Idle, TypeOK, Verdicts
  <2>2. SessionInv'
    BY <1>12, SessionUnchanged DEF InsertFails, StatementFails, MarkErrorFails, Crash, Fault, Idle
  <2>3. HandlerInv'
    BY <1>12 DEF InsertFails, StatementFails, MarkErrorFails, Crash, Fault, Idle, TypeOK, HandlerInv
  <2>4. QED
    BY <2>1, <2>2, <2>3
<1>13. CASE MarkError
  <2> DEFINE e == handler.event
             r == [rows[e] EXCEPT !.error = "db"]
  <2>1. e \in Events /\ rows[e] \in Row
    BY <1>13 DEF MarkError, HandlerInv, TypeOK
  <2>2. r \in Row /\ r # None
    BY <2>1 DEF Row, Errors
  <2>3. rows' = [rows EXCEPT ![e] = r] /\ handler' = Idle
        /\ UNCHANGED <<account, checkout, subs, sent, dodo, paidFor, credits, appliedTo, byHand, faults>>
    BY <1>13 DEF MarkError
  <2> HIDE DEF e, r
  <2>4. TypeOK'
    BY <2>1, <2>2, <2>3 DEF Idle, TypeOK, Verdicts
  <2>5. SessionInv'
    BY <2>3, SessionUnchanged
  <2>6. HandlerInv'
    BY <2>1, <2>2, <2>3 DEF Idle, TypeOK, HandlerInv
  <2>7. QED
    BY <2>4, <2>5, <2>6
<1>14. CASE UNCHANGED vars
  BY <1>14 DEF vars, TypeOK, SessionInv, HandlerInv, Exists, HasRow
<1>15. QED
  BY <1>1, <1>2, <1>a, <1>3, <1>4, <1>5, <1>6, <1>7, <1>8, <1>9, <1>10, <1>11, <1>12, <1>13, <1>14,
     GrantAssumption DEF Next

\* Every state of Webhook is well typed, whatever the payloads and faults.
THEOREM Typing == Spec => []TypeOK
<1>1. TInv => TypeOK
  BY DEF TInv
<1>2. QED
  BY <1>1, InitTInv, NextTInv, PTL DEF Spec

-----------------------------------------------------------------------------
(***************************************************************************)
(* Exactly-once credit.  CreditedAtMostOnce is not inductive by itself: a  *)
(* handler about to apply an event must know that the event is uncredited. *)
(* That follows from the row: no row means no credit, and only the handler *)
(* that inserted the row applies.  And the operator, who marks what he     *)
(* pays, pays an event again at most once.                                 *)
(***************************************************************************)
GateInv ==
    /\ \A e \in Events : rows[e] = None => credits[e] = 0
    /\ \A e \in Events : e \in byHand.again => rows[e] # None /\ rows[e].processed
    /\ handler.pc \in {"apply", "mark", "fail"} => ~rows[handler.event].processed
    /\ handler.pc = "apply" => credits[handler.event] = 0

OnceInv == TInv /\ GateInv /\ CreditedAtMostOnce

\* The gate invariant over one step.
LEMMA NextGate ==
    ASSUME TInv, TInv', GateInv, CreditedAtMostOnce, [Next]_vars
    PROVE  GateInv' /\ CreditedAtMostOnce'
<1> USE NoneAssumption DEF history
<1>0. /\ rows \in [Events -> {None} \cup Row] /\ credits \in [Events -> Nat]
      /\ byHand \in ByHand
      /\ handler \in [pc : {"idle", "insert", "apply", "mark", "fail"}, event : Events \cup {None},
                      user : Users \cup {None}, verdict : Verdicts]
      /\ handler.pc # "idle" => handler.event \in Events
      /\ handler.pc \in {"apply", "mark", "fail"} => rows[handler.event] \in Row
  BY DEF TInv, TypeOK, HandlerInv
<1>1. CASE UNCHANGED <<rows, credits, handler>> /\ byHand'.again = byHand.again
  BY <1>1 DEF GateInv, CreditedAtMostOnce
<1>2. CASE /\ UNCHANGED <<rows, credits, byHand>>
           /\ handler'.pc \in {"idle", "insert", "fail"}
           /\ handler'.pc = "fail" =>
                handler.pc \in {"apply", "mark", "fail"} /\ handler'.event = handler.event
  BY <1>2 DEF GateInv, CreditedAtMostOnce
<1>3. ASSUME NEW e \in Events, Reconcile(e) PROVE GateInv' /\ CreditedAtMostOnce'
  <2>1. /\ handler.pc = "idle" /\ UNCHANGED handler
        /\ rows[e] # None /\ ~rows[e].processed
        /\ credits' = [credits EXCEPT ![e] = @ + 1]
        /\ \A f \in Events \ {e} : rows'[f] = rows[f]
        /\ rows'[e] = [rows[e] EXCEPT !.processed = TRUE, !.user = checkout[paidFor[e]].owner]
        /\ \/ credits[e] = 0 /\ UNCHANGED byHand
           \/ byHand'.again = byHand.again \cup {e}
    BY <1>0, <1>3 DEF Reconcile, Gift
  <2>2. e \notin byHand.again /\ rows'[e].processed /\ rows'[e] # None
    <3>1. rows[e] \in Row /\ checkout[paidFor[e]].owner \in Users
      BY <1>0, <1>3, <2>1 DEF Reconcile, TInv, TypeOK, SessionInv, Exists, HasRow
    <3>2. rows'[e] \in Row /\ rows'[e].processed
      BY <2>1, <3>1 DEF Row
    <3>3. QED
      BY <2>1, <3>2 DEF GateInv
  <2>3. credits[e] \in Nat /\ credits[e] <= 1
    BY <1>0, <2>2 DEF CreditedAtMostOnce
  <2>4. credits'[e] = credits[e] + 1 /\ \A f \in Events \ {e} : credits'[f] = credits[f]
    BY <1>0, <2>1
  <2>5. credits'[e] <= IF e \in byHand'.again THEN 2 ELSE 1
    BY <2>1, <2>3, <2>4
  <2>6. \A f \in Events \ {e} : f \in byHand'.again <=> f \in byHand.again
    BY <2>1
  <2>7. CreditedAtMostOnce'
    BY <2>4, <2>5, <2>6 DEF CreditedAtMostOnce
  <2>8. \A f \in Events : rows'[f] = None => credits'[f] = 0
    BY <2>1, <2>2, <2>4 DEF GateInv
  <2>9. \A f \in Events : f \in byHand'.again => rows'[f] # None /\ rows'[f].processed
    BY <2>1, <2>2, <2>6 DEF GateInv
  <2>10. QED
    BY <2>1, <2>7, <2>8, <2>9 DEF GateInv
<1>4. CASE InsertEvent
  <2>1. CASE FirstDelivery(handler.event)
    <3>1. /\ handler' = [handler EXCEPT !.pc = "apply"] /\ UNCHANGED <<credits, byHand>>
          /\ handler.event \in Events /\ rows[handler.event] = None
          /\ rows' = [rows EXCEPT ![handler.event] = NewRow]
      BY <1>0, <1>4, <2>1 DEF InsertEvent, FirstDelivery
    <3>2. NewRow \in Row /\ ~NewRow.processed /\ NewRow # None
      <4>1. NewRow \in Row /\ ~NewRow.processed
        BY DEF NewRow, Row, Errors
      <4>2. QED
        BY <4>1
    <3>3. QED
      BY <1>0, <3>1, <3>2 DEF GateInv, CreditedAtMostOnce
  <2>2. CASE ~FirstDelivery(handler.event)
    BY <1>2, <1>4, <2>2 DEF InsertEvent, Answer200, Idle
  <2>3. QED
    BY <2>1, <2>2
<1>5. CASE ApplyEvent
  <2> DEFINE e == handler.event
             v == Verdict(sent[e], Correlate(sent[e]))
  <2>1. /\ e \in Events /\ handler.pc = "apply" /\ UNCHANGED <<rows, byHand>>
        /\ handler' = [handler EXCEPT !.pc = "mark", !.user = Correlate(sent[e]), !.verdict = v]
        /\ credits' = [credits EXCEPT ![e] = @ + 1] \/ UNCHANGED credits
    BY <1>0, <1>5 DEF ApplyEvent, Credit, Subscribe
  <2> HIDE DEF v
  <2>2. handler'.pc = "mark" /\ handler'.event = e
    BY <1>0, <2>1
  <2>3. QED
    BY <1>0, <2>1, <2>2 DEF GateInv, CreditedAtMostOnce
<1>6. CASE MarkEvent
  <2> DEFINE e == handler.event
             r == Marked(rows[e], handler.user, handler.verdict)
  <2>1. /\ e \in Events /\ rows' = [rows EXCEPT ![e] = r] /\ UNCHANGED <<credits, byHand>>
        /\ handler' = Idle
    BY <1>0, <1>6 DEF MarkEvent, Answer200
  <2>2. r # None
    <3>1. rows[e] \in Row /\ handler.user \in Users \cup {None}
      BY <1>0, <1>6 DEF MarkEvent
    <3>2. r \in Row
      BY <3>1 DEF Marked, Row, Errors
    <3>3. QED
      BY <3>2
  <2>3. e \notin byHand.again
    BY <1>6, <2>1 DEF MarkEvent, GateInv
  <2> HIDE DEF r
  <2>4. QED
    BY <1>0, <1>6, <2>1, <2>2, <2>3 DEF MarkEvent, GateInv, CreditedAtMostOnce, Idle
<1>7. CASE MarkError
  <2> DEFINE e == handler.event
             r == [rows[e] EXCEPT !.error = "db"]
  <2>1. /\ e \in Events /\ rows' = [rows EXCEPT ![e] = r] /\ UNCHANGED <<credits, byHand>>
        /\ handler' = Idle
    BY <1>0, <1>7 DEF MarkError
  <2>2. r # None
    <3>1. rows[e] \in Row
      BY <1>0, <1>7 DEF MarkError
    <3>2. r \in Row
      BY <3>1 DEF Row, Errors
    <3>3. QED
      BY <3>2
  <2>3. e \notin byHand.again
    BY <1>7, <2>1 DEF MarkError, GateInv
  <2> HIDE DEF r
  <2>4. QED
    BY <1>0, <2>1, <2>2, <2>3 DEF GateInv, CreditedAtMostOnce, Idle
<1>8. ASSUME \/ \E u \in Users : Signup(u) \/ Suspend(u)
             \/ \E u \in Users, s \in Sessions : CreateSession(u, s)
             \/ \E s \in Sessions : InsertCheckout(s)
             \/ \E e \in Events, s \in Sessions, shape \in Payments : EmitPayment(e, s, shape)
             \/ \E e \in Events, p \in SubNotices : EmitSubscription(e, p)
             \/ UNCHANGED vars
      PROVE  UNCHANGED <<rows, credits, handler, byHand>>
  BY <1>8 DEF Signup, Suspend, CreateSession, InsertCheckout, EmitPayment, EmitSubscription, vars
<1>g. ASSUME NEW u \in Users, OperatorSignup(u) \/ Grant(u)
      PROVE  UNCHANGED <<rows, credits, handler>> /\ byHand'.again = byHand.again
  <2>1. UNCHANGED <<rows, credits, handler>> /\ (Gift(u, 0, {}) \/ Gift(u, GrantCents, {}))
    BY <1>g DEF OperatorSignup, Grant
  <2>2. byHand'.again = byHand.again \cup {}
    BY <2>1 DEF Gift
  <2>3. QED
    BY <2>1, <2>2
<1>9. ASSUME (\E e \in Events : Deliver(e) \/ Redeliver(e)) \/ InsertFails \/ MarkErrorFails \/ Crash
      PROVE  UNCHANGED <<rows, credits, byHand>> /\ handler'.pc \in {"idle", "insert"}
  <2>1. ASSUME NEW e \in Events, Begin(e)
        PROVE  UNCHANGED <<rows, credits, byHand>> /\ handler'.pc \in {"idle", "insert"}
    <3>1. handler' = [pc |-> "insert", event |-> e, user |-> None, verdict |-> "none"]
      BY <2>1 DEF Begin, Idle
    <3>2. QED
      BY <2>1, <3>1 DEF Begin
  <2>2. CASE InsertFails \/ MarkErrorFails \/ Crash
    BY <2>2 DEF InsertFails, MarkErrorFails, Crash, Idle
  <2>3. QED
    BY <1>9, <2>1, <2>2 DEF Deliver, Redeliver
<1>10. ASSUME StatementFails
       PROVE  /\ UNCHANGED <<rows, credits, byHand>> /\ handler'.pc = "fail"
              /\ handler.pc \in {"apply", "mark"} /\ handler'.event = handler.event
  BY <1>0, <1>10 DEF StatementFails
<1>11. QED
  BY <1>1, <1>2, <1>3, <1>4, <1>5, <1>6, <1>7, <1>8, <1>g, <1>9, <1>10, GrantAssumption DEF Next

\* No event is credited twice, for any number of redeliveries, crashes and
\* failing statements, but for the payments whose mark was lost and which the
\* operator paid again.
THEOREM CreditOnce == Spec => []CreditedAtMostOnce
<1>1. Init => OnceInv
  BY InitTInv, NoneAssumption DEF Init, OnceInv, GateInv, CreditedAtMostOnce, Idle
<1>2. OnceInv /\ [Next]_vars => OnceInv'
  BY NextTInv, NextGate DEF OnceInv
<1>3. OnceInv => CreditedAtMostOnce
  BY DEF OnceInv
<1>4. QED
  BY <1>1, <1>2, <1>3, PTL DEF Spec

-----------------------------------------------------------------------------
(***************************************************************************)
(* The payer.  TInv says what a payment's payload can name; the correlation *)
(* order then picks the owner of the paid session before any email.        *)
(***************************************************************************)
PayerInv == TInv /\ CreditGoesToPayer

\* A payload that keeps the user id or the session of a payment correlates
\* with the owner of that session.
LEMMA EchoCorrelates ==
    ASSUME TInv, NEW e \in Events, paidFor[e] # None, sent[e].meta # None \/ sent[e].session # None
    PROVE  Correlate(sent[e]) = checkout[paidFor[e]].owner
<1>1. /\ sent[e].meta \in {None, checkout[paidFor[e]].owner}
      /\ sent[e].session \in {None, paidFor[e]}
      /\ HasRow(paidFor[e])
      /\ paidFor[e] \in Sessions
  BY DEF TInv, SessionInv, TypeOK
<1>2. Exists(checkout[paidFor[e]].owner)
  BY <1>1 DEF TInv, SessionInv, HasRow
<1>3. ~Exists(None)
  BY DEF Exists
<1>4. QED
  BY <1>1, <1>2, <1>3 DEF Correlate

\* Neither the owner of a session nor the payload of a payment changes once
\* the payment is credited, and every credit goes where the payload says.
LEMMA NextPayer == PayerInv /\ TInv' /\ [Next]_vars => CreditGoesToPayer'
<1> SUFFICES ASSUME PayerInv, TInv', [Next]_vars PROVE CreditGoesToPayer'
  OBVIOUS
<1> USE NoneAssumption DEF history
<1>1. /\ appliedTo \in [Events -> Users \cup {None}] /\ paidFor \in [Events -> Sessions \cup {None}]
      /\ \A e \in Events : dodo[e] = "unsent" => appliedTo[e] = None /\ paidFor[e] = None
      /\ \A s \in Sessions : checkout[s].state = "none" => \A e \in Events : paidFor[e] # s
      /\ handler.pc # "idle" => handler.event \in Events
      /\ checkout \in [Sessions -> [state : {"none", "created", "open", "completed"},
                                   owner : Users \cup {None}, at : Nat]]
      /\ sent \in [Events -> {None} \cup Payload]
  BY DEF PayerInv, TInv, TypeOK, HandlerInv, SessionInv, HasRow
<1>2. ASSUME UNCHANGED <<sent, paidFor, appliedTo>>,
             \A s \in Sessions : checkout[s].state # "none" => checkout'[s].owner = checkout[s].owner
      PROVE  CreditGoesToPayer'
  BY <1>1, <1>2 DEF PayerInv, CreditGoesToPayer
<1>3. ASSUME NEW e \in Events, dodo[e] = "unsent", UNCHANGED <<checkout, appliedTo>>,
             \A f \in Events \ {e} : sent'[f] = sent[f] /\ paidFor'[f] = paidFor[f]
      PROVE  CreditGoesToPayer'
  BY <1>1, <1>3 DEF PayerInv, CreditGoesToPayer
<1>4. ASSUME NEW e \in Events, NEW u \in Users, UNCHANGED <<sent, paidFor>>,
             \A s \in Sessions : checkout'[s].owner = checkout[s].owner,
             appliedTo' = [appliedTo EXCEPT ![e] = u],
             paidFor[e] # None /\ (sent[e].meta # None \/ sent[e].session # None)
                => u = checkout[paidFor[e]].owner
      PROVE  CreditGoesToPayer'
  BY <1>1, <1>4 DEF PayerInv, CreditGoesToPayer
<1>5. CASE ApplyEvent
  <2> DEFINE e == handler.event
             u == Correlate(sent[e])
             v == Verdict(sent[e], u)
  <2>1. e \in Events /\ sent[e] \in Payload /\ UNCHANGED sent
    BY <1>1, <1>5 DEF ApplyEvent, PayerInv, TInv, HandlerInv
  <2>2. CASE v \in {"credited", "subscribed"} /\ (Credit(e, sent[e], u) \/ Subscribe(e, sent[e], u))
    <3>1. u \in Users
      BY <2>1, <2>2, VerdictType, CorrelateType DEF PayerInv, TInv
    <3>2. /\ appliedTo' = [appliedTo EXCEPT ![e] = u] /\ UNCHANGED paidFor
          /\ CompleteNewestCheckout(u) \/ UNCHANGED checkout
      BY <2>2 DEF Credit, Subscribe
    <3>3. \A s \in Sessions : checkout'[s].owner = checkout[s].owner
      BY <3>1, <3>2, CompletionKeeps DEF PayerInv, TInv
    <3>4. paidFor[e] # None /\ (sent[e].meta # None \/ sent[e].session # None)
             => u = checkout[paidFor[e]].owner
      BY <2>1, EchoCorrelates DEF PayerInv
    <3>5. QED
      BY <1>4, <2>1, <3>1, <3>2, <3>3, <3>4
  <2>3. CASE UNCHANGED <<account, checkout, subs, history>>
    BY <1>2, <2>1, <2>3
  <2>4. QED
    BY <1>5, <2>2, <2>3 DEF ApplyEvent
<1>6. ASSUME NEW e \in Events, Reconcile(e) PROVE CreditGoesToPayer'
  <2>1. checkout[paidFor[e]].owner \in Users
    BY <1>1, <1>6 DEF Reconcile, PayerInv, TInv, SessionInv, HasRow, Exists
  <2>2. CASE credits[e] = 0
    BY <1>4, <1>6, <2>1, <2>2 DEF Reconcile
  <2>3. CASE credits[e] # 0
    BY <1>2, <1>6, <2>3 DEF Reconcile
  <2>4. QED
    BY <2>2, <2>3
<1>7. ASSUME NEW e \in Events, NEW s \in Sessions, NEW shape \in Payments, EmitPayment(e, s, shape)
      PROVE  CreditGoesToPayer'
  BY <1>1, <1>3, <1>7 DEF EmitPayment
<1>8. ASSUME NEW e \in Events, NEW p \in SubNotices, EmitSubscription(e, p) PROVE CreditGoesToPayer'
  BY <1>1, <1>3, <1>8 DEF EmitSubscription
<1>9. ASSUME NEW u \in Users, NEW s \in Sessions, CreateSession(u, s) PROVE CreditGoesToPayer'
  BY <1>1, <1>2, <1>9 DEF CreateSession
<1>10. ASSUME NEW s \in Sessions, InsertCheckout(s) PROVE CreditGoesToPayer'
  <2> DEFINE n == 1 + Cardinality({t \in Sessions : HasRow(t)})
  <2>1. checkout' = [checkout EXCEPT ![s].state = "open", ![s].at = n]
    BY <1>10 DEF InsertCheckout
  <2> HIDE DEF n
  <2>2. \A t \in Sessions : checkout'[t].owner = checkout[t].owner
    BY <1>1, <2>1
  <2>3. QED
    BY <1>2, <1>10, <2>2 DEF InsertCheckout
<1>11. ASSUME \/ \E u \in Users : Signup(u) \/ OperatorSignup(u) \/ Grant(u) \/ Suspend(u)
              \/ \E e \in Events : Deliver(e) \/ Redeliver(e)
              \/ InsertEvent \/ MarkEvent \/ InsertFails \/ StatementFails
              \/ MarkError \/ MarkErrorFails \/ Crash \/ UNCHANGED vars
       PROVE  UNCHANGED <<sent, paidFor, appliedTo, checkout>>
  BY <1>11 DEF Signup, OperatorSignup, Grant, Suspend, Deliver, Redeliver, Begin, InsertEvent, MarkEvent, InsertFails,
     StatementFails, MarkError, MarkErrorFails, Crash, vars
<1>12. QED
  BY <1>2, <1>5, <1>6, <1>7, <1>8, <1>9, <1>10, <1>11, GrantAssumption DEF Next

\* A payment whose payload still names its payer or its session is credited
\* to the account that opened the session, whatever email it carries and
\* however the handler is interrupted.
THEOREM CreditToPayer == Spec => []CreditGoesToPayer
<1>1. Init => PayerInv
  BY InitTInv DEF Init, PayerInv, CreditGoesToPayer
<1>2. PayerInv /\ [Next]_vars => PayerInv'
  BY NextTInv, NextPayer DEF PayerInv
<1>3. PayerInv => CreditGoesToPayer
  BY DEF PayerInv
<1>4. QED
  BY <1>1, <1>2, <1>3, PTL DEF Spec

-----------------------------------------------------------------------------
(***************************************************************************)
(* The ledger.  An event that has not been emitted has no row, so no       *)
(* credit, and its announcement is one of the ledger's; a credit adds the  *)
(* price of an uncredited event.                                           *)
(***************************************************************************)
UnsentInv == \A e \in Events : dodo[e] = "unsent" => rows[e] = None

LedgerInv == OnceInv /\ UnsentInv

\* A row is only written for an emitted event, and no event is unsent again.
LEMMA NextUnsent == TInv /\ UnsentInv /\ [Next]_vars => UnsentInv'
<1> SUFFICES ASSUME TInv, UnsentInv, [Next]_vars PROVE UnsentInv'
  OBVIOUS
<1>0. /\ rows \in [Events -> {None} \cup Row]
      /\ dodo \in [Events -> {"unsent", "due", "acked"}]
      /\ handler.pc # "idle" => handler.event \in Events /\ dodo[handler.event] # "unsent"
  BY DEF TInv, TypeOK, HandlerInv
<1>1. ASSUME NEW e \in Events, dodo[e] # "unsent",
             \A f \in Events \ {e} : rows'[f] = rows[f] /\ dodo'[f] = dodo[f],
             dodo'[e] # "unsent"
      PROVE  UnsentInv'
  BY <1>1 DEF UnsentInv
<1>2. CASE UNCHANGED <<rows, dodo>>
  BY <1>2 DEF UnsentInv
<1>3. ASSUME NEW e \in Events, UNCHANGED rows, dodo' = [dodo EXCEPT ![e] = "due"]
      PROVE  UnsentInv'
  BY <1>0, <1>3 DEF UnsentInv
<1>4. CASE InsertEvent \/ MarkEvent \/ MarkError
  <2>1. /\ handler.pc # "idle"
        /\ \A f \in Events \ {handler.event} : rows'[f] = rows[f]
        /\ UNCHANGED dodo \/ dodo' = [dodo EXCEPT ![handler.event] = "acked"]
    BY <1>0, <1>4 DEF InsertEvent, MarkEvent, MarkError, Answer200
  <2>2. QED
    BY <1>0, <1>1, <2>1
<1>5. ASSUME NEW e \in Events, Reconcile(e) PROVE UnsentInv'
  <2>1. /\ rows[e] # None /\ UNCHANGED dodo
        /\ \A f \in Events \ {e} : rows'[f] = rows[f]
    BY <1>0, <1>5 DEF Reconcile
  <2>2. QED
    BY <1>1, <2>1 DEF UnsentInv
<1>6. CASE \/ \E u \in Users : Signup(u) \/ OperatorSignup(u) \/ Grant(u) \/ Suspend(u)
           \/ \E u \in Users, s \in Sessions : CreateSession(u, s)
           \/ \E s \in Sessions : InsertCheckout(s)
           \/ \E e \in Events : Deliver(e) \/ Redeliver(e)
           \/ ApplyEvent \/ InsertFails \/ StatementFails \/ MarkErrorFails \/ Crash
           \/ UNCHANGED vars
  BY <1>2, <1>6 DEF Signup, OperatorSignup, Grant, Suspend, CreateSession, InsertCheckout, Deliver, Redeliver, Begin,
     ApplyEvent, InsertFails, StatementFails, MarkErrorFails, Crash, vars
<1>7. ASSUME NEW e \in Events, (\E s \in Sessions, shape \in Payments : EmitPayment(e, s, shape))
                                 \/ (\E p \in SubNotices : EmitSubscription(e, p))
      PROVE  UnsentInv'
  BY <1>3, <1>7 DEF EmitPayment, EmitSubscription
<1>8. QED
  BY <1>4, <1>5, <1>6, <1>7, GrantAssumption DEF Next

\* A step that moves no money and emits nothing is a stutter of the ledger.
LEMMA LedgerStutter ==
    ASSUME UNCHANGED <<sent, credits>>,
           \A u \in Users : account'[u].balance - byHand'.granted[u]
                               = account[u].balance - byHand.granted[u]
    PROVE  UNCHANGED Ledger!vars
  BY DEF Ledger!vars

\* The emission of an event announces it.
LEMMA LedgerAnnounce ==
    ASSUME LedgerInv, NEW e \in Events, dodo[e] = "unsent",
           UNCHANGED <<account, credits, byHand>>,
           \A f \in Events \ {e} : sent'[f] = sent[f]
    PROVE  Ledger!Next
<1>1. sent[e] = None /\ credits[e] = 0 /\ credits \in [Events -> Nat]
  BY DEF LedgerInv, OnceInv, TInv, TypeOK, HandlerInv, UnsentInv, GateInv
<1>2. Ledger!Announce(e)
  BY <1>1 DEF Ledger!Announce
<1>3. QED
  BY <1>2 DEF Ledger!Next

\* The first credit of an event credits it in the ledger.
LEMMA LedgerCredit ==
    ASSUME TypeOK, NEW e \in Events, NEW u \in Users,
           credits[e] = 0, credits' = [credits EXCEPT ![e] = @ + 1],
           sent[e] # None, sent[e].cents \in Int, sent[e].cents > 0, UNCHANGED <<sent, byHand>>,
           NEW a \in Account, a.balance = account[u].balance + sent[e].cents,
           account' = [account EXCEPT ![u] = a]
    PROVE  Ledger!Next
<1> DEFINE balance == [w \in Users |-> account[w].balance - byHand.granted[w]]
<1>1. /\ account \in [Users -> Account] /\ credits \in [Events -> Nat]
      /\ \A w \in Users : account[w].balance \in Int /\ byHand.granted[w] \in Int
  BY DEF TypeOK, Account, ByHand
<1>3. balance' = [balance EXCEPT ![u] = @ + sent[e].cents]
  <2>1. \A w \in Users : account'[w].balance - byHand.granted[w] =
          IF w = u THEN account[u].balance - byHand.granted[u] + sent[e].cents
                   ELSE account[w].balance - byHand.granted[w]
    BY <1>1
  <2>2. QED
    BY <2>1
<1>4. {f \in Events : credits'[f] > 0} = {f \in Events : credits[f] > 0} \cup {e}
  BY <1>1
<1>5. e \notin {f \in Events : credits[f] > 0}
  OBVIOUS
<1>6. Ledger!Credit(e, u)
  BY <1>3, <1>4, <1>5 DEF Ledger!Credit
<1>7. QED
  BY <1>6 DEF Ledger!Next

LEMMA LedgerStep ==
    ASSUME LedgerInv, [Next]_vars
    PROVE  [Ledger!Next]_(Ledger!vars)
<1> USE NoneAssumption DEF history
<1>0. /\ TypeOK /\ HandlerInv /\ SessionInv /\ GateInv
      /\ account \in [Users -> Account]
      /\ byHand \in ByHand
  BY DEF LedgerInv, OnceInv, TInv, TypeOK
<1>1. ASSUME NEW e \in Events, (\E s \in Sessions, shape \in Payments : EmitPayment(e, s, shape))
                                 \/ (\E p \in SubNotices : EmitSubscription(e, p))
      PROVE  Ledger!Next
  <2>1. /\ dodo[e] = "unsent" /\ UNCHANGED <<account, credits, byHand>>
        /\ \A f \in Events \ {e} : sent'[f] = sent[f]
    BY <1>0, <1>1 DEF EmitPayment, EmitSubscription, TypeOK
  <2>2. QED
    BY <2>1, LedgerAnnounce
<1>2. ASSUME NEW e \in Events, Reconcile(e) PROVE Ledger!Next \/ UNCHANGED Ledger!vars
  <2> DEFINE u == checkout[paidFor[e]].owner
  <2>1. /\ rows[e] # None /\ paidFor[e] # None /\ sent[e].cents > 0 /\ UNCHANGED sent
        /\ credits' = [credits EXCEPT ![e] = @ + 1]
        /\ account' = [account EXCEPT ![u] = SetActive(account[u], sent[e].cents)]
    BY <1>2 DEF Reconcile
  <2>2. u \in Users /\ sent[e] # None /\ sent[e].cents \in Int
    BY <1>0, <2>1 DEF TypeOK, SessionInv, HasRow, Exists, Payload
  <2>3. PICK a \in Account : /\ a.balance = account[u].balance + sent[e].cents
                             /\ account' = [account EXCEPT ![u] = a]
    <3> HIDE DEF u
    <3>1. account[u] \in Account
      BY <1>0, <2>2
    <3>2. QED
      BY <2>1, <2>2, <3>1, SetActiveType
  <2>4. CASE credits[e] = 0
    <3>1. UNCHANGED byHand
      BY <1>2, <2>4 DEF Reconcile
    <3> HIDE DEF u
    <3>2. QED
      BY <1>0, <2>1, <2>2, <2>3, <2>4, <3>1, LedgerCredit
  <2>5. CASE credits[e] # 0
    <3>1. \A w \in Users : byHand'.granted[w] =
             IF w = u THEN byHand.granted[u] + sent[e].cents ELSE byHand.granted[w]
      <4>1. Gift(u, sent[e].cents, {e})
        BY <1>2, <2>5 DEF Reconcile
      <4> HIDE DEF u
      <4>2. QED
        BY <1>0, <2>2, <4>1, GiftType
    <3>2. \A w \in Users : account'[w].balance =
             IF w = u THEN account[u].balance + sent[e].cents ELSE account[w].balance
      BY <1>0, <2>2, <2>3
    <3> HIDE DEF u
    <3>3. \A w \in Users : account'[w].balance - byHand'.granted[w]
                               = account[w].balance - byHand.granted[w]
      BY <1>0, <2>2, <3>1, <3>2 DEF Account, ByHand
    <3>4. [w \in Users |-> account[w].balance - byHand.granted[w]]'
             = [w \in Users |-> account[w].balance - byHand.granted[w]]
      BY <3>3
    <3>5. {f \in Events : credits'[f] > 0} = {f \in Events : credits[f] > 0}
      <4>1. credits \in [Events -> Nat]
        BY <1>0 DEF TypeOK
      <4>2. QED
        BY <2>1, <2>5, <4>1
    <3>6. QED
      BY <2>1, <3>4, <3>5 DEF Ledger!vars
  <2>6. QED
    BY <2>4, <2>5
<1>3. CASE ApplyEvent
  <2> DEFINE e == handler.event
             u == Correlate(sent[e])
             v == Verdict(sent[e], u)
  <2>1. e \in Events /\ sent[e] \in Payload /\ credits[e] = 0 /\ UNCHANGED <<sent, byHand>>
    BY <1>0, <1>3 DEF ApplyEvent, Credit, Subscribe, HandlerInv, GateInv, TypeOK
  <2>2. sent[e] # None /\ u \in Users \cup {None}
    BY <1>0, <2>1, CorrelateType
  <2>3. CASE v = "credited" /\ Credit(e, sent[e], u)
    <3>1. u \in Users /\ sent[e].cents > 0 /\ sent[e].cents \in Int
      BY <2>1, <2>2, <2>3, VerdictType DEF Payload
    <3>2. /\ credits' = [credits EXCEPT ![e] = @ + 1]
          /\ account' = [account EXCEPT ![u] = Funded(account[u], sent[e].cents)]
      BY <2>3 DEF Credit
    <3> HIDE DEF e, u
    <3>3. PICK a \in Account : /\ a.balance = account[u].balance + sent[e].cents
                               /\ account' = [account EXCEPT ![u] = a]
      <4>1. account[u] \in Account
        BY <1>0, <3>1
      <4>2. QED
        BY <3>1, <3>2, <4>1, FundedType
    <3>4. QED
      BY <1>0, <2>1, <2>2, <3>1, <3>2, <3>3, LedgerCredit
  <2>4. CASE v = "subscribed" /\ Subscribe(e, sent[e], u)
    <3>1. u \in Users
      BY <2>1, <2>2, <2>4, VerdictType
    <3>2. /\ UNCHANGED credits
          /\ \/ account' = [account EXCEPT ![u] = Enrolled(@)]
             \/ account' = [account EXCEPT ![u].expiry = "live"]
             \/ account' = [account EXCEPT ![u].expiry = "lapsed"]
             \/ UNCHANGED account
      BY <2>4 DEF Subscribe
    <3>3. \A w \in Users : account'[w].balance = account[w].balance
      <4>1. account \in [Users -> Account]
        BY <1>0 DEF TypeOK
      <4> HIDE DEF u
      <4>2. QED
        BY <3>1, <3>2, <4>1 DEF Enrolled, Account
    <3>4. QED
      BY <2>1, <3>2, <3>3, LedgerStutter
  <2>5. CASE UNCHANGED <<account, checkout, subs, history>>
    BY <2>1, <2>5, LedgerStutter
  <2>6. QED
    BY <1>3, <2>3, <2>4, <2>5 DEF ApplyEvent
<1>g. ASSUME NEW u \in Users, OperatorSignup(u) \/ Grant(u) PROVE UNCHANGED Ledger!vars
  <2>1. \A w \in Users : account'[w].balance - byHand'.granted[w]
                             = account[w].balance - byHand.granted[w]
    <3>1. CASE OperatorSignup(u)
      <4>1. \A w \in Users : byHand'.granted[w] = byHand.granted[w]
        BY <1>0, <3>1 DEF OperatorSignup, Gift, ByHand
      <4>2. QED
        BY <1>0, <3>1, <4>1 DEF OperatorSignup, Account
    <3>2. CASE Grant(u)
      <4>1. \A w \in Users : byHand'.granted[w] =
               IF w = u THEN byHand.granted[u] + GrantCents ELSE byHand.granted[w]
        <5>1. Gift(u, GrantCents, {}) /\ GrantCents \in Int
          BY <3>2 DEF Grant, GrantCents
        <5>2. QED
          BY <1>0, <5>1, GiftType
      <4>2. \A w \in Users : account'[w].balance =
               IF w = u THEN account[u].balance + GrantCents ELSE account[w].balance
        BY <1>0, <3>2 DEF Grant, SetActive
      <4>3. QED
        BY <1>0, <4>1, <4>2 DEF Account, GrantCents, ByHand
    <3>3. QED
      BY <1>g, <3>1, <3>2
  <2>2. UNCHANGED <<sent, credits>>
    BY <1>g DEF OperatorSignup, Grant
  <2>3. QED
    BY <2>1, <2>2, LedgerStutter
<1>4. ASSUME NEW u \in Users, Signup(u) \/ Suspend(u) PROVE UNCHANGED Ledger!vars
  <2>1. \A w \in Users : account'[w].balance = account[w].balance
    <3>1. account \in [Users -> Account]
      BY <1>0 DEF TypeOK
    <3>2. \/ account' = [account EXCEPT ![u].status = "pending"]
          \/ account' = [account EXCEPT ![u].status = "suspended"]
      BY <1>4 DEF Signup, Suspend
    <3>3. QED
      BY <3>1, <3>2 DEF Account
  <2>2. QED
    BY <1>4, <2>1, LedgerStutter DEF Signup, Suspend, history
<1>5. CASE \/ \E u \in Users, s \in Sessions : CreateSession(u, s)
           \/ \E s \in Sessions : InsertCheckout(s)
           \/ \E e \in Events : Deliver(e) \/ Redeliver(e)
           \/ InsertEvent \/ MarkEvent \/ MarkError
           \/ InsertFails \/ StatementFails \/ MarkErrorFails \/ Crash
           \/ UNCHANGED vars
  <2>1. UNCHANGED <<account, sent, credits, byHand>>
    BY <1>5 DEF CreateSession, InsertCheckout, Deliver, Redeliver, Begin, InsertEvent, MarkEvent,
       MarkError, InsertFails, StatementFails, MarkErrorFails, Crash, vars
  <2>2. QED
    BY <2>1, LedgerStutter
<1>6. QED
  BY <1>1, <1>2, <1>3, <1>g, <1>4, <1>5, GrantAssumption DEF Next

\* The handler and the operator together credit each announced event at most
\* once, to one account, by its amount, and nothing else moves a balance but
\* what the operator gives by hand for no payment.
THEOREM Refinement == Spec => ImplementsLedger
<1>1. Init => LedgerInv
  BY InitTInv, NoneAssumption
     DEF Init, LedgerInv, UnsentInv, OnceInv, GateInv, CreditedAtMostOnce, Idle
<1>2. LedgerInv /\ [Next]_vars => LedgerInv'
  BY NextTInv, NextGate, NextUnsent DEF LedgerInv, OnceInv
<1>3. Init => Ledger!Init
  BY DEF Init, Ledger!Init
<1>4. LedgerInv /\ [Next]_vars => [Ledger!Next]_(Ledger!vars)
  BY LedgerStep
<1>5. QED
  BY <1>1, <1>2, <1>3, <1>4, PTL DEF Spec, ImplementsLedger, Ledger!Spec

-----------------------------------------------------------------------------
(***************************************************************************)
(* The mark.  A creditable payment is credited or uncorrelated, never      *)
(* flagged or logged, so that the mark that closes its row follows its     *)
(* credit.                                                                 *)
(***************************************************************************)
MarkInv ==
    /\ handler.pc = "mark" /\ handler.verdict # "uncorrelated" /\ Creditable(handler.event)
          => credits[handler.event] > 0
    /\ ProcessedMeansCredited

PaidInv == LedgerInv /\ MarkInv

LEMMA CreditableVerdict ==
    ASSUME NEW p \in Payload, NEW u,
           p.type = "payment.succeeded", p.usd, p.cents > 0
    PROVE  Verdict(p, u) = IF u = None THEN "uncorrelated" ELSE "credited"
  BY DEF Verdict, SubTypes, Payload

LEMMA NextMark ==
    ASSUME PaidInv, LedgerInv', [Next]_vars
    PROVE  MarkInv'
<1> USE NoneAssumption DEF history
<1>0. /\ rows \in [Events -> {None} \cup Row] /\ credits \in [Events -> Nat]
      /\ sent \in [Events -> {None} \cup Payload]
      /\ handler \in [pc : {"idle", "insert", "apply", "mark", "fail"}, event : Events \cup {None},
                      user : Users \cup {None}, verdict : Verdicts]
      /\ handler.pc # "idle" => handler.event \in Events /\ dodo[handler.event] # "unsent"
      /\ handler.pc \in {"apply", "mark", "fail"} =>
           rows[handler.event] \in Row /\ ~rows[handler.event].processed
      /\ GateInv /\ UnsentInv /\ MarkInv
  BY DEF PaidInv, LedgerInv, OnceInv, TInv, TypeOK, HandlerInv, GateInv
\* A step that marks no row and credits nothing.
<1>1. ASSUME UNCHANGED <<sent, rows, credits>>, handler'.pc = "mark" => UNCHANGED handler
      PROVE  MarkInv'
  BY <1>0, <1>1 DEF MarkInv, ProcessedMeansCredited, Creditable
<1>2. CASE \/ \E u \in Users : Signup(u) \/ OperatorSignup(u) \/ Grant(u) \/ Suspend(u)
           \/ \E u \in Users, s \in Sessions : CreateSession(u, s)
           \/ \E s \in Sessions : InsertCheckout(s)
           \/ UNCHANGED vars
  BY <1>1, <1>2 DEF Signup, OperatorSignup, Grant, Suspend, CreateSession, InsertCheckout, vars
<1>3. CASE (\E e \in Events : Deliver(e) \/ Redeliver(e)) \/ InsertFails \/ MarkErrorFails
           \/ Crash \/ StatementFails
  <2>1. UNCHANGED <<sent, rows, credits>>
    BY <1>3 DEF Deliver, Redeliver, Begin, InsertFails, MarkErrorFails, Crash, StatementFails
  <2>2. handler'.pc # "mark"
    <3>1. ASSUME NEW e \in Events, Begin(e) PROVE handler'.pc # "mark"
      <4>1. handler' = [pc |-> "insert", event |-> e, user |-> None, verdict |-> "none"]
        BY <3>1 DEF Begin, Idle
      <4>2. QED
        BY <4>1
    <3>2. CASE InsertFails \/ MarkErrorFails \/ Crash \/ StatementFails
      BY <1>0, <3>2 DEF InsertFails, MarkErrorFails, Crash, StatementFails, Idle
    <3>3. QED
      BY <1>3, <3>1, <3>2 DEF Deliver, Redeliver
  <2>3. QED
    BY <1>1, <2>1, <2>2
<1>4. ASSUME NEW e \in Events, (\E s \in Sessions, shape \in Payments : EmitPayment(e, s, shape))
                                 \/ (\E p \in SubNotices : EmitSubscription(e, p))
      PROVE  MarkInv'
  <2>1. /\ dodo[e] = "unsent" /\ UNCHANGED <<rows, credits, handler>>
        /\ \A f \in Events \ {e} : sent'[f] = sent[f]
    BY <1>0, <1>4 DEF EmitPayment, EmitSubscription
  <2>2. rows[e] = None /\ (handler.pc = "mark" => handler.event \in Events \ {e})
    BY <1>0, <2>1 DEF UnsentInv
  <2>3. QED
    BY <1>0, <2>1, <2>2 DEF MarkInv, ProcessedMeansCredited, Creditable
<1>5. ASSUME NEW e \in Events, Reconcile(e) PROVE MarkInv'
  <2>1. /\ handler.pc = "idle" /\ UNCHANGED <<handler, sent>>
        /\ credits' = [credits EXCEPT ![e] = @ + 1]
        /\ \A f \in Events \ {e} : rows'[f] = rows[f]
    BY <1>0, <1>5 DEF Reconcile
  <2>2. credits'[e] > 0 /\ \A f \in Events \ {e} : credits'[f] = credits[f]
    BY <1>0, <2>1
  <2>3. QED
    BY <1>0, <2>1, <2>2 DEF MarkInv, ProcessedMeansCredited, Creditable
<1>6. CASE InsertEvent
  <2> DEFINE e == handler.event
  <2>1. /\ e \in Events /\ UNCHANGED <<sent, credits>> /\ handler.pc = "insert"
        /\ \/ rows' = [rows EXCEPT ![e] = NewRow] /\ handler' = [handler EXCEPT !.pc = "apply"]
           \/ UNCHANGED rows /\ handler' = Idle
    BY <1>0, <1>6 DEF InsertEvent, Answer200
  <2>2. ~NewRow.processed /\ handler'.pc # "mark"
    BY <1>0, <2>1 DEF NewRow, Idle
  <2>3. QED
    BY <1>0, <2>1, <2>2 DEF MarkInv, ProcessedMeansCredited, Creditable
<1>7. CASE ApplyEvent
  <2> DEFINE e == handler.event
             u == Correlate(sent[e])
             v == Verdict(sent[e], u)
  <2>1. /\ e \in Events /\ handler.pc = "apply" /\ UNCHANGED <<rows, sent>>
        /\ handler' = [handler EXCEPT !.pc = "mark", !.user = u, !.verdict = v]
        /\ \/ v = "credited" /\ credits' = [credits EXCEPT ![e] = @ + 1]
           \/ v # "credited" /\ UNCHANGED credits
    BY <1>0, <1>7 DEF ApplyEvent, Credit, Subscribe
  <2>2. credits[e] = 0 /\ ~rows[e].processed
    BY <1>0, <2>1 DEF GateInv
  <2>3. sent[e] # None => sent[e] \in Payload
    BY <1>0, <2>1
  <2>4. Creditable(e) => v \in {"credited", "uncorrelated"}
    BY <2>3, CreditableVerdict DEF Creditable
  <2> HIDE DEF u, v
  <2>5. handler'.pc = "mark" /\ handler'.event = e /\ handler'.verdict = v
    BY <1>0, <2>1
  <2>6. v = "credited" => credits'[e] > 0
    BY <1>0, <2>1, <2>2
  <2>7. \A f \in Events \ {e} : credits'[f] = credits[f]
    BY <1>0, <2>1
  <2>8. ProcessedMeansCredited'
    BY <1>0, <2>1, <2>2, <2>7 DEF MarkInv, ProcessedMeansCredited, Creditable
  <2>9. QED
    BY <2>1, <2>4, <2>5, <2>6, <2>8 DEF MarkInv, Creditable
<1>8. CASE MarkEvent
  <2> DEFINE e == handler.event
  <2>1. /\ e \in Events /\ handler.pc = "mark" /\ UNCHANGED <<sent, credits>> /\ handler' = Idle
        /\ \A f \in Events \ {e} : rows'[f] = rows[f]
        /\ rows'[e] = Marked(rows[e], handler.user, handler.verdict)
    BY <1>0, <1>8 DEF MarkEvent, Answer200
  <2>2. rows'[e].processed => handler.verdict # "uncorrelated"
    BY <1>0, <2>1 DEF Marked, Row
  <2>3. QED
    BY <1>0, <2>1, <2>2 DEF MarkInv, ProcessedMeansCredited, Creditable, Idle
<1>9. CASE MarkError
  <2> DEFINE e == handler.event
  <2>1. /\ e \in Events /\ UNCHANGED <<sent, credits>> /\ handler' = Idle
        /\ \A f \in Events \ {e} : rows'[f] = rows[f]
        /\ ~rows'[e].processed
    <3>1. rows' = [rows EXCEPT ![handler.event].error = "db"] /\ handler.pc = "fail"
      BY <1>9 DEF MarkError
    <3>2. QED
      BY <1>0, <1>9, <3>1 DEF MarkError, Row
  <2>2. QED
    BY <1>0, <2>1 DEF MarkInv, ProcessedMeansCredited, Creditable, Idle
<1>10. QED
  BY <1>2, <1>3, <1>4, <1>5, <1>6, <1>7, <1>8, <1>9, GrantAssumption DEF Next

\* No crash, failing statement or manual reconciliation leaves a row marked
\* processed whose payment was owed and not credited.
THEOREM MarkFollowsCredit == Spec => []ProcessedMeansCredited
<1>1. Init => PaidInv
  BY InitTInv, NoneAssumption
     DEF Init, PaidInv, MarkInv, ProcessedMeansCredited, LedgerInv, UnsentInv, OnceInv, GateInv,
         CreditedAtMostOnce, Idle
<1>2. PaidInv /\ [Next]_vars => PaidInv'
  BY NextTInv, NextGate, NextUnsent, NextMark DEF PaidInv, LedgerInv, OnceInv
<1>3. PaidInv => ProcessedMeansCredited
  BY DEF PaidInv, MarkInv
<1>4. QED
  BY <1>1, <1>2, <1>3, PTL DEF Spec

-----------------------------------------------------------------------------
(***************************************************************************)
(* Suspension.                                                             *)
(***************************************************************************)
StaySuspended ==
    \A u \in Users : account[u].status = "suspended" => account'[u].status = "suspended"

\* The handler writes a status in one step only, and there keeps a suspension.
LEMMA NextSuspended == TInv /\ [Next]_vars => handler' = handler \/ StaySuspended
<1> SUFFICES ASSUME TInv, [Next]_vars PROVE handler' = handler \/ StaySuspended
  OBVIOUS
<1> USE NoneAssumption DEF history
<1>0. TypeOK /\ account \in [Users -> Account]
  BY DEF TInv, TypeOK
<1>1. CASE ApplyEvent
  <2> DEFINE e == handler.event
             u == Correlate(sent[e])
             v == Verdict(sent[e], u)
  <2>1. e \in Events /\ sent[e] \in Payload
    BY <1>1 DEF ApplyEvent, TInv, HandlerInv, TypeOK
  <2>2. u \in Users \cup {None}
    BY <2>1, CorrelateType DEF TInv
  <2>3. CASE v = "credited" /\ Credit(e, sent[e], u)
    <3>1. u \in Users /\ sent[e].cents \in Int
      BY <2>1, <2>2, <2>3, VerdictType DEF Payload
    <3>2. account' = [account EXCEPT ![u] = Funded(@, sent[e].cents)]
      BY <2>3 DEF Credit
    <3> HIDE DEF e, u
    <3>3. QED
      BY <1>0, <3>1, <3>2, FundedType DEF StaySuspended
  <2>4. CASE v = "subscribed" /\ Subscribe(e, sent[e], u)
    <3>1. \/ account' = [account EXCEPT ![u] = Enrolled(@)]
          \/ account' = [account EXCEPT ![u].expiry = "live"]
          \/ account' = [account EXCEPT ![u].expiry = "lapsed"]
          \/ UNCHANGED account
      BY <2>4 DEF Subscribe
    <3> HIDE DEF u
    <3>2. QED
      BY <1>0, <3>1 DEF Enrolled, Activated, Account, StaySuspended
  <2>5. CASE UNCHANGED <<account, checkout, subs, history>>
    BY <2>5 DEF StaySuspended
  <2>6. QED
    BY <1>1, <2>3, <2>4, <2>5 DEF ApplyEvent
<1>2. CASE UNCHANGED account
  BY <1>2 DEF StaySuspended
<1>3. CASE \/ \E e \in Events : Deliver(e) \/ Redeliver(e)
           \/ InsertEvent \/ MarkEvent \/ MarkError
           \/ InsertFails \/ StatementFails \/ MarkErrorFails \/ Crash
  BY <1>2, <1>3 DEF Deliver, Redeliver, Begin, InsertEvent, MarkEvent, MarkError, InsertFails,
     StatementFails, MarkErrorFails, Crash
\* The steps of the other parties leave the handler alone.
<1>4. CASE \/ \E u \in Users : Signup(u) \/ OperatorSignup(u) \/ Grant(u) \/ Suspend(u)
           \/ \E u \in Users, s \in Sessions : CreateSession(u, s)
           \/ \E s \in Sessions : InsertCheckout(s)
           \/ \E e \in Events, s \in Sessions, shape \in Payments : EmitPayment(e, s, shape)
           \/ \E e \in Events, p \in SubNotices : EmitSubscription(e, p)
           \/ \E e \in Events : Reconcile(e)
           \/ UNCHANGED vars
  BY <1>4 DEF Signup, OperatorSignup, Grant, Suspend, CreateSession, InsertCheckout, EmitPayment,
     EmitSubscription, Reconcile, vars
<1>5. QED
  BY <1>1, <1>3, <1>4, GrantAssumption DEF Next

\* Nothing the handler does, with any event and whatever the operator did
\* before, brings a suspended account back.
THEOREM SuspendedForGood == Spec => NeverResurrected
<1>1. TInv /\ [Next]_vars =>
        [handler' # handler =>
           \A u \in Users : account[u].status = "suspended" => account'[u].status = "suspended"]_vars
  BY NextSuspended DEF StaySuspended
<1>2. QED
  BY <1>1, InitTInv, NextTInv, PTL DEF Spec, NeverResurrected

-----------------------------------------------------------------------------
(***************************************************************************)
(* The reference.  The verdict "uncorrelated" is taken when the event is   *)
(* applied and written to its row when it is marked; in between it is in   *)
(* the handler.                                                            *)
(***************************************************************************)
Echoes(e) == paidFor[e] # None /\ (sent[e].meta # None \/ sent[e].session # None)

EchoInv ==
    /\ \A e \in Events : rows[e] # None /\ rows[e].error = "uncorrelated" => ~Echoes(e)
    /\ handler.pc = "mark" /\ handler.verdict = "uncorrelated" => ~Echoes(handler.event)
    /\ UnsentInv

\* The handler of a payment that names its payer or its session finds the
\* account, so it never takes the verdict "uncorrelated".
LEMMA NextEcho == TInv /\ EchoInv /\ [Next]_vars => EchoInv'
<1> SUFFICES ASSUME TInv, EchoInv, [Next]_vars PROVE EchoInv'
  OBVIOUS
<1> USE NoneAssumption DEF history
<1>0. /\ rows \in [Events -> {None} \cup Row] /\ sent \in [Events -> {None} \cup Payload]
      /\ handler \in [pc : {"idle", "insert", "apply", "mark", "fail"}, event : Events \cup {None},
                      user : Users \cup {None}, verdict : Verdicts]
      /\ handler.pc # "idle" => handler.event \in Events /\ dodo[handler.event] # "unsent"
      /\ handler.pc \in {"apply", "mark", "fail"} => rows[handler.event] \in Row
  BY DEF TInv, TypeOK, HandlerInv
<1>n. UnsentInv'
  BY NextUnsent DEF EchoInv
\* A step that writes no row and takes no verdict.
<1>1. ASSUME UNCHANGED <<sent, paidFor, rows>>, handler'.pc = "mark" => UNCHANGED handler
      PROVE  EchoInv'
  BY <1>n, <1>1 DEF EchoInv, Echoes
\* A step that writes the row of one event, and takes no verdict.
<1>2. ASSUME NEW e \in Events, UNCHANGED <<sent, paidFor>>,
             \A f \in Events \ {e} : rows'[f] = rows[f],
             rows'[e] # None /\ rows'[e].error = "uncorrelated" => ~Echoes(e),
             handler'.pc = "mark" => UNCHANGED handler
      PROVE  EchoInv'
  BY <1>n, <1>2 DEF EchoInv, Echoes
<1>3. CASE \/ \E u \in Users : Signup(u) \/ OperatorSignup(u) \/ Grant(u) \/ Suspend(u)
           \/ \E u \in Users, s \in Sessions : CreateSession(u, s)
           \/ \E s \in Sessions : InsertCheckout(s)
           \/ UNCHANGED vars
  BY <1>1, <1>3 DEF Signup, OperatorSignup, Grant, Suspend, CreateSession, InsertCheckout, vars
<1>4. CASE (\E e \in Events : Deliver(e) \/ Redeliver(e)) \/ InsertFails \/ MarkErrorFails
           \/ Crash \/ StatementFails
  <2>1. UNCHANGED <<sent, paidFor, rows>>
    BY <1>4 DEF Deliver, Redeliver, Begin, InsertFails, MarkErrorFails, Crash, StatementFails
  <2>2. handler'.pc # "mark"
    <3>1. ASSUME NEW e \in Events, Begin(e) PROVE handler'.pc # "mark"
      <4>1. handler' = [pc |-> "insert", event |-> e, user |-> None, verdict |-> "none"]
        BY <3>1 DEF Begin, Idle
      <4>2. QED
        BY <4>1
    <3>2. CASE InsertFails \/ MarkErrorFails \/ Crash \/ StatementFails
      BY <1>0, <3>2 DEF InsertFails, MarkErrorFails, Crash, StatementFails, Idle
    <3>3. QED
      BY <1>4, <3>1, <3>2 DEF Deliver, Redeliver
  <2>3. QED
    BY <1>1, <2>1, <2>2
<1>5. ASSUME NEW e \in Events, (\E s \in Sessions, shape \in Payments : EmitPayment(e, s, shape))
                                 \/ (\E p \in SubNotices : EmitSubscription(e, p))
      PROVE  EchoInv'
  <2>1. /\ dodo[e] = "unsent" /\ UNCHANGED <<rows, handler>>
        /\ \A f \in Events \ {e} : sent'[f] = sent[f] /\ paidFor'[f] = paidFor[f]
    BY <1>0, <1>5 DEF EmitPayment, EmitSubscription, TInv, TypeOK
  <2>2. rows[e] = None /\ (handler.pc = "mark" => handler.event \in Events \ {e})
    BY <1>0, <2>1 DEF EchoInv, UnsentInv
  <2>3. QED
    BY <1>n, <2>1, <2>2 DEF EchoInv, Echoes
<1>6. ASSUME NEW e \in Events, Reconcile(e) PROVE EchoInv'
  <2> DEFINE u == checkout[paidFor[e]].owner
  <2>1. /\ rows' = [rows EXCEPT ![e].processed = TRUE, ![e].user = u] /\ rows[e] # None
        /\ UNCHANGED <<sent, paidFor, handler>>
    BY <1>6 DEF Reconcile
  <2> HIDE DEF u
  <2>2. rows'[e].error = rows[e].error /\ \A f \in Events \ {e} : rows'[f] = rows[f]
    BY <1>0, <2>1 DEF Row
  <2>3. QED
    BY <1>2, <2>1, <2>2 DEF EchoInv
<1>7. CASE InsertEvent
  <2> DEFINE e == handler.event
  <2>1. /\ e \in Events /\ UNCHANGED <<sent, paidFor>>
        /\ \/ rows' = [rows EXCEPT ![e] = NewRow] /\ handler' = [handler EXCEPT !.pc = "apply"]
           \/ UNCHANGED rows /\ handler' = Idle
    BY <1>0, <1>7 DEF InsertEvent, Answer200
  <2>2. NewRow.error = None /\ handler'.pc # "mark"
    BY <1>0, <2>1 DEF NewRow, Idle
  <2>3. QED
    BY <1>0, <1>1, <1>2, <2>1, <2>2
<1>8. CASE ApplyEvent
  <2> DEFINE e == handler.event
             u == Correlate(sent[e])
             v == Verdict(sent[e], u)
  <2>1. /\ e \in Events /\ sent[e] \in Payload /\ UNCHANGED <<rows, sent, paidFor>>
        /\ handler' = [handler EXCEPT !.pc = "mark", !.user = u, !.verdict = v]
    BY <1>0, <1>8 DEF ApplyEvent, Credit, Subscribe, TInv, HandlerInv
  <2>2. Echoes(e) => v # "uncorrelated"
    <3>1. SUFFICES ASSUME Echoes(e) PROVE u # None
      BY DEF Verdict
    <3>2. u = checkout[paidFor[e]].owner
      BY <2>1, <3>1, EchoCorrelates DEF Echoes
    <3>3. checkout[paidFor[e]].owner # None
      BY <2>1, <3>1 DEF Echoes, TInv, TypeOK, SessionInv, HasRow, Exists
    <3>4. QED
      BY <3>2, <3>3
  <2> HIDE DEF u, v
  <2>3. handler'.pc = "mark" /\ handler'.event = e /\ handler'.verdict = v
    BY <1>0, <2>1
  <2>4. QED
    BY <1>n, <2>1, <2>2, <2>3 DEF EchoInv, Echoes
<1>9. CASE MarkEvent
  <2> DEFINE e == handler.event
  <2>1. /\ e \in Events /\ handler.pc = "mark" /\ UNCHANGED <<sent, paidFor>> /\ handler' = Idle
        /\ \A f \in Events \ {e} : rows'[f] = rows[f]
        /\ rows'[e] = Marked(rows[e], handler.user, handler.verdict)
    BY <1>0, <1>9 DEF MarkEvent, Answer200
  <2>2. rows'[e].error = "uncorrelated" =>
           handler.verdict = "uncorrelated" \/ rows[e].error = "uncorrelated"
    <3>1. rows[e] \in Row
      BY <1>0, <2>1
    <3>2. QED
      BY <2>1, <3>1 DEF Marked, Row
  <2>3. rows[e] # None
    BY <1>0, <2>1
  <2>4. QED
    BY <1>2, <2>1, <2>2, <2>3 DEF EchoInv, Idle
<1>10. CASE MarkError
  <2> DEFINE e == handler.event
  <2>1. /\ e \in Events /\ UNCHANGED <<sent, paidFor>> /\ handler' = Idle
        /\ rows' = [rows EXCEPT ![e].error = "db"] /\ rows[e] \in Row
    BY <1>0, <1>10 DEF MarkError
  <2>2. rows'[e].error = "db" /\ \A f \in Events \ {e} : rows'[f] = rows[f]
    BY <1>0, <2>1 DEF Row
  <2>3. QED
    BY <1>2, <2>1, <2>2 DEF Idle
<1>11. QED
  BY <1>3, <1>4, <1>5, <1>6, <1>7, <1>8, <1>9, <1>10, GrantAssumption DEF Next

\* A payment whose payload still names the account or the checkout session is
\* never left for the operator as uncorrelated, whatever the dashboard, the
\* faults and the redeliveries do: the row of the session precedes its URL.
THEOREM EchoedReference == Spec => []EchoedReferenceCorrelates
<1>1. Init => TInv /\ EchoInv
  BY InitTInv DEF Init, EchoInv, UnsentInv, Idle
<1>2. TInv /\ EchoInv /\ [Next]_vars => TInv' /\ EchoInv'
  BY NextTInv, NextEcho
<1>3. EchoInv => EchoedReferenceCorrelates
  BY DEF EchoInv, Echoes, EchoedReferenceCorrelates
<1>4. QED
  BY <1>1, <1>2, <1>3, PTL DEF Spec

-----------------------------------------------------------------------------
(***************************************************************************)
(* The application.  An event is applied first to one account: by the      *)
(* handler that inserted its row, or by the operator who finds it          *)
(* unprocessed and uncredited.  So the account an event was applied to     *)
(* stays a witness of what it brought.                                     *)
(***************************************************************************)
AppliedInv ==
    /\ \A e \in Events : rows[e] = None => appliedTo[e] = None
    /\ handler.pc = "apply" => appliedTo[handler.event] = None
    /\ \A e \in Events : appliedTo[e] # None => credits[e] > 0 \/ sent[e].type \in SubTypes

\* What opens the gate for an account.
Funds(p) == \/ p.type \in {"subscription.active", "subscription.renewed"}
            \/ p.type = "payment.succeeded" /\ p.usd /\ p.cents > 0

\* Applying an event: to one account, for the first time, activating it only
\* by funds and closing at most one of its checkouts.
Applies(e, u) ==
    /\ appliedTo[e] = None
    /\ appliedTo' = [appliedTo EXCEPT ![e] = u]
    /\ UNCHANGED <<sent, dodo>>
    /\ dodo[e] # "unsent"
    /\ \A w \in Users \ {u} : account'[w] = account[w]
    /\ account'[u].status = "active" => account[u].status = "active" \/ Funds(sent[e])
    /\ CompleteNewestCheckout(u) \/ UNCHANGED checkout
    /\ UNCHANGED byHand

\* Any other step applies nothing, completes nothing and activates only the
\* accounts the operator opens.
AppliesNothing ==
    /\ UNCHANGED appliedTo
    /\ \A e \in Events : dodo[e] # "unsent" => sent'[e] = sent[e]
    /\ byHand.opened \subseteq byHand'.opened
    /\ \A u \in Users \ byHand'.opened : account'[u].status = "active" => account[u].status = "active"
    /\ \A s \in Sessions : checkout'[s].state = "completed" <=> checkout[s].state = "completed"
    /\ \A s \in Sessions : checkout[s].state # "none" => checkout'[s].owner = checkout[s].owner

LEMMA CreditedFunds ==
    ASSUME NEW p \in Payload, NEW u, Verdict(p, u) = "credited"
    PROVE  p.type = "payment.succeeded" /\ p.usd /\ p.cents > 0
<1>1. p.type \in PaymentTypes \cup SubTypes /\ p.usd \in BOOLEAN /\ p.cents \in Int
  BY DEF Payload
<1>2. p.type \notin SubTypes
  BY VerdictType
<1>3. p.type = "payment.succeeded"
  BY <1>2 DEF Verdict
<1>4. ~(~p.usd \/ p.cents <= 0)
  BY <1>2, <1>3 DEF Verdict
<1>5. QED
  BY <1>1, <1>3, <1>4

\* The two kinds of step are all there are.
LEMMA StepsApply ==
    ASSUME OnceInv, AppliedInv, [Next]_vars
    PROVE  AppliesNothing \/ \E e \in Events, u \in Users : Applies(e, u)
<1> USE NoneAssumption DEF history
<1>0. /\ TypeOK /\ SessionInv /\ HandlerInv /\ GateInv
      /\ account \in [Users -> Account] /\ sent \in [Events -> {None} \cup Payload]
      /\ appliedTo \in [Events -> Users \cup {None}]
      /\ checkout \in [Sessions -> [state : {"none", "created", "open", "completed"},
                                   owner : Users \cup {None}, at : Nat]]
      /\ byHand \in ByHand
  BY DEF OnceInv, TInv, TypeOK
<1>1. ASSUME NEW u \in Users, Signup(u) \/ Suspend(u) PROVE AppliesNothing
  <2>1. \/ account' = [account EXCEPT ![u].status = "pending"]
        \/ account' = [account EXCEPT ![u].status = "suspended"]
    BY <1>1 DEF Signup, Suspend
  <2>2. \A w \in Users : account'[w].status = "active" => account[w].status = "active"
    BY <1>0, <2>1 DEF Account
  <2>3. QED
    BY <1>1, <2>2 DEF Signup, Suspend, AppliesNothing
<1>g. ASSUME NEW u \in Users, OperatorSignup(u) \/ Grant(u) PROVE AppliesNothing
  <2>1. /\ byHand'.opened = byHand.opened \cup {u}
        /\ \A w \in Users \ {u} : account'[w] = account[w]
        /\ UNCHANGED <<sent, checkout, appliedTo>>
    BY <1>0, <1>g DEF OperatorSignup, Grant, Gift
  <2>2. QED
    BY <2>1 DEF AppliesNothing
<1>2. ASSUME NEW u \in Users, NEW s \in Sessions, CreateSession(u, s) PROVE AppliesNothing
  BY <1>0, <1>2 DEF CreateSession, AppliesNothing
<1>3. ASSUME NEW s \in Sessions, InsertCheckout(s) PROVE AppliesNothing
  <2> DEFINE n == 1 + Cardinality({t \in Sessions : HasRow(t)})
  <2>1. /\ checkout[s].state = "created"
        /\ checkout' = [checkout EXCEPT ![s].state = "open", ![s].at = n]
    BY <1>3 DEF InsertCheckout
  <2> HIDE DEF n
  <2>2. \A t \in Sessions : /\ checkout'[t].owner = checkout[t].owner
                            /\ checkout'[t].state = "completed" <=> checkout[t].state = "completed"
    BY <1>0, <2>1
  <2>3. QED
    BY <1>3, <2>2 DEF InsertCheckout, AppliesNothing
<1>4. ASSUME NEW e \in Events, (\E s \in Sessions, shape \in Payments : EmitPayment(e, s, shape))
                                 \/ (\E p \in SubNotices : EmitSubscription(e, p))
      PROVE  AppliesNothing
  BY <1>0, <1>4 DEF EmitPayment, EmitSubscription, AppliesNothing
<1>5. ASSUME NEW e \in Events, Reconcile(e)
      PROVE  AppliesNothing \/ \E u \in Users : Applies(e, u)
  <2> DEFINE u == checkout[paidFor[e]].owner
  <2>1. /\ paidFor[e] # None
        /\ sent[e].type = "payment.succeeded" /\ sent[e].usd /\ sent[e].cents > 0
        /\ account' = [account EXCEPT ![u] = SetActive(@, sent[e].cents)]
        /\ UNCHANGED <<checkout, sent, dodo>>
    BY <1>5 DEF Reconcile
  <2>2. u \in Users /\ dodo[e] # "unsent"
    BY <1>0, <2>1 DEF TypeOK, SessionInv, HandlerInv, HasRow, Exists
  <2>3. \A w \in Users \ {u} : account'[w] = account[w]
    <3> HIDE DEF u
    <3> QED BY <1>0, <2>1
  <2>4. CASE credits[e] = 0
    <3>1. appliedTo' = [appliedTo EXCEPT ![e] = u] /\ UNCHANGED byHand
      BY <1>5, <2>4 DEF Reconcile
    <3>2. sent[e].type \notin SubTypes
      BY <2>1 DEF SubTypes
    <3>3. appliedTo[e] = None
      BY <2>4, <3>2 DEF AppliedInv
    <3>4. Funds(sent[e])
      BY <2>1 DEF Funds
    <3> HIDE DEF u
    <3>5. QED
      BY <2>1, <2>2, <2>3, <3>1, <3>3, <3>4 DEF Applies
  <2>5. CASE credits[e] # 0
    <3>1. byHand'.opened = byHand.opened \cup {u} /\ UNCHANGED appliedTo
      BY <1>0, <1>5, <2>5 DEF Reconcile, Gift
    <3> HIDE DEF u
    <3>2. QED
      BY <2>1, <2>3, <3>1 DEF AppliesNothing
  <2>6. QED
    BY <2>4, <2>5
<1>6. CASE ApplyEvent
  <2> DEFINE e == handler.event
             p == sent[e]
             u == Correlate(p)
             v == Verdict(p, u)
  <2>1. /\ e \in Events /\ p \in Payload /\ dodo[e] # "unsent" /\ UNCHANGED <<sent, dodo>>
        /\ appliedTo[e] = None
    BY <1>0, <1>6 DEF ApplyEvent, HandlerInv, AppliedInv
  <2>2. u \in Users \cup {None}
    BY <1>0, <2>1, CorrelateType
  <2>3. CASE v = "credited" /\ Credit(e, p, u)
    <3>1. u \in Users
      BY <2>1, <2>2, <2>3, VerdictType
    <3>2. Funds(p)
      <4> HIDE DEF p, u
      <4> QED BY <2>1, <2>3, CreditedFunds DEF v, Funds
    <3>3. /\ account' = [account EXCEPT ![u] = Funded(@, p.cents)]
          /\ appliedTo' = [appliedTo EXCEPT ![e] = u]
          /\ CompleteNewestCheckout(u)
          /\ UNCHANGED byHand
      BY <2>3 DEF Credit
    <3> HIDE DEF e, u
    <3>4. \A w \in Users \ {u} : account'[w] = account[w]
      BY <1>0, <3>1, <3>3
    <3>5. Applies(e, u)
      BY <2>1, <3>1, <3>2, <3>3, <3>4 DEF Applies
    <3>6. QED
      BY <2>1, <3>1, <3>5
  <2>4. CASE v = "subscribed" /\ Subscribe(e, p, u)
    <3>1. u \in Users
      BY <2>1, <2>2, <2>4, VerdictType
    <3>2. /\ appliedTo' = [appliedTo EXCEPT ![e] = u]
          /\ CompleteNewestCheckout(u) \/ UNCHANGED checkout
          /\ UNCHANGED byHand
      BY <2>4 DEF Subscribe
    <3>3. \/ Funds(p) /\ account' = [account EXCEPT ![u] = Enrolled(@)]
          \/ account' = [account EXCEPT ![u].expiry = "live"]
          \/ account' = [account EXCEPT ![u].expiry = "lapsed"]
          \/ UNCHANGED account
      BY <2>4 DEF Subscribe, ActivatingTypes, Funds
    <3> HIDE DEF e, p, u
    <3>4. /\ \A w \in Users \ {u} : account'[w] = account[w]
          /\ account'[u].status = "active" => account[u].status = "active" \/ Funds(p)
      BY <1>0, <3>1, <3>3 DEF Account
    <3>5. Applies(e, u)
      BY <2>1, <3>1, <3>2, <3>4 DEF Applies, p
    <3>6. QED
      BY <2>1, <3>1, <3>5
  <2>5. CASE UNCHANGED <<account, checkout, subs, history>>
    BY <2>1, <2>5 DEF AppliesNothing
  <2>6. QED
    BY <1>6, <2>3, <2>4, <2>5 DEF ApplyEvent
<1>7. CASE \/ \E e \in Events : Deliver(e) \/ Redeliver(e)
           \/ InsertEvent \/ MarkEvent \/ MarkError
           \/ InsertFails \/ StatementFails \/ MarkErrorFails \/ Crash
           \/ UNCHANGED vars
  <2>1. UNCHANGED <<account, checkout, sent, appliedTo, byHand>>
    BY <1>7 DEF Deliver, Redeliver, Begin, InsertEvent, MarkEvent, MarkError,
       InsertFails, StatementFails, MarkErrorFails, Crash, vars
  <2>2. QED
    BY <2>1 DEF AppliesNothing
<1>8. QED
  BY <1>1, <1>g, <1>2, <1>3, <1>4, <1>5, <1>6, <1>7, GrantAssumption DEF Next

\* Every step keeps what is known of the applied events.
LEMMA NextApplied ==
    ASSUME OnceInv, OnceInv', AppliedInv, [Next]_vars
    PROVE  AppliedInv'
<1> USE NoneAssumption DEF history
<1>0. /\ TypeOK /\ HandlerInv /\ GateInv /\ HandlerInv' /\ TypeOK'
      /\ rows \in [Events -> {None} \cup Row] /\ credits \in [Events -> Nat]
      /\ sent \in [Events -> {None} \cup Payload]
      /\ appliedTo \in [Events -> Users \cup {None}]
      /\ handler \in [pc : {"idle", "insert", "apply", "mark", "fail"}, event : Events \cup {None},
                      user : Users \cup {None}, verdict : Verdicts]
      /\ handler.pc # "idle" => handler.event \in Events
      /\ handler.pc \in {"apply", "mark", "fail"} => rows[handler.event] \in Row
  BY DEF OnceInv, TInv, TypeOK, HandlerInv
\* A step that applies nothing.
<1>1. ASSUME UNCHANGED <<appliedTo, credits>>,
             \A e \in Events : rows'[e] = None => rows[e] = None,
             \A e \in Events : dodo[e] # "unsent" => sent'[e] = sent[e],
             handler'.pc = "apply" => \/ UNCHANGED handler
                                      \/ handler'.event = handler.event
                                           /\ handler.event \in Events /\ rows[handler.event] = None
      PROVE  AppliedInv'
  BY <1>0, <1>1 DEF AppliedInv, HandlerInv
<1>2. CASE \/ \E u \in Users : Signup(u) \/ OperatorSignup(u) \/ Grant(u) \/ Suspend(u)
           \/ \E u \in Users, s \in Sessions : CreateSession(u, s)
           \/ \E s \in Sessions : InsertCheckout(s)
           \/ UNCHANGED vars
  BY <1>1, <1>2 DEF Signup, OperatorSignup, Grant, Suspend, CreateSession, InsertCheckout, vars
<1>3. CASE (\E e \in Events : Deliver(e) \/ Redeliver(e)) \/ InsertFails \/ MarkErrorFails
           \/ Crash \/ StatementFails
  <2>1. UNCHANGED <<sent, rows, credits, appliedTo>>
    BY <1>3 DEF Deliver, Redeliver, Begin, InsertFails, MarkErrorFails, Crash, StatementFails
  <2>2. handler'.pc # "apply"
    <3>1. ASSUME NEW e \in Events, Begin(e) PROVE handler'.pc # "apply"
      <4>1. handler' = [pc |-> "insert", event |-> e, user |-> None, verdict |-> "none"]
        BY <3>1 DEF Begin, Idle
      <4>2. QED
        BY <4>1
    <3>2. CASE InsertFails \/ MarkErrorFails \/ Crash \/ StatementFails
      BY <1>0, <3>2 DEF InsertFails, MarkErrorFails, Crash, StatementFails, Idle
    <3>3. QED
      BY <1>3, <3>1, <3>2 DEF Deliver, Redeliver
  <2>3. QED
    BY <1>1, <2>1, <2>2
<1>4. ASSUME NEW e \in Events, (\E s \in Sessions, shape \in Payments : EmitPayment(e, s, shape))
                                 \/ (\E p \in SubNotices : EmitSubscription(e, p))
      PROVE  AppliedInv'
  <2>1. /\ dodo[e] = "unsent" /\ UNCHANGED <<rows, credits, appliedTo, handler>>
        /\ \A f \in Events \ {e} : sent'[f] = sent[f]
    BY <1>0, <1>4 DEF EmitPayment, EmitSubscription
  <2>2. QED
    BY <1>1, <2>1
<1>5. ASSUME NEW e \in Events, Reconcile(e) PROVE AppliedInv'
  <2> DEFINE u == checkout[paidFor[e]].owner
  <2>1. /\ rows[e] # None /\ handler.pc = "idle" /\ UNCHANGED <<sent, handler>>
        /\ credits' = [credits EXCEPT ![e] = @ + 1]
        /\ appliedTo' = [appliedTo EXCEPT ![e] = u] \/ UNCHANGED appliedTo
        /\ rows' = [rows EXCEPT ![e].processed = TRUE, ![e].user = u]
    BY <1>5 DEF Reconcile
  <2> HIDE DEF u
  <2>2. /\ credits'[e] > 0 /\ rows'[e] # None
        /\ \A f \in Events \ {e} : /\ rows'[f] = rows[f] /\ credits'[f] = credits[f]
                                   /\ appliedTo'[f] = appliedTo[f]
    <3>1. rows[e] \in Row
      BY <1>0, <2>1
    <3>2. rows' \in [Events -> {None} \cup Row]
      BY <1>0 DEF TypeOK
    <3>3. rows'[e].processed = TRUE /\ rows'[e] = [rows[e] EXCEPT !.processed = TRUE, !.user = u]
      BY <1>0, <2>1, <3>1 DEF Row
    <3>4. rows'[e] # None
      <4>1. u \in Users \cup {None}
        <5>1. paidFor[e] \in Sessions
          BY <1>0, <1>5 DEF Reconcile, TypeOK
        <5>2. QED
          BY <1>0, <5>1 DEF TypeOK, u
      <4>2. rows'[e] \in Row
        BY <3>1, <3>3, <4>1 DEF Row
      <4>3. QED
        BY <4>2
    <3>5. QED
      BY <1>0, <2>1, <3>4
  <2>3. QED
    BY <2>1, <2>2 DEF AppliedInv
<1>6. CASE InsertEvent
  <2> DEFINE e == handler.event
  <2>1. /\ e \in Events /\ UNCHANGED <<sent, credits, appliedTo>>
        /\ \/ /\ rows' = [rows EXCEPT ![e] = NewRow] /\ rows[e] = None
              /\ handler' = [handler EXCEPT !.pc = "apply"]
           \/ UNCHANGED rows /\ handler' = Idle
    BY <1>0, <1>6 DEF InsertEvent, FirstDelivery, Answer200
  <2>2. QED
    BY <1>0, <1>1, <2>1 DEF Idle
<1>7. CASE ApplyEvent
  <2> DEFINE e == handler.event
             u == Correlate(sent[e])
             v == Verdict(sent[e], u)
  <2>1. /\ e \in Events /\ rows[e] # None /\ UNCHANGED <<rows, sent, dodo>>
        /\ handler' = [handler EXCEPT !.pc = "mark", !.user = u, !.verdict = v]
    BY <1>0, <1>7 DEF ApplyEvent
  <2>2. \/ credits' = [credits EXCEPT ![e] = @ + 1] /\ appliedTo' = [appliedTo EXCEPT ![e] = u]
        \/ /\ UNCHANGED credits /\ appliedTo' = [appliedTo EXCEPT ![e] = u]
           /\ sent[e].type \in SubTypes
        \/ UNCHANGED <<credits, appliedTo>>
    BY <1>7 DEF ApplyEvent, Credit, Subscribe, Verdict
  <2> HIDE DEF u, v
  <2>3. handler'.pc = "mark"
    BY <1>0, <2>1
  <2>4. \A f \in Events \ {e} : credits'[f] = credits[f] /\ appliedTo'[f] = appliedTo[f]
    BY <1>0, <2>2
  <2>5. appliedTo'[e] # None =>
           credits'[e] > 0 \/ sent[e].type \in SubTypes \/ UNCHANGED <<credits, appliedTo>>
    BY <1>0, <2>1, <2>2
  <2>6. QED
    BY <2>1, <2>3, <2>4, <2>5 DEF AppliedInv
<1>8. CASE MarkEvent \/ MarkError
  <2> DEFINE e == handler.event
  <2>1. /\ e \in Events /\ rows[e] # None /\ handler' = Idle
        /\ UNCHANGED <<sent, credits, appliedTo>>
        /\ \A f \in Events \ {e} : rows'[f] = rows[f]
    BY <1>0, <1>8 DEF MarkEvent, MarkError, Answer200
  <2>2. \A f \in Events : rows'[f] = None => rows[f] = None
    <3>1. rows'[e] # None
      <4>1. rows[e] \in Row
        BY <1>0, <1>8 DEF MarkEvent, MarkError
      <4>2. CASE MarkError
        <5>1. rows' = [rows EXCEPT ![e].error = "db"]
          BY <4>2 DEF MarkError
        <5>2. rows'[e] \in Row
          BY <1>0, <2>1, <4>1, <5>1 DEF Row, Errors
        <5>3. QED
          BY <5>2
      <4>3. CASE MarkEvent
        <5>1. rows'[e] = Marked(rows[e], handler.user, handler.verdict)
          BY <1>0, <2>1, <4>3 DEF MarkEvent
        <5>2. rows'[e] \in Row
          BY <1>0, <4>1, <5>1 DEF Row, Errors, Marked
        <5>3. QED
          BY <5>2
      <4>4. QED
        BY <1>8, <4>2, <4>3
    <3>2. QED
      BY <2>1, <3>1
  <2>3. handler'.pc # "apply"
    BY <2>1 DEF Idle
  <2>4. QED
    <3> HIDE DEF e
    <3> QED BY <1>1, <2>1, <2>2, <2>3
<1>9. QED
  BY <1>2, <1>3, <1>4, <1>5, <1>6, <1>7, <1>8, GrantAssumption DEF Next

FundsInv == OnceInv /\ AppliedInv /\ ActiveOnlyByFunds

\* An account is active by an event that stays applied to it.
LEMMA NextFunds ==
    ASSUME FundsInv, [Next]_vars
    PROVE  ActiveOnlyByFunds'
<1>0. /\ OnceInv /\ AppliedInv /\ appliedTo \in [Events -> Users \cup {None}]
      /\ \A e \in Events : dodo[e] = "unsent" => appliedTo[e] = None
      /\ None \notin Users
  BY NoneAssumption DEF FundsInv, OnceInv, TInv, TypeOK, HandlerInv
<1>1. \A u \in Users \ byHand.opened : account[u].status = "active" =>
         \E e \in Events : appliedTo[e] = u /\ Funds(sent[e])
  BY DEF FundsInv, ActiveOnlyByFunds, Funds
<1>2. SUFFICES ASSUME NEW u \in Users \ byHand'.opened, account'[u].status = "active"
               PROVE  \E e \in Events : appliedTo'[e] = u /\ Funds(sent'[e])
  BY DEF ActiveOnlyByFunds, Funds
<1>3. CASE AppliesNothing
  <2>1. account[u].status = "active" /\ u \notin byHand.opened
    BY <1>2, <1>3 DEF AppliesNothing
  <2>2. PICK e \in Events : appliedTo[e] = u /\ Funds(sent[e])
    BY <1>1, <2>1
  <2>3. appliedTo'[e] = u /\ sent'[e] = sent[e]
    BY <1>0, <1>3, <2>2 DEF AppliesNothing
  <2>4. QED
    BY <2>2, <2>3
<1>4. ASSUME NEW f \in Events, NEW w \in Users, Applies(f, w)
      PROVE  \E e \in Events : appliedTo'[e] = u /\ Funds(sent'[e])
  <2>1. CASE account[u].status = "active"
    <3>1. PICK e \in Events : appliedTo[e] = u /\ Funds(sent[e])
      BY <1>1, <1>4, <2>1 DEF Applies
    <3>2. appliedTo'[e] = u /\ sent'[e] = sent[e]
      BY <1>0, <1>4, <3>1 DEF Applies
    <3>3. QED
      BY <3>1, <3>2
  <2>2. CASE account[u].status # "active"
    <3>1. u = w /\ Funds(sent[f])
      BY <1>2, <1>4, <2>2 DEF Applies
    <3>2. appliedTo'[f] = u /\ sent'[f] = sent[f]
      BY <1>0, <1>4, <3>1 DEF Applies
    <3>3. QED
      BY <3>1, <3>2
  <2>3. QED
    BY <2>1, <2>2
<1>5. QED
  BY <1>0, <1>3, <1>4, StepsApply

\* An account the operator has not opened is active only by a real credit or a
\* live subscription that was applied to it, for any payloads, suspensions,
\* faults, reconciliations and grants to other accounts.
THEOREM ActiveByFunds == Spec => []ActiveOnlyByFunds
<1>1. Init => FundsInv
  BY InitTInv, NoneAssumption
     DEF Init, FundsInv, AppliedInv, ActiveOnlyByFunds, OnceInv, GateInv, CreditedAtMostOnce, Idle
<1>2. FundsInv /\ [Next]_vars => FundsInv'
  <2>1. OnceInv /\ [Next]_vars => OnceInv'
    BY NextTInv, NextGate DEF OnceInv
  <2>2. QED
    BY <2>1, NextApplied, NextFunds DEF FundsInv
<1>3. FundsInv => ActiveOnlyByFunds
  BY DEF FundsInv
<1>4. QED
  BY <1>1, <1>2, <1>3, PTL DEF Spec

-----------------------------------------------------------------------------
(***************************************************************************)
(* The count.  Only finitely many events have been applied to an account;  *)
(* an application adds one event to them and completes at most one         *)
(* checkout of that account.                                               *)
(***************************************************************************)
DoneOf(u) == {s \in Sessions : checkout[s].state = "completed" /\ checkout[s].owner = u}
AppliedOf(u) == {e \in Events : appliedTo[e] = u}

CountInv ==
    \A u \in Users : /\ IsFiniteSet(AppliedOf(u))
                     /\ Cardinality(DoneOf(u)) <= Cardinality(AppliedOf(u))

LEMMA NextPaid ==
    ASSUME OnceInv, AppliedInv, CountInv, [Next]_vars
    PROVE  CountInv'
<1>0. /\ TypeOK /\ SessionInv /\ None \notin Users
      /\ appliedTo \in [Events -> Users \cup {None}]
      /\ checkout \in [Sessions -> [state : {"none", "created", "open", "completed"},
                                   owner : Users \cup {None}, at : Nat]]
  BY NoneAssumption DEF OnceInv, TInv, TypeOK
<1>1. CASE AppliesNothing
  <2>1. \A u \in Users : AppliedOf(u)' = AppliedOf(u)
    BY <1>1 DEF AppliesNothing, AppliedOf
  <2>2. ASSUME NEW u \in Users PROVE DoneOf(u)' = DoneOf(u)
    <3>1. \A s \in Sessions : checkout[s].state = "completed" => checkout'[s].owner = checkout[s].owner
      BY <1>1 DEF AppliesNothing
    <3>2. \A s \in Sessions : checkout'[s].state = "completed" <=> checkout[s].state = "completed"
      BY <1>1 DEF AppliesNothing
    <3>3. QED
      BY <3>1, <3>2 DEF DoneOf
  <2>3. QED
    BY <2>1, <2>2 DEF CountInv
<1>2. ASSUME NEW e \in Events, NEW w \in Users, Applies(e, w), NEW u \in Users
      PROVE  IsFiniteSet(AppliedOf(u)') /\ Cardinality(DoneOf(u)') <= Cardinality(AppliedOf(u)')
  <2>1. /\ IsFiniteSet(AppliedOf(u)) /\ IsFiniteSet(DoneOf(u))
        /\ Cardinality(DoneOf(u)) <= Cardinality(AppliedOf(u))
        /\ Cardinality(DoneOf(u)) \in Nat /\ Cardinality(AppliedOf(u)) \in Nat
    <3>1. DoneOf(u) \in SUBSET Sessions
      BY DEF DoneOf
    <3>2. QED
      BY <3>1, SessionAssumption, FS_Subset, FS_CardinalityType DEF CountInv
  \* At most one more checkout of w is completed, and none of another account.
  <2>2. \/ DoneOf(u)' = DoneOf(u)
        \/ u = w /\ \E s \in Sessions \ DoneOf(u) : DoneOf(u)' = DoneOf(u) \cup {s}
    <3>1. CASE UNCHANGED checkout
      BY <3>1 DEF DoneOf
    <3>2. ASSUME NEW s \in OpenOf(w), checkout' = [checkout EXCEPT ![s].state = "completed"]
          PROVE  \/ DoneOf(u)' = DoneOf(u)
                 \/ u = w /\ \E t \in Sessions \ DoneOf(u) : DoneOf(u)' = DoneOf(u) \cup {t}
      <4>1. s \in Sessions /\ checkout[s].state = "open" /\ checkout[s].owner = w
        BY DEF OpenOf
      <4>2. /\ \A t \in Sessions \ {s} : checkout'[t] = checkout[t]
            /\ checkout'[s].state = "completed" /\ checkout'[s].owner = w
        BY <1>0, <3>2, <4>1
      <4>3. u = w => DoneOf(u)' = DoneOf(u) \cup {s} /\ s \in Sessions \ DoneOf(u)
        BY <4>1, <4>2 DEF DoneOf
      <4>4. u # w => DoneOf(u)' = DoneOf(u)
        BY <4>1, <4>2 DEF DoneOf
      <4>5. QED
        BY <4>3, <4>4
    <3>3. QED
      BY <1>2, <3>1, <3>2 DEF Applies, CompleteNewestCheckout
  <2>3. /\ Cardinality(DoneOf(u)') \in Nat
        /\ Cardinality(DoneOf(u)') <= Cardinality(DoneOf(u)) + 1
    <3>1. CASE DoneOf(u)' = DoneOf(u)
      BY <2>1, <3>1
    <3>2. ASSUME NEW s \in Sessions \ DoneOf(u), DoneOf(u)' = DoneOf(u) \cup {s}
          PROVE  Cardinality(DoneOf(u)') = Cardinality(DoneOf(u)) + 1
      BY <2>1, <3>2, FS_AddElement
    <3>3. QED
      BY <2>1, <2>2, <3>1, <3>2
  <2>4. /\ appliedTo[e] = None /\ appliedTo'[e] = w
        /\ \A f \in Events \ {e} : appliedTo'[f] = appliedTo[f]
    BY <1>0, <1>2 DEF Applies
  <2>5. CASE u = w
    <3>1. AppliedOf(u)' = AppliedOf(u) \cup {e} /\ e \notin AppliedOf(u)
      BY <1>0, <2>4, <2>5 DEF AppliedOf
    <3>2. IsFiniteSet(AppliedOf(u)') /\ Cardinality(AppliedOf(u)') = Cardinality(AppliedOf(u)) + 1
      BY <2>1, <3>1, FS_AddElement
    <3>3. QED
      BY <2>1, <2>3, <3>2
  <2>6. CASE u # w
    <3>1. AppliedOf(u)' = AppliedOf(u)
      BY <1>0, <2>4, <2>6 DEF AppliedOf
    <3>2. QED
      BY <2>1, <2>2, <2>6, <3>1
  <2>7. QED
    BY <2>5, <2>6
<1>3. QED
  BY <1>1, <1>2, StepsApply DEF CountInv

\* No account ever has more completed checkouts than events that paid for it:
\* an abandoned checkout never passes for a paid one without a payment or a
\* subscription of its own, although which row a payment closes is a guess.
THEOREM CompletedArePaid == Spec => []CompletedCheckoutsArePaid
<1>1. Init => OnceInv /\ AppliedInv /\ CountInv
  <2> SUFFICES ASSUME Init PROVE OnceInv /\ AppliedInv /\ CountInv
    OBVIOUS
  <2>1. OnceInv /\ AppliedInv
    BY InitTInv, NoneAssumption DEF Init, AppliedInv, OnceInv, GateInv, CreditedAtMostOnce, Idle
  <2>2. \A u \in Users : AppliedOf(u) = {} /\ DoneOf(u) = {}
    BY NoneAssumption DEF Init, AppliedOf, DoneOf
  <2>3. QED
    BY <2>1, <2>2, FS_EmptySet DEF CountInv
<1>2. OnceInv /\ AppliedInv /\ CountInv /\ [Next]_vars => OnceInv' /\ AppliedInv' /\ CountInv'
  <2>1. OnceInv /\ [Next]_vars => OnceInv'
    BY NextTInv, NextGate DEF OnceInv
  <2>2. QED
    BY <2>1, NextApplied, NextPaid
<1>3. CountInv => CompletedCheckoutsArePaid
  BY DEF CountInv, CompletedCheckoutsArePaid, DoneOf, AppliedOf
<1>4. QED
  BY <1>1, <1>2, <1>3, PTL DEF Spec
=============================================================================
