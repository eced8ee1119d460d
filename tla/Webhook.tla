------------------------------- MODULE Webhook -------------------------------
(***************************************************************************)
(* The payment webhook of the relay (lib/webhooks.js, the /webhooks/dodo   *)
(* route of index.js) together with the parties it works with: the         *)
(* dashboard process that opens checkouts and accounts in the same SQLite  *)
(* file, the payment provider (Dodo) that delivers and redelivers events,  *)
(* and the operator who opens accounts, grants credit and reconciles by     *)
(* hand what the handler left open (DEPLOY.md, sections 5b and 10).        *)
(*                                                                         *)
(* The handler is synchronous JavaScript, but it is not one transaction:   *)
(* the event row, the application of the event and the final mark are      *)
(* three separate commits.  A crash, a failing statement or a write of the *)
(* dashboard process may fall between any two of them, so each is a step.  *)
(***************************************************************************)
EXTENDS Integers, FiniteSets, FiniteSetsExt

CONSTANTS
    Users,          \* accounts that may exist
    Sessions,       \* checkout sessions of the payment provider
    Subs,           \* subscription ids
    Events,         \* webhook ids, one per event of the provider
    Payments,       \* shapes of the payments of a session: what the payload keeps
    SubNotices,     \* payloads of the subscription events that may be sent
    Managed,        \* accounts the operator opens or grants credit by hand
    MaxGranted,     \* bound: the operator grants an account no more above it
    MaxFaults,      \* bound: crashes and failing statements, together
    None

PaymentTypes == {"payment.succeeded", "payment.failed"}
SubTypes == {"subscription.active", "subscription.renewed",
             "subscription.updated", "subscription.expired",
             "subscription.cancelled"}

\* What applyEvent reads of a payload.  A field the payload lacks is None;
\* an email is represented by the account it belongs to, a customer id by the
\* subscription whose row carries it, total_amount - tax by cents.
Payload == [type    : PaymentTypes \cup SubTypes,
            meta    : Users \cup {None},
            session : Sessions \cup {None},
            sub     : Subs \cup {None},
            email   : Users \cup {None},
            custSub : Subs \cup {None},
            product : BOOLEAN,      \* a product id of the catalog
            usd     : BOOLEAN,
            cents   : Int]

\* A payment keeps or loses each of the two references to the payer, and is
\* made under an email that may be another account's or nobody's.
PaymentShape == [type : PaymentTypes, meta : BOOLEAN, session : BOOLEAN,
                 email : Users \cup {None}, usd : BOOLEAN, cents : Int]

Errors == {"uncorrelated", "flagged", "db", None}
\* A row of payment_events.
Row == [processed : BOOLEAN, user : Users \cup {None}, error : Errors]

ASSUME NoneAssumption ==
    /\ None \notin Users
    /\ None \notin Sessions
    /\ None \notin Subs
    /\ None \notin Events
    /\ None \notin Payload
    /\ None \notin Row
    /\ None \notin {"uncorrelated", "flagged", "db"}
ASSUME ShapeAssumption ==
    /\ \A p \in Payments : p \in PaymentShape
    /\ \A p \in SubNotices : p \in Payload /\ p.type \in SubTypes
ASSUME FaultAssumption == MaxFaults \in Nat
ASSUME GrantAssumption == Managed \subseteq Users /\ MaxGranted \in Nat
ASSUME SessionAssumption == IsFiniteSet(Sessions)

VARIABLES
    account,    \* users: status, balance_usd (in cents), plan_expiry
    checkout,   \* checkout_sessions, and the sessions Dodo holds without a row
    subs,       \* subscriptions: the owner of each row
    rows,       \* payment_events
    sent,       \* the payload of each event Dodo has emitted
    dodo,       \* Dodo's view of each event: unsent, due, answered 200
    handler,    \* the request being handled: program counter and locals
    paidFor,    \* history: the session an event is the payment of
    credits,    \* history: how many times an event's amount was credited
    appliedTo,  \* history: the account its credit or activation went to
    byHand,     \* history: accounts the operator opened, cents the operator
                \* gave for no payment, payments the operator paid again
    faults      \* crashes and failed statements so far

vars == <<account, checkout, subs, rows, sent, dodo, handler,
          paidFor, credits, appliedTo, byHand, faults>>
history == <<paidFor, credits, appliedTo, byHand>>

Idle == [pc |-> "idle", event |-> None, user |-> None, verdict |-> "none"]

Statuses == {"absent", "pending", "active", "suspended"}
Account == [status : Statuses, balance : Int, expiry : {"none", "live", "lapsed"}]
ByHand == [opened : SUBSET Users, granted : [Users -> Int], again : SUBSET Events]
Verdicts == {"none", "logged", "credited", "subscribed", "uncorrelated", "flagged"}

TypeOK ==
    /\ account \in [Users -> Account]
    /\ checkout \in [Sessions -> [state : {"none", "created", "open", "completed"},
                                  owner : Users \cup {None}, at : Nat]]
    /\ subs \in [Subs -> Users \cup {None}]
    /\ rows \in [Events -> {None} \cup Row]
    /\ sent \in [Events -> {None} \cup Payload]
    /\ dodo \in [Events -> {"unsent", "due", "acked"}]
    /\ handler \in [pc : {"idle", "insert", "apply", "mark", "fail"},
                    event : Events \cup {None}, user : Users \cup {None},
                    verdict : Verdicts]
    /\ paidFor \in [Events -> Sessions \cup {None}]
    /\ credits \in [Events -> Nat]
    /\ appliedTo \in [Events -> Users \cup {None}]
    /\ byHand \in ByHand
    /\ faults \in 0..MaxFaults

\* No account exists yet; the schema's default balance is 0.
Init ==
    /\ account = [u \in Users |-> [status |-> "absent", balance |-> 0, expiry |-> "none"]]
    /\ checkout = [s \in Sessions |-> [state |-> "none", owner |-> None, at |-> 0]]
    /\ subs = [b \in Subs |-> None]
    /\ rows = [e \in Events |-> None]
    /\ sent = [e \in Events |-> None]
    /\ dodo = [e \in Events |-> "unsent"]
    /\ handler = Idle
    /\ paidFor = [e \in Events |-> None]
    /\ credits = [e \in Events |-> 0]
    /\ appliedTo = [e \in Events |-> None]
    /\ byHand = [opened |-> {}, granted |-> [u \in Users |-> 0], again |-> {}]
    /\ faults = 0

Exists(u) == u # None /\ account[u].status # "absent"

\* Mutant: any credit or activation makes the account active.
ActivatedAlways(status) == "active"
\* CASE WHEN status = 'suspended' THEN 'suspended' ELSE 'active' END
Activated(status) == IF status = "suspended" THEN status ELSE "active"

\* What the account statement of a credit changes (creditUser).
Funded(a, cents) ==
    [status |-> Activated(a.status), balance |-> a.balance + cents, expiry |-> a.expiry]

\* What the account statement of a live subscription changes (activateUser).
Enrolled(a) == [status |-> Activated(a.status), balance |-> a.balance, expiry |-> "live"]

(***************************************************************************)
(* The dashboard process, the payment provider and the operator.           *)
(***************************************************************************)

\* Open signup: the account starts 'pending' with no credit.
Signup(u) ==
    /\ account[u].status = "absent"
    /\ account' = [account EXCEPT ![u].status = "pending"]
    /\ UNCHANGED <<checkout, subs, rows, sent, dodo, handler, history, faults>>

\* The history of what the operator gives: an account it opens, cents beyond
\* what any payment owed, payments paid again.
Gift(u, cents, again) ==
    byHand' = [opened  |-> byHand.opened \cup {u},
               granted |-> [byHand.granted EXCEPT ![u] = @ + cents],
               again   |-> byHand.again \cup again]

\* db/create-user.js: the operator's account starts 'active', with no credit.
OperatorSignup(u) ==
    /\ account[u].status = "absent"
    /\ account' = [account EXCEPT ![u].status = "active"]
    /\ Gift(u, 0, {})
    /\ UNCHANGED <<checkout, subs, rows, sent, dodo, handler, paidFor, credits, appliedTo, faults>>

\* What the operator's UPDATE of an account writes, in the grant and in the
\* reconciliation: unlike the handler's CASE it asks for no status.
SetActive(a, cents) ==
    [status |-> "active", balance |-> a.balance + cents, expiry |-> a.expiry]

GrantCents == 1000

\* The SQL grant of DEPLOY.md, section 5b.
Grant(u) ==
    /\ Exists(u)
    /\ byHand.granted[u] < MaxGranted
    /\ account' = [account EXCEPT ![u] = SetActive(@, GrantCents)]
    /\ Gift(u, GrantCents, {})
    /\ UNCHANGED <<checkout, subs, rows, sent, dodo, handler, paidFor, credits, appliedTo, faults>>

\* The operator suspends an account (the code only ever reads the status).
Suspend(u) ==
    /\ account[u].status \in {"pending", "active"}
    /\ account' = [account EXCEPT ![u].status = "suspended"]
    /\ UNCHANGED <<checkout, subs, rows, sent, dodo, handler, history, faults>>

\* POST /api/billing/checkout, first half: Dodo creates the session.
CreateSession(u, s) ==
    /\ Exists(u)
    /\ checkout[s].state = "none"
    /\ checkout' = [checkout EXCEPT ![s] = [state |-> "created", owner |-> u, at |-> 0]]
    /\ UNCHANGED <<account, subs, rows, sent, dodo, handler, history, faults>>

HasRow(s) == checkout[s].state \in {"open", "completed"}

\* Mutant: the checkout URL is answered before the row is inserted.
PayableEarly(s) == checkout[s].state \in {"created", "open", "completed"}
\* Only the answer that follows the INSERT carries the checkout URL, so no
\* session without a row is ever paid.
Payable(s) == HasRow(s)

\* Second half: the row.  When the INSERT fails, or the process dies before
\* it, the caller gets a 502 and the session stays "created" for ever.
InsertCheckout(s) ==
    /\ checkout[s].state = "created"
    /\ checkout' = [checkout EXCEPT ![s].state = "open",
                                    ![s].at = 1 + Cardinality({t \in Sessions : HasRow(t)})]
    /\ UNCHANGED <<account, subs, rows, sent, dodo, handler, history, faults>>

\* A session is paid (or its payment fails) and Dodo emits the event.
EmitPayment(e, s, shape) ==
    /\ dodo[e] = "unsent"
    /\ Payable(s)
    /\ \A f \in Events : paidFor[f] # s
    /\ sent' = [sent EXCEPT ![e] =
                  [type |-> shape.type,
                   meta |-> IF shape.meta THEN checkout[s].owner ELSE None,
                   session |-> IF shape.session THEN s ELSE None,
                   sub |-> None, email |-> shape.email, custSub |-> None,
                   product |-> TRUE, usd |-> shape.usd, cents |-> shape.cents]]
    /\ dodo' = [dodo EXCEPT ![e] = "due"]
    /\ paidFor' = [paidFor EXCEPT ![e] = s]
    /\ UNCHANGED <<account, checkout, subs, rows, handler, credits, appliedTo, byHand, faults>>

EmitSubscription(e, payload) ==
    /\ dodo[e] = "unsent"
    /\ sent' = [sent EXCEPT ![e] = payload]
    /\ dodo' = [dodo EXCEPT ![e] = "due"]
    /\ UNCHANGED <<account, checkout, subs, rows, handler, history, faults>>

\* DEPLOY.md, section 10, step 7: the operator lists the rows with processed =
\* 0, whatever their error, matches the user by hand, runs the UPDATE and marks
\* the event processed.  Nothing in the row tells a payment that was credited
\* before its mark was lost, so the operator pays that one again.
Reconcile(e) ==
    LET u == checkout[paidFor[e]].owner IN
    /\ handler.pc = "idle"
    /\ rows[e] # None /\ ~rows[e].processed
    /\ paidFor[e] # None
    /\ sent[e].type = "payment.succeeded" /\ sent[e].usd /\ sent[e].cents > 0
    /\ account' = [account EXCEPT ![u] = SetActive(@, sent[e].cents)]
    /\ rows' = [rows EXCEPT ![e].processed = TRUE, ![e].user = u]
    /\ credits' = [credits EXCEPT ![e] = @ + 1]
    /\ IF credits[e] = 0
       THEN /\ appliedTo' = [appliedTo EXCEPT ![e] = u]
            /\ UNCHANGED byHand
       ELSE /\ Gift(u, sent[e].cents, {e})
            /\ UNCHANGED appliedTo
    /\ UNCHANGED <<checkout, subs, sent, dodo, handler, paidFor, faults>>

(***************************************************************************)
(* The handler: verify (a rejected or unconfigured delivery changes        *)
(* nothing and is not modelled), then processEvent.                        *)
(***************************************************************************)

Begin(e) ==
    /\ handler.pc = "idle"
    /\ handler' = [Idle EXCEPT !.pc = "insert", !.event = e]
    /\ UNCHANGED <<account, checkout, subs, rows, sent, dodo, history, faults>>

Deliver(e) == dodo[e] = "due" /\ Begin(e)

\* Standard Webhooks is at-least-once: an answered event may come again.
Redeliver(e) == dodo[e] = "acked" /\ Begin(e)

\* Mutant: a path of the route ends without answering 200.
NeverAnswers(e) ==
    /\ UNCHANGED dodo
    /\ handler' = Idle
\* 200 ends Dodo's retries of the event; any other outcome leaves it due.
Answer200(e) ==
    /\ dodo' = [dodo EXCEPT ![e] = "acked"]
    /\ handler' = Idle

\* Mutant: INSERT OR REPLACE, every delivery is new.
AnyDelivery(e) == TRUE
\* INSERT OR IGNORE reports a change only for a webhook id never seen.
FirstDelivery(e) == rows[e] = None

\* Mutant: the row is inserted as already processed.
NewRowProcessed == [processed |-> TRUE, user |-> None, error |-> None]
NewRow == [processed |-> FALSE, user |-> None, error |-> None]

\* The insert commits on its own; a duplicate is answered 200 at once.
InsertEvent ==
    LET e == handler.event IN
    /\ handler.pc = "insert"
    /\ IF FirstDelivery(e)
       THEN /\ rows' = [rows EXCEPT ![e] = NewRow]
            /\ handler' = [handler EXCEPT !.pc = "apply"]
            /\ UNCHANGED dodo
       ELSE /\ Answer200(e)
            /\ UNCHANGED rows
    /\ UNCHANGED <<account, checkout, subs, sent, history, faults>>

\* The account a payload resolves to, by the first reference that does.
\* Mutant: the email is trusted before the references set at checkout.
CorrelateByEmailFirst(p) ==
    IF Exists(p.email) THEN p.email
    ELSE IF Exists(p.meta) THEN p.meta
    ELSE None
Correlate(p) ==
    IF Exists(p.meta) THEN p.meta
    ELSE IF p.session # None /\ HasRow(p.session) THEN checkout[p.session].owner
    ELSE IF p.sub # None /\ subs[p.sub] # None THEN subs[p.sub]
    ELSE IF Exists(p.email) THEN p.email
    ELSE IF p.custSub # None THEN subs[p.custSub]
    ELSE None

\* What applyEvent decides for a payload and its correlated account.
Verdict(p, u) ==
    IF p.type \in SubTypes
    THEN IF p.sub = None THEN "flagged"
         ELSE IF u = None THEN "uncorrelated"
         ELSE IF ~p.product /\ subs[p.sub] = None THEN "flagged"
         ELSE "subscribed"
    ELSE IF p.type # "payment.succeeded" THEN "logged"
    ELSE IF u = None THEN "uncorrelated"
    ELSE IF ~p.usd \/ p.cents <= 0 THEN "flagged"
    ELSE "credited"

OpenOf(u) == {s \in Sessions : checkout[s].state = "open" /\ checkout[s].owner = u}

\* Mutant: the UPDATE closes every open row of the account.
CompleteOpenCheckouts(u) ==
    checkout' = [s \in Sessions |->
                   IF s \in OpenOf(u) THEN [checkout[s] EXCEPT !.state = "completed"]
                   ELSE checkout[s]]
\* completeNewestCheckout: the newest open row of the account, if any.
CompleteNewestCheckout(u) ==
    IF OpenOf(u) = {} THEN UNCHANGED checkout
    ELSE \E s \in OpenOf(u) :
           /\ \A t \in OpenOf(u) : checkout[t].at <= checkout[s].at
           /\ checkout' = [checkout EXCEPT ![s].state = "completed"]

\* creditUser + completeNewestCheckout
Credit(e, p, u) ==
    /\ account' = [account EXCEPT ![u] = Funded(@, p.cents)]
    /\ CompleteNewestCheckout(u)
    /\ credits' = [credits EXCEPT ![e] = @ + 1]
    /\ appliedTo' = [appliedTo EXCEPT ![e] = u]
    /\ UNCHANGED <<subs, paidFor, byHand>>

\* Mutant: an update that only changes the plan also activates.
ActivatingWithUpdate == {"subscription.active", "subscription.renewed", "subscription.updated"}
ActivatingTypes == {"subscription.active", "subscription.renewed"}

\* The dormant subscription branch: every event overwrites the row; the kind
\* of event decides what happens to the account.
Subscribe(e, p, u) ==
    /\ subs' = [subs EXCEPT ![p.sub] = u]
    /\ CASE p.type \in ActivatingTypes ->
              account' = [account EXCEPT ![u] = Enrolled(@)]
         [] p.type = "subscription.updated" ->
              account' = [account EXCEPT ![u].expiry = "live"]
         [] p.type = "subscription.expired" ->
              account' = [account EXCEPT ![u].expiry = "lapsed"]
         [] OTHER -> UNCHANGED account
    /\ IF p.type = "subscription.active" THEN CompleteNewestCheckout(u)
                                         ELSE UNCHANGED checkout
    /\ appliedTo' = [appliedTo EXCEPT ![e] = u]
    /\ UNCHANGED <<paidFor, credits, byHand>>

\* correlateUser, then applyEvent in one transaction that commits.
ApplyEvent ==
    LET e == handler.event
        p == sent[e]
        u == Correlate(p)
        v == Verdict(p, u)
    IN
    /\ handler.pc = "apply"
    /\ \/ v = "credited" /\ Credit(e, p, u)
       \/ v = "subscribed" /\ Subscribe(e, p, u)
       \/ /\ v \in {"logged", "flagged", "uncorrelated"}
          /\ UNCHANGED <<account, checkout, subs, history>>
    /\ handler' = [handler EXCEPT !.pc = "mark", !.user = u, !.verdict = v]
    /\ UNCHANGED <<rows, sent, dodo, faults>>

\* Mutant: the verdict is written to the error column of every row.
MarkedWithVerdict(row, u, v) == [row EXCEPT !.processed = TRUE, !.user = u, !.error = v]
\* markUncorrelated leaves processed = 0; markProcessedWithError and
\* markProcessed set it.
Marked(row, u, v) ==
    CASE v = "uncorrelated" -> [row EXCEPT !.error = "uncorrelated"]
      [] v = "flagged" -> [row EXCEPT !.processed = TRUE, !.user = u, !.error = "flagged"]
      [] OTHER -> [row EXCEPT !.processed = TRUE, !.user = u]

MarkEvent ==
    LET e == handler.event IN
    /\ handler.pc = "mark"
    /\ rows' = [rows EXCEPT ![e] = Marked(@, handler.user, handler.verdict)]
    /\ Answer200(e)
    /\ UNCHANGED <<account, checkout, subs, sent, history, faults>>

Fault == faults < MaxFaults /\ faults' = faults + 1

\* insertEvent runs outside the try block: a failure goes straight to 500.
InsertFails ==
    /\ handler.pc = "insert"
    /\ Fault
    /\ handler' = Idle
    /\ UNCHANGED <<account, checkout, subs, rows, sent, dodo, history>>

\* A failing read of correlateUser, a rolled-back applyEvent or a failing mark
\* enter the catch block.
StatementFails ==
    /\ handler.pc \in {"apply", "mark"}
    /\ Fault
    /\ handler' = [handler EXCEPT !.pc = "fail"]
    /\ UNCHANGED <<account, checkout, subs, rows, sent, dodo, history>>

\* markError, then the 500 that leaves the event due.
MarkError ==
    /\ handler.pc = "fail"
    /\ rows' = [rows EXCEPT ![handler.event].error = "db"]
    /\ handler' = Idle
    /\ UNCHANGED <<account, checkout, subs, sent, dodo, history, faults>>

MarkErrorFails ==
    /\ handler.pc = "fail"
    /\ Fault
    /\ handler' = Idle
    /\ UNCHANGED <<account, checkout, subs, rows, sent, dodo, history>>

\* The process dies; what was committed stays, Dodo gets no answer.
Crash ==
    /\ handler.pc # "idle"
    /\ Fault
    /\ handler' = Idle
    /\ UNCHANGED <<account, checkout, subs, rows, sent, dodo, history>>

Handle == InsertEvent \/ ApplyEvent \/ MarkEvent \/ MarkError

Next ==
    \/ \E u \in Users : Signup(u)
    \/ \E u \in Managed : OperatorSignup(u)
    \/ \E u \in Managed : Grant(u)
    \/ \E u \in Users : Suspend(u)
    \/ \E u \in Users, s \in Sessions : CreateSession(u, s)
    \/ \E s \in Sessions : InsertCheckout(s)
    \/ \E e \in Events, s \in Sessions, shape \in Payments : EmitPayment(e, s, shape)
    \/ \E e \in Events, p \in SubNotices : EmitSubscription(e, p)
    \/ \E e \in Events : Deliver(e)
    \/ \E e \in Events : Redeliver(e)
    \/ \E e \in Events : Reconcile(e)
    \/ InsertEvent
    \/ ApplyEvent
    \/ MarkEvent
    \/ InsertFails
    \/ StatementFails
    \/ MarkError
    \/ MarkErrorFails
    \/ Crash

Spec == Init /\ [][Next]_vars

\* The handler runs to its end unless it crashes; Dodo keeps retrying an event
\* it holds no 200 for.  A redelivery may hold the process between two
\* retries, so the retry needs strong fairness.
FairSpec ==
    /\ Spec
    /\ WF_vars(Handle)
    /\ \A e \in Events : SF_vars(Deliver(e))

-----------------------------------------------------------------------------
(***************************************************************************)
(* Properties.                                                             *)
(***************************************************************************)

\* However often Dodo redelivers an event, and wherever a crash or a failing
\* statement cuts the handler, its amount reaches a balance at most once
\* (the INSERT OR IGNORE gate of processEvent), and no credit of the handler
\* follows the operator's.  The one exception is a payment that was credited
\* and not marked, which the operator credits again by hand, once.
CreditedAtMostOnce ==
    \A e \in Events : credits[e] <= IF e \in byHand.again THEN 2 ELSE 1

\* A payment whose payload still carries the user id or the checkout session
\* is credited to the account that opened the checkout, whatever email the
\* payer typed (the order of correlateUser, and the row written before the
\* checkout URL is answered).
CreditGoesToPayer ==
    \A e \in Events :
        /\ paidFor[e] # None
        /\ appliedTo[e] # None
        /\ sent[e].meta # None \/ sent[e].session # None
        => appliedTo[e] = checkout[paidFor[e]].owner

\* Such a payment is never left for the operator as uncorrelated.
EchoedReferenceCorrelates ==
    \A e \in Events :
        paidFor[e] # None /\ rows[e] # None /\ rows[e].error = "uncorrelated"
            => sent[e].meta = None /\ sent[e].session = None

\* An account the operator did not open by hand (create-user.js, the SQL
\* grant) is active only by a real credit or a live subscription that was
\* applied to this very account: neither a failed, foreign-currency or zero
\* payment nor an expired, cancelled or updated plan opens the gate.
ActiveOnlyByFunds ==
    \A u \in Users \ byHand.opened : account[u].status = "active" =>
        \E e \in Events :
            /\ appliedTo[e] = u
            /\ \/ sent[e].type \in {"subscription.active", "subscription.renewed"}
               \/ sent[e].type = "payment.succeeded" /\ sent[e].usd /\ sent[e].cents > 0

\* webhooks.js:21, "never resurrects a 'suspended' account": no step of the
\* handler, whichever event it applies, to which account and after whatever
\* the operator did between its commits, takes an account out of suspension.
\* (The operator's own UPDATE does.)
NeverResurrected ==
    [][handler' # handler =>
         \A u \in Users : account[u].status = "suspended" => account'[u].status = "suspended"]_vars

Creditable(e) ==
    /\ sent[e] # None
    /\ sent[e].type = "payment.succeeded" /\ sent[e].usd /\ sent[e].cents > 0
    /\ sent[e].meta # None

\* A row marked processed owes nothing: the mark follows the credit, so no
\* crash in between can leave a processed payment without its credit.
ProcessedMeansCredited ==
    \A e \in Events : rows[e] # None /\ rows[e].processed /\ Creditable(e) => credits[e] > 0

\* Which row a payment closes is a guess (the newest), but the number is not:
\* an account never has more completed checkouts than it was credited or
\* subscribed, so an abandoned checkout never passes for a paid one without a
\* payment of its own.
CompletedCheckoutsArePaid ==
    \A u \in Users :
        Cardinality({s \in Sessions : checkout[s].state = "completed" /\ checkout[s].owner = u})
            <= Cardinality({e \in Events : appliedTo[e] = u})

\* With finitely many faults, Dodo's retries of every event end in a 200.
EventuallyAnswered == \A e \in Events : dodo[e] = "due" ~> dodo[e] = "acked"

\* Each step credits at most one event, once, by its amount: the handler and
\* the operator together implement the abstract ledger, and the balance of an
\* account is that ledger's plus what the operator gave for no payment.
Ledger == INSTANCE PaymentLedger WITH
    balance <- [u \in Users |-> account[u].balance - byHand.granted[u]],
    credited <- {e \in Events : credits[e] > 0},
    price <- [e \in Events |-> IF sent[e] = None THEN 0 ELSE sent[e].cents]
ImplementsLedger == Ledger!Spec

\* index.js:1148: "200 = processed (or duplicate); 500 = DB failure (Dodo
\* retries)".  Once Dodo holds a 200 it will not retry, so a payment that
\* names its account must have been credited by then.
AckedPaymentIsCredited ==
    \A e \in Events : dodo[e] = "acked" /\ Creditable(e) => credits[e] > 0
=============================================================================
