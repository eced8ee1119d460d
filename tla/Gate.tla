--------------------------------- MODULE Gate ---------------------------------
(***************************************************************************)
(* What the balance gate of the relay promises about money.  A request is  *)
(* admitted on the balance of its account as stored, which lacks the       *)
(* requests in flight and the pending deltas of the meter; the account is  *)
(* debited later, in one flush, or never if the deltas are lost.           *)
(*                                                                         *)
(* The promise is how far a balance can fall: not to -Grace, but below it  *)
(* by no more than what the requests undebited at one time can cost.       *)
(***************************************************************************)
EXTENDS Integers

CONSTANTS
    Users,
    Grace,          \* GRACE_USD, in cents
    MaxCharge       \* what one request may cost

VARIABLES
    balance,        \* the stored balance
    inflight,       \* requests admitted and not over
    pending,        \* recorded and not yet debited: how many, and their cost
    peak            \* history: the most requests undebited at an admission

vars == <<balance, inflight, pending, peak>>

Nothing == [requests |-> 0, cost |-> 0]

Init ==
    /\ balance = [u \in Users |-> 0]
    /\ inflight = [u \in Users |-> 0]
    /\ pending = [u \in Users |-> Nothing]
    /\ peak = [u \in Users |-> 0]

\* A top-up of any amount.
Credit(u) ==
    /\ balance' \in [Users -> Int]
    /\ balance'[u] > balance[u]
    /\ \A v \in Users \ {u} : balance'[v] = balance[v]
    /\ UNCHANGED <<inflight, pending, peak>>

Larger(m, n) == IF m >= n THEN m ELSE n

\* What an account has at stake if one more request is admitted.
Stake(u) == inflight[u] + 1 + pending[u].requests

Admit(u) ==
    /\ balance[u] > -Grace
    /\ inflight' = [inflight EXCEPT ![u] = @ + 1]
    /\ peak' = [peak EXCEPT ![u] = Larger(@, Stake(u))]
    /\ UNCHANGED <<balance, pending>>

\* A request that is over and charged nothing.
Leave(u) ==
    /\ inflight[u] > 0
    /\ inflight' = [inflight EXCEPT ![u] = @ - 1]
    /\ UNCHANGED <<balance, pending, peak>>

\* What is owed stays pending, is debited, or is lost.
Settle(owed) ==
    \/ pending' = owed /\ UNCHANGED balance
    \/ /\ pending' = [u \in Users |-> Nothing]
       /\ balance' = [u \in Users |-> balance[u] - owed[u].cost]
    \/ pending' = [u \in Users |-> Nothing] /\ UNCHANGED balance

Charged(u, cost) ==
    [pending EXCEPT ![u] = [requests |-> @.requests + 1, cost |-> @.cost + cost]]

Record(u, cost) ==
    /\ inflight[u] > 0
    /\ inflight' = [inflight EXCEPT ![u] = @ - 1]
    /\ Settle(Charged(u, cost))
    /\ UNCHANGED peak

\* A flush that rides on another account's traffic, or on none.
Flush == Settle(pending) /\ UNCHANGED <<inflight, peak>>

Crash ==
    /\ inflight' = [u \in Users |-> 0]
    /\ pending' = [u \in Users |-> Nothing]
    /\ UNCHANGED <<balance, peak>>

Next ==
    \/ \E u \in Users : Credit(u)
    \/ \E u \in Users : Admit(u)
    \/ \E u \in Users : Leave(u)
    \/ \E u \in Users, cost \in 0..MaxCharge : Record(u, cost)
    \/ Flush
    \/ Crash

Spec == Init /\ [][Next]_vars

\* plans.js:22: "Enforcement can overshoot into the grace by up to ~30s of
\* traffic".  However requests, flushes, top-ups and crashes interleave, a
\* balance stays above -Grace less the cost of the requests that were once
\* undebited together.
OverdraftBounded == \A u \in Users : balance[u] > -Grace - MaxCharge * peak[u]
===============================================================================
