---------------------------- MODULE PaymentLedger ----------------------------
(***************************************************************************)
(* What the payment webhook promises about money: a payment event is       *)
(* announced with its price, and its price is added to one account's       *)
(* balance at most once.                                                   *)
(***************************************************************************)
EXTENDS Integers

CONSTANTS Users, Events
VARIABLES balance, credited, price

vars == <<balance, credited, price>>

Init ==
    /\ balance = [u \in Users |-> 0]
    /\ credited = {}
    /\ price = [e \in Events |-> 0]

\* The provider announces an event that has no price yet.
Announce(e) ==
    /\ e \notin credited
    /\ price[e] = 0
    /\ \A f \in Events \ {e} : price'[f] = price[f]
    /\ UNCHANGED <<balance, credited>>

Credit(e, u) ==
    /\ e \notin credited
    /\ price[e] > 0
    /\ balance' = [balance EXCEPT ![u] = @ + price[e]]
    /\ credited' = credited \cup {e}
    /\ UNCHANGED price

Next ==
    \/ \E e \in Events : Announce(e)
    \/ \E e \in Events, u \in Users : Credit(e, u)

Spec == Init /\ [][Next]_vars
=============================================================================
