------------------------------- MODULE MCRelay -------------------------------
(* Instances of Relay for TLC. *)
EXTENDS Relay, TLC

OneCharge == {[cost |-> 3, classifier |-> 1]}

Symmetry == Permutations(Requests)
===============================================================================
