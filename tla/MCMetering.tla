----------------------------- MODULE MCMetering -----------------------------
(* Instances of Metering for TLC. *)
EXTENDS Metering, TLC

Charge(cost, classifier) == [cost |-> cost, classifier |-> classifier]

\* Every request is classified and served: the two amounts are told apart.
OneCharge == {Charge(3, 1)}

Symmetry == Permutations(Requests)
=============================================================================
