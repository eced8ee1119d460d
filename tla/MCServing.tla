----------------------------- MODULE MCServing -----------------------------
(* Instances of Serving for TLC. *)
EXTENDS Serving

CONSTANTS m1, m2, m3

\* The chain holds a capped and an uncapped model.
MCChain == <<m2, m1>>
=============================================================================
