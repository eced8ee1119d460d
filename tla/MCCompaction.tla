---------------------------- MODULE MCCompaction ----------------------------
(* An instance of Compaction for TLC. *)
EXTENDS Compaction

CONSTANTS t1, t2, t3

\* Conversations of a family that part after the first message; the second and
\* the third meet again in a message of the user's.
MCHistory ==
    [t \in {t1, t2, t3} |-> CASE t = t1 -> <<"1", "a2", "a3">>
                              [] t = t2 -> <<"1", "b2", "go", "b4">>
                              [] t = t3 -> <<"1", "c2", "go">>]
=============================================================================
