------------------------------ MODULE Conversion ------------------------------
(***************************************************************************)
(* convertMessages (lib/converter.js): what is kept of a conversation, as  *)
(* the messages of the OpenAI dialect.  A thinking-mode provider must get  *)
(* back the reasoning of each turn that called tools; a turn whose         *)
(* reasoning lib/reasoning-store.js does not hold (another model made it,  *)
(* it expired, was evicted, or the proxy restarted) is flattened into      *)
(* text, and so must its results be.                                       *)
(***************************************************************************)
EXTENDS CompactionCut, SequencesExt, FiniteSets

ASSUME IdsAssumption == IsFiniteSet(Ids)

\* A converted message: the tools it calls, the call it answers.
Out(role, calls, answers) == [role |-> role, calls |-> calls, answers |-> answers]

\* Mutant: the flag outlives the results it is for.
FlagKept(s, m) == s.flatten
\* flattenNextToolResults after a user turn; a turn that is a plain string
\* leaves it alone.
FlagAfter(s, m) == s.flatten /\ m.results = {}

\* A user turn: its tool results, and then what the user says.
ConvertUser(s, m) ==
    LET results == SetToSeq(m.results)
        answers == [i \in DOMAIN results |->
                      IF s.flatten THEN Out("user", {}, {}) ELSE Out("tool", {}, {results[i]})]
        rest == IF m.says THEN <<Out("user", {}, {})>> ELSE <<>>
    IN  [out |-> s.out \o answers \o rest, flatten |-> FlagAfter(s, m)]

\* An assistant turn, with the ids whose reasoning is known.
ConvertAssistant(s, m, known) ==
    IF m.uses # {} /\ m.uses \cap known = {}
    THEN [out |-> Append(s.out, Out("assistant", {}, {})), flatten |-> TRUE]
    ELSE [s EXCEPT !.out = Append(@, Out("assistant", m.uses, {}))]

ConvertTurn(s, m, known) ==
    IF m.role = "user" THEN ConvertUser(s, m) ELSE ConvertAssistant(s, m, known)

convertMessages(seq, known) ==
    FoldLeft(LAMBDA s, m : ConvertTurn(s, m, known), [out |-> <<>>, flatten |-> FALSE], seq).out
-----------------------------------------------------------------------------
\* A conversation that Anthropic's API accepts: only the assistant calls tools,
\* and the results of a user turn are those of the calls of the turn before it.
WellPaired(seq) ==
    /\ seq # <<>> => /\ seq[1].role = "user" /\ seq[1].results = {}
                     /\ seq[Len(seq)].uses = {}
    /\ \A i \in DOMAIN seq : IF seq[i].role = "user" THEN seq[i].uses = {} ELSE seq[i].results = {}
    /\ \A i \in 2..Len(seq) : seq[i].results = seq[i - 1].uses

\* A message list that OpenAI's API accepts: every call is answered by the
\* tool messages that follow, and they answer nothing else.
Follows(seq, i, j) == j < i /\ \A k \in (j + 1)..i : seq[k].role = "tool"
HasCall(seq, i) == \E j \in DOMAIN seq : Follows(seq, i, j) /\ seq[i].answers \subseteq seq[j].calls
IsAnswered(seq, j) ==
    \A id \in seq[j].calls : \E i \in DOMAIN seq : Follows(seq, i, j) /\ seq[i].answers = {id}
Accepted(seq) ==
    \A i \in DOMAIN seq : (seq[i].role = "tool" => HasCall(seq, i)) /\ IsAnswered(seq, i)

\* However a valid conversation is cut and whichever of its turns have lost
\* their reasoning, what is kept of it converts to a list that is accepted: "a
\* role: tool message is only valid after structured tool_calls" (converter.js:58).
KeptConvertsValidly ==
    search = "over" /\ WellPaired(messages) =>
        \A known \in SUBSET Ids :
            Accepted(convertMessages(SubSeq(messages, cut + 1, Len(messages)), known))

\* What maybeCompact keeps is fit to send: it splits no call from its result, is
\* valid in the dialect of the provider it goes to and, unless nothing is safe
\* to drop at the configured number of exchanges, is over the ceiling only where
\* no safe cut down to the floor would drop more.
KeptIsFitToSend == CeilingOrFloor /\ KeptConvertsValidly
===============================================================================
