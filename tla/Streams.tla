-------------------------------- MODULE Streams --------------------------------
(***************************************************************************)
(* The writers that turn a provider's stream into the events of an         *)
(* Anthropic stream: streamToAnthropic (lib/converter.js) for the OpenAI   *)
(* dialect, streamResponse of lib/providers/gemini.js and of anthropic.js, *)
(* and emitConvertedAsSSE (index.js) for a response that was buffered.     *)
(*                                                                         *)
(* A chunk is one step: its parts are handled in order by a synchronous    *)
(* handler.  It carries at most one piece of text and one of a tool call;  *)
(* a chunk that carries more is as several.  The client is modelled by     *)
(* what it has made of the events: the blocks that are open, how many it   *)
(* has seen, and whether an event did not fit.                             *)
(***************************************************************************)
EXTENDS Integers

CONSTANTS
    Keys,           \* indices of the tool calls in an OpenAI stream
    MaxChunks       \* bound: chunks of a stream, or blocks of a response

ASSUME MaxChunksAssumption == MaxChunks \in Nat

VARIABLES
    style,          \* the writer
    chunks,         \* bound: chunks so far
    upstream,       \* the provider: is it finished?  has it reported usage?
    writer,         \* the writer's locals
    client

streamVars == <<style, chunks, upstream, writer, client>>

NoBlock == -1

StreamInit ==
    /\ style \in {"openai", "gemini", "anthropic", "buffered"}
    /\ chunks = 0
    /\ upstream = [at |-> "open", finish |-> FALSE, usage |-> "none"]
    /\ writer = [next |-> 0, text |-> FALSE, block |-> [k \in Keys |-> NoBlock],
                 finishSent |-> FALSE, usage |-> "none"]
    /\ client = [started |-> 0, open |-> {}, stopped |-> FALSE, broken |-> FALSE]

(***************************************************************************)
(* The client.  Blocks are numbered from 0 as they start, and nothing      *)
(* follows message_stop.                                                   *)
(***************************************************************************)

BlockStart(c, i) ==
    [c EXCEPT !.started = @ + 1, !.open = @ \cup {i},
              !.broken = @ \/ c.stopped \/ i # c.started]
BlockDelta(c, i) == [c EXCEPT !.broken = @ \/ c.stopped \/ i \notin c.open]
BlockStop(c, i) == [c EXCEPT !.open = @ \ {i}, !.broken = @ \/ c.stopped \/ i \notin c.open]
BlockStops(c, blocks) ==
    [c EXCEPT !.open = @ \ blocks,
              !.broken = @ \/ (blocks # {} /\ c.stopped) \/ ~(blocks \subseteq c.open)]
MessageStop(c) == [c EXCEPT !.stopped = TRUE, !.broken = @ \/ c.stopped]

(***************************************************************************)
(* streamToAnthropic.  The state of a handler is the writer's locals and   *)
(* the client, [w, c].                                                     *)
(***************************************************************************)

OpenAiText(s) ==
    [w |-> [s.w EXCEPT !.text = TRUE],
     c |-> BlockDelta(IF s.w.text THEN s.c ELSE BlockStart(s.c, s.w.next), s.w.next)]

\* Mutant: the text block is left open when a tool call starts.
LeaveText(s) == s
\* A tool call closes the text block before it.
CloseText(s) ==
    IF s.w.text
    THEN [w |-> [s.w EXCEPT !.text = FALSE, !.next = @ + 1], c |-> BlockStop(s.c, s.w.next)]
    ELSE s

\* The first piece of a call opens its block, the next ones go to that block.
OpenAiCall(s, k) ==
    IF s.w.block[k] # NoBlock
    THEN [w |-> s.w, c |-> BlockDelta(s.c, s.w.block[k])]
    ELSE LET t == CloseText(s)
         IN  [w |-> [t.w EXCEPT !.block[k] = t.w.next, !.next = @ + 1],
              c |-> BlockDelta(BlockStart(t.c, t.w.next), t.w.next)]

Blocks(w) == {w.block[k] : k \in {j \in Keys : w.block[j] # NoBlock}}
TextBlock(w) == IF w.text THEN {w.next} ELSE {}

\* Mutant: the blocks of the calls are not closed.
FinishText(s) ==
    [w |-> [s.w EXCEPT !.text = FALSE],
     c |-> MessageStop(BlockStops(s.c, TextBlock(s.w)))]
\* finish_reason: whatever is open is closed, and the message stopped.
OpenAiFinish(s) ==
    [w |-> [s.w EXCEPT !.text = FALSE],
     c |-> MessageStop(BlockStops(s.c, TextBlock(s.w) \cup Blocks(s.w)))]

(***************************************************************************)
(* streamResponse of gemini.js: after the finish nothing is sent, and all  *)
(* function calls share one block.                                         *)
(***************************************************************************)

Sent(s, c) == IF s.w.finishSent THEN s.c ELSE c

GeminiText(s) ==
    [w |-> [s.w EXCEPT !.text = @ \/ ~s.w.finishSent],
     c |-> Sent(s, BlockDelta(IF s.w.text THEN s.c ELSE BlockStart(s.c, s.w.next), s.w.next))]

GeminiCall(s, k) ==
    LET t == CloseText(s) IN
    IF t.w.block[k] # NoBlock
    THEN [w |-> t.w, c |-> Sent(t, BlockDelta(t.c, t.w.block[k]))]
    ELSE [w |-> [t.w EXCEPT !.block[k] = t.w.next, !.next = @ + 1],
          c |-> Sent(t, BlockDelta(BlockStart(t.c, t.w.next), t.w.next))]

GeminiFinish(s) ==
    IF s.w.finishSent THEN s
    ELSE [w |-> [s.w EXCEPT !.text = FALSE, !.finishSent = TRUE],
          c |-> MessageStop(BlockStops(s.c, TextBlock(s.w) \cup Blocks(s.w)))]

\* "end" without a finish: the text block is closed, a call's is not.
GeminiEnd(s) ==
    IF s.w.finishSent THEN s
    ELSE [s EXCEPT !.c = MessageStop(BlockStops(s.c, TextBlock(s.w)))]

(***************************************************************************)
(* Usage: the first object of an OpenAI stream counts, the last of a       *)
(* Gemini stream, and an Anthropic stream completes it piece by piece.     *)
(***************************************************************************)

Reported == IF style = "openai" THEN {"none", "full"} ELSE {"none", "part", "full"}
Merged(w, usage) ==
    IF usage = "none" \/ (style = "openai" /\ w.usage # "none") THEN w.usage ELSE usage

(***************************************************************************)
(* Steps.                                                                  *)
(***************************************************************************)

Handled(s) == writer' = s.w /\ client' = s.c

\* Usage grows, and an Anthropic message has it before its end.
MayReport(usage) ==
    /\ usage \in Reported
    /\ upstream.usage = "full" => usage \in {"none", "full"}
    /\ style = "anthropic" /\ upstream.finish => usage = "none"

\* What the provider may send: after the finish an OpenAI
\* stream has at most a chunk of usage.
Sends(text, call, finish, usage) ==
    /\ upstream.at = "open" /\ chunks < MaxChunks
    /\ chunks' = chunks + 1
    /\ MayReport(usage)
    /\ style = "openai" /\ upstream.finish => ~text /\ ~call /\ ~finish
    /\ upstream' = [upstream EXCEPT !.finish = @ \/ finish,
                                    !.usage = IF usage = "none" THEN @ ELSE usage]
    /\ UNCHANGED style

OpenAiChunk(text, calls, finish, usage) ==
    /\ style = "openai"
    /\ Sends(text, calls # {}, finish, usage)
    /\ LET s0 == [w |-> [writer EXCEPT !.usage = Merged(writer, usage)], c |-> client]
           s1 == IF text THEN OpenAiText(s0) ELSE s0
           s2 == IF calls = {} THEN s1 ELSE OpenAiCall(s1, CHOOSE k \in calls : TRUE)
       IN  Handled(IF finish THEN OpenAiFinish(s2) ELSE s2)

\* All calls share the block of one key.
GeminiChunk(text, calls, finish, usage) ==
    /\ style = "gemini" /\ calls \subseteq {CHOOSE k \in Keys : TRUE}
    /\ Sends(text, calls # {}, finish, usage)
    /\ LET s0 == [w |-> [writer EXCEPT !.usage = Merged(writer, usage)], c |-> client]
           s1 == IF text THEN GeminiText(s0) ELSE s0
           s2 == IF calls = {} THEN s1 ELSE GeminiCall(s1, CHOOSE k \in calls : TRUE)
       IN  Handled(IF finish THEN GeminiFinish(s2) ELSE s2)

\* An Anthropic stream is relayed as it is; one block stands for its content.
AnthropicChunk(finish, usage) ==
    /\ style = "anthropic"
    /\ ~upstream.finish
    /\ Sends(TRUE, FALSE, finish, usage)
    /\ Handled([w |-> [writer EXCEPT !.next = 1, !.usage = Merged(writer, usage)],
                c |-> LET c == IF writer.next = 0 THEN BlockStart(client, 0) ELSE client
                      IN  IF finish THEN MessageStop(BlockStop(c, 0)) ELSE BlockDelta(c, 0)])

\* emitConvertedAsSSE: a block, and after the last one the end.
BufferedBlock ==
    /\ style = "buffered"
    /\ Sends(TRUE, FALSE, FALSE, "none")
    /\ Handled([w |-> [writer EXCEPT !.next = @ + 1],
                c |-> BlockStop(BlockDelta(BlockStart(client, writer.next), writer.next), writer.next)])
BufferedEnd ==
    /\ style = "buffered" /\ upstream.at = "open"
    /\ upstream' = [at |-> "ended", finish |-> TRUE, usage |-> "full"]
    /\ Handled([w |-> [writer EXCEPT !.usage = "full"], c |-> MessageStop(client)])
    /\ UNCHANGED <<style, chunks>>

\* A last line that was not terminated counts for its usage only, whatever
\* else it carries; of Anthropic's events only message_delta does.
Leftover(w, usage) ==
    IF style = "anthropic" /\ usage = "part" THEN w.usage ELSE Merged(w, usage)

\* "end", with an unterminated last line or without.
End(usage) ==
    /\ style # "buffered" /\ upstream.at = "open"
    /\ MayReport(usage)
    /\ upstream' = [upstream EXCEPT !.at = "ended", !.usage = IF usage = "none" THEN @ ELSE usage]
    /\ LET s == [w |-> [writer EXCEPT !.usage = Leftover(writer, usage)],
                 c |-> client]
       IN  Handled(IF style = "gemini" THEN GeminiEnd(s) ELSE s)
    /\ UNCHANGED <<style, chunks>>

\* "error": the response is ended as it is.
Error ==
    /\ style # "buffered" /\ upstream.at = "open"
    /\ upstream' = [upstream EXCEPT !.at = "failed"]
    /\ UNCHANGED <<style, chunks, writer, client>>

StreamNext ==
    \/ \E text, finish \in BOOLEAN, calls \in {{}} \cup {{k} : k \in Keys}, usage \in Reported :
          \/ OpenAiChunk(text, calls, finish, usage)
          \/ GeminiChunk(text, calls, finish, usage)
    \/ \E finish \in BOOLEAN, usage \in Reported : AnthropicChunk(finish, usage)
    \/ BufferedBlock
    \/ BufferedEnd
    \/ \E usage \in Reported : End(usage)
    \/ Error

StreamSpec == StreamInit /\ [][StreamNext]_streamVars
-----------------------------------------------------------------------------
(***************************************************************************)
(* Properties.                                                             *)
(***************************************************************************)

StreamTypeOK ==
    /\ style \in {"openai", "gemini", "anthropic", "buffered"}
    /\ chunks \in Nat
    /\ upstream \in [at : {"open", "ended", "failed"}, finish : BOOLEAN,
                     usage : {"none", "part", "full"}]
    /\ writer \in [next : Nat, text : BOOLEAN, block : [Keys -> Nat \cup {NoBlock}],
                   finishSent : BOOLEAN, usage : {"none", "part", "full"}]
    /\ client \in [started : Nat, open : SUBSET Nat, stopped : BOOLEAN, broken : BOOLEAN]

\* Whatever order text, calls and the finish arrive in, blocks are numbered in
\* sequence, deltas and stops go to blocks that are open, and nothing follows
\* the one message_stop.
StreamWellFormed == ~client.broken

\* A message whose finish has been handled is complete for the client: every
\* block is closed and the message stopped; and when the stream then ends, what
\* it cost is known as far as the provider said, in an unterminated line too.
FinishedIsDelivered ==
    upstream.finish =>
        /\ client.open = {} /\ client.stopped
        /\ upstream.at = "ended" => writer.usage = upstream.usage
===============================================================================
