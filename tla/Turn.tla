-------------------------------- MODULE Turn --------------------------------
(* One model turn of the engine over HTTP: retry_with_policy in            *)
(* src/src/engine/retry.ts around retry_turn in generate.ts, around one    *)
(* request of a native provider (providers/native_shared.ts) whose         *)
(* answer a dialect's aggregator turns into chunks for on_chunk and into   *)
(* one result.                                                             *)
(*                                                                         *)
(* An answer is a list of blocks.  The server sends it in frames, and may  *)
(* stop between two of them or within one.  A block of thinking is one     *)
(* entry, signed where the wire signs them; a bare one is a string beside  *)
(* the entries.  What a frame holds beside the block it is about is left   *)
(* out, and so is the length of every delay.                               *)
EXTENDS Naturals, Sequences, SequencesExt, FiniteSets

CONSTANTS
  Dialects,     \* the wire formats, among "anthropic", "ai_sdk", "ollama", "openrouter", which is
                \* the chat format with reasoning_details, and "chat", without them
  MaxAttempts,  \* max_attempts
  RetryOn,      \* retry_on
  MaxBlocks     \* bound of the model: the blocks of an answer

VARIABLES
  dialect, consumer, budget,  \* the wire format; whether there is an on_chunk, a turn_timeout_ms
  answer,                     \* the blocks that the model generates
  phase,
  attempt,                    \* how many attempts have begun
  user_aborted, timed_out,    \* args.abort, and the deadline of this attempt
  sent, pending, tail,        \* frames sent, frames read and not handled, how the body ended
  content, closed, stopped,   \* the aggregator
  out,                        \* what is left to do for the frame in hand
  stamped,                    \* stamp.at() is set
  failed,                     \* the dispatcher's callback has thrown
  failure,                    \* what the attempt threw
  seen,                       \* the chunks on_chunk was given
  outcome                     \* of the turn

vars == <<dialect, consumer, budget, answer, phase, attempt, user_aborted, timed_out, sent, pending,
          tail, content, closed, stopped, out, stamped, failed, failure, seen, outcome>>

options == <<dialect, consumer, budget, answer>>

wire == <<sent, pending, tail>>

aggregator == <<content, closed, stopped>>

Classified == {"rate_limit", "provider_5xx", "network", "timeout"}

Answers == UNION {[1 .. n -> {"text", "thinking", "bare", "call", "malformed"}] : n \in 0 .. MaxBlocks}

Init ==
  /\ dialect \in Dialects /\ consumer \in BOOLEAN /\ budget \in BOOLEAN
  /\ answer \in Answers
  /\ dialect \in {"ollama", "ai_sdk"} => \A b \in DOMAIN answer : answer[b] # "malformed"
  /\ dialect # "openrouter" => \A b \in DOMAIN answer : answer[b] # "bare"
  /\ phase = "ready" /\ attempt = 0
  /\ user_aborted = FALSE /\ timed_out = FALSE
  /\ sent = 0 /\ pending = <<>> /\ tail = "open"
  /\ content = <<>> /\ closed = {} /\ stopped = FALSE
  /\ out = <<>> /\ stamped = FALSE /\ failed = FALSE
  /\ failure = "none" /\ seen = <<>> /\ outcome = "none"

----------------------------------------------------------------------------
(* What the server sends. *)

Calls == {"call", "malformed"}

IsCall(b) == answer[b] \in Calls

Frame(kind, b) == [kind |-> kind, block |-> b]

(* The frames of the blocks in this order: those of f(b) for each. *)
Each(order, f(_)) == FlattenSeq([i \in DOMAIN order |-> f(order[i])])

Order == [b \in DOMAIN answer |-> b]

(* Chat servers may open the calls out of index order, all of them before  *)
(* the arguments of any.                                                   *)
ChatOrder == SelectSeq(Order, LAMBDA b : ~IsCall(b)) \o Reverse(SelectSeq(Order, IsCall))

FrameList ==
  CASE dialect = "anthropic" ->
         LET block(b) == <<Frame("start", b), Frame("delta", b), Frame("stop", b)>>
         IN Each(Order, block) \o <<Frame("done", 0)>>
    [] dialect \in {"chat", "openrouter"} ->
         LET first(b) == <<Frame(IF IsCall(b) THEN "start" ELSE "delta", b)>>
             arguments(b) == IF IsCall(b) THEN <<Frame("delta", b)>> ELSE <<>>
         IN Each(ChatOrder, first) \o Each(ChatOrder, arguments) \o <<Frame("finish", 0), Frame("done", 0)>>
    [] dialect = "ollama" ->
         LET whole(b) == <<Frame(IF IsCall(b) THEN "whole" ELSE "delta", b)>>
         IN Each(Order, whole) \o <<Frame("done", 0)>>
    [] dialect = "ai_sdk" ->
         LET block(b) == IF IsCall(b) THEN <<Frame("start", b), Frame("delta", b), Frame("stop", b)>>
                         ELSE <<Frame("delta", b)>>
         IN Each(Order, block) \o <<Frame("done", 0)>>

(* Mutant: the deadline does not reach the request. *)
AbortingUnlinked == user_aborted \/ failed

(* The request's own signal: cancel_on_turn_abort, or a callback that threw. *)
Aborting == user_aborted \/ timed_out \/ failed

InAttempt == phase \in {"fetching", "body", "reading", "handling", "consumer"}

Fail(what) ==
  /\ phase' = "failed" /\ failure' = what
  /\ out' = <<>>

----------------------------------------------------------------------------
(* An attempt. *)

CallOnce ==
  /\ phase = "ready" /\ ~user_aborted
  /\ phase' = "fetching"
  /\ attempt' = attempt + 1
  /\ timed_out' = FALSE /\ stamped' = FALSE
  /\ sent' = 0 /\ pending' = <<>> /\ tail' = "open"
  /\ content' = <<>> /\ closed' = {} /\ stopped' = FALSE
  /\ UNCHANGED <<options, user_aborted, out, failed, failure, seen, outcome>>

AbortedAtTheTop ==
  /\ phase = "ready" /\ user_aborted
  /\ phase' = "over" /\ outcome' = "aborted"
  /\ UNCHANGED <<options, attempt, user_aborted, timed_out, wire, aggregator, out, stamped, failed, failure, seen>>

(* A read that rejects is the abort's doing, or a network failure. *)
rethrow_network_failure == Fail(IF Aborting THEN "abort" ELSE "network")

ConnectionFails ==
  /\ phase \in {"fetching", "body", "reading"}
  /\ rethrow_network_failure
  /\ UNCHANGED <<options, attempt, user_aborted, timed_out, wire, aggregator, stamped, failed, seen, outcome>>

response_error ==
  /\ phase = "fetching" /\ ~Aborting
  /\ \E status \in {"rate_limit", "provider_5xx", "permanent"} : Fail(status)
  /\ UNCHANGED <<options, attempt, user_aborted, timed_out, wire, aggregator, stamped, failed, seen, outcome>>

(* A stream, or a whole JSON body where the server does not stream. *)
Responds ==
  /\ phase = "fetching" /\ ~Aborting
  /\ phase' \in (IF dialect = "ai_sdk" THEN {"reading"} ELSE {"reading", "body"})
  /\ UNCHANGED <<options, attempt, user_aborted, timed_out, wire, aggregator, out, stamped, failed, failure, seen, outcome>>

IsWellFormed == \A b \in DOMAIN answer : answer[b] # "malformed"

(* Thinking is kept where the wire takes it back with the next request. *)
Keeps(b) ==
  \/ answer[b] \in {"text", "call", "malformed"}
  \/ answer[b] = "thinking" /\ dialect \in {"anthropic", "openrouter", "ai_sdk"}

TextsOf(s) == SelectSeq(s, LAMBDA b : answer[b] = "text")

ThoughtsOf(s) == SelectSeq(s, LAMBDA b : answer[b] \in {"thinking", "bare"})

CallsOf(s) == SelectSeq(s, IsCall)

(* The result of what was kept: but where the wire has blocks too, what it *)
(* thought, its text and its calls are fields of their own.                *)
Parsed(kept) ==
  IF dialect \in {"anthropic", "ai_sdk"} THEN kept
  ELSE ThoughtsOf(kept) \o TextsOf(kept) \o SortSeq(CallsOf(kept), <)

read_json_body ==
  /\ phase = "body" /\ ~Aborting
  /\ \/ /\ IsWellFormed
        /\ phase' = "over" /\ outcome' = "ok"
        /\ content' = Parsed(SelectSeq(Order, Keeps))
        /\ UNCHANGED <<failure, out>>
     \/ ~IsWellFormed /\ Fail("permanent") /\ UNCHANGED <<content, outcome>>
  /\ UNCHANGED <<options, attempt, user_aborted, timed_out, wire, closed, stopped, stamped, failed, seen>>

(* A read holds one frame or two, so that frames are in hand when an abort *)
(* comes; the SDK hands over its parts one by one.                         *)
next_bytes ==
  /\ phase = "reading" /\ ~Aborting
  /\ \E n \in 1 .. (IF dialect = "ai_sdk" THEN 1 ELSE 2) :
       /\ sent + n <= Len(FrameList)
       /\ pending' = SubSeq(FrameList, sent + 1, sent + n)
       /\ sent' = sent + n
  /\ phase' = "handling"
  /\ UNCHANGED <<options, attempt, user_aborted, timed_out, tail, aggregator, out, stamped, failed, failure, seen, outcome>>

(* The body ends, with every frame sent, between two frames, or within     *)
(* one: flush() hands over what it has of that one.  The SDK ends a cut    *)
(* stream with a finish-step of its own.                                   *)
flush ==
  /\ phase = "reading" /\ ~Aborting /\ tail = "open"
  /\ \/ tail' = "clean" /\ pending' = IF dialect = "ai_sdk" /\ sent < Len(FrameList) THEN <<Frame("cut_off", 0)>> ELSE <<>>
     \/ /\ dialect # "ai_sdk" /\ sent < Len(FrameList)
        /\ tail' = "garbled" /\ pending' = <<Frame("garbled", 0)>>
  /\ phase' = "handling"
  /\ UNCHANGED <<options, attempt, user_aborted, timed_out, sent, aggregator, out, stamped, failed, failure, seen, outcome>>

(* An error that the server reports in the stream: but of ollama's, it has *)
(* a status or a type, which may be of a kind that is retried.             *)
stream_event_error ==
  /\ phase = "reading" /\ ~Aborting
  /\ \E what \in {"rate_limit", "provider_5xx", "permanent"} : (dialect = "ollama" => what = "permanent") /\ Fail(what)
  /\ UNCHANGED <<options, attempt, user_aborted, timed_out, wire, aggregator, stamped, failed, seen, outcome>>

----------------------------------------------------------------------------
(* The aggregators.  Each handler gives the chunks that one frame leads to *)
(* and what it adds to the content; a Raise among the chunks is where the  *)
(* handler throws.                                                         *)

Chunk(kind, b) == [kind |-> kind, block |-> b, attempt |-> attempt]

Raise(what) == [kind |-> "raise", block |-> 0, what |-> what]

DeltaChunk(b) ==
  Chunk(CASE IsCall(b) -> "input_delta" [] answer[b] = "text" -> "text" [] OTHER -> "reasoning", b)

EndChunk(b) == IF answer[b] = "malformed" THEN Raise("permanent") ELSE Chunk("end", b)

Finish == <<Chunk("step_finish", 0)>>

Opens(b) == content' = Append(content, b) /\ UNCHANGED <<closed, stopped>>

Stops == stopped' = TRUE /\ UNCHANGED content

HandleAnthropic(f) ==
  \/ f.kind = "start" /\ Opens(f.block) /\ out' = IF IsCall(f.block) THEN <<Chunk("start", f.block)>> ELSE <<>>
  \/ f.kind = "delta" /\ UNCHANGED aggregator /\ out' = <<DeltaChunk(f.block)>>
  \/ f.kind = "stop" /\ closed' = closed \union {f.block} /\ UNCHANGED <<content, stopped>>
       /\ out' = IF IsCall(f.block) THEN <<EndChunk(f.block)>> ELSE <<>>
  \/ f.kind = "done" /\ Stops /\ UNCHANGED closed /\ out' = Finish

OpenCalls == {b \in DOMAIN answer : IsCall(b) /\ Contains(content, b) /\ b \notin closed}

(* They are closed in the order of their indices. *)
close_tool_calls ==
  [i \in 1 .. Cardinality(OpenCalls) |->
    EndChunk(CHOOSE b \in OpenCalls : Cardinality({c \in OpenCalls : c <= b}) = i)]

(* A dialect without reasoning_details reads no reasoning at all. *)
Reads(b) == dialect = "openrouter" \/ answer[b] # "thinking"

HandleChat(f) ==
  \/ f.kind = "start" /\ Opens(f.block) /\ out' = <<Chunk("start", f.block)>>
  \/ f.kind = "delta" /\ out' = (IF Reads(f.block) THEN <<DeltaChunk(f.block)>> ELSE <<>>)
       /\ IF IsCall(f.block) \/ ~Keeps(f.block) THEN UNCHANGED aggregator ELSE Opens(f.block)
  \/ f.kind = "finish" /\ out' = close_tool_calls
       /\ closed' = closed \union OpenCalls /\ UNCHANGED <<content, stopped>>
  \/ f.kind = "done" /\ Stops /\ out' = close_tool_calls \o Finish
       /\ closed' = closed \union OpenCalls

HandleOllama(f) ==
  \/ f.kind = "delta" /\ out' = <<DeltaChunk(f.block)>>
       /\ IF Keeps(f.block) THEN Opens(f.block) ELSE UNCHANGED aggregator
  \/ f.kind = "whole" /\ Opens(f.block) /\ out' = <<Chunk("start", f.block), EndChunk(f.block)>>
  \/ f.kind = "done" /\ Stops /\ UNCHANGED closed /\ out' = Finish

HandleSdk(f) ==
  \/ f.kind = "start" /\ UNCHANGED aggregator /\ out' = <<Chunk("start", f.block)>>
  \/ f.kind = "delta" /\ out' = <<DeltaChunk(f.block)>>
       /\ IF IsCall(f.block) THEN UNCHANGED aggregator ELSE Opens(f.block)
  \/ f.kind = "stop" /\ Opens(f.block) /\ out' = <<EndChunk(f.block)>>
  \/ f.kind = "done" /\ Stops /\ UNCHANGED closed /\ out' = Finish
  \/ f.kind = "cut_off" /\ UNCHANGED aggregator /\ out' = Finish

Handle ==
  /\ phase = "handling" /\ out = <<>> /\ pending # <<>>
  /\ pending' = Tail(pending)
  /\ LET f == Head(pending) IN
       \/ f.kind = "garbled" /\ Fail("permanent") /\ UNCHANGED aggregator
       \/ /\ f.kind # "garbled"
          /\ CASE dialect = "anthropic" -> HandleAnthropic(f)
               [] dialect \in {"chat", "openrouter"} -> HandleChat(f)
               [] dialect = "ollama" -> HandleOllama(f)
               [] dialect = "ai_sdk" -> HandleSdk(f)
          /\ UNCHANGED <<phase, failure>>
  /\ UNCHANGED <<options, attempt, user_aborted, timed_out, sent, tail, stamped, failed, seen, outcome>>

(* dispatch_chunk: the stamp, then the consumer, whose promise is awaited. *)
dispatch_chunk ==
  /\ phase = "handling" /\ out # <<>> /\ Head(out).kind # "raise"
  /\ stamped' = TRUE
  /\ IF consumer /\ ~failed
     THEN seen' = Append(seen, Head(out)) /\ phase' = "consumer"
     ELSE UNCHANGED <<seen, phase>>
  /\ out' = Tail(out)
  /\ UNCHANGED <<options, attempt, user_aborted, timed_out, wire, aggregator, failed, failure, outcome>>

on_chunk_settles ==
  /\ phase = "consumer"
  /\ \/ phase' = "handling" /\ UNCHANGED <<failed, failure, out>>
     \/ failed' = TRUE /\ Fail("on_chunk_error")
  /\ UNCHANGED <<options, attempt, user_aborted, timed_out, wire, aggregator, stamped, seen, outcome>>

HandlerThrows ==
  /\ phase = "handling" /\ out # <<>> /\ Head(out).kind = "raise"
  /\ Fail(Head(out).what)
  /\ UNCHANGED <<options, attempt, user_aborted, timed_out, wire, aggregator, stamped, failed, seen, outcome>>

ReadsOn ==
  /\ phase = "handling" /\ out = <<>> /\ pending = <<>> /\ tail = "open"
  /\ phase' = "reading"
  /\ UNCHANGED <<options, attempt, user_aborted, timed_out, wire, aggregator, out, stamped, failed, failure, seen, outcome>>

complete ==
  /\ phase = "handling" /\ out = <<>> /\ pending = <<>> /\ tail # "open"
  /\ \/ stopped /\ phase' = "over" /\ outcome' = "ok" /\ content' = Parsed(content) /\ UNCHANGED <<failure, out>>
     \/ ~stopped /\ Fail("network") /\ UNCHANGED <<content, outcome>>
  /\ UNCHANGED <<options, attempt, user_aborted, timed_out, wire, closed, stopped, stamped, failed, seen>>

----------------------------------------------------------------------------
(* Between attempts. *)

(* Mutant: has_streamed is not asked. *)
ThrownAnyway ==
  IF failure = "on_chunk_error" THEN "on_chunk_error"
  ELSE IF user_aborted THEN "aborted"
  ELSE IF timed_out THEN "timeout"
  ELSE failure

(* What the catch of retry_turn throws, by the first test that holds. *)
Thrown ==
  IF failure = "on_chunk_error" THEN "on_chunk_error"
  ELSE IF user_aborted THEN "aborted"
  ELSE IF consumer /\ stamped THEN "interrupted"
  ELSE IF timed_out THEN "timeout"
  ELSE failure

Caught ==
  /\ phase = "failed"
  /\ IF Thrown \in Classified /\ Thrown \in RetryOn /\ attempt < MaxAttempts
     THEN phase' = "backoff" /\ UNCHANGED outcome
     ELSE phase' = "over" /\ outcome' = Thrown
  /\ UNCHANGED <<options, attempt, user_aborted, timed_out, wire, aggregator, out, stamped, failed, failure, seen>>

wait_with_abort ==
  /\ phase = "backoff"
  /\ \/ user_aborted /\ phase' = "over" /\ outcome' = "aborted"
     \/ ~user_aborted /\ phase' = "ready" /\ UNCHANGED outcome
  /\ UNCHANGED <<options, attempt, user_aborted, timed_out, wire, aggregator, out, stamped, failed, failure, seen>>

TimesOut ==
  /\ budget /\ ~timed_out /\ InAttempt
  /\ timed_out' = TRUE
  /\ UNCHANGED <<options, phase, attempt, user_aborted, wire, aggregator, out, stamped, failed, failure, seen, outcome>>

UserAborts ==
  /\ ~user_aborted /\ phase # "over"
  /\ user_aborted' = TRUE
  /\ UNCHANGED <<options, phase, attempt, timed_out, wire, aggregator, out, stamped, failed, failure, seen, outcome>>

Engine ==
  \/ CallOnce \/ AbortedAtTheTop \/ Handle \/ dispatch_chunk \/ HandlerThrows \/ ReadsOn \/ complete
  \/ Caught \/ wait_with_abort

Server ==
  ConnectionFails \/ response_error \/ Responds \/ read_json_body \/ next_bytes \/ flush \/ stream_event_error

Next == Engine \/ Server \/ on_chunk_settles \/ TimesOut \/ UserAborts

Spec == Init /\ [][Next]_vars

(* Nothing makes a server answer.  fetch and a read reject once their      *)
(* signal is aborted, timers fire, and a consumer settles.                 *)
Proceed == Engine \/ on_chunk_settles \/ (Aborting /\ ConnectionFails)

FairSpec == Spec /\ WF_vars(Proceed) /\ WF_vars(TimesOut)

----------------------------------------------------------------------------
(* Properties.                                                             *)

About(b) == LET mine == SelectSeq(seen, LAMBDA c : c.block = b) IN [i \in DOMAIN mine |-> mine[i].kind]

(* A turn that ends well returns the whole answer, however often it was    *)
(* cut before and whether it was streamed: its texts and its calls, each   *)
(* in their order, and of its thinking the entries that the wire takes     *)
(* back; where the wire has blocks, as it is.  The chunks a consumer was   *)
(* given of a streamed one tell the same, and what was thought: each call  *)
(* opens, is filled and closes once, in that order, the texts come in      *)
(* order, and the last chunk, and no other, is step_finish.                *)
StreamTellsTheResult ==
  outcome = "ok" =>
    /\ TextsOf(content) = TextsOf(Order) /\ CallsOf(content) = CallsOf(Order)
    /\ ThoughtsOf(content) = SelectSeq(Order, LAMBDA b : answer[b] = "thinking" /\ dialect \notin {"chat", "ollama"})
    /\ dialect \in {"anthropic", "ai_sdk"} => content = Order
    /\ consumer /\ tail # "open" =>
         /\ Last(seen).kind = "step_finish" /\ About(0) = <<"step_finish">>
         /\ LET texts == SelectSeq(seen, LAMBDA c : c.kind = "text")
            IN  [i \in DOMAIN texts |-> texts[i].block] = TextsOf(Order)
         /\ \A b \in DOMAIN answer :
              CASE IsCall(b) -> About(b) \in {<<"start", "input_delta", "end">>, <<"start", "end">>}
                [] answer[b] = "text" -> About(b) = <<"text">>
                [] OTHER -> About(b) = IF dialect = "chat" THEN <<>> ELSE <<"reasoning">>

(* A consumer is never shown two attempts: once it has seen a chunk of     *)
(* one, no other attempt begins, whatever the first one failed of.         *)
OneAttemptIsSeen == seen # <<>> => seen[1].attempt = attempt

(* A turn ends: when its caller aborts it, and under a turn timeout even   *)
(* if the server falls silent.                                             *)
TurnEnds == budget \/ user_aborted ~> phase = "over"

=============================================================================
