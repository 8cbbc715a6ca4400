------------------------------ MODULE UiStream ------------------------------
(* The UI message stream of a run, src/src/ui/to_ui_message_stream.ts: the *)
(* model_chunk events of run.stream become parts, and text and reasoning   *)
(* are put in blocks that parts open and close.                            *)
(*                                                                         *)
(* The model calls of the run are steps in a row, or members of a parallel *)
(* one; one that follows a call that failed is its next try, or the backup *)
(* of a fallback.  Each numbers its steps from 0.  The channel between the *)
(* run and the stream drops its oldest event when it is full.              *)
EXTENDS Naturals, Sequences, FiniteSets, SequencesExt

CONSTANTS
  Calls,      \* the model calls, numbered in the order a sequence makes them
  MaxSteps,   \* bound of the model: the steps of a call
  MaxChunks,  \* bound of the model: the chunks of a step
  HighWater   \* high_water_mark of the channel

VARIABLES
  parallel,   \* whether the calls run side by side
  call,       \* where each call stands
  events,     \* the channel's buffer
  lost,       \* it has dropped an event
  settled,    \* of the run's result: "no", "ok" or "failed"
  open,       \* the blocks that are open
  tool_names, \* the calls whose tool is known by name
  client,     \* what the client shows: the blocks open there, each with the call its text is of
  broken,     \* how what it was sent breaks the protocol
  over        \* the stream has ended

vars == <<parallel, call, events, lost, settled, open, tool_names, client, broken, over>>

sent == <<client, broken, over>>

(* A call: its step, how many chunks of it, and its tool call's stage. *)
Idle == [state |-> "idle", step |-> 0, chunks |-> 0, tool |-> "none"]

Init ==
  /\ parallel \in BOOLEAN
  /\ call = [c \in Calls |-> Idle]
  /\ events = <<>> /\ lost = FALSE
  /\ settled = "no"
  /\ open = {} /\ tool_names = {}
  /\ client = <<>> /\ broken = {} /\ over = FALSE

----------------------------------------------------------------------------
(* The run. *)

Chunk(c, kind) == [kind |-> kind, call |-> c, step |-> call[c].step]

Record(chunk) ==
  /\ events' = Append(IF Len(events) >= HighWater THEN Tail(events) ELSE events, chunk)
  /\ lost' = (lost \/ Len(events) >= HighWater)

Ended(c) == call[c].state \in {"over", "failed"}

MayBegin(c) == parallel \/ \A d \in Calls : d < c => Ended(d)

Begins(c) ==
  /\ settled = "no" /\ call[c].state = "idle" /\ MayBegin(c)
  /\ call' = [call EXCEPT ![c].state = "on"]
  /\ UNCHANGED <<parallel, events, lost, settled, open, tool_names, sent>>

Emits(c) ==
  /\ settled = "no" /\ call[c].state = "on" /\ call[c].chunks < MaxChunks
  /\ \E kind \in {"text", "reasoning", "tool_call_start", "tool_call_end"} :
       /\ kind = "tool_call_start" => call[c].tool = "none"
       /\ kind = "tool_call_end" <=> call[c].tool = "open"
       /\ Record(Chunk(c, kind))
       /\ call' = [call EXCEPT ![c].chunks = @ + 1,
                     ![c].tool = CASE kind = "tool_call_start" -> "open" [] kind = "tool_call_end" -> "closed" [] OTHER -> @]
  /\ UNCHANGED <<parallel, settled, open, tool_names, sent>>

(* The turn's step_finish, and then its tool's result, if it called one. *)
StepFinishes(c) ==
  /\ settled = "no" /\ call[c].state = "on" /\ call[c].tool \in {"none", "closed"}
  /\ Record(Chunk(c, "step_finish"))
  /\ call' = [call EXCEPT ![c].state = IF call[c].tool = "none" THEN "last" ELSE "tools"]
  /\ UNCHANGED <<parallel, settled, open, tool_names, sent>>

ToolAnswers(c) ==
  /\ settled = "no" /\ call[c].state = "tools"
  /\ Record(Chunk(c, "tool_result"))
  /\ call' = [call EXCEPT ![c] = IF @.step + 1 < MaxSteps
                                  THEN [Idle EXCEPT !.state = "on", !.step = @ + call[c].step + 1]
                                  ELSE [@ EXCEPT !.state = "last"]]
  /\ UNCHANGED <<parallel, settled, open, tool_names, sent>>

Finishes(c) ==
  /\ settled = "no" /\ call[c].state = "last"
  /\ Record(Chunk(c, "finish"))
  /\ call' = [call EXCEPT ![c].state = "over"]
  /\ UNCHANGED <<parallel, settled, open, tool_names, sent>>

(* A call fails, with no word of it among the chunks; the run fails with   *)
(* it, or goes on, with a retry or a fallback around the call.             *)
Fails(c) ==
  /\ settled = "no" /\ call[c].state \in {"on", "tools", "last"}
  /\ call' = [call EXCEPT ![c].state = "failed"]
  /\ settled' \in {"no", "failed"}
  /\ UNCHANGED <<parallel, events, lost, open, tool_names, sent>>

RunSettles ==
  /\ settled = "no" /\ \A c \in Calls : Ended(c)
  /\ settled' = "ok"
  /\ UNCHANGED <<parallel, call, events, lost, open, tool_names, sent>>

----------------------------------------------------------------------------
(* The stream. *)

Block(kind, step) == <<kind, step>>

(* Text goes in a block that is open; there, it is "mixed" with another    *)
(* call's, or goes on where a call that failed has stopped.                *)
Delta(b, opens, c) ==
  /\ client' = [o \in DOMAIN client \union {b} |-> IF o = b THEN c ELSE client[o]]
  /\ broken' = broken
       \union (IF opens = (b \in DOMAIN client) THEN {"block"} ELSE {})
       \union (IF ~opens /\ b \in DOMAIN client /\ client[b] # c
               THEN {IF call[client[b]].state = "failed" THEN "taken_up" ELSE "mixed"} ELSE {})

End(blocks) ==
  /\ client' = [o \in DOMAIN client \ blocks |-> client[o]]
  /\ broken' = IF blocks \subseteq DOMAIN client THEN broken ELSE broken \union {"block"}

(* Mutant: a step's blocks are ended, and stay among the open ones. *)
close_step_blocks_kept(step) == open' = open /\ End({b \in open : b[2] = step})

close_step_blocks(step) ==
  LET mine == {b \in open : b[2] = step} IN open' = open \ mine /\ End(mine)

close_open_blocks == open' = {} /\ End(open)

(* A piece of text or reasoning, in the block of its step. *)
InBlock(chunk) ==
  LET b == Block(chunk.kind, chunk.step) IN
  /\ Delta(b, b \notin open, chunk.call)
  /\ open' = open \union {b}

map_chunk(chunk) ==
  LET tool == <<chunk.call, chunk.step>> IN
  \/ chunk.kind \in {"text", "reasoning"} /\ InBlock(chunk) /\ UNCHANGED tool_names
  \/ chunk.kind = "tool_call_start" /\ tool_names' = tool_names \union {tool} /\ UNCHANGED <<open, client, broken>>
  \/ /\ chunk.kind = "tool_call_end"
     /\ broken' = IF tool \in tool_names THEN broken ELSE broken \union {"nameless"}
     /\ UNCHANGED <<open, client, tool_names>>
  \/ chunk.kind = "tool_result" /\ UNCHANGED <<open, client, broken, tool_names>>
  \/ chunk.kind = "step_finish" /\ close_step_blocks(chunk.step) /\ UNCHANGED tool_names
  \/ chunk.kind = "finish" /\ close_open_blocks /\ UNCHANGED tool_names

to_ui_message_chunks ==
  /\ events # <<>>
  /\ map_chunk(Head(events))
  /\ events' = Tail(events)
  /\ UNCHANGED <<parallel, call, lost, settled, over>>

(* The events are over: what is open is closed, and then the result awaited. *)
StreamEnds ==
  /\ settled # "no" /\ events = <<>> /\ ~over
  /\ close_open_blocks
  /\ over' = TRUE
  /\ UNCHANGED <<parallel, call, events, lost, settled, tool_names>>

Run == \/ \E c \in Calls : Begins(c) \/ Emits(c) \/ StepFinishes(c) \/ ToolAnswers(c) \/ Finishes(c) \/ Fails(c)
       \/ RunSettles

Stream == to_ui_message_chunks \/ StreamEnds

Next == Run \/ Stream

Spec == Init /\ [][Next]_vars

----------------------------------------------------------------------------
(* Properties.                                                             *)

(* What a client is sent is a well-formed message, however the calls       *)
(* interleave, whatever the channel dropped and however the run ends:      *)
(* pieces come within a block that is open, no block opens twice, all are  *)
(* closed at the end.  As long as the calls came one after the other and   *)
(* no event was lost, the text of a block is of one call, after that of    *)
(* calls that failed in it: a call that fails leaves its blocks open, and  *)
(* the next try's text goes on in them.  A tool call is named as long as   *)
(* no event was lost.                                                      *)
StreamIsWellFormed ==
  /\ "block" \notin broken
  /\ over => DOMAIN client = {}
  /\ "mixed" \in broken => parallel \/ lost
  /\ "nameless" \in broken => lost
=============================================================================
