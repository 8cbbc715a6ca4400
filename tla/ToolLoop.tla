------------------------------ MODULE ToolLoop ------------------------------
(* One generate call above its transport: the tool loop of                 *)
(* src/src/engine/tool_loop.ts and the schema repairs that run it again,   *)
(* src/src/engine/generate.ts.                                             *)
(*                                                                         *)
(* The model answers whatever it likes.  A call is known by the step it    *)
(* was made in and its place there; a message by its kind and the calls it *)
(* is about.  The caller may abort at any moment, and every function it    *)
(* brings along may throw.                                                 *)
EXTENDS Integers, Sequences, FiniteSets

CONSTANTS
  Tools,        \* the names of the call's tools
  Strangers,    \* names that no tool has
  ReadOnly,     \* tools with read_only
  EndsTurn,     \* tools with ends_turn
  Gated,        \* tools with needs_approval: true
  Judged,       \* tools whose needs_approval is a predicate
  Options,      \* the options that a call may have, see CallOptions
  MaxCalls      \* bound of the model: the calls that a turn makes

(* What the caller sets.  A call without max_tool_calls_per_step has a cap *)
(* of at least MaxCalls.  on_tool_approval, on_chunk and schema say only   *)
(* whether the call has one.                                               *)
CallOptions ==
  [max_steps : Nat, max_tool_calls_per_step : Nat \ {0}, tool_error_policy : {"feed_back", "throw"},
   truncated_turn_policy : {"stop", "continue"}, tool_call_repair_attempts : Nat,
   schema_repair_attempts : Nat, schema : BOOLEAN, on_tool_approval : BOOLEAN, on_chunk : BOOLEAN]

ASSUME ToolLoopAssumption ==
  /\ Tools \cap Strangers = {}
  /\ ReadOnly \subseteq Tools /\ EndsTurn \subseteq Tools
  /\ Gated \subseteq Tools /\ Judged \subseteq Tools \ Gated
  /\ Options \subseteq CallOptions /\ MaxCalls \in Nat

VARIABLES
  options,      \* those of this call
  phase,        \* where the call waits
  step_index,
  steps,        \* how many step records the call has
  messages,
  made,         \* the calls of each turn, in the order of the steps
  next,         \* the call of this turn that is to be processed
  feed,         \* the calls whose results wait to join the messages
  terminal_fired,
  all_records,  \* what became of each call
  salvage_remaining,
  repair_remaining,
  aborted,
  outcome,      \* the finish_reason it resolved with, or what it threw
  asked,        \* the calls that on_tool_approval was asked about
  granted,      \* those that it granted
  ran           \* the calls whose execute was called, in order

turn == <<made, next, feed, terminal_fired>>
books == <<steps, messages, salvage_remaining, repair_remaining>>
caller == <<options, asked, granted>>
vars == <<phase, step_index, turn, books, all_records, aborted, outcome, caller, ran>>

Names == Tools \cup Strangers
Id == (0 .. options.max_steps - 1) \X (1 .. MaxCalls)
Message(kind, ids) == [kind |-> kind, ids |-> ids]
CallLists(S) == UNION {[1 .. n -> S] : n \in 0 .. MaxCalls}

(* What a turn brings.  hidden are the calls that salvage would find in a  *)
(* text that has none.                                                     *)
NoCalls(finish, paused) == [calls |-> <<>>, finish |-> finish, paused |-> paused, hidden |-> <<>>]
WithCalls(c) == [NoCalls("tool_calls", FALSE) EXCEPT !.calls = c]
WithHidden(f, c) == [NoCalls(f, FALSE) EXCEPT !.hidden = c]
TurnResults ==
  {WithCalls(c) : c \in CallLists(Names) \ {<<>>}}
  \cup {WithHidden("stop", c) : c \in CallLists(Tools)} \cup {WithHidden("length", c) : c \in CallLists(Tools)}
  \cup {NoCalls("stop", TRUE), NoCalls("content_filter", FALSE)}

Init ==
  /\ options \in Options
  /\ phase = "turn"
  /\ step_index = 0
  /\ steps = 0
  /\ messages = <<>>
  /\ made = <<>>
  /\ next = 1
  /\ feed = <<>>
  /\ terminal_fired = FALSE
  /\ all_records = <<>>
  /\ salvage_remaining = options.tool_call_repair_attempts
  /\ repair_remaining = options.schema_repair_attempts
  /\ aborted = FALSE
  /\ outcome = "none"
  /\ asked = {}
  /\ granted = {}
  /\ ran = <<>>

----------------------------------------------------------------------------
(* How a loop, or the whole call, ends.                                    *)

Throw(what) == phase' = "done" /\ outcome' = what

(* With a schema, only the text of a loop that stopped is parsed.          *)
LoopEnds(finish) ==
  IF options.schema /\ finish = "stop" THEN phase' = "parse" /\ UNCHANGED outcome
  ELSE phase' = "done" /\ outcome' = IF options.schema THEN "incomplete" ELSE finish

(* The last step that max_steps allows.                                    *)
would_exceed_after == step_index + 1 >= options.max_steps

----------------------------------------------------------------------------
(* A turn.                                                                 *)

InvokeTurn ==
  /\ phase = "turn"
  /\ IF aborted THEN Throw("aborted")
     ELSE IF step_index >= options.max_steps THEN LoopEnds("max_steps")
     ELSE phase' = "model" /\ UNCHANGED outcome
  /\ UNCHANGED <<step_index, turn, books, all_records, aborted, caller, ran>>

(* prepare_step throws, or the transport fails or was aborted.             *)
InvokeFails ==
  /\ phase = "model"
  /\ Throw(IF aborted THEN "aborted" ELSE "error")
  /\ UNCHANGED <<step_index, turn, books, all_records, aborted, caller, ran>>

(* The turn is recorded and nothing is left of its context.                *)
StepRecorded == steps' = steps + 1 /\ next' = 1 /\ feed' = <<>>

GoesOn == phase' = "turn" /\ step_index' = step_index + 1 /\ UNCHANGED outcome

continue_paused_turn ==
  /\ phase = "model"
  /\ messages' = Append(messages, Message("assistant", <<>>))
  /\ made' = Append(made, <<>>)
  /\ StepRecorded
  /\ IF would_exceed_after THEN LoopEnds("max_steps") /\ UNCHANGED step_index ELSE GoesOn
  /\ UNCHANGED <<terminal_fired, salvage_remaining, repair_remaining, all_records, aborted, caller, ran>>

Salvaged(t) == t.calls = <<>> /\ t.finish \in {"stop", "length"} /\ t.hidden # <<>>
               /\ Tools # {} /\ salvage_remaining > 0
ViewCalls(t) == IF Salvaged(t) THEN t.hidden ELSE t.calls

Truncated(t) == t.finish = "length" /\ Tools # {} /\ ~would_exceed_after
                /\ options.truncated_turn_policy = "continue"

(* Text that is not blank goes back; the notice always does.               *)
continue_truncated_turn(t) ==
  /\ phase = "model"
  /\ ViewCalls(t) = <<>>
  /\ Truncated(t)
  /\ \E text \in {<<>>, <<Message("assistant", <<>>)>>} :
       messages' = messages \o text \o <<Message("cut_off", <<>>)>>
  /\ made' = Append(made, <<>>)
  /\ StepRecorded
  /\ GoesOn
  /\ UNCHANGED <<terminal_fired, salvage_remaining, repair_remaining, all_records, aborted, caller, ran>>

AnswersInText(t) ==
  /\ phase = "model"
  /\ ViewCalls(t) = <<>>
  /\ ~Truncated(t)
  /\ messages' = Append(messages, Message("assistant", <<>>))
  /\ made' = Append(made, <<>>)
  /\ StepRecorded
  /\ LoopEnds(t.finish)
  /\ UNCHANGED <<step_index, terminal_fired, salvage_remaining, repair_remaining, all_records, aborted, caller, ran>>

(* How many of the calls are kept: up to the first counted one past the    *)
(* cap.                                                                    *)
Counted(calls, n) == {m \in 1 .. n : calls[m] \notin ReadOnly}

Kept(calls) == Cardinality({n \in 1 .. Len(calls) : Cardinality(Counted(calls, n)) <= options.max_tool_calls_per_step})

IdsOf(step, first, last) == [n \in 1 .. last + 1 - first |-> <<step, first + n - 1>>]

AnswersWithCalls(t) ==
  LET calls == ViewCalls(t) IN
  /\ phase = "model"
  /\ calls # <<>>
  /\ messages' = Append(messages, Message("assistant", IdsOf(step_index, 1, Kept(calls))))
  /\ made' = Append(made, calls)
  /\ next' = 1
  /\ feed' = <<>>
  /\ terminal_fired' = FALSE
  /\ salvage_remaining' = salvage_remaining - IF Salvaged(t) THEN 1 ELSE 0
  /\ phase' = "call"
  /\ UNCHANGED <<step_index, steps, repair_remaining, all_records, aborted, outcome, caller, ran>>

Answer ==
  \E t \in TurnResults :
    IF t.paused THEN continue_paused_turn
    ELSE continue_truncated_turn(t) \/ AnswersInText(t) \/ AnswersWithCalls(t)

----------------------------------------------------------------------------
(* A turn's calls, one after the other.                                    *)

Calls == made[Len(made)]
Call == Calls[next]
CallId == <<step_index, next>>
InCall == phase = "call" /\ next <= Kept(Calls)

Record(id, fate) == all_records' = Append(all_records, [id |-> id, fate |-> fate])

(* On to the next call, with a result for the model to read.               *)
Fed(fate) ==
  /\ Record(CallId, fate)
  /\ feed' = Append(feed, CallId)
  /\ next' = next + 1
  /\ phase' = "call"
  /\ UNCHANGED outcome

(* A failure that the policy feeds back or throws.                         *)
FailedCall(error) ==
  IF options.tool_error_policy = "throw" THEN Throw(error) /\ UNCHANGED <<all_records, feed, next>>
  ELSE Fed("failed")

CallAborted ==
  /\ InCall \/ phase = "granted"
  /\ aborted
  /\ Throw("aborted")
  /\ UNCHANGED <<step_index, turn, books, all_records, aborted, caller, ran>>

Skips == would_exceed_after /\ Call \notin EndsTurn

record_unexecuted_call ==
  /\ InCall /\ ~aborted
  /\ Skips
  /\ Record(CallId, "max_steps_exceeded_before_execution")
  /\ next' = next + 1
  /\ UNCHANGED <<phase, step_index, made, feed, terminal_fired, books, aborted, outcome, caller, ran>>

UnknownTool ==
  /\ InCall /\ ~aborted /\ ~Skips
  /\ Call \in Strangers
  /\ FailedCall("error")
  /\ UNCHANGED <<step_index, made, terminal_fired, books, aborted, caller, ran>>

(* Validation awaits, and so does a predicate.                             *)
ResolveTool ==
  /\ InCall /\ ~aborted /\ ~Skips
  /\ Call \in Tools
  /\ phase' = "resolve"
  /\ UNCHANGED <<step_index, turn, books, all_records, aborted, outcome, caller, ran>>

InvalidInput ==
  /\ phase = "resolve"
  /\ Fed("failed")
  /\ UNCHANGED <<step_index, made, terminal_fired, books, aborted, caller, ran>>

NeedsNoApproval ==
  /\ phase = "resolve"
  /\ Call \notin Gated
  /\ phase' = "granted"
  /\ UNCHANGED <<step_index, turn, books, all_records, aborted, outcome, caller, ran>>

(* The handler is asked before the signal is looked at.                    *)
request_approval ==
  /\ phase = "resolve"
  /\ Call \in Gated \cup Judged
  /\ IF ~options.on_tool_approval THEN Throw("denied") /\ UNCHANGED asked
     ELSE /\ asked' = asked \cup {CallId}
          /\ IF aborted THEN Throw("aborted") ELSE phase' = "asking" /\ UNCHANGED outcome
  /\ UNCHANGED <<options, step_index, turn, books, all_records, aborted, granted, ran>>

Grants ==
  /\ phase = "asking"
  /\ granted' = granted \cup {CallId}
  /\ phase' = "granted"
  /\ UNCHANGED <<options, step_index, turn, books, all_records, aborted, outcome, asked, ran>>

(* Mutant: a denial is fed back, and the call runs all the same.           *)
DeniesInVain ==
  /\ phase = "asking"
  /\ phase' = "granted"
  /\ UNCHANGED <<step_index, turn, books, all_records, aborted, outcome, caller, ran>>

Denies ==
  /\ phase = "asking"
  /\ FailedCall("denied")
  /\ UNCHANGED <<step_index, made, terminal_fired, books, aborted, caller, ran>>

Execute ==
  /\ phase = "granted" /\ ~aborted
  /\ phase' = "execute"
  /\ ran' = Append(ran, CallId)
  /\ UNCHANGED <<step_index, turn, books, all_records, aborted, outcome, caller>>

ExecuteSucceeds ==
  /\ phase = "execute"
  /\ terminal_fired' = (terminal_fired \/ Call \in EndsTurn)
  /\ Fed("ok")
  /\ UNCHANGED <<step_index, made, books, aborted, caller, ran>>

ExecuteFails ==
  /\ phase = "execute"
  /\ IF aborted THEN Throw("aborted") /\ UNCHANGED <<all_records, feed, next>>
     ELSE FailedCall("error")
  /\ UNCHANGED <<step_index, made, terminal_fired, books, aborted, caller, ran>>

(* A predicate or the handler throws, or on_chunk does with the result of  *)
(* a call.                                                                 *)
CallerThrows ==
  /\ \/ phase = "resolve" /\ Call \in Judged
     \/ phase = "asking"
     \/ phase = "call" /\ options.on_chunk /\ next > 1
  /\ Throw("error")
  /\ UNCHANGED <<step_index, turn, books, all_records, aborted, caller, ran>>

----------------------------------------------------------------------------
(* The end of a step with calls.                                           *)

ToolMessages == [n \in 1 .. Len(feed) |-> Message("tool", <<feed[n]>>)]
Dropped == IdsOf(step_index, Kept(Calls) + 1, Len(Calls))
DroppedRecords ==
  [n \in 1 .. Len(Dropped) |-> [id |-> Dropped[n], fate |-> "dropped_max_tool_calls_per_step"]]
Notice == IF Dropped = <<>> THEN <<>> ELSE <<Message("notice", Dropped)>>

(* A successful terminal call ends the loop, and wins over max_steps; only *)
(* a loop that goes on has the notice.                                     *)
StepEnds ==
  /\ phase = "call" /\ next > Kept(Calls)
  /\ all_records' = all_records \o DroppedRecords
  /\ StepRecorded
  /\ IF terminal_fired \/ would_exceed_after
       THEN /\ LoopEnds(IF terminal_fired THEN "stop" ELSE "max_steps")
            /\ messages' = messages \o ToolMessages
            /\ UNCHANGED step_index
       ELSE /\ messages' = messages \o ToolMessages \o Notice
            /\ GoesOn
  /\ UNCHANGED <<made, terminal_fired, salvage_remaining, repair_remaining, aborted, caller, ran>>

----------------------------------------------------------------------------
(* The schema, and the caller's signal.                                    *)

Parses ==
  /\ phase = "parse"
  /\ Throw("stop")
  /\ UNCHANGED <<step_index, turn, books, all_records, aborted, caller, ran>>

Repair ==
  /\ phase = "parse"
  /\ IF repair_remaining > 0 /\ steps < options.max_steps
       THEN /\ repair_remaining' = repair_remaining - 1
            /\ messages' = Append(messages, Message("repair", <<>>))
            /\ step_index' = steps
            /\ phase' = "turn"
            /\ UNCHANGED outcome
       ELSE Throw("invalid") /\ UNCHANGED <<repair_remaining, messages, step_index>>
  /\ UNCHANGED <<steps, turn, salvage_remaining, all_records, aborted, caller, ran>>

(* A wait for approval ends at once.                                       *)
CallerAborts ==
  /\ phase # "done" /\ ~aborted
  /\ aborted' = TRUE
  /\ IF phase = "asking" THEN Throw("aborted") ELSE UNCHANGED <<phase, outcome>>
  /\ UNCHANGED <<step_index, turn, books, all_records, caller, ran>>

Proceed ==
  \/ InvokeTurn \/ CallAborted \/ record_unexecuted_call \/ UnknownTool \/ ResolveTool
  \/ InvalidInput \/ NeedsNoApproval \/ request_approval \/ Execute \/ StepEnds

(* What the functions the call was given may do.                           *)
Settles == InvokeFails \/ Answer \/ ExecuteSucceeds \/ ExecuteFails \/ Parses \/ Repair

Next == Proceed \/ Settles \/ Grants \/ Denies \/ CallerThrows \/ CallerAborts

Spec == Init /\ [][Next]_vars

(* A predicate of the caller's is at work on a call. *)
Judging == phase = "resolve" /\ Call \in Judged

(* The loop goes on by itself.  Transports and tools settle, since both    *)
(* have the signal; nothing is asked of the handler or of a predicate.     *)
FairSpec ==
  /\ Spec
  /\ WF_vars((Proceed \/ Settles) /\ ~Judging)

----------------------------------------------------------------------------
(* Properties.                                                             *)

Kinds == {"assistant", "tool", "notice", "cut_off", "repair"}
Fates == {"ok", "failed", "max_steps_exceeded_before_execution", "dropped_max_tool_calls_per_step"}
Finishes == {"stop", "length", "content_filter", "max_steps"}

(* Every variable has values of its type.                                  *)
TypeOK ==
  /\ phase \in {"turn", "model", "call", "resolve", "asking", "granted", "execute", "parse", "done"}
  /\ step_index \in 0 .. options.max_steps /\ steps \in 0 .. options.max_steps
  /\ \A i \in 1 .. Len(messages) :
       messages[i].kind \in Kinds /\ \A j \in 1 .. Len(messages[i].ids) : messages[i].ids[j] \in Id
  /\ \A s \in 1 .. Len(made) : made[s] \in CallLists(Names)
  /\ next \in 1 .. MaxCalls + 1
  /\ \A n \in 1 .. Len(feed) : feed[n] \in Id
  /\ {terminal_fired, aborted} \subseteq BOOLEAN
  /\ \A r \in 1 .. Len(all_records) : all_records[r].id \in Id /\ all_records[r].fate \in Fates
  /\ salvage_remaining \in 0 .. options.tool_call_repair_attempts
  /\ repair_remaining \in 0 .. options.schema_repair_attempts
  /\ outcome \in Finishes \cup {"none", "aborted", "error", "denied", "incomplete", "invalid"}
  /\ granted \subseteq asked /\ asked \subseteq Id
  /\ \A n \in 1 .. Len(ran) : ran[n] \in Id

(* Whenever the model is asked, each call in an assistant message has its  *)
(* result right behind it, in order, and no result is there without its    *)
(* call: providers refuse a request in which either is missing.            *)
HistoryIsAnswered ==
  phase = "model" =>
    /\ \A i \in 1 .. Len(messages) : messages[i].kind = "assistant" =>
         \A j \in 1 .. Len(messages[i].ids) :
           i + j <= Len(messages) /\ messages[i + j] = Message("tool", <<messages[i].ids[j]>>)
    /\ \A k \in 1 .. Len(messages) : messages[k].kind = "tool" =>
         \E i \in 1 .. k - 1 :
           /\ messages[i].kind = "assistant"
           /\ k - i <= Len(messages[i].ids)
           /\ messages[k].ids = <<messages[i].ids[k - i]>>

FateOf(id) == {all_records[r].fate : r \in {x \in 1 .. Len(all_records) : all_records[x].id = id}}

Named(id) ==
  \E k \in 1 .. Len(messages) :
    messages[k].kind = "notice" /\ \E j \in 1 .. Len(messages[k].ids) : messages[k].ids[j] = id

(* A terminal call ended the loop in this turn. *)
EndedByTool(s) == \E n \in 1 .. Len(made[s]) : made[s][n] \in EndsTurn /\ "ok" \in FateOf(<<s - 1, n>>)

WasDropped(s, n) == "dropped_max_tool_calls_per_step" \in FateOf(<<s - 1, n>>)

(* When the model is asked again, a message behind the step's results has  *)
(* named each call that the cap dropped, unless the loop ended in that     *)
(* step, and a repair of the schema has begun another.                     *)
ToldOfDropped ==
  phase = "model" =>
    \A s \in 1 .. Len(made) : \A n \in 1 .. Len(made[s]) :
      WasDropped(s, n) => Named(<<s - 1, n>>) \/ EndedByTool(s)

(* No later turn would read the notice of a turn that ends the loop, as a  *)
(* comment of run_loop_step has it: all that the model was ever refused, it *)
(* was told of.                                                            *)
DroppedAreNamed ==
  phase = "model" =>
    \A s \in 1 .. Len(made) : \A n \in 1 .. Len(made[s]) : WasDropped(s, n) => Named(<<s - 1, n>>)

(* No tool that needs approval runs unless the handler granted that call.  *)
RunsApproved ==
  \A k \in 1 .. Len(ran) : LET name == made[ran[k][1] + 1][ran[k][2]] IN
    name \in Gated \/ ran[k] \in asked => ran[k] \in granted

(* What providers, the model and the caller may count on: every call of    *)
(* the history has its result, the model is told of what was dropped, and  *)
(* only what was approved has run.                                         *)
LoopIsAccounted == HistoryIsAnswered /\ ToldOfDropped /\ RunsApproved

(* An aborted call ends, also one that waits for an approval which never   *)
(* comes; only a predicate that never settles can keep it.                 *)
AbortEnds == aborted ~> phase = "done" \/ Judging
=============================================================================
