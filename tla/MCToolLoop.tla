---------------------------- MODULE MCToolLoop ----------------------------
(* A call whose tools read, write and finish, under a choice of options, and*)
(* beside it one turn of it (Turn), the requests of its turns (WireMessages)*)
(* and the calls read out of its text (Salvage).                           *)
EXTENDS ToolLoopProofs

CONSTANTS Parts, None

VARIABLE part  \* the part that is explored; the others stay as they are
VARIABLES wm_messages, wm_owed, wm_paused, wm_turns, wm_replies
VARIABLES sv_turn, sv_phase, sv_found, sv_masks, sv_remaining, sv_steps, sv_chunks

(* Two steps of one counted call each, errors fed back. *)
Capped ==
  [max_steps |-> 2, max_tool_calls_per_step |-> 1, tool_error_policy |-> "feed_back",
   truncated_turn_policy |-> "stop", tool_call_repair_attempts |-> 0,
   schema_repair_attempts |-> 0, schema |-> FALSE, on_tool_approval |-> TRUE, on_chunk |-> FALSE]

(* Nobody to ask for approval, and calls salvaged from text. *)
Unattended == [Capped EXCEPT !.on_tool_approval = FALSE, !.tool_call_repair_attempts = 1]

(* No cap, errors end the call, and the caller listens to its chunks. *)
Strict == [Capped EXCEPT !.max_tool_calls_per_step = MaxCalls, !.tool_error_policy = "throw", !.on_chunk = TRUE]

(* A schema with one repair, truncated turns continued. *)
Typed ==
  [Capped EXCEPT !.schema = TRUE, !.schema_repair_attempts = 1, !.truncated_turn_policy = "continue"]

TheOptions == {Capped, Unattended, Strict, Typed}
RepairOptions == {Typed}

(* The wires, and what the options of each are keyed by. *)
TheWires == {"anthropic", "chat", "ollama", "ai_sdk"}
KeyOfWire(w) == IF w = "ai_sdk" THEN "anthropic" ELSE w

(* What a model writes: a call in each format, calls that don't pass, and   *)
(* what only looks like one.                                                *)
Means(text, calls, rest) == [text |-> text, calls |-> calls, rest |-> rest, tidy |-> TRUE]
Prose(text) == Means(text, <<>>, text)
Left(text) == [text |-> text, calls |-> <<>>, rest |-> text, tidy |-> FALSE]

CallF == <<"call_f", "quote", "w", "quote", "}">>
CallG == <<"call_g", "7", "}">>
Unfit == <<"call_g", "quote", "w", "quote", "}">>
Param(v) == <<"<p>", v, "</p>">>

PiecesOfText == <<
    Prose(<<"sp", "w">>),
    Means(<<"<tc>">> \o CallF \o <<"</tc>">>, <<<<"f", "hermes">>>>, <<>>),
    Prose(<<"<tc>">> \o Unfit \o <<"</tc>">>),
    Means(<<"<tc>", "fn_f">> \o Param("7") \o <<"</fn>", "sp", "fn_g">> \o Param("7") \o <<"</fn>", "</tc>">>,
        <<<<"f", "qwen_xml">>, <<"g", "qwen_xml">>>>, <<>>),
    Means(<<"<tc>", "fn_h">> \o Param("w") \o <<"</fn>", "fn_f">> \o Param("w") \o <<"</fn>", "</tc>">>,
        <<<<"f", "qwen_xml">>>>, <<"<tc>", "fn_h">> \o Param("w") \o <<"</fn>", "</tc>">>),
    Means(CallG, <<<<"g", "json">>>>, <<>>),
    Means(<<"fence_json">> \o CallF \o <<"fence">>, <<<<"f", "json">>>>, <<>>),
    Prose(<<"fence_py">> \o CallF \o <<"fence">>),
    Prose(<<"data">> \o CallF \o <<"}">>),
    Prose(<<"call_h", "}">>),
    Left(<<"<tc>", "call_f", "quote", "w">>),
    Left(<<"data", "w">>),
    Left(<<"fence_json", "w">>) >>

----------------------------------------------------------------------------
tn_vars == <<tn_dialect, tn_consumer, tn_budget, tn_answer, tn_phase, tn_attempt, tn_user_aborted,
  tn_timed_out, tn_sent, tn_pending, tn_tail, tn_content, tn_closed, tn_stopped, tn_out, tn_stamped,
  tn_failed, tn_failure, tn_seen, tn_outcome>>

W == INSTANCE WireMessages WITH
  messages <- wm_messages, owed <- wm_owed, paused <- wm_paused, turns <- wm_turns,
  replies <- wm_replies, Wires <- TheWires, Key <- KeyOfWire, MaxParts <- 2, MaxTurns <- 2,
  None <- None
wm_vars == <<wm_messages, wm_owed, wm_paused, wm_turns, wm_replies>>

S == INSTANCE Salvage WITH
  turn <- sv_turn, phase <- sv_phase, found <- sv_found, masks <- sv_masks,
  remaining <- sv_remaining, steps <- sv_steps, chunks <- sv_chunks, Pieces <- PiecesOfText,
  MaxPieces <- 2, MaxSteps <- 2, Attempts <- 1
sv_vars == <<sv_turn, sv_phase, sv_found, sv_masks, sv_remaining, sv_steps, sv_chunks>>

all == <<part, vars, tn_vars, wm_vars, sv_vars>>

AllInit ==
  /\ part \in Parts
  /\ Init
  /\ part # "loop" => options = Capped
  /\ TheTurn!Init
  /\ part # "turn" => tn_dialect = "ollama" /\ tn_answer = <<>> /\ ~tn_consumer /\ ~tn_budget
  /\ IF part = "wire" THEN W!Init
     ELSE wm_messages = 0 /\ wm_owed = 0 /\ wm_paused = 0 /\ wm_turns = 0 /\ wm_replies = 0
  /\ IF part = "salvage" THEN S!Init
     ELSE sv_turn = 0 /\ sv_phase = 0 /\ sv_found = 0 /\ sv_masks = 0 /\ sv_remaining = 0 /\
          sv_steps = 0 /\ sv_chunks = 0

AllNext ==
  \/ part = "loop" /\ Next /\ UNCHANGED <<part, tn_vars, wm_vars, sv_vars>>
  \/ part = "turn" /\ TheTurn!Next /\ UNCHANGED <<part, vars, wm_vars, sv_vars>>
  \/ part = "wire" /\ W!Next /\ UNCHANGED <<part, vars, tn_vars, sv_vars>>
  \/ part = "salvage" /\ S!Next /\ UNCHANGED <<part, vars, tn_vars, wm_vars>>

AllSpec == AllInit /\ [][AllNext]_all

(* The loop and the turn go on by themselves, and the timer of a turn      *)
(* fires.  Transports and tools settle, since both have the signal; nothing*)
(* is asked of the approval handler or of a predicate.                     *)
AllFairSpec ==
  /\ AllSpec
  /\ WF_vars(part = "loop" /\ (Proceed \/ Settles) /\ ~Judging)
  /\ WF_tn_vars(part = "turn" /\ TheTurn!Proceed)
  /\ WF_tn_vars(part = "turn" /\ TheTurn!TimesOut)

----------------------------------------------------------------------------
(* An abort ends the loop, unless a predicate of the caller's holds it, and *)
(* an abort or a timeout ends the turn.                                    *)
EngineEnds ==
  /\ part = "loop" /\ aborted ~> part = "loop" /\ (phase = "done" \/ Judging)
  /\ part = "turn" /\ (tn_budget \/ tn_user_aborted) ~> part = "turn" /\ tn_phase = "over"

(* The chunks tell what the turn returns, and are of one attempt.          *)
TurnIsTold == part = "turn" => TheTurn!StreamTellsTheResult /\ TheTurn!OneAttemptIsSeen

(* What goes over the wire is a history its provider accepts.              *)
RequestsAreWellFormed == part = "wire" => W!RequestsAreWellFormed

(* What was salvaged is what the model meant, and the rest is its text.    *)
SalvageIsFaithful == part = "salvage" => S!SalvageIsFaithful
============================================================================
