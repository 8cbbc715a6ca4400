------------------------------ MODULE AcpCards ------------------------------
(* The cards that an ACP client draws for the tool calls of a session's    *)
(* turns, and the approvals that point at them: src/src/acp/approve.ts,    *)
(* modes.ts, to_session_updates.ts, presentation.ts, tools/previews.ts and *)
(* the consumer in prompt_turn.ts.                                         *)
(*                                                                         *)
(* A turn runs the flow; its model calls record events; the consumer sends *)
(* the client what each event maps to, one event at a time.  Every run of  *)
(* a step makes one tool call, under a raw id that other calls may share.  *)
EXTENDS Naturals, Sequences, FiniteSets, SequencesExt, FiniteSetsExt

CONSTANTS
  Steps,      \* the model calls of the flow
  RawId(_),   \* the raw id of the tool calls of a step
  Does(_),    \* what its tool does: "edit" or "command"
  Runs,       \* bound of the model: the runs of its steps in a turn
  Turns,      \* bound of the model: the turns of the session
  HighWater,  \* high_water_mark of run.stream's channel
  None

VARIABLES
  parallel,   \* whether the steps run side by side
  turn, phase,         \* the turn, and whether it is "on", its run "settled" or it is "over"
  cancelled,
  call,       \* of each step: its runs this turn, where its tool call stands and what it waits for
  events, lost,        \* the channel's buffer, and whether it has dropped an event
  recorded, sent, cards,  \* the turn's progress: TurnProgress
  runs,       \* AcpMapperState.runs
  previews,   \* the preview store
  taking,     \* what the consumer awaits that the client takes
  left,       \* the consumer has left the stream
  client,     \* the cards that the client draws, each with the call that opened it
  mode, granted,
  wrong       \* what the client was shown that is not so

progress == <<recorded, sent, cards>>
shown == <<client, wrong>>
vars == <<parallel, turn, phase, cancelled, call, events, lost, progress, runs, previews, taking, left, shown, mode, granted>>

RawIds == {RawId(s) : s \in Steps}
Modes == {"manual", "accept_edits", "auto"}
asks_before(m, action) == m = "manual" \/ (m = "accept_edits" /\ action = "command")

Idle == [run |-> 0, at |-> "idle", target |-> 0]

(* A turn starts with a fresh count, no cards known and no previews left.  *)
Fresh == [call |-> [s \in Steps |-> Idle], runs |-> [s \in Steps |-> 0],
          cards |-> [r \in RawIds |-> None], previews |-> [r \in RawIds |-> <<>>]]

Init ==
  /\ parallel \in BOOLEAN
  /\ turn = 1 /\ phase = "on" /\ cancelled = FALSE
  /\ call = Fresh.call /\ runs = Fresh.runs /\ cards = Fresh.cards /\ previews = Fresh.previews
  /\ events = <<>> /\ lost = FALSE
  /\ recorded = 0 /\ sent = 0
  /\ taking = None /\ left = FALSE
  /\ client = <<>> /\ wrong = {}
  /\ mode = "manual" /\ granted = {}

----------------------------------------------------------------------------
(* The run.                                                                *)

Me(s) == <<turn, s, call[s].run>>

Record(event) ==
  /\ recorded' = recorded + 1
  /\ IF left THEN UNCHANGED <<events, lost>>
     ELSE /\ events' = Append(IF Len(events) >= HighWater THEN Tail(events) ELSE events, event)
          /\ lost' = (lost \/ Len(events) >= HighWater)

At(s, where) == call' = [call EXCEPT ![s].at = where]

(* A run of the step opens its span.                                       *)
SpanStarts(s) ==
  /\ phase = "on" /\ ~cancelled
  /\ call[s].at \in {"idle", "done"} /\ MapThenSumSet(LAMBDA o : call[o].run, Steps) < Runs
  /\ parallel \/ \A o \in Steps \ {s} : call[o].at \in {"idle", "done"}
  /\ call' = [call EXCEPT ![s] = [run |-> @.run + 1, at |-> "span", target |-> 0]]
  /\ Record([kind |-> "span_start", step |-> s])
  /\ UNCHANGED <<parallel, turn, phase, cancelled, sent, cards, runs, previews, taking, left, shown, mode, granted>>

ToolCallStarts(s) ==
  /\ phase = "on" /\ call[s].at = "span"
  /\ Record([kind |-> "tool_call_start", step |-> s, of |-> Me(s)])
  /\ At(s, "called")
  /\ UNCHANGED <<parallel, turn, phase, cancelled, sent, cards, runs, previews, taking, left, shown, mode, granted>>

(* The tool's gate reads the mode as it is now.  A command may be granted  *)
(* for the session; an edit asks, and waits until the consumer has sent    *)
(* what was recorded by now.                                               *)
session_approver(s) ==
  /\ phase = "on" /\ call[s].at = "called"
  /\ IF cancelled THEN At(s, "refused")
     ELSE IF ~asks_before(mode, Does(s)) \/ (Does(s) = "command" /\ s \in granted) THEN At(s, "runs")
     ELSE call' = [call EXCEPT ![s].at = "waits", ![s].target = recorded]
  /\ UNCHANGED <<parallel, turn, phase, cancelled, events, lost, progress, runs, previews, taking, left, shown, mode, granted>>

(* Mutant: the wait is for an event more than were recorded.               *)
caught_up_past(s) == sent > call[s].target

caught_up(s) == sent >= call[s].target

(* What is not so of the request's card: the client does not draw it, or   *)
(* draws it for another call.                                              *)
MisplacedBy(s, card) == IF card \notin DOMAIN client THEN {"unknown"} ELSE IF client[card] # Me(s) THEN {"other"} ELSE {}

Asks(s) ==
  /\ phase = "on" /\ call[s].at = "waits" /\ caught_up(s) /\ ~cancelled
  /\ wrong' = wrong \union MisplacedBy(s, cards[RawId(s)])
  /\ At(s, "asks")
  /\ UNCHANGED <<parallel, turn, phase, cancelled, events, lost, progress, runs, previews, taking, left, client, mode, granted>>

unless_aborted(s) ==
  /\ call[s].at \in {"waits", "asks"} /\ cancelled
  /\ At(s, "refused")
  /\ UNCHANGED <<parallel, turn, phase, cancelled, events, lost, progress, runs, previews, taking, left, shown, mode, granted>>

Grant(s) ==
  IF Does(s) = "command" THEN granted' = granted \union {s} /\ UNCHANGED mode
  ELSE /\ mode' = IF asks_before(mode, "edit") THEN "accept_edits" ELSE mode
       /\ UNCHANGED granted

Lowers == {a \in {"edit", "command"} : asks_before(mode', a) /\ ~asks_before(mode, a)}

Answers(s) ==
  /\ phase = "on" /\ call[s].at = "asks"
  /\ \/ At(s, "runs") /\ UNCHANGED <<mode, granted, wrong>>
     \/ At(s, "refused") /\ UNCHANGED <<mode, granted, wrong>>
     \/ At(s, "runs") /\ Grant(s) /\ wrong' = wrong \union (IF Lowers = {} THEN {} ELSE {"lowered"})
  /\ UNCHANGED <<parallel, turn, phase, cancelled, events, lost, progress, runs, previews, taking, left, client>>

(* The tool leaves a preview of what it did, if it succeeds.               *)
Executes(s) ==
  /\ phase = "on" /\ call[s].at = "runs"
  /\ \/ At(s, "ran") /\ previews' = [previews EXCEPT ![RawId(s)] = Append(@, Me(s))]
     \/ At(s, "refused") /\ UNCHANGED previews
  /\ UNCHANGED <<parallel, turn, phase, cancelled, events, lost, progress, runs, taking, left, shown, mode, granted>>

ResultIsRecorded(s) ==
  /\ phase = "on" /\ call[s].at \in {"ran", "refused"}
  /\ Record([kind |-> "tool_result", step |-> s, of |-> Me(s), ok |-> call[s].at = "ran"])
  /\ At(s, "done")
  /\ UNCHANGED <<parallel, turn, phase, cancelled, sent, cards, runs, previews, taking, left, shown, mode, granted>>

RunSettles ==
  /\ phase = "on"
  /\ \A s \in Steps : call[s].at \in {"idle", "done"} \/ (cancelled /\ call[s].at = "span")
  /\ phase' = "settled"
  /\ UNCHANGED <<parallel, turn, cancelled, call, events, lost, progress, runs, previews, taking, left, shown, mode, granted>>

----------------------------------------------------------------------------
(* The consumer and the client.                                            *)

acp_tool_call_id(s) == <<turn, s, runs[s], RawId(s)>>

Sends(event, card) == taking' = [event |-> event, card |-> card] /\ UNCHANGED left

(* A successful result takes the oldest preview under its raw id.          *)
closing_updates(event) ==
  LET waiting == previews[RawId(event.step)] IN
  IF event.kind # "tool_result" \/ ~event.ok THEN UNCHANGED <<previews, wrong>>
  ELSE /\ previews' = [previews EXCEPT ![RawId(event.step)] = IF @ = <<>> THEN @ ELSE Tail(@)]
       /\ wrong' = wrong \union (IF waiting # <<>> /\ Head(waiting) # event.of THEN {"preview"} ELSE {})

(* What an event does to the mapper's state before anything is sent.       *)
to_session_updates(event) ==
  /\ runs' = IF event.kind = "span_start" THEN [runs EXCEPT ![event.step] = @ + 1] ELSE runs
  /\ closing_updates(event)

(* Once the turn is cancelled, nothing more is sent, and the consumer      *)
(* leaves.                                                                 *)
forward ==
  /\ phase # "over" /\ taking = None /\ ~left /\ events # <<>>
  /\ LET event == Head(events) IN
     /\ to_session_updates(event)
     /\ IF event.kind = "span_start"
        THEN sent' = sent + 1 /\ events' = Tail(events) /\ UNCHANGED <<taking, left>>
        ELSE IF cancelled THEN left' = TRUE /\ events' = <<>> /\ UNCHANGED <<taking, sent>>
        ELSE Sends(event, acp_tool_call_id(event.step)) /\ events' = Tail(events) /\ UNCHANGED sent
  /\ UNCHANGED <<parallel, turn, phase, cancelled, call, lost, recorded, cards, client, mode, granted>>

Known(card) == cards' = [cards EXCEPT ![card[4]] = card]

(* The client takes the update, and the event counts as sent.              *)
ClientTakes ==
  /\ taking # None
  /\ LET card == taking.card  event == taking.event IN
     IF event.kind = "tool_call_start"
     THEN /\ Known(card)
          /\ wrong' = wrong \union (IF card \in DOMAIN client THEN {"reopened"} ELSE {})
          /\ client' = [c \in DOMAIN client \union {card} |-> IF c = card THEN event.of ELSE client[c]]
     ELSE /\ wrong' = wrong \union (IF card \in DOMAIN client /\ client[card] = event.of THEN {} ELSE {"closes"})
          /\ UNCHANGED <<client, cards>>
  /\ sent' = sent + 1
  /\ taking' = None
  /\ UNCHANGED <<parallel, turn, phase, cancelled, call, events, lost, recorded, runs, previews, left, mode, granted>>

TurnEnds ==
  /\ phase = "settled" /\ taking = None /\ (left \/ events = <<>>)
  /\ phase' = "over"
  /\ UNCHANGED <<parallel, turn, cancelled, call, events, lost, progress, runs, previews, taking, left, shown, mode, granted>>

(* Mutant: a turn keeps the previews of the one before it.                 *)
ResetNothing == previews' = previews

reset_previews == previews' = Fresh.previews

(* The ids of a turn's cards are its own, so the cards of earlier turns    *)
(* can be left out, and what was lost and wrong is the turn's.             *)
NextTurn ==
  /\ phase = "over" /\ turn < Turns
  /\ client' = <<>> /\ wrong' = {} /\ lost' = FALSE
  /\ turn' = turn + 1 /\ phase' = "on" /\ cancelled' = FALSE
  /\ call' = Fresh.call /\ runs' = Fresh.runs /\ cards' = Fresh.cards
  /\ reset_previews
  /\ events' = <<>> /\ left' = FALSE /\ recorded' = 0 /\ sent' = 0
  /\ UNCHANGED <<parallel, taking, mode, granted>>

(* session/cancel, or a prompt that replaces the turn.                     *)
Cancels ==
  /\ phase # "over" /\ ~cancelled
  /\ cancelled' = TRUE
  /\ UNCHANGED <<parallel, turn, phase, call, events, lost, progress, runs, previews, taking, left, shown, mode, granted>>

(* session/set_mode, while a request is on the user's screen.              *)
SetsMode ==
  /\ \E s \in Steps : call[s].at = "asks"
  /\ \E m \in Modes \ {mode} : mode' = m
  /\ UNCHANGED <<parallel, turn, phase, cancelled, call, events, lost, progress, runs, previews, taking, left, shown, granted>>

Step(s) ==
  \/ SpanStarts(s) \/ ToolCallStarts(s) \/ session_approver(s) \/ Asks(s) \/ unless_aborted(s)
  \/ Answers(s) \/ Executes(s) \/ ResultIsRecorded(s)

Next ==
  \/ \E s \in Steps : Step(s)
  \/ RunSettles \/ forward \/ ClientTakes \/ TurnEnds \/ NextTurn \/ Cancels \/ SetsMode

Spec == Init /\ [][Next]_vars

----------------------------------------------------------------------------
(* Properties.                                                             *)

(* What the client is shown is so.  Unless an event was lost, a request    *)
(* points at a card the client draws, no card opens twice, and a card is   *)
(* closed by the call that opened it; unless calls under one raw id also   *)
(* ran side by side, the request's card is its own call's, and so is the   *)
(* change that a closed card shows.  An "always" never makes a session     *)
(* ask for more than it did.                                               *)
CardsAreTrue ==
  /\ "lowered" \notin wrong
  /\ ~lost => /\ wrong \intersect {"unknown", "reopened", "closes"} = {}
              /\ ~parallel => wrong \intersect {"other", "preview"} = {}

(* An approval that waits for its card is asked, or its turn is cancelled, *)
(* unless the run has outrun the client and lost an event.                 *)
EveryApprovalIsAsked ==
  \A s \in Steps : call[s].at = "waits" ~> (call[s].at # "waits" \/ cancelled \/ lost)
=============================================================================
