------------------------------ MODULE Captured ------------------------------
(* The turns a trajectory captures.  tool_loop.ts of src/src/engine records *)
(* what each turn of a call sent as a difference to the turn before it, a   *)
(* redactor of the engine's owner has its way with every payload, the log   *)
(* loses lines, repeats them and reorders them, and two readers that share  *)
(* no code, replay.ts of the engine and app/lib/turns.ts of the viewer,     *)
(* fold what is left back into the requests that were sent.                 *)
(*                                                                          *)
(* A message is a number and a form: as the loop made it, as prepare_step   *)
(* edited it, one that JSON cannot hold, or as the redactor scrubbed it.    *)
EXTENDS Integers, Sequences, SequencesExt, FiniteSets

CONSTANTS
  None,
  MaxTurns,   \* how many turns the call has
  MaxFaults  \* how many lines the log loses or has twice

VARIABLES
  messages,  \* config.messages of the loop
  step,      \* the step_index of the turn
  pc,
  memory,    \* captured_messages: what the last captured request held
  recorded,  \* the events, in the order they were recorded
  sent,      \* what each turn sent
  log        \* the events as a reader finds them

vars == <<messages, step, pc, memory, recorded, sent, log>>

Forms == {"plain", "edited", "cyclic", "scrubbed"}

Message(id, form) == [id |-> id, form |-> form]

Init ==
  /\ messages \in {<<Message(1, f)>> : f \in {"plain", "cyclic"}}
  /\ step = 0
  /\ pc = "turn"
  /\ memory = None
  /\ recorded = <<>>
  /\ sent = <<>>
  /\ log = <<>>

----------------------------------------------------------------------------
(* The writer: tool_loop.ts. *)

(* What prepare_step may make of the messages, for this turn alone. *)
Prepared == {messages, [messages EXCEPT ![1].form = "edited"]}

Writable(ms) == \A i \in DOMAIN ms : ms[i].form # "cyclic"

(* JSON text is equal where messages are. *)
later_request(previous, texts) ==
  IF previous # None /\ IsPrefix(previous, texts)
  THEN [type |-> "delta", messages |-> SubSeq(texts, Len(previous) + 1, Len(texts))]
  ELSE [type |-> "whole", messages |-> texts]

(* The payload, None if JSON cannot hold it; settings says whether the     *)
(* call's settings can be written, which only a first turn records.        *)
capture_request(texts, settings) ==
  IF ~Writable(texts) \/ (step = 0 /\ ~settings) THEN None
  ELSE IF step = 0 THEN [type |-> "first", messages |-> texts]
  ELSE later_request(memory, texts)

Scrubbed(ms) == [i \in DOMAIN ms |-> Message(ms[i].id, "scrubbed")]

(* What becomes of a payload: as it is, scrubbed, put in words that no     *)
(* reader reads, or not recorded, since the redactor said so or failed.    *)
redact_payload(data) ==
  IF data = None THEN {None}
  ELSE {data, [data EXCEPT !.messages = Scrubbed(@)], [type |-> "text", messages |-> <<>>], None}

(* Mutant: a request that went unrecorded is remembered all the same. *)
RemembersAnyway(request, texts) == IF Writable(texts) THEN texts ELSE None

Remembers(request, texts) == IF request = None THEN None ELSE texts

record_request_sent(request) ==
  [kind |-> "request_sent", step |-> step, span |-> step, request |-> request]

record_response_received(content) ==
  [kind |-> "response_received", step |-> step, span |-> step, content |-> content]

(* invoke_turn, up to the call of the transport. *)
Sends ==
  /\ pc = "turn"
  /\ \E ms \in Prepared, settings \in BOOLEAN :
       \E request \in redact_payload(capture_request(ms, settings)) :
         /\ memory' = Remembers(request, ms)
         /\ recorded' = Append(recorded, record_request_sent(request))
         /\ sent' = Append(sent, ms)
  /\ pc' = "sent"
  /\ UNCHANGED <<messages, step, log>>

(* The reply; the loop goes on with what the model said and the tools      *)
(* answered.  (A reply that went unrecorded is one that the log lost.)     *)
Replies ==
  /\ pc = "sent"
  /\ recorded' = Append(recorded, record_response_received(step))
  /\ \/ /\ step + 1 < MaxTurns
        /\ \E form \in {"plain", "cyclic"} : messages' = Append(messages, Message(Len(messages) + 1, form))
        /\ step' = step + 1
        /\ pc' = "turn"
     \/ pc' = "over" /\ UNCHANGED <<messages, step>>
  /\ UNCHANGED <<memory, sent, log>>

(* The transport gave up: the call throws. *)
Fails ==
  /\ pc = "sent"
  /\ pc' = "over"
  /\ UNCHANGED <<messages, step, memory, recorded, sent, log>>

----------------------------------------------------------------------------
(* The log, as it is read once the call is over. *)

Found(lost, twice) ==
  LET InOrder(s) == SetToSortSeq(s, LAMBDA a, b : a < b)
      kept == InOrder(DOMAIN recorded \ lost) \o InOrder(twice \ lost)
  IN  [i \in DOMAIN kept |-> recorded[kept[i]]]

Arrives ==
  /\ pc = "over"
  /\ pc' = "read"
  /\ \E lost, twice \in {s \in SUBSET DOMAIN recorded : Cardinality(s) <= MaxFaults} :
       /\ Cardinality(lost) + Cardinality(twice) <= MaxFaults
       /\ log' \in {Found(lost, twice), Reverse(Found(lost, twice))}
  /\ UNCHANGED <<messages, step, memory, recorded, sent>>

Next == Sends \/ Replies \/ Fails \/ Arrives

Spec == Init /\ [][Next]_vars

----------------------------------------------------------------------------
(* The readers. *)

gather(kind) == SelectSeq(log, LAMBDA e : e.kind = kind)

by_step == SortSeq(gather("request_sent"), LAMBDA a, b : a.step < b.step)

(* The array a turn sent, given the one rebuilt at the step before it. *)
(* Mutant: a delta is put on top of whatever was rebuilt last. *)
RebuiltOnAny(e, previous) ==
  IF e.request = None \/ e.request.type = "text" THEN None
  ELSE IF e.request.type # "delta" THEN e.request.messages
  ELSE IF previous = None THEN None
  ELSE previous.messages \o e.request.messages

rebuilt_messages(e, previous) ==
  IF e.request = None \/ e.request.type = "text" THEN None
  ELSE IF e.request.type # "delta" THEN e.request.messages
  ELSE IF previous = None \/ previous.step # e.step - 1 THEN None
  ELSE previous.messages \o e.request.messages

is_first_request(e) == e.request # None /\ e.request.type = "first"

(* The reply that shares a turn's step span: the last one in the log. *)
Reply(span) ==
  LET mine == SelectSeq(gather("response_received"), LAMBDA e : e.span = span)
  IN  IF mine = <<>> THEN None ELSE Last(mine).content

Rebuilt ==
  LET rebuilt[i \in 0..Len(by_step)] ==
        IF i = 0 THEN None
        ELSE LET ms == rebuilt_messages(by_step[i], rebuilt[i - 1])
             IN  IF ms = None THEN None ELSE [step |-> by_step[i].step, messages |-> ms]
  IN  [i \in DOMAIN by_step |-> rebuilt[i]]

Turns == {[step |-> by_step[i].step, messages |-> Rebuilt[i].messages, response |-> Reply(by_step[i].span)] :
            i \in {j \in DOMAIN by_step : Rebuilt[j] # None}}

(* replay.ts: the first turn is the first request of step 0. *)
captured_turns ==
  LET firsts == SelectSeq(by_step, LAMBDA e : e.step = 0)
  IN  IF firsts = <<>> \/ ~is_first_request(firsts[1]) THEN {} ELSE Turns

(* turns.ts: it is the request of the lowest step, which has to be 0. *)
read_turns ==
  IF by_step = <<>> \/ by_step[1].step # 0 \/ ~is_first_request(by_step[1]) THEN {} ELSE Turns

----------------------------------------------------------------------------
(* Properties. *)

AsSent(ms, truth) ==
  /\ Len(ms) = Len(truth)
  /\ \A i \in DOMAIN ms : ms[i].id = truth[i].id /\ ms[i].form \in {truth[i].form, "scrubbed"}

Requests == {i \in DOMAIN recorded : recorded[i].kind = "request_sent"}

(* Whatever the log lost, repeats or reorders, and whatever the redactor    *)
(* did, a turn that a reader shows is one that was sent, message for        *)
(* message, with its own reply, and the two readers show the same; and of a *)
(* log that is whole, in which no request was put in words, no recorded     *)
(* turn is missing, those after an unrecorded one included.                 *)
TurnsAreAsSent ==
  pc = "read" =>
    /\ captured_turns = read_turns
    /\ \A t \in captured_turns : AsSent(t.messages, sent[t.step + 1]) /\ t.response \in {t.step, None}
    /\ ( /\ ToSet(log) = ToSet(recorded) /\ Len(log) = Len(recorded)
         /\ \A i \in Requests : recorded[i].request = None \/ recorded[i].request.type # "text"
         /\ recorded[1].request # None )
       => {t.step : t \in captured_turns} = {recorded[i].step : i \in {j \in Requests : recorded[j].request # None}}
=============================================================================
