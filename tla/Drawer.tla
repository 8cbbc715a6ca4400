-------------------------------- MODULE Drawer --------------------------------
(***************************************************************************)
(* The viewer's turn inspector (src/viewer/app/lib/turns.ts, turns.tsx and *)
(* the drawer of stage.tsx).  A call's turns are recorded as deltas, the   *)
(* events reach the canvas in an order of their own and some never do, and *)
(* the reader scrubs, opens a node, picks a turn and copies it meanwhile.  *)
(***************************************************************************)
EXTENDS Naturals, Integers, Sequences, FiniteSets, SequencesExt

CONSTANTS Calls,     \* the model calls of the run, numbered from 1
          NodeOf,    \* the node whose step makes a call
          Plans,     \* how many turns each call makes, in each run considered
          InFlight,  \* events on their way at once: each is a POST of its own
          MaxLost,   \* payloads that a redactor drops, and events that never arrive
          MaxMoves,  \* what the reader does
          None

VARIABLES plan,     \* how many turns each call of this run makes
          sent,     \* the messages each turn of a call really sent
          log,      \* the request each turn recorded
          wire,     \* events on their way
          frames,   \* the events the canvas has, in the order they came
          lost, moves,
          turns,    \* the turns read off the prefix shown, a memo
          held,     \* the prefix a scrub holds, or None at the live edge
          open,     \* the node whose drawer is open
          picked, copied, copies, \* the drawer's own: the row picked, the last copy, copies under way
          last_copy \* the drawer's answer about each turn, as the clipboard gave it

vars == <<plan, sent, log, wire, frames, turns, lost, moves, held, open, picked, copied, copies, last_copy>>

Init ==
    /\ plan \in Plans
    /\ sent = [c \in Calls |-> <<>>] /\ log = [c \in Calls |-> <<>>]
    /\ wire = {} /\ frames = <<>> /\ turns = <<>> /\ lost = 0 /\ moves = 0
    /\ held = None /\ open = None /\ picked = None /\ copied = None /\ copies = {}
    /\ last_copy = <<>>

(* What the engine records of a turn: the first turn the call's settings    *)
(* and every message, a later one what it appended or its array anew.       *)
System(c) == <<"system", c, 0>>
User(c, k) == <<"user", c, k>>
Added(c, k) == <<<<"assistant", c, k>>, <<"tool", c, k>>>>
Nothing == [settings |-> None, messages |-> None, appended |-> None]
First(c) == [settings |-> c, messages |-> <<System(c), User(c, 0)>>, appended |-> None]
Whole(messages) == [Nothing EXCEPT !.messages = messages]
Delta(c, k) == [Nothing EXCEPT !.appended = Added(c, k)]

Span(c) == [kind |-> "span_start", call |-> c, step |-> None, request |-> None]
Sent(c, k, request) == [kind |-> "request_sent", call |-> c, step |-> k, request |-> request]
Received(c, k) == [kind |-> "response_received", call |-> c, step |-> k, request |-> None]

Goes(event) == Cardinality(wire) < InFlight /\ wire' = wire \cup {event}
Made(c) == Cardinality({i \in DOMAIN log[c] : log[c][i].kind = "request_sent"})
Writes(c, event) == log' = [log EXCEPT ![c] = Append(@, event)] /\ Goes(event)
Seen == <<plan, frames, turns, lost, moves, held, open, picked, copied, copies, last_copy>>

SpanOpens(c) ==
    /\ log[c] = <<>> /\ plan[c] > 0
    /\ Writes(c, Span(c))
    /\ UNCHANGED <<sent, Seen>>
(* A turn goes out, and the payload a redactor failed on is left out; the   *)
(* turn after one of those records its whole array.                         *)
TurnGoes(c) ==
    /\ log[c] # <<>> /\ Last(log[c]).kind # "request_sent" /\ Made(c) < plan[c]
    /\ LET k == Made(c)
           before == IF k = 0 THEN <<>> ELSE sent[c][k]
           extended == IF k = 0 THEN <<System(c), User(c, 0)>> ELSE before \o Added(c, k)
           reshaped == <<System(c), User(c, k)>>
           cut == k > 0 /\ \E i \in DOMAIN log[c] : log[c][i].step = k - 1 /\ log[c][i].request = Nothing
           request == IF k = 0 THEN First(c) ELSE IF cut THEN Whole(extended) ELSE Delta(c, k)
       IN  \/ /\ sent' = [sent EXCEPT ![c] = Append(@, extended)]
              /\ \/ Writes(c, Sent(c, k, request)) /\ UNCHANGED lost
                 \/ lost < MaxLost /\ lost' = lost + 1 /\ Writes(c, Sent(c, k, Nothing))
           \/ /\ k > 0
              /\ sent' = [sent EXCEPT ![c] = Append(@, reshaped)]
              /\ Writes(c, Sent(c, k, Whole(reshaped))) /\ UNCHANGED lost
    /\ UNCHANGED <<plan, frames, turns, moves, held, open, picked, copied, copies, last_copy>>
ReplyComes(c) ==
    /\ log[c] # <<>> /\ Last(log[c]).kind = "request_sent"
    /\ Writes(c, Received(c, Made(c) - 1))
    /\ UNCHANGED <<sent, Seen>>

------------------------------------------------------------------------------
(* Reading the events back. *)
events == IF held = None THEN frames ELSE SubSeq(frames, 1, held)
Requests(evs, c) == SelectSeq(evs, LAMBDA e : e.kind = "request_sent" /\ e.call = c)
Replied(evs, c, k) == \E i \in DOMAIN evs : evs[i] = Received(c, k)
by_step(steps) == SetToSortSeq(ToSet(steps), LAMBDA a, b : a.step < b.step)
is_first_request(request) == request.settings # None /\ request.messages # None

(* The array a turn sent: its own, or the one rebuilt at the step before.   *)
rebuilt_messages_late(s, previous) ==
    IF s.request.messages # None THEN s.request.messages
    ELSE IF s.request.appended = None \/ previous = None THEN None
    ELSE previous.messages \o s.request.appended
rebuilt_messages(s, previous) ==
    IF s.request.messages # None THEN s.request.messages
    ELSE IF s.request.appended = None \/ previous = None THEN None
    ELSE IF previous.step # s.step - 1 THEN None
    ELSE previous.messages \o s.request.appended
joined_turn(evs, c, step, settings, messages) ==
    [call |-> c, step |-> step, settings |-> settings, messages |-> messages, replied |-> Replied(evs, c, step)]

fold_call(evs, c) ==
    LET steps == by_step(Requests(evs, c))
        settings == Head(steps).request.settings
        take(folded, s) ==
            LET messages == rebuilt_messages(s, folded.last)
            IN  IF messages = None THEN [folded EXCEPT !.last = None]
                ELSE [last |-> [step |-> s.step, messages |-> messages],
                      turns |-> Append(folded.turns, joined_turn(evs, c, s.step, settings, messages))]
    IN  IF steps = <<>> THEN <<>>
        ELSE IF Head(steps).step # 0 \/ ~is_first_request(Head(steps).request) THEN <<>>
        ELSE FoldLeft(take, [last |-> None, turns |-> <<>>], steps).turns

FirstSeen(evs, c) == SelectInSeq(evs, LAMBDA e : e.kind = "request_sent" /\ e.call = c)
read_turns(evs) ==
    LET named == {c \in Calls : FirstSeen(evs, c) # 0}
        ordered == SetToSortSeq(named, LAMBDA a, b : FirstSeen(evs, a) < FirstSeen(evs, b))
    IN  FoldLeft(LAMBDA read, c : read \o fold_call(evs, c), <<>>, ordered)

(* A call hangs on the node its span joined, once the canvas has that span. *)
call_node(c) == IF \E i \in DOMAIN events : events[i] = Span(c) THEN NodeOf[c] ELSE None
Nodes == {NodeOf[c] : c \in Calls}
turns_by_node(node) == SelectSeq(turns, LAMBDA t : call_node(t.call) = node)

(* The drawer: the row it shows, its heading and its copy control. *)
drawer_view == IF open = None THEN <<>> ELSE turns_by_node(open)
IsOpen == drawer_view # <<>>
Min2(a, b) == IF a < b THEN a ELSE b
selected_index(count) == IF picked = None THEN count ELSE Min2(picked, count)
turn == drawer_view[selected_index(Len(drawer_view))]
copy_label == IF copied = None \/ copied.index # selected_index(Len(drawer_view)) THEN "COPY TURN"
              ELSE IF copied.ok THEN "COPIED" ELSE "COPY FAILED"
(* The prompts that lead the messages, and the messages after them. *)
Leading(t) == CHOOSE n \in 0..Len(t.messages) :
                 /\ \A i \in 1..n : t.messages[i][1] = "system"
                 /\ n < Len(t.messages) => t.messages[n + 1][1] # "system"
request_view(t) == [system |-> SubSeq(t.messages, 1, Leading(t)),
                    messages |-> SubSeq(t.messages, Leading(t) + 1, Len(t.messages))]
response_view(t) == IF t.replied THEN Received(t.call, t.step) ELSE None

------------------------------------------------------------------------------
Arrives ==
    /\ \E event \in wire : wire' = wire \ {event} /\ frames' = Append(frames, event)
    /\ turns' = IF held = None THEN read_turns(frames') ELSE turns
    /\ UNCHANGED <<plan, sent, log, lost, moves, held, open, picked, copied, copies, last_copy>>
IsLost ==
    /\ lost < MaxLost /\ lost' = lost + 1
    /\ \E event \in wire : wire' = wire \ {event}
    /\ UNCHANGED <<plan, sent, log, frames, turns, moves, held, open, picked, copied, copies, last_copy>>

------------------------------------------------------------------------------
(* The reader. *)
Feed == <<plan, sent, log, wire, frames, lost>>
Moves == moves < MaxMoves /\ moves' = moves + 1
(* The drawer is one component while any node's is open: what it keeps goes *)
(* only when it is taken down, and a copy that settles then tells no one.   *)
Kept(opened) == IF opened THEN UNCHANGED <<picked, copied, copies>>
                ELSE picked' = None /\ copied' = None /\ copies' = {}

Scrubs ==
    /\ Moves
    /\ UNCHANGED <<Feed, open, last_copy>>
    /\ \E to \in {None} \cup 1..Len(frames) : held' = to
    /\ turns' = read_turns(events')
    /\ Kept(IsOpen')
Toggles(node) ==
    /\ Moves /\ turns_by_node(node) # <<>>
    /\ open' = IF open = node THEN None ELSE node
    /\ Kept(open' # None /\ IsOpen)
    /\ UNCHANGED <<Feed, turns, held, last_copy>>
Closes ==
    /\ Moves /\ IsOpen
    /\ open' = None /\ Kept(FALSE)
    /\ UNCHANGED <<Feed, turns, held, last_copy>>
Picks ==
    /\ Moves /\ IsOpen
    /\ \E row \in DOMAIN drawer_view : picked' = row
    /\ UNCHANGED <<Feed, turns, held, open, copied, copies, last_copy>>
Copies ==
    /\ Moves /\ IsOpen
    /\ copies' = copies \cup {[index |-> selected_index(Len(drawer_view)), turn |-> <<turn.call, turn.step>>]}
    /\ UNCHANGED <<Feed, turns, held, open, picked, copied, last_copy>>
CopySettles ==
    /\ \E copy \in copies, ok \in BOOLEAN :
         /\ copies' = copies \ {copy}
         /\ copied' = [index |-> copy.index, ok |-> ok]
         /\ last_copy' = Append(last_copy, <<copy.turn, ok>>)
    /\ UNCHANGED <<Feed, turns, moves, held, open, picked>>

Engine == \E c \in Calls : SpanOpens(c) \/ TurnGoes(c) \/ ReplyComes(c)
Reader == Scrubs \/ (\E node \in Nodes : Toggles(node)) \/ Closes \/ Picks \/ Copies \/ CopySettles
Next == Engine \/ Arrives \/ IsLost \/ Reader
Spec == Init /\ [][Next]_vars

------------------------------------------------------------------------------
Has(event) == \E i \in DOMAIN events : events[i] = event
Readable(c, k) == \E i \in DOMAIN events :
                     /\ events[i].kind = "request_sent" /\ events[i].call = c /\ events[i].step = k
                     /\ events[i].request # Nothing
(* A turn that is shown is what was sent, whatever was lost or came late,   *)
(* and under the settings of its own call.                                  *)
TurnsAreTrue ==
    \A i \in DOMAIN turns :
        LET t == turns[i] IN t.messages = sent[t.call][t.step + 1] /\ t.settings = t.call
(* A turn is left out only when the log cannot show it. *)
NothingIsHidden ==
    \A c \in Calls : \A k \in 0..(plan[c] - 1) :
        (\A j \in 0..k : Readable(c, j)) => \E i \in DOMAIN turns : turns[i].call = c /\ turns[i].step = k
(* Each call's turns stand together, in order and once. *)
TurnsAreInOrder ==
    \A i, j \in DOMAIN turns : i < j =>
        \/ turns[i].call = turns[j].call /\ turns[i].step < turns[j].step
        \/ /\ turns[i].call # turns[j].call
           /\ FirstSeen(events, turns[i].call) < FirstSeen(events, turns[j].call)
(* The open drawer shows a turn of its list, whole, with its own reply. *)
DrawerShowsATurn ==
    IsOpen => /\ selected_index(Len(drawer_view)) \in DOMAIN drawer_view
              /\ request_view(turn).system \o request_view(turn).messages = turn.messages
              /\ response_view(turn) # None => Has(response_view(turn))
              /\ NodeOf[turn.call] = open

(* The label of an open drawer tells of the copy that settled last.         *)
LabelTellsTheLastCopy ==
    IsOpen /\ copy_label # "COPY TURN" => (copy_label = "COPIED") = Last(last_copy)[2]

(* The inspector shows what was sent: the turns it rebuilds, and the one it *)
(* lays out.                                                                *)
InspectorIsTrue == TurnsAreTrue /\ NothingIsHidden /\ TurnsAreInOrder /\ DrawerShowsATurn /\ LabelTellsTheLastCopy

==============================================================================
