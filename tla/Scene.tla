-------------------------------- MODULE Scene --------------------------------
(* The viewer's canvas: app/lib/reduce.ts, which folds a run's events, and  *)
(* app/lib/scene.ts, which lights the geometry of Layout from the fold.  A  *)
(* run of a flow records its spans, its costs, the retries of its turns and *)
(* its suspensions, in whatever order its parallel parts reach them, and    *)
(* the page makes of them what the canvas shows: which place of the flow    *)
(* each span ran at, what failed for good, what a retry absorbed, what it   *)
(* cost.  Every segment that the layout draws is unbuilt, live or           *)
(* traversed, every puck has a status, a meta line, a scar or none, and at  *)
(* most one card; all of it is computed again from the whole state at every *)
(* event, so that it must tell the run whatever order its events come in.   *)
(*                                                                          *)
(* A place is a node of the flow's tree, numbered in document order, which  *)
(* is the key that keyed_by_place gives it; a step id may sit at several.   *)
(* A span is the number of its start, and 0 is no span.  Every event names  *)
(* its span, as those of the engine do; what ctx.emit leaves bare is        *)
(* attributed by guesswork and not here.                                    *)
EXTENDS Integers, Sequences, SequencesExt, FiniteSets, FiniteSetsExt

CONSTANTS
  Trees,        \* flows: sequences of places, each a [kind, step, kids, calls]
  Flows,        \* what Layout draws of each of the trees, as <<tree, drawing>>
  MaxAttempts,  \* of each retry
  MaxItems,     \* of each map
  MaxCosts,     \* how many costs the run records
  MaxRetries    \* how many turns the engine retries

VARIABLES
  tree,
  frames,   \* the run's spans: where each runs, under which, and how it ended
  parked,   \* the spans whose suspension is recorded
  looked,   \* the checkpoints that looked in their store, as <<span, answer>>
  spent,    \* the places that costs were recorded for, in turn
  retried,  \* how many turns were retried
  state,    \* the CanvasState of the page
  flow      \* the drawing of the run's own tree

vars == <<tree, frames, parked, looked, spent, retried, state>>

Spans == DOMAIN frames

Kids(s) == {t \in Spans : frames[t].parent = s}

Kind(s) == IF frames[s].place = 0 THEN "engine.generate" ELSE tree[frames[s].place].kind

Open(s) == frames[s].end = "open"

----------------------------------------------------------------------------
(* reduce.ts: the joins. *)

EMPTY_NODE == [occurrences |-> <<>>, scarred |-> FALSE, suspended |-> FALSE, turn_retries |-> 0, cost_usd |-> 0,
               checkpoint |-> "none"]

initial_state(structure) ==
  [nodes |-> [place \in DOMAIN structure |-> EMPTY_NODE], spans |-> <<>>,
   scars |-> 0, retries_absorbed |-> 0, cost_usd |-> 0, unattributed_usd |-> 0]

(* The first place that a step id sits at has the bare id for its key. *)
Keyed(step) == Min({place \in DOMAIN tree : tree[place].step = step})

seats_of(place, step) == SelectSeq(tree[place].kids, LAMBDA kid : tree[kid].step = step)

(* The nearest node at or above a span, 0 if there is none. *)
attributed_node(st, span) ==
  LET up[s \in 0..Len(st.spans)] ==
        IF s = 0 THEN 0 ELSE IF st.spans[s].node # 0 THEN st.spans[s].node ELSE up[st.spans[s].parent]
  IN  up[span]

(* Mutant: a span takes the first seat of its id. *)
joined_first(st, step, parent) ==
  LET at == attributed_node(st, parent)
      seats == IF at = 0 THEN <<>> ELSE seats_of(at, step)
  IN  IF seats = <<>> THEN Keyed(step) ELSE seats[1]

joined_node(st, step, parent) ==
  LET at == attributed_node(st, parent)
      seats == IF at = 0 THEN <<>> ELSE seats_of(at, step)
      taken == Len(SelectSeq(st.spans, LAMBDA span : span.parent = parent /\ span.step = step))
  IN  IF seats = <<>> THEN Keyed(step) ELSE seats[(taken % Len(seats)) + 1]

(* A span of the engine carries no step id and joins no node. *)
on_span_start(st, step, parent) ==
  LET node == IF step = "" THEN 0 ELSE joined_node(st, step, parent)
      opened == [st EXCEPT !.spans = Append(@, [step |-> step, node |-> node, parent |-> parent, open |-> TRUE,
                                                failed_descendant |-> FALSE, failed_joined_descendant |-> FALSE])]
  IN  IF node = 0 THEN opened
      ELSE [opened EXCEPT !.nodes[node].suspended = FALSE,
                          !.nodes[node].occurrences =
                             Append(@, [span |-> Len(opened.spans), parent |-> parent, status |-> "active"])]

----------------------------------------------------------------------------
(* reduce.ts: failures. *)

span_kind(st, s) == IF st.spans[s].node # 0 THEN tree[st.spans[s].node].kind ELSE "engine.generate"

absorbed_by_retry(st, span) ==
  LET up[s \in 0..Len(st.spans)] ==
        s # 0 /\ ((st.spans[s].open /\ span_kind(st, s) = "retry") \/ up[st.spans[s].parent])
  IN  up[st.spans[span].parent]

close_span(st, s, failed) ==
  LET span == st.spans[s]
      closed == [st EXCEPT !.spans[s].open = FALSE]
  IN  IF ~failed \/ span.parent = 0 THEN closed
      ELSE [closed EXCEPT !.spans[span.parent].failed_descendant = TRUE,
                          !.spans[span.parent].failed_joined_descendant =
                             @ \/ span.node # 0 \/ span.failed_joined_descendant]

settled_node(st, s, failed) ==
  IF st.spans[s].node = 0 THEN st
  ELSE [st EXCEPT !.nodes[st.spans[s].node].occurrences =
          [i \in DOMAIN @ |-> IF @[i].span = s THEN [@[i] EXCEPT !.status = IF failed THEN "failed" ELSE "done"]
                              ELSE @[i]]]

Scar(st, node) == [st EXCEPT !.scars = @ + 1, !.nodes[node].scarred = TRUE]

fold_failure(st, s) ==
  LET span == st.spans[s]
      suspended == span.node # 0 /\ st.nodes[span.node].suspended
  IN  IF suspended THEN st
      ELSE IF absorbed_by_retry(st, s)
           THEN [st EXCEPT !.retries_absorbed = @ + (IF span.failed_descendant THEN 0 ELSE 1)]
      ELSE IF span.node = 0 \/ span.failed_joined_descendant \/ st.nodes[span.node].scarred THEN st
      ELSE Scar(st, span.node)

exhausted_attempts(st, s) ==
  {node \in DOMAIN st.nodes :
     LET seen == st.nodes[node].occurrences
     IN  seen # <<>> /\ Last(seen).status = "failed" /\ Last(seen).parent = s}

(* The first of them in the order of the map, which is that of the tree. *)
convert_exhausted_retry(st, s) ==
  IF span_kind(st, s) # "retry" \/ absorbed_by_retry(st, s) \/ exhausted_attempts(st, s) = {} THEN st
  ELSE LET victim == Min(exhausted_attempts(st, s))
       IN  IF st.nodes[victim].scarred THEN st
           ELSE [Scar(st, victim) EXCEPT !.retries_absorbed = IF @ = 0 THEN 0 ELSE @ - 1]

on_span_end(st, s, failed) ==
  LET settled == settled_node(close_span(st, s, failed), s, failed)
  IN  IF failed THEN convert_exhausted_retry(fold_failure(settled, s), s) ELSE settled

(* A suspension names its step, and the first open span of it is its place. *)
named_node(st, step) ==
  LET open == {s \in DOMAIN st.spans : st.spans[s].open /\ st.spans[s].step = step}
  IN  IF open = {} THEN Keyed(step) ELSE st.spans[Min(open)].node

on_suspended(st, step) == [st EXCEPT !.nodes[named_node(st, step)].suspended = TRUE]

on_checkpoint(st, step, status) == [st EXCEPT !.nodes[named_node(st, step)].checkpoint = status]

on_turn_retry(st, s) ==
  LET node == attributed_node(st, s)
      counted == [st EXCEPT !.retries_absorbed = @ + 1]
  IN  IF node = 0 THEN counted ELSE [counted EXCEPT !.nodes[node].turn_retries = @ + 1]

on_cost(st, s) ==
  LET node == attributed_node(st, s)
      summed == [st EXCEPT !.cost_usd = @ + 1]
  IN  IF node = 0 THEN [summed EXCEPT !.unattributed_usd = @ + 1]
      ELSE [summed EXCEPT !.nodes[node].cost_usd = @ + 1]

node_status(node) ==
  IF node.suspended THEN "suspended"
  ELSE IF \E i \in DOMAIN node.occurrences : node.occurrences[i].status = "active" THEN "active"
  ELSE IF node.occurrences = <<>> THEN "pending"
  ELSE Last(node.occurrences).status

----------------------------------------------------------------------------
(* The run: each of its spans starts its children, or ends as they did.     *)
(* "failed" may be tried again, "final" is a control-flow signal, or what   *)
(* the retry's `when` rejects.                                              *)

Started(place, parent) == [place |-> place, parent |-> parent, end |-> "open"]

Init ==
  /\ tree \in Trees
  /\ frames = <<Started(1, 0)>>
  /\ parked = {}
  /\ looked = {}
  /\ spent = <<>>
  /\ retried = 0
  /\ state = on_span_start(initial_state(tree), tree[1].step, 0)

AllEnded(s) == \A t \in Kids(s) : ~Open(t)

Ends(s) == {frames[t].end : t \in Kids(s)}

(* The child that a span starts next, 0 for a call of the model. *)
Due(s) ==
  LET kids == IF frames[s].place = 0 THEN <<>> ELSE tree[frames[s].place].kids
      n == Cardinality(Kids(s))
      next == CASE Kind(s) = "step" -> n = 0 /\ tree[frames[s].place].calls
                [] Kind(s) = "sequence" -> n < Len(kids) /\ Ends(s) \subseteq {"done"}
                [] Kind(s) = "parallel" -> n < Len(kids)
                [] Kind(s) = "retry" -> n < MaxAttempts /\ Ends(s) \subseteq {"failed"}
                [] Kind(s) = "fallback" -> n < Len(kids) /\ Ends(s) \subseteq {"failed"}
                [] Kind(s) = "branch" -> n = 0
                [] Kind(s) = "map" -> n < MaxItems /\ Ends(s) \subseteq {"open", "done"}
                [] Kind(s) = "checkpoint" -> n = 0 /\ <<s, "miss">> \in looked
                [] OTHER -> FALSE
  IN  CASE ~next -> {}
        [] next /\ Kind(s) = "step" -> {0}
        [] next /\ Kind(s) = "branch" -> ToSet(kids)
        [] next /\ Kind(s) \in {"retry", "map"} -> {kids[1]}
        [] OTHER -> {kids[n + 1]}

Starts(s) ==
  /\ Open(s)
  /\ \E place \in Due(s) :
       /\ frames' = Append(frames, Started(place, s))
       /\ state' = on_span_start(state, IF place = 0 THEN "" ELSE tree[place].step, s)
  /\ UNCHANGED <<tree, parked, looked, spent, retried>>

(* How a span may end, given its children. *)
Outcomes(s) ==
  LET worst == IF "final" \in Ends(s) THEN {"final"} ELSE IF "failed" \in Ends(s) THEN {"failed"} ELSE {"done"}
  IN  CASE Kind(s) = "sequence" -> IF Due(s) = {} THEN worst ELSE {}
        [] Kind(s) = "parallel" -> IF Due(s) = {} THEN worst ELSE {}
        [] Kind(s) = "retry" ->
             IF "done" \in Ends(s) THEN {"done"} ELSE IF "final" \in Ends(s) THEN {"final"}
             ELSE IF Due(s) = {} THEN {"failed"} ELSE IF Kids(s) = {} THEN {} ELSE {"final"}
        [] Kind(s) = "fallback" ->
             IF Kids(s) = {} THEN {} ELSE IF "done" \in Ends(s) THEN {"done"} ELSE IF "final" \in Ends(s) THEN {"final"} ELSE {"failed"}
        [] Kind(s) = "branch" -> IF Kids(s) = {} THEN {"failed"} ELSE worst
        [] Kind(s) = "map" -> IF Kids(s) = {} THEN {} ELSE worst
        [] Kind(s) = "checkpoint" -> IF Due(s) = {} /\ \E answer \in {"hit", "miss"} : <<s, answer>> \in looked THEN worst ELSE {}
        [] Kind(s) = "suspend" -> IF s \in parked THEN {"final"} ELSE {"done"}
        [] OTHER -> IF worst = {"done"} THEN {"done", "failed"} ELSE worst

EndsAs(s, outcome) ==
  /\ Open(s) /\ AllEnded(s)
  /\ outcome \in Outcomes(s)
  /\ frames' = [frames EXCEPT ![s].end = outcome]
  /\ state' = on_span_end(state, s, outcome # "done")
  /\ UNCHANGED <<tree, parked, looked, spent, retried>>

Suspends(s) ==
  /\ Open(s) /\ Kind(s) = "suspend" /\ s \notin parked
  /\ parked' = parked \cup {s}
  /\ state' = on_suspended(state, tree[frames[s].place].step)
  /\ UNCHANGED <<tree, frames, looked, spent, retried>>

LooksUp(s) ==
  /\ Open(s) /\ Kind(s) = "checkpoint"
  /\ \A answer \in {"hit", "miss"} : <<s, answer>> \notin looked
  /\ \E answer \in {"hit", "miss"} :
       /\ looked' = looked \cup {<<s, answer>>}
       /\ state' = on_checkpoint(state, tree[frames[s].place].step, answer)
  /\ UNCHANGED <<tree, frames, parked, spent, retried>>

Costs(s) ==
  /\ Open(s) /\ Kind(s) = "engine.generate" /\ Len(spent) < MaxCosts
  /\ spent' = Append(spent, frames[frames[s].parent].place)
  /\ state' = on_cost(state, s)
  /\ UNCHANGED <<tree, frames, parked, looked, retried>>

RetriesATurn(s) ==
  /\ Open(s) /\ Kind(s) = "engine.generate" /\ retried < MaxRetries
  /\ retried' = retried + 1
  /\ state' = on_turn_retry(state, s)
  /\ UNCHANGED <<tree, frames, parked, looked, spent>>

Next ==
  \E s \in Spans :
    \/ Starts(s)
    \/ \E outcome \in {"done", "failed", "final"} : EndsAs(s, outcome)
    \/ Suspends(s)
    \/ LooksUp(s)
    \/ Costs(s)
    \/ RetriesATurn(s)

----------------------------------------------------------------------------
(* The drawing. *)

Segments == ToSet(flow.segments)
Pucks == {glyph.id : glyph \in ToSet(flow.nodes)}

----------------------------------------------------------------------------
(* scene_context *)

children(place) == tree[place].kids

Parent(place) == {p \in DOMAIN tree : place \in ToSet(children(p))}

first_leaf(place) ==
  LET down[p \in DOMAIN tree] == IF children(p) = <<>> THEN p ELSE down[children(p)[1]]
  IN  down[place]

loop_leaves == {segment.to : segment \in {s \in Segments : s.role = "loop_upper"}}

fallback_primaries == {children(p)[1] : p \in {q \in DOMAIN tree : tree[q].kind = "fallback"}}

checkpoint_hits == {first_leaf(p) : p \in {q \in DOMAIN tree : tree[q].kind = "checkpoint" /\ state.nodes[q].checkpoint = "hit"}}

occurrences_of(place) == state.nodes[place].occurrences

Statuses(place) == {occurrences_of(place)[i].status : i \in DOMAIN occurrences_of(place)}

is_running(place) == "active" \in Statuses(place)
completed(place) == occurrences_of(place) # <<>> /\ ~is_running(place)
is_scarred(place) == state.nodes[place].scarred
is_suspended(place) == state.nodes[place].suspended

last_failed(place) == occurrences_of(place) # <<>> /\ Last(occurrences_of(place)).status = "failed"

inside(from, to) ==
  LET within[p \in DOMAIN tree] == p = to \/ \E q \in Parent(p) : within[q]
  IN  from # 0 /\ within[from]

----------------------------------------------------------------------------
(* segment_state *)

(* An attempt runs, or the last one failed and the open loop owes another. *)
loop_engaged(loop, leaf) == is_running(loop) /\ (is_running(leaf) \/ last_failed(leaf))

live_lane_state(loop, leaf) ==
  IF loop_engaged(loop, leaf) THEN "live" ELSE IF occurrences_of(leaf) # <<>> THEN "traversed" ELSE "unbuilt"

spent_lane_state(leaf) == IF "failed" \in Statuses(leaf) THEN "traversed" ELSE "unbuilt"

return_lane_state(loop) ==
  LET body == children(loop)[1]
      repeated == Len(occurrences_of(body)) >= 2
  IN  IF loop_engaged(loop, body) /\ (repeated \/ ~is_running(body)) THEN "live"
      ELSE IF repeated THEN "traversed" ELSE "unbuilt"

leaf_segment_state(to) ==
  LET target == first_leaf(to)
  IN  IF to \in fallback_primaries /\ is_scarred(to) THEN "unbuilt"
      ELSE IF occurrences_of(target) = <<>> THEN "unbuilt"
      ELSE IF is_running(target) /\ target \notin loop_leaves /\ ~is_suspended(target) THEN "live"
      ELSE "traversed"

(* The junction of the fan p is -p. *)
segment_state(segment) ==
  CASE segment.role = "loop_upper" -> live_lane_state(segment.from, segment.to)
    [] segment.role = "loop_lower" -> spent_lane_state(segment.to)
    [] segment.role = "loop_return" -> return_lane_state(segment.to)
    [] OTHER -> IF segment.to < 0 THEN IF completed(-segment.to) THEN "traversed" ELSE "unbuilt"
                ELSE IF inside(segment.from, segment.to) THEN IF completed(segment.to) THEN "traversed" ELSE "unbuilt"
                ELSE leaf_segment_state(segment.to)

----------------------------------------------------------------------------
(* The pucks, their marks and their cards. *)

attempt_parent(place) == {p \in Parent(place) : tree[p].kind = "retry"}

is_map_child(place) == \E p \in Parent(place) : tree[p].kind = "map"

(* A failed attempt whose retry is open is about to run again. *)
view_status(place) ==
  LET status == node_status(state.nodes[place])
  IN  IF status = "failed" /\ \E retry \in attempt_parent(place) : is_running(retry) THEN "active" ELSE status

shows_scar(place) == is_scarred(place) /\ ~is_map_child(place)

Failures(place) == Len(SelectSeq(occurrences_of(place), LAMBDA o : o.status = "failed"))

(* One mark for each failed attempt, beside the circle of its puck. *)
fail_marks == [leaf \in {s.to : s \in {t \in Segments : t.role = "loop_lower"}} \cap Pucks |-> Failures(leaf)]

tick_status(status) == CASE status = "active" -> "live" [] status = "failed" -> "failed" [] OTHER -> "done"

(* A tick for each instance, in the order that they started. *)
scene_tick_lanes ==
  [owner \in {lane.owner : lane \in ToSet(flow.tick_lanes)} |->
     LET instances == occurrences_of(children(owner)[1])
     IN  [i \in DOMAIN instances |-> tick_status(instances[i].status)]]

(* What the structure knows before any span: how its parent frames a place. *)
framed_caption(place) ==
  LET frames_it(p) ==
        CASE tree[p].kind = "map" -> {"MAP"}
          [] tree[p].kind = "loop" -> {"LOOP"}
          [] tree[p].kind = "retry" -> {"RETRY"}
          [] tree[p].kind = "fallback" -> {IF place = children(p)[1] THEN "PRIMARY" ELSE "BACKUP"}
          [] OTHER -> {}
  IN  UNION {frames_it(p) : p \in Parent(place)}

caption(glyph) ==
  IF glyph.terminus THEN "TERMINUS"
  ELSE IF framed_caption(glyph.id) = {} THEN tree[glyph.id].kind
  ELSE CHOOSE text \in framed_caption(glyph.id) : TRUE

(* An attempt has failed and its open retry owes another. *)
owed(place) == last_failed(place) /\ \E retry \in attempt_parent(place) : is_running(retry)

current_attempt(place) == Min({MaxAttempts, Len(occurrences_of(place)) + (IF owed(place) THEN 1 ELSE 0)})

Meta(text, count, running, fails) == [text |-> text, count |-> count, running |-> running, fails |-> fails]

(* The caption, and what the run has made true of it. *)
node_meta(glyph) ==
  LET place == glyph.id
      count == Len(occurrences_of(place))
  IN  IF is_suspended(place) THEN Meta("SUSPENDED", 0, FALSE, 0)
      ELSE IF count = 0 THEN Meta(caption(glyph), 0, FALSE, 0)
      ELSE IF ~glyph.terminus /\ attempt_parent(place) # {} THEN Meta("ATT", current_attempt(place), is_running(place) \/ owed(place), 0)
      ELSE IF ~glyph.terminus /\ is_map_child(place) THEN Meta(caption(glyph), count, is_running(place), Failures(place))
      ELSE Meta(caption(glyph), count, is_running(place), 0)

retry_content(place) ==
  IF \E retry \in attempt_parent(place) :
       is_running(retry) /\ (owed(place) \/ is_running(place)) /\ current_attempt(place) >= 2
  THEN "attempt" ELSE "none"

card_content(place) ==
  IF is_suspended(place) THEN "suspended"
  ELSE IF shows_scar(place) THEN "failure"
  ELSE retry_content(place)

scene_cards == [place \in {p \in Pucks : card_content(p) # "none"} |-> card_content(place)]

(* A fallback says that it is armed until it settles. *)
group_text(owner) == [name |-> owner, armed |-> tree[owner].kind = "fallback" /\ ~completed(owner)]

----------------------------------------------------------------------------
(* The run, and the layout that is memoized on its structure alone. *)

SceneInit ==
  /\ Init
  /\ \E drawing \in Flows : drawing[1] = tree /\ flow = drawing[2]

SceneNext == Next /\ UNCHANGED flow

SceneSpec == SceneInit /\ [][SceneNext]_<<vars, flow>>

----------------------------------------------------------------------------
(* Properties of the fold. *)

Over == ~Open(1)

Chain(s) ==
  LET up[t \in 0..Len(frames)] == IF t = 0 THEN {} ELSE {t} \cup up[frames[t].parent]
  IN  up[s]

PlacesOf(spans) == {frames[t].place : t \in spans} \ {0}

(* A failure that no other brought about. *)
Deaths == {s \in Spans : frames[s].end \in {"failed", "final"} /\ Ends(s) \subseteq {"done"}}

Tried(r) == Cardinality(Kids(r)) - 1

TriedAgain(s) == \E r \in Chain(s) : Kind(r) = "retry" /\ \E t \in Kids(r) : t > Max(Chain(s) \cap Kids(r))

Scarred == {place \in DOMAIN tree : state.nodes[place].scarred}

UnderARetry(s) == \E r \in Chain(s) : Kind(r) = "retry"

(* Spans of the same step are told apart by where they ran, in every order  *)
(* of the parallel parts; each death that no retry took up again is one     *)
(* scar, on one place of the chain that handed it on, and there are no      *)
(* others; the retries absorbed are the attempts that were made again and   *)
(* the turns that were; and a cost is its place's.  (Nothing is said of a   *)
(* run that waits at a gate under a retry.)                                 *)
CanvasTellsTheRun ==
  /\ \A s \in Spans : state.spans[s].node = frames[s].place /\ state.spans[s].open = Open(s)
  /\ state.cost_usd = Len(spent) /\ state.unattributed_usd = 0
  /\ \A place \in DOMAIN tree :
       state.nodes[place].cost_usd = Len(SelectSeq(spent, LAMBDA at : at = place))
  /\ Over /\ ~(\E s \in parked : UnderARetry(s)) =>
       LET terminal == {s \in Deaths \ parked : ~TriedAgain(s)}
       IN  /\ \A s \in terminal : Cardinality(PlacesOf(Chain(s)) \cap Scarred) = 1
           /\ \A place \in Scarred : \E s \in terminal : place \in PlacesOf(Chain(s))
           /\ state.scars = Cardinality(Scarred)
           /\ state.retries_absorbed = retried + FoldSet(LAMBDA s, sum : sum + Tried(s), 0, {s \in Spans : Kind(s) = "retry"})
           /\ \A place \in DOMAIN tree :
                (node_status(state.nodes[place]) = "pending") = (place \notin PlacesOf(Spans))

----------------------------------------------------------------------------
(* Properties of the scene. *)

Live == {s \in Segments : segment_state(s) = "live"}

Running(place) == \E s \in Spans : frames[s].place = place /\ Open(s)

Ran(place) == place \in PlacesOf(Spans)

Under(place) == {p \in DOMAIN tree : inside(p, place)}

(* The light is on a puck while its step runs, or while the retry that runs *)
(* it is to try it again; and so no light is left once the run is over.     *)
AmberIsAlive ==
  /\ \A place \in Pucks :
       view_status(place) = "active" =>
         Running(place) \/ \E retry \in attempt_parent(place) : Running(retry)
  /\ \A s \in Live : \E place \in Under(IF s.role \in {"loop_upper", "loop_return"} THEN s.from ELSE s.to) : Running(place)
  /\ Over => /\ Live = {}
             /\ \A place \in DOMAIN scene_cards : scene_cards[place] # "attempt"
             /\ \A glyph \in ToSet(flow.nodes) : ~node_meta(glyph).running
             /\ \A label \in ToSet(flow.group_labels) : group_text(label.owner).armed => ~Ran(label.owner)
             /\ \A owner \in DOMAIN scene_tick_lanes : \A i \in DOMAIN scene_tick_lanes[owner] : scene_tick_lanes[owner][i] # "live"

(* A fan whose lanes are alternatives, or a checkpoint that was spared. *)
Skips(place) == \E p \in Under(place) : tree[p].kind \in {"branch", "checkpoint"}

(* The light went through every line between two places that both ran, but  *)
(* for the line through a dead primary, and the arcs of what was not tried  *)
(* again.                                                                   *)
TheLineIsWhole ==
  Over /\ frames[1].end = "done" =>
    \A s \in Segments :
      \/ segment_state(s) = "traversed"
      \/ s.role \in {"loop_lower", "loop_return"}
      \/ s.to > 0 /\ (~Ran(s.to) \/ Skips(s.to) \/ (s.to \in fallback_primaries /\ is_scarred(s.to)))

(* Each attempt that was made leaves its mark, each instance its tick, and  *)
(* each gate that waits and each puck that died its card.                   *)
AllIsMarked ==
  /\ \A leaf \in DOMAIN fail_marks :
       fail_marks[leaf] = Cardinality({s \in Spans : frames[s].place = leaf /\ frames[s].end \in {"failed", "final"}})
  /\ \A owner \in DOMAIN scene_tick_lanes :
       Len(scene_tick_lanes[owner]) = Cardinality({s \in Spans : frames[s].place = children(owner)[1]})
  /\ \A place \in Pucks : shows_scar(place) \/ is_suspended(place) => place \in DOMAIN scene_cards
  /\ checkpoint_hits = {first_leaf(frames[s].place) : s \in {t \in Spans : <<t, "hit">> \in looked}}

SceneTellsTheRun == AmberIsAlive /\ TheLineIsWhole /\ AllIsMarked
=============================================================================
