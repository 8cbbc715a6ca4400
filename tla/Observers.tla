------------------------------ MODULE Observers ------------------------------
(***************************************************************************)
(* The sinks that observe a run, and the program that runs it under the    *)
(* stdio contract (src/adapters, src/otel, src/engine/trajectory.ts,       *)
(* src/stdio).  The program reads its input, runs a flow of model calls,   *)
(* disposes of its engine and writes the result; meanwhile the runner, the *)
(* engine and the calls' own wrappers open spans and record events on one  *)
(* logger, which may be a tee of several sinks.  Each sink names a span    *)
(* itself: an id is <<position of the sink, span>>.                        *)
(***************************************************************************)
EXTENDS Naturals, Sequences, FiniteSets, SequencesExt

CONSTANTS Decks,     \* the sinks a logger may fan out to: sequences of kinds
          Shapes,    \* "parallel", "sequence"
          Ways,      \* how a call reaches the engine: "model_call", "direct"
          Calls,     \* the model calls of the flow, numbered from 1
          MaxTurns,  \* turns of a call
          MaxFaults, \* calls of sinks that go wrong
          None

VARIABLES deck, shape, way,
          sinks,  \* each sink: its open spans, and what its last call recorded
          id_map, \* the tee's memory: what each sink called an open span
          name,   \* the id start_span gave its caller
          call, stage, outcome, faults

vars == <<deck, shape, way, sinks, id_map, name, call, stage, outcome, faults>>

(* Spans, and the span each really belongs under. *)
Root == <<"run", 0, 0>>
StepOf(c) == <<"step", c, 0>>
GenerateOf(c) == <<"generate", c, 0>>
TurnOf(c) == <<"turn", c, call[c].turn>>
Enclosing(s) == CASE s[1] = "run" -> None
                  [] s[1] = "step" -> Root
                  [] s[1] = "generate" -> StepOf(s[2])
                  [] OTHER -> GenerateOf(s[2])

Fresh == [stack |-> <<>>, starts |-> {}, ends |-> {}, lands |-> {}, points |-> {}]
Quiet(stack) == [Fresh EXCEPT !.stack = stack]

Init ==
    /\ deck \in Decks /\ shape \in Shapes /\ way \in [Calls -> Ways]
    /\ sinks = [k \in DOMAIN deck |-> Fresh]
    /\ id_map = <<>> /\ name = <<>> /\ faults = 0
    /\ call = [c \in Calls |-> [pc |-> "waiting", turn |-> 0, nest |-> <<>>, seen |-> FALSE, left |-> {}]]
    /\ stage = "read"
    /\ outcome = [produced |-> None, disposed |-> None, stdout |-> "nothing", code |-> None]

Top(stack) == IF stack = <<>> THEN None ELSE Last(stack)
Without(stack, id) == SelectSeq(stack, LAMBDA x : x # id)
With(f, s, v) == [x \in DOMAIN f \cup {s} |-> IF x = s THEN v ELSE f[x]]
Less(f, s) == [x \in DOMAIN f \ {s} |-> f[x]]

(* A sink's faults: a line that cannot be written is dropped and the flow   *)
(* goes on; a sink of the caller's own may throw instead.                   *)
Faulty == {k \in DOMAIN deck : deck[k] \in {"line", "throws"}}
Hits == {hit \in SUBSET Faulty : faults + Cardinality(hit) <= MaxFaults}
Throws(k, hit) == k \in hit /\ deck[k] = "throws"

(* The line loggers take the parent they are given, and the bridge takes it *)
(* only when it is open; both fall back to the innermost open span.         *)
line_parent(sink, parent) == IF parent # None THEN parent ELSE Top(sink.stack)
parent_context(sink, parent) ==
    IF parent # None /\ Contains(sink.stack, parent) THEN parent ELSE Top(sink.stack)
Opened(k, s, parent, hit) ==
    LET above == IF deck[k] = "otel" THEN parent_context(sinks[k], parent) ELSE line_parent(sinks[k], parent)
    IN  [Quiet(Append(sinks[k].stack, <<k, s>>)) EXCEPT !.starts = IF k \in hit THEN {} ELSE {<<s, above>>}]
Closed(k, id, hit) ==
    [Quiet(Without(sinks[k].stack, id)) EXCEPT
        !.ends = IF k \in hit \/ (deck[k] = "otel" /\ ~Contains(sinks[k].stack, id)) THEN {} ELSE {id}]

(* The metrics stamp a point with the innermost call of generate: their     *)
(* stack is the bridge's, of which they keep those spans.                   *)
context_stack(sink) == SelectSeq(sink.stack, LAMBDA id : id[2][1] = "generate")
Metered == {"response_received", "tool_result", "cost", "turn_retry"}
base_attributes(sink) == Top(context_stack(sink))
target_for_event(sink, span) ==
    IF span # None /\ Contains(sink.stack, span) THEN span ELSE Top(sink.stack)
Noted(k, whats, c, span, hit) ==
    IF deck[k] # "otel"
    THEN [Quiet(sinks[k].stack) EXCEPT !.lands = IF k \in hit THEN {} ELSE {<<w, c, call[c].turn, span>> : w \in whats}]
    ELSE [Quiet(sinks[k].stack) EXCEPT
            !.lands = {<<w, c, call[c].turn, target_for_event(sinks[k], span)>> : w \in whats},
            !.points = {<<w, c, base_attributes(sinks[k])>> : w \in whats \cap Metered}]

(* The tee: the first id a sink gave is the caller's, and each sink is told *)
(* the end under its own.                                                   *)
canonical(s, hit) ==
    LET named == {k \in DOMAIN deck : ~Throws(k, hit)}
    IN  IF named = {} THEN <<0, s>> ELSE <<CHOOSE k \in named : \A j \in named : k <= j, s>>
start_span(s, parent, hit) ==
    /\ faults' = faults + Cardinality(hit)
    /\ sinks' = [k \in DOMAIN deck |-> IF Throws(k, hit) THEN Quiet(sinks[k].stack) ELSE Opened(k, s, parent, hit)]
    /\ name' = With(name, s, canonical(s, hit))
    /\ id_map' = IF Len(deck) = 1 THEN id_map
                 ELSE With(id_map, s, [k \in DOMAIN deck |-> IF Throws(k, hit) THEN None ELSE <<k, s>>])
own_id_untranslated(s, k) == name[s]
own_id(s, k) == IF s \notin DOMAIN id_map \/ id_map[s][k] = None THEN name[s] ELSE id_map[s][k]
end_span(s, hit) ==
    /\ faults' = faults + Cardinality(hit)
    /\ sinks' = [k \in DOMAIN deck |-> IF Throws(k, hit) THEN Quiet(sinks[k].stack) ELSE Closed(k, own_id(s, k), hit)]
    /\ id_map' = Less(id_map, s) /\ name' = Less(name, s)
record(whats, c, span, hit) ==
    /\ faults' = faults + Cardinality(hit)
    /\ sinks' = [k \in DOMAIN deck |-> IF Throws(k, hit) THEN Quiet(sinks[k].stack) ELSE Noted(k, whats, c, span, hit)]
    /\ UNCHANGED <<id_map, name>>

(* A call's own wrapper nests the engine's spans under the model_call step; *)
(* a step that calls the engine itself passes no parent.                    *)
nested_parent(c) == IF way[c] = "direct" THEN None ELSE Top(call[c].nest)
opens(c, s, pc, hit) ==
    /\ start_span(s, nested_parent(c), hit)
    /\ call' = [call EXCEPT ![c].pc = pc, ![c].nest = Append(@, canonical(s, hit)),
                            ![c].turn = IF s[1] = "turn" THEN s[3] ELSE @]
closes(c, s, pc, hit) ==
    /\ end_span(s, hit)
    /\ call' = [call EXCEPT ![c].pc = pc, ![c].nest = Without(@, name[s])]
goes(c, pc) == call' = [call EXCEPT ![c].pc = pc]

(* The events of a turn name its span, and those of its tools do not. *)
asked == {"request_sent", "request_wire"}
answered == {"response_received", "cache_miss"}
turn_ends == {"turn_paused", "turn_truncated", "capture_redaction_failed"}
of_tools == {"tool_call", "tool_result", "tool_approval_granted"}
of_clamp == {"tool_calls_dropped", "tool_call_salvaged"}
of_schema == {"schema_validation_failed", "option_ignored"}

------------------------------------------------------------------------------
(* The program: src/stdio. *)
Program == <<deck, shape, way>>
Watched == <<sinks, id_map, name, faults>>
Produces(v) == outcome' = [outcome EXCEPT !.produced = v]

RefusesInput ==
    /\ stage = "read"
    /\ \E at \in {"read", "parse", "validate_input"} : Produces(<<2, at>>)
    /\ stage' = "dispose"
    /\ UNCHANGED <<Program, Watched, call>>
RunStarts ==
    /\ stage = "read"
    /\ \E hit \in Hits : start_span(Root, None, hit)
    /\ stage' = "run"
    /\ UNCHANGED <<Program, call, outcome>>
AllSettled ==
    \A c \in Calls : \/ call[c].pc \in {"done", "failed"}
                     \/ shape = "sequence" /\ \E d \in Calls : d < c /\ call[d].pc = "failed"
RunEnds ==
    /\ stage = "run" /\ AllSettled
    /\ \E hit \in Hits : end_span(Root, hit)
    /\ IF \E c \in Calls : call[c].pc = "failed"
       THEN Produces(<<1, "run">>) /\ stage' = "dispose"
       ELSE stage' = "validate_output" /\ UNCHANGED outcome
    /\ UNCHANGED <<Program, call>>
ChecksOutput ==
    /\ stage = "validate_output"
    /\ \E v \in {"json", <<2, "validate_output">>, <<2, "serialize">>} : Produces(v)
    /\ stage' = "dispose"
    /\ UNCHANGED <<Program, Watched, call>>
dispose_engine ==
    /\ stage = "dispose"
    /\ \E d \in {"disposed", "dispose_failed"} :
         /\ outcome' = [outcome EXCEPT !.disposed = d,
                                       !.code = IF outcome.produced # "json" THEN outcome.produced[1]
                                                ELSE IF d = "dispose_failed" THEN 1 ELSE None]
         /\ stage' = IF outcome.produced = "json" /\ d = "disposed" THEN "write" ELSE "report"
    /\ UNCHANGED <<Program, Watched, call>>
write_output ==
    /\ stage = "write"
    /\ \/ outcome' = [outcome EXCEPT !.stdout = "result", !.code = 0] /\ stage' = "exited"
       \/ \E text \in {"nothing", "part"} :
            outcome' = [outcome EXCEPT !.stdout = text, !.code = 1] /\ stage' = "report"
    /\ UNCHANGED <<Program, Watched, call>>
ReportsFailure ==
    /\ stage = "report" /\ stage' = "exited"
    /\ UNCHANGED <<Program, Watched, call, outcome>>

------------------------------------------------------------------------------
(* A model call of the flow. *)
Rest == <<Program, stage, outcome>>
At(c, pc) == stage = "run" /\ call[c].pc = pc
MayStart(c) == shape = "parallel" \/ \A d \in Calls : d < c => call[d].pc = "done"

StepOpens(c) ==
    /\ At(c, "waiting") /\ MayStart(c)
    /\ \E hit \in Hits :
         /\ start_span(StepOf(c), name[Root], hit)
         /\ call' = [call EXCEPT ![c].pc = "step", ![c].nest = <<canonical(StepOf(c), hit)>>]
    /\ UNCHANGED Rest
IgnoresEffort(c) ==
    /\ At(c, "step")
    /\ \E hit \in Hits : record({"effort_ignored"}, c, None, hit)
    /\ goes(c, "effort_ignored") /\ UNCHANGED Rest
GenerateOpens(c) ==
    /\ At(c, "step") \/ At(c, "effort_ignored")
    /\ \E hit \in Hits : opens(c, GenerateOf(c), "generate", hit)
    /\ UNCHANGED Rest
TurnOpens(c) ==
    /\ At(c, "generate") /\ call[c].turn < MaxTurns
    /\ \E hit \in Hits : opens(c, <<"turn", c, call[c].turn + 1>>, "turn", hit)
    /\ UNCHANGED Rest
Asks(c) ==
    /\ At(c, "turn")
    /\ \E hit \in Hits : record(asked, c, name[TurnOf(c)], hit)
    /\ goes(c, "asked") /\ UNCHANGED Rest
Retries(c) ==
    /\ At(c, "asked")
    /\ \E hit \in Hits : record({"turn_retry"}, c, name[TurnOf(c)], hit)
    /\ UNCHANGED <<Rest, call>>
TurnFails(c) ==
    /\ At(c, "turn") \/ At(c, "asked")
    /\ \E hit \in Hits : closes(c, TurnOf(c), "throws", hit)
    /\ UNCHANGED Rest
Answers(c) ==
    /\ At(c, "asked")
    /\ \E hit \in Hits : record(answered, c, name[TurnOf(c)], hit)
    /\ goes(c, "answered") /\ UNCHANGED Rest
TurnIsCut(c) ==
    /\ At(c, "answered")
    /\ \E hit \in Hits, w \in turn_ends : record({w}, c, name[TurnOf(c)], hit)
    /\ goes(c, "worked") /\ UNCHANGED Rest
ToolsRun(c) ==
    /\ At(c, "answered")
    /\ \E hit \in Hits, ws \in {of_tools, of_tools \cup of_clamp} : record(ws, c, None, hit)
    /\ goes(c, "worked") /\ UNCHANGED Rest
(* An abort between two calls of a turn throws past the turn's span. *)
AbortsBetweenTools(c) ==
    /\ At(c, "answered")
    /\ call' = [call EXCEPT ![c].pc = "throws", ![c].left = {TurnOf(c)}]
    /\ UNCHANGED <<Rest, Watched>>
Prices(c) ==
    /\ At(c, "answered") \/ At(c, "worked")
    /\ \E hit \in Hits : record({"cost"}, c, name[TurnOf(c)], hit)
    /\ goes(c, "priced") /\ UNCHANGED Rest
(* The dedup is one generate's, and the event carries no span. *)
MissesPricing(c) ==
    /\ At(c, "answered") \/ At(c, "worked")
    /\ IF call[c].seen THEN UNCHANGED Watched
       ELSE \E hit \in Hits : record({"pricing_missing"}, c, None, hit)
    /\ call' = [call EXCEPT ![c].pc = "priced", ![c].seen = TRUE]
    /\ UNCHANGED Rest
TurnCloses(c) ==
    /\ At(c, "priced")
    /\ \E hit \in Hits : closes(c, TurnOf(c), "generate", hit)
    /\ UNCHANGED Rest
SchemaFails(c) ==
    /\ At(c, "generate") /\ call[c].turn > 0
    /\ \E hit \in Hits : record(of_schema, c, None, hit)
    /\ \E pc \in {"generate", "throws"} : goes(c, pc)
    /\ UNCHANGED Rest
GenerateCloses(c) ==
    /\ At(c, "throws") \/ (At(c, "generate") /\ call[c].turn > 0)
    /\ \E hit \in Hits : closes(c, GenerateOf(c), IF At(c, "throws") THEN "threw" ELSE "returned", hit)
    /\ UNCHANGED Rest
StepCloses(c) ==
    /\ At(c, "returned") \/ At(c, "threw")
    /\ \E hit \in Hits : closes(c, StepOf(c), IF At(c, "threw") THEN "failed" ELSE "done", hit)
    /\ UNCHANGED Rest

Call(c) == \/ StepOpens(c) \/ IgnoresEffort(c) \/ GenerateOpens(c) \/ TurnOpens(c) \/ Asks(c) \/ Retries(c)
           \/ TurnFails(c) \/ Answers(c) \/ TurnIsCut(c) \/ ToolsRun(c) \/ AbortsBetweenTools(c) \/ Prices(c)
           \/ MissesPricing(c) \/ TurnCloses(c) \/ SchemaFails(c) \/ GenerateCloses(c) \/ StepCloses(c)
Stdio == RefusesInput \/ RunStarts \/ RunEnds \/ ChecksOutput \/ dispose_engine \/ write_output \/ ReportsFailure
Next == Stdio \/ \E c \in Calls : Call(c)
Spec == Init /\ [][Next]_vars

------------------------------------------------------------------------------
Left == UNION {call[c].left : c \in Calls}
(* No two engine calls are under way together, and no span was left behind. *)
InTurn == shape = "sequence" /\ Left = {}
Sound(k) == deck[k] # "throws"
(* The sink whose ids the callers hold, and with it any bridge, if the      *)
(* calls run one after another.                                             *)
Knows(k) == Sound(k) /\ k = 1
Follows(k) == deck[k] = "otel" /\ InTurn

(* The sink whose ids the callers hold records the tree of spans that the   *)
(* run really has, for whatever goes through model_call, and the bridge     *)
(* does for every call that has the logger to itself.                       *)
TreeIsTheRuns ==
    \A k \in DOMAIN deck : \A m \in sinks[k].starts :
        Follows(k) \/ (Knows(k) /\ (m[1][2] = 0 \/ InTurn \/ way[m[1][2]] = "model_call")) =>
            m[2] = IF Enclosing(m[1]) = None THEN None ELSE <<k, Enclosing(m[1])>>
(* Each sink is told of the end of every span it opened, under its own id. *)
EndsArePaired ==
    \A k \in DOMAIN deck : Sound(k) =>
        /\ \A id \in sinks[k].ends : id[1] = k
        /\ stage \notin {"read", "run"} => \A i \in DOMAIN sinks[k].stack : sinks[k].stack[i][2] \in Left
(* What a turn records lands on that turn, and never on nothing. *)
EventsLand ==
    \A k \in DOMAIN deck : \A l \in sinks[k].lands :
        /\ Knows(k) /\ l[1] \in asked \cup answered \cup turn_ends \cup {"cost", "turn_retry"} =>
             l[4] = <<k, <<"turn", l[2], l[3]>>>>
        /\ deck[k] = "otel" => l[4] # None /\ (InTurn => l[4][2][2] = l[2])
(* A point is stamped with a call that is open, and its own if it is alone. *)
PointsAreStamped ==
    \A k \in DOMAIN deck : \A p \in sinks[k].points :
        p[3] # None /\ (shape = "sequence" => p[3][2] = GenerateOf(p[2]))
(* The exit code is 0 exactly when stdout has the whole result, the engine  *)
(* is disposed of whatever failed, and 2 is for a breach of the contract.   *)
VerdictIsTheOutput ==
    stage = "exited" =>
        /\ (outcome.code = 0) <=> (outcome.stdout = "result")
        /\ outcome.disposed # None
        /\ outcome.code = 2 <=> (outcome.produced # "json" /\ outcome.produced # <<1, "run">>)
        /\ Root \notin DOMAIN name

(* What the sinks have been told of the run is the run, as far as each can  *)
(* know it, and the program's verdict is what it wrote.                     *)
SinksTellTheRun == TreeIsTheRuns /\ EndsArePaired /\ EventsLand /\ PointsAreStamped /\ VerdictIsTheOutput

==============================================================================
