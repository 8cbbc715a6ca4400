------------------------------- MODULE Generate -------------------------------
(* One generate call of an engine (generate.ts, create_engine.ts): how its *)
(* options resolve or are refused, its turns and its schema repairs, and   *)
(* what it tells of them in its result and its trajectory: usage, prices   *)
(* and spans (usage.ts, pricing.ts, trajectory.ts).  What a turn does with *)
(* its calls is ToolLoop's, and what a turn's attempts do is Turn's.       *)
(* Amounts are in tenths of a millionth of a dollar.                       *)
EXTENDS Integers, Sequences, FiniteSets, SequencesExt, Functions

CONSTANTS
  Calls,     \* the options that a call may have
  Defaults,  \* config.defaults
  Adapters,  \* the configured providers: kind, what it supports, its caching, whether it is free
  Config,    \* config.pricing: the row of the call's model, or None
  Rows,      \* the rows that register_price may set
  Usages,    \* what a turn may use
  Charges,   \* what a provider may report that a turn cost
  None

VARIABLES
  engines,  \* the engine, and the one that with_providers derives from it
  call,     \* the call
  log,      \* what its trajectory has recorded
  finishes, \* the finish chunks its consumer was handed
  billed    \* history: what each turn that answered used and is said to have cost

vars == <<engines, call, log, finishes, billed>>

Or(x, y) == IF x = None THEN y ELSE x

CacheSetting == {"off", "5m", "1h"}
CaptureLevel == {"off", "turns", "wire"}
TruncatedTurnPolicy == {"stop", "continue"}
FinishReason == {"stop", "tool_calls", "length", "content_filter", "max_steps"}
Pricing == [input : Nat, output : Nat, cached : Nat \union {None}, write : Nat \union {None}, write_1h : Nat \union {None}, reasoning : Nat \union {None}]
UsageTotals == [input : Nat, output : Nat, reasoning : Nat \union {None}, cached : Nat \union {None}, write : Nat \union {None}, write_1h : Nat \union {None}]
CostBreakdown == [total : Nat, input : Nat, output : Nat, cached : Nat \union {None}, write : Nat \union {None}, reasoning : Nat \union {None}]
StepRecord == [index : Nat, turn : Nat, usage : UsageTotals, cost : CostBreakdown \union {None}, finish_reason : FinishReason, truncated : BOOLEAN]

(* What a call throws, as the errors' classes and their fields tell them   *)
(* apart.                                                                  *)
Outcomes ==
  {"none", "ok", "aborted", "engine_disposed", "model_required", "provider_required", "provider_not_configured", "duplicate tools", "cache",
   "capture", "truncated_turn_policy", "schema", "tools", "streaming", "turn_timeout_ms", "tool_call_repair_attempts",
   "max_tool_calls_per_step", "missing peer", "provider", "tool", "on_chunk", "schema_validation", "incomplete"}

(* Strings outside the sets stand for a caller's wrong values. *)
GenerateOptions ==
  [aborted : BOOLEAN, model : STRING \union {None}, provider : STRING \union {None}, schema : BOOLEAN,
   tools : Seq(STRING), on_chunk : BOOLEAN, cache : STRING \union {None}, capture : STRING \union {None},
   turn_timeout_ms : Int \union {None}, max_steps : Nat \union {None}, schema_repair_attempts : Nat \union {None},
   tool_call_repair_attempts : Int \union {None}, max_tool_calls_per_step : Int \union {None},
   truncated_turn_policy : STRING \union {None}, throws : BOOLEAN, system : BOOLEAN, prompt : Seq({"system", "user"})]

----------------------------------------------------------------------------
(* Resolving a call's options: its own, the engine's defaults, the built-in *)

resolve_provider(o) ==
  Or(o.provider, Or(Defaults.provider, IF Cardinality(DOMAIN Adapters) = 1 THEN CHOOSE p \in DOMAIN Adapters : TRUE ELSE None))

Unsupported == [kind |-> "none", supports |-> {}, prompt_cache |-> None, translate_cache |-> FALSE, free |-> FALSE]

adapter_of(o) == IF resolve_provider(o) \in DOMAIN Adapters THEN Adapters[resolve_provider(o)] ELSE Unsupported

FirstOf(checks) ==
  LET failed == SelectSeq(checks, LAMBDA c : c[1]) IN IF failed = <<>> THEN "none" ELSE failed[1][2]

Allowed(x, values) == x = None \/ x \in values

refused_options(o) ==
  FirstOf(<<<<o.aborted, "aborted">>,
            <<Or(o.model, Defaults.model) = None, "model_required">>,
            <<resolve_provider(o) = None, "provider_required">>,
            <<adapter_of(o) = Unsupported, "provider_not_configured">>,
            <<~IsInjective(o.tools), "duplicate tools">>,
            <<~Allowed(o.cache, CacheSetting), "cache">>,
            <<~Allowed(o.capture, CaptureLevel), "capture">>,
            <<~Allowed(o.truncated_turn_policy, TruncatedTurnPolicy), "truncated_turn_policy">>>>)

refused_capability(o) ==
  LET lacks(c) == c \notin adapter_of(o).supports
  IN FirstOf(<<<<o.schema /\ lacks("schema"), "schema">>,
               <<o.tools # <<>> /\ lacks("tools"), "tools">>,
               <<o.on_chunk /\ lacks("streaming"), "streaming">>,
               <<LET t == Or(o.turn_timeout_ms, Defaults.turn_timeout_ms) IN t # None /\ t <= 0, "turn_timeout_ms">>>>)

refused_limit(o) ==
  LET cap == Or(o.max_tool_calls_per_step, Defaults.max_tool_calls_per_step)
  IN FirstOf(<<<<Or(o.tool_call_repair_attempts, Or(Defaults.tool_call_repair_attempts, 0)) < 0, "tool_call_repair_attempts">>,
               <<cap # None /\ cap < 1, "max_tool_calls_per_step">>>>)

declared_caching(a) ==
  IF a.kind = "ai_sdk" /\ a.prompt_cache # "automatic" /\ ~a.translate_cache THEN None ELSE a.prompt_cache

(* The setting, and whether an explicit one is ignored. *)
resolve_cache(o) ==
  LET asked == Or(o.cache, Defaults.cache)
      declared == declared_caching(adapter_of(o))
  IN IF declared = "with_tools" THEN <<Or(asked, IF o.tools # <<>> THEN "5m" ELSE "off"), FALSE>>
     ELSE IF declared = "opt_in" THEN <<Or(asked, "off"), FALSE>>
     ELSE <<"off", asked \notin {None, "off"}>>

resolve_capture(o) ==
  LET level == Or(o.capture, Or(Defaults.capture, "off"))
  IN IF level = "wire" /\ adapter_of(o).kind = "ai_sdk" THEN <<"turns", TRUE>> ELSE <<level, FALSE>>

OptionsIgnored(o) ==
  LET ignored(option) == [kind |-> "option_ignored", option |-> option]
  IN (IF resolve_cache(o)[2] THEN <<ignored("cache")>> ELSE <<>>)
     \o (IF resolve_capture(o)[2] THEN <<ignored("capture")>> ELSE <<>>)

max_steps(o) == Or(o.max_steps, Or(Defaults.max_steps, 10))
schema_repair_attempts(o) == Or(o.schema_repair_attempts, Or(Defaults.schema_repair_attempts, 1))
ContinuesTruncated(o) == Or(o.truncated_turn_policy, Defaults.truncated_turn_policy) = "continue"

(* The first system message carries the request for JSON, and one is added *)
(* for it when there is none.                                              *)
build_prompt_messages(o) ==
  LET messages == (IF o.system THEN <<"system">> ELSE <<>>) \o o.prompt
      asking == SelectInSeq(messages, LAMBDA m : m = "system")
  IN IF ~o.schema THEN messages
     ELSE IF asking # 0 THEN [messages EXCEPT ![asking] = "system+schema"]
     ELSE <<"system+schema">> \o messages

----------------------------------------------------------------------------
(* Usage and prices *)

Optional == {"reasoning", "cached", "write", "write_1h"}
Zero(x) == Or(x, 0)
SumOf(s, field) == FoldLeft(LAMBDA n, x : n + Zero(x[field]), 0, s)

sum_usage(usages) ==
  [field \in {"input", "output"} \union Optional |->
     IF field \in Optional /\ \A i \in DOMAIN usages : usages[i][field] = None THEN None ELSE SumOf(usages, field)]

round6(x) == ((x + 5) \div 10) * 10
Least(x, y) == IF x < y THEN x ELSE y
AtLeast0(x) == IF x < 0 THEN 0 ELSE x

Nothing == [total |-> 0, input |-> 0, output |-> 0, cached |-> None, write |-> None, reasoning |-> None]

compute_cost(u, row) ==
  LET cached == Zero(u.cached)  write == Zero(u.write)  reasoning == Zero(u.reasoning)
      write_1h == Least(write, Zero(u.write_1h))
      input_raw == AtLeast0(u.input - cached - write) * row.input
      cached_raw == cached * Or(row.cached, row.input)
      write_raw == (write - write_1h) * Or(row.write, row.input) + write_1h * Or(row.write_1h, 2 * row.input)
      reasoning_raw == reasoning * Or(row.reasoning, row.output)
      surfaced == reasoning > 0 /\ row.reasoning # None
      output_raw == AtLeast0(u.output - reasoning) * row.output + (IF surfaced THEN 0 ELSE reasoning_raw)
  IN [total |-> round6(input_raw + cached_raw + write_raw + output_raw + (IF surfaced THEN reasoning_raw ELSE 0)),
      input |-> round6(input_raw), output |-> round6(output_raw),
      cached |-> IF cached > 0 THEN round6(cached_raw) ELSE None,
      write |-> IF write > 0 THEN round6(write_raw) ELSE None,
      reasoning |-> IF surfaced THEN round6(reasoning_raw) ELSE None]

(* Weights are in twentieths of an input token; a part is cut to a tenth. *)
decompose_total_cost(total, u) ==
  LET cached == Zero(u.cached)  write == Zero(u.write)  write_1h == Least(write, Zero(u.write_1h))
      w == [input |-> 20 * AtLeast0(u.input - cached - write), output |-> 20 * u.output, cached |-> 2 * cached,
            write |-> 25 * (write - write_1h) + 40 * write_1h]
      all == w.input + w.output + w.cached + w.write
      part(field) == (total * w[field]) \div all
  IN IF all = 0 \/ total = 0 THEN [Nothing EXCEPT !.total = total]
     ELSE [total |-> total, input |-> part("input"), output |-> part("output"), reasoning |-> None,
           cached |-> IF cached > 0 THEN part("cached") ELSE None, write |-> IF write > 0 THEN part("write") ELSE None]

aggregate_cost(steps, free) ==
  LET costs == FoldLeft(LAMBDA s, step : IF step.cost = None THEN s ELSE Append(s, step.cost), <<>>, steps)
      some(field) == \E i \in DOMAIN costs : costs[i][field] # None
  IN IF costs = <<>> THEN (IF free /\ steps # <<>> THEN Nothing ELSE None)
     ELSE [field \in {"total", "input", "output", "cached", "write", "reasoning"} |->
             IF some(field) THEN round6(SumOf(costs, field)) ELSE None]

----------------------------------------------------------------------------
(* The engines.  Bounds of the model: none is derived or  *)
(* disposed of once the call is made, which is what it sees of either.     *)

At(phase) == call.phase = phase
create_engine == [live |-> TRUE, disposed |-> FALSE, pricing |-> Config]
Underived == [live |-> FALSE, disposed |-> FALSE, pricing |-> None]

register_price ==
  /\ ~At("over")
  /\ \E e \in DOMAIN engines, row \in Rows : engines[e].live /\ engines' = [engines EXCEPT ![e].pricing = row]
  /\ UNCHANGED <<call, log, finishes, billed>>

with_providers ==
  /\ At("unmade") /\ ~engines[2].live /\ engines' = [engines EXCEPT ![2] = create_engine]
  /\ UNCHANGED <<call, log, finishes, billed>>

dispose ==
  /\ At("unmade")
  /\ \E e \in DOMAIN engines : engines[e].live /\ ~engines[e].disposed /\ engines' = [engines EXCEPT ![e].disposed = TRUE]
  /\ UNCHANGED <<call, log, finishes, billed>>

----------------------------------------------------------------------------
(* The call *)

Unmade ==
  [phase |-> "unmade", engine |-> 1, opts |-> None, aborted |-> FALSE, steps |-> <<>>, loop |-> <<>>, step_index |-> 0,
   turn |-> None, paused |-> <<>>, text |-> <<>>, finish_reason |-> "stop", repairs |-> 0, messages |-> <<>>,
   previous_cache_traffic |-> 0, priced |-> TRUE, parsed |-> None, outcome |-> "none", result |-> None]

Init ==
  /\ engines = <<create_engine, Underived>>
  /\ call = Unmade /\ log = <<>> /\ finishes = 0 /\ billed = <<>>

opts == call.opts
adapter == adapter_of(opts)
Event(kind, index) == [kind |-> kind, index |-> index]

Over(outcome) == [call EXCEPT !.phase = "over", !.outcome = outcome]

(* The catch of generate: the span ends with the error. *)
Throws(outcome, events) == call' = Over(outcome) /\ log' = log \o events \o <<Event("span_end", 1)>>

generate ==
  /\ At("unmade")
  /\ \E e \in DOMAIN engines, o \in Calls :
       /\ engines[e].live
       /\ LET made == [call EXCEPT !.engine = e, !.opts = o, !.aborted = o.aborted]
              refused == FirstOf(<<<<engines[e].disposed, "engine_disposed">>,
                                   <<refused_options(o) # "none", refused_options(o)>>,
                                   <<adapter_of(o).kind # "external" /\ refused_capability(o) # "none", refused_capability(o)>>>>)
          IN IF refused # "none" THEN call' = [made EXCEPT !.phase = "over", !.outcome = refused] /\ log' = log
             ELSE IF adapter_of(o).kind = "external" THEN call' = [made EXCEPT !.phase = "external"] /\ log' = log
             ELSE /\ call' = [made EXCEPT !.phase = IF adapter_of(o).kind = "ai_sdk" THEN "transport" ELSE "open"]
                  /\ log' = OptionsIgnored(o)
  /\ UNCHANGED <<engines, finishes, billed>>

Aborts ==
  /\ call.phase \notin {"unmade", "over"} /\ ~call.aborted /\ call' = [call EXCEPT !.aborted = TRUE]
  /\ UNCHANGED <<engines, log, finishes, billed>>

Delegated ==
  /\ At("external") /\ \E outcome \in {"ok", "provider"} : call' = Over(outcome)
  /\ UNCHANGED <<engines, log, finishes, billed>>

(* The ai_sdk transport is imported first, and its peer may be missing. *)
build_ai_sdk_transport ==
  /\ At("transport") /\ call' \in {Over("missing peer"), [call EXCEPT !.phase = "open"]}
  /\ UNCHANGED <<engines, log, finishes, billed>>

Opens ==
  /\ At("open")
  /\ IF refused_limit(opts) # "none" THEN call' = Over(refused_limit(opts)) /\ log' = log
     ELSE /\ call' = [call EXCEPT !.phase = "loop", !.repairs = schema_repair_attempts(opts), !.messages = build_prompt_messages(opts)]
          /\ log' = Append(log, Event("span_start", 1))
  /\ UNCHANGED <<engines, finishes, billed>>

(* run_tool_loop is done: its steps join those before it. *)
loop_result(c, text, finish) ==
  [c EXCEPT !.steps = @ \o c.loop, !.loop = <<>>, !.paused = <<>>, !.text = text, !.finish_reason = finish,
            !.phase = IF ~opts.schema THEN "assemble" ELSE IF finish = "stop" THEN "parse" ELSE "incomplete"]

LoopTop ==
  /\ At("loop")
  /\ IF call.aborted THEN Throws("aborted", <<>>)
     ELSE IF call.step_index >= max_steps(opts) THEN call' = loop_result(call, <<>>, "max_steps") /\ log' = log
     ELSE /\ call' = [call EXCEPT !.phase = "turn"]
          /\ log' = log \o <<Event("step_start", call.step_index), Event("request_sent", call.step_index)>>
  /\ UNCHANGED <<engines, finishes, billed>>

TurnFails ==
  /\ At("turn") /\ Throws(IF call.aborted THEN "aborted" ELSE "provider", <<Event("step_end", call.step_index)>>)
  /\ UNCHANGED <<engines, finishes, billed>>

cache_miss(u) ==
  IF call.previous_cache_traffic > 0 /\ Zero(u.cached) = 0 THEN <<Event("cache_miss", call.step_index)>> ELSE <<>>

TurnAnswers ==
  /\ At("turn")
  /\ \E u \in Usages, end \in {"stop", "length", "content_filter", "paused", "calls"}, charge \in Charges \union {None} :
       /\ end = "calls" => opts.tools # <<>>
       /\ call' = [call EXCEPT !.phase = IF end = "calls" THEN "tools" ELSE "answered",
                               !.turn = [usage |-> u, end |-> end, charge |-> charge, n |-> Len(billed) + 1],
                               !.previous_cache_traffic = Zero(u.cached) + Zero(u.write)]
       /\ log' = Append(log, Event("response_received", call.step_index)) \o cache_miss(u)
       /\ billed' = Append(billed, [usage |-> u, charge |-> charge])
  /\ UNCHANGED <<engines, finishes>>

(* compute_and_record_cost: what the provider charged, else what the table *)
(* says at this moment, else nothing for a free one.                       *)
StepCost ==
  LET row == engines[call.engine].pricing
  IN IF call.turn.charge # None THEN decompose_total_cost(call.turn.charge, call.turn.usage)
     ELSE IF row # None THEN compute_cost(call.turn.usage, row)
     ELSE IF adapter.free THEN Nothing ELSE None

push_step_record(finish, truncated) ==
  [call EXCEPT !.loop = Append(@, [index |-> call.step_index, turn |-> call.turn.n, usage |-> call.turn.usage, cost |-> StepCost,
                                   finish_reason |-> finish, truncated |-> truncated]),
               !.priced = @ /\ StepCost # None]

StepEvents ==
  LET i == call.step_index
  IN (IF StepCost # None THEN <<Event("cost", i)>> ELSE IF call.priced THEN <<Event("pricing_missing", i)>> ELSE <<>>)
     \o <<Event("step_end", i)>>

GoesOn(c, role) == [c EXCEPT !.phase = "loop", !.step_index = @ + 1, !.messages = @ \o role]

(* A turn without calls: it pauses, is cut off and goes on, or ends the loop. *)
Answered ==
  /\ At("answered")
  /\ LET end == call.turn.end
         last == call.step_index + 1 >= max_steps(opts)
         text == <<call.turn.n>>
         cut == end = "length" /\ opts.tools # <<>> /\ ~last /\ ContinuesTruncated(opts)
     IN call' = IF end = "paused" /\ last THEN loop_result(push_step_record("max_steps", FALSE), call.paused \o text, "max_steps")
                ELSE IF end = "paused"
                THEN GoesOn([push_step_record("stop", FALSE) EXCEPT !.paused = @ \o text], <<"assistant">>)
                ELSE IF cut THEN GoesOn([push_step_record("length", TRUE) EXCEPT !.paused = <<>>], <<"assistant", "user">>)
                ELSE loop_result([push_step_record(end, FALSE) EXCEPT !.messages = Append(@, "assistant")], call.paused \o text, end)
  /\ log' = log \o StepEvents
  /\ UNCHANGED <<engines, finishes, billed>>

(* Its calls run.  They may end the loop, or one may fail: inside it, which *)
(* ends the step's span, or between two, on an abort or a consumer's error. *)
ToolsRun ==
  /\ At("tools")
  /\ LET last == call.step_index + 1 >= max_steps(opts)
         text == call.paused \o <<call.turn.n>>
         answered == <<"assistant", "tool">>
     IN \/ /\ call' = loop_result([push_step_record("tool_calls", FALSE) EXCEPT !.messages = @ \o answered], text, "stop")
           /\ log' = log \o StepEvents
        \/ /\ call' = IF last THEN loop_result([push_step_record("max_steps", FALSE) EXCEPT !.messages = @ \o answered], text, "max_steps")
                      ELSE GoesOn([push_step_record("tool_calls", FALSE) EXCEPT !.paused = <<>>], answered)
           /\ log' = log \o StepEvents
        \/ /\ opts.throws \/ call.aborted
           /\ Throws(IF call.aborted THEN "aborted" ELSE "tool", <<Event("step_end", call.step_index)>>)
        \/ /\ call.aborted \/ opts.on_chunk
           /\ Throws(IF call.aborted THEN "aborted" ELSE "on_chunk", <<>>)
  /\ UNCHANGED <<engines, finishes, billed>>

Incomplete == At("incomplete") /\ Throws("incomplete", <<>>) /\ UNCHANGED <<engines, finishes, billed>>

(* Mutant: the repair's turns are numbered from the call's first again. *)
RepairedAnew == [call EXCEPT !.phase = "loop", !.step_index = 0, !.repairs = @ - 1, !.messages = Append(@, "user")]

Repaired == [call EXCEPT !.phase = "loop", !.step_index = Len(call.steps), !.repairs = @ - 1, !.messages = Append(@, "user")]

parse_schema_step ==
  /\ At("parse")
  /\ \/ call' = [call EXCEPT !.phase = "assemble", !.parsed = call.text] /\ log' = log
     \/ LET failed == Event(IF call.repairs = schema_repair_attempts(opts) THEN "initial" ELSE "repair", Len(call.steps))
        IN IF call.repairs > 0 /\ Len(call.steps) < max_steps(opts) THEN call' = Repaired /\ log' = Append(log, failed)
           ELSE Throws("schema_validation", <<failed>>)
  /\ UNCHANGED <<engines, finishes, billed>>

assemble_result ==
  [content |-> Or(call.parsed, call.text), steps |-> call.steps, finish_reason |-> call.finish_reason,
   usage |-> sum_usage([i \in DOMAIN call.steps |-> call.steps[i].usage]), cost |-> aggregate_cost(call.steps, adapter.free)]

(* The consumer is handed the finish chunk, and may throw. *)
Finishes ==
  /\ At("assemble")
  /\ finishes' = finishes + IF opts.on_chunk THEN 1 ELSE 0
  /\ \/ call' = [Over("ok") EXCEPT !.result = assemble_result] /\ log' = Append(log, Event("span_end", 1))
     \/ opts.on_chunk /\ Throws("on_chunk", <<>>)
  /\ UNCHANGED <<engines, billed>>

Next ==
  \/ register_price \/ with_providers \/ dispose
  \/ generate \/ Aborts \/ Delegated \/ build_ai_sdk_transport \/ Opens \/ LoopTop \/ TurnFails \/ TurnAnswers
  \/ Answered \/ ToolsRun \/ Incomplete \/ parse_schema_step \/ Finishes

Spec == Init /\ [][Next]_vars

----------------------------------------------------------------------------
(* Properties *)

TypeOK ==
  /\ call.phase \in {"unmade", "external", "transport", "open", "loop", "turn", "answered", "tools", "incomplete", "parse", "assemble", "over"}
  /\ call.outcome \in Outcomes
  /\ call.opts # None => call.opts \in GenerateOptions
  /\ \A e \in DOMAIN engines : engines[e].pricing # None => engines[e].pricing \in Pricing
  /\ call.steps \in Seq(StepRecord) /\ call.loop \in Seq(StepRecord)
  /\ finishes \in 0..1

EventsOf(kind) == SelectSeq(log, LAMBDA e : e.kind = kind)
Made == call.opts # None
Distance(x, y) == IF x < y THEN y - x ELSE x - y

(* The steps are numbered from 0 through every loop of the call, and they  *)
(* and the repairs stay within the call's limits.                          *)
StepsAreNumbered ==
  /\ \A i \in DOMAIN EventsOf("step_start") : EventsOf("step_start")[i].index = i - 1
  /\ \A i \in DOMAIN call.steps : call.steps[i].index = i - 1 /\ call.steps[i].turn = i
  /\ Made => /\ Len(billed) <= max_steps(opts)
             /\ Len(EventsOf("repair")) <= schema_repair_attempts(opts) /\ Len(EventsOf("initial")) <= 1

(* A result counts what every turn that answered used, those of the loops  *)
(* that a failed repair threw away included, and what each cost: no part   *)
(* is lost beyond the rounding, a charge the provider reported is told     *)
(* whole, and a cost that is missing was said to be.                       *)
ResultTellsTheTurns ==
  call.result # None =>
    LET r == call.result
        total(field) == FoldFunction(LAMBDA b, n : Zero(b.usage[field]) + n, 0, billed)
    IN /\ Len(r.steps) = Len(billed)
       /\ \A field \in DOMAIN r.usage : Zero(r.usage[field]) = total(field)
       /\ r.cost # None =>
            /\ Distance(r.cost.total, r.cost.input + r.cost.output + Zero(r.cost.cached) + Zero(r.cost.write) + Zero(r.cost.reasoning))
                 <= 30 * (Len(billed) + 1)
            /\ (\A i \in DOMAIN billed : billed[i].charge # None) => Distance(r.cost.total, SumOf(billed, "charge")) <= 5
       /\ \/ \A i \in DOMAIN r.steps : r.steps[i].cost # None
          \/ Len(EventsOf("pricing_missing")) = 1

(* The call's span opens for a call that is not refused, closes once, and  *)
(* nothing is recorded after it; a turn's request is answered at most once *)
(* and what each turn cost is recorded at most once.                       *)
SpanBracketsTheCall ==
  /\ Len(EventsOf("span_end")) = (IF At("over") THEN Len(EventsOf("span_start")) ELSE 0)
  /\ EventsOf("span_end") # <<>> => Last(log).kind = "span_end"
  /\ billed # <<>> => EventsOf("span_start") # <<>>
  /\ Len(EventsOf("response_received")) = Len(billed)
  /\ \A kind \in {"cost", "cache_miss", "step_end"} : IsInjective(EventsOf(kind))
  /\ Len(EventsOf("pricing_missing")) <= 1

(* A turn that read nothing from the cache after one that read or wrote is *)
(* told of as a miss, through the repairs of the call too.                 *)
MissesAreTold ==
  \A i \in 2..Len(billed) :
    LET before == billed[i - 1].usage
    IN (\E k \in DOMAIN log : log[k] = Event("cache_miss", i - 1))
         <=> Zero(before.cached) + Zero(before.write) > 0 /\ Zero(billed[i].usage.cached) = 0

(* With a schema a result holds the last text, checked, and only a reply   *)
(* that came to its end has one; a consumer is handed the finish chunk     *)
(* once, after everything else, when a result comes of the call.           *)
ResultIsChecked ==
  /\ call.result # None => /\ opts.schema => call.parsed = call.text /\ call.finish_reason = "stop"
                           /\ finishes = (IF opts.on_chunk THEN 1 ELSE 0)
  /\ finishes = 1 => At("over")

(* No request ends with a message of the model, but to continue a pause.   *)
RequestsAskTheModel == At("turn") => Last(call.messages) \in {"user", "tool"} \/ call.paused # <<>>

CallIsAccounted ==
  TypeOK /\ StepsAreNumbered /\ ResultTellsTheTurns /\ SpanBracketsTheCall /\ MissesAreTold /\ ResultIsChecked /\ RequestsAskTheModel

=============================================================================
