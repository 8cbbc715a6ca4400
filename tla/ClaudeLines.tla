---------------------------- MODULE ClaudeLines ----------------------------
(* What a claude_cli call makes of the lines the CLI prints: the chunks it *)
(* streams and the steps of its result (stream_parse.ts, stream_result.ts, *)
(* and of adapter.ts the schema repairs and the end of generate).  The     *)
(* processes, their timers and their ends are ClaudeCli's.                 *)
EXTENDS Naturals, Sequences, FiniteSets, SequencesExt

CONSTANTS
  MaxLines,    \* bound of the model: the lines a run of the CLI prints
  MaxUnread,   \* bound of the model: the lines waiting to be read
  MaxParts,    \* bound of the model: the texts and tool calls of a run
  MaxRepairs,  \* schema_repair_attempts
  ApiMs        \* duration_api_ms that a run reports

VARIABLES
  schema,   \* whether the call asks for structured output
  cli,      \* the CLI: running, the calls it has not answered, what it has written, its exit code
  queue,    \* build_stdout_lines: the lines not read yet
  buffer,   \* and the last one, while no newline ends it
  parser,   \* ParserState, and in it the chunks that were dispatched
  repairs,  \* repairs_done
  finishes, \* the finish chunks of the runs before this one
  outcome,  \* of generate: "none", "ok" or "threw"
  result    \* the steps of its result

vars == <<schema, cli, queue, buffer, parser, repairs, finishes, outcome, result>>

CliStarts == [on |-> TRUE, owes |-> <<>>, answers |-> FALSE, wrote |-> <<>>, lines |-> 0, over |-> FALSE, code |-> 0]

create_parser_state ==
  [last |-> "none", step |-> 0, session |-> FALSE, final_text |-> <<>>, turns |-> <<>>, text |-> <<>>,
   calls |-> <<>>, results |-> <<>>, usage |-> 0, is_error |-> FALSE, received |-> FALSE, chunks |-> <<>>]

Init ==
  /\ schema \in BOOLEAN
  /\ cli = CliStarts /\ queue = <<>> /\ buffer = <<>>
  /\ parser = create_parser_state
  /\ repairs = 0 /\ finishes = 0 /\ outcome = "none" /\ result = <<>>

----------------------------------------------------------------------------
(* The CLI.  It may print a message in several lines, answers its calls    *)
(* before it prints the next, and its result is its last line.             *)

Part(kind, id) == [kind |-> kind, id |-> id]

PartsOfALine ==
  LET n == Cardinality({i \in DOMAIN cli.wrote : cli.wrote[i].kind # "tool_result"})
  IN {parts \in {<<>>, <<Part("text", n + 1)>>, <<Part("tool_call", n + 1)>>,
                 <<Part("text", n + 1), Part("tool_call", n + 2)>>} : n + Len(parts) <= MaxParts}

Answers(n) == [i \in 1..n |-> Part("tool_result", cli.owes[i])]

Line(type, parts) == [type |-> type, parts |-> parts, failed |-> FALSE, tokens |-> 0]

(* "junk" is a line that is blank, is not JSON or has no known shape. *)
Lines ==
  {Line(type, <<>>) : type \in {"system", "rate_limit_event", "junk"}}
  \union {Line("assistant", parts) : parts \in IF cli.owes = <<>> \/ ~cli.answers THEN PartsOfALine ELSE {}}
  \union {Line("user", Answers(n)) : n \in 1..Len(cli.owes)}
  \union {[Line("result", <<>>) EXCEPT !.failed = failed, !.tokens = tokens] :
            failed \in BOOLEAN, tokens \in IF cli.owes = <<>> THEN {0, 3} ELSE {}}

Written(line) ==
  LET calls == SelectSeq(line.parts, LAMBDA p : p.kind = "tool_call")
      answered == Cardinality({i \in DOMAIN line.parts : line.parts[i].kind = "tool_result"})
  IN [cli EXCEPT !.lines = @ + 1, !.answers = IF line.parts = <<>> THEN @ ELSE line.type = "user", !.wrote = @ \o line.parts, !.over = (line.type = "result"),
        !.owes = SubSeq(@, answered + 1, Len(@)) \o [i \in DOMAIN calls |-> calls[i].id]]

CliWrites ==
  /\ outcome = "none" /\ cli.on /\ ~cli.over /\ cli.lines < MaxLines /\ Len(queue) < MaxUnread
  /\ \E line \in Lines : cli' = Written(line) /\ queue' = Append(queue, line)
  /\ UNCHANGED <<schema, buffer, parser, repairs, finishes, outcome, result>>

(* It exits: with a last line that no newline ends, or that is cut short. *)
CliExits ==
  /\ outcome = "none" /\ cli.on
  /\ \E code \in {0, 1} :
       \/ /\ cli' = [cli EXCEPT !.on = FALSE, !.code = code]
          /\ buffer' \in {<<>>, <<Line("junk", <<>>)>>}
       \/ /\ ~cli.over /\ cli.lines < MaxLines
          /\ \E line \in Lines :
               /\ buffer' = <<line>>
               /\ cli' = [Written(line) EXCEPT !.on = FALSE, !.code = code]
  /\ UNCHANGED <<schema, queue, parser, repairs, finishes, outcome, result>>

----------------------------------------------------------------------------
(* stream_parse.ts *)

emit_chunk(p, kind, id) == [p EXCEPT !.chunks = Append(@, [kind |-> kind, step |-> p.step, id |-> id])]

(* Mutant: the next turn starts with the results of this one. *)
flush_turn_kept(p) ==
  [p EXCEPT !.turns = Append(@, [step |-> p.step, text |-> p.text, calls |-> p.calls, results |-> p.results, usage |-> p.usage]),
            !.text = <<>>, !.results = <<>>, !.usage = 0]

flush_turn(p) ==
  [p EXCEPT !.turns = Append(@, [step |-> p.step, text |-> p.text, calls |-> p.calls, results |-> p.results, usage |-> p.usage]),
            !.text = <<>>, !.calls = <<>>, !.results = <<>>, !.usage = 0]

next_turn(p) ==
  IF p.last = "user_tool_result"
  THEN [flush_turn(emit_chunk(p, "step_finish", 0)) EXCEPT !.step = @ + 1] ELSE p

handle_assistant(p, line) ==
  LET part(q, x) ==
        IF x.kind = "text"
        THEN emit_chunk([q EXCEPT !.text = Append(@, x.id), !.final_text = Append(@, x.id)], "text", x.id)
        ELSE emit_chunk(emit_chunk([q EXCEPT !.calls = Append(@, x.id)], "tool_call_start", x.id), "tool_call_end", x.id)
  IN [FoldLeft(part, next_turn(p), line.parts) EXCEPT !.last = "assistant"]

handle_user(p, line) ==
  LET part(q, x) == emit_chunk([q EXCEPT !.results = Append(@, x.id)], "tool_result", x.id)
  IN [FoldLeft(part, p, line.parts) EXCEPT !.last = "user_tool_result"]

(* A result's own text, 0, stands in for the final text when there is none. *)
handle_result(p, line) ==
  LET q == [p EXCEPT !.received = TRUE, !.session = TRUE, !.is_error = @ \/ line.failed, !.usage = line.tokens,
                     !.final_text = IF @ = <<>> THEN <<0>> ELSE @]
  IN emit_chunk([flush_turn(q) EXCEPT !.last = "result"], "finish", 0)

consume_line(p, line) ==
  CASE line.type = "assistant" -> handle_assistant(p, line)
    [] line.type = "user" -> handle_user(p, line)
    [] line.type = "result" -> handle_result(p, line)
    [] line.type = "system" -> [p EXCEPT !.last = "system", !.session = TRUE]
    [] OTHER -> p   \* a rate limit is recorded, and so is a line that is not understood

----------------------------------------------------------------------------
(* run_cli and generate *)

Reads ==
  /\ outcome = "none" /\ queue # <<>>
  /\ parser' = consume_line(parser, Head(queue)) /\ queue' = Tail(queue)
  /\ UNCHANGED <<schema, cli, buffer, repairs, finishes, outcome, result>>

StdoutEnds ==
  /\ ~cli.on /\ buffer # <<>>
  /\ queue' = queue \o buffer /\ buffer' = <<>>
  /\ UNCHANGED <<schema, cli, parser, repairs, finishes, outcome, result>>

(* wait_close and the consumer are both awaited. *)
Closed == outcome = "none" /\ ~cli.on /\ buffer = <<>> /\ queue = <<>>

Throws ==
  /\ Closed
  /\ cli.code # 0 \/ ~parser.received \/ (~schema /\ parser.is_error)
  /\ outcome' = "threw"
  /\ UNCHANGED <<schema, cli, queue, buffer, parser, repairs, finishes, result>>

RunSucceeds == Closed /\ cli.code = 0 /\ parser.received

(* The final text does not fit the schema: the session is resumed, once more. *)
Repair ==
  /\ RunSucceeds /\ schema /\ repairs < MaxRepairs /\ parser.session
  /\ repairs' = repairs + 1
  /\ finishes' = finishes + Cardinality({i \in DOMAIN parser.chunks : parser.chunks[i].kind = "finish"})
  /\ cli' = CliStarts /\ parser' = create_parser_state
  /\ UNCHANGED <<schema, queue, buffer, outcome, result>>

SchemaFails ==
  /\ RunSucceeds /\ schema /\ (repairs >= MaxRepairs \/ ~parser.session \/ parser.is_error)
  /\ outcome' = "threw"
  /\ UNCHANGED <<schema, cli, queue, buffer, parser, repairs, finishes, result>>

(* The share of the run's API time: by output tokens, or equal when no     *)
(* turn has any.                                                           *)
split_total_across_turns(turns) ==
  LET outputs == FoldLeft(LAMBDA n, t : n + t.usage, 0, turns)
  IN [i \in DOMAIN turns |-> IF outputs = 0 THEN ApiMs \div Len(turns) ELSE (ApiMs * turns[i].usage) \div outputs]

blended_step_timings(turns) ==
  LET shares == split_total_across_turns(turns)
  IN [i \in DOMAIN turns |-> IF i = Len(turns) THEN ApiMs - FoldLeft(LAMBDA n, s : n + s, 0, SubSeq(shares, 1, i - 1))
                             ELSE shares[i]]

tool_call_record(id, results) == [id |-> id, answered |-> \E i \in DOMAIN results : results[i] = id]

normalize_turns(p) ==
  IF p.turns # <<>> THEN p.turns
  ELSE <<[step |-> 0, text |-> p.final_text, calls |-> <<>>, results |-> <<>>, usage |-> p.usage]>>

build_generate_result(p) ==
  LET turns == normalize_turns(p)
      timings == blended_step_timings(turns)
  IN [i \in DOMAIN turns |->
        [index |-> turns[i].step, text |-> turns[i].text, ms |-> timings[i],
         calls |-> [k \in DOMAIN turns[i].calls |-> tool_call_record(turns[i].calls[k], turns[i].results)],
         finish |-> IF i = Len(turns) THEN "stop" ELSE "tool_calls"]]

(* The text fits, or no schema asks: the result, and a finish chunk of     *)
(* its own.                                                                *)
Resolves ==
  /\ RunSucceeds /\ ~parser.is_error
  /\ outcome' = "ok"
  /\ result' = build_generate_result(parser)
  /\ parser' = emit_chunk(parser, "finish", 0)
  /\ UNCHANGED <<schema, cli, queue, buffer, repairs, finishes>>

Next == CliWrites \/ CliExits \/ Reads \/ StdoutEnds \/ Throws \/ Repair \/ SchemaFails \/ Resolves

Spec == Init /\ [][Next]_vars

----------------------------------------------------------------------------
(* Properties *)

Streamed(kind, step) ==
  LET of == SelectSeq(parser.chunks, LAMBDA c : c.kind = kind /\ c.step = step)
  IN [i \in DOMAIN of |-> of[i].id]

Said(kinds) == SelectSeq(parser.chunks, LAMBDA c : c.kind \in kinds)

(* A call that resolves tells in its steps what it streamed and all the    *)
(* CLI wrote, however its lines are cut and whenever it exits: the steps   *)
(* are numbered as the chunks are, each has the texts and calls of its     *)
(* chunks in their order, a call has its result if the CLI wrote one,      *)
(* each step but the last was finished, and the steps' windows share out   *)
(* the whole API time (run_cli waits for the process and for its output).  *)
CliResultIsTheStream ==
  outcome = "ok" =>
    /\ cli.code = 0 /\ cli.over
    /\ [i \in DOMAIN result |-> result[i].index] = [i \in DOMAIN result |-> i - 1]
    /\ \A i \in DOMAIN result :
         LET step == result[i] IN
         /\ step.text = Streamed("text", step.index)
         /\ [k \in DOMAIN step.calls |-> step.calls[k].id] = Streamed("tool_call_end", step.index)
         /\ \A k \in DOMAIN step.calls :
              step.calls[k].answered <=> \E x \in DOMAIN cli.wrote : cli.wrote[x] = Part("tool_result", step.calls[k].id)
         /\ (Streamed("step_finish", step.index) # <<>>) = (i < Len(result))
    /\ LET said == Said({"text", "tool_call_end", "tool_result"}) IN
       [i \in DOMAIN said |-> said[i].id] = [i \in DOMAIN cli.wrote |-> cli.wrote[i].id]
    /\ FoldLeft(LAMBDA n, s : n + s.ms, 0, result) = ApiMs

=============================================================================
