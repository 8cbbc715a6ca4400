--------------------------- MODULE MCClaudeCli ----------------------------
(* A call of one claude_cli adapter, and beside it of ClaudeLines, what    *)
(* it reads, Generate, what every call of an engine decides and records,   *)
(* and Captured, what is captured of its turns.                            *)
EXTENDS ClaudeCli, Integers, Sequences

CONSTANTS Parts, call, None

VARIABLE part  \* the part that is explored; the others stay as they are
VARIABLES cl_schema, cl_cli, cl_queue, cl_buffer, cl_parser, cl_repairs, cl_finishes, cl_outcome,
          cl_result
VARIABLES ge_engines, ge_call, ge_log, ge_finishes, ge_billed
VARIABLES cp_messages, cp_step, cp_pc, cp_memory, cp_recorded, cp_sent, cp_log

(* The calls of Generate.                                                  *)
DefaultsOfEngine ==
  [model |-> "m", provider |-> None, cache |-> None, capture |-> None, turn_timeout_ms |-> None, max_steps |-> 2,
   schema_repair_attempts |-> None, tool_call_repair_attempts |-> None, max_tool_calls_per_step |-> None, truncated_turn_policy |-> "continue"]

Everything == {"schema", "tools", "streaming"}
ThreeAdapters ==
  [paid |-> [kind |-> "native", supports |-> Everything, prompt_cache |-> "with_tools", translate_cache |-> FALSE, free |-> FALSE],
   local |-> [kind |-> "ai_sdk", supports |-> {"tools"}, prompt_cache |-> None, translate_cache |-> FALSE, free |-> TRUE],
   cli |-> [kind |-> "external", supports |-> {}, prompt_cache |-> None, translate_cache |-> FALSE, free |-> FALSE]]

PlainCall ==
  [aborted |-> FALSE, model |-> None, provider |-> "paid", schema |-> FALSE, tools |-> <<>>, on_chunk |-> FALSE, cache |-> None,
   capture |-> None, turn_timeout_ms |-> None, max_steps |-> None, schema_repair_attempts |-> None, tool_call_repair_attempts |-> None,
   max_tool_calls_per_step |-> None, truncated_turn_policy |-> None, throws |-> FALSE, system |-> FALSE, prompt |-> <<"user">>]

(* Every wrong value beside every other, on a call that reaches no turn.   *)
WrongCalls ==
  {[PlainCall EXCEPT !.aborted = aborted, !.provider = provider, !.tools = tools, !.cache = cache, !.capture = capture,
                 !.turn_timeout_ms = timeout, !.on_chunk = on_chunk, !.max_steps = 0] :
     aborted \in BOOLEAN, provider \in {None, "local", "cli", "other"}, tools \in {<<>>, <<"t", "t">>}, cache \in {None, "5m", "2h"},
     capture \in {"wire", "all"}, timeout \in {None, 0}, on_chunk \in BOOLEAN}
  \union {[PlainCall EXCEPT !.max_tool_calls_per_step = cap, !.tool_call_repair_attempts = salvage, !.max_steps = 0] : cap \in {0, 1}, salvage \in {-1, 1}}

CallsOfGenerate ==
  WrongCalls
  \union {[PlainCall EXCEPT !.schema = TRUE, !.tools = tools, !.on_chunk = on_chunk, !.system = on_chunk, !.schema_repair_attempts = 2] :
            tools \in {<<>>, <<"t">>}, on_chunk \in BOOLEAN}
  \union {[PlainCall EXCEPT !.tools = <<"t">>, !.throws = TRUE, !.truncated_turn_policy = "stop"]}
  \union {[PlainCall EXCEPT !.schema = TRUE, !.schema_repair_attempts = 1, !.max_steps = 3]}
  \union {[PlainCall EXCEPT !.provider = "local", !.tools = <<"t">>, !.max_steps = 2]}

PriceRow == [input |-> 31, output |-> 147, cached |-> 3, write |-> None, write_1h |-> 63, reasoning |-> None]
RowsOfPrices == {[PriceRow EXCEPT !.reasoning = 171, !.cached = None, !.write_1h = None]}
TwoUsages ==
  {[input |-> 3, output |-> 2, reasoning |-> None, cached |-> None, write |-> None, write_1h |-> None],
   [input |-> 16, output |-> 5, reasoning |-> 6, cached |-> 10, write |-> 4, write_1h |-> 1]}

----------------------------------------------------------------------------
L == INSTANCE ClaudeLines WITH
  schema <- cl_schema, cli <- cl_cli, queue <- cl_queue, buffer <- cl_buffer, parser <- cl_parser,
  repairs <- cl_repairs, finishes <- cl_finishes, outcome <- cl_outcome, result <- cl_result,
  MaxLines <- 5, MaxUnread <- 2, MaxParts <- 3, MaxRepairs <- 1, ApiMs <- 5
cl_vars == <<cl_schema, cl_cli, cl_queue, cl_buffer, cl_parser, cl_repairs, cl_finishes, cl_outcome, cl_result>>

G == INSTANCE Generate WITH
  engines <- ge_engines, call <- ge_call, log <- ge_log, finishes <- ge_finishes,
  billed <- ge_billed, Calls <- CallsOfGenerate, Defaults <- DefaultsOfEngine,
  Adapters <- ThreeAdapters, Config <- None, Rows <- RowsOfPrices, Usages <- TwoUsages,
  Charges <- {173}, None <- None
ge_vars == <<ge_engines, ge_call, ge_log, ge_finishes, ge_billed>>

P == INSTANCE Captured WITH
  messages <- cp_messages, step <- cp_step, pc <- cp_pc, memory <- cp_memory,
  recorded <- cp_recorded, sent <- cp_sent, log <- cp_log, MaxTurns <- 3, MaxFaults <- 1,
  None <- None
cp_vars == <<cp_messages, cp_step, cp_pc, cp_memory, cp_recorded, cp_sent, cp_log>>

all == <<part, vars, cl_vars, ge_vars, cp_vars>>

AllInit ==
  /\ part \in Parts
  /\ Init
  /\ IF part = "lines" THEN L!Init
     ELSE cl_schema = 0 /\ cl_cli = 0 /\ cl_queue = 0 /\ cl_buffer = 0 /\ cl_parser = 0 /\
          cl_repairs = 0 /\ cl_finishes = 0 /\ cl_outcome = 0 /\ cl_result = 0
  /\ IF part = "generate" THEN G!Init
     ELSE ge_engines = 0 /\ ge_call = 0 /\ ge_log = 0 /\ ge_finishes = 0 /\ ge_billed = 0
  /\ IF part = "captured" THEN P!Init
     ELSE cp_messages = 0 /\ cp_step = 0 /\ cp_pc = 0 /\ cp_memory = 0 /\ cp_recorded = 0 /\
          cp_sent = 0 /\ cp_log = 0

AllNext ==
  \/ part = "cli" /\ Next /\ UNCHANGED <<part, cl_vars, ge_vars, cp_vars>>
  \/ part = "lines" /\ L!Next /\ UNCHANGED <<part, vars, ge_vars, cp_vars>>
  \/ part = "generate" /\ G!Next /\ UNCHANGED <<part, vars, cl_vars, cp_vars>>
  \/ part = "captured" /\ P!Next /\ UNCHANGED <<part, vars, cl_vars, ge_vars>>

AllSpec == AllInit /\ [][AllNext]_all

(* The event loop goes on and the timers of a SIGKILL fire.  claude need   *)
(* not end or heed a SIGTERM, nor is any other timer needed.               *)
AllFairSpec ==
  /\ AllSpec
  /\ WF_vars(part = "cli" /\ Disposed)
  /\ \A c \in Calls : WF_vars(part = "cli" /\ Proceed(c))
  /\ \A c \in Calls : WF_vars(part = "cli" /\ SigkillTimerFires(c))
  /\ \A c \in Calls : WF_vars(part = "cli" /\ DisposeKills(c))

----------------------------------------------------------------------------
(* The result of a call is what the lines of its last process say.         *)
CliResultIsTheStream == part = "lines" => L!CliResultIsTheStream

(* A call is refused, capped, priced and recorded as its options say, and  *)
(* the turns that are read back are those that were sent.                  *)
CallIsAccounted ==
  /\ part = "generate" => G!CallIsAccounted
  /\ part = "captured" => P!TurnsAreAsSent
============================================================================
