# fascicle in TLA+

fascicle is a TypeScript library for agentic workflows: steps composed into
flows, a runner that drives them, durable runs that wait for people, an engine
that talks to language models and to the `claude` command line, an ACP agent for
editors, and a viewer for trajectories. This directory specifies the parts of it
whose correctness depends on the order in which things happen. Every definition
is a translation of the source; `PROJECT.json` names the lines it stands for
(`map`), the hazards it is aimed at (`hazards`), the checks (`runs`), the bug
that each property would catch (`mutants`) and the proved results (`theorems`).

Paths are those of the repository's own tree, which stands under `src/` here:
`src/core/durable.ts` is `src/src/core/durable.ts` in `PROJECT.json`.

    tlc -workers 2 -config MCDurable_live.cfg MCDurable        # one check
    tlapm DurableProofs.tla                                    # the proofs

## 1. The system

### Components

| Component | Source | State it keeps | Operations | Modules |
|---|---|---|---|---|
| Durable runs | `core/durable.ts` | per run: record, inbox of data, lease, claim per gate, all in a `CheckpointStore` | `start`, `resume`, `delete` (and `get`, `list`, which read) | `Durable`, `DurableProofs` |
| Claims of the filesystem store | `adapters/filesystem_store.ts` | a directory of numbered generations per claim | `claim`, renewal, `release`, `clear` | `Claim`, `FsClaim`, `FsClaimProofs` |
| Checkpoints, suspension, gates | `core/{checkpoint,suspend,suspend_ids,replays}.ts`, `composites/gate.ts` | answers keyed by gate, kept results | replay of a run up to its gate | `Replays`, `Gate`, `DurableProofs` |
| Streaming channel | `core/streaming.ts` | bounded buffer, count of dropped events, the waiting consumer | `record`, `close`, `next`, `return` | `EventFeed`, `StreamChannel` |
| UI message stream | `ui/to_ui_message_stream.ts` | open blocks, names of calls | map one event | `UiStream`, `StreamChannel` |
| Runner and clean-up | `core/{runner,cleanup}.ts` | runs, the process's signal handlers, handlers per run, listeners on the caller's signal | `run`, `run.stream`, signals, clean-up with deadlines | `Runner` |
| Composite steps | `core/{sequence,scope,branch,parallel,map,retry,fallback,loop,timeout}.ts` | the frames of those at work; a scope's map, a loop's state | dispatch of a step | `Flow`, `Composition`, `Runner` |
| Flow descriptions | `core/{chain,compose,pipe,describe,diagram,flow_schema}.ts` | open stage | run a chain; describe a flow | `Composition` |
| Composites | `composites/*.ts` | a round's state, lessons, bracket | a round, a match | `Rounds`, `Runner` |
| Bench | `composites/{bench,regression}.ts` | results, the next case, a baseline | run a case, judge, compare | `Bench`, `Runner` |
| Claude CLI: processes | `engine/providers/claude_cli/{adapter,spawn,version}.ts` | live children, the version gate's promise | `generate`, abort, timers, `dispose` | `ClaudeCli` |
| Claude CLI: lines | `engine/providers/claude_cli/stream_*.ts` | half a line, the turn being read | a chunk of output, exit, close | `ClaudeLines` |
| Tool loop | `engine/tool_loop.ts`, `engine/generate.ts` | messages, step records, call records, budgets | model turn, tool call, approval, repair | `ToolLoop`, `ToolLoopProofs` |
| One turn | `engine/{retry,generate,streaming}.ts`, `engine/providers/*_native.ts`, `ai_sdk/invoke.ts` | attempts, deadline, blocks being assembled, chunks already delivered | attempt, frame, failure, retry | `Turn` |
| Messages to a provider | `engine/tool_loop.ts`, `engine/providers/` | the transcript | a reply, its results, a request | `WireMessages` |
| Salvage | `engine/tool_call_salvage.ts` | attempts left | three passes over a turn's text | `Salvage` |
| A call of the engine | `engine/{generate,create_engine,usage,pricing}.ts` | prices, steps, usage, costs | make an engine, `generate`, `register_price` | `Generate` |
| Captured turns | `engine/{tool_loop,replay}.ts` | the messages captured last | capture a turn, read a log back | `Captured` |
| Loggers and the stdio host | `adapters/`, `otel/`, `engine/trajectory.ts`, `stdio/` | spans and their ids, exit code | open and end spans, record | `Observers` |
| ACP sessions | `acp/{acp_agent,prompt_turn,session_store}.ts` | sessions in memory, their history, the stored session, MCP connections | load, prompt, cancel, set, close, disconnect | `AcpSession`, `AcpSessionProofs` |
| ACP cards and approvals | `acp/{approve,modes,presentation,to_session_updates}.ts` | cards, previews, grants, a count of events | an event sent, a request, its answer | `AcpCards`, `Runner` |
| ACP tools | `acp/tools/*.ts` | a child process, its output and timers; files; a search's worker | run, read, list, search, write, edit | `RunCommand`, `AcpFiles`, `AcpSessionProofs` |
| MCP servers of a session | `acp/mcp_servers.ts`, `mcp/client.ts` | connections, tools, inputs asked about, grants | connect, list, call, close | `McpServers`, `AcpSessionProofs` |
| Viewer: tail | `viewer/{tail,no_follow}.ts` | inode, offset and half a line; two watches; the pass in flight | watch, pass, `drain`, `stop` | `ViewerTail`, `ViewerTailProofs` |
| Viewer: feed | `viewer/{broadcast,server,start_viewer}.ts`, `viewer/app/{history,sse}.ts` | ring of recent events, cursor | ingest, fold the file, subscribe, come back | `ViewerFeed`, `ViewerTailProofs` |
| Viewer: canvas | `viewer/app/lib/{reduce,scene,layout}.ts` | the fold of a run's events | fold, lay out, light | `Scene`, `Layout` |
| Viewer: playhead, inspector | `viewer/app/lib/{playback,timeline,turns}.ts`, `viewer/app/*.tsx` | held index, clock; turns, what is open | play, step, scrub; open, pick, copy | `Playback`, `Drawer`, `ViewerTailProofs` |
| Everything else | schemas, argument vectors, option merging, `serve_flow`, wire types, test helpers | none | pure functions and declarations | not modelled |

`PROJECT.json` lists every part with its files, its status and the reason for it.

### How they interact

A **flow** is a tree of steps. `run` hands it to the **runner**, which gives it
an abort controller, a list of clean-up handlers and a logger, and dispatches the
root; a composite dispatches its children with a context derived from its own, and
`timeout` gives its child a signal of its own. Errors travel up. Two of them,
`suspended_error` and `aborted_error`, are control flow: no composite may retry,
back up or swallow them. `run.stream` sets the **channel** between the logger and
a consumer that reads at its own pace.

A **durable run** keeps a record in a store that many processes share. Each call
takes a lease on the run, drives the flow with `run`, and writes the record back;
a suspended flow is a record that waits at a gate, and `resume` puts a datum in the
gate's inbox for whoever holds the lease. The store's contract has `get`, `set`,
`delete`, `claim`, `release` and `clear`, and no compare-and-set: durable.ts builds
its fence out of the record's revision. The **filesystem store** builds `claim` out
of `mkdir`, `link`, `rename` and `unlink`.

An **engine** turns `generate` into model turns. The **tool loop** asks a provider
for a turn, runs the calls it made, feeds the results back and asks again, until
the model stops, a budget ends or a terminal tool fired; a schema repair runs it
again. The **claude_cli** provider has that loop in a child process instead.

A turn is one request with its **attempts**: the answer comes in frames, an aggregator
makes chunks and a result of them, and an attempt may be repeated only as long as nobody
saw it. What a turn sends is the whole transcript, written anew for the provider's wire.

The **ACP agent** maps an editor's requests to sessions, each with one turn at a
time that runs the host's flow. The JSON-RPC handlers interleave at every await; the
events of the flow become cards by a consumer of their own, and an approval waits until
that consumer has sent its card. The **viewer** tails a trajectory file, or is sent it,
passes it on to browsers over SSE, and each page folds what it gets into a canvas whose
geometry was computed from the flow's description alone.

### What is hard

- *Processes over one store* (Durable, FsClaim): any call may stall between a
  check and the write it allows, outlive its lease, or die between two writes.
- *Handlers on one event loop* (AcpSession, ToolLoop, Runner): state read before an
  await and used after it; an abort that arrives at any await; a caller's function
  that throws or never settles.
- *Abandoned work* (Flow, Runner): `timeout` and the clean-up deadline leave a
  promise behind that goes on beside what comes next.
- *Child processes* (ClaudeCli, RunCommand): exit and close are different events, a
  grandchild can hold the output open, and timers race the caller's abort and `dispose`.
- *Limits* (StreamChannel, ToolLoop, ViewerFeed, AcpFiles): a full buffer or ring, a cap
  on calls, step and repair budgets, windows and match limits.
- *Streams that break off* (Turn, ClaudeLines, Salvage): half a frame, half a line, half
  a call in a text.
- *Logs in no order* (Captured, Drawer, Scene, Observers): events that are lost, come
  twice or late, or do not say which of two equal steps they are about.

### What makes each part correct

- *Durable*: one drive at a time; no update of the record is lost; revisions count
  its writes; the input of a run and a finished record never change; a datum is in
  the inbox or the record and never in neither; the first accepted datum of a gate
  stays; a run is driven on the shape it has; every answered gate is passed in the
  end; every call returns.
- *Claims*: at most one holder; a renewal in time is kept; the files implement the
  contract.
- *Channel*: in order, the newest never lost, every event received, buffered or
  counted; bounded; the consumer's loop ends, and what was dropped is reported.
- *Runner*: handlers last in, first out; cancellation reaches exactly the runs it is
  for; a settled run holds nothing; `run_end` is last; loggers never fail a run.
- *Flow*: a suspension surfaces; what was abandoned is aborted; no child starts
  under an abort; an aborted or timed-out flow ends.
- *ClaudeCli*: a settled call left no process; dispose ends all and nothing starts
  after it; an aborted call settles, as aborted.
- *ToolLoop*: a history every provider accepts; nothing runs unapproved or after an
  abort; every call has a record; the model is told of dropped calls; step numbers
  are global; a terminal call ends its loop.
- *AcpSession*: turns of a session never overlap; no exchange is lost; tools outlive
  their turn's use of them; no server outlives the editor; a waiting prompt starts.
- *ViewerTail*: the lines come whole, in order and once; a tail that sleeps has read
  everything; `drain` catches up; the tail comes to rest when the writer does.
- *Replays, Gate*: a side effect that is repeated was foretold; a resumed gate buys nothing
  and passes on what was approved.
- *Composition, Rounds, Bench*: spans nest as the flow is drawn; a use sees its scope; the
  result of rounds is what the rounds show; a report is of every case.
- *Turn, WireMessages, Salvage*: the chunks tell the result, and of one attempt; every
  request is one that its wire takes; only what the model meant as a call is run.
- *Generate, Captured, ClaudeLines, Observers*: what is counted, priced, recorded and read
  back is what happened.
- *AcpCards, RunCommand, AcpFiles*: every approval is asked, on its own card; a command ends
  with all its group, and what it printed is counted; an edit changes the place it names, a change
  replaces the text it was worked out on, and a search that left something out says so.
- *McpServers*: no connection is left behind; a tool's name leads to its own server.
- *ViewerFeed, Scene, Layout, Playback, Drawer*: every event is folded once; the
  canvas, the playhead and the inspector show the run and nothing else.
- *UiStream*: a chat page is a well-formed message; the texts of two calls share a block only where
  they run side by side, events were lost, or the earlier one failed.

## 2. The modules

A module is about one component: its state as variables, one action per operation or
handler, and its properties at its end. Just before a definition some of whose bugs are of
interest stand the *mutants* of that definition: the same operator with a plausible bug.
No specification uses a mutant; `PROJECT.json` says which property each one breaks and
under which run. A type invariant `TypeOK` is stated where a value could leave its type
(a proof starts from it, or a record is assembled in many places), and nowhere else.

The components that share nothing are explored by one TLC run: `MCDurable`, `MCFsClaim`,
`MCStreamChannel`, `MCRunner`, `MCToolLoop`, `MCClaudeCli`, `MCAcpSession` and
`MCViewerTail` each extend one module and instantiate others with variables of their own,
prefixed (`tn_attempt` is `attempt` of `Turn`). The variable `part` says in the initial
state which of them is explored, and the variables of the others stay as they are. Where a
small component has proofs, these stand in the proof module of a larger one, which declares
the instance, its constants and its variables (`Gate` and `Replays` in `DurableProofs`, `UiStream` in
`StreamChannel`, `Turn` in `ToolLoopProofs`, `Flow`, `Bench`, `Rounds` and `AcpCards` in `Runner`,
`RunCommand` and `McpServers` in `AcpSessionProofs`, `ViewerFeed` and `Playback` in `ViewerTailProofs`); the MC module extends
the proof module and explores that very instance. Their constants have prefixes too:
`UiSteps` is `MaxSteps` of `UiStream`, `GateRuns` is `MaxRuns` of `Gate`, `FeedBuffer` is `N` of
`ViewerFeed`. A
property that TLC can check only over a module's own variables is said again in the host:
`EngineEnds` is `AbortEnds` of `ToolLoop` and `TurnEnds` of `Turn`; `CallsEnd` is `PromptsStart`
of `AcpSession`, `CommandEnds` of `RunCommand` and `CallsAreAnswered` of `AcpFiles`; `WaitsEnd` is `FlushEnds`
of `Runner`, `AbortEndsFlow` of `Flow` and `EveryApprovalIsAsked` of `AcpCards`; so is
fairness. The `map` names every action, every state and every definition that has a mutant,
and of the other definitions those that stand for lines no other entry names.

### The core: Durable, Claim, FsClaim, Replays, Gate

`Durable` has one run, and the calls that share it, each in a process of its own. Every
await on the store is one step; what a call computes between two awaits belongs to the
step before. `pc[c]` is the storage operation that call makes next, `rec[c]` and `nxt[c]`
are its locals (the record it read, the one it is about to write), `save[c]` says what it
was saving for. The drive of the flow, "body", is one step whose result `AtRest` and
`Refusal` compute from the record, the gates of the flow's shape and the data taken.

Time is not a number. A lease that expired and one that was released are the same
to every later caller, so `ExpireLease` frees the lease of a call that died or that
stands at a point of `StallAt`. With `StallAt` empty a live call always renews in
time. A call that stalls between a check of the lease and the write it allows is
what the store contract cannot close; section 3 says what happens then. Left out: a
`clear` of a store is one step; records the store cannot parse; the times in a record;
`list`.

`Claim` is the contract of a claim: it is somebody's or nobody's, it is taken from nobody,
and its holder may lose it when it expires. `FsClaim` is the filesystem store's
implementation, one call of the file system per step: list the generations, read the
newest, link the next one, write a renewal in place, prune the old ones. Its
refinement mapping takes the owner of the newest generation that has not expired.
`Punctual` says whether a renewal writes, and a clear deletes, before the claim expires.

`Replays` opens the "body": a flow of suspends, checkpoints and marked side effects is
passed through again and again, from its input, and `store` and `resumed` are what a pass
has of the earlier ones. `replay_gates` is the analysis of `replays.ts`, which walks two
trails to where they part. Left out: values, and what a checkpoint's key is made of.

`Gate` is the composite that asks a person: results are numbered in the order they are
bought, so that the one that passes can be held against the one that was approved. The
store may lose the answer to a write that it made, or drop the entry.

### Flows: Flow, Composition, Rounds, Bench

`Kind` and `Kids` give a flow of `Flow` as a tree. A frame is one dispatch: its parent, the
reason of its signal, how far it has come. A composite's `Compose` step is what its
`run_fn` does when a child settles. A leaf returns, throws, suspends or throws its
abort reason, and may ignore its signal. Left out: values, `project`, a fallback's
`cause`, the errors of a loop's `finish`, an empty map.

`Composition` has what `Flow` leaves out: the order of a chain's stages and checks, the map
of a scope and who reads it, a loop's guard, the spans that open and close around each
dispatch, and the descriptions that are computed of the tree. A value is the span that
made it, so that a `use` that sees another scope's value, or an older one, shows.
`describe` is checked against reachability over every graph of three steps, cycles included.

`Rounds` has the composites that go in rounds over `loop`. A member returns any score or
content; `merge_outcome`, the guards and the bracket are the code's. `log` is what a
trajectory would show of each round. `Bench` is the pool of workers over the cases, the
judges and the comparison with a baseline; a case's scores are kept by judge. Left out of
both: prompts, texts and the names of things.

### The runner and what watches it: Runner, EventFeed, StreamChannel, Observers

`Runner` has runs side by side in one process. A flow registers handlers, records events
and ends somehow; it may leave stray work behind. A step is one
synchronous stretch of the code. `Throwing` runs have a logger that may throw where
the run itself waits for it. Left out: the stamps that `decorate_logger` puts on
events, a run without observers, a logger that throws inside a clean-up timer.

`EventFeed` is what `run.stream` promises. `StreamChannel` is the logger with its
buffer and the iterator with the consumer that waits in it. A consumer asks for one
event at a time, as `for await` does; a second `next()` beside the first is left out.

`Observers` has the sinks of a run (a logger of lines, the OpenTelemetry bridge with its
metrics, one that throws, a tee of two), each with its own ids and its stack of open spans,
and the stdio host around the run. An action is the synchronous stretch in which the runner
or the engine opens a span, records or closes one; one call of a sink may go wrong in it.
Left out: what an event says beyond its kind and its span, and the HTTP logger, whose POSTs
overtake each other.

### The engine: Generate, ToolLoop, Turn, WireMessages, Salvage, Captured

`Generate` is a call from its options to its result: what is refused and in which order
the refusals are tried, which default a missing option takes, what each turn is counted
as, priced at, recorded as. The engine and one derived with `with_providers` share the
prices that `register_price` may set at any moment. Amounts are integers.

`ToolLoop` is the loop of a call. A tool call is the pair of its step and its place in it; a
message is its kind and the calls it is about. The model answers anything. Left out:
the text of messages, `prepare_step`'s replacement of messages (`Captured` has it), costs
and cache reports (`Generate`), and an `on_finish_step` that throws.

`Turn` is one request with its attempts. An answer is a list of blocks, which each dialect
sends in frames of its own; the server may stop at any frame or within one; the caller
aborts and the timer fires at any step. `out` is what the callback still owes for the
frame in hand, since the consumer is awaited chunk by chunk. There are five dialects: the
transports differ in `FrameList` and their `Handle...` operators, and the chat format comes with
`reasoning_details` ("openrouter") and without ("chat"). They differ in what they do with
thinking (`Keeps`, `Reads`, `Parsed`): Anthropic and the SDK keep it in its place among the blocks
of the result; a chat server with `reasoning_details` keeps its entries, put before the text and
the calls, and streams a bare string without keeping it; one without reads none; ollama streams it
and keeps none. So `content` at the end stands for the blocks of the result, or where the wire
has none for its fields in that order. An error reported within a stream has a status or a type
on every wire but ollama's, and one of a kind that is retried is retried (`stream_event_error`).

`WireMessages` grows a transcript by any reply of any provider and writes it for every
wire at every turn, which is what a `fallback` over providers does. A block is what it is,
the provider whose data it carries and the reply it came in. Left out: images, file parts,
cache markers and the text of anything.

`Salvage` reads calls out of a text. A text is a sequence of marks (tags, fences, braces,
quotes, words), made of pieces that a model writes, so that what was *meant* is known and the
three scanners can be held against it. Left out: characters, and arguments beyond a text and a
number.

`Captured` is the request as a difference to the last, the redactor, a log that loses,
repeats or reorders two events, and its two readers.

### Claude CLI: ClaudeCli, ClaudeLines

A child of `ClaudeCli` has a leader (claude), possibly a helper that holds its output, and
closes when both are gone. `armed` says that a SIGKILL is due. Left out: the handler that
kills live children when the process exits. `ClaudeLines` is the text of the answer: the CLI
writes lines and exits, the pipe delivers them in pieces that need not end at a newline,
and the parser folds them into turns, chunks and a result. Left out: the argument vector,
the environment, and the detail of an error.

### The ACP agent: AcpSession, AcpCards, RunCommand, AcpFiles, McpServers

`AcpSession` has one stored session. A record of the agent's memory is known by the
`session/load` that opened it. A step is the stretch between two awaits of a handler.
`client` says how careful the client is: "patient" loads only when it waits for nothing,
"serial" waits for its loads and closes but not for its prompts, "hasty" for nothing. Left
out: titles, updates, the values of modes and models, `session/new`.

`AcpCards` has the two sides of a turn: the steps that record events and ask for approval,
and the consumer that makes updates of the events, one client call at a time. `recorded`
and `sent` count as `TurnProgress` does. `client` is what the editor draws, each card with
the call that really opened it. `RunCommand` has the shell, its group, what left the group,
and the pipe between them and the call. `AcpFiles` runs its tools over a shared disk whose
user saves meanwhile: each await on the file system is a step. `over` is what the file held when
a change landed, and `raced` says that somebody else wrote at its path after the change was worked
out: two things the code does not know, by which its answer is judged. Left out of it: bytes and
encodings, and the grammar of patterns (a pattern finds a line, or backtracks for ever).

`McpServers` is what one `mcp` of `AcpSession` stands for: `at` is how far each server has
come, `open` the connections that are there, `stuck` those whose close failed. A call of a
tool goes through `needs_approval`, the session's approver and `execute`; the flow brings
a tool of its own under the name of one of the session's. Left out: the mapping of results
(`isError`, an abort and a lost connection all throw), headers, arguments and environments.

### The viewer: ViewerTail, ViewerFeed, Scene, Layout, Playback, Drawer, UiStream

A file of `ViewerTail` is a sequence of half lines, numbered in the order in which they are
written, so that a line out of order, twice, or joined from the wrong halves shows. `pc` is
the await at which the pass in flight stands: the stat, what it does with it, the open, the
read. The writer acts between any two of them. A watch hears what `fs.watch` reports;
`DirReportsWrites` says whether a watch on a directory also hears writes to the files in
it, which differs between platforms. `overtaken` remembers that the writer came between
the stat of a new file and its watch, a change that nothing reports. Left out: errors
other than a missing file, links refused at the path, and lines that are not JSON, all
of which are reported and passed over.

`ViewerFeed` goes on from there: the broadcaster numbers what the tail emits and what is
posted, the page folds the history, takes a cursor and subscribes past it. A
connection breaks, the viewer restarts with its ids from 1, the file is rotated.

`Scene` records a run's events, in any order in which its parallel parts can reach them,
folds each as it comes, and says what every segment, puck and card shows. `Layout` is
geometry: a structure is measured and placed, both recursive functions over its places, with
the constants of `TOKENS`. `Playback` is the playhead, with wall time
in sixths so that each speed divides it; a frame may be stamped earlier than the one before it, as
`build_timeline` takes every stamp as it comes, and the clock then falls, though not below T+0.
`Drawer` is the inspector: what the calls really sent is kept beside what the events let it rebuild. `UiStream` is not the viewer's but
likewise a reader of a run's events: it maps model chunks to the parts of a chat page,
behind a channel that drops the oldest. A call that fails (`Fails`) records nothing: the loop closes
its spans and rethrows (`engine/tool_loop.ts:994-997`). The run fails with it, or goes on with the
next call, which is what a `retry` or a `fallback` around it does; that call counts its steps from 0
again, and what it writes in them goes on in a block that the failed one left open.

Left out: bare events that `reduce.ts` attributes by guesswork, the page's colours, texts and
pointer handling, the assets that the server serves, and its checks of host and origin.

## 3. What is checked

Deadlock checking is off in all runs, because every one of these systems rightly
stops: calls return, runs settle, the client hangs up, the writer is done.

| Run | Instance | Shows |
|---|---|---|
| `MCDurable` | a start and two resumes; a deploy adds a gate between them, one process refuses the change; calls outlast their lease while they drive, die, throw; a datum is refused | `NoLostUpdate`, `TakenDatumIsKept`, `DataMeetsItsFlow` |
| | `Replays`: five flows, four passes; `Gate`: four runs, with a store; `Observers`: two calls, five sets of sinks, one fault | `ReplaysAreForetold`, `ResumeServesTheKept`, `SinksTellTheRun` |
| `MCDurable_live` | a start, two resumes for two gates in a row, a delete; every live call goes on and renews in time | `RunsAreDriven` (one driver; an answered run is done), `EveryCallReturns`, `WaitingDatumIsTakenUp` |
| `MCFsClaim` | three owners, one of whom renews; or one owner and one that clears its own scope | `ClaimIsAsPromised` (`OneHolder`, `RenewalHolds`, and the files implement `Claim`) |
| | `Drawer`: two calls, events on their way at once and lost, a reader | `InspectorIsTrue` |
| `MCStreamChannel` | a buffer of 2, 6 events | `CountsTheMissing`, `StreamEnds`; the channel implements `EventFeed` (`IsFeed`) |
| | `UiStream`: two calls, in a row or side by side; `Layout`: every flow of at most five places; `Scene`: seven flows | `StreamIsWellFormed`, `CanvasHoldsTheFlow`, `SceneTellsTheRun` |
| `MCRunner` | two runs, either order; one streamed, linked, with two handlers, stray work and a logger that may throw, the other with signals or without | `RunnerServes` (`CancellationReaches`, `HandlersComeAndGo`, `SettledHoldsNothing`, `CleanupIsWhole`) |
| | `Composition`: four flows, every throw, an abort anywhere; `AcpCards`: two steps whose calls share a raw id | `FlowIsAsTold`, `CardsAreTrue` |
| | `Flow`: four flows, every outcome of every leaf, abort anywhere | `FlowSettles` (`SuspensionSurfaces`, `AbandonedIsAborted`, `NoFurtherChildUnderAbort`) |
| | of `Runner`, `Flow` and `AcpCards` together | `WaitsEnd`: a flush ends, an aborted flow ends, an approval that is waited for has been asked |
| | `Rounds`: two members, seven players; `Bench`: three cases, two sizes of the pool | `RoundsAreTold`, `ReportIsWhole` |
| `MCToolLoop` | four sets of options, two steps of up to two calls of four tools | `LoopIsAccounted` (`HistoryIsAnswered`, `ToldOfDropped`, `RunsApproved`), `EngineEnds` |
| | `Turn`: five dialects, two attempts; `WireMessages`: four wires; `Salvage`: texts of two pieces | `TurnIsTold`, `RequestsAreWellFormed`, `SalvageIsFaithful` |
| `MCClaudeCli` | a sandboxed call with a repair, its version gate, every timer, a helper process | `CliHolds` (`DisposeEndsAll`, `SettledIsOver`, `NothingStartsAfterDispose`), `AbortEndsUnlessHeld` |
| | `ClaudeLines`: five lines and a repair; `Generate`: three providers; `Captured`: three turns, one fault of the log | `CliResultIsTheStream`, `CallIsAccounted` (also `TurnsAreAsSent` of `Captured`) |
| `MCAcpSession` | two loads, two prompts, a setting, a close, the hang-up; three clients | `SessionsHold` (`TurnsNeverOverlap`, `ToolsHaveTheirServers`, `NoServerOutlivesTheEditor`), `NoExchangeIsLost` |
| | `RunCommand`: a command that forks, leaves its group and prints; `AcpFiles`: two sessions on one disk; `McpServers`: three servers, two of whose names meet, two calls | `ToolsReportTruly` (`ReportIsWhole`, `FilesAreAsTold` with `ChangesReplaceWhatWasRead` and `LooksAreWhole`, `NamesLeadHome`, `NoServerIsLost`) |
| | of `AcpSession`, `RunCommand` and `AcpFiles` together | `CallsEnd`: a waiting prompt starts, a command and a file call end |
| `MCViewerTail` | four halves, two files, a truncation, a directory that goes away; links followed or not | `TailServes` (`LinesAsWritten`, `DrainCatchesUp`, `SleepsCaughtUp`), `TailRests` |
| | `ViewerFeed`: a tail or posts, a ring of two; `Playback`: four events, two runs | `PageIsWhole` (`FeedIsWhole`, `PlayheadIsWhole`) |

### Bounds, and why they are enough

- *Durable*: a hazard needs a driver, a call that takes the run over, and a third
  whose datum falls between them. Two gates let a datum arrive before its gate is
  reached. The calls bound everything else.
- *Replays*: `MaxPasses` of four lets two gates be passed and the process die once; the
  flows put a side effect before and beside a gate, in a checkpoint and in a branch.
  *Gate*: `MaxRuns` of four loses an answer, dies and resumes.
- *Observers*: two calls are what it takes for a stack of spans to name the wrong parent;
  `MaxFaults` of one is a fault at any point; `MaxTurns` is one.
- *FsClaim*: `MaxClaims` bounds the claims of an owner, `Casts` says who meets whom. Two
  claims of one owner make a renewal, and three owners let a claim be taken over, and
  taken over again, while the first still acts on what it read.
- *Drawer*: `InFlight` of two reorders any two events, `MaxLost` loses one, `MaxMoves` lets a
  reader open a node and scrub, or copy twice; one call of three turns, or two of one.
- *StreamChannel*: `MaxEvents`, six against a buffer of two, overflows it more than
  once, with room for the consumer to catch up between overflows. *UiStream*: the same
  buffer (`HighWater`) before two calls of `MaxSteps` two steps of `MaxChunks` two chunks; the
  second follows the first, whether that one failed or not, or runs beside it.
- *Layout*: `Structures` has every tree of at most five places with a kind that fits each
  number of kids, so each kind stands within and beside each other one. *Scene*: a retry of
  `MaxAttempts` two and a map of `MaxItems` two, in seven flows that nest them in fans and
  fallbacks; one cost (`MaxCosts`) and one retried turn (`MaxRetries`), each at any moment.
- *Runner*: two runs let the first start and the last end be different ones; two
  handlers (`MaxHandlers`) are what order and an interrupted flush need.
- *Composition*: a loop of `MaxRounds` two rounds, scopes within scopes and side by side, a
  chain with every kind of entry; `Graphs` has every graph of three steps.
- *AcpCards*: two steps under one raw id; `Runs` and `Turns` of two let an id come again
  within a turn and in the next; `HighWater` of two lets the run outrun the client.
- *Flow*: each flow puts composers whose errors meet on top of each other; two
  attempts, items or rounds are enough for one to be abandoned beside the next.
- *Rounds*: `MaxScore` of two has ties, betters and worse ones; `MaxRounds` of three and `Patience`
  of two let a best round be followed by worse ones; seven players leave one without a
  match in the first round. The players are numbered, as the members are.
  *Bench*: three cases for a pool of two leave one queued.
- *ClaudeCli*: one repair (`MaxRepairs`) makes a second process of a call. *ClaudeLines*:
  `MaxLines` of five makes two turns, a result and a line between; `MaxUnread` of two lets
  an exit overtake lines; `MaxParts` of three is a text and two calls.
- *Generate*: three providers that differ in what they support, and a set of calls in which
  each option is given, missing or refused once. *Captured*: `MaxTurns` of three has a turn whose
  predecessor was not recorded, `MaxFaults` loses or repeats one line of it.
- *ToolLoop*: two calls (`MaxCalls`) under a cap of one leave one beyond it, and two
  steps let a repair come after a step.
- *Turn*: `MaxBlocks` of two has two calls, or a call, a text or thinking before or after one
  another; `MaxAttempts` of two has a retry. *WireMessages*: `MaxParts` and `MaxTurns` of two. *Salvage*:
  `MaxPieces` of two sets each construct beside each other one; `MaxSteps` of two and one
  attempt let the attempts run out.
- *AcpSession*: two loads make two records; the second prompt replaces the first,
  while a setting saves and a close or a reload comes between.
- *RunCommand*: `MaxPrints` of three against a `Limit` of one has output that is counted
  and not kept. *AcpFiles*: `MaxCalls` of one in each of two sessions and `MaxSaves` of one
  put a save or another session's write at each await of a call, and a `MATCH_LIMIT` of one
  cuts a search. *McpServers*: a name that
  two servers share and one that is of the flow too, a transport not spoken, and `MaxCalls`
  of two for a grant and its use.
- *ViewerTail*: `MaxHalves` makes two lines, so that a half line is left in the first
  of `MaxFiles` two files, or before the one truncation (`MaxTruncations`); one
  directory (`MaxDirs`) comes, goes, and holds the second file.
- *ViewerFeed*: a ring of two (`N`) for `MaxEvents` of three forgets one; one rotation,
  restart and break (`MaxRotations`, `MaxRestarts`, `MaxDrops`). *Playback*: `Gaps` has none,
  a short one, one beyond the cap and one back, which falls behind several events;
  `MaxRuns` of two starts the log over once, and   `MaxEvents` of four have three gaps.

### Fairness, and why the code justifies it

- *Durable*: every call that was made goes on (an await on the store settles), and a
  claim whose owner is gone expires. A call need not be made.
- *StreamChannel*: the run closes (its runner does so when it settles), and a consumer
  that has not left asks for more.
- *Runner*: the timers of the clean-up deadline fire, and a flush whose handlers are
  through settles. A handler is never asked to return. *AcpCards*: the consumer forwards and the
  client takes what it is sent, and a waiting approval wakes. The user need not answer.
- *Flow*: composers act when a child settles, timers fire, and a leaf honours its
  signal, but for the stubborn one. No leaf need end otherwise.
- *ClaudeCli*: the timers of SIGKILL fire and the code acts on what it is told; a
  killed process is gone. claude is never asked to exit by itself.
- *ToolLoop*: the code's own steps, the model's and the tools' promises; nothing is
  asked of the approval handler, nor of a predicate. *Turn*: the engine's own steps and the
  timer of a turn. The server need not send anything.
- *AcpSession*: handlers go on, and an aborted turn's run settles. *RunCommand*: the call's
  own steps and its two timers; the command need not end, nor close its output.
  *AcpFiles*: a file operation settles, and the budget of a search fires; the worker need
  not come back.
- *ViewerTail*: the event loop serves the pass in flight and the watches; nothing is
  asked of the writer.

### Where the code and its comments disagree

Three runs are expected to find a violation, of a property that a comment of the
source states; `findings` in `PROJECT.json` quotes it.

| Run | Property | What happens |
|---|---|---|
| `MCDurable_refused_queue` | `AnsweredRunIsDone` | `deliver` drops a datum when the inbox holds one for the gate, also when that one is refused afterwards |
| `MCClaudeCli_held` | `AbortEndsCall` | `send_signal` gives up once claude itself has exited, so a process that it left and that holds the output keeps the aborted call open |
| `MCToolLoop_repair` | `DroppedAreNamed` | a step that a terminal tool ends pushes no notice of the calls that the cap dropped, since no later turn would read it (`engine/tool_loop.ts:1661`); with a schema its text may not fit, and the repair asks the model again without the notice (`engine/generate.ts:1316-1344`) |

The same models show the following, under other values of their constants or without
the condition that a property states. Each is a place where the properties above stop
short of what the source says.

- `Durable`, with `"sv_set"`, `"create"` or `"tk_delete"` in `StallAt`: save compares
  revisions in a get and writes in a separate set (`core/durable.ts:340-343`), `start`
  writes the first record long after it found none (626), and `take_up` deletes the
  inbox's entry by its gate alone (438). A call that stalls there past its lease
  overwrites the drive that took over, resets a run that exists, or deletes a datum
  that arrived later. `durable.ts:16` says that "the record's revision fences every
  write". With a delete as well, revisions start at 0 again and the fence lets the
  deleted run's record through.
- `FsClaim`, with a third owner beside the clearer in `Casts`: generations start again
  after a clear (`adapters/filesystem_store.ts:277`), and a claimer that listed the old
  ones creates one past the new owner's. Line 238: "generation numbers only ever grow".
- `StreamChannel`: `close` puts the marker for dropped events into the buffer and tells a
  consumer that waits with an empty one that it is done (`core/streaming.ts:63-71`), so
  that consumer never learns of them. Line 32 promises the marker "emitted at close".
- `Runner`: a clean-up handler that timed out and then throws records its error after
  `run_end` (`core/cleanup.ts:84`; `core/runner.ts:518` calls `run_end` "the true last
  event": the variable `late` holds these runs); and a logger that throws on `run_end`
  rejects the run and skips the rest of its teardown (`core/runner.ts:520`;
  `docs/concepts.md:212`). `SettledHoldsNothing` excepts the latter.
- `Flow`: a fallback whose primary fails with an error of its own after the abort runs
  its backup under the aborted signal (`core/fallback.ts:121`, against lines 11-13), which
  `NoFurtherChildUnderAbort` excepts; and `map` keeps the first error of its items and
  drops a suspension beside it (`core/map.ts:167`, against 16-18), which
  `SuspensionSurfaces` finds in a map that does not settle and runs two items at once.
- `ClaudeCli`: `dispose` neither kills nor awaits a group whose claude has exited
  (`spawn.ts:296`, against 12-13; excepted by `Held`); an `on_chunk` that throws leaves its
  process running (`adapter.ts:372`, excepted by `SettledIsOver`); a startup or stall
  timer that fires after an abort turns it into a timeout (`spawn.ts:205`); and dispose's
  SIGKILL timer also fires after the group is gone (`spawn.ts:308`).
- `AcpSession`: for a "serial" client a close is answered before its turn is saved, and a
  reload and the next save take that exchange out (`acp_agent.ts:365`, against
  `docs/acp.md:302`); for a "hasty" one two loads make two records whose turns overlap
  (`acp_agent.ts:315`, against `prompt_turn.ts:298-300`), and a load that connects while
  the editor leaves is never closed (`acp_agent.ts:376`, against 374-375).
- `ViewerTail`: when links are followed the path is opened again after the stat
  (`viewer/tail.ts:296`), and a file swapped in between is read under the old one's
  inode, and again under its own; a line written between a new file's stat and its watch
  is read only when something else is reported (250, the variable `overtaken`); and each
  read is decoded by itself (327), so that with `SplitChars` a character that two reads
  share is replaced.
- `Turn`: a stream that stops within a frame hands the half of it to the aggregator, whose
  error is not one that is retried (`engine/providers/native_shared.ts:412`,
  `anthropic_native.ts:582`); `native_shared.ts:177` says of a stream that ends early that the
  engine "retries it whenever nothing consumed its chunks".
- `Generate`: a turn whose tool error ends the call was billed and has no cost on record, since
  the step is recorded after its tools (`engine/tool_loop.ts:1550`), and a `register_price`
  in the middle of a call prices its turns by two rows (`engine/generate.ts:1198`).
- `RunCommand`: an abort during the grace after the shell's exit clears the grace timer, so that
  what left the group and holds the output open keeps the streams from being destroyed
  (`acp/tools/run_command.ts:211-219`).
- `AcpFiles`: `split` counts overlapping occurrences once, so an edit of a text that occurs at
  two overlapping places passes as exact (`acp/tools/edit_file.ts:71`, against 4-6), and an
  edit works on what it read: a save between that read and its write is lost. This is the one
  exception of `ChangesReplaceWhatWasRead` (`raced`): a change that was told replaced the text that
  it was worked out on, or another wrote in between.
- `UiStream`: a call that failed in the middle of a text leaves its block open, and the text of its
  retry, or of the fallback's backup, goes on in it (`ui/to_ui_message_stream.ts:130`, keyed by the
  step alone); `StreamIsWellFormed` tells this ("taken_up") from calls that mix.
- `Playback`: `playback.ts:35` takes the times of the events for "non-decreasing by construction",
  and `timeline.ts:260` for "a clock that only rises". Nothing makes them so: `build_timeline`
  (`timeline.ts:100`) and the fold (`reduce.ts:259`) follow a frame that is stamped earlier than the
  last. With times 0, 5, 3 a scrub to the moment of the last event lands on the one before it.
  `PlayheadIsWhole` states that a scrub to an event's own moment is one to that moment where the
  times do not fall, and the rest of what it says for any.
- `Gate`: a gate whose result was bought again by a run that died before it could show it
  passes that result under the older one's approval (`composites/gate.ts:19-25`);
  `ResumeServesTheKept` excepts it (`unshown`).
- `Bench`: once a case has thrown control flow the other workers go on to claim cases.
- `Observers`: a step span that an abort leaves open is, by the stack, the parent of what
  comes later; a schema validator that throws ends the stdio host before it disposes of
  the engine (`stdio/execute_stdio.ts:118`).
- `ViewerFeed`: a viewer that is fed by a tail and by posts of the same events folds them
  twice (`viewer/app/history.ts:16` says "no double-fold"; `Modes` has "both").
- `Scene`: of an exhausted retry one attempt is made a scar again, whichever child died
  (`viewer/app/lib/reduce.ts:520`). `Layout`: the first backup of a fallback is given a fixed
  drop, whatever it needs above (`layout.ts:645`, against 635-640: "stacked with the same
  clearance rule"); `CanvasHoldsTheFlow` excepts such a flow (`Roomy`).
- `Salvage`: a call whose argument holds `</tool_call>` in a string leaves its tail in the
  text (`engine/tool_call_salvage.ts:202`), and one inside a code fence is taken for a call.
- `Drawer`: the label "copied" is kept when another turn takes the drawer's place
  (`viewer/app/stage.tsx:502`).

## 4. What is proved

The proofs hold for every value of the constants that satisfies the assumptions of
the module (`CallAssumption`, `FlowAssumption`, ...; `ClaimAssumption`; `ChannelAssumption`,
`CallsAssumption`; `RunnerAssumption`, `FlowHolds`, `BenchHolds`, `CardsFit`, `RoundsFit`; `StepsFit`; `ToolLoopAssumption`, `TurnFits`;
`CliAssumption`; `AcpSessionAssumption`; `TailAssumption`, `FeedHolds`, `PlaybackHolds`), which
state only that the parameters are of the right kind: of a session, that
a load, a prompt, a setting and a close are different requests; of the tail, that the bounds leave
room for the file that may be there at first; of a turn, that its wire formats are among the five; of a
playhead, that stamps differ by integers; of a chat's calls and a bench's cases, that they are
numbered; of a flow, that each node has a kind, its kids and limits of at least one, and that a
branch, a fallback and a loop have as many kids as the code gives them; of the feed, that a body is
of lines that hold an event and lines that do not; of a flow that is run in passes (`StepsFit`), that it
is a finite tree numbered downward, whose steps and gates are leaves, with one kid to a checkpoint and
two to a branch. What a theorem needs beyond them is a named hypothesis in its statement (`Timely`,
`LeasesHold`, `DataInTime`, `Undisturbed`, `Benign`, `Careful`), and is discussed below. The one
that `CommandReports` names, `CommandAssumption`, says that `None` is not an outcome.

Each inductive invariant, or what of it TLC can evaluate, was an invariant of a TLC run before it was proved. A proof goes
through the operations in the order of `Next`; a lemma per operation says what it does to each
part of the invariant that it can disturb.

### DurableProofs

- `TypeCorrect`: `TypeOK` is not inductive, since a local record is one only where
  the code has read it. `TypeInv` adds `CallInv`, which says of each call what its
  locals hold at each point, and that a suspended record waits at a gate that has no
  accepted datum. `StepTypes` goes through the operations, `DieOK`, `StoreThrowsOK` and
  `RenewOK` through the rest.
- `NoUpdateIsLost`, `RevisionsCount`, `InputStays`, `DoneStays`, `TakenDatumStays`: under
  `Timely` (nobody stalls inside `Window`, nobody deletes the run). The strengthening is
  `FenceInv`: type, `WindowInv` (a call inside a window still has the lease), `PastInv`
  (what a call read is the record, or an earlier revision of it) and the property.
  `Timely` is needed: the fence is a read and a write of the store, and a call that stalls
  between them, or a run that starts again at revision 0, defeats it. The lemma `Writes`
  says what any step may do to the record; the action properties follow from it.
- `OneCallDrives` (`OneDriver`): under `LeasesHold` (no live call outlasts its lease between
  taking it and letting it go; deaths, errors and deletes are allowed). `LeaseInv`: whoever is
  in a point of `Holding`, and does not know its lease for lost, owns it, and so does a delete
  that clears.
- `ShapeIsDriven` (`DrivesItsShape`): no hypothesis. `ShapeInv` follows a record from the
  check of its shape, through the save that a replay of another shape makes, to the drive.
- `DataMeetsFlow` (`DataMeetsItsFlow`, with `NeverInNeither`): under `DataInTime`, which is
  `Timely` and no stall while a datum is put into an inbox or deleted from one. `DataInv` adds to
  `FenceInv` that a call that deposits has the gate's claim and, past its look, an empty inbox
  (`DepositInv`), and that the datum a call is about to delete is the one it has just written into
  the record (`TakesInv`). `take_up` deletes by the gate alone, so without the hypothesis a later
  datum can be the one that goes.
- `RunsAreWellDriven` (`RunsAreDriven`: the record is of the run's own gates, one call drives,
  and a run whose gates all got a datum from a resume that reported on it is done once all is
  quiet): under `Undisturbed`. `AnsweredInv` is the type, the lease, and, as long as nobody died
  or began a delete (`Clean`), `EndInv`: the lease's owner holds it; a record that is running has
  the call that runs it (`RunInv`); *a datum in the inbox of the gate the run waits at has a
  call that will look there* (`LookInv`, no lost wake-up between inbox and lease); what each
  call knows and owes (`PlaceInv`, `GoalInv`, `HandInv`); and one depositor for a gate
  (`GateInv`). Each part of `Undisturbed` is needed: a stalled depositor or driver loses a
  datum (above), a refused datum can be the only one (`MCDurable_refused_queue`), a flow or
  an operation that throws leaves a run that is not done, and so does a process that refuses
  a changed flow.

- `ResumesServeTheKept` (`ResumeServesTheKept` of `Gate`): no hypothesis. `GateStateInv` says what a
  run of the gate has in hand at each point (`GateRunInv`: only one that does not resume buys) and
  what the store keeps (`GateKeptInv`: *the result that was shown last, or one whose run did not
  live to show it*), which is why a resume may find nothing and then fails instead of buying.

- `RepeatsAreForetold` (`ReplaysAreForetold` of `Replays`): the analysis of replays is sound for
  every flow, under `StepsFit`. The lemmas on trees come first: two nodes that hold a third lie one
  below the other (`Chain`), so that the paths to a step and a gate part at one node (`SplitIs`),
  under kids whose places `IndexOf` finds (`IndexIs`). `Below` is a recursive function; it is shown
  to be the least set closed under kids (`BelowIs`), from which the rest follows without induction
  over the flow. `PassInv` says of a run in which nothing failed how far each node is against its
  kids (`NodeInv`) and, of a marked step that *started in an earlier pass, that the analysis lists it
  or a checkpoint around it has its result* (`StartInv`). That a step which starts again is
  foretold is not inductive by itself: nothing in the second pass tells why the first stopped. The step that
  needs the argument is `Resume` (`Stopped`): take the innermost node around the step that is
  suspended. If it is the step, a gate below it waits. If not, another of its kids is suspended,
  which in a sequence comes later, so the gate that waits there is one the step can run before,
  unless a checkpoint lies between; then the checkpoint returned, and its result is kept. A step
  whose checkpoint has its result does not start, because what is around a step that starts runs
  (`Upward`), and a checkpoint that runs has no result.

`MCDurable` checks `NoLostUpdate`, `TakenDatumIsKept`, `DataMeetsItsFlow`, `ResumeServesTheKept` and
`ReplaysAreForetold` on its instance, `MCDurable_live` checks `RunsAreDriven`.

### FsClaimProofs

`TypeCorrect` has no hypothesis: it holds for any cast, and however late a renewal or a clear acts.
`TypeInv` adds to the types that *no file, and nothing an owner remembers of one, has a number past the
count of the stamps drawn* (`Numbered`): a new generation is one past a file that was there, or past none,
so that its number stays in its range, whatever was cleared meanwhile.

All others are under `Benign`: `Punctual`, and a scope that somebody clears is claimed by at most one other
owner. `durable.ts`, the only caller, renews at a third of `lease_ms` (313) and clears right after
it claimed (672), so that a renewal or a clear that acts after its claim ran out is a process that
stalled for most of a lease. The second half excludes that two more owners claim a run while it is
being deleted: then the property fails, as said above (`FsClaim`, with a third owner beside the
clearer).

`ClaimInv` says of the directory that the newest generation is what everybody goes by:
stamps expire in their order (`ExpiryInv`); what an owner remembers fits the point it is at
(`OwnersInv`); without a directory nothing is there (`FilesInv`); there are never more generations
than stamps drawn, which bounds their numbers (`BoundInv`); *below the newest generation everything
has expired* (`NewestInv`); and the owner of the newest is the one who counts on it, or who is about
to (`HolderInv`). From it follow `OneOwnerHolds`, `RenewalIsHeld`, and
`DirectoryIsClaim`: the files implement `Claim`, every call of the file system mapped to a step
of the contract or to none. `ClaimIsKept` puts them together as `MCFsClaim` checks them
(`ClaimIsAsPromised`).

### StreamChannel

`FeedInv` joins the type with the shape of the buffer (`MarkersLast`, `KeepsTheNewest`),
the books (`CountsTheMissing`) and what the consumer's wait says (`WaiterWaits`,
`SeenIsBehind`, `DoneIsEmpty`, `AcceptsAll`). `Events`, the number of events of a sequence,
has lemmas of its own. From `FeedInv` follow `TypeCorrect`, `TheNewestAreKept`,
`TheBooksBalance`, `TheBufferIsBounded` and `ChannelIsFeed`: the channel implements
`EventFeed`, every step mapped to a step of the feed or to none. `MCStreamChannel` checks
`CountsTheMissing` and `IsFeed` on its instance.

`ChatPageIsWellFormed` (`StreamIsWellFormed` of `UiStream`): `UiInv` holds the page and the mapper
together (`UiBlocksInv`: the same blocks are open for both). Its other two parts look into the
buffer: as long as nothing was dropped and calls come in a row, *events of two calls have the
finish of a call between them, and so have a block and a later call's event, unless the earlier
call failed* (`UiRowInv`), and a tool call that ends has its start before it or
is already named (`UiNamesInv`). A lemma each says that an event that is put behind keeps the
order, and that one that is read does.

### Runner

`RunsAreServed` (`RunnerServes`, the invariant of `MCRunner`) and `TypeCorrect`, with no
hypothesis. `RunnerInv` is `SignalsInv` (the process's handlers are installed exactly while the
registry of runs is not empty, and stand for one listener), `RunInv` of each run (who has been
told what, and what a settled run let go of) and `CleanupInv`: the handlers that were fired are
the newest ones in order, down to the one that `run_all` waits for. A logger that throws on
`run_end` is the one exception, as in `SettledHoldsNothing`.

`FlowWaitsAndStops` (`AbandonedIsAborted` and `NoFurtherChildUnderAbort` of `Flow`) has no
hypothesis, for every tree of composers. `FlowSettlesSuspended` (`FlowSettles`, the property of
`MCRunner`: also `SuspensionSurfaces`) needs `Careful`: every map keeps its items' errors or runs
one item at a time. A map that does neither settles with the first error of its items, which may
come before a suspension beside it; the four flows of the run are careful. `FlowInv` says what a
frame holds (`FrameOK`) and what a parent and a kid owe each other (`KidOK`): an aborted frame has
aborted its kids, what has no result is under a timeout that gave up on it, a suspension that a
parent has seen is what it failed with. So a suspension travels up an edge at a time, and
`SuspensionIs` takes the least frame that it has not reached, whose parent comes before it. A step
is one frame that goes on and the kids that it dispatches (`GoesOn`, `Dispatches`), and each
composer is shown to be such a step.

`BenchReports` (`ReportIsWhole` of `Bench`): what the pool has not come to is queued (`PoolInv`), a
case has scores only once its flow came to an output (`ScoresInv`), and a report is made of results
that are all there and stay as they are (`MadeInv`). What it
sums up are folds over sets: that such a sum is a number, so that reports can be compared at all and
none is a regression of itself, is proved by induction over the size of the set. An induction principle that takes a
predicate is out of reach (below), so `NatMin` (a set of numbers has a least one) stands for it,
applied to the set of counterexamples, and the recursive function behind a fold is first shown to
exist (`SumExists`).

`RoundsAreToldTruly` (`RoundsAreTold` of `Rounds`): under `RoundsFit`, which asks that the members be numbered and
that there be one, and that `NaN` be no number. `RoundsInv` has a part for each composite.
`ImproveInv` keeps what the result is read from: every accepted round beat all before it and the
rest of its own (`Best`); *the rounds since the last accepted one are as many as `idle` counts*
(`Parent`), so that a plateau is a run of failures, not only a counter; and the lessons are an
ascending list, as long as the capacity allows, that misses no round that gave one and is not older than
all it holds (`Lessons`), which makes them the last ones (`LessonsAre`, by counting). In
`TournamentInv` who is left in the bracket is there once and has lost nothing, and who is not lost
the last match it played. Of `AdversarialInv` and `ConsensusInv` the log is the witness: each build
has the critique of the one before, and every round but the last has two that differ.

`CardsAreShownTruly` (`CardsAreTrue` of `AcpCards`) holds for any steps, raw ids and bounds; its one
assumption, `CardsFit`, is that `None` is no card in hand. What the client is shown is judged when
an event reaches it, while the run goes on: so `CardsInv` speaks of the *line* of what was recorded
and the client has not taken, the event in the client's hands before those in the channel, which is
as long as the count of the recorded events is ahead of the sent ones. As long as nothing was lost
and the consumer has not left: a card that is drawn is its own call's (`ClientInv`); every card
that waits in line is opened there once and by a call that has begun (`OpensInv`), and closed after
that (`ClosesInv`); *a call that has begun has its card, or the card is in line, no further back
than what its approval waits for* (`BegunInv`), so that who has caught up points at a card that is
drawn; the mapper's count of a step's runs, followed through the events to come, ends at the run's
own (`CountInv`), so that the mapper gives an event the id of its call. In a sequence only one step
is at work: no later call takes the place under its raw id (`PlaceInv`), and the previews under a
raw id are those of the successful results in line, in their order (`PreviewInv`, `Matches`).

### ToolLoopProofs

`LoopAccounts` (`LoopIsAccounted`, the invariant of `MCToolLoop`) and `TypeCorrect`, with no
hypothesis, for every set of tools and options. The invariant of the run is about histories
and records as a whole; `LoopInv` says how they grow. `ShapeInv` is the type; `PlaceInv` how
the step under way, its records and the phase go together; `HistoryInv` that the last message
makes the calls that were kept and the results that wait are theirs, from the first on;
`DropInv` that a loop that can go on has named every call it dropped; `ApprovalInv` that
nothing was asked about, granted or run beyond the call in hand. `StepKinds` splits the steps
by what they may change, so that the histories are reasoned about once and not per phase.

`OneAttempt` (`OneAttemptIsSeen` of `Turn`, a conjunct of `TurnIsTold`), under `TurnFits`. `TurnInv`
says that the chunks that are owed for the frame in hand, and those that the consumer was given, are
of the attempt under way (`ChunkInv`); and that *where the consumer was given one, the stamp is set and
the turn is neither between two attempts nor waiting to begin one*. The stamp is what `Thrown` looks
at: with it set nothing an attempt fails of is of a kind that is retried. A new attempt clears the
stamp, which is why the invariant has to say that none begins. What a handler hands over for a frame
is shown once for all dialects (`FrameGivesPieces`).

### ClaudeCli

`CallsLeaveNone` (`CliHolds`, a property of `MCClaudeCli`) and `TypeCorrect`, with no hypothesis.
`CliInv` is the types and, per call, `CallInv`: a call begins and settles without a process
(unless its consumer threw), and once `dispose` has begun every call in flight has been
aborted and every process is gone, awaited by `dispose`, or one that `dispose` finds exited.
`DisposeEndsAll` alone is not inductive: it is silent until `dispose` returns, and what `dispose`
awaits is what was running when it was called, so the invariant follows each process from there;
`Sound` adds that a timer is armed only for a process that is there and that one that closed
left nothing. `StepOK`, what each step is
shown to do, holds both halves: the invariant, and that no process starts after `dispose`.
The last half is an action property; it follows because a call between two runs looks at
its signal first, and `dispose` fires it.

### AcpSessionProofs

`SessionsAreHeld` (`SessionsHold`, an invariant of `MCAcpSession`), `StoreGrows`
(`NoExchangeIsLost`) and `TypeCorrect`, with no hypothesis but what the properties themselves say
of the client: one that waits for its loads and closes before it prompts has no turns that
overlap, and one that waits for every answer loses no exchange. What fails for the others is
said above (`AcpSession`).

`SessionInv` has to carry an order that no variable of the code holds. `TurnsInv`: *there are ranks
of the prompts such that a turn awaits one of its own record with a lower rank, at least as high as
that of every earlier one, and all that come after an unsettled turn still wait*; `last_turn` has the
highest. So a close, which awaits the last turn only, has awaited them all. `SavingInv` says
that what is queued is what some request waits for; `ClosingInv` that a session which is being
closed is out of the map; `ServersInv` that its servers are open as long as it is in the map or a
turn of it has not settled. `SerialInv` is about the client: no turn is under way while a load is,
and one record at a time has turns. `PatientInv` says of the record that is live that
what is stored is a prefix of every queued snapshot, each of these of the next, and the last of
the history (`Grows`); every save then extends what is stored. A new turn is
ranked above all others, and no other step changes a rank.

`CommandReports` (`ReportIsWhole` of `RunCommand`): `CommandInv` counts what was printed (read, or
still in the pipe: `PipeInv`) and says which of the two timers, the listener and the group are left
at each point (`CallInv`); only the grace timer destroys the streams of a call that waits.
`ServersAreLetGo` (`NoServerIsLost` of `McpServers`): by `ConnectionsInv` an open connection is of a
server that is past its connect and is still being dealt with, or whose close failed, and a closed
session is through with all of them. Both are conjuncts of
`ToolsReportTruly`; the other two, `NamesLeadHome` and that of `AcpFiles`, are only checked.

### ViewerTailProofs

`TailServesAll` (`TailServes`, an invariant of `MCViewerTail`) and `TypeCorrect`, with no
hypothesis, for any numbers of lines, files, directories and truncations. The exceptions are those
of the properties: links that are followed, a truncation, a character that two reads share, and
the writer between a new file's stat and its watch.

`TailInv` is the types (`ShapeInv`); that files grow at the path only, by consecutive halves
(`FilesInv`); what a pass knows at each await (`PassInv`); and four parts that carry the argument.
`WatchInv`, no wake-up is lost: *unless something will start a pass again (`Alarm`), what the pass
in flight has found is what is at the path (`Fresh`)*, the file that is followed is watched, and so is
its directory; the one look that may be out of date found nothing and is about to arm a watch, which
schedules a pass. `OrderInv`: all that was handed on, and all that is kept, comes before every half
that the tail may still read (`Ahead`, `Unseen`): past the offset, in a file that is newer, in one that
shrank. `ReadInv`, while nothing is truncated: what is in the buffer is the half line before the offset,
and every line up to the offset was handed on (`Caught`); so every read begins at the start of a
line, and no line is spoilt. `DueInv`: a line that a drain waits for and that is at the path was handed
on, or a pass will start, or the pass in flight has it in hand (`InHand`).

An act of the writer does not touch the tail but may raise its alarm: `WriterGrows` says what all of
them have in common (`Grown`), and the rest of the invariant is carried over that once. A read is split
in what it takes from the file (`TextIs`), the lines it makes of it (`LinesOf`) and what it keeps
(`RestOf`). `InOrderOf` shows that a set of positions can be put in order, by counting the
positions up to each.

`PageIsServed` (`PageIsWhole`, the other invariant of `MCViewerTail`) is about the page at the other
end: its feed, and its playhead. `FeedInv` says of a request what it was counted for (`PostInv`:
the lines of its body up to the one that was read) and, as long as the page has one producer
(`Alone`), that the nth event emitted is the nth that was written (`IdsInv`), that *the page has
folded every event up to where it has come, in order, but for those that had left the ring*
(`PageInv`, `Folds`), and that what is under way to it is all that it lacks (`WireInv`, `Sends`). So
a subscription past the cursor begins where the fold of the history ended, or finds that the ring
forgot what comes next. `PlayInv` is that the clock starts at T+0 and never falls below it
(`TimesInv`: it may fall, since a stamp may), that
the dials are in their ranges (`DialInv`), that the numbers of the clock are numbers (`ClockInv`),
and that a clock runs only over frames it has not passed, and shows the one that its time is in
(`HeadInv`). The schedule of a performance rises although the clock falls, since a gap that is not
positive takes no time (`WaitIs`); that the times rise (`NeverFalls`) is a hypothesis of the last
conjunct alone. The wall time of a frame is a recursive function of its number; it is shown to exist
as in `BenchReports`.

### Only model-checked

Liveness under fairness and everything about `ENABLED` is out of the proof system's
reach. So is, where no least counterexample gives it, what a recursive definition computes for
every input: `measure` and `place` of `Layout`, `matches` of `AcpFiles`, the readers of `Captured`
and `Drawer`, and the scanners of `Salvage`, whose properties are of their results, stay with TLC.
`SelectSeq` and the operators of `SequencesExt` that are defined by recursion tell the provers
nothing. `Observers`, `Composition`, `AcpFiles`, `Generate`, `Turn`,
`WireMessages`, `ClaudeLines` and `Scene` have no proofs: what they promise is checked by TLC
alone, but for `OneAttemptIsSeen`; that the stream tells the result is among it.
`RevisionCounts`, `InputIsFixed`, `DoneIsFinal` of `Durable`, and
`KeepsTheNewest` and `Bounded` of `StreamChannel`, are proved and in no run.

## 5. The plan

The modules that were planned are written: the core (`Durable` over `Claim`, `FsClaim`,
`Replays`, `Gate`), the channel, the runner and the composers, the engine down to the
messages on a provider's wire, the agent and its tools, and the viewer up to the
inspector. Proved are `Durable`, the gate and the replays, `FsClaim`, the channel and its chat page, the runner, the
composers, the rounds and the bench, the tool loop and the attempts of a turn, the processes of the Claude CLI, the ACP sessions with
their cards, commands and servers, and the viewer's tail with its page. What is left to prove, in the
order of its worth:

1. `NamesLeadHome` of `McpServers`; `Composition`'s spans; `ChangesReplaceWhatWasRead` of `AcpFiles`.
2. The requests of `WireMessages`.

## 6. Not modelled

- *The ACP connection and the wire types* (`acp/serve_acp.ts`, `serve_streams.ts`,
  `types.ts`): wiring of an SDK that is not in the repository.
- *MCP server* (`mcp/serve.ts`) and the mapping of results: one request a call over an SDK
  that is not in the repository, no state of their own. The client is `McpServers`.
- *JSON schemas* (`schema/`), *argument vectors, settings and environments* of the Claude CLI,
  *option merging* (`model_call`, `define_agent`), *cache marks, images and prices' tables*:
  pure functions of their arguments.
- *The viewer's drawing*: colours, text metrics, pointer and keyboard; `site/` and the
  examples.
- *Test helpers and the conformance suite*: they run in users' tests.

What a modelled part leaves out is said with its module in section 2, and in `PROJECT.json`
under `components`.
