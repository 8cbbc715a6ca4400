------------------------------- MODULE Runner -------------------------------
(* The life of a run, src/src/core/runner.ts and src/src/core/cleanup.ts:  *)
(* runs that start, are cancelled by a process signal or by a signal of    *)
(* their caller, end, flush their cleanup handlers and settle, side by     *)
(* side in one process.                                                    *)
(*                                                                         *)
(* What a flow does is left open: it registers cleanup handlers, records   *)
(* events and ends in some way.  Work that a timeout composer abandoned    *)
(* goes on after its flow has ended, as a stray.                           *)
EXTENDS Integers, Sequences, FiniteSets, FiniteSetTheorems, WellFoundedInduction, SequenceTheorems, TLAPS

CONSTANTS
  Runs,
  MayOptOut,    \* runs that may have install_signal_handlers: false
  Linked,       \* runs given the caller's signal as options.abort
  Streamed,     \* runs started with run.stream
  Straying,     \* runs whose flow may leave work behind
  Throwing,     \* runs whose logger may throw
  MaxHandlers   \* bound of the model: how many cleanup handlers each run registers

ASSUME RunnerAssumption ==
  /\ MayOptOut \subseteq Runs /\ Linked \subseteq Runs /\ Streamed \subseteq Runs
  /\ Straying \subseteq Runs /\ Throwing \subseteq Runs
  /\ MaxHandlers \in [Runs -> Nat]

VARIABLES
  opted_out,    \* the runs with install_signal_handlers: false
  phase,        \* "unstarted", "body", "flush" or "settled"
  aborted,      \* the reason in the run's controller: "no", "signal", "typed" or "plain"
  external,     \* the caller's signal: "quiet", or the reason it fired with
  listening,    \* the runs with a listener on the caller's signal
  signal_runs,
  signal_handler_installed,
  listeners,    \* how many handlers the process has for a signal
  handlers,     \* how many cleanup handlers the run has registered
  ran,          \* whether run_all has started
  running,      \* the handler that run_all waits for, 0 for none
  fired,        \* the handlers it has fired, in order
  abandoned,    \* the handlers that timed out and still run
  ending,       \* the status of the terminal event
  outcome,      \* how the run's promise settled
  late,         \* the runs that recorded an event after their run_end
  streams,      \* the runs whose event stream is open
  stray         \* the runs with work left behind

cancelling == <<opted_out, aborted, external, listening, signal_runs, signal_handler_installed, listeners>>
cleanup == <<handlers, ran, running, fired, abandoned>>
vars == <<phase, cancelling, cleanup, ending, outcome, late, streams, stray>>

Init ==
  /\ opted_out \in SUBSET MayOptOut
  /\ phase = [r \in Runs |-> "unstarted"]
  /\ aborted = [r \in Runs |-> "no"]
  /\ external = "quiet"
  /\ listening = {}
  /\ signal_runs = {}
  /\ signal_handler_installed = FALSE
  /\ listeners = 0
  /\ handlers = [r \in Runs |-> 0]
  /\ ran = [r \in Runs |-> FALSE]
  /\ running = [r \in Runs |-> 0]
  /\ fired = [r \in Runs |-> <<>>]
  /\ abandoned = [r \in Runs |-> {}]
  /\ ending = [r \in Runs |-> "none"]
  /\ outcome = [r \in Runs |-> "pending"]
  /\ late = {}
  /\ streams = {}
  /\ stray = {}

----------------------------------------------------------------------------
(* Cancellation.                                                           *)

(* A controller keeps the reason of its first abort. *)
Abort(rs, reason) ==
  aborted' = [r \in Runs |-> IF r \in rs /\ aborted[r] = "no" THEN reason ELSE aborted[r]]

LinkExternalAbort(r) ==
  /\ IF r \in Linked /\ external # "quiet"
     THEN Abort({r}, external) /\ UNCHANGED listening
     ELSE UNCHANGED aborted /\ listening' = IF r \in Linked THEN listening \cup {r} ELSE listening
  /\ UNCHANGED <<opted_out, external>>

EnsureSignalHandlers(r) ==
  IF r \in opted_out
  THEN UNCHANGED <<signal_runs, signal_handler_installed, listeners>>
  ELSE /\ signal_runs' = signal_runs \cup {r}
       /\ signal_handler_installed' = TRUE
       /\ listeners' = IF signal_handler_installed THEN listeners ELSE listeners + 1

ReleaseSignalHandlers(r) ==
  /\ signal_runs' = signal_runs \ {r}
  /\ IF signal_handler_installed /\ signal_runs' = {}
     THEN signal_handler_installed' = FALSE /\ listeners' = listeners - 1
     ELSE UNCHANGED <<signal_handler_installed, listeners>>

(* SIGINT or SIGTERM, while handlers are installed. *)
ReceiveSignal ==
  /\ listeners > 0
  /\ Abort(signal_runs, "signal")
  /\ UNCHANGED <<phase, opted_out, external, listening, signal_runs, signal_handler_installed, listeners,
                 cleanup, ending, outcome, late, streams, stray>>

(* The caller's signal fires, with an aborted_error or another reason; a   *)
(* listener is called once.                                                *)
FireExternal(reason) ==
  /\ external = "quiet"
  /\ external' = reason
  /\ Abort(listening, reason)
  /\ listening' = {}
  /\ UNCHANGED <<phase, opted_out, signal_runs, signal_handler_installed, listeners,
                 cleanup, ending, outcome, late, streams, stray>>

----------------------------------------------------------------------------
(* The end of the body.                                                    *)

Thrown == {"suspended_error", "aborted_error", "reason", "error"}

(* run_end_event: a typed reason takes the place of whatever was thrown    *)
(* under it, a plain one counts only when it is what was thrown.           *)
Status(reason, thrown) ==
  CASE reason \in {"signal", "typed"} -> "aborted"
    [] reason \in {"no", "plain"} /\ thrown = "suspended_error" -> "suspended"
    [] thrown = "aborted_error" \/ (reason = "plain" /\ thrown = "reason") -> "aborted"
    [] OTHER -> "failed"

(* run_all: the first handler is fired in the step the body ends in. *)
RunAll(r) ==
  /\ ran' = [ran EXCEPT ![r] = TRUE]
  /\ running' = [running EXCEPT ![r] = handlers[r]]
  /\ fired' = [fired EXCEPT ![r] = IF handlers[r] > 0 THEN <<handlers[r]>> ELSE <<>>]
  /\ UNCHANGED <<handlers, abandoned>>

EndWith(r, status) ==
  /\ phase' = [phase EXCEPT ![r] = "flush"]
  /\ ending' = [ending EXCEPT ![r] = status]
  /\ RunAll(r)

----------------------------------------------------------------------------
(* start_run, up to its first await.                                       *)

(* An event goes to the run's logger, from this run or from what is left   *)
(* of it after its end.                                                    *)
Record(r) == late' = IF phase[r] = "settled" THEN late \cup {r} ELSE late

Begun(r) ==
  /\ phase[r] = "unstarted"
  /\ LinkExternalAbort(r)
  /\ streams' = IF r \in Streamed THEN streams \cup {r} ELSE streams
  /\ EnsureSignalHandlers(r)
  /\ UNCHANGED <<outcome, stray>>

(* The first event is recorded and the flow dispatched, unless the         *)
(* caller's signal has fired or a suspend id stands in two places.         *)
StartBody(r) ==
  /\ Begun(r)
  /\ aborted'[r] = "no"
  /\ phase' = [phase EXCEPT ![r] = "body"]
  /\ Record(r)
  /\ UNCHANGED <<cleanup, ending>>

StartAborted(r) ==
  /\ Begun(r)
  /\ aborted'[r] # "no"
  /\ EndWith(r, "aborted")
  /\ Record(r)

StartRefused(r) ==
  /\ Begun(r)
  /\ aborted'[r] = "no"
  /\ EndWith(r, "failed")
  /\ Record(r)

(* The logger throws on the first event: the run has only a listener yet.  *)
StartThrows(r) ==
  /\ phase[r] = "unstarted" /\ r \in Throwing
  /\ LinkExternalAbort(r)
  /\ phase' = [phase EXCEPT ![r] = "settled"]
  /\ outcome' = [outcome EXCEPT ![r] = "logger"]
  /\ UNCHANGED <<signal_runs, signal_handler_installed, listeners, cleanup, ending, late, streams, stray>>

----------------------------------------------------------------------------
(* What the flow does, or work it left behind.                             *)

Works(r) == phase[r] = "body" \/ r \in stray

(* A step, a span or ctx.emit. *)
Emit(r) ==
  /\ Works(r)
  /\ Record(r)
  /\ UNCHANGED <<phase, cancelling, cleanup, ending, outcome, streams, stray>>

(* ctx.on_cleanup. *)
Register(r) ==
  /\ Works(r)
  /\ \/ ~ran[r] /\ handlers[r] < MaxHandlers[r]
        /\ handlers' = [handlers EXCEPT ![r] = @ + 1] /\ UNCHANGED late
     \/ ran[r] /\ Record(r) /\ UNCHANGED handlers
  /\ UNCHANGED <<phase, cancelling, ran, running, fired, abandoned, ending, outcome, streams, stray>>

(* A timeout may have abandoned some of the work. *)
LeaveBehind(r) == stray' = stray \/ (r \in Straying /\ stray' = stray \cup {r})

BodyReturns(r) ==
  /\ phase[r] = "body"
  /\ EndWith(r, "done")
  /\ LeaveBehind(r)
  /\ UNCHANGED <<cancelling, outcome, late, streams>>

BodyThrows(r, thrown) ==
  /\ phase[r] = "body"
  /\ thrown = "reason" => aborted[r] # "no"
  /\ EndWith(r, Status(aborted[r], thrown))
  /\ LeaveBehind(r)
  /\ UNCHANGED <<cancelling, outcome, late, streams>>

StrayEnds(r) ==
  /\ r \in stray
  /\ stray' = stray \ {r}
  /\ UNCHANGED <<phase, cancelling, cleanup, ending, outcome, late, streams>>

----------------------------------------------------------------------------
(* The flush: handlers run one after another, from the last registered to  *)
(* the first, each raced against a timer.                                  *)

Running(r) == phase[r] = "flush" /\ running[r] > 0

Fire(r, i) ==
  /\ running' = [running EXCEPT ![r] = i]
  /\ fired' = [fired EXCEPT ![r] = IF i > 0 THEN Append(@, i) ELSE @]

FireNext(r) == Fire(r, running[r] - 1)

HandlerReturns(r) ==
  /\ Running(r)
  /\ FireNext(r)
  /\ UNCHANGED <<phase, cancelling, handlers, ran, abandoned, ending, outcome, late, streams, stray>>

HandlerThrows(r) ==
  /\ Running(r)
  /\ Record(r)
  /\ FireNext(r)
  /\ UNCHANGED <<phase, cancelling, handlers, ran, abandoned, ending, outcome, streams, stray>>

HandlerTimesOut(r) ==
  /\ Running(r)
  /\ Record(r)
  /\ abandoned' = [abandoned EXCEPT ![r] = @ \cup {running[r]}]
  /\ FireNext(r)
  /\ UNCHANGED <<phase, cancelling, handlers, ran, ending, outcome, streams, stray>>

(* A handler that timed out comes to its end, and a throw is recorded still. *)
AbandonedEnds(r, i) ==
  /\ i \in abandoned[r]
  /\ abandoned' = [abandoned EXCEPT ![r] = @ \ {i}]
  /\ UNCHANGED late \/ Record(r)
  /\ UNCHANGED <<phase, cancelling, handlers, ran, running, fired, ending, outcome, streams, stray>>

Flushed(r) == phase[r] = "flush" /\ ~Running(r)

(* Mutant: the listener on the caller's signal stays. *)
SettleLinked(r) ==
  /\ Flushed(r)
  /\ Record(r)
  /\ ReleaseSignalHandlers(r)
  /\ streams' = streams \ {r}
  /\ phase' = [phase EXCEPT ![r] = "settled"]
  /\ outcome' = [outcome EXCEPT ![r] = ending[r]]
  /\ UNCHANGED <<opted_out, aborted, external, listening, cleanup, ending, stray>>

Settle(r) ==
  /\ Flushed(r)
  /\ Record(r)
  /\ listening' = listening \ {r}
  /\ ReleaseSignalHandlers(r)
  /\ streams' = streams \ {r}
  /\ phase' = [phase EXCEPT ![r] = "settled"]
  /\ outcome' = [outcome EXCEPT ![r] = ending[r]]
  /\ UNCHANGED <<opted_out, aborted, external, cleanup, ending, stray>>

(* The logger throws on run_end, and the rest of the teardown is skipped. *)
SettleThrows(r) ==
  /\ Flushed(r) /\ r \in Throwing
  /\ phase' = [phase EXCEPT ![r] = "settled"]
  /\ outcome' = [outcome EXCEPT ![r] = "logger"]
  /\ UNCHANGED <<cancelling, cleanup, ending, late, streams, stray>>

Start(r) == StartBody(r) \/ StartAborted(r) \/ StartRefused(r) \/ StartThrows(r)

Flow(r) ==
  \/ Emit(r) \/ Register(r) \/ StrayEnds(r) \/ BodyReturns(r)
  \/ \E thrown \in Thrown : BodyThrows(r, thrown)

Flush(r) ==
  \/ HandlerReturns(r) \/ HandlerThrows(r) \/ HandlerTimesOut(r)
  \/ \E i \in abandoned[r] : AbandonedEnds(r, i)
  \/ Settle(r) \/ SettleThrows(r)

Next ==
  \/ ReceiveSignal
  \/ \E reason \in {"typed", "plain"} : FireExternal(reason)
  \/ \E r \in Runs : Start(r) \/ Flow(r) \/ Flush(r)

Spec == Init /\ [][Next]_vars

(* The timer of a handler fires, and a flush whose handlers are done with  *)
(* settles.  Nothing makes a handler return.                               *)
FairSpec == Spec /\ \A r \in Runs : WF_vars(HandlerTimesOut(r)) /\ WF_vars(Settle(r) \/ SettleThrows(r))

----------------------------------------------------------------------------
(* Properties.                                                             *)

(* Every variable has values of its type.                                  *)
TypeOK ==
  /\ phase \in [Runs -> {"unstarted", "body", "flush", "settled"}]
  /\ aborted \in [Runs -> {"no", "signal", "typed", "plain"}]
  /\ external \in {"quiet", "typed", "plain"}
  /\ listening \subseteq Linked
  /\ opted_out \subseteq MayOptOut
  /\ signal_runs \subseteq Runs \ opted_out
  /\ signal_handler_installed \in BOOLEAN
  /\ listeners \in 0 .. 1
  /\ ran \in [Runs -> BOOLEAN]
  /\ DOMAIN handlers = Runs /\ DOMAIN running = Runs /\ DOMAIN fired = Runs /\ DOMAIN abandoned = Runs
  /\ \A r \in Runs :
       /\ handlers[r] \in 0 .. MaxHandlers[r] /\ running[r] \in 0 .. MaxHandlers[r]
       /\ fired[r] \in Seq(1 .. MaxHandlers[r]) /\ abandoned[r] \subseteq 1 .. MaxHandlers[r]
  /\ ending \in [Runs -> {"none", "done", "failed", "aborted", "suspended"}]
  /\ outcome \in [Runs -> {"pending", "done", "failed", "aborted", "suspended", "logger"}]
  /\ streams \subseteq Streamed
  /\ stray \subseteq Straying
  /\ late \subseteq Runs

Live(r) == phase[r] \in {"body", "flush"}

(* A cancellation reaches the runs it is meant for and no other, however   *)
(* starts and ends interleave: a signal finds a handler that knows every   *)
(* live run that did not opt out and spares the ones that did, and the     *)
(* caller's signal is listened to or has aborted the run.                  *)
CancellationReaches ==
  \A r \in Runs :
    /\ Live(r) /\ r \notin opted_out => r \in signal_runs /\ listeners = 1
    /\ Live(r) /\ r \in Linked => IF external = "quiet" THEN r \in listening ELSE aborted[r] # "no"
    /\ r \in opted_out /\ aborted[r] # "no" => r \in Linked /\ aborted[r] = external

(* The process keeps a handler exactly as long as a run needs it. *)
HandlersComeAndGo ==
  /\ signal_handler_installed <=> signal_runs # {}
  /\ listeners = IF signal_handler_installed THEN 1 ELSE 0

(* A run settles with all it holds released: no listener, no place among   *)
(* the runs a signal aborts, no open stream.  One whose logger threw at    *)
(* its end is the exception.                                               *)
SettledHoldsNothing ==
  \A r \in Runs :
    phase[r] = "settled" /\ outcome[r] # "logger" => r \notin listening \cup signal_runs \cup streams

(* run_all fires every handler that was registered before the body ended,  *)
(* each once and the last one first, before the run settles: whether they  *)
(* return, throw or time out, and whatever is registered by then.          *)
CleanupIsWhole ==
  \A r \in Runs :
    /\ \A i \in 1 .. Len(fired[r]) : fired[r][i] = handlers[r] + 1 - i
    /\ phase[r] = "settled" /\ ran[r] => Len(fired[r]) = handlers[r]

(* What a process may count on while runs start, are cancelled and end in  *)
(* it side by side.                                                        *)
RunnerServes == CancellationReaches /\ HandlersComeAndGo /\ SettledHoldsNothing /\ CleanupIsWhole

(* A handler that never returns does not keep a run from settling. *)
FlushEnds == \A r \in Runs : phase[r] = "flush" ~> phase[r] = "settled"

----------------------------------------------------------------------------
(* Proofs: what a run holds of the process and of its caller, from its     *)
(* start to its end, for any number of runs.                               *)

Reasons == {"no", "signal", "typed", "plain"}

(* The controllers, the caller's signal and the process's handlers. *)
SignalsInv ==
  /\ phase \in [Runs -> {"unstarted", "body", "flush", "settled"}]
  /\ aborted \in [Runs -> Reasons]
  /\ external \in {"quiet", "typed", "plain"}
  /\ listening \subseteq Linked
  /\ opted_out \subseteq MayOptOut
  /\ signal_runs \subseteq Runs \ opted_out
  /\ signal_handler_installed \in BOOLEAN
  /\ listeners = IF signal_handler_installed THEN 1 ELSE 0
  /\ signal_handler_installed <=> signal_runs # {}
  /\ streams \subseteq Streamed
  /\ stray \subseteq Straying
  /\ late \subseteq Runs

(* A run is told of what it is to be told, and lets go of what it held. *)
RunInv(r) ==
  /\ Live(r) /\ r \notin opted_out => r \in signal_runs
  /\ Live(r) /\ r \in Linked => IF external = "quiet" THEN r \in listening ELSE aborted[r] # "no"
  /\ r \in opted_out /\ aborted[r] # "no" => r \in Linked /\ aborted[r] = external
  /\ phase[r] = "settled" /\ outcome[r] # "logger" => r \notin listening \cup signal_runs \cup streams

Statuses == {"done", "failed", "aborted", "suspended"}

(* The handlers that were fired are the newest ones, down to the one that  *)
(* run_all waits for.                                                      *)
CleanupOf(r) ==
  /\ running[r] <= handlers[r] /\ handlers[r] <= MaxHandlers[r]
  /\ fired[r] \in Seq(1 .. MaxHandlers[r]) /\ abandoned[r] \subseteq 1 .. MaxHandlers[r]
  /\ \A i \in 1 .. Len(fired[r]) : fired[r][i] = handlers[r] + 1 - i
  /\ running[r] > 0 => Len(fired[r]) = handlers[r] + 1 - running[r]
  /\ running[r] = 0 /\ ran[r] => Len(fired[r]) = handlers[r]
  /\ ~ran[r] => fired[r] = <<>> /\ running[r] = 0
  /\ phase[r] = "settled" => running[r] = 0
  /\ phase[r] \in {"unstarted", "body"} => ~ran[r]
  /\ phase[r] = "flush" => ran[r] /\ ending[r] \in Statuses

CleanupInv ==
  /\ ran \in [Runs -> BOOLEAN]
  /\ handlers \in [Runs -> Nat] /\ running \in [Runs -> Nat]
  /\ DOMAIN fired = Runs /\ DOMAIN abandoned = Runs
  /\ ending \in [Runs -> Statuses \cup {"none"}]
  /\ outcome \in [Runs -> Statuses \cup {"pending", "logger"}]
  /\ \A r \in Runs : CleanupOf(r)

RunnerInv == SignalsInv /\ CleanupInv /\ \A r \in Runs : RunInv(r)

----------------------------------------------------------------------------
(* Nothing has started. *)

LEMMA InitHolds == Init => RunnerInv
<1> SUFFICES ASSUME Init PROVE RunnerInv
  OBVIOUS
<1> USE DEF Init
<1>1. SignalsInv
  BY RunnerAssumption DEF SignalsInv, Reasons
<1>2. ASSUME NEW r \in Runs
      PROVE  RunInv(r) /\ CleanupOf(r)
  <2>1. MaxHandlers[r] \in Nat
    BY RunnerAssumption
  <2> QED BY <2>1 DEF RunInv, CleanupOf, Live
<1>3. CleanupInv
  BY <1>2 DEF CleanupInv, Statuses
<1> QED BY <1>1, <1>2, <1>3 DEF RunnerInv

----------------------------------------------------------------------------
(* The signals. *)

LEMMA CleanupStays == CleanupInv /\ UNCHANGED <<phase, cleanup, ending, outcome>> => CleanupInv'
BY DEF CleanupInv, CleanupOf, cleanup

LEMMA ReceiveSignalStep == RunnerInv /\ ReceiveSignal => RunnerInv'
<1> SUFFICES ASSUME RunnerInv, ReceiveSignal PROVE RunnerInv'
  OBVIOUS
<1> USE DEF RunnerInv, ReceiveSignal, Abort
<1>1. SignalsInv'
  BY DEF SignalsInv, Reasons
<1>2. CleanupInv'
  <2>1. UNCHANGED <<phase, cleanup, ending, outcome>>
    OBVIOUS
  <2> HIDE DEF RunnerInv, ReceiveSignal, Abort
  <2> QED BY <2>1, CleanupStays DEF RunnerInv
<1>3. ASSUME NEW r \in Runs PROVE RunInv(r)'
  BY DEF RunInv, Live, SignalsInv, Reasons
<1> QED BY <1>1, <1>2, <1>3

LEMMA FireExternalStep == ASSUME RunnerInv, NEW reason \in {"typed", "plain"}, FireExternal(reason) PROVE RunnerInv'
<1> USE DEF RunnerInv, FireExternal, Abort
<1>1. SignalsInv'
  BY DEF SignalsInv, Reasons
<1>2. CleanupInv'
  <2>1. UNCHANGED <<phase, cleanup, ending, outcome>>
    OBVIOUS
  <2> HIDE DEF RunnerInv, FireExternal, Abort
  <2> QED BY <2>1, CleanupStays DEF RunnerInv
<1>3. ASSUME NEW r \in Runs PROVE RunInv(r)'
  BY DEF RunInv, Live, SignalsInv, Reasons
<1> QED BY <1>1, <1>2, <1>3

----------------------------------------------------------------------------
(* What a start, and the end of a body, do to a run and to the others. *)

(* The run's controller, listener and signal handlers, as a start has them.*)
LEMMA Links ==
  ASSUME RunnerInv, NEW r \in Runs, LinkExternalAbort(r)
  PROVE  /\ aborted' \in [Runs -> Reasons] /\ listening' \subseteq Linked
         /\ \A q \in Runs : q # r => aborted'[q] = aborted[q] /\ (q \in listening' <=> q \in listening)
         /\ r \in Linked => IF external = "quiet" THEN r \in listening' ELSE aborted'[r] # "no"
         /\ r \in opted_out /\ aborted'[r] # "no" => r \in Linked /\ aborted'[r] = external
         /\ external' = external /\ opted_out' = opted_out
BY DEF RunnerInv, SignalsInv, RunInv, LinkExternalAbort, Abort, Reasons

LEMMA Ensures ==
  ASSUME RunnerInv, NEW r \in Runs, EnsureSignalHandlers(r), opted_out' = opted_out
  PROVE  /\ signal_runs' \subseteq Runs \ opted_out' /\ signal_handler_installed' \in BOOLEAN
         /\ listeners' = IF signal_handler_installed' THEN 1 ELSE 0
         /\ signal_handler_installed' <=> signal_runs' # {}
         /\ \A q \in Runs : q # r => (q \in signal_runs' <=> q \in signal_runs)
         /\ r \notin opted_out => r \in signal_runs'
<1> USE DEF RunnerInv, SignalsInv, EnsureSignalHandlers
<1>1. CASE r \in opted_out
  BY <1>1
<1>2. CASE r \notin opted_out
  <2>1. /\ signal_runs' = signal_runs \cup {r} /\ signal_handler_installed' = TRUE
        /\ listeners' = IF signal_handler_installed THEN listeners ELSE listeners + 1
    BY <1>2
  <2>2. listeners' = 1
    <3>1. CASE signal_handler_installed
      BY <2>1, <3>1
    <3>2. CASE ~signal_handler_installed
      BY <2>1, <3>2
    <3> QED BY <3>1, <3>2
  <2> QED BY <1>2, <2>1, <2>2
<1> QED BY <1>1, <1>2

(* The body's end fires the newest handler. *)
LEMMA Ends ==
  ASSUME RunnerInv, NEW r \in Runs, NEW status \in Statuses, EndWith(r, status), UNCHANGED outcome,
         phase[r] \in {"unstarted", "body"}
  PROVE  CleanupInv'
<1> USE DEF RunnerInv, EndWith, RunAll
<1>1. /\ ran' \in [Runs -> BOOLEAN] /\ handlers' \in [Runs -> Nat] /\ running' \in [Runs -> Nat]
      /\ DOMAIN fired' = Runs /\ DOMAIN abandoned' = Runs
      /\ ending' \in [Runs -> Statuses \cup {"none"}]
      /\ outcome' \in [Runs -> Statuses \cup {"pending", "logger"}]
  BY DEF CleanupInv
<1>2. ASSUME NEW q \in Runs, q # r PROVE CleanupOf(q)'
  BY <1>2 DEF CleanupInv, CleanupOf, SignalsInv
<1>3. CleanupOf(r)'
  <2>1. /\ phase'[r] = "flush" /\ ran'[r] /\ ending'[r] = status /\ running'[r] = handlers[r] /\ handlers'[r] = handlers[r]
        /\ fired'[r] = (IF handlers[r] > 0 THEN <<handlers[r]>> ELSE <<>>) /\ abandoned'[r] = abandoned[r]
    BY DEF CleanupInv, SignalsInv
  <2>2. handlers[r] \in Nat /\ MaxHandlers[r] \in Nat /\ handlers[r] <= MaxHandlers[r] /\ abandoned[r] \subseteq 1 .. MaxHandlers[r]
    BY RunnerAssumption DEF CleanupInv, CleanupOf
  <2> HIDE DEF RunnerInv, EndWith, RunAll
  <2>3. CASE handlers[r] = 0
    BY <2>1, <2>2, <2>3 DEF CleanupOf
  <2>4. CASE handlers[r] > 0
    <3>1. handlers[r] \in 1 .. MaxHandlers[r]
      BY <2>2, <2>4
    <3>2. fired'[r] = <<handlers[r]>> /\ fired'[r] \in Seq(1 .. MaxHandlers[r]) /\ Len(fired'[r]) = 1 /\ fired'[r][1] = handlers[r]
      <4>1. fired'[r] = <<handlers[r]>>
        BY <2>1, <2>4
      <4> HIDE <2>1
      <4> QED BY <3>1, <4>1
    <3>3. \A i \in 1 .. Len(fired'[r]) : fired'[r][i] = handlers'[r] + 1 - i
      BY <2>1, <2>2, <3>2
    <3> QED BY <2>1, <2>2, <2>4, <3>2, <3>3 DEF CleanupOf
  <2> QED BY <2>2, <2>3, <2>4
<1> QED BY <1>1, <1>2, <1>3 DEF CleanupInv

LEMMA StartStep == ASSUME RunnerInv, NEW r \in Runs, Start(r) PROVE RunnerInv'
<1>1. CASE StartBody(r) \/ StartAborted(r) \/ StartRefused(r)
  <2>1. /\ phase[r] = "unstarted" /\ LinkExternalAbort(r) /\ EnsureSignalHandlers(r) /\ opted_out' = opted_out
        /\ streams' = (IF r \in Streamed THEN streams \cup {r} ELSE streams)
        /\ UNCHANGED <<outcome, stray>> /\ Record(r)
    BY <1>1 DEF StartBody, StartAborted, StartRefused, Begun, LinkExternalAbort
  <2>2. phase' = [phase EXCEPT ![r] = "body"] \/ phase' = [phase EXCEPT ![r] = "flush"]
    BY <1>1 DEF StartBody, StartAborted, StartRefused, EndWith
  <2>3. SignalsInv'
    BY <2>1, <2>2, Links, Ensures DEF RunnerInv, SignalsInv, Record
  <2>4. CleanupInv'
    <3>1. CASE StartBody(r)
      <4>1. phase' = [phase EXCEPT ![r] = "body"] /\ UNCHANGED <<handlers, ran, running, fired, abandoned, ending, outcome>>
        BY <2>1, <3>1 DEF StartBody, cleanup
      <4>2. phase[r] = "unstarted" /\ phase \in [Runs -> {"unstarted", "body", "flush", "settled"}]
        BY <2>1 DEF RunnerInv, SignalsInv
      <4>3. ASSUME NEW q \in Runs PROVE CleanupOf(q)'
        BY <4>1, <4>2 DEF RunnerInv, CleanupInv, CleanupOf
      <4> QED BY <4>1, <4>3 DEF RunnerInv, CleanupInv
    <3>2. CASE StartAborted(r) \/ StartRefused(r)
      BY <2>1, <3>2, Ends DEF StartAborted, StartRefused, Statuses
    <3> QED BY <1>1, <3>1, <3>2
  <2>5. ASSUME NEW q \in Runs PROVE RunInv(q)'
    <3>1. CASE q = r
      <4>1. phase'[r] # "settled"
        BY <2>2 DEF RunnerInv, SignalsInv
      <4> QED BY <2>1, <3>1, <4>1, Links, Ensures DEF RunInv, Live
    <3>2. CASE q # r
      <4>1. phase'[q] = phase[q] /\ (q \in streams' <=> q \in streams)
        BY <2>1, <2>2, <3>2 DEF RunnerInv, SignalsInv
      <4> QED BY <2>1, <3>2, <4>1, Links, Ensures DEF RunInv, Live, RunnerInv
    <3> QED BY <3>1, <3>2
  <2> QED BY <2>3, <2>4, <2>5 DEF RunnerInv
<1>2. CASE StartThrows(r)
  <2>1. /\ phase[r] = "unstarted" /\ LinkExternalAbort(r)
        /\ phase' = [phase EXCEPT ![r] = "settled"] /\ outcome' = [outcome EXCEPT ![r] = "logger"]
        /\ UNCHANGED <<signal_runs, signal_handler_installed, listeners, cleanup, ending, late, streams, stray>>
    BY <1>2 DEF StartThrows
  <2>2. SignalsInv'
    BY <2>1, Links DEF RunnerInv, SignalsInv
  <2>3. CleanupInv'
    BY <2>1 DEF RunnerInv, CleanupInv, CleanupOf, SignalsInv, cleanup
  <2>4. ASSUME NEW q \in Runs PROVE RunInv(q)'
    <3>1. CASE q = r
      BY <2>1, <3>1, Links DEF RunInv, Live, RunnerInv, SignalsInv, CleanupInv
    <3>2. CASE q # r
      BY <2>1, <3>2, Links DEF RunInv, Live, RunnerInv, SignalsInv, CleanupInv
    <3> QED BY <3>1, <3>2
  <2> QED BY <2>2, <2>3, <2>4 DEF RunnerInv
<1> QED BY <1>1, <1>2 DEF Start

----------------------------------------------------------------------------
(* The flow, and what it left behind. *)

LEMMA FlowStep == ASSUME RunnerInv, NEW r \in Runs, Flow(r) PROVE RunnerInv'
<1>1. CASE Emit(r)
  BY <1>1 DEF Emit, Record, RunnerInv, SignalsInv, CleanupInv, CleanupOf, RunInv, Live, cancelling, cleanup
<1>2. CASE StrayEnds(r)
  BY <1>2 DEF StrayEnds, RunnerInv, SignalsInv, CleanupInv, CleanupOf, RunInv, Live, cancelling, cleanup
<1>3. CASE Register(r)
  <2>1. SignalsInv' /\ \A q \in Runs : RunInv(q)'
    BY <1>3 DEF Register, Record, RunnerInv, SignalsInv, RunInv, Live, cancelling
  <2>2. CleanupInv'
    <3>1. CASE UNCHANGED handlers
      BY <1>3, <3>1 DEF Register, RunnerInv, CleanupInv, CleanupOf
    <3>2. CASE ~ran[r] /\ handlers[r] < MaxHandlers[r] /\ handlers' = [handlers EXCEPT ![r] = @ + 1]
      <4>1. UNCHANGED <<phase, ran, running, fired, abandoned, ending, outcome>>
        BY <1>3 DEF Register
      <4>2. ASSUME NEW q \in Runs, q # r PROVE CleanupOf(q)'
        BY <3>2, <4>1, <4>2 DEF RunnerInv, CleanupInv, CleanupOf
      <4>3. CleanupOf(r)'
        <5>1. CleanupOf(r) /\ handlers[r] \in Nat /\ MaxHandlers[r] \in Nat /\ handlers'[r] = handlers[r] + 1
          BY <3>2, RunnerAssumption DEF RunnerInv, CleanupInv
        <5> QED BY <3>2, <4>1, <5>1 DEF CleanupOf
      <4> QED BY <3>2, <4>1, <4>2, <4>3 DEF RunnerInv, CleanupInv
    <3> QED BY <1>3, <3>1, <3>2 DEF Register
  <2> QED BY <2>1, <2>2 DEF RunnerInv
<1>4. ASSUME phase[r] = "body", NEW status \in Statuses, EndWith(r, status), LeaveBehind(r),
             UNCHANGED <<cancelling, outcome, late, streams>>
      PROVE  RunnerInv'
  <2>1. CleanupInv'
    BY <1>4, Ends
  <2>2. SignalsInv'
    BY <1>4 DEF EndWith, LeaveBehind, RunnerInv, SignalsInv, cancelling
  <2>3. ASSUME NEW q \in Runs PROVE RunInv(q)'
    BY <1>4 DEF EndWith, RunnerInv, SignalsInv, RunInv, Live, cancelling
  <2> QED BY <2>1, <2>2, <2>3 DEF RunnerInv
<1>5. CASE BodyReturns(r)
  BY <1>4, <1>5 DEF BodyReturns, Statuses
<1>6. ASSUME NEW thrown \in Thrown, BodyThrows(r, thrown)
      PROVE  RunnerInv'
  <2>1. Status(aborted[r], thrown) \in Statuses
    BY DEF Status, Statuses
  <2> QED BY <1>4, <1>6, <2>1 DEF BodyThrows
<1> QED BY <1>1, <1>2, <1>3, <1>5, <1>6 DEF Flow

----------------------------------------------------------------------------
(* The flush. *)

(* The next older handler is fired. *)
LEMMA Fires ==
  ASSUME RunnerInv, NEW r \in Runs, Running(r), FireNext(r), UNCHANGED <<phase, handlers, ran, ending, outcome>>,
         abandoned' = abandoned \/ abandoned' = [abandoned EXCEPT ![r] = @ \cup {running[r]}]
  PROVE  CleanupInv'
<1>1. /\ CleanupOf(r) /\ phase[r] = "flush" /\ running[r] > 0
      /\ handlers[r] \in Nat /\ running[r] \in Nat /\ MaxHandlers[r] \in Nat
  BY RunnerAssumption DEF RunnerInv, CleanupInv, Running
<1>2. PICK i \in Nat : i = running[r] - 1
  BY <1>1
<1>3. running[r] <= handlers[r] /\ handlers[r] <= MaxHandlers[r]
  BY <1>1 DEF CleanupOf
<1>4. /\ running' = [running EXCEPT ![r] = i]
      /\ fired' = [fired EXCEPT ![r] = IF i > 0 THEN Append(@, i) ELSE @]
  BY <1>2 DEF FireNext, Fire
<1>5. /\ running'[r] = i
      /\ fired'[r] = (IF i > 0 THEN Append(fired[r], i) ELSE fired[r])
      /\ abandoned'[r] \subseteq abandoned[r] \cup {running[r]}
      /\ \A q \in Runs : q # r => running'[q] = running[q] /\ fired'[q] = fired[q] /\ abandoned'[q] = abandoned[q]
      /\ running' \in [Runs -> Nat] /\ DOMAIN fired' = Runs /\ DOMAIN abandoned' = Runs
  BY <1>4 DEF RunnerInv, CleanupInv
<1>6. CleanupOf(r)'
  <2>1. running[r] \in 1 .. MaxHandlers[r]
    BY <1>1, <1>3
  <2>2. abandoned'[r] \subseteq 1 .. MaxHandlers[r]
    BY <1>1, <1>5, <2>1 DEF CleanupOf
  <2>3. /\ phase'[r] = "flush" /\ handlers'[r] = handlers[r] /\ ran'[r] = ran[r] /\ ending'[r] = ending[r]
        /\ ran[r] /\ ending[r] \in Statuses /\ i <= handlers[r]
        /\ fired[r] \in Seq(1 .. MaxHandlers[r]) /\ Len(fired[r]) = handlers[r] - i
        /\ \A j \in 1 .. Len(fired[r]) : fired[r][j] = handlers[r] + 1 - j
    BY <1>1, <1>2, <1>3 DEF CleanupOf
  <2>4. CASE i = 0
    BY <1>1, <1>3, <1>5, <2>2, <2>3, <2>4 DEF CleanupOf
  <2>5. CASE i > 0
    <3>1. i \in 1 .. MaxHandlers[r]
      BY <1>1, <1>2, <1>3, <2>5
    <3>2. /\ fired'[r] \in Seq(1 .. MaxHandlers[r]) /\ Len(fired'[r]) = Len(fired[r]) + 1
          /\ fired'[r][Len(fired[r]) + 1] = i
          /\ \A j \in 1 .. Len(fired[r]) : fired'[r][j] = fired[r][j]
      BY <1>5, <2>3, <2>5, <3>1
    <3>3. \A j \in 1 .. Len(fired'[r]) : fired'[r][j] = handlers[r] + 1 - j
      <4> SUFFICES ASSUME NEW j \in 1 .. Len(fired'[r]) PROVE fired'[r][j] = handlers[r] + 1 - j
        OBVIOUS
      <4>1. j \in 1 .. Len(fired[r]) \/ j = Len(fired[r]) + 1
        BY <1>1, <2>3, <3>2
      <4>2. CASE j \in 1 .. Len(fired[r])
        BY <2>3, <3>2, <4>2
      <4>3. CASE j = Len(fired[r]) + 1
        BY <1>1, <2>3, <3>2, <4>3
      <4> QED BY <4>1, <4>2, <4>3
    <3>4. Len(fired'[r]) = handlers[r] + 1 - i
      BY <1>1, <2>3, <3>2
    <3>5. running'[r] = i /\ ~(i = 0) /\ handlers[r] <= MaxHandlers[r]
      BY <1>3, <1>5, <2>5
    <3>6. /\ running'[r] <= handlers'[r] /\ handlers'[r] <= MaxHandlers[r]
          /\ fired'[r] \in Seq(1 .. MaxHandlers[r])
          /\ \A j \in 1 .. Len(fired'[r]) : fired'[r][j] = handlers'[r] + 1 - j
          /\ Len(fired'[r]) = handlers'[r] + 1 - running'[r]
      BY <2>3, <3>2, <3>3, <3>4, <3>5
    <3>7. ~(phase'[r] = "settled") /\ ~(phase'[r] \in {"unstarted", "body"}) /\ ran'[r] /\ ending'[r] \in Statuses
      BY <2>3
    <3> QED BY <2>2, <3>5, <3>6, <3>7 DEF CleanupOf
  <2> QED BY <2>4, <2>5
<1>7. ASSUME NEW q \in Runs, q # r PROVE CleanupOf(q)'
  <2>1. CleanupOf(q) /\ running'[q] = running[q] /\ fired'[q] = fired[q] /\ abandoned'[q] = abandoned[q]
    BY <1>5, <1>7 DEF RunnerInv, CleanupInv
  <2>2. UNCHANGED <<phase, handlers, ran, ending>>
    OBVIOUS
  <2> QED BY <2>1, <2>2 DEF CleanupOf
<1> QED BY <1>5, <1>6, <1>7 DEF RunnerInv, CleanupInv

LEMMA Released ==
  ASSUME RunnerInv, NEW r \in Runs, ReleaseSignalHandlers(r), opted_out' = opted_out
  PROVE  /\ signal_runs' = signal_runs \ {r} /\ signal_runs' \subseteq Runs \ opted_out' /\ signal_handler_installed' \in BOOLEAN
         /\ listeners' = IF signal_handler_installed' THEN 1 ELSE 0
         /\ signal_handler_installed' <=> signal_runs' # {}
<1>1. /\ signal_runs' = signal_runs \ {r} /\ signal_runs \subseteq Runs \ opted_out
      /\ signal_handler_installed \in BOOLEAN /\ (signal_handler_installed <=> signal_runs # {})
      /\ listeners = IF signal_handler_installed THEN 1 ELSE 0
  BY DEF RunnerInv, SignalsInv, ReleaseSignalHandlers
<1>2. CASE signal_handler_installed /\ signal_runs' = {}
  <2>1. signal_handler_installed' = FALSE /\ listeners' = listeners - 1 /\ listeners = 1
    BY <1>1, <1>2 DEF ReleaseSignalHandlers
  <2>2. listeners' = 0
    BY <2>1
  <2> QED BY <1>1, <1>2, <2>1, <2>2
<1>3. CASE ~(signal_handler_installed /\ signal_runs' = {})
  <2>1. UNCHANGED <<signal_handler_installed, listeners>>
    BY <1>3 DEF ReleaseSignalHandlers
  <2> QED BY <1>1, <1>3, <2>1
<1> QED BY <1>2, <1>3

LEMMA FlushStep == ASSUME RunnerInv, NEW r \in Runs, Flush(r) PROVE RunnerInv'
<1>1. CASE HandlerReturns(r) \/ HandlerThrows(r) \/ HandlerTimesOut(r)
  <2>1. CleanupInv'
    BY <1>1, Fires DEF HandlerReturns, HandlerThrows, HandlerTimesOut
  <2>2. SignalsInv' /\ \A q \in Runs : RunInv(q)'
    BY <1>1 DEF HandlerReturns, HandlerThrows, HandlerTimesOut, Record, RunnerInv, SignalsInv, RunInv, Live, cancelling
  <2> QED BY <2>1, <2>2 DEF RunnerInv
<1>2. ASSUME NEW i \in abandoned[r], AbandonedEnds(r, i)
      PROVE  RunnerInv'
  BY <1>2 DEF AbandonedEnds, Record, RunnerInv, SignalsInv, CleanupInv, CleanupOf, RunInv, Live, cancelling
<1>3. CASE Settle(r)
  <2>1. /\ phase[r] = "flush" /\ running[r] = 0 /\ ending[r] \in Statuses
        /\ phase' = [phase EXCEPT ![r] = "settled"] /\ outcome' = [outcome EXCEPT ![r] = ending[r]]
        /\ listening' = listening \ {r} /\ streams' = streams \ {r} /\ ReleaseSignalHandlers(r) /\ Record(r)
        /\ UNCHANGED <<opted_out, aborted, external, cleanup, ending, stray>>
    BY <1>3 DEF Settle, Flushed, Running, RunnerInv, CleanupInv, CleanupOf
  <2>2. SignalsInv'
    BY <2>1, Released DEF RunnerInv, SignalsInv, Record
  <2>3. CleanupInv'
    BY <2>1 DEF RunnerInv, CleanupInv, CleanupOf, SignalsInv, cleanup
  <2>4. ASSUME NEW q \in Runs PROVE RunInv(q)'
    <3>1. CASE q = r
      BY <2>1, <3>1, Released DEF RunInv, Live, RunnerInv, SignalsInv
    <3>2. CASE q # r
      BY <2>1, <3>2, Released DEF RunInv, Live, RunnerInv, SignalsInv, CleanupInv
    <3> QED BY <3>1, <3>2
  <2> QED BY <2>2, <2>3, <2>4 DEF RunnerInv
<1>4. CASE SettleThrows(r)
  <2>1. /\ phase[r] = "flush" /\ running[r] = 0
        /\ phase' = [phase EXCEPT ![r] = "settled"] /\ outcome' = [outcome EXCEPT ![r] = "logger"]
        /\ UNCHANGED <<cancelling, cleanup, ending, late, streams, stray>>
    BY <1>4 DEF SettleThrows, Flushed, Running, RunnerInv, CleanupInv, CleanupOf
  <2>2. SignalsInv'
    BY <2>1 DEF RunnerInv, SignalsInv, cancelling
  <2>3. CleanupInv'
    BY <2>1 DEF RunnerInv, CleanupInv, CleanupOf, SignalsInv, cleanup
  <2>4. ASSUME NEW q \in Runs PROVE RunInv(q)'
    BY <2>1 DEF RunInv, Live, RunnerInv, SignalsInv, CleanupInv, cancelling
  <2> QED BY <2>2, <2>3, <2>4 DEF RunnerInv
<1> QED BY <1>1, <1>2, <1>3, <1>4 DEF Flush

LEMMA StandStill == RunnerInv /\ UNCHANGED vars => RunnerInv'
BY DEF RunnerInv, SignalsInv, CleanupInv, CleanupOf, RunInv, Live, vars, cancelling, cleanup

LEMMA StepHolds == RunnerInv /\ [Next]_vars => RunnerInv'
BY ReceiveSignalStep, FireExternalStep, StartStep, FlowStep, FlushStep, StandStill DEF Next

LEMMA RunnerInvHolds == Spec => []RunnerInv
BY InitHolds, StepHolds, PTL DEF Spec

----------------------------------------------------------------------------
(* Theorems. *)

(* The variables keep their types. *)
THEOREM TypeCorrect == Spec => []TypeOK
<1>1. RunnerInv => TypeOK
  <2> SUFFICES ASSUME RunnerInv PROVE TypeOK
    OBVIOUS
  <2>1. ASSUME NEW r \in Runs
        PROVE  /\ handlers[r] \in 0 .. MaxHandlers[r] /\ running[r] \in 0 .. MaxHandlers[r]
               /\ fired[r] \in Seq(1 .. MaxHandlers[r]) /\ abandoned[r] \subseteq 1 .. MaxHandlers[r]
    BY RunnerAssumption DEF RunnerInv, CleanupInv, CleanupOf
  <2> QED BY <2>1 DEF TypeOK, RunnerInv, SignalsInv, CleanupInv, Statuses, Reasons
<1> QED BY <1>1, RunnerInvHolds, PTL

(* A signal or the caller's cancellation reaches the runs it is meant for  *)
(* and no other, the process has a handler as long as a run needs one, a   *)
(* settled run holds nothing, and every cleanup handler was fired once, in *)
(* the reverse order; for any number of runs and handlers.                 *)
THEOREM RunsAreServed == Spec => []RunnerServes
<1>1. RunnerInv => CancellationReaches
  <2> SUFFICES ASSUME RunnerInv, NEW r \in Runs
               PROVE  /\ Live(r) /\ r \notin opted_out => r \in signal_runs /\ listeners = 1
                      /\ Live(r) /\ r \in Linked => IF external = "quiet" THEN r \in listening ELSE aborted[r] # "no"
                      /\ r \in opted_out /\ aborted[r] # "no" => r \in Linked /\ aborted[r] = external
    BY DEF CancellationReaches
  <2> QED BY DEF RunnerInv, SignalsInv, RunInv
<1>2. RunnerInv => HandlersComeAndGo
  BY DEF RunnerInv, SignalsInv, HandlersComeAndGo
<1>3. RunnerInv => SettledHoldsNothing
  BY DEF RunnerInv, RunInv, SettledHoldsNothing
<1>4. RunnerInv => CleanupIsWhole
  BY DEF RunnerInv, CleanupInv, CleanupOf, CleanupIsWhole
<1> QED BY <1>1, <1>2, <1>3, <1>4, RunnerInvHolds, PTL DEF RunnerServes

----------------------------------------------------------------------------
(* The composers that a run runs (Flow): for every tree of them, of any    *)
(* depth and any limits, and for every order their children end in.        *)
CONSTANTS FlowNodes, FlowRoots, FlowKind, FlowKids, FlowLimit, FlowItems, FlowSettling, FlowGates, FlowStubborn
VARIABLES fl_frames, fl_controller

TheFlow == INSTANCE Flow WITH
  frames <- fl_frames, controller <- fl_controller, Nodes <- FlowNodes, Roots <- FlowRoots,
  Kind <- FlowKind, Kids <- FlowKids, Limit <- FlowLimit, Items <- FlowItems,
  Settling <- FlowSettling, Gates <- FlowGates, Stubborn <- FlowStubborn

(* How many children the composers take. *)
AritiesAssumption ==
  \A n \in FlowNodes : /\ FlowKind[n] \in {"branch", "fallback"} => Len(FlowKids[n]) = 2
                       /\ FlowKind[n] = "loop" => Len(FlowKids[n]) \in {1, 2}

(* What the flows are. *)
ASSUME FlowHolds == TheFlow!FlowAssumption /\ AritiesAssumption

(* Every map keeps its items' errors or runs one item at a time. *)
Careful == \A n \in FlowNodes : FlowKind[n] = "map" => n \in FlowSettling \/ FlowLimit[n] = 1

(* What a frame is. *)
FlFrame ==
  [node : FlowNodes, parent : Nat, slot : Nat, reason : {"none"} \union TheFlow!Reasons, at : Nat,
   mode : {"new", "on", "backoff", "timed", "aborted"}, seen : SUBSET Nat,
   failed : {"none"} \union TheFlow!Errors, out : TheFlow!Outs]

(* What the variables hold: a tree, whose parents come before their kids. *)
FlTypes ==
  /\ fl_frames \in Seq(FlFrame) /\ fl_frames # <<>>
  /\ fl_frames[1].parent = 0
  /\ \A g \in DOMAIN fl_frames : g # 1 => fl_frames[g].parent \in 1 .. g - 1
  /\ fl_controller \in {"none", "typed", "plain"}

(* Of one frame: what it was aborted with, and what a map keeps count of.  *)
FrameOK(me) ==
  /\ me.mode = "new" => me.at = 0 /\ me.failed = "none"
  /\ me.mode = "aborted" => me.reason # "none"
  /\ fl_controller # "none" => me.reason # "none"
  /\ me.reason = "typed" \/ me.out = "aborted" \/ me.failed = "aborted" => fl_controller # "none"
  /\ FlowKind[me.node] = "map" =>
       /\ me.seen \subseteq 1 .. me.at
       /\ me.node \in FlowSettling /\ me.failed # "none" => me.failed = "suspended" \/ me.reason # "none"
       /\ FlowLimit[me.node] = 1 => /\ 1 .. me.at - 1 \subseteq me.seen
                                    /\ me.failed # "none" => me.seen = 1 .. me.at

(* Of a child that is done with, and no suspension. *)
Passed(kid) == kid.out # "none" /\ kid.out # "suspended"

(* Of a frame and one that it dispatched. *)
KidOK(me, kid) ==
  /\ me.mode # "new" /\ FlowKind[me.node] # "step"
  /\ me.reason # "none" => kid.reason # "none"
  /\ FlowKind[me.node] = "parallel" => kid.slot \in DOMAIN FlowKids[me.node]
  /\ FlowKind[me.node] # "parallel" => kid.slot \in 1 .. me.at
  /\ FlowKind[me.node] \notin {"parallel", "map"} /\ kid.slot < me.at => Passed(kid)
  /\ FlowKind[me.node] = "retry" /\ me.mode = "backoff" => Passed(kid)
  /\ FlowKind[me.node] = "map" /\ kid.slot \in me.seen =>
       /\ kid.out # "none"
       /\ Careful /\ kid.out = "suspended" /\ kid.reason = "none" => me.failed = "suspended"
  /\ FlowKind[me.node] = "timeout" /\ me.mode \in {"timed", "aborted"} => kid.reason # "none"
  /\ me.out # "none" =>
       /\ kid.out = "none" => FlowKind[me.node] = "timeout" /\ kid.reason # "none"
       /\ Careful /\ kid.out = "suspended" /\ kid.reason = "none" => me.out = "suspended"

(* No two kids of a frame are of the same slot. *)
OneASlot ==
  \A g, h \in DOMAIN fl_frames :
    fl_frames[g].parent = fl_frames[h].parent /\ fl_frames[g].parent # 0 /\ fl_frames[g].slot = fl_frames[h].slot
      => g = h

(* The invariant. *)
FlowInv ==
  /\ FlTypes
  /\ \A g \in DOMAIN fl_frames : FrameOK(fl_frames[g])
  /\ \A g \in DOMAIN fl_frames : g # 1 => KidOK(fl_frames[fl_frames[g].parent], fl_frames[g])
  /\ OneASlot

----------------------------------------------------------------------------
(* A set of numbers has a least one. *)
LEMMA NatMin ==
  ASSUME NEW S \in SUBSET Nat, S # {}
  PROVE  \E m \in S : \A k \in S : m <= k
<1> DEFINE R == {ss \in Nat \X Nat : ss[1] < ss[2]}
<1>1. IsWellFoundedOn(R, Nat)
  BY NatLessThanWellFounded DEF OpToRel
<1> HIDE DEF R
<1>2. PICK m \in S : \A k \in S : ~(<<k, m>> \in R)
  BY <1>1, WFMin
<1>3. \A k \in S : ~(k < m)
  BY <1>2 DEF R
<1>4. QED
  BY <1>3

(* What a frame holds. *)
LEMMA FrameFields ==
  ASSUME FlTypes, NEW g \in DOMAIN fl_frames
  PROVE  /\ fl_frames[g] \in FlFrame
         /\ fl_frames[g].node \in FlowNodes /\ fl_frames[g].slot \in Nat /\ fl_frames[g].at \in Nat
         /\ g # 1 => fl_frames[g].parent \in DOMAIN fl_frames /\ fl_frames[g].parent < g /\ fl_frames[g].parent # 0
         /\ g = 1 <=> fl_frames[g].parent = 0
<1>1. fl_frames[g] \in FlFrame /\ g \in Nat \ {0} /\ DOMAIN fl_frames = 1 .. Len(fl_frames)
        /\ Len(fl_frames) \in Nat
  BY DEF FlTypes
<1>2. fl_frames[g].node \in FlowNodes /\ fl_frames[g].slot \in Nat /\ fl_frames[g].at \in Nat
  BY <1>1 DEF FlFrame
<1>3. g # 1 => fl_frames[g].parent \in 1 .. g - 1
  BY DEF FlTypes
<1>4. fl_frames[1].parent = 0
  BY DEF FlTypes
<1>5. QED
  BY <1>1, <1>2, <1>3, <1>4

(* A kid is of its parent as long as what its parent looks at is the same. *)
LEMMA KidSame ==
  ASSUME NEW me, NEW kid, NEW kid2, KidOK(me, kid), kid2.slot = kid.slot, kid2.reason = kid.reason,
           kid2.out = kid.out
  PROVE  KidOK(me, kid2)
  BY DEF KidOK, Passed

(* The result in a slot is of the kid that was dispatched in it. *)
LEMMA ResultOf ==
  ASSUME FlowInv, NEW f \in DOMAIN fl_frames, NEW s, TheFlow!Result(f, s) # "none"
  PROVE  \E g \in DOMAIN fl_frames :
           g # 1 /\ fl_frames[g].parent = f /\ fl_frames[g].slot = s /\ fl_frames[g].out = TheFlow!Result(f, s)
<1>1. {g \in DOMAIN fl_frames : fl_frames[g].parent = f /\ fl_frames[g].slot = s} # {}
  BY DEF TheFlow!Result
<1>2. PICK g \in DOMAIN fl_frames : fl_frames[g].parent = f /\ fl_frames[g].slot = s
             /\ TheFlow!Result(f, s) = fl_frames[g].out
  BY <1>1 DEF TheFlow!Result
<1>3. f \in Nat \ {0}
  BY DEF FlowInv, FlTypes
<1>4. QED
  BY <1>2, <1>3 DEF FlowInv, FlTypes

(* And no other is in that slot. *)
LEMMA KidResult ==
  ASSUME FlowInv, NEW g \in DOMAIN fl_frames, g # 1
  PROVE  TheFlow!Result(fl_frames[g].parent, fl_frames[g].slot) = fl_frames[g].out
<1>1. PICK f : f = fl_frames[g].parent
  OBVIOUS
<1>2. PICK s : s = fl_frames[g].slot
  OBVIOUS
<1>3. f # 0
  BY <1>1, FrameFields DEF FlowInv
<1>4. {h \in DOMAIN fl_frames : fl_frames[h].parent = f /\ fl_frames[h].slot = s} = {g}
  BY <1>1, <1>2, <1>3 DEF FlowInv, OneASlot
<1>5. TheFlow!Result(f, s) = fl_frames[g].out
  BY <1>4 DEF TheFlow!Result
<1>6. QED
  BY <1>1, <1>2, <1>5

----------------------------------------------------------------------------
(* The step of a frame f that goes on as me, and dispatches the frames new. *)
GoesOn(f, me, k, new) ==
  /\ fl_frames' \in Seq(FlFrame) /\ Len(fl_frames') = Len(fl_frames) + k
  /\ fl_frames'[f] = me /\ \A g \in DOMAIN fl_frames \ {f} : fl_frames'[g] = fl_frames[g]
  /\ \A i \in 1 .. k : fl_frames'[Len(fl_frames) + i] = new[i]
  /\ fl_controller' = fl_controller
  /\ me.node = fl_frames[f].node /\ me.parent = fl_frames[f].parent /\ me.slot = fl_frames[f].slot

(* What it dispatches is its own, in slots that were free. *)
Dispatches(f, me, k, new) ==
  /\ \A i \in 1 .. k : new[i].parent = f /\ FrameOK(new[i]) /\ KidOK(me, new[i])
  /\ \A i \in 1 .. k : \A j \in 1 .. k : new[i].slot = new[j].slot => i = j
  /\ \A i \in 1 .. k : \A g \in DOMAIN fl_frames : g # 1 /\ fl_frames[g].parent = f
       => fl_frames[g].slot # new[i].slot

(* It is a good one, to the frames above it and below it. *)
FitsIn(f, me) ==
  /\ FrameOK(me)
  /\ f # 1 => KidOK(fl_frames[fl_frames[f].parent], me)
  /\ \A g \in DOMAIN fl_frames : g # 1 /\ fl_frames[g].parent = f => KidOK(me, fl_frames[g])

(* Such a step keeps the tree as it has to be. *)
LEMMA StepKeeps ==
  ASSUME FlowInv, NEW f \in DOMAIN fl_frames, NEW me, NEW k \in Nat, NEW new,
         GoesOn(f, me, k, new), FitsIn(f, me), Dispatches(f, me, k, new)
  PROVE  FlowInv'
<1> USE DEF GoesOn, FitsIn, Dispatches
<1>n. PICK n \in Nat \ {0} : n = Len(fl_frames)
  <2>1. fl_frames \in Seq(FlFrame) /\ fl_frames # <<>>
    BY DEF FlowInv, FlTypes
  <2>2. QED
    BY <2>1
<1>1. /\ DOMAIN fl_frames = 1 .. n /\ DOMAIN fl_frames' = 1 .. n + k /\ fl_frames \in Seq(FlFrame) /\ f \in 1 .. n
      /\ \A g \in 1 .. n + k : g \in 1 .. n \/ \E i \in 1 .. k : g = n + i
  <2>1. fl_frames \in Seq(FlFrame)
    BY DEF FlowInv, FlTypes
  <2>2. \A g \in 1 .. n + k : g \in 1 .. n \/ \E i \in 1 .. k : g = n + i
    <3>1. \A g \in 1 .. n + k : g \in 1 .. n \/ (g - n \in 1 .. k /\ g = n + (g - n))
      OBVIOUS
    <3>2. QED
      BY <3>1
  <2>3. DOMAIN fl_frames = 1 .. n /\ DOMAIN fl_frames' = 1 .. n + k
    BY <1>n, <2>1
  <2>4. QED
    BY <2>1, <2>2, <2>3
<1>m. \A i \in 1 .. k : /\ fl_frames'[n + i].parent = f /\ fl_frames'[n + i].slot = new[i].slot
                       /\ FrameOK(fl_frames'[n + i]) /\ KidOK(me, fl_frames'[n + i])
  <2>1. ASSUME NEW i \in 1 .. k
        PROVE  /\ fl_frames'[n + i].parent = f /\ fl_frames'[n + i].slot = new[i].slot
               /\ FrameOK(fl_frames'[n + i]) /\ KidOK(me, fl_frames'[n + i])
    <3>1. fl_frames'[n + i] = new[i]
      BY <1>n
    <3>2. new[i].parent = f /\ FrameOK(new[i]) /\ KidOK(me, new[i])
      OBVIOUS
    <3>3. QED
      BY <3>1, <3>2
  <2>2. QED
    BY <2>1
<1>2. \A g \in 1 .. n : /\ fl_frames'[g].node = fl_frames[g].node /\ fl_frames'[g].parent = fl_frames[g].parent
                        /\ fl_frames'[g].slot = fl_frames[g].slot
  BY <1>1
<1>3. \A g \in 1 .. n : g # 1 => fl_frames[g].parent \in 1 .. g - 1
  BY <1>1 DEF FlowInv, FlTypes
<1>4. \A i \in 1 .. k : fl_frames'[n + i].parent = f /\ n + i # 1 /\ f \in 1 .. (n + i) - 1
  <2>1. \A i \in 1 .. k : n + i # 1 /\ f \in 1 .. (n + i) - 1
    BY <1>1
  <2>2. QED
    BY <1>m, <2>1
<1>5. FlTypes'
  <2>1. fl_frames'[1].parent = 0
    BY <1>1, <1>2 DEF FlowInv, FlTypes
  <2>2. ASSUME NEW g \in 1 .. n + k, g # 1 PROVE fl_frames'[g].parent \in 1 .. g - 1
    <3>1. CASE g \in 1 .. n
      BY <1>2, <1>3, <2>2, <3>1
    <3>2. CASE \E i \in 1 .. k : g = n + i
      <4>1. PICK i \in 1 .. k : g = n + i
        BY <3>2
      <4>2. fl_frames'[n + i].parent \in 1 .. (n + i) - 1
        BY <1>4
      <4>3. QED
        BY <4>1, <4>2
    <3>3. QED
      BY <1>1, <3>1, <3>2
  <2>3. fl_frames' # <<>>
    BY <1>1
  <2>4. fl_controller' \in {"none", "typed", "plain"}
    BY DEF FlowInv, FlTypes
  <2>5. QED
    BY <1>1, <2>1, <2>2, <2>3, <2>4 DEF FlTypes
<1>6. ASSUME NEW g \in 1 .. n + k PROVE FrameOK(fl_frames[g])'
  <2>1. FrameOK(fl_frames'[g])
    <3>1. CASE g \in 1 .. n
      BY <1>1, <3>1 DEF FlowInv
    <3>2. CASE \E i \in 1 .. k : g = n + i
      BY <1>m, <3>2
    <3>3. QED
      BY <1>1, <3>1, <3>2
  <2>2. QED
    BY <2>1 DEF FrameOK
<1>7. ASSUME NEW g \in 1 .. n + k, g # 1 PROVE KidOK(fl_frames[fl_frames[g].parent], fl_frames[g])'
  <2>0. PICK p, me2, kid : p = fl_frames'[g].parent /\ me2 = fl_frames'[p] /\ kid = fl_frames'[g]
    OBVIOUS
  <2>1. KidOK(me2, kid)
    <3>1. CASE \E i \in 1 .. k : g = n + i
      <4>1. PICK i \in 1 .. k : g = n + i
        BY <3>1
      <4>2. p = f /\ kid = fl_frames'[n + i] /\ me2 = me
        BY <1>4, <2>0, <4>1
      <4>3. QED
        BY <1>m, <4>2
    <3>2. CASE g \in 1 .. n
      <4>1. p = fl_frames[g].parent /\ p \in 1 .. n /\ p < g
        BY <1>1, <1>2, <1>3, <1>7, <2>0, <3>2
      <4>2. CASE p = f
        <5>1. g # f /\ me2 = me /\ kid = fl_frames[g]
          BY <1>1, <2>0, <3>2, <4>1, <4>2
        <5>2. KidOK(me, fl_frames[g])
          BY <1>1, <1>7, <3>2, <4>1, <4>2
        <5>3. QED
          BY <5>1, <5>2
      <4>3. CASE p # f /\ g = f
        BY <1>1, <1>7, <2>0, <4>1, <4>3
      <4>4. CASE p # f /\ g # f
        <5>1. me2 = fl_frames[p] /\ kid = fl_frames[g]
          BY <1>1, <2>0, <3>2, <4>1, <4>4
        <5>2. KidOK(fl_frames[p], fl_frames[g])
          BY <1>1, <1>7, <3>2, <4>1 DEF FlowInv
        <5>3. QED
          BY <5>1, <5>2
      <4>5. QED
        BY <4>2, <4>3, <4>4
    <3>3. QED
      BY <1>1, <3>1, <3>2
  <2>2. QED
    BY <2>0, <2>1 DEF KidOK, Passed
<1>8. ASSUME NEW g \in 1 .. n + k, NEW h \in 1 .. n + k,
             fl_frames'[g].parent = fl_frames'[h].parent, fl_frames'[g].parent # 0,
               fl_frames'[g].slot = fl_frames'[h].slot
      PROVE  g = h
  <2>0. f # 0
    BY <1>1
  <2>1. CASE g \in 1 .. n /\ h \in 1 .. n
    BY <1>1, <1>2, <1>8, <2>1 DEF FlowInv, OneASlot
  <2>2. CASE g \in 1 .. n /\ \E i \in 1 .. k : h = n + i
    <3>1. PICK i \in 1 .. k : h = n + i
      BY <2>2
    <3>2. fl_frames'[h].parent = f
      BY <1>4, <3>1
    <3>3. fl_frames[g].parent = f /\ fl_frames[g].slot = fl_frames'[n + i].slot
      BY <1>2, <1>8, <2>2, <3>1, <3>2
    <3>4. g # 1
      BY <1>1, <2>0, <2>2, <3>3, FrameFields DEF FlowInv
    <3>5. fl_frames[g].slot = new[i].slot
      BY <1>m, <3>3
    <3>6. QED
      BY <1>1, <2>2, <3>3, <3>4, <3>5
  <2>3. CASE h \in 1 .. n /\ \E i \in 1 .. k : g = n + i
    <3>1. PICK i \in 1 .. k : g = n + i
      BY <2>3
    <3>2. fl_frames'[g].parent = f
      BY <1>4, <3>1
    <3>3. fl_frames[h].parent = f /\ fl_frames[h].slot = fl_frames'[n + i].slot
      BY <1>2, <1>8, <2>3, <3>1, <3>2
    <3>4. h # 1
      BY <1>1, <2>0, <2>3, <3>3, FrameFields DEF FlowInv
    <3>5. fl_frames[h].slot = new[i].slot
      BY <1>m, <3>3
    <3>6. QED
      BY <1>1, <2>3, <3>3, <3>4, <3>5
  <2>4. CASE (\E i \in 1 .. k : g = n + i) /\ \E j \in 1 .. k : h = n + j
    <3>1. PICK i \in 1 .. k, j \in 1 .. k : g = n + i /\ h = n + j
      BY <2>4
    <3>2. fl_frames'[n + i].slot = fl_frames'[n + j].slot
      BY <1>8, <3>1
    <3>3. new[i].slot = new[j].slot
      BY <1>m, <3>2
    <3>4. QED
      BY <3>1, <3>3
  <2>5. QED
    BY <1>1, <2>1, <2>2, <2>3, <2>4
<1>9. QED
  <2>1. OneASlot'
    BY <1>1, <1>8 DEF OneASlot
  <2>2. QED
    BY <1>1, <1>5, <1>6, <1>7, <2>1 DEF FlowInv

(* A frame settles: nothing that it started runs on, but for what a        *)
(* timeout gave up on, and no suspension below it is dropped.              *)
LEMMA SettleKeeps ==
  ASSUME FlowInv, NEW f \in DOMAIN fl_frames, fl_frames[f].out = "none", NEW out \in {"ok"} \union TheFlow!Errors,
           TheFlow!Settle(f, out),
         out = "aborted" => fl_controller # "none",
         \A g \in DOMAIN fl_frames : g # 1 /\ fl_frames[g].parent = f =>
           /\ fl_frames[g].out = "none" => TheFlow!KindOf(f) = "timeout" /\ fl_frames[g].reason # "none"
           /\ Careful /\ fl_frames[g].out = "suspended" /\ fl_frames[g].reason = "none" => out = "suspended"
  PROVE  FlowInv'
<1>1. PICK me : me = [fl_frames[f] EXCEPT !.out = out]
  OBVIOUS
<1>2. fl_frames \in Seq(FlFrame) /\ fl_frames[f] \in FlFrame /\ FlTypes
  BY FrameFields DEF FlowInv, FlTypes
<1>3. /\ me \in FlFrame /\ me.out = out
      /\ me.node = fl_frames[f].node /\ me.parent = fl_frames[f].parent /\ me.slot = fl_frames[f].slot
      /\ me.reason = fl_frames[f].reason /\ me.at = fl_frames[f].at /\ me.mode = fl_frames[f].mode
      /\ me.seen = fl_frames[f].seen /\ me.failed = fl_frames[f].failed
  BY <1>1, <1>2 DEF FlFrame, TheFlow!Outs
<1>4. /\ fl_frames' = [fl_frames EXCEPT ![f] = me] /\ fl_controller' = fl_controller
      /\ fl_frames' \in Seq(FlFrame) /\ Len(fl_frames') = Len(fl_frames) + 0
      /\ fl_frames'[f] = me /\ \A g \in DOMAIN fl_frames \ {f} : fl_frames'[g] = fl_frames[g]
  <2>1. fl_frames' = [fl_frames EXCEPT ![f] = me] /\ fl_controller' = fl_controller
    BY <1>1 DEF TheFlow!Settle
  <2>2. QED
    BY <1>2, <1>3, <2>1
<1>5. FrameOK(me)
  <2>1. FrameOK(fl_frames[f])
    BY DEF FlowInv
  <2>2. QED
    BY <1>3, <2>1 DEF FrameOK
<1>6. ASSUME f # 1 PROVE KidOK(fl_frames[fl_frames[f].parent], me)
  <2>1. KidOK(fl_frames[fl_frames[f].parent], fl_frames[f])
    BY <1>6 DEF FlowInv
  <2>2. out # "none"
    BY DEF TheFlow!Errors
  <2>3. QED
    BY <1>3, <2>1, <2>2 DEF KidOK, Passed
<1>7. ASSUME NEW g \in DOMAIN fl_frames, g # 1, fl_frames[g].parent = f PROVE KidOK(me, fl_frames[g])
  <2>1. KidOK(fl_frames[f], fl_frames[g])
    BY <1>7 DEF FlowInv
  <2>2. QED
    BY <1>3, <1>7, <2>1 DEF KidOK, TheFlow!KindOf
<1>8. FitsIn(f, me)
  BY <1>5, <1>6, <1>7 DEF FitsIn
<1>9. GoesOn(f, me, 0, <<>>) /\ Dispatches(f, me, 0, <<>>)
  BY <1>3, <1>4 DEF GoesOn, Dispatches
<1>10. QED
  BY <1>8, <1>9, StepKeeps

(* A frame goes on as me, and dispatches nodes in some slots. *)
TakesOn(f, me, k, slots, node) ==
  /\ me.node = fl_frames[f].node /\ me.parent = fl_frames[f].parent /\ me.slot = fl_frames[f].slot
  /\ me.reason = fl_frames[f].reason /\ me.out = fl_frames[f].out
  /\ FrameOK(me)
  /\ \A g \in DOMAIN fl_frames : g # 1 /\ fl_frames[g].parent = f => KidOK(me, fl_frames[g])
  /\ \A i \in 1 .. k : node[slots[i]] \in FlowNodes
       /\ KidOK(me, TheFlow!Frame(node[slots[i]], f, slots[i], me.reason))
  /\ \A i \in 1 .. k : \A j \in 1 .. k : slots[i] = slots[j] => i = j
  /\ \A i \in 1 .. k : \A g \in DOMAIN fl_frames : g # 1 /\ fl_frames[g].parent = f => fl_frames[g].slot # slots[i]

(* A frame that takes on children fits in with them. *)
LEMMA CallKeeps ==
  ASSUME FlowInv, NEW f \in DOMAIN fl_frames, NEW me \in FlFrame, NEW slots \in Seq(Nat), NEW node,
         TheFlow!Call(f, me, slots, node), TakesOn(f, me, Len(slots), slots, node)
  PROVE  FlowInv'
<1> USE DEF TakesOn
<1>k. PICK k \in Nat : k = Len(slots)
  OBVIOUS
<1>s. DOMAIN slots = 1 .. k /\ \A i \in 1 .. k : slots[i] \in Nat
  BY <1>k
<1>n. PICK n \in Nat : n = Len(fl_frames)
  BY DEF FlowInv, FlTypes
<1>1. fl_frames \in Seq(FlFrame) /\ DOMAIN fl_frames = 1 .. n /\ f \in Nat
  BY <1>n DEF FlowInv, FlTypes
<1>2. PICK new : new = [i \in 1 .. k |-> TheFlow!Frame(node[slots[i]], f, slots[i], me.reason)]
  OBVIOUS
<1>3. \A i \in 1 .. k : new[i] \in FlFrame /\ new[i].parent = f /\ new[i].slot = slots[i] /\ FrameOK(new[i])
  <2>1. SUFFICES ASSUME NEW i \in 1 .. k
                 PROVE  new[i] \in FlFrame /\ new[i].parent = f /\ new[i].slot = slots[i] /\ FrameOK(new[i])
    OBVIOUS
  <2>2. new[i] = TheFlow!Frame(node[slots[i]], f, slots[i], me.reason)
    BY <1>2
  <2>3. me.reason \in {"none"} \union TheFlow!Reasons /\ slots[i] \in Nat /\ node[slots[i]] \in FlowNodes
    BY <1>k, <1>s DEF FlFrame
  <2>4. new[i] \in FlFrame /\ new[i].parent = f /\ new[i].slot = slots[i]
    BY <1>1, <2>2, <2>3 DEF TheFlow!Frame, FlFrame, TheFlow!Outs
  <2>5. /\ new[i].mode = "new" /\ new[i].reason = me.reason /\ new[i].out = "none" /\ new[i].failed = "none"
        /\ new[i].seen = {} /\ new[i].at = 0
    BY <2>2 DEF TheFlow!Frame
  <2>6. fl_controller # "none" => me.reason # "none"
    BY DEF FrameOK
  <2>7. me.reason = "typed" => fl_controller # "none"
    BY DEF FrameOK
  <2>8. FrameOK(new[i])
    BY <2>5, <2>6, <2>7 DEF FrameOK
  <2>9. QED
    BY <2>4, <2>8
<1>4. fl_frames' = [fl_frames EXCEPT ![f] = me] \o new /\ fl_controller' = fl_controller
  BY <1>2, <1>k DEF TheFlow!Call
<1>5. new \in Seq(FlFrame) /\ Len(new) = k
  <2>1. new \in [1 .. k -> FlFrame]
    BY <1>2, <1>3
  <2>2. QED
    BY <2>1
<1>6. [fl_frames EXCEPT ![f] = me] \in Seq(FlFrame) /\ Len([fl_frames EXCEPT ![f] = me]) = n
  BY <1>n, <1>1
<1>7. /\ fl_frames' \in Seq(FlFrame) /\ Len(fl_frames') = Len(fl_frames) + k
      /\ fl_frames'[f] = me /\ \A g \in DOMAIN fl_frames \ {f} : fl_frames'[g] = fl_frames[g]
      /\ \A i \in 1 .. k : fl_frames'[Len(fl_frames) + i] = new[i]
  <2>1. PICK old : old = [fl_frames EXCEPT ![f] = me]
    OBVIOUS
  <2>2. old \in Seq(FlFrame) /\ Len(old) = n /\ old[f] = me /\ \A g \in 1 .. n \ {f} : old[g] = fl_frames[g]
    BY <1>1, <1>6, <2>1
  <2>3. fl_frames' = old \o new
    BY <1>4, <2>1
  <2>4. /\ fl_frames' \in Seq(FlFrame) /\ Len(fl_frames') = n + k
        /\ \A i \in 1 .. n : fl_frames'[i] = old[i]
        /\ \A i \in 1 .. k : fl_frames'[n + i] = new[i]
    <3>1. old \in Seq(FlFrame) /\ new \in Seq(FlFrame) /\ Len(old) = n /\ Len(new) = k
      BY <1>5, <2>2
    <3>2. fl_frames' \in Seq(FlFrame) /\ Len(fl_frames') = n + k
      BY <2>3, <3>1, ConcatProperties
    <3>3. \A i \in 1 .. n + k : fl_frames'[i] = IF i <= n THEN old[i] ELSE new[i - n]
      BY <2>3, <3>1, ConcatProperties
    <3>4. ASSUME NEW i \in 1 .. k PROVE fl_frames'[n + i] = new[i]
      <4>1. n + i \in 1 .. n + k /\ ~(n + i <= n) /\ (n + i) - n = i
        OBVIOUS
      <4>2. QED
        BY <3>3, <4>1
    <3>5. ASSUME NEW i \in 1 .. n PROVE fl_frames'[i] = old[i]
      <4>1. i \in 1 .. n + k /\ i <= n
        OBVIOUS
      <4>2. QED
        BY <3>3, <4>1
    <3>6. QED
      BY <3>2, <3>4, <3>5
  <2>5. QED
    BY <1>n, <1>1, <2>2, <2>4
<1>8. ASSUME f # 1 PROVE KidOK(fl_frames[fl_frames[f].parent], me)
  <2>1. KidOK(fl_frames[fl_frames[f].parent], fl_frames[f])
    BY <1>8 DEF FlowInv
  <2>2. QED
    BY <2>1, KidSame
<1>9. \A i \in 1 .. k : KidOK(me, new[i])
  BY <1>2, <1>k
<1>10. \A i \in 1 .. k : fl_frames'[Len(fl_frames) + i] = new[i]
  BY <1>7
<1>11. \A i \in 1 .. k : new[i].parent = f /\ FrameOK(new[i]) /\ KidOK(me, new[i])
  BY <1>3, <1>9
<1>12. \A i \in 1 .. k : \A j \in 1 .. k : new[i].slot = new[j].slot => i = j
  BY <1>3, <1>k
<1>13. \A i \in 1 .. k : \A g \in DOMAIN fl_frames : g # 1 /\ fl_frames[g].parent = f
         => fl_frames[g].slot # new[i].slot
  BY <1>3, <1>k
<1>14. FitsIn(f, me)
  BY <1>8 DEF FitsIn
<1>15. Dispatches(f, me, k, new)
  BY <1>11, <1>12, <1>13 DEF Dispatches
<1>16. GoesOn(f, me, k, new)
  BY <1>4, <1>7, <1>10 DEF GoesOn
<1>17. QED
  BY <1>14, <1>15, <1>16, StepKeeps

(* A composer whose children came one by one dispatches the next: all it   *)
(* has are done with.                                                      *)
LEMMA CallOneKeeps ==
  ASSUME FlowInv, NEW f \in DOMAIN fl_frames, fl_frames[f].out = "none",
         NEW slot \in Nat, fl_frames[f].at < slot, NEW node \in FlowNodes, TheFlow!CallOne(f, slot, node),
         TheFlow!KindOf(f) \notin {"step", "parallel", "map", "timeout"},
         \A g \in DOMAIN fl_frames : g # 1 /\ fl_frames[g].parent = f => Passed(fl_frames[g])
  PROVE  FlowInv'
<1>1. PICK me : me = [fl_frames[f] EXCEPT !.at = slot, !.mode = "on"]
  OBVIOUS
<1>2. FlTypes /\ fl_frames[f] \in FlFrame /\ f \in Nat
  BY FrameFields DEF FlowInv, FlTypes
<1>3. /\ me \in FlFrame /\ me.at = slot /\ me.mode = "on"
      /\ me.node = fl_frames[f].node /\ me.parent = fl_frames[f].parent /\ me.slot = fl_frames[f].slot
      /\ me.reason = fl_frames[f].reason /\ me.out = fl_frames[f].out
      /\ me.seen = fl_frames[f].seen /\ me.failed = fl_frames[f].failed
  BY <1>1, <1>2 DEF FlFrame
<1>4. PICK slots, nodes : slots = <<slot>> /\ nodes = [s \in {slot} |-> node]
  OBVIOUS
<1>5. /\ slots \in Seq(Nat) /\ Len(slots) = 1 /\ slots[1] = slot /\ nodes[slot] = node
      /\ TheFlow!Call(f, me, slots, nodes)
  BY <1>1, <1>4 DEF TheFlow!CallOne
<1>6. FrameOK(me)
  <2>1. FrameOK(fl_frames[f])
    BY DEF FlowInv
  <2>2. QED
    BY <1>3, <2>1 DEF FrameOK, TheFlow!KindOf
<1>7. ASSUME NEW g \in DOMAIN fl_frames, g # 1, fl_frames[g].parent = f
      PROVE  KidOK(me, fl_frames[g]) /\ fl_frames[g].slot # slot
  <2>1. KidOK(fl_frames[f], fl_frames[g]) /\ Passed(fl_frames[g])
    BY <1>7 DEF FlowInv
  <2>2. fl_frames[g].slot \in 1 .. fl_frames[f].at /\ fl_frames[f].at \in Nat
    BY <1>2, <2>1, FrameFields DEF KidOK, TheFlow!KindOf
  <2>3. QED
    BY <1>3, <2>1, <2>2 DEF KidOK, TheFlow!KindOf
<1>8. KidOK(me, TheFlow!Frame(node, f, slot, me.reason))
  <2>1. PICK kid : kid = TheFlow!Frame(node, f, slot, me.reason)
    OBVIOUS
  <2>2. kid.slot = slot /\ kid.reason = me.reason /\ kid.out = "none"
    BY <2>1 DEF TheFlow!Frame
  <2>3. slot \in 1 .. slot
    BY <1>2, FrameFields
  <2>4. KidOK(me, kid)
    BY <1>3, <2>2, <2>3 DEF KidOK, TheFlow!KindOf
  <2>5. QED
    BY <2>1, <2>4
<1>9. TakesOn(f, me, Len(slots), slots, nodes)
  BY <1>3, <1>5, <1>6, <1>7, <1>8 DEF TakesOn
<1>10. QED
  BY <1>3, <1>5, <1>9, CallKeeps

(* A composer whose children came one by one settles with what the last of *)
(* them settled with.                                                      *)
LEMMA SettleGotKeeps ==
  ASSUME FlowInv, NEW f \in DOMAIN fl_frames, fl_frames[f].out = "none",
         TheFlow!KindOf(f) \notin {"step", "parallel", "map"}, TheFlow!Got(f) # "none",
           TheFlow!Settle(f, TheFlow!Got(f))
  PROVE  FlowInv'
<1>1. PICK out : out = TheFlow!Got(f)
  OBVIOUS
<1>2. PICK g \in DOMAIN fl_frames : g # 1 /\ fl_frames[g].parent = f /\ fl_frames[g].slot = fl_frames[f].at
             /\ fl_frames[g].out = out
  BY <1>1, ResultOf DEF TheFlow!Got, TheFlow!At
<1>3. out \in {"ok"} \union TheFlow!Errors
  BY <1>1, <1>2, FrameFields DEF FlowInv, FlFrame, TheFlow!Outs
<1>4. out = "aborted" => fl_controller # "none"
  <2>1. FrameOK(fl_frames[g])
    BY DEF FlowInv
  <2>2. QED
    BY <1>2, <2>1 DEF FrameOK
<1>5. ASSUME NEW h \in DOMAIN fl_frames, h # 1, fl_frames[h].parent = f
      PROVE  /\ fl_frames[h].out # "none"
             /\ fl_frames[h].out = "suspended" => out = "suspended"
  <2>1. KidOK(fl_frames[f], fl_frames[h])
    BY <1>5 DEF FlowInv
  <2>2. fl_frames[h].slot \in 1 .. fl_frames[f].at /\ fl_frames[f].at \in Nat
    BY <2>1, FrameFields DEF KidOK, TheFlow!KindOf, FlowInv
  <2>3. CASE fl_frames[h].slot < fl_frames[f].at
    BY <2>1, <2>3 DEF KidOK, TheFlow!KindOf, Passed
  <2>4. CASE fl_frames[h].slot = fl_frames[f].at
    <3>1. g = h
      BY <1>2, <1>5, <2>4, FrameFields DEF FlowInv, OneASlot
    <3>2. QED
      BY <1>2, <1>3, <3>1 DEF TheFlow!Errors
  <2>5. QED
    BY <2>2, <2>3, <2>4
<1>6. TheFlow!Settle(f, out)
  BY <1>1
<1>7. QED
  BY <1>3, <1>4, <1>5, <1>6, SettleKeeps

(* A composer that is aborted settles with the reason, all it started done *)
(* with.                                                                   *)
LEMMA SettleAbortedKeeps ==
  ASSUME FlowInv, NEW f \in DOMAIN fl_frames, fl_frames[f].out = "none", TheFlow!Aborted(f),
           TheFlow!SettleAborted(f),
         \A g \in DOMAIN fl_frames : g # 1 /\ fl_frames[g].parent = f
           => fl_frames[g].out # "none" \/ TheFlow!KindOf(f) = "timeout"
  PROVE  FlowInv'
<1>1. PICK out : out = TheFlow!AbortError(fl_frames[f].reason)
  OBVIOUS
<1>2. fl_frames[f].reason \in TheFlow!Reasons
  BY FrameFields DEF FlowInv, FlFrame, TheFlow!Aborted
<1>3. out \in {"ok"} \union TheFlow!Errors
  BY <1>1, <1>2 DEF TheFlow!AbortError, TheFlow!Reasons, TheFlow!Errors
<1>4. out = "aborted" => fl_controller # "none"
  <2>1. FrameOK(fl_frames[f])
    BY DEF FlowInv
  <2>2. out = "aborted" => fl_frames[f].reason = "typed"
    BY <1>1, <1>2 DEF TheFlow!AbortError, TheFlow!Reasons
  <2>3. QED
    BY <2>1, <2>2 DEF FrameOK
<1>5. ASSUME NEW g \in DOMAIN fl_frames, g # 1, fl_frames[g].parent = f PROVE fl_frames[g].reason # "none"
  <2>1. KidOK(fl_frames[f], fl_frames[g])
    BY <1>5 DEF FlowInv
  <2>2. QED
    BY <2>1 DEF KidOK, TheFlow!Aborted
<1>6. TheFlow!Settle(f, out)
  BY <1>1 DEF TheFlow!SettleAborted
<1>7. QED
  BY <1>3, <1>4, <1>5, <1>6, SettleKeeps

(* A frame that has not started has no children. *)
LEMMA NewHasNone ==
  ASSUME FlowInv, NEW f \in DOMAIN fl_frames, TheFlow!Mode(f) = "new" \/ TheFlow!KindOf(f) = "step"
  PROVE  \A g \in DOMAIN fl_frames : g # 1 => fl_frames[g].parent # f
  BY DEF FlowInv, KidOK, TheFlow!Mode, TheFlow!KindOf

(* Where the last child that came one by one is done with, all are. *)
LEMMA AllPassed ==
  ASSUME FlowInv, NEW f \in DOMAIN fl_frames, TheFlow!KindOf(f) \notin {"parallel", "map"},
         TheFlow!Ready(f) \/ TheFlow!Failure(TheFlow!Got(f)), NEW g \in DOMAIN fl_frames, g # 1,
           fl_frames[g].parent = f
  PROVE  Passed(fl_frames[g])
<1>1. KidOK(fl_frames[f], fl_frames[g])
  BY DEF FlowInv
<1>2. fl_frames[g].slot \in 1 .. fl_frames[f].at /\ fl_frames[f].at \in Nat
  BY <1>1, FrameFields DEF KidOK, TheFlow!KindOf, FlowInv
<1>3. CASE fl_frames[g].slot < fl_frames[f].at
  BY <1>1, <1>3 DEF KidOK, TheFlow!KindOf
<1>4. CASE fl_frames[g].slot = fl_frames[f].at
  <2>1. fl_frames[f].at # 0
    BY <1>2
  <2>2. TheFlow!Got(f) = fl_frames[g].out
    BY <1>4, KidResult DEF TheFlow!Got, TheFlow!At
  <2>3. QED
    BY <2>1, <2>2 DEF TheFlow!Ready, TheFlow!At, TheFlow!Failure, TheFlow!Errors, TheFlow!is_control_flow_error,
         Passed
<1>5. QED
  BY <1>2, <1>3, <1>4

(* The children a composer has are nodes of the flow. *)
LEMMA KidsAreNodes ==
  ASSUME FlowInv, NEW f \in DOMAIN fl_frames
  PROVE  /\ fl_frames[f].node \in FlowNodes /\ FlowKids[fl_frames[f].node] \in Seq(FlowNodes)
         /\ \A i \in 1 .. Len(FlowKids[fl_frames[f].node]) : FlowKids[fl_frames[f].node][i] \in FlowNodes
         /\ TheFlow!KindOf(f) # "step" => Len(FlowKids[fl_frames[f].node]) \in Nat \ {0}
         /\ TheFlow!KindOf(f) \in {"branch", "fallback"} => Len(FlowKids[fl_frames[f].node]) = 2
         /\ TheFlow!KindOf(f) = "loop" => Len(FlowKids[fl_frames[f].node]) \in {1, 2}
         /\ FlowLimit[fl_frames[f].node] \in Nat \ {0} /\ FlowItems[fl_frames[f].node] \in Nat \ {0}
<1>1. PICK n \in FlowNodes : n = fl_frames[f].node
  BY FrameFields DEF FlowInv
<1>2. /\ FlowKids[n] \in Seq(FlowNodes) /\ (FlowKids[n] = <<>> <=> FlowKind[n] = "step")
      /\ FlowLimit[n] \in Nat \ {0} /\ FlowItems[n] \in Nat \ {0}
  BY FlowHolds DEF TheFlow!FlowAssumption
<1>3. /\ FlowKind[n] \in {"branch", "fallback"} => Len(FlowKids[n]) = 2
      /\ FlowKind[n] = "loop" => Len(FlowKids[n]) \in {1, 2}
  BY FlowHolds DEF AritiesAssumption
<1>4. \A i \in 1 .. Len(FlowKids[n]) : FlowKids[n][i] \in FlowNodes
  BY <1>2
<1>5. FlowKind[n] # "step" => Len(FlowKids[n]) \in Nat \ {0}
  BY <1>2
<1>6. QED
  BY <1>1, <1>2, <1>3, <1>4, <1>5 DEF TheFlow!KindOf

----------------------------------------------------------------------------
(* A leaf ends. *)
LEMMA LeafKeeps ==
  ASSUME FlowInv, NEW f \in DOMAIN fl_frames, TheFlow!LeafEnds(f) \/ TheFlow!LeafHonoursAbort(f)
  PROVE  FlowInv'
<1>1. TheFlow!KindOf(f) = "step" /\ fl_frames[f].out = "none"
  BY DEF TheFlow!LeafEnds, TheFlow!LeafHonoursAbort, TheFlow!Open
<1>2. \A g \in DOMAIN fl_frames : g # 1 => fl_frames[g].parent # f
  BY <1>1, NewHasNone
<1>3. CASE TheFlow!LeafEnds(f)
  <2>1. PICK out \in {"ok", "error", "suspended"} : TheFlow!Settle(f, out)
    BY <1>3 DEF TheFlow!LeafEnds
  <2>2. out \in {"ok"} \union TheFlow!Errors /\ out # "aborted"
    BY DEF TheFlow!Errors
  <2>3. QED
    BY <1>1, <1>2, <2>1, <2>2, SettleKeeps
<1>4. CASE TheFlow!LeafHonoursAbort(f)
  BY <1>1, <1>2, <1>4, SettleAbortedKeeps DEF TheFlow!LeafHonoursAbort
<1>5. QED
  BY <1>3, <1>4

(* The steps of the composers, one kind after the other. *)
LEMMA SequenceKeeps ==
  ASSUME FlowInv, NEW f \in DOMAIN fl_frames, TheFlow!SequenceNext(f) \/ TheFlow!SequenceAborted(f)
           \/ TheFlow!SequenceEnds(f)
  PROVE  FlowInv'
<1>1. TheFlow!KindOf(f) = "sequence" /\ fl_frames[f].out = "none"
  BY DEF TheFlow!SequenceNext, TheFlow!SequenceAborted, TheFlow!SequenceEnds, TheFlow!Open
<1>2. FlTypes /\ fl_frames[f].at \in Nat
  BY FrameFields DEF FlowInv
<1>3. CASE TheFlow!SequenceNext(f)
  <2>1. TheFlow!Ready(f) /\ fl_frames[f].at < Len(FlowKids[fl_frames[f].node])
        /\ TheFlow!CallOne(f, fl_frames[f].at + 1, FlowKids[fl_frames[f].node][fl_frames[f].at + 1])
    BY <1>3 DEF TheFlow!SequenceNext, TheFlow!At
  <2>2. PICK node \in FlowNodes : node = FlowKids[fl_frames[f].node][fl_frames[f].at + 1]
    BY <1>1, <1>2, <2>1, KidsAreNodes
  <2>3. PICK slot \in Nat : slot = fl_frames[f].at + 1
    BY <1>2
  <2>4. TheFlow!CallOne(f, slot, node) /\ fl_frames[f].at < slot
    BY <1>2, <2>1, <2>2, <2>3
  <2>5. \A g \in DOMAIN fl_frames : g # 1 /\ fl_frames[g].parent = f => Passed(fl_frames[g])
    BY <1>1, <2>1, AllPassed
  <2>6. QED
    BY <1>1, <2>4, <2>5, CallOneKeeps
<1>4. CASE TheFlow!SequenceAborted(f)
  <2>1. TheFlow!Ready(f) /\ TheFlow!Aborted(f) /\ TheFlow!SettleAborted(f)
    BY <1>4 DEF TheFlow!SequenceAborted
  <2>2. \A g \in DOMAIN fl_frames : g # 1 /\ fl_frames[g].parent = f => fl_frames[g].out # "none"
    BY <1>1, <2>1, AllPassed DEF Passed
  <2>3. QED
    BY <1>1, <2>1, <2>2, SettleAbortedKeeps
<1>5. CASE TheFlow!SequenceEnds(f)
  <2>1. TheFlow!Got(f) # "none" /\ TheFlow!Settle(f, TheFlow!Got(f))
    BY <1>5 DEF TheFlow!SequenceEnds, TheFlow!Errors
  <2>2. QED
    BY <1>1, <2>1, SettleGotKeeps
<1>6. QED
  BY <1>3, <1>4, <1>5

(* Of a branch. *)
LEMMA BranchKeeps ==
  ASSUME FlowInv, NEW f \in DOMAIN fl_frames, TheFlow!BranchTakes(f) \/ TheFlow!BranchEnds(f)
  PROVE  FlowInv'
<1>1. TheFlow!KindOf(f) = "branch" /\ fl_frames[f].out = "none"
  BY DEF TheFlow!BranchTakes, TheFlow!BranchEnds, TheFlow!Open
<1>2. CASE TheFlow!BranchTakes(f)
  <2>1. TheFlow!Mode(f) = "new"
    BY <1>2 DEF TheFlow!BranchTakes
  <2>2. \A g \in DOMAIN fl_frames : g # 1 => fl_frames[g].parent # f
    BY <2>1, NewHasNone
  <2>3. ASSUME NEW arm \in {1, 2}, TheFlow!CallOne(f, arm, FlowKids[fl_frames[f].node][arm]) PROVE FlowInv'
    <3>1. PICK node \in FlowNodes : node = FlowKids[fl_frames[f].node][arm]
      BY <1>1, KidsAreNodes
    <3>2. fl_frames[f].at = 0
      BY <2>1 DEF FlowInv, FrameOK, TheFlow!Mode
    <3>3. arm \in Nat /\ fl_frames[f].at < arm
      BY <3>2
    <3>4. TheFlow!CallOne(f, arm, node)
      BY <2>3, <3>1
    <3>5. QED
      BY <1>1, <2>2, <3>3, <3>4, CallOneKeeps
  <2>4. CASE TheFlow!Settle(f, "error")
    BY <1>1, <2>2, <2>4, SettleKeeps DEF TheFlow!Errors
  <2>5. QED
    BY <1>2, <2>3, <2>4 DEF TheFlow!BranchTakes
<1>3. CASE TheFlow!BranchEnds(f)
  BY <1>1, <1>3, SettleGotKeeps DEF TheFlow!BranchEnds
<1>4. QED
  BY <1>2, <1>3

(* Of a loop. *)
LEMMA LoopKeeps ==
  ASSUME FlowInv, NEW f \in DOMAIN fl_frames, TheFlow!LoopNext(f) \/ TheFlow!LoopAborted(f) \/ TheFlow!LoopEnds(f)
  PROVE  FlowInv'
<1>1. TheFlow!KindOf(f) = "loop" /\ fl_frames[f].out = "none"
  BY DEF TheFlow!LoopNext, TheFlow!LoopAborted, TheFlow!LoopEnds, TheFlow!Open
<1>2. FlTypes /\ fl_frames[f].at \in Nat
  BY FrameFields DEF FlowInv
<1>3. CASE TheFlow!LoopNext(f)
  <2>1. /\ TheFlow!Ready(f)
        /\ TheFlow!CallOne(f, fl_frames[f].at + 1,
                           FlowKids[fl_frames[f].node][(fl_frames[f].at % TheFlow!Turns(f)) + 1])
    BY <1>3 DEF TheFlow!LoopNext, TheFlow!At
  <2>2. PICK node \in FlowNodes : node = FlowKids[fl_frames[f].node][(fl_frames[f].at % TheFlow!Turns(f)) + 1]
    <3>1. PICK t \in {1, 2} : t = TheFlow!Turns(f) /\ t = Len(FlowKids[fl_frames[f].node])
      BY <1>1, KidsAreNodes DEF TheFlow!Turns
    <3>2. (fl_frames[f].at % t) + 1 \in 1 .. t
      <4>1. CASE t = 1
        BY <1>2, <4>1
      <4>2. CASE t = 2
        BY <1>2, <4>2
      <4>3. QED
        BY <4>1, <4>2
    <3>3. QED
      BY <3>1, <3>2, KidsAreNodes
  <2>3. PICK slot \in Nat : slot = fl_frames[f].at + 1
    BY <1>2
  <2>4. TheFlow!CallOne(f, slot, node) /\ fl_frames[f].at < slot
    BY <1>2, <2>1, <2>2, <2>3
  <2>5. \A g \in DOMAIN fl_frames : g # 1 /\ fl_frames[g].parent = f => Passed(fl_frames[g])
    BY <1>1, <2>1, AllPassed
  <2>6. QED
    BY <1>1, <2>4, <2>5, CallOneKeeps
<1>4. CASE TheFlow!LoopAborted(f)
  <2>1. TheFlow!Ready(f) /\ TheFlow!Aborted(f) /\ TheFlow!SettleAborted(f)
    BY <1>4 DEF TheFlow!LoopAborted
  <2>2. \A g \in DOMAIN fl_frames : g # 1 /\ fl_frames[g].parent = f => fl_frames[g].out # "none"
    BY <1>1, <2>1, AllPassed DEF Passed
  <2>3. QED
    BY <1>1, <2>1, <2>2, SettleAbortedKeeps
<1>5. CASE TheFlow!LoopEnds(f)
  <2>1. TheFlow!Got(f) # "none" /\ TheFlow!Settle(f, TheFlow!Got(f))
    BY <1>5 DEF TheFlow!LoopEnds, TheFlow!Errors
  <2>2. QED
    BY <1>1, <2>1, SettleGotKeeps
<1>6. QED
  BY <1>3, <1>4, <1>5

(* Of a retry. *)
LEMMA RetryKeeps ==
  ASSUME FlowInv, NEW f \in DOMAIN fl_frames, TheFlow!RetryTries(f) \/ TheFlow!RetryBacksOff(f)
           \/ TheFlow!RetryEnds(f)
  PROVE  FlowInv'
<1>1. TheFlow!KindOf(f) = "retry" /\ fl_frames[f].out = "none"
  BY DEF TheFlow!RetryTries, TheFlow!RetryBacksOff, TheFlow!RetryEnds, TheFlow!Open
<1>2. FlTypes /\ fl_frames[f].at \in Nat /\ fl_frames[f] \in FlFrame
  BY FrameFields DEF FlowInv
<1>3. CASE TheFlow!RetryTries(f)
  <2>1. \A g \in DOMAIN fl_frames : g # 1 /\ fl_frames[g].parent = f => Passed(fl_frames[g])
    <3>1. CASE TheFlow!Mode(f) = "new"
      BY <3>1, NewHasNone
    <3>2. CASE TheFlow!Mode(f) = "backoff"
      BY <1>1, <3>2 DEF FlowInv, KidOK, TheFlow!Mode, TheFlow!KindOf
    <3>3. QED
      BY <1>3, <3>1, <3>2 DEF TheFlow!RetryTries
  <2>2. CASE TheFlow!Aborted(f)
    <3>1. TheFlow!SettleAborted(f)
      BY <1>3, <2>2 DEF TheFlow!RetryTries
    <3>2. \A g \in DOMAIN fl_frames : g # 1 /\ fl_frames[g].parent = f => fl_frames[g].out # "none"
      BY <2>1 DEF Passed
    <3>3. QED
      BY <1>1, <2>2, <3>1, <3>2, SettleAbortedKeeps
  <2>3. CASE ~TheFlow!Aborted(f)
    <3>1. PICK node \in FlowNodes : node = FlowKids[fl_frames[f].node][1]
      BY <1>1, KidsAreNodes
    <3>2. PICK slot \in Nat : slot = fl_frames[f].at + 1
      BY <1>2
    <3>3. TheFlow!CallOne(f, slot, node) /\ fl_frames[f].at < slot
      BY <1>2, <1>3, <2>3, <3>1, <3>2 DEF TheFlow!RetryTries, TheFlow!At
    <3>4. QED
      BY <1>1, <2>1, <3>3, CallOneKeeps
  <2>4. QED
    BY <2>2, <2>3
<1>4. CASE TheFlow!RetryBacksOff(f)
  <2>1. PICK me : me = [fl_frames[f] EXCEPT !.mode = "backoff"]
    OBVIOUS
  <2>2. /\ me \in FlFrame /\ me.mode = "backoff" /\ me.at = fl_frames[f].at
        /\ me.node = fl_frames[f].node /\ me.parent = fl_frames[f].parent /\ me.slot = fl_frames[f].slot
        /\ me.reason = fl_frames[f].reason /\ me.out = fl_frames[f].out
        /\ me.seen = fl_frames[f].seen /\ me.failed = fl_frames[f].failed
    BY <1>2, <2>1 DEF FlFrame
  <2>3. fl_frames' = [fl_frames EXCEPT ![f] = me] /\ fl_controller' = fl_controller
    BY <1>4, <2>1 DEF TheFlow!RetryBacksOff
  <2>4. fl_frames \in Seq(FlFrame)
    BY <1>2 DEF FlTypes
  <2>5. GoesOn(f, me, 0, <<>>)
    BY <2>2, <2>3, <2>4 DEF GoesOn
  <2>6. FrameOK(me)
    <3>1. FrameOK(fl_frames[f])
      BY DEF FlowInv
    <3>2. QED
      BY <1>1, <2>2, <3>1 DEF FrameOK, TheFlow!KindOf
  <2>7. ASSUME f # 1 PROVE KidOK(fl_frames[fl_frames[f].parent], me)
    <3>1. KidOK(fl_frames[fl_frames[f].parent], fl_frames[f])
      BY <2>7 DEF FlowInv
    <3>2. QED
      BY <2>2, <3>1, KidSame
  <2>8. ASSUME NEW g \in DOMAIN fl_frames, g # 1, fl_frames[g].parent = f PROVE KidOK(me, fl_frames[g])
    <3>1. Passed(fl_frames[g])
      BY <1>1, <1>4, <2>8, AllPassed DEF TheFlow!RetryBacksOff
    <3>2. KidOK(fl_frames[f], fl_frames[g])
      BY <2>8 DEF FlowInv
    <3>3. QED
      BY <1>1, <2>2, <3>1, <3>2 DEF KidOK, TheFlow!KindOf
  <2>9. FitsIn(f, me) /\ Dispatches(f, me, 0, <<>>)
    BY <2>6, <2>7, <2>8 DEF FitsIn, Dispatches
  <2>10. QED
    BY <2>5, <2>9, StepKeeps
<1>5. CASE TheFlow!RetryEnds(f)
  BY <1>1, <1>5, SettleGotKeeps DEF TheFlow!RetryEnds
<1>6. QED
  BY <1>3, <1>4, <1>5

(* Of a fallback. *)
LEMMA FallbackKeeps ==
  ASSUME FlowInv, NEW f \in DOMAIN fl_frames, TheFlow!FallbackStarts(f) \/ TheFlow!FallbackBacks(f)
           \/ TheFlow!FallbackEnds(f)
  PROVE  FlowInv'
<1>1. TheFlow!KindOf(f) = "fallback" /\ fl_frames[f].out = "none"
  BY DEF TheFlow!FallbackStarts, TheFlow!FallbackBacks, TheFlow!FallbackEnds, TheFlow!Open
<1>2. PICK first \in FlowNodes, second \in FlowNodes : first = FlowKids[fl_frames[f].node][1]
             /\ second = FlowKids[fl_frames[f].node][2]
  BY <1>1, KidsAreNodes
<1>3. CASE TheFlow!FallbackStarts(f)
  <2>1. TheFlow!Mode(f) = "new" /\ TheFlow!CallOne(f, 1, first)
    BY <1>2, <1>3 DEF TheFlow!FallbackStarts
  <2>2. fl_frames[f].at < 1
    BY <2>1 DEF FlowInv, FrameOK, TheFlow!Mode
  <2>3. \A g \in DOMAIN fl_frames : g # 1 => fl_frames[g].parent # f
    BY <2>1, NewHasNone
  <2>4. QED
    BY <1>1, <2>1, <2>2, <2>3, CallOneKeeps
<1>4. CASE TheFlow!FallbackBacks(f)
  <2>1. fl_frames[f].at < 2 /\ TheFlow!Failure(TheFlow!Got(f)) /\ TheFlow!CallOne(f, 2, second)
    BY <1>2, <1>4 DEF TheFlow!FallbackBacks, TheFlow!At
  <2>2. \A g \in DOMAIN fl_frames : g # 1 /\ fl_frames[g].parent = f => Passed(fl_frames[g])
    BY <1>1, <2>1, AllPassed
  <2>3. QED
    BY <1>1, <2>1, <2>2, CallOneKeeps
<1>5. CASE TheFlow!FallbackEnds(f)
  BY <1>1, <1>5, SettleGotKeeps DEF TheFlow!FallbackEnds
<1>6. QED
  BY <1>3, <1>4, <1>5

(* A parallel starts its children, all in slots of their own. *)
LEMMA ParallelStartKeeps ==
  ASSUME FlowInv, NEW f \in DOMAIN fl_frames, TheFlow!ParallelStarts(f)
  PROVE  FlowInv'
<1>1. TheFlow!KindOf(f) = "parallel" /\ fl_frames[f].out = "none" /\ TheFlow!Mode(f) = "new"
  BY DEF TheFlow!ParallelStarts, TheFlow!Open
<1>2. FlTypes /\ fl_frames[f] \in FlFrame
  BY FrameFields DEF FlowInv
<1>3. PICK kids \in Seq(FlowNodes) : kids = FlowKids[fl_frames[f].node]
  BY KidsAreNodes
<1>4. PICK slots : slots = [k \in DOMAIN kids |-> k]
  OBVIOUS
<1>5. PICK me : me = [fl_frames[f] EXCEPT !.mode = "on"]
  OBVIOUS
<1>6. /\ me \in FlFrame /\ me.mode = "on" /\ me.at = fl_frames[f].at
      /\ me.node = fl_frames[f].node /\ me.parent = fl_frames[f].parent /\ me.slot = fl_frames[f].slot
      /\ me.reason = fl_frames[f].reason /\ me.out = fl_frames[f].out
      /\ me.seen = fl_frames[f].seen /\ me.failed = fl_frames[f].failed
  BY <1>2, <1>5 DEF FlFrame
<1>7. PICK k \in Nat : k = Len(kids) /\ DOMAIN kids = 1 .. k
  BY <1>3
<1>8. slots \in Seq(Nat) /\ Len(slots) = k /\ \A i \in 1 .. k : slots[i] = i
  <2>1. slots \in [1 .. k -> Nat]
    BY <1>4, <1>7
  <2>2. QED
    BY <1>4, <1>7, <2>1
<1>9. TheFlow!Call(f, me, slots, kids)
  BY <1>3, <1>4, <1>5 DEF TheFlow!ParallelStarts
<1>10. FrameOK(me)
  <2>1. FrameOK(fl_frames[f])
    BY DEF FlowInv
  <2>2. QED
    BY <1>1, <1>6, <2>1 DEF FrameOK, TheFlow!KindOf
<1>11. \A g \in DOMAIN fl_frames : g # 1 => fl_frames[g].parent # f
  BY <1>1, NewHasNone
<1>12. ASSUME NEW i \in 1 .. k
       PROVE  kids[slots[i]] \in FlowNodes /\ KidOK(me, TheFlow!Frame(kids[slots[i]], f, slots[i], me.reason))
  <2>1. slots[i] = i /\ i \in DOMAIN FlowKids[me.node] /\ kids[i] \in FlowNodes
    BY <1>3, <1>6, <1>7, <1>8
  <2>2. PICK kid : kid = TheFlow!Frame(kids[slots[i]], f, slots[i], me.reason)
    OBVIOUS
  <2>3. kid.slot = i /\ kid.reason = me.reason /\ kid.out = "none"
    BY <2>1, <2>2 DEF TheFlow!Frame
  <2>4. KidOK(me, kid)
    BY <1>1, <1>6, <2>1, <2>3 DEF KidOK, TheFlow!KindOf
  <2>5. QED
    BY <2>1, <2>2, <2>4
<1>13. TakesOn(f, me, k, slots, kids)
  BY <1>6, <1>8, <1>10, <1>11, <1>12 DEF TakesOn
<1>14. QED
  BY <1>6, <1>8, <1>9, <1>13, CallKeeps

(* It ends when all have settled: on a suspension, else on the first error. *)
LEMMA ParallelEndKeeps ==
  ASSUME FlowInv, NEW f \in DOMAIN fl_frames, TheFlow!ParallelEnds(f)
  PROVE  FlowInv'
<1>1. TheFlow!KindOf(f) = "parallel" /\ fl_frames[f].out = "none"
  BY DEF TheFlow!ParallelEnds, TheFlow!Open
<1>2. PICK kids \in Seq(FlowNodes) : kids = FlowKids[fl_frames[f].node]
  BY KidsAreNodes
<1>3. PICK outs : outs = [k \in DOMAIN kids |-> TheFlow!Result(f, k)]
  OBVIOUS
<1>4. /\ \A k \in DOMAIN outs : outs[k] # "none"
      /\ IF TheFlow!Aborted(f) THEN TheFlow!SettleAborted(f) ELSE TheFlow!Settle(f, TheFlow!PickError(outs))
  BY <1>2, <1>3 DEF TheFlow!ParallelEnds
<1>5. ASSUME NEW g \in DOMAIN fl_frames, g # 1, fl_frames[g].parent = f
      PROVE  fl_frames[g].slot \in DOMAIN outs /\ outs[fl_frames[g].slot] = fl_frames[g].out
  <2>1. KidOK(fl_frames[f], fl_frames[g])
    BY <1>5 DEF FlowInv
  <2>2. fl_frames[g].slot \in DOMAIN kids
    BY <1>1, <1>2, <2>1 DEF KidOK, TheFlow!KindOf
  <2>3. QED
    BY <1>3, <1>5, <2>2, KidResult
<1>6. CASE TheFlow!Aborted(f)
  <2>1. \A g \in DOMAIN fl_frames : g # 1 /\ fl_frames[g].parent = f => fl_frames[g].out # "none"
    BY <1>4, <1>5
  <2>2. QED
    BY <1>1, <1>4, <1>6, <2>1, SettleAbortedKeeps
<1>7. CASE ~TheFlow!Aborted(f)
  <2>1. PICK out : out = TheFlow!PickError(outs)
    OBVIOUS
  <2>2. \A k \in DOMAIN outs : outs[k] \in {"ok"} \union TheFlow!Errors
          /\ (outs[k] = "aborted" => fl_controller # "none")
    <3>1. ASSUME NEW k \in DOMAIN outs
          PROVE  outs[k] \in {"ok"} \union TheFlow!Errors /\ (outs[k] = "aborted" => fl_controller # "none")
      <4>1. TheFlow!Result(f, k) # "none" /\ outs[k] = TheFlow!Result(f, k)
        BY <1>3, <1>4
      <4>2. PICK g \in DOMAIN fl_frames : fl_frames[g].out = outs[k]
        BY <4>1, ResultOf
      <4>3. FrameOK(fl_frames[g]) /\ fl_frames[g].out \in TheFlow!Outs
        BY FrameFields DEF FlowInv, FlFrame
      <4>4. QED
        BY <4>1, <4>2, <4>3 DEF FrameOK, TheFlow!Outs
    <3>2. QED
      BY <3>1
  <2>3. out = "ok" \/ out = "suspended" \/ \E k \in DOMAIN outs : out = outs[k]
    <3>1. CASE \E k \in DOMAIN outs : outs[k] = "suspended"
      BY <2>1, <3>1 DEF TheFlow!PickError
    <3>2. CASE (\A k \in DOMAIN outs : outs[k] # "suspended") /\ \A k \in DOMAIN outs : outs[k] = "ok"
      BY <2>1, <3>2 DEF TheFlow!PickError
    <3>3. CASE (\A k \in DOMAIN outs : outs[k] # "suspended") /\ \E k \in DOMAIN outs : outs[k] # "ok"
      <4>0. DOMAIN outs = 1 .. Len(kids) /\ Len(kids) \in Nat
        BY <1>2, <1>3
      <4>1. PICK bad : bad = {k \in DOMAIN outs : outs[k] # "ok"}
        OBVIOUS
      <4>2. bad \in SUBSET Nat /\ bad # {}
        BY <3>3, <4>0, <4>1
      <4>3. PICK k \in bad : \A j \in bad : k <= j
        BY <4>2, NatMin
      <4>4. DOMAIN outs = 1 .. Len(kids) /\ Len(kids) \in Nat
        BY <4>0
      <4>5. k \in DOMAIN outs /\ outs[k] # "ok" /\ \A j \in 1 .. k - 1 : outs[j] = "ok"
        <5>1. ASSUME NEW j \in 1 .. k - 1 PROVE outs[j] = "ok"
          <6>1. j \in DOMAIN outs /\ ~(k <= j)
            BY <4>1, <4>4
          <6>2. QED
            BY <4>1, <4>3, <6>1
        <5>2. QED
          BY <4>1, <5>1
      <4>6. out = outs[CHOOSE i \in DOMAIN outs : outs[i] # "ok" /\ \A j \in 1 .. i - 1 : outs[j] = "ok"]
        BY <2>1, <3>3 DEF TheFlow!PickError
      <4>7. QED
        BY <4>5, <4>6
    <3>4. QED
      BY <3>1, <3>2, <3>3
  <2>4. (\E k \in DOMAIN outs : outs[k] = "suspended") => out = "suspended"
    BY <2>1 DEF TheFlow!PickError
  <2>5. out \in {"ok"} \union TheFlow!Errors /\ (out = "aborted" => fl_controller # "none")
    BY <2>2, <2>3 DEF TheFlow!Errors
  <2>6. TheFlow!Settle(f, out)
    BY <1>4, <1>7, <2>1
  <2>7. \A g \in DOMAIN fl_frames : g # 1 /\ fl_frames[g].parent = f =>
          /\ fl_frames[g].out # "none"
          /\ fl_frames[g].out = "suspended" => out = "suspended"
    BY <1>4, <1>5, <2>4
  <2>8. QED
    BY <1>1, <2>5, <2>6, <2>7, SettleKeeps
<1>8. QED
  BY <1>6, <1>7

(* Of a timeout, but for its timer. *)
LEMMA TimeoutKeeps ==
  ASSUME FlowInv, NEW f \in DOMAIN fl_frames, TheFlow!TimeoutStarts(f) \/ TheFlow!TimeoutGivesUp(f)
           \/ TheFlow!TimeoutEnds(f)
  PROVE  FlowInv'
<1>1. TheFlow!KindOf(f) = "timeout" /\ fl_frames[f].out = "none"
  BY DEF TheFlow!TimeoutStarts, TheFlow!TimeoutGivesUp, TheFlow!TimeoutEnds, TheFlow!Open
<1>2. FlTypes /\ fl_frames[f] \in FlFrame
  BY FrameFields DEF FlowInv
<1>3. CASE TheFlow!TimeoutStarts(f)
  <2>1. PICK mode \in {"on", "aborted"} : mode = IF TheFlow!Aborted(f) THEN "aborted" ELSE "on"
    OBVIOUS
  <2>2. PICK me0 : me0 = [fl_frames[f] EXCEPT !.at = 1]
    OBVIOUS
  <2>3. PICK me : me = [me0 EXCEPT !.mode = mode]
    OBVIOUS
  <2>4. /\ me0 \in FlFrame /\ me0.at = 1
        /\ me0.node = fl_frames[f].node /\ me0.parent = fl_frames[f].parent /\ me0.slot = fl_frames[f].slot
        /\ me0.reason = fl_frames[f].reason /\ me0.out = fl_frames[f].out
        /\ me0.seen = fl_frames[f].seen /\ me0.failed = fl_frames[f].failed
    BY <1>2, <2>2 DEF FlFrame
  <2>5. /\ me \in FlFrame /\ me.at = 1 /\ me.mode = mode
        /\ me.node = fl_frames[f].node /\ me.parent = fl_frames[f].parent /\ me.slot = fl_frames[f].slot
        /\ me.reason = fl_frames[f].reason /\ me.out = fl_frames[f].out
        /\ me.seen = fl_frames[f].seen /\ me.failed = fl_frames[f].failed
    BY <2>3, <2>4 DEF FlFrame
  <2>6. me = [fl_frames[f] EXCEPT !.at = 1, !.mode = IF TheFlow!Aborted(f) THEN "aborted" ELSE "on"]
    BY <2>1, <2>2, <2>3
  <2>7. TheFlow!Mode(f) = "new" /\ TheFlow!Call(f, me, <<1>>, FlowKids[fl_frames[f].node])
    BY <1>3, <2>6 DEF TheFlow!TimeoutStarts
  <2>8. PICK slots, node : slots = <<1>> /\ node = FlowKids[fl_frames[f].node]
    OBVIOUS
  <2>9. slots \in Seq(Nat) /\ Len(slots) = 1 /\ slots[1] = 1 /\ node[1] \in FlowNodes
    BY <1>1, <2>8, KidsAreNodes
  <2>10. FrameOK(me)
    <3>1. FrameOK(fl_frames[f])
      BY DEF FlowInv
    <3>2. QED
      BY <1>1, <2>1, <2>5, <3>1 DEF FrameOK, TheFlow!KindOf, TheFlow!Aborted
  <2>11. \A g \in DOMAIN fl_frames : g # 1 => fl_frames[g].parent # f
    BY <2>7, NewHasNone
  <2>12. KidOK(me, TheFlow!Frame(node[1], f, 1, me.reason))
    <3>1. PICK kid : kid = TheFlow!Frame(node[1], f, 1, me.reason)
      OBVIOUS
    <3>2. kid.slot = 1 /\ kid.reason = me.reason /\ kid.out = "none"
      BY <3>1 DEF TheFlow!Frame
    <3>3. KidOK(me, kid)
      BY <1>1, <2>1, <2>5, <3>2 DEF KidOK, TheFlow!KindOf, TheFlow!Aborted
    <3>4. QED
      BY <3>1, <3>3
  <2>13. TakesOn(f, me, 1, slots, node)
    BY <2>5, <2>9, <2>10, <2>11, <2>12 DEF TakesOn
  <2>14. QED
    BY <2>5, <2>7, <2>8, <2>9, <2>13, CallKeeps
<1>4. CASE TheFlow!TimeoutGivesUp(f)
  <2>1. CASE TheFlow!Mode(f) = "timed"
    <3>1. TheFlow!Settle(f, "timeout")
      BY <1>4, <2>1 DEF TheFlow!TimeoutGivesUp
    <3>2. \A g \in DOMAIN fl_frames : g # 1 /\ fl_frames[g].parent = f => fl_frames[g].reason # "none"
      BY <1>1, <2>1 DEF FlowInv, KidOK, TheFlow!KindOf, TheFlow!Mode
    <3>3. "timeout" \in {"ok"} \union TheFlow!Errors /\ "timeout" # "aborted"
      BY DEF TheFlow!Errors
    <3>4. QED
      BY <1>1, <3>1, <3>2, <3>3, SettleKeeps
  <2>2. CASE TheFlow!Mode(f) = "aborted"
    <3>1. TheFlow!SettleAborted(f)
      BY <1>4, <2>2 DEF TheFlow!TimeoutGivesUp
    <3>2. TheFlow!Aborted(f)
      BY <2>2 DEF FlowInv, FrameOK, TheFlow!Mode, TheFlow!Aborted
    <3>3. QED
      BY <1>1, <3>1, <3>2, SettleAbortedKeeps
  <2>3. QED
    BY <1>4, <2>1, <2>2 DEF TheFlow!TimeoutGivesUp
<1>5. CASE TheFlow!TimeoutEnds(f)
  BY <1>1, <1>5, SettleGotKeeps DEF TheFlow!TimeoutEnds
<1>6. QED
  BY <1>3, <1>4, <1>5

(* A map starts its workers, no more than its limit. *)
LEMMA MapStartKeeps ==
  ASSUME FlowInv, NEW f \in DOMAIN fl_frames, TheFlow!MapStarts(f)
  PROVE  FlowInv'
<1>1. TheFlow!KindOf(f) = "map" /\ fl_frames[f].out = "none" /\ TheFlow!Mode(f) = "new"
  BY DEF TheFlow!MapStarts, TheFlow!Open
<1>2. FlTypes /\ fl_frames[f] \in FlFrame
  BY FrameFields DEF FlowInv
<1>3. \A g \in DOMAIN fl_frames : g # 1 => fl_frames[g].parent # f
  BY <1>1, NewHasNone
<1>4. CASE TheFlow!Settle(f, "error")
  BY <1>1, <1>3, <1>4, SettleKeeps DEF TheFlow!Errors
<1>5. CASE ~TheFlow!Settle(f, "error")
  <2>1. PICK limit \in Nat \ {0}, size \in Nat \ {0}, node \in FlowNodes :
          limit = FlowLimit[fl_frames[f].node] /\ size = TheFlow!Size(f) /\ node = FlowKids[fl_frames[f].node][1]
    BY <1>1, KidsAreNodes DEF TheFlow!Size
  <2>2. PICK first \in Nat : /\ first <= limit
                             /\ first = IF TheFlow!Aborted(f) THEN 0 ELSE IF limit < size THEN limit ELSE size
    OBVIOUS
  <2>3. PICK slots, nodes : slots = [k \in 1 .. first |-> k] /\ nodes = [k \in 1 .. first |-> node]
    OBVIOUS
  <2>4. PICK me0 : me0 = [fl_frames[f] EXCEPT !.mode = "on"]
    OBVIOUS
  <2>5. PICK me : me = [me0 EXCEPT !.at = first]
    OBVIOUS
  <2>6. /\ me0 \in FlFrame /\ me0.mode = "on"
        /\ me0.node = fl_frames[f].node /\ me0.parent = fl_frames[f].parent /\ me0.slot = fl_frames[f].slot
        /\ me0.reason = fl_frames[f].reason /\ me0.out = fl_frames[f].out
        /\ me0.seen = fl_frames[f].seen /\ me0.failed = fl_frames[f].failed
    BY <1>2, <2>4 DEF FlFrame
  <2>7. /\ me \in FlFrame /\ me.at = first /\ me.mode = "on"
        /\ me.node = fl_frames[f].node /\ me.parent = fl_frames[f].parent /\ me.slot = fl_frames[f].slot
        /\ me.reason = fl_frames[f].reason /\ me.out = fl_frames[f].out
        /\ me.seen = fl_frames[f].seen /\ me.failed = fl_frames[f].failed
    BY <2>5, <2>6 DEF FlFrame
  <2>8. me = [fl_frames[f] EXCEPT !.mode = "on", !.at = first]
    BY <2>4, <2>5
  <2>9. TheFlow!Call(f, me, slots, nodes)
    BY <1>1, <1>5, <2>1, <2>2, <2>3, <2>8 DEF TheFlow!MapStarts
  <2>10. slots \in Seq(Nat) /\ Len(slots) = first /\ \A i \in 1 .. first : slots[i] = i /\ nodes[slots[i]] = node
    <3>1. slots \in [1 .. first -> Nat]
      BY <2>3
    <3>2. QED
      BY <2>3, <3>1
  <2>11. fl_frames[f].at = 0 /\ fl_frames[f].seen = {} /\ fl_frames[f].failed = "none"
    <3>1. FrameOK(fl_frames[f])
      BY DEF FlowInv
    <3>2. QED
      BY <1>1, <3>1 DEF FrameOK, TheFlow!Mode, TheFlow!KindOf
  <2>12. FrameOK(me)
    <3>1. FrameOK(fl_frames[f])
      BY DEF FlowInv
    <3>2. FlowLimit[me.node] = 1 => 1 .. first - 1 = {}
      BY <2>1, <2>2, <2>7
    <3>3. QED
      BY <1>1, <2>7, <2>11, <3>1, <3>2 DEF FrameOK, TheFlow!KindOf
  <2>13. ASSUME NEW i \in 1 .. first
         PROVE  nodes[slots[i]] \in FlowNodes /\ KidOK(me, TheFlow!Frame(nodes[slots[i]], f, slots[i], me.reason))
    <3>1. PICK kid : kid = TheFlow!Frame(nodes[slots[i]], f, slots[i], me.reason)
      OBVIOUS
    <3>2. kid.slot = i /\ kid.reason = me.reason /\ kid.out = "none"
      BY <2>10, <3>1 DEF TheFlow!Frame
    <3>3. KidOK(me, kid)
      BY <1>1, <2>7, <2>11, <3>2 DEF KidOK, TheFlow!KindOf
    <3>4. QED
      BY <2>10, <3>1, <3>3
  <2>14. TakesOn(f, me, first, slots, nodes)
    BY <1>3, <2>7, <2>10, <2>12, <2>13 DEF TakesOn
  <2>15. QED
    BY <2>7, <2>9, <2>10, <2>14, CallKeeps
<1>6. QED
  BY <1>4, <1>5

(* A worker is done with an item: a suspension becomes the outcome of the   *)
(* map, unless it has another error already.                                *)
LEMMA MapTakeKeeps ==
  ASSUME FlowInv, NEW f \in DOMAIN fl_frames, NEW item \in Nat, TheFlow!MapTakes(f, item)
  PROVE  FlowInv'
<1>1. /\ TheFlow!KindOf(f) = "map" /\ fl_frames[f].out = "none" /\ fl_frames[f].mode = "on"
      /\ item \in (1 .. fl_frames[f].at) \ fl_frames[f].seen /\ TheFlow!Result(f, item) # "none"
  BY DEF TheFlow!MapTakes, TheFlow!Open, TheFlow!Mode, TheFlow!At
<1>2. FlTypes /\ fl_frames[f] \in FlFrame /\ f \in Nat
  BY FrameFields DEF FlowInv, FlTypes
<1>3. PICK at \in Nat, node \in FlowNodes : at = fl_frames[f].at /\ node = FlowKids[fl_frames[f].node][1]
  BY <1>1, <1>2, KidsAreNodes DEF FlFrame
<1>4. PICK seen \in SUBSET Nat : seen = fl_frames[f].seen
  BY <1>2 DEF FlFrame
<1>5. PICK out : out = TheFlow!Result(f, item)
  OBVIOUS
<1>6. PICK h \in DOMAIN fl_frames : h # 1 /\ fl_frames[h].parent = f /\ fl_frames[h].slot = item
             /\ fl_frames[h].out = out
  BY <1>1, <1>5, ResultOf
<1>7. out \in {"ok"} \union TheFlow!Errors /\ (out = "aborted" => fl_controller # "none")
  <2>1. fl_frames[h] \in FlFrame /\ FrameOK(fl_frames[h])
    BY FrameFields DEF FlowInv
  <2>2. QED
    BY <1>1, <1>5, <1>6, <2>1 DEF FlFrame, TheFlow!Outs, FrameOK
<1>8. PICK failed : failed = IF fl_frames[f].failed = "none" /\ out # "ok" /\ ~TheFlow!Kept(f, out) THEN out
             ELSE fl_frames[f].failed
  OBVIOUS
<1>9. failed \in {"none"} \union TheFlow!Errors
  BY <1>2, <1>7, <1>8 DEF FlFrame
<1>10. PICK goes \in BOOLEAN : goes = (~TheFlow!Aborted(f) /\ failed = "none" /\ at + 1 <= TheFlow!Size(f))
  OBVIOUS
<1>11. PICK at2 \in Nat : at2 = IF goes THEN at + 1 ELSE at
  OBVIOUS
<1>12. PICK me0 : me0 = [fl_frames[f] EXCEPT !.seen = seen \union {item}]
  OBVIOUS
<1>13. PICK me1 : me1 = [me0 EXCEPT !.failed = failed]
  OBVIOUS
<1>14. PICK me : me = [me1 EXCEPT !.at = at2]
  OBVIOUS
<1>15. /\ me0 \in FlFrame /\ me0.seen = seen \union {item} /\ me0.at = at /\ me0.mode = "on"
       /\ me0.node = fl_frames[f].node /\ me0.parent = fl_frames[f].parent /\ me0.slot = fl_frames[f].slot
       /\ me0.reason = fl_frames[f].reason /\ me0.out = fl_frames[f].out
  BY <1>1, <1>2, <1>3, <1>4, <1>12 DEF FlFrame
<1>16. /\ me1 \in FlFrame /\ me1.seen = seen \union {item} /\ me1.at = at /\ me1.mode = "on" /\ me1.failed = failed
       /\ me1.node = fl_frames[f].node /\ me1.parent = fl_frames[f].parent /\ me1.slot = fl_frames[f].slot
       /\ me1.reason = fl_frames[f].reason /\ me1.out = fl_frames[f].out
  BY <1>9, <1>13, <1>15 DEF FlFrame
<1>17. /\ me \in FlFrame /\ me.seen = seen \union {item} /\ me.at = at2 /\ me.mode = "on" /\ me.failed = failed
       /\ me.node = fl_frames[f].node /\ me.parent = fl_frames[f].parent /\ me.slot = fl_frames[f].slot
       /\ me.reason = fl_frames[f].reason /\ me.out = fl_frames[f].out
  BY <1>14, <1>16 DEF FlFrame
<1>18. FrameOK(fl_frames[f])
  BY DEF FlowInv
<1>19. /\ seen \subseteq 1 .. at
       /\ fl_frames[f].node \in FlowSettling /\ fl_frames[f].failed # "none" =>
            fl_frames[f].failed = "suspended" \/ fl_frames[f].reason # "none"
       /\ FlowLimit[fl_frames[f].node] = 1 => /\ 1 .. at - 1 \subseteq seen /\ fl_frames[f].failed = "none"
                                              /\ seen \union {item} = 1 .. at
  <2>1. FlowKind[fl_frames[f].node] = "map"
    BY <1>1 DEF TheFlow!KindOf
  <2>2. /\ seen \subseteq 1 .. at
        /\ FlowLimit[fl_frames[f].node] = 1 => /\ 1 .. at - 1 \subseteq seen
                                               /\ fl_frames[f].failed # "none" => seen = 1 .. at
    BY <1>3, <1>4, <1>18, <2>1 DEF FrameOK
  <2>3. ASSUME FlowLimit[fl_frames[f].node] = 1
        PROVE  fl_frames[f].failed = "none" /\ seen \union {item} = 1 .. at
    <3>1. item \in 1 .. at /\ item \notin seen
      BY <1>1, <1>3, <1>4
    <3>2. item = at
      BY <2>2, <2>3, <3>1
    <3>3. fl_frames[f].failed = "none"
      BY <2>2, <2>3, <3>1
    <3>4. seen \subseteq 1 .. at /\ 1 .. at - 1 \subseteq seen
      BY <2>2, <2>3
    <3>5. \A i \in 1 .. at : i \in seen \union {at}
      BY <3>4
    <3>6. QED
      BY <3>1, <3>2, <3>3, <3>4, <3>5
  <2>4. QED
    BY <1>18, <2>1, <2>2, <2>3 DEF FrameOK
<1>20. FrameOK(me)
  <2>1. failed = "aborted" => fl_controller # "none"
    BY <1>7, <1>8, <1>18 DEF FrameOK
  <2>2. seen \union {item} \subseteq 1 .. at2
    BY <1>1, <1>3, <1>4, <1>11, <1>19
  <2>3. fl_frames[f].node \in FlowSettling /\ failed # "none"
          => failed = "suspended" \/ fl_frames[f].reason # "none"
    <3>1. CASE failed = fl_frames[f].failed
      BY <1>19, <3>1
    <3>2. CASE failed # fl_frames[f].failed
      <4>1. failed = out /\ out # "ok" /\ ~TheFlow!Kept(f, out)
        BY <1>8, <3>2
      <4>2. fl_frames[f].node \in FlowSettling => out \in {"suspended", "aborted"} \/ fl_frames[f].reason # "none"
        BY <1>7, <4>1 DEF TheFlow!Kept, TheFlow!Failure, TheFlow!is_control_flow_error, TheFlow!Aborted
      <4>3. QED
        BY <1>7, <1>18, <4>1, <4>2 DEF FrameOK
    <3>3. QED
      BY <3>1, <3>2
  <2>4. FlowLimit[fl_frames[f].node] = 1 => /\ 1 .. at2 - 1 \subseteq seen \union {item}
                                            /\ failed # "none" => seen \union {item} = 1 .. at2
    <3>1. CASE goes
      <4>1. failed = "none"
        BY <1>10, <3>1
      <4>2. at2 = at + 1
        BY <1>11, <3>1
      <4>3. at2 - 1 = at
        BY <4>2
      <4>4. QED
        BY <1>19, <4>1, <4>3
    <3>2. CASE ~goes
      <4>1. at2 = at
        BY <1>11, <3>2
      <4>2. QED
        BY <1>19, <4>1
    <3>3. QED
      BY <3>1, <3>2
  <2>5. QED
    BY <1>1, <1>17, <1>18, <2>1, <2>2, <2>3, <2>4 DEF FrameOK, TheFlow!KindOf
<1>21. ASSUME NEW g \in DOMAIN fl_frames, g # 1, fl_frames[g].parent = f
       PROVE  KidOK(me, fl_frames[g]) /\ fl_frames[g].slot \in 1 .. at
  <2>1. KidOK(fl_frames[f], fl_frames[g])
    BY <1>21 DEF FlowInv
  <2>2. fl_frames[g].slot \in 1 .. at
    BY <1>1, <1>3, <2>1 DEF KidOK, TheFlow!KindOf
  <2>3. fl_frames[g].slot \in 1 .. at2
    BY <1>11, <2>2
  <2>4. ASSUME fl_frames[g].slot \in seen \union {item}
        PROVE  /\ fl_frames[g].out # "none"
               /\ Careful /\ fl_frames[g].out = "suspended" /\ fl_frames[g].reason = "none" => failed = "suspended"
    <3>1. CASE fl_frames[g].slot \in seen
      BY <1>1, <1>4, <1>8, <2>1, <3>1 DEF KidOK, TheFlow!KindOf
    <3>2. CASE fl_frames[g].slot = item
      <4>1. fl_frames[g].out = out
        BY <1>5, <1>21, <3>2, KidResult
      <4>2. ASSUME Careful, out = "suspended", fl_frames[g].reason = "none" PROVE failed = "suspended"
        <5>1. fl_frames[f].reason = "none"
          BY <2>1, <4>2 DEF KidOK
        <5>2. ~TheFlow!Kept(f, out)
          BY <4>2 DEF TheFlow!Kept, TheFlow!Failure, TheFlow!is_control_flow_error
        <5>3. fl_frames[f].node \in FlowSettling \/ FlowLimit[fl_frames[f].node] = 1
          BY <1>1, <4>2, FrameFields DEF Careful, FlowInv, TheFlow!KindOf
        <5>4. fl_frames[f].failed \in {"none", "suspended"}
          BY <1>19, <5>1, <5>3
        <5>5. QED
          BY <1>8, <4>2, <5>2, <5>4
      <4>3. QED
        BY <1>1, <1>5, <4>1, <4>2
    <3>3. QED
      BY <2>4, <3>1, <3>2
  <2>5. KidOK(me, fl_frames[g])
    BY <1>1, <1>17, <2>1, <2>3, <2>4 DEF KidOK, TheFlow!KindOf
  <2>6. QED
    BY <2>2, <2>5
<1>22. CASE goes
  <2>1. PICK slots, nodes : slots = <<at + 1>> /\ nodes = [s \in {at + 1} |-> node]
    OBVIOUS
  <2>2. slots \in Seq(Nat) /\ Len(slots) = 1 /\ slots[1] = at + 1 /\ nodes[at + 1] = node
    BY <2>1
  <2>3. me = [[fl_frames[f] EXCEPT !.seen = @ \union {item}, !.failed = failed] EXCEPT !.at = at + 1]
    BY <1>2, <1>4, <1>11, <1>12, <1>13, <1>14, <1>22
  <2>4. TheFlow!Call(f, me, slots, nodes)
    BY <1>3, <1>5, <1>8, <1>10, <1>22, <2>1, <2>3 DEF TheFlow!MapTakes, TheFlow!At
  <2>5. KidOK(me, TheFlow!Frame(node, f, at + 1, me.reason))
    <3>1. PICK kid : kid = TheFlow!Frame(node, f, at + 1, me.reason)
      OBVIOUS
    <3>2. kid.slot = at + 1 /\ kid.reason = me.reason /\ kid.out = "none"
      BY <3>1 DEF TheFlow!Frame
    <3>3. at + 1 \notin seen \union {item} /\ at + 1 \in 1 .. at2
      BY <1>1, <1>3, <1>11, <1>19, <1>22
    <3>4. KidOK(me, kid)
      BY <1>1, <1>17, <3>2, <3>3 DEF KidOK, TheFlow!KindOf
    <3>5. QED
      BY <3>1, <3>4
  <2>6. \A g \in DOMAIN fl_frames : g # 1 /\ fl_frames[g].parent = f
          => KidOK(me, fl_frames[g]) /\ fl_frames[g].slot # at + 1
    BY <1>21
  <2>7. TakesOn(f, me, 1, slots, nodes)
    BY <1>17, <1>20, <2>2, <2>5, <2>6 DEF TakesOn
  <2>8. QED
    BY <1>17, <2>2, <2>4, <2>7, CallKeeps
<1>23. CASE ~goes
  <2>1. PICK slots, nodes : slots = <<>> /\ nodes = <<>>
    OBVIOUS
  <2>2. slots \in Seq(Nat) /\ Len(slots) = 0
    BY <2>1
  <2>3. me = [fl_frames[f] EXCEPT !.seen = @ \union {item}, !.failed = failed]
    <3>1. me = me1
      BY <1>2, <1>11, <1>13, <1>14, <1>15, <1>16, <1>23 DEF FlFrame
    <3>2. QED
      BY <1>4, <1>12, <1>13, <3>1
  <2>4. TheFlow!Call(f, me, slots, nodes)
    BY <1>3, <1>5, <1>8, <1>10, <1>23, <2>1, <2>3 DEF TheFlow!MapTakes, TheFlow!At
  <2>5. TakesOn(f, me, 0, slots, nodes)
    BY <1>17, <1>20, <1>21, <2>2 DEF TakesOn
  <2>6. QED
    BY <1>17, <2>2, <2>4, <2>5, CallKeeps
<1>24. QED
  BY <1>22, <1>23

(* It ends when all that was taken has settled. *)
LEMMA MapEndKeeps ==
  ASSUME FlowInv, NEW f \in DOMAIN fl_frames, TheFlow!MapEnds(f)
  PROVE  FlowInv'
<1>1. /\ TheFlow!KindOf(f) = "map" /\ fl_frames[f].out = "none" /\ fl_frames[f].seen = 1 .. fl_frames[f].at
      /\ IF TheFlow!Aborted(f) THEN TheFlow!SettleAborted(f)
         ELSE TheFlow!Settle(f, IF fl_frames[f].failed # "none" THEN fl_frames[f].failed ELSE "ok")
  BY DEF TheFlow!MapEnds, TheFlow!Open, TheFlow!At
<1>2. ASSUME NEW g \in DOMAIN fl_frames, g # 1, fl_frames[g].parent = f
      PROVE  /\ fl_frames[g].out # "none"
             /\ Careful /\ fl_frames[g].out = "suspended" /\ fl_frames[g].reason = "none"
                  => fl_frames[f].failed = "suspended"
  <2>1. KidOK(fl_frames[f], fl_frames[g])
    BY <1>2 DEF FlowInv
  <2>2. fl_frames[g].slot \in fl_frames[f].seen
    BY <1>1, <2>1 DEF KidOK, TheFlow!KindOf
  <2>3. QED
    BY <1>1, <2>1, <2>2 DEF KidOK, TheFlow!KindOf
<1>3. CASE TheFlow!Aborted(f)
  BY <1>1, <1>2, <1>3, SettleAbortedKeeps
<1>4. CASE ~TheFlow!Aborted(f)
  <2>1. PICK out : out = IF fl_frames[f].failed # "none" THEN fl_frames[f].failed ELSE "ok"
    OBVIOUS
  <2>2. out \in {"ok"} \union TheFlow!Errors
    BY <2>1, FrameFields DEF FlowInv, FlFrame
  <2>3. out = "aborted" => fl_controller # "none"
    <3>1. FrameOK(fl_frames[f])
      BY DEF FlowInv
    <3>2. QED
      BY <2>1, <3>1 DEF FrameOK
  <2>4. TheFlow!Settle(f, out)
    BY <1>1, <1>4, <2>1
  <2>5. QED
    BY <1>1, <1>2, <2>1, <2>2, <2>3, <2>4, SettleKeeps
<1>5. QED
  BY <1>3, <1>4

----------------------------------------------------------------------------
(* Whether g is under f, given who of those before it is. *)
IsUnder(f, u, g) == g > f /\ (fl_frames[g].parent = f \/ u[fl_frames[g].parent])

(* The function that Under(f) is written with exists: of what is on less   *)
(* than all frames, there is always one on one more.                       *)
LEMMA UnderExists ==
  ASSUME FlTypes, NEW f \in DOMAIN fl_frames
  PROVE  \E u : u = [g \in 0 .. Len(fl_frames) |-> IsUnder(f, u, g)]
<1> DEFINE Has(m) == \E u \in [0 .. m -> BOOLEAN] : \A g \in 0 .. m : u[g] = IsUnder(f, u, g)
<1>n. PICK n \in Nat : n = Len(fl_frames) /\ DOMAIN fl_frames = 1 .. n
  BY DEF FlTypes
<1>f. f \in 1 .. n /\ \A g \in 1 .. n : g > 1 => fl_frames[g].parent \in 1 .. g - 1
  BY <1>n DEF FlTypes
<1>1. Has(0)
  <2>1. PICK u : u = [g \in 0 .. 0 |-> FALSE]
    OBVIOUS
  <2>2. u \in [0 .. 0 -> BOOLEAN]
    BY <2>1
  <2>3. ASSUME NEW g \in 0 .. 0 PROVE u[g] = IsUnder(f, u, g)
    <3>1. g = 0 /\ ~(g > f) /\ u[g] = FALSE
      BY <1>f, <2>1
    <3>2. QED
      BY <3>1 DEF IsUnder
  <2>4. QED
    BY <2>2, <2>3
<1>2. ASSUME NEW m \in 1 .. n, Has(m - 1) PROVE Has(m)
  <2>1. PICK u \in [0 .. m - 1 -> BOOLEAN] : \A g \in 0 .. m - 1 : u[g] = IsUnder(f, u, g)
    BY <1>2
  <2>2. PICK b \in BOOLEAN : b = IsUnder(f, u, m)
    BY DEF IsUnder
  <2>3. PICK v : v = [g \in 0 .. m |-> IF g < m THEN u[g] ELSE b]
    OBVIOUS
  <2>4. v \in [0 .. m -> BOOLEAN]
    <3>1. \A g \in 0 .. m : g < m => g \in 0 .. m - 1
      BY <1>2
    <3>2. QED
      BY <2>3, <3>1
  <2>5. ASSUME NEW g \in 0 .. m PROVE v[g] = IsUnder(f, v, g)
    <3>1. g > f => fl_frames[g].parent \in 0 .. g - 1
      BY <1>f, <1>2
    <3>2. g > f => v[fl_frames[g].parent] = u[fl_frames[g].parent]
      <4>1. ASSUME NEW p \in 0 .. g - 1 PROVE v[p] = u[p]
        <5>1. p \in 0 .. m /\ p < m
          BY <1>2
        <5>2. QED
          BY <2>3, <5>1
      <4>2. QED
        BY <3>1, <4>1
    <3>3. IsUnder(f, v, g) = IsUnder(f, u, g)
      BY <3>2 DEF IsUnder
    <3>4. CASE g < m
      <4>1. g \in 0 .. m - 1 /\ v[g] = u[g]
        BY <1>2, <2>3, <3>4
      <4>2. QED
        BY <2>1, <3>3, <4>1
    <3>5. CASE g = m
      <4>1. v[g] = b
        BY <2>3, <3>5
      <4>2. QED
        BY <2>2, <3>3, <3>5, <4>1
    <3>6. QED
      BY <1>2, <3>4, <3>5
  <2>6. QED
    BY <2>4, <2>5
<1>3. Has(n)
  <2>1. SUFFICES ASSUME ~Has(n) PROVE FALSE
    OBVIOUS
  <2>2. PICK S : S = {m \in 0 .. n : ~Has(m)}
    OBVIOUS
  <2>3. S \in SUBSET Nat /\ S # {}
    BY <2>1, <2>2
  <2>4. PICK m \in S : \A k \in S : m <= k
    BY <2>3, NatMin
  <2>5. m \in 0 .. n /\ ~Has(m)
    BY <2>2, <2>4
  <2>6. m # 0
    BY <1>1, <2>5
  <2>7. m \in 1 .. n /\ m - 1 \in 0 .. n /\ ~(m <= m - 1)
    BY <2>5, <2>6
  <2>8. Has(m - 1)
    BY <2>2, <2>4, <2>7
  <2>9. QED
    BY <1>2, <2>5, <2>7, <2>8
<1>4. PICK u \in [0 .. n -> BOOLEAN] : \A g \in 0 .. n : u[g] = IsUnder(f, u, g)
  BY <1>3
<1>5. u = [g \in 0 .. n |-> IsUnder(f, u, g)]
  BY <1>4
<1>6. QED
  BY <1>n, <1>5

(* A frame is under another if that is its parent or above its parent. *)
LEMMA UnderIs ==
  ASSUME FlTypes, NEW f \in DOMAIN fl_frames
  PROVE  /\ TheFlow!Under(f) \subseteq DOMAIN fl_frames
         /\ \A g \in DOMAIN fl_frames :
              g \in TheFlow!Under(f) <=> g > f
                /\ (fl_frames[g].parent = f \/ fl_frames[g].parent \in TheFlow!Under(f))
<1>n. PICK n \in Nat : n = Len(fl_frames) /\ DOMAIN fl_frames = 1 .. n
  BY DEF FlTypes
<1>1. PICK u : u = CHOOSE w : w = [g \in 0 .. Len(fl_frames) |-> IsUnder(f, w, g)]
  OBVIOUS
<1>2. u = [g \in 0 .. Len(fl_frames) |-> IsUnder(f, u, g)]
  BY <1>1, UnderExists
<1>3. TheFlow!Under(f) = {g \in DOMAIN fl_frames : u[g]}
  BY <1>1 DEF TheFlow!Under, IsUnder
<1>4. ASSUME NEW g \in DOMAIN fl_frames
      PROVE  g \in TheFlow!Under(f) <=> g > f
               /\ (fl_frames[g].parent = f \/ fl_frames[g].parent \in TheFlow!Under(f))
  <2>1. u[g] = IsUnder(f, u, g)
    BY <1>n, <1>2
  <2>2. g \in TheFlow!Under(f) <=> g > f /\ (fl_frames[g].parent = f \/ u[fl_frames[g].parent])
    BY <1>3, <2>1 DEF IsUnder
  <2>3. ASSUME g > f PROVE u[fl_frames[g].parent] <=> fl_frames[g].parent \in TheFlow!Under(f)
    <3>1. g # 1
      BY <1>n, <2>3
    <3>2. fl_frames[g].parent \in DOMAIN fl_frames
      BY <3>1, FrameFields
    <3>3. QED
      BY <1>3, <3>2
  <2>4. QED
    BY <2>2, <2>3
<1>5. QED
  BY <1>3, <1>4

----------------------------------------------------------------------------
(* The signals of the frames fs fire, and the timeout f, if any, gives up. *)
SignalsFire(fs, f, reason) ==
  /\ fl_frames' \in Seq(FlFrame) /\ DOMAIN fl_frames' = DOMAIN fl_frames
  /\ \A g \in DOMAIN fl_frames :
       /\ fl_frames'[g].node = fl_frames[g].node /\ fl_frames'[g].parent = fl_frames[g].parent
       /\ fl_frames'[g].slot = fl_frames[g].slot /\ fl_frames'[g].at = fl_frames[g].at
       /\ fl_frames'[g].seen = fl_frames[g].seen /\ fl_frames'[g].failed = fl_frames[g].failed
       /\ fl_frames'[g].out = fl_frames[g].out
       /\ fl_frames'[g].reason = IF g \in fs /\ fl_frames[g].reason = "none" THEN reason ELSE fl_frames[g].reason
       /\ \/ fl_frames'[g].mode = fl_frames[g].mode
          \/ TheFlow!KindOf(g) = "timeout" /\ fl_frames[g].mode = "on" /\ g \in fs /\ fl_frames'[g].mode = "aborted"
          \/ TheFlow!KindOf(g) = "timeout" /\ fl_frames[g].mode = "on" /\ g = f /\ fl_frames'[g].mode = "timed"

(* They are all below what they are of, or all there are. *)
LEMMA FiresKeeps ==
  ASSUME FlowInv, NEW fs, NEW f, NEW reason \in TheFlow!Reasons, SignalsFire(fs, f, reason),
         fl_controller' \in {"none", "typed", "plain"}, fl_controller # "none" => fl_controller' # "none",
         reason = "typed" => fl_controller' # "none",
         fl_controller' # "none" => fl_controller # "none" \/ fs = DOMAIN fl_frames,
         \A g \in DOMAIN fl_frames : g # 1 /\ (fl_frames[g].parent \in fs \/ fl_frames[g].parent = f) => g \in fs
  PROVE  FlowInv'
<1> USE DEF SignalsFire
<1>1. FlTypes
  BY DEF FlowInv
<1>2. 1 \in DOMAIN fl_frames /\ fl_frames' # <<>>
  BY <1>1 DEF FlTypes
<1>3. reason # "none"
  BY DEF TheFlow!Reasons
<1>4. FlTypes'
  <2>1. fl_frames'[1].parent = 0
    BY <1>1, <1>2 DEF FlTypes
  <2>2. \A g \in DOMAIN fl_frames' : g # 1 => fl_frames'[g].parent \in 1 .. g - 1
    BY <1>1 DEF FlTypes
  <2>3. QED
    BY <1>2, <2>1, <2>2 DEF FlTypes
<1>5. ASSUME NEW g \in DOMAIN fl_frames PROVE FrameOK(fl_frames[g])'
  <2>1. FrameOK(fl_frames[g])
    BY DEF FlowInv
  <2>2. fl_controller' # "none" => fl_frames'[g].reason # "none"
    BY <1>3, <2>1 DEF FrameOK
  <2>3. fl_frames'[g].mode = "new" => fl_frames[g].mode = "new"
    OBVIOUS
  <2>4. fl_frames'[g].mode = "aborted" => fl_frames'[g].reason # "none"
    BY <1>3, <2>1 DEF FrameOK
  <2>5. fl_frames'[g].reason = "typed" => fl_controller' # "none"
    BY <2>1 DEF FrameOK
  <2>6. fl_frames[g].reason # "none" => fl_frames'[g].reason # "none"
    OBVIOUS
  <2>7. QED
    BY <2>1, <2>2, <2>3, <2>4, <2>5, <2>6 DEF FrameOK
<1>6. ASSUME NEW g \in DOMAIN fl_frames, g # 1 PROVE KidOK(fl_frames[fl_frames[g].parent], fl_frames[g])'
  <2>1. PICK p \in DOMAIN fl_frames : p = fl_frames[g].parent
    BY <1>1, <1>6, FrameFields
  <2>2. KidOK(fl_frames[p], fl_frames[g])
    BY <1>6, <2>1 DEF FlowInv
  <2>3. PICK me, kid, me2, kid2 : me = fl_frames[p] /\ kid = fl_frames[g] /\ me2 = fl_frames'[p]
               /\ kid2 = fl_frames'[g]
    OBVIOUS
  <2>4. /\ me2.node = me.node /\ me2.at = me.at /\ me2.seen = me.seen /\ me2.failed = me.failed
        /\ me2.out = me.out /\ kid2.slot = kid.slot /\ kid2.out = kid.out
    BY <2>1, <2>3
  <2>5. kid2.reason = "none" => kid.reason = "none"
    BY <1>3, <2>3
  <2>6. me2.reason # "none" => kid2.reason # "none"
    <3>1. CASE me.reason # "none"
      BY <2>2, <2>3, <2>5, <3>1 DEF KidOK
    <3>2. CASE me.reason = "none" /\ me2.reason # "none"
      <4>1. p \in fs
        BY <2>1, <2>3, <3>2
      <4>2. g \in fs
        BY <1>6, <2>1, <4>1
      <4>3. QED
        BY <1>3, <2>3, <4>2
    <3>3. QED
      BY <3>1, <3>2
  <2>7. me2.mode # "new" /\ (me2.mode = "backoff" => me.mode = "backoff")
    BY <2>1, <2>2, <2>3 DEF KidOK
  <2>8. FlowKind[me.node] = "timeout" /\ me2.mode \in {"timed", "aborted"} => kid2.reason # "none"
    <3>1. CASE me2.mode = me.mode
      BY <2>2, <2>3, <2>5, <3>1 DEF KidOK
    <3>2. CASE p \in fs \/ p = f
      <4>1. g \in fs
        BY <1>6, <2>1, <3>2
      <4>2. QED
        BY <1>3, <2>3, <4>1
    <3>3. QED
      BY <2>1, <2>3, <3>1, <3>2
  <2>9. KidOK(me, kid)
    BY <2>2, <2>3
  <2>10. KidOK(me2, kid2)
    BY <2>4, <2>5, <2>6, <2>7, <2>8, <2>9 DEF KidOK, Passed
  <2>11. KidOK(fl_frames'[fl_frames'[g].parent], fl_frames'[g])
    BY <2>1, <2>3, <2>10
  <2>12. QED
    BY <2>11 DEF KidOK, Passed
<1>7. OneASlot'
  BY DEF FlowInv, OneASlot
<1>8. QED
  BY <1>4, <1>5, <1>6, <1>7 DEF FlowInv

(* What Fire makes of a frame. *)
LEMMA FireOf ==
  ASSUME FlTypes, NEW fs, NEW reason \in TheFlow!Reasons, NEW g \in DOMAIN fl_frames, NEW me,
           me = TheFlow!Fire(fs, reason)[g]
  PROVE  /\ me \in FlFrame
         /\ me.node = fl_frames[g].node /\ me.parent = fl_frames[g].parent
         /\ me.slot = fl_frames[g].slot /\ me.at = fl_frames[g].at
         /\ me.seen = fl_frames[g].seen /\ me.failed = fl_frames[g].failed
         /\ me.out = fl_frames[g].out
         /\ me.reason = IF g \in fs /\ fl_frames[g].reason = "none" THEN reason ELSE fl_frames[g].reason
         /\ \/ me.mode = fl_frames[g].mode
            \/ TheFlow!KindOf(g) = "timeout" /\ fl_frames[g].mode = "on" /\ g \in fs /\ me.mode = "aborted"
<1>1. fl_frames[g] \in FlFrame
  BY FrameFields
<1>2. CASE g \notin fs \/ TheFlow!Aborted(g)
  <2>1. me = fl_frames[g]
    BY <1>2 DEF TheFlow!Fire
  <2>2. QED
    BY <1>1, <1>2, <2>1 DEF TheFlow!Aborted
<1>3. CASE g \in fs /\ ~TheFlow!Aborted(g)
  <2>1. PICK mode : mode = IF TheFlow!Open(g, "timeout") /\ fl_frames[g].mode = "on" /\ TheFlow!Got(g) = "none"
                           THEN "aborted" ELSE fl_frames[g].mode
    OBVIOUS
  <2>2. mode = fl_frames[g].mode \/ (TheFlow!KindOf(g) = "timeout" /\ fl_frames[g].mode = "on" /\ mode = "aborted")
    BY <2>1 DEF TheFlow!Open
  <2>3. mode \in {"new", "on", "backoff", "timed", "aborted"}
    BY <1>1, <2>2 DEF FlFrame
  <2>4. PICK me0 : me0 = [fl_frames[g] EXCEPT !.reason = reason]
    OBVIOUS
  <2>5. me = [me0 EXCEPT !.mode = mode]
    BY <1>1, <1>3, <2>1, <2>4 DEF TheFlow!Fire
  <2>6. /\ me0 \in FlFrame /\ me0.reason = reason
        /\ me0.node = fl_frames[g].node /\ me0.parent = fl_frames[g].parent
        /\ me0.slot = fl_frames[g].slot /\ me0.at = fl_frames[g].at
        /\ me0.seen = fl_frames[g].seen /\ me0.failed = fl_frames[g].failed
        /\ me0.out = fl_frames[g].out
    BY <1>1, <2>4 DEF FlFrame
  <2>7. /\ me \in FlFrame /\ me.reason = reason /\ me.mode = mode
        /\ me.node = fl_frames[g].node /\ me.parent = fl_frames[g].parent
        /\ me.slot = fl_frames[g].slot /\ me.at = fl_frames[g].at
        /\ me.seen = fl_frames[g].seen /\ me.failed = fl_frames[g].failed
        /\ me.out = fl_frames[g].out
    BY <2>3, <2>5, <2>6 DEF FlFrame
  <2>8. QED
    BY <1>3, <2>2, <2>7 DEF TheFlow!Aborted
<1>4. QED
  BY <1>2, <1>3

(* And of all of them. *)
LEMMA FireIsSeq ==
  ASSUME FlTypes, NEW fs, NEW reason \in TheFlow!Reasons
  PROVE  TheFlow!Fire(fs, reason) \in Seq(FlFrame) /\ DOMAIN TheFlow!Fire(fs, reason) = DOMAIN fl_frames
<1>n. PICK n \in Nat : n = Len(fl_frames) /\ DOMAIN fl_frames = 1 .. n
  BY DEF FlTypes
<1>1. PICK s : s = TheFlow!Fire(fs, reason)
  OBVIOUS
<1>2. DOMAIN s = 1 .. n
  BY <1>1, <1>n DEF TheFlow!Fire
<1>3. \A g \in 1 .. n : s[g] \in FlFrame
  BY <1>1, <1>n, FireOf
<1>4. s = [g \in 1 .. n |-> s[g]]
  BY <1>1, <1>n DEF TheFlow!Fire
<1>5. s \in [1 .. n -> FlFrame]
  BY <1>3, <1>4
<1>6. s \in Seq(FlFrame)
  BY <1>5
<1>7. QED
  BY <1>1, <1>2, <1>6, <1>n

(* The abort of the run reaches every frame. *)
LEMMA AbortKeeps ==
  ASSUME FlowInv, NEW reason \in {"typed", "plain"}, TheFlow!Abort(reason)
  PROVE  FlowInv'
<1>1. FlTypes /\ reason \in TheFlow!Reasons /\ fl_controller' = reason
  BY DEF FlowInv, TheFlow!Reasons, TheFlow!Abort
<1>2. SignalsFire(DOMAIN fl_frames, 0, reason)
  <2>1. fl_frames' = TheFlow!Fire(DOMAIN fl_frames, reason)
    BY DEF TheFlow!Abort
  <2>2. fl_frames' \in Seq(FlFrame) /\ DOMAIN fl_frames' = DOMAIN fl_frames
    BY <1>1, <2>1, FireIsSeq
  <2>3. QED
    BY <1>1, <2>1, <2>2, FireOf DEF SignalsFire
<1>3. QED
  BY <1>1, <1>2, FiresKeeps DEF TheFlow!Abort

(* A timer reaches every frame under its timeout, and no other. *)
LEMMA TimerKeeps ==
  ASSUME FlowInv, NEW f \in DOMAIN fl_frames, TheFlow!TimerFires(f)
  PROVE  FlowInv'
<1>1. FlTypes /\ "timeout" \in TheFlow!Reasons /\ "timeout" # "typed" /\ f \in Nat \ {0}
  BY DEF FlowInv, FlTypes, TheFlow!Reasons
<1>2. TheFlow!KindOf(f) = "timeout" /\ fl_frames[f].mode = "on" /\ fl_controller' = fl_controller
  BY DEF TheFlow!TimerFires, TheFlow!Open, TheFlow!Mode
<1>3. PICK fs : fs = TheFlow!Under(f)
  OBVIOUS
<1>4. f \notin fs
  BY <1>1, <1>3, UnderIs
<1>5. ASSUME NEW g \in DOMAIN fl_frames, g # 1, fl_frames[g].parent \in fs \/ fl_frames[g].parent = f PROVE g \in fs
  <2>1. PICK p \in DOMAIN fl_frames : p = fl_frames[g].parent /\ p < g
    BY <1>1, <1>5, FrameFields
  <2>2. p \in Nat /\ g \in Nat
    BY <1>1 DEF FlTypes
  <2>3. g > f
    <3>1. CASE p = f
      BY <1>1, <2>1, <2>2, <3>1
    <3>2. CASE p \in fs
      <4>1. p > f
        BY <1>1, <1>3, <3>2, UnderIs
      <4>2. QED
        BY <1>1, <2>1, <2>2, <4>1
    <3>3. QED
      BY <1>5, <2>1, <3>1, <3>2
  <2>4. QED
    BY <1>1, <1>3, <1>5, <2>3, UnderIs
<1>6. SignalsFire(fs, f, "timeout")
  <2>1. PICK s : s = TheFlow!Fire(fs, "timeout")
    OBVIOUS
  <2>2. fl_frames' = [s EXCEPT ![f].mode = "timed"]
    BY <1>3, <2>1 DEF TheFlow!TimerFires
  <2>3. s \in Seq(FlFrame) /\ DOMAIN s = DOMAIN fl_frames
    BY <1>1, <2>1, FireIsSeq
  <2>4. PICK me0 : me0 = s[f]
    OBVIOUS
  <2>5. PICK me : me = [me0 EXCEPT !.mode = "timed"]
    OBVIOUS
  <2>6. me0 \in FlFrame
    BY <2>3, <2>4
  <2>7. /\ me \in FlFrame /\ me.mode = "timed"
        /\ me.node = me0.node /\ me.parent = me0.parent /\ me.slot = me0.slot /\ me.at = me0.at
        /\ me.seen = me0.seen /\ me.failed = me0.failed /\ me.out = me0.out /\ me.reason = me0.reason
    BY <2>5, <2>6 DEF FlFrame
  <2>8. fl_frames' = [s EXCEPT ![f] = me]
    BY <2>2, <2>4, <2>5
  <2>9. fl_frames' \in Seq(FlFrame) /\ DOMAIN fl_frames' = DOMAIN fl_frames
    BY <2>3, <2>7, <2>8
  <2>10. fl_frames'[f] = me /\ \A g \in DOMAIN fl_frames \ {f} : fl_frames'[g] = s[g]
    BY <2>3, <2>8
  <2>11. ASSUME NEW g \in DOMAIN fl_frames, g # f
         PROVE  /\ fl_frames'[g].node = fl_frames[g].node /\ fl_frames'[g].parent = fl_frames[g].parent
                /\ fl_frames'[g].slot = fl_frames[g].slot /\ fl_frames'[g].at = fl_frames[g].at
                /\ fl_frames'[g].seen = fl_frames[g].seen /\ fl_frames'[g].failed = fl_frames[g].failed
                /\ fl_frames'[g].out = fl_frames[g].out
                /\ fl_frames'[g].reason = IF g \in fs /\ fl_frames[g].reason = "none" THEN "timeout"
                     ELSE fl_frames[g].reason
                /\ \/ fl_frames'[g].mode = fl_frames[g].mode
                   \/ TheFlow!KindOf(g) = "timeout" /\ fl_frames[g].mode = "on" /\ g \in fs
                        /\ fl_frames'[g].mode = "aborted"
    <3>1. fl_frames'[g] = TheFlow!Fire(fs, "timeout")[g]
      BY <2>1, <2>10, <2>11
    <3>2. QED
      BY <1>1, <3>1, FireOf
  <2>12. /\ me.node = fl_frames[f].node /\ me.parent = fl_frames[f].parent
         /\ me.slot = fl_frames[f].slot /\ me.at = fl_frames[f].at
         /\ me.seen = fl_frames[f].seen /\ me.failed = fl_frames[f].failed
         /\ me.out = fl_frames[f].out /\ me.reason = fl_frames[f].reason
    <3>1. me0 = TheFlow!Fire(fs, "timeout")[f]
      BY <2>1, <2>4
    <3>2. /\ me0.node = fl_frames[f].node /\ me0.parent = fl_frames[f].parent
          /\ me0.slot = fl_frames[f].slot /\ me0.at = fl_frames[f].at
          /\ me0.seen = fl_frames[f].seen /\ me0.failed = fl_frames[f].failed
          /\ me0.out = fl_frames[f].out /\ me0.reason = fl_frames[f].reason
      BY <1>1, <1>4, <3>1, FireOf
    <3>3. QED
      BY <2>7, <3>2
  <2>13. QED
    BY <1>2, <1>4, <2>7, <2>9, <2>10, <2>11, <2>12 DEF SignalsFire
<1>7. QED
  BY <1>1, <1>2, <1>5, <1>6, FiresKeeps DEF FlowInv, FlTypes

(* Every step keeps the invariant. *)
LEMMA ComposeKeeps ==
  ASSUME FlowInv, NEW f \in DOMAIN fl_frames, TheFlow!Compose(f)
  PROVE  FlowInv'
<1>1. CASE TheFlow!SequenceNext(f) \/ TheFlow!SequenceAborted(f) \/ TheFlow!SequenceEnds(f)
  BY <1>1, SequenceKeeps
<1>2. CASE TheFlow!BranchTakes(f) \/ TheFlow!BranchEnds(f)
  BY <1>2, BranchKeeps
<1>3. CASE TheFlow!LoopNext(f) \/ TheFlow!LoopAborted(f) \/ TheFlow!LoopEnds(f)
  BY <1>3, LoopKeeps
<1>4. CASE TheFlow!ParallelStarts(f)
  BY <1>4, ParallelStartKeeps
<1>5. CASE TheFlow!ParallelEnds(f)
  BY <1>5, ParallelEndKeeps
<1>6. CASE TheFlow!MapStarts(f)
  BY <1>6, MapStartKeeps
<1>7. CASE TheFlow!MapEnds(f)
  BY <1>7, MapEndKeeps
<1>8. CASE \E item \in 1 .. TheFlow!Size(f) : TheFlow!MapTakes(f, item)
  <2>1. PICK item : item \in 1 .. TheFlow!Size(f) /\ TheFlow!MapTakes(f, item)
    BY <1>8
  <2>2. item \in Nat
    <3>1. TheFlow!Size(f) \in Nat
      BY KidsAreNodes DEF TheFlow!Size
    <3>2. QED
      BY <2>1, <3>1
  <2>3. QED
    BY <2>1, <2>2, MapTakeKeeps
<1>9. CASE TheFlow!RetryTries(f) \/ TheFlow!RetryBacksOff(f) \/ TheFlow!RetryEnds(f)
  BY <1>9, RetryKeeps
<1>10. CASE TheFlow!FallbackStarts(f) \/ TheFlow!FallbackBacks(f) \/ TheFlow!FallbackEnds(f)
  BY <1>10, FallbackKeeps
<1>11. CASE TheFlow!TimeoutStarts(f) \/ TheFlow!TimeoutGivesUp(f) \/ TheFlow!TimeoutEnds(f)
  BY <1>11, TimeoutKeeps
<1>12. QED
  BY <1>1, <1>2, <1>3, <1>4, <1>5, <1>6, <1>7, <1>8, <1>9, <1>10, <1>11 DEF TheFlow!Compose

(* And so does every step of all. *)
LEMMA StepsKeepFlow ==
  FlowInv /\ [TheFlow!Next]_(TheFlow!vars) => FlowInv'
<1> SUFFICES ASSUME FlowInv, [TheFlow!Next]_(TheFlow!vars) PROVE FlowInv'
  OBVIOUS
<1>1. ASSUME NEW f \in DOMAIN fl_frames, TheFlow!LeafEnds(f) \/ TheFlow!LeafHonoursAbort(f) PROVE FlowInv'
  BY <1>1, LeafKeeps
<1>2. ASSUME NEW f \in DOMAIN fl_frames, TheFlow!TimerFires(f) PROVE FlowInv'
  BY <1>2, TimerKeeps
<1>3. ASSUME NEW f \in DOMAIN fl_frames, TheFlow!Compose(f) PROVE FlowInv'
  BY <1>3, ComposeKeeps
<1>4. ASSUME NEW reason \in {"typed", "plain"}, TheFlow!Abort(reason) PROVE FlowInv'
  BY <1>4, AbortKeeps
<1>5. CASE UNCHANGED TheFlow!vars
  <2>1. fl_frames' = fl_frames /\ fl_controller' = fl_controller
    BY <1>5 DEF TheFlow!vars
  <2>2. QED
    BY <2>1 DEF FlowInv, FlTypes, FrameOK, KidOK, Passed, OneASlot
<1>6. QED
  BY <1>1, <1>2, <1>3, <1>4, <1>5 DEF TheFlow!Next

(* The invariant holds of a root that was just dispatched. *)
LEMMA FlowStarts ==
  TheFlow!Init => FlowInv
<1> SUFFICES ASSUME TheFlow!Init PROVE FlowInv
  OBVIOUS
<1>1. PICK root \in FlowRoots : fl_frames = <<TheFlow!Frame(root, 0, 1, "none")>>
  BY DEF TheFlow!Init
<1>2. PICK me : me = TheFlow!Frame(root, 0, 1, "none")
  OBVIOUS
<1>3. root \in FlowNodes
  BY FlowHolds DEF TheFlow!FlowAssumption
<1>4. me \in FlFrame
  BY <1>2, <1>3 DEF TheFlow!Frame, FlFrame, TheFlow!Outs
<1>5. fl_frames = <<me>> /\ fl_frames \in Seq(FlFrame) /\ DOMAIN fl_frames = {1} /\ fl_frames[1] = me
        /\ fl_controller = "none"
  BY <1>1, <1>2, <1>4 DEF TheFlow!Init
<1>6. me.parent = 0 /\ me.mode = "new" /\ me.at = 0 /\ me.failed = "none" /\ me.reason = "none" /\ me.seen = {}
      /\ me.out = "none"
  BY <1>2 DEF TheFlow!Frame
<1>7. FrameOK(me)
  BY <1>5, <1>6 DEF FrameOK
<1>8. FlTypes
  BY <1>5, <1>6 DEF FlTypes
<1>9. QED
  BY <1>5, <1>7, <1>8 DEF FlowInv, OneASlot

(* It always holds. *)
LEMMA FlowStands ==
  TheFlow!Spec => []FlowInv
<1>1. QED
  BY FlowStarts, StepsKeepFlow, PTL DEF TheFlow!Spec

----------------------------------------------------------------------------
(* What the invariant gives. *)
LEMMA AbandonedIs ==
  FlowInv => TheFlow!AbandonedIsAborted
<1> SUFFICES ASSUME FlowInv, NEW g \in DOMAIN fl_frames,
                    fl_frames[g].out = "none", fl_frames[g].parent # 0, fl_frames[fl_frames[g].parent].out # "none"
             PROVE  TheFlow!KindOf(fl_frames[g].parent) = "timeout" /\ TheFlow!Aborted(g)
  BY DEF TheFlow!AbandonedIsAborted, TheFlow!Live
<1>1. g # 1
  BY DEF FlowInv, FlTypes
<1>2. KidOK(fl_frames[fl_frames[g].parent], fl_frames[g])
  BY <1>1 DEF FlowInv
<1>3. QED
  BY <1>2 DEF KidOK, TheFlow!KindOf, TheFlow!Aborted

(* Once the root is done with, what still runs has been aborted.           *)
LEMMA LiveIsAborted ==
  ASSUME FlowInv, fl_frames[1].out # "none", NEW g \in DOMAIN fl_frames, fl_frames[g].out = "none"
  PROVE  fl_frames[g].reason # "none"
<1>1. SUFFICES ASSUME fl_frames[g].reason = "none" PROVE FALSE
  OBVIOUS
<1>2. PICK S : S = {h \in DOMAIN fl_frames : fl_frames[h].out = "none" /\ fl_frames[h].reason = "none"}
  OBVIOUS
<1>3. S \in SUBSET Nat /\ S # {}
  BY <1>1, <1>2 DEF FlowInv, FlTypes
<1>4. PICK h \in S : \A k \in S : h <= k
  BY <1>3, NatMin
<1>5. h \in DOMAIN fl_frames /\ h # 1 /\ fl_frames[h].out = "none" /\ fl_frames[h].reason = "none" /\ h \in Nat
  BY <1>2, <1>3, <1>4
<1>6. PICK p \in DOMAIN fl_frames : p = fl_frames[h].parent /\ p < h
  BY <1>5, FrameFields DEF FlowInv
<1>7. p \in Nat /\ ~(h <= p)
  BY <1>5, <1>6 DEF FlowInv, FlTypes
<1>8. KidOK(fl_frames[p], fl_frames[h])
  BY <1>5, <1>6 DEF FlowInv
<1>9. fl_frames[p].reason = "none" /\ fl_frames[p].out = "none"
  BY <1>5, <1>8 DEF KidOK
<1>10. p \in S
  BY <1>2, <1>6, <1>9
<1>11. QED
  BY <1>4, <1>7, <1>10

(* A suspension climbs to the root: of the suspended frames that were not *)
(* aborted, the one dispatched first can only be the root.                *)
LEMMA SuspensionIs ==
  FlowInv /\ Careful => TheFlow!SuspensionSurfaces
<1> SUFFICES ASSUME FlowInv, Careful, fl_frames[1].out # "none",
                    NEW g \in DOMAIN fl_frames, fl_frames[g].out = "suspended", fl_frames[g].reason = "none"
             PROVE  fl_frames[1].out = "suspended"
  BY DEF TheFlow!SuspensionSurfaces, TheFlow!Live, TheFlow!Aborted
<1>1. PICK S : S = {h \in DOMAIN fl_frames : fl_frames[h].out = "suspended" /\ fl_frames[h].reason = "none"}
  OBVIOUS
<1>2. S \in SUBSET Nat /\ S # {}
  BY <1>1 DEF FlowInv, FlTypes
<1>3. PICK h \in S : \A k \in S : h <= k
  BY <1>2, NatMin
<1>4. h \in DOMAIN fl_frames /\ fl_frames[h].out = "suspended" /\ fl_frames[h].reason = "none" /\ h \in Nat
  BY <1>1, <1>2, <1>3
<1>5. CASE h = 1
  BY <1>4, <1>5
<1>6. CASE h # 1
  <2>1. PICK p \in DOMAIN fl_frames : p = fl_frames[h].parent /\ p < h
    BY <1>4, <1>6, FrameFields DEF FlowInv
  <2>2. p \in Nat /\ ~(h <= p)
    BY <1>4, <2>1 DEF FlowInv, FlTypes
  <2>3. KidOK(fl_frames[p], fl_frames[h])
    BY <1>4, <1>6, <2>1 DEF FlowInv
  <2>4. fl_frames[p].reason = "none"
    BY <1>4, <2>3 DEF KidOK
  <2>5. fl_frames[p].out # "none"
    BY <2>4, LiveIsAborted
  <2>6. fl_frames[p].out = "suspended"
    BY <1>4, <2>3, <2>5 DEF KidOK
  <2>7. p \in S
    BY <1>1, <2>1, <2>4, <2>6
  <2>8. QED
    BY <1>3, <2>2, <2>7
<1>7. QED
  BY <1>5, <1>6

----------------------------------------------------------------------------
(* What NoFurtherChildUnderAbort says of one step. *)
NoneUnderAbort ==
  \A g \in DOMAIN fl_frames' \ DOMAIN fl_frames :
    fl_frames'[g].reason # "none" =>
      LET parent == fl_frames[fl_frames'[g].parent]
      IN parent.mode = "new" \/ FlowKind[parent.node] = "fallback"

(* What a call dispatches takes the signal of the frame it is of. *)
LEMMA CallDispatches ==
  ASSUME FlTypes, NEW f \in DOMAIN fl_frames, NEW me, NEW slots \in Seq(Nat), NEW node,
           TheFlow!Call(f, me, slots, node),
         me.reason = fl_frames[f].reason,
         slots = <<>> \/ fl_frames[f].reason = "none" \/ TheFlow!Mode(f) = "new" \/ TheFlow!KindOf(f) = "fallback"
  PROVE  NoneUnderAbort
<1>k. PICK k \in Nat : k = Len(slots)
  OBVIOUS
<1>n. PICK n \in Nat : n = Len(fl_frames) /\ DOMAIN fl_frames = 1 .. n
  BY DEF FlTypes
<1>1. PICK new : new = [i \in 1 .. k |-> TheFlow!Frame(node[slots[i]], f, slots[i], me.reason)]
  OBVIOUS
<1>2. PICK old : old = [fl_frames EXCEPT ![f] = me]
  OBVIOUS
<1>3. PICK S : S = FlFrame \union {me} \union {new[i] : i \in 1 .. k}
  OBVIOUS
<1>4. new \in Seq(S) /\ Len(new) = k
  <2>1. new \in [1 .. k -> S]
    BY <1>1, <1>3
  <2>2. QED
    BY <2>1
<1>5. old \in Seq(S) /\ Len(old) = n
  <2>1. fl_frames \in Seq(S)
    <3>1. fl_frames \in Seq(FlFrame)
      BY DEF FlTypes
    <3>2. QED
      BY <1>3, <3>1
  <2>2. me \in S
    BY <1>3
  <2>3. QED
    BY <1>n, <1>2, <2>1, <2>2
<1>6. fl_frames' = old \o new
  BY <1>1, <1>2, <1>k DEF TheFlow!Call
<1>7. fl_frames' \in Seq(S) /\ Len(fl_frames') = n + k
  BY <1>4, <1>5, <1>6, ConcatProperties
<1>8. \A i \in 1 .. n + k : fl_frames'[i] = IF i <= n THEN old[i] ELSE new[i - n]
  BY <1>4, <1>5, <1>6, ConcatProperties
<1>9. SUFFICES ASSUME NEW g \in DOMAIN fl_frames' \ DOMAIN fl_frames, fl_frames'[g].reason # "none"
               PROVE  LET parent == fl_frames[fl_frames'[g].parent]
                      IN parent.mode = "new" \/ FlowKind[parent.node] = "fallback"
  BY DEF NoneUnderAbort
<1>10. g \in 1 .. n + k /\ ~(g <= n) /\ g - n \in 1 .. k
  BY <1>n, <1>7
<1>11. fl_frames'[g] = new[g - n]
  BY <1>8, <1>10
<1>12. PICK i \in 1 .. k : fl_frames'[g] = new[i]
  BY <1>10, <1>11
<1>13. fl_frames'[g].parent = f /\ fl_frames'[g].reason = me.reason
  BY <1>1, <1>12 DEF TheFlow!Frame
<1>14. slots # <<>>
  BY <1>k, <1>10
<1>15. QED
  BY <1>9, <1>13, <1>14 DEF TheFlow!Mode, TheFlow!KindOf

(* And what one of a series does. *)
LEMMA CallOneDispatches ==
  ASSUME FlTypes, NEW f \in DOMAIN fl_frames, NEW slot \in Nat, NEW node, TheFlow!CallOne(f, slot, node),
         fl_frames[f].reason = "none" \/ TheFlow!Mode(f) = "new" \/ TheFlow!KindOf(f) = "fallback"
  PROVE  NoneUnderAbort
<1>1. PICK slots, nodes : slots = <<slot>> /\ nodes = [s \in {slot} |-> node]
  OBVIOUS
<1>2. PICK me : me = [fl_frames[f] EXCEPT !.at = slot, !.mode = "on"]
  OBVIOUS
<1>3. me.reason = fl_frames[f].reason
  <2>1. fl_frames[f] \in FlFrame
    BY FrameFields
  <2>2. QED
    BY <1>2, <2>1 DEF FlFrame
<1>4. TheFlow!Call(f, me, slots, nodes)
  BY <1>1, <1>2 DEF TheFlow!CallOne
<1>5. slots \in Seq(Nat)
  BY <1>1
<1>6. QED
  BY <1>3, <1>4, <1>5, CallDispatches

(* A step that dispatches nothing. *)
LEMMA SameDispatchesNone ==
  ASSUME DOMAIN fl_frames' = DOMAIN fl_frames
  PROVE  NoneUnderAbort
  BY DEF NoneUnderAbort

(* Settling does not. *)
LEMMA SettleDispatchesNone ==
  ASSUME FlTypes, NEW f, NEW out, TheFlow!Settle(f, out)
  PROVE  NoneUnderAbort
<1>1. DOMAIN fl_frames' = DOMAIN fl_frames
  BY DEF TheFlow!Settle, FlTypes
<1>2. QED
  BY <1>1, SameDispatchesNone

(* The composers dispatch under an abort only where they may. *)
LEMMA ComposeDispatches ==
  ASSUME FlowInv, NEW f \in DOMAIN fl_frames, TheFlow!Compose(f)
  PROVE  NoneUnderAbort
<1>1. FlTypes /\ fl_frames[f] \in FlFrame /\ fl_frames[f].at \in Nat
  BY FrameFields DEF FlowInv
<1>2. CASE TheFlow!SequenceNext(f) \/ TheFlow!LoopNext(f) \/ TheFlow!FallbackStarts(f) \/ TheFlow!FallbackBacks(f)
             \/ TheFlow!RetryTries(f) \/ TheFlow!BranchTakes(f)
  <2>1. CASE TheFlow!SequenceNext(f)
    BY <1>1, <2>1, CallOneDispatches DEF TheFlow!SequenceNext, TheFlow!At, TheFlow!Aborted
  <2>2. CASE TheFlow!LoopNext(f)
    BY <1>1, <2>2, CallOneDispatches DEF TheFlow!LoopNext, TheFlow!At, TheFlow!Aborted
  <2>3. CASE TheFlow!FallbackStarts(f)
    BY <1>1, <2>3, CallOneDispatches DEF TheFlow!FallbackStarts
  <2>4. CASE TheFlow!FallbackBacks(f)
    BY <1>1, <2>4, CallOneDispatches DEF TheFlow!FallbackBacks, TheFlow!Open
  <2>5. CASE TheFlow!RetryTries(f)
    <3>1. CASE TheFlow!Aborted(f)
      BY <1>1, <2>5, <3>1, SettleDispatchesNone DEF TheFlow!RetryTries, TheFlow!SettleAborted
    <3>2. CASE ~TheFlow!Aborted(f)
      BY <1>1, <2>5, <3>2, CallOneDispatches DEF TheFlow!RetryTries, TheFlow!At, TheFlow!Aborted
    <3>3. QED
      BY <3>1, <3>2
  <2>6. CASE TheFlow!BranchTakes(f)
    <3>1. CASE TheFlow!Settle(f, "error")
      BY <1>1, <3>1, SettleDispatchesNone
    <3>2. CASE ~TheFlow!Settle(f, "error")
      <4>1. PICK arm \in {1, 2} : TheFlow!CallOne(f, arm, FlowKids[fl_frames[f].node][arm])
        BY <2>6, <3>2 DEF TheFlow!BranchTakes
      <4>2. arm \in Nat /\ TheFlow!Mode(f) = "new"
        BY <2>6 DEF TheFlow!BranchTakes
      <4>3. QED
        BY <1>1, <4>1, <4>2, CallOneDispatches
    <3>3. QED
      BY <3>1, <3>2
  <2>7. QED
    BY <1>2, <2>1, <2>2, <2>3, <2>4, <2>5, <2>6
<1>3. CASE TheFlow!ParallelStarts(f)
  <2>1. PICK kids \in Seq(FlowNodes) : kids = FlowKids[fl_frames[f].node]
    BY KidsAreNodes
  <2>2. PICK slots, me : slots = [k \in DOMAIN kids |-> k] /\ me = [fl_frames[f] EXCEPT !.mode = "on"]
    OBVIOUS
  <2>3. slots \in Seq(Nat)
    BY <2>1, <2>2
  <2>4. me.reason = fl_frames[f].reason
    BY <1>1, <2>2 DEF FlFrame
  <2>5. TheFlow!Mode(f) = "new" /\ TheFlow!Call(f, me, slots, kids)
    BY <1>3, <2>1, <2>2 DEF TheFlow!ParallelStarts
  <2>6. QED
    BY <1>1, <2>3, <2>4, <2>5, CallDispatches
<1>4. CASE TheFlow!MapStarts(f)
  <2>1. CASE TheFlow!Settle(f, "error")
    BY <1>1, <2>1, SettleDispatchesNone
  <2>2. CASE ~TheFlow!Settle(f, "error")
    <3>1. PICK limit \in Nat, size \in Nat : limit = FlowLimit[fl_frames[f].node] /\ size = TheFlow!Size(f)
      BY KidsAreNodes DEF TheFlow!Size
    <3>2. PICK first \in Nat : first = IF TheFlow!Aborted(f) THEN 0 ELSE IF limit < size THEN limit ELSE size
      OBVIOUS
    <3>3. PICK slots, nodes, me : /\ slots = [k \in 1 .. first |-> k]
                                  /\ nodes = [k \in 1 .. first |-> FlowKids[fl_frames[f].node][1]]
                                  /\ me = [fl_frames[f] EXCEPT !.mode = "on", !.at = first]
      OBVIOUS
    <3>4. TheFlow!Mode(f) = "new" /\ TheFlow!Call(f, me, slots, nodes)
      BY <1>4, <2>2, <3>1, <3>2, <3>3 DEF TheFlow!MapStarts
    <3>5. slots \in Seq(Nat)
      <4>1. slots \in [1 .. first -> Nat]
        BY <3>3
      <4>2. QED
        BY <4>1
    <3>6. me.reason = fl_frames[f].reason
      BY <1>1, <3>3 DEF FlFrame
    <3>7. QED
      BY <1>1, <3>4, <3>5, <3>6, CallDispatches
  <2>3. QED
    BY <2>1, <2>2
<1>5. CASE \E item \in 1 .. TheFlow!Size(f) : TheFlow!MapTakes(f, item)
  <2>1. PICK item : TheFlow!MapTakes(f, item)
    BY <1>5
  <2>2. PICK out : out = TheFlow!Result(f, item)
    OBVIOUS
  <2>3. PICK failed : failed = IF fl_frames[f].failed = "none" /\ out # "ok" /\ ~TheFlow!Kept(f, out) THEN out
               ELSE fl_frames[f].failed
    OBVIOUS
  <2>4. PICK me : me = [fl_frames[f] EXCEPT !.seen = @ \cup {item}, !.failed = failed]
    OBVIOUS
  <2>5. PICK at \in Nat : at = fl_frames[f].at + 1
    BY <1>1
  <2>6. PICK me2 : me2 = [me EXCEPT !.at = at]
    OBVIOUS
  <2>7. me.reason = fl_frames[f].reason /\ me2.reason = fl_frames[f].reason
    <3>1. DOMAIN fl_frames[f] = DOMAIN me
      BY <2>4
    <3>2. me.reason = fl_frames[f].reason
      BY <1>1, <2>4 DEF FlFrame
    <3>3. me2.reason = me.reason
      BY <1>1, <2>6, <3>1 DEF FlFrame
    <3>4. QED
      BY <3>2, <3>3
  <2>8. PICK slots, nodes : slots = <<at>> /\ nodes = [s \in {at} |-> FlowKids[fl_frames[f].node][1]]
    OBVIOUS
  <2>9. slots \in Seq(Nat)
    BY <2>8
  <2>10. IF ~TheFlow!Aborted(f) /\ failed = "none" /\ at <= TheFlow!Size(f) THEN TheFlow!Call(f, me2, slots, nodes)
           ELSE TheFlow!Call(f, me, <<>>, <<>>)
    BY <2>1, <2>2, <2>3, <2>4, <2>5, <2>6, <2>8 DEF TheFlow!MapTakes, TheFlow!At
  <2>11. CASE ~TheFlow!Aborted(f) /\ TheFlow!Call(f, me2, slots, nodes)
    BY <1>1, <2>7, <2>9, <2>11, CallDispatches DEF TheFlow!Aborted
  <2>12. CASE TheFlow!Call(f, me, <<>>, <<>>)
    <3>1. <<>> \in Seq(Nat)
      OBVIOUS
    <3>2. QED
      BY <1>1, <2>7, <2>12, <3>1, CallDispatches
  <2>13. QED
    BY <2>10, <2>11, <2>12
<1>6. CASE TheFlow!TimeoutStarts(f)
  <2>1. PICK me : me = [fl_frames[f] EXCEPT !.at = 1, !.mode = IF TheFlow!Aborted(f) THEN "aborted" ELSE "on"]
    OBVIOUS
  <2>2. me.reason = fl_frames[f].reason
    BY <1>1, <2>1 DEF FlFrame
  <2>3. TheFlow!Mode(f) = "new" /\ TheFlow!Call(f, me, <<1>>, FlowKids[fl_frames[f].node])
    BY <1>6, <2>1 DEF TheFlow!TimeoutStarts
  <2>4. <<1>> \in Seq(Nat)
    OBVIOUS
  <2>5. QED
    BY <1>1, <2>2, <2>3, <2>4, CallDispatches
<1>7. CASE TheFlow!RetryBacksOff(f)
  <2>1. DOMAIN fl_frames' = DOMAIN fl_frames
    BY <1>1, <1>7 DEF TheFlow!RetryBacksOff, FlTypes
  <2>2. QED
    BY <2>1, SameDispatchesNone
<1>8. CASE \/ TheFlow!SequenceAborted(f) \/ TheFlow!SequenceEnds(f) \/ TheFlow!BranchEnds(f)
             \/ TheFlow!LoopAborted(f) \/ TheFlow!LoopEnds(f)
           \/ TheFlow!ParallelEnds(f) \/ TheFlow!MapEnds(f) \/ TheFlow!RetryEnds(f) \/ TheFlow!FallbackEnds(f)
           \/ TheFlow!TimeoutGivesUp(f) \/ TheFlow!TimeoutEnds(f)
  <2>1. \E out : TheFlow!Settle(f, out)
    <3>1. CASE TheFlow!SequenceAborted(f) \/ TheFlow!SequenceEnds(f) \/ TheFlow!BranchEnds(f)
                 \/ TheFlow!LoopAborted(f) \/ TheFlow!LoopEnds(f)
      BY <3>1 DEF TheFlow!SequenceAborted, TheFlow!SequenceEnds, TheFlow!BranchEnds, TheFlow!LoopAborted,
           TheFlow!LoopEnds, TheFlow!SettleAborted
    <3>2. CASE TheFlow!ParallelEnds(f)
      BY <3>2 DEF TheFlow!ParallelEnds, TheFlow!SettleAborted
    <3>3. CASE TheFlow!MapEnds(f)
      BY <3>3 DEF TheFlow!MapEnds, TheFlow!SettleAborted
    <3>4. CASE TheFlow!RetryEnds(f) \/ TheFlow!FallbackEnds(f) \/ TheFlow!TimeoutEnds(f)
      BY <3>4 DEF TheFlow!RetryEnds, TheFlow!FallbackEnds, TheFlow!TimeoutEnds
    <3>5. CASE TheFlow!TimeoutGivesUp(f)
      BY <3>5 DEF TheFlow!TimeoutGivesUp, TheFlow!SettleAborted
    <3>6. QED
      BY <1>8, <3>1, <3>2, <3>3, <3>4, <3>5
  <2>2. QED
    BY <1>1, <2>1, SettleDispatchesNone
<1>9. QED
  BY <1>2, <1>3, <1>4, <1>5, <1>6, <1>7, <1>8 DEF TheFlow!Compose

(* So does every step. *)
LEMMA StepsDispatch ==
  FlowInv /\ [TheFlow!Next]_(TheFlow!vars) => NoneUnderAbort \/ UNCHANGED TheFlow!vars
<1> SUFFICES ASSUME FlowInv, TheFlow!Next PROVE NoneUnderAbort
  OBVIOUS
<1>1. FlTypes
  BY DEF FlowInv
<1>2. ASSUME NEW f \in DOMAIN fl_frames, TheFlow!LeafEnds(f) \/ TheFlow!LeafHonoursAbort(f) PROVE NoneUnderAbort
  <2>1. \E out : TheFlow!Settle(f, out)
    BY <1>2 DEF TheFlow!LeafEnds, TheFlow!LeafHonoursAbort, TheFlow!SettleAborted
  <2>2. QED
    BY <1>1, <2>1, SettleDispatchesNone
<1>3. ASSUME NEW f \in DOMAIN fl_frames, TheFlow!TimerFires(f) PROVE NoneUnderAbort
  <2>1. DOMAIN fl_frames' = DOMAIN fl_frames
    BY <1>3 DEF TheFlow!TimerFires, TheFlow!Fire
  <2>2. QED
    BY <2>1, SameDispatchesNone
<1>4. ASSUME NEW f \in DOMAIN fl_frames, TheFlow!Compose(f) PROVE NoneUnderAbort
  BY <1>4, ComposeDispatches
<1>5. ASSUME NEW reason \in {"typed", "plain"}, TheFlow!Abort(reason) PROVE NoneUnderAbort
  <2>1. DOMAIN fl_frames' = DOMAIN fl_frames
    BY <1>5 DEF TheFlow!Abort, TheFlow!Fire
  <2>2. QED
    BY <2>1, SameDispatchesNone
<1>6. QED
  BY <1>2, <1>3, <1>4, <1>5 DEF TheFlow!Next

(* A suspension surfaces, what is abandoned is aborted, and no composer    *)
(* starts another child under its abort (sequence.ts, loop.ts, map.ts,     *)
(* parallel.ts, retry.ts, fallback.ts, timeout.ts).                        *)
FlowSettles == [](TheFlow!SuspensionSurfaces /\ TheFlow!AbandonedIsAborted) /\ TheFlow!NoFurtherChildUnderAbort

(* A composer waits for all it started, but for what a timeout gave up on, *)
(* which is told to stop, and starts no further child once it is aborted:  *)
(* for every tree of composers, of any depth, width and limits, and with   *)
(* timers and the run's own abort firing anywhere.                         *)
THEOREM FlowWaitsAndStops == TheFlow!Spec => []TheFlow!AbandonedIsAborted /\ TheFlow!NoFurtherChildUnderAbort
<1>1. FlowInv => TheFlow!AbandonedIsAborted
  BY AbandonedIs
<1>2. FlowInv /\ [TheFlow!Next]_(TheFlow!vars) => [NoneUnderAbort]_(TheFlow!vars)
  BY StepsDispatch
<1>3. TheFlow!Spec => [][NoneUnderAbort]_(TheFlow!vars)
  BY <1>2, FlowStands, PTL DEF TheFlow!Spec
<1>4. TheFlow!Spec => []TheFlow!AbandonedIsAborted
  BY <1>1, FlowStands, PTL
<1>5. TheFlow!NoFurtherChildUnderAbort <=> [][NoneUnderAbort]_(TheFlow!vars)
  BY PTL DEF TheFlow!NoFurtherChildUnderAbort, NoneUnderAbort
<1>6. QED
  BY <1>3, <1>4, <1>5, PTL

(* And a gate that suspends is what the whole flow ends with, whatever     *)
(* fails beside it or is aborted around it, in every flow whose maps keep  *)
(* their items' errors or run one item at a time.  A map that does neither *)
(* settles with the first error of its items, which may come before a      *)
(* suspension beside it.                                                   *)
THEOREM FlowSettlesSuspended ==
  ASSUME Careful
  PROVE  TheFlow!Spec => FlowSettles
<1>1. FlowInv => TheFlow!SuspensionSurfaces
  BY SuspensionIs
<1>2. TheFlow!Spec => []TheFlow!SuspensionSurfaces
  BY <1>1, FlowStands, PTL
<1>3. QED
  BY <1>2, FlowWaitsAndStops, PTL DEF FlowSettles

----------------------------------------------------------------------------
(* Bench: the cases of a benchmark, and what is reported of them.          *)

CONSTANTS BenchCases, BenchJudges, BenchLimits, None
VARIABLES bn_limit, bn_at, bn_judging, bn_results, bn_next, bn_halted, bn_aborted, bn_late, bn_bench,
          bn_summary, bn_baseline, bn_verdict

TheBench == INSTANCE Bench WITH
  limit <- bn_limit, at <- bn_at, judging <- bn_judging, results <- bn_results, next <- bn_next,
  halted <- bn_halted, aborted <- bn_aborted, late <- bn_late, bench <- bn_bench,
  summary <- bn_summary, baseline <- bn_baseline, verdict <- bn_verdict, Cases <- BenchCases,
  Judges <- BenchJudges, Limits <- BenchLimits, None <- None

(* The cases are numbered. *)
ASSUME BenchHolds == TheBench!BenchAssumption

(* The report of a benchmark is of every case, and its verdict is of it. *)
ReportIsWhole == TheBench!ReportIsWhole

(* The module's sizes are those of here. *)
LEMMA SizesAre ==
  ASSUME NEW S
  PROVE  TheBench!IsFiniteSet(S) = IsFiniteSet(S) /\ TheBench!Cardinality(S) = Cardinality(S)
BY DEF TheBench!IsFiniteSet, IsFiniteSet, TheBench!Cardinality, Cardinality

LEMMA BenchAre == IsFiniteSet(BenchCases) /\ BenchCases = 1 .. Cardinality(BenchCases) /\ None \notin Nat
BY BenchHolds, SizesAre DEF TheBench!BenchAssumption

(* What the sum of a set is by one of its elements. *)
Added(f, sum, s) == IF s = {} THEN 0 ELSE f[CHOOSE x \in s : TRUE] + sum[s \ {CHOOSE x \in s : TRUE}]

(* A set has one element more than what is left without one. *)
LEMMA OneLess ==
  ASSUME NEW s, IsFiniteSet(s), s # {}
  PROVE  LET x == CHOOSE y \in s : TRUE
         IN  /\ x \in s /\ s \ {x} \subseteq s /\ IsFiniteSet(s \ {x})
             /\ Cardinality(s \ {x}) \in Nat /\ Cardinality(s) \in Nat
             /\ Cardinality(s) = Cardinality(s \ {x}) + 1
<1> DEFINE x == CHOOSE y \in s : TRUE
<1>1. x \in s
  OBVIOUS
<1> HIDE DEF x
<1>2. IsFiniteSet(s \ {x}) /\ Cardinality(s \ {x}) = Cardinality(s) - 1
  BY <1>1, FS_RemoveElement
<1>3. Cardinality(s \ {x}) \in Nat /\ Cardinality(s) \in Nat
  BY <1>2, FS_CardinalityType
<1>4. Cardinality(s) = Cardinality(s \ {x}) + 1
  BY <1>2, <1>3
<1>5. x \in s /\ s \ {x} \subseteq s /\ IsFiniteSet(s \ {x})
             /\ Cardinality(s \ {x}) \in Nat /\ Cardinality(s) \in Nat
             /\ Cardinality(s) = Cardinality(s \ {x}) + 1
  BY <1>1, <1>2, <1>3, <1>4
<1> QED BY <1>5 DEF x

(* The function that a sum is written with exists. *)
LEMMA SumExists ==
  ASSUME NEW S, IsFiniteSet(S), NEW f, \A x \in S : f[x] \in Nat
  PROVE  \E sum \in [SUBSET S -> Nat] : \A s \in SUBSET S : sum[s] = Added(f, sum, s)
<1> DEFINE Small(n) == {s \in SUBSET S : Cardinality(s) <= n}
           Has(n) == \E sum \in [Small(n) -> Nat] : \A s \in Small(n) : sum[s] = Added(f, sum, s)
           Bad == {n \in Nat : ~Has(n)}
<1>0. \A s \in SUBSET S : IsFiniteSet(s) /\ Cardinality(s) \in Nat
  BY FS_Subset, FS_CardinalityType
<1>1. Has(0)
  <2>1. PICK sum : sum = [s \in Small(0) |-> 0]
    OBVIOUS
  <2>2. ASSUME NEW s \in Small(0) PROVE sum[s] = Added(f, sum, s)
    <3>1. Cardinality(s) = 0 /\ IsFiniteSet(s)
      BY <1>0
    <3>2. s = {}
      BY <3>1, FS_EmptySet
    <3> QED BY <2>1, <3>2 DEF Added
  <2>3. sum \in [Small(0) -> Nat]
    BY <2>1
  <2> QED BY <2>2, <2>3
<1>2. ASSUME NEW n \in Nat, n > 0, Has(n - 1) PROVE Has(n)
  <2> HIDE DEF Small
  <2>1. PICK sum \in [Small(n - 1) -> Nat] : \A s \in Small(n - 1) : sum[s] = Added(f, sum, s)
    BY <1>2
  <2>2. PICK more : more = [s \in Small(n) |-> IF s \in Small(n - 1) THEN sum[s] ELSE Added(f, sum, s)]
    OBVIOUS
  <2>3. Small(n - 1) \subseteq Small(n)
    BY <1>0 DEF Small
  <2>4. ASSUME NEW s \in Small(n), s # {}
        PROVE  /\ s \ {CHOOSE x \in s : TRUE} \in Small(n - 1) /\ s \ {CHOOSE x \in s : TRUE} \in Small(n)
               /\ f[CHOOSE x \in s : TRUE] \in Nat
    <3>1. s \in SUBSET S /\ Cardinality(s) <= n /\ IsFiniteSet(s)
      BY <1>0 DEF Small
    <3>2. PICK x : x = CHOOSE y \in s : TRUE
      OBVIOUS
    <3>3. x \in s /\ Cardinality(s \ {x}) \in Nat /\ Cardinality(s) \in Nat
            /\ Cardinality(s) = Cardinality(s \ {x}) + 1
      BY <2>4, <3>1, <3>2, OneLess
    <3>4. s \ {x} \in Small(n - 1)
      BY <3>1, <3>3 DEF Small
    <3> QED BY <2>3, <3>1, <3>2, <3>3, <3>4
  <2>5. ASSUME NEW s \in Small(n) PROVE Added(f, more, s) = Added(f, sum, s) /\ Added(f, sum, s) \in Nat
    <3>1. CASE s = {}
      BY <3>1 DEF Added
    <3>2. CASE s # {}
      <4>1. PICK x : x = CHOOSE y \in s : TRUE
        OBVIOUS
      <4>2. s \ {x} \in Small(n - 1) /\ s \ {x} \in Small(n) /\ f[x] \in Nat
        BY <2>4, <3>2, <4>1
      <4>3. more[s \ {x}] = sum[s \ {x}] /\ sum[s \ {x}] \in Nat
        BY <2>1, <2>2, <4>2
      <4>4. Added(f, more, s) = f[x] + more[s \ {x}] /\ Added(f, sum, s) = f[x] + sum[s \ {x}]
        BY <3>2, <4>1 DEF Added
      <4> QED BY <4>2, <4>3, <4>4
    <3> QED BY <3>1, <3>2
  <2>6. ASSUME NEW s \in Small(n) PROVE more[s] = Added(f, more, s) /\ more[s] \in Nat
    <3>1. CASE s \in Small(n - 1)
      BY <2>1, <2>2, <2>5, <3>1
    <3>2. CASE s \notin Small(n - 1)
      BY <2>2, <2>5, <3>2
    <3> QED BY <3>1, <3>2
  <2>7. more \in [Small(n) -> Nat]
    BY <2>2, <2>6
  <2> QED BY <2>6, <2>7
<1> HIDE DEF Has
<1>3. Bad = {}
  <2> SUFFICES ASSUME Bad # {} PROVE FALSE
    OBVIOUS
  <2>1. PICK n \in Bad : \A k \in Bad : n <= k
    BY NatMin
  <2>2. n \in Nat /\ ~Has(n) /\ n # 0
    BY <1>1
  <2>3. n - 1 \in Nat /\ n > 0 /\ ~(n <= n - 1)
    BY <2>2
  <2>4. Has(n - 1)
    BY <2>1, <2>3
  <2> QED BY <1>2, <2>2, <2>3, <2>4
<1>4. Cardinality(S) \in Nat
  BY FS_CardinalityType
<1>5. Has(Cardinality(S))
  BY <1>3, <1>4
<1>6. Small(Cardinality(S)) = SUBSET S
  BY FS_Subset
<1> QED BY <1>5, <1>6 DEF Has

(* A sum of numbers is a number. *)
LEMMA SumIsNat ==
  ASSUME NEW S, IsFiniteSet(S), NEW f, \A x \in S : f[x] \in Nat
  PROVE  TheBench!FoldFunctionOnSet(+, 0, f, S) \in Nat
<1>1. PICK sum \in [SUBSET S -> Nat] : \A s \in SUBSET S : sum[s] = Added(f, sum, s)
  BY SumExists
<1>2. sum = [s \in SUBSET S |-> Added(f, sum, s)]
  BY <1>1
<1>3. PICK it : it = CHOOSE g : g = [s \in SUBSET S |-> Added(f, g, s)]
  OBVIOUS
<1>4. it = [s \in SUBSET S |-> Added(f, it, s)]
  BY <1>2, <1>3
<1>5. TheBench!FoldFunctionOnSet(+, 0, f, S) = it[S]
  BY <1>3 DEF TheBench!FoldFunctionOnSet, TheBench!MapThenFoldSet, Added
<1> DEFINE Bad == {n \in Nat : \E s \in SUBSET S : Cardinality(s) = n /\ it[s] \notin Nat}
<1>6. \A s \in SUBSET S : IsFiniteSet(s) /\ Cardinality(s) \in Nat
  BY FS_Subset, FS_CardinalityType
<1>7. Bad = {}
  <2> SUFFICES ASSUME Bad # {} PROVE FALSE
    OBVIOUS
  <2>1. PICK n \in Bad : \A k \in Bad : n <= k
    BY NatMin
  <2>2. PICK s \in SUBSET S : Cardinality(s) = n /\ it[s] \notin Nat
    BY <2>1
  <2>3. it[s] = Added(f, it, s)
    BY <1>4
  <2>4. s # {}
    BY <2>2, <2>3 DEF Added
  <2>5. PICK x : x = CHOOSE y \in s : TRUE
    OBVIOUS
  <2>6. /\ x \in S /\ s \ {x} \in SUBSET S /\ Cardinality(s \ {x}) \in Nat /\ Cardinality(s) \in Nat
        /\ Cardinality(s) = Cardinality(s \ {x}) + 1
    BY <1>6, <2>4, <2>5, OneLess
  <2>7. it[s] = f[x] + it[s \ {x}] /\ f[x] \in Nat
    BY <2>3, <2>4, <2>5, <2>6 DEF Added
  <2>8. it[s \ {x}] \in Nat
    <3> SUFFICES ASSUME it[s \ {x}] \notin Nat PROVE FALSE
      OBVIOUS
    <3>1. Cardinality(s \ {x}) \in Bad
      BY <2>6
    <3>2. n <= Cardinality(s \ {x})
      BY <2>1, <3>1
    <3> QED BY <2>2, <2>6, <3>2
  <2> QED BY <2>2, <2>7, <2>8
<1>8. it[S] \in Nat
  BY <1>4, <1>6, <1>7
<1> QED BY <1>5, <1>8

----------------------------------------------------------------------------
(* What a report and a comparison say. *)

(* The results of all cases. *)
Results == [BenchCases -> [ok : BOOLEAN, scores : [BenchJudges -> {None, 0, 1}], cost : 0 .. 1]]

(* The sum is a number, and so is how many there are. *)
LEMMA SumOfIs ==
  ASSUME NEW f, \A c \in BenchCases : f[c] \in {None, 0, 1}
  PROVE  /\ TheBench!SumOf(f)[1] \in Nat /\ TheBench!SumOf(f)[2] \in Nat
         /\ TheBench!SumOf(f)[2] = Cardinality({c \in BenchCases : f[c] # None})
<1> DEFINE scored == {c \in BenchCases : f[c] # None}
<1>1. IsFiniteSet(scored) /\ \A c \in scored : f[c] \in Nat
  BY BenchAre, FS_Subset
<1>2. Cardinality(scored) \in Nat
  BY <1>1, FS_CardinalityType
<1> HIDE DEF scored
<1>3. TheBench!FoldFunctionOnSet(+, 0, f, scored) \in Nat
  BY <1>1, SumIsNat
<1>4. TheBench!SumOf(f) = <<TheBench!FoldFunctionOnSet(+, 0, f, scored), Cardinality(scored)>>
  BY SizesAre DEF TheBench!SumOf, scored
<1>5. PICK sum : sum = TheBench!FoldFunctionOnSet(+, 0, f, scored)
  OBVIOUS
<1>6. TheBench!SumOf(f) = <<sum, Cardinality(scored)>> /\ sum \in Nat
  BY <1>3, <1>4, <1>5
<1> QED BY <1>2, <1>6 DEF scored

(* A report of results is of numbers, and no judge scored more cases than passed. *)
LEMMA SummaryIs ==
  ASSUME NEW report \in Results
  PROVE  /\ TheBench!summarize(report).passes \in Nat /\ TheBench!summarize(report).cost \in Nat
         /\ \A j \in BenchJudges : TheBench!summarize(report).means[j][1] \in Nat
              /\ TheBench!summarize(report).means[j][2] \in Nat
         /\ (\A c \in BenchCases : ~report[c].ok => report[c].scores = TheBench!Fresh.scores)
              => \A j \in BenchJudges : TheBench!summarize(report).means[j][2] <= TheBench!summarize(report).passes
<1> DEFINE Passing == {c \in BenchCases : report[c].ok}
           Of(j) == [c \in BenchCases |-> report[c].scores[j]]
           Costs == [c \in BenchCases |-> report[c].cost]
<1>1. IsFiniteSet(Passing) /\ Cardinality(Passing) \in Nat
  BY BenchAre, FS_Subset, FS_CardinalityType
<1>2. \A c \in BenchCases : Costs[c] \in {None, 0, 1}
  BY DEF Results
<1>3. ASSUME NEW j \in BenchJudges PROVE \A c \in BenchCases : Of(j)[c] \in {None, 0, 1}
  BY DEF Results
<1>4. /\ TheBench!summarize(report).passes = Cardinality(Passing)
      /\ TheBench!summarize(report).cost = TheBench!SumOf(Costs)[1]
      /\ \A j \in BenchJudges : TheBench!summarize(report).means[j] = TheBench!SumOf(Of(j))
  BY SizesAre DEF TheBench!summarize
<1>5. TheBench!SumOf(Costs)[1] \in Nat
  <2> HIDE DEF Costs
  <2> QED BY <1>2, SumOfIs
<1>6. ASSUME NEW j \in BenchJudges
      PROVE  /\ TheBench!SumOf(Of(j))[1] \in Nat /\ TheBench!SumOf(Of(j))[2] \in Nat
             /\ TheBench!SumOf(Of(j))[2] = Cardinality({c \in BenchCases : report[c].scores[j] # None})
  <2>1. PICK f : f = Of(j)
    OBVIOUS
  <2>2. \A c \in BenchCases : f[c] \in {None, 0, 1}
    BY <1>3, <2>1
  <2>3. /\ TheBench!SumOf(f)[1] \in Nat /\ TheBench!SumOf(f)[2] \in Nat
        /\ TheBench!SumOf(f)[2] = Cardinality({c \in BenchCases : f[c] # None})
    BY <2>2, SumOfIs
  <2>4. {c \in BenchCases : f[c] # None} = {c \in BenchCases : report[c].scores[j] # None}
    BY <2>1
  <2> QED BY <2>1, <2>3, <2>4
<1>7. ASSUME \A c \in BenchCases : ~report[c].ok => report[c].scores = TheBench!Fresh.scores, NEW j \in BenchJudges
      PROVE  Cardinality({c \in BenchCases : report[c].scores[j] # None}) <= Cardinality(Passing)
  <2>1. {c \in BenchCases : report[c].scores[j] # None} \subseteq Passing
    BY <1>7 DEF TheBench!Fresh
  <2> HIDE DEF Passing
  <2> QED BY <1>1, <2>1, FS_Subset
<1> QED BY <1>1, <1>4, <1>5, <1>6, <1>7

(* A report is no regression of itself. *)
LEMMA NoneOfItself ==
  ASSUME NEW report \in Results
  PROVE  TheBench!regression_compare(report, report)
<1>1. /\ TheBench!summarize(report).passes \in Nat /\ TheBench!summarize(report).cost \in Nat
      /\ \A j \in BenchJudges : TheBench!summarize(report).means[j][1] \in Nat
           /\ TheBench!summarize(report).means[j][2] \in Nat
  BY SummaryIs
<1>2. ~(TheBench!summarize(report).passes < TheBench!summarize(report).passes)
        /\ ~(TheBench!summarize(report).cost > TheBench!summarize(report).cost)
  BY <1>1
<1>3. ASSUME NEW j \in BenchJudges PROVE ~TheBench!MeanDrops(TheBench!summarize(report).means[j], TheBench!summarize(report).means[j])
  <2>1. PICK b : b = TheBench!summarize(report).means[j]
    OBVIOUS
  <2>2. b[1] \in Nat /\ b[2] \in Nat
    BY <1>1, <2>1
  <2>3. PICK n : n = b[1] * b[2]
    OBVIOUS
  <2>4. n \in Nat
    BY <2>2, <2>3
  <2>5. ~(n < n)
    BY <2>4
  <2>6. ~TheBench!MeanDrops(b, b)
    BY <2>3, <2>5 DEF TheBench!MeanDrops
  <2> QED BY <2>1, <2>6
<1>4. ASSUME NEW c \in BenchCases PROVE ~TheBench!CaseRegresses(report[c], report[c])
  <2>1. report[c].cost \in 0 .. 1 /\ \A j \in BenchJudges : report[c].scores[j] \in {None, 0, 1}
    BY DEF Results
  <2>2. \A j \in BenchJudges : TheBench!ScoreOf(report[c].scores[j]) \in {0, 1}
    BY <2>1 DEF TheBench!ScoreOf
  <2> QED BY <2>1, <2>2 DEF TheBench!CaseRegresses
<1> QED BY <1>2, <1>3, <1>4 DEF TheBench!regression_compare

----------------------------------------------------------------------------
(* The invariant. *)

BenchTypes ==
  /\ bn_at \in [BenchCases -> {"queued", "running", "done", "off"}]
  /\ bn_judging \in [BenchCases -> Nat] /\ bn_next \in Nat \ {0}
  /\ bn_results \in Results
  /\ bn_baseline \in [BenchCases -> {TheBench!Fresh, [ok |-> TRUE, scores |-> [j \in BenchJudges |-> 1], cost |-> 1]}]
  /\ bn_late = {}

(* A case has scores only once its flow came to an output to be judged. *)
ScoresInv ==
  \A c \in BenchCases :
    /\ bn_judging[c] = 0 => bn_results[c].scores = TheBench!Fresh.scores
    /\ bn_judging[c] # 0 => bn_results[c].ok

(* What the pool has not come to is queued. *)
PoolInv == TheBench!Pooled => \A c \in BenchCases : c >= bn_next => bn_at[c] = "queued"

(* A report is made of what stays as it is. *)
MadeInv ==
  bn_bench = "resolved" =>
    /\ ~bn_aborted /\ TheBench!AllSettled
    /\ bn_summary = TheBench!summarize(bn_results)
         /\ bn_verdict = TheBench!regression_compare(bn_results, bn_baseline)

BenchInv == BenchTypes /\ ScoresInv /\ PoolInv /\ MadeInv

(* Nothing has been claimed. *)
LEMMA BenchStarts == TheBench!Init => BenchInv
<1> SUFFICES ASSUME TheBench!Init PROVE BenchInv
  OBVIOUS
<1>1. TheBench!Fresh \in [ok : BOOLEAN, scores : [BenchJudges -> {None, 0, 1}], cost : 0 .. 1]
  BY DEF TheBench!Fresh
<1>2. bn_results \in Results
  BY <1>1 DEF TheBench!Init, Results
<1>3. BenchTypes
  BY <1>2 DEF TheBench!Init, BenchTypes
<1>4. ScoresInv /\ PoolInv /\ MadeInv
  BY DEF TheBench!Init, ScoresInv, PoolInv, TheBench!Pooled, MadeInv
<1> QED BY <1>3, <1>4 DEF BenchInv

(* The worker that takes the next case takes one that is queued. *)
LEMMA ClaimsOK == BenchInv /\ TheBench!Claims => BenchInv'
<1> SUFFICES ASSUME BenchInv, TheBench!Claims PROVE BenchInv'
  OBVIOUS
<1>1. bn_next \in BenchCases /\ Cardinality(BenchCases) \in Nat /\ bn_next \in Nat \ {0}
  BY BenchAre, SizesAre, FS_CardinalityType DEF BenchInv, BenchTypes, TheBench!Claims, TheBench!N
<1>2. bn_at[bn_next] = "queued" /\ bn_bench # "resolved"
  BY <1>1 DEF BenchInv, PoolInv, MadeInv, TheBench!AllSettled, TheBench!Claims
<1>3. BenchTypes'
  BY <1>1 DEF BenchInv, BenchTypes, TheBench!Claims
<1>4. ScoresInv'
  BY DEF BenchInv, ScoresInv, TheBench!Claims
<1>5. PoolInv'
  BY <1>1, BenchAre DEF BenchInv, BenchTypes, PoolInv, TheBench!Pooled, TheBench!N, TheBench!Claims
<1>6. MadeInv'
  BY <1>2 DEF MadeInv, TheBench!Claims
<1> QED BY <1>3, <1>4, <1>5, <1>6 DEF BenchInv

(* What a running case does leaves it past what is queued. *)
LEMMA CaseOK ==
  ASSUME BenchInv, NEW c \in BenchCases, TheBench!ControlFlow(c) \/ TheBench!FlowEnds(c) \/ TheBench!JudgeEnds(c)
  PROVE  BenchInv'
<1>1. bn_at[c] = "running" /\ bn_bench # "resolved" /\ bn_bench' # "resolved"
  BY DEF BenchInv, MadeInv, TheBench!AllSettled, TheBench!ControlFlow, TheBench!FlowEnds, TheBench!JudgeEnds,
       TheBench!Halts
<1>2. MadeInv'
  BY <1>1, SMTT(20) DEF MadeInv
<1>3. UNCHANGED <<bn_limit, bn_next, bn_aborted, bn_late, bn_baseline>>
  BY Zenon DEF TheBench!ControlFlow, TheBench!FlowEnds, TheBench!JudgeEnds
<1>4. bn_at' \in {bn_at, [bn_at EXCEPT ![c] = "off"], [bn_at EXCEPT ![c] = "done"]}
  BY DEF TheBench!ControlFlow, TheBench!FlowEnds, TheBench!JudgeEnds, TheBench!Finish
<1>5. bn_at' \in [BenchCases -> {"queued", "running", "done", "off"}] /\ \A d \in BenchCases : d # c
        => bn_at'[d] = bn_at[d]
  BY <1>4 DEF BenchInv, BenchTypes
<1>6. PoolInv'
  BY <1>1, <1>3, <1>5 DEF BenchInv, PoolInv, TheBench!Pooled, TheBench!N
<1>7. bn_judging' \in [BenchCases -> Nat] /\ bn_results' \in Results /\ ScoresInv'
  <2>1. CASE TheBench!ControlFlow(c)
    BY <2>1 DEF BenchInv, BenchTypes, ScoresInv, TheBench!ControlFlow
  <2>2. CASE TheBench!FlowEnds(c)
    <3>1. PICK ok \in BOOLEAN, cost \in 0 .. 1 :
            /\ bn_results' = [bn_results EXCEPT ![c] = [@ EXCEPT !.ok = ok, !.cost = cost]]
            /\ IF ok /\ BenchJudges # {} THEN bn_judging' = [bn_judging EXCEPT ![c] = 1] ELSE UNCHANGED bn_judging
      BY <2>2 DEF TheBench!FlowEnds
    <3>2. bn_results[c] \in [ok : BOOLEAN, scores : [BenchJudges -> {None, 0, 1}], cost : 0 .. 1]
            /\ DOMAIN bn_results = BenchCases
      BY DEF BenchInv, BenchTypes, Results
    <3>3. /\ bn_results'[c] = [ok |-> ok, scores |-> bn_results[c].scores, cost |-> cost]
          /\ \A d \in BenchCases : d # c => bn_results'[d] = bn_results[d]
      BY <3>1, <3>2
    <3>4. bn_results' \in Results
      BY <3>1, <3>2, <3>3 DEF BenchInv, BenchTypes, Results
    <3>5. bn_judging[c] = 0 /\ bn_judging \in [BenchCases -> Nat] /\ bn_results[c].scores = TheBench!Fresh.scores
      BY <2>2 DEF TheBench!FlowEnds, BenchInv, BenchTypes, ScoresInv
    <3>6. bn_judging' \in [BenchCases -> Nat] /\ \A d \in BenchCases : d # c => bn_judging'[d] = bn_judging[d]
      BY <3>1, <3>5
    <3>7. bn_judging'[c] # 0 => ok
      BY <3>1, <3>5
    <3>8. ScoresInv'
      BY <3>3, <3>5, <3>6, <3>7 DEF BenchInv, ScoresInv, TheBench!Fresh
    <3> QED BY <3>4, <3>6, <3>8
  <2>3. CASE TheBench!JudgeEnds(c)
    <3>1. PICK score \in {None, 0, 1} : bn_results' = [bn_results EXCEPT ![c].scores[bn_judging[c]] = score]
      BY <2>3 DEF TheBench!JudgeEnds
    <3>2. bn_results[c] \in [ok : BOOLEAN, scores : [BenchJudges -> {None, 0, 1}], cost : 0 .. 1]
            /\ DOMAIN bn_results = BenchCases
      BY DEF BenchInv, BenchTypes, Results
    <3>3. /\ bn_results'[c] = [bn_results[c] EXCEPT !.scores = [@ EXCEPT ![bn_judging[c]] = score]]
          /\ \A d \in BenchCases : d # c => bn_results'[d] = bn_results[d]
          /\ DOMAIN bn_results' = BenchCases
      BY <3>1, <3>2
    <3>4. [bn_results[c].scores EXCEPT ![bn_judging[c]] = score] \in [BenchJudges -> {None, 0, 1}]
      BY <3>2
    <3>5. bn_results'[c] \in [ok : BOOLEAN, scores : [BenchJudges -> {None, 0, 1}], cost : 0 .. 1]
            /\ bn_results'[c].ok = bn_results[c].ok
      BY <3>2, <3>3, <3>4
    <3>6. bn_results' \in Results
      BY <3>1, <3>3, <3>5 DEF BenchInv, BenchTypes, Results
    <3>7. bn_judging[c] # 0 /\ bn_judging \in [BenchCases -> Nat] /\ bn_results[c].ok
      BY <2>3 DEF TheBench!JudgeEnds, BenchInv, BenchTypes, ScoresInv
    <3>8. bn_judging' = bn_judging \/ bn_judging' = [bn_judging EXCEPT ![c] = @ + 1]
      BY <2>3 DEF TheBench!JudgeEnds
    <3>9. bn_judging' \in [BenchCases -> Nat] /\ bn_judging'[c] # 0 /\ \A d \in BenchCases : d # c
            => bn_judging'[d] = bn_judging[d]
      BY <3>7, <3>8
    <3>10. ScoresInv'
      BY <3>3, <3>5, <3>7, <3>9 DEF BenchInv, ScoresInv, TheBench!Fresh
    <3> QED BY <3>6, <3>9, <3>10
  <2> QED BY <2>1, <2>2, <2>3
<1>8. BenchTypes'
  BY <1>3, <1>5, <1>7 DEF BenchInv, BenchTypes
<1> QED BY <1>2, <1>6, <1>7, <1>8, SMTT(20) DEF BenchInv

(* A step of no case leaves the cases as they are. *)
LEMMA RestOK ==
  ASSUME BenchInv, TheBench!AbortSeen \/ TheBench!CallerAborts \/ TheBench!RejectsLast \/ TheBench!Resolves
           \/ UNCHANGED TheBench!vars
  PROVE  BenchInv'
<1>1. UNCHANGED <<bn_limit, bn_at, bn_judging, bn_results, bn_next, bn_late, bn_baseline>>
  BY DEF TheBench!AbortSeen, TheBench!CallerAborts, TheBench!RejectsLast, TheBench!Resolves, TheBench!vars
<1>2. BenchTypes' /\ ScoresInv' /\ PoolInv'
  BY <1>1 DEF BenchInv, BenchTypes, ScoresInv, PoolInv, TheBench!Pooled, TheBench!N
<1>3. MadeInv'
  <2>1. CASE TheBench!AbortSeen
    BY <2>1 DEF BenchInv, MadeInv, TheBench!AbortSeen, TheBench!Halts
  <2>2. CASE TheBench!CallerAborts
    BY <2>2 DEF MadeInv, TheBench!CallerAborts
  <2>3. CASE TheBench!RejectsLast
    BY <2>3 DEF MadeInv, TheBench!RejectsLast
  <2>4. CASE TheBench!Resolves
    <3>1. bn_summary' = TheBench!summarize(bn_results)
            /\ bn_verdict' = TheBench!regression_compare(bn_results, bn_baseline) /\ TheBench!AllSettled
                 /\ ~bn_aborted
      BY <2>4 DEF TheBench!Resolves
    <3>2. TheBench!AllSettled' /\ bn_aborted' = bn_aborted
      BY <1>1, <2>4, <3>1 DEF TheBench!AllSettled, TheBench!Resolves
    <3> QED BY <1>1, <3>1, <3>2 DEF MadeInv
  <2>5. CASE UNCHANGED TheBench!vars
    BY <2>5 DEF BenchInv, MadeInv, TheBench!AllSettled, TheBench!vars
  <2> QED BY <2>1, <2>2, <2>3, <2>4, <2>5
<1> QED BY <1>2, <1>3 DEF BenchInv

(* Every step keeps the invariant. *)
LEMMA BenchKeeps == BenchInv /\ [TheBench!Next]_(TheBench!vars) => BenchInv'
<1> SUFFICES ASSUME BenchInv, [TheBench!Next]_(TheBench!vars) PROVE BenchInv'
  OBVIOUS
<1>1. ASSUME NEW c \in BenchCases, TheBench!ControlFlow(c) \/ TheBench!FlowEnds(c) \/ TheBench!JudgeEnds(c)
               PROVE BenchInv'
  BY <1>1, CaseOK
<1>2. CASE TheBench!Claims
  BY <1>2, ClaimsOK
<1>3. CASE TheBench!AbortSeen \/ TheBench!CallerAborts \/ TheBench!RejectsLast \/ TheBench!Resolves
             \/ UNCHANGED TheBench!vars
  BY <1>3, RestOK
<1> QED BY <1>1, <1>2, <1>3 DEF TheBench!Next

(* A verdict that nothing got worse leaves no case that did. *)
LEMMA NoneHidden ==
  ASSUME BenchTypes, TheBench!regression_compare(bn_results, bn_baseline), NEW c \in BenchCases, bn_baseline[c].ok
  PROVE  bn_results[c].ok /\ bn_results[c].cost <= bn_baseline[c].cost
           /\ \A j \in BenchJudges : bn_results[c].scores[j] # None
<1>1. ~TheBench!CaseRegresses(bn_results[c], bn_baseline[c])
  BY DEF TheBench!regression_compare
<1>2. bn_baseline[c].cost = 1 /\ \A j \in BenchJudges : bn_baseline[c].scores[j] = 1
  BY DEF BenchTypes, TheBench!Fresh
<1>3. bn_results[c].cost \in 0 .. 1
  BY DEF BenchTypes, Results
<1>4. ASSUME NEW j \in BenchJudges PROVE bn_results[c].scores[j] # None
  BY <1>1, <1>2, BenchAre DEF TheBench!CaseRegresses, TheBench!ScoreOf
<1>5. bn_results[c].ok /\ ~(bn_results[c].cost > bn_baseline[c].cost)
  BY <1>1 DEF TheBench!CaseRegresses
<1> QED BY <1>2, <1>3, <1>4, <1>5

(* And so the report is whole. *)
LEMMA BenchShows == BenchInv => TheBench!ReportIsWhole
<1> SUFFICES ASSUME BenchInv PROVE TheBench!ReportIsWhole
  OBVIOUS
<1>1. bn_results \in Results /\ bn_late = {} /\ BenchTypes
  BY DEF BenchInv, BenchTypes
<1>2. \A c \in BenchCases : ~bn_results[c].ok => bn_results[c].scores = TheBench!Fresh.scores
  BY DEF BenchInv, ScoresInv, BenchTypes
<1>3. CASE bn_bench = "resolved"
  <2>1. ~bn_aborted /\ TheBench!AllSettled /\ bn_summary = TheBench!summarize(bn_results)
          /\ bn_verdict = TheBench!regression_compare(bn_results, bn_baseline)
    BY <1>3 DEF BenchInv, MadeInv
  <2>2. \A j \in BenchJudges : bn_summary.means[j][2] <= bn_summary.passes
    BY <1>1, <1>2, <2>1, SummaryIs
  <2>3. TheBench!regression_compare(bn_results, bn_results)
    BY <1>1, NoneOfItself
  <2>4. bn_verdict => \A c \in BenchCases : bn_baseline[c].ok =>
            bn_results[c].ok /\ bn_results[c].cost <= bn_baseline[c].cost
              /\ \A j \in BenchJudges : bn_results[c].scores[j] # None
    BY <1>1, <2>1, NoneHidden
  <2> QED BY <1>1, <1>2, <2>1, <2>2, <2>3, <2>4 DEF TheBench!ReportIsWhole, TheBench!AllSettled
<1> QED BY <1>1, <1>3 DEF TheBench!ReportIsWhole

(* A bench that resolves reports every case, was neither cancelled nor     *)
(* suspended, sums up what its cases are, and hides no case that got worse;*)
(* and a report is no regression of itself.  For any cases, judges and     *)
(* sizes of the pool.                                                      *)
THEOREM BenchReports == TheBench!Spec => []ReportIsWhole
<1>1. TheBench!Spec => []BenchInv
  BY BenchStarts, BenchKeeps, PTL DEF TheBench!Spec
<1> QED BY <1>1, BenchShows, PTL DEF ReportIsWhole

----------------------------------------------------------------------------
(* AcpCards: the cards that a client draws for the tool calls of a session.*)

CONSTANTS CardSteps, CardRawId(_), CardDoes(_), CardRuns, CardTurns, CardBuffer
VARIABLES ac_parallel, ac_turn, ac_phase, ac_cancelled, ac_call, ac_events, ac_lost, ac_recorded,
          ac_sent, ac_cards, ac_runs, ac_previews, ac_taking, ac_left, ac_client, ac_mode,
          ac_granted, ac_wrong

TheCards == INSTANCE AcpCards WITH
  parallel <- ac_parallel, turn <- ac_turn, phase <- ac_phase, cancelled <- ac_cancelled,
  call <- ac_call, events <- ac_events, lost <- ac_lost, recorded <- ac_recorded, sent <- ac_sent,
  cards <- ac_cards, runs <- ac_runs, previews <- ac_previews, taking <- ac_taking, left <- ac_left,
  client <- ac_client, mode <- ac_mode, granted <- ac_granted, wrong <- ac_wrong,
  Steps <- CardSteps, RawId <- CardRawId, Does <- CardDoes, Runs <- CardRuns, Turns <- CardTurns,
  HighWater <- CardBuffer, None <- None

(* A tool call's card is of its own call, and shows what became of it.     *)
CardsAreTrue == TheCards!CardsAreTrue

(* A run of a step of a turn, and so of its tool call. *)
Run == Nat \X CardSteps \X Nat

Event ==
  [kind : {"span_start"}, step : CardSteps] \union [kind : {"tool_call_start"}, step : CardSteps, of : Run]
    \union [kind : {"tool_result"}, step : CardSteps, of : Run, ok : BOOLEAN]

Card == Nat \X CardSteps \X Nat \X TheCards!RawIds

(* What is None is neither in hand nor a card. *)
CardsAssumption == None \notin [event : Event, card : Card]

(* The card of a call, and the call of a card. *)
CardOf(of) == <<of[1], of[2], of[3], CardRawId(of[2])>>
Its(card) == <<card[1], card[2], card[3]>>

Opens(event) == event.kind = "tool_call_start"
Closes(event) == event.kind = "tool_result"
Shows(event, r) == Closes(event) /\ event.ok /\ CardRawId(event.step) = r

(* A step that is at work, and one whose call has begun. *)
AtWork(s) == ac_call[s].at \notin {"idle", "done"}
Opened(s) == AtWork(s) /\ ac_call[s].at # "span"

(* What was recorded and the client has not taken. *)
InLine(t, q) == IF t = None THEN q ELSE <<t.event>> \o q
Line == InLine(ac_taking, ac_events)

CallTypes ==
  /\ ac_parallel \in BOOLEAN /\ ac_lost \in BOOLEAN
  /\ ac_turn \in Nat
  /\ ac_call \in [CardSteps -> [run : Nat, at : {"idle", "done", "span", "called", "waits", "asks", "runs", "ran", "refused"},
                         target : Nat]]
  /\ ac_recorded \in Nat /\ ac_sent \in Nat

(* Who has left has nothing in hand, and steps of a sequence take turns. *)
TurnInv ==
  /\ ac_left => ac_cancelled /\ ac_taking = None
  /\ ac_phase = "over" => ac_taking = None
  /\ ~ac_parallel => \A s, o \in CardSteps : AtWork(s) /\ AtWork(o) => s = o

(* The events in line are of this turn, and are numbered. *)
Held(t, q) ==
  /\ q \in Seq(Event)
  /\ t # None => t \in [event : Event, card : Card] /\ t.event.kind # "span_start" /\ t.card = CardOf(t.event.of)

HeldTypes == Held(ac_taking, ac_events)

LineTypes ==
  /\ HeldTypes
  /\ ac_recorded = ac_sent + Len(Line)
  /\ ac_runs \in [CardSteps -> Nat] /\ ac_previews \in [TheCards!RawIds -> Seq(Run)]
  /\ DOMAIN ac_cards = TheCards!RawIds

(* The client draws what was opened, and knows a card for every raw id of it. *)
ClientInv ==
  \A card \in DOMAIN ac_client :
    /\ card \in Card
    /\ ac_client[card] = Its(card) /\ card[4] = CardRawId(card[2]) /\ card[1] = ac_turn
    /\ card[3] <= ac_call[card[2]].run
    /\ card[3] = ac_call[card[2]].run => ac_call[card[2]].at # "span"
    /\ ac_cards[card[4]] \in DOMAIN ac_client

(* A card is opened once, by a call that has begun. *)
OpensInv ==
  /\ \A j \in DOMAIN Line : Line[j].kind # "span_start" =>
       LET of == Line[j].of IN of[1] = ac_turn /\ of[2] = Line[j].step /\ of[3] <= ac_call[of[2]].run
  /\ \A j \in DOMAIN Line : Opens(Line[j]) =>
       LET of == Line[j].of IN
       /\ CardOf(of) \notin DOMAIN ac_client
       /\ of[3] = ac_call[of[2]].run => ac_call[of[2]].at # "span"
       /\ \A k \in DOMAIN Line : Opens(Line[k]) /\ Line[k].of = of => k = j

(* It is closed after that. *)
ClosesInv ==
  \A j \in DOMAIN Line : Closes(Line[j]) =>
    \/ CardOf(Line[j].of) \in DOMAIN ac_client
    \/ \E k \in DOMAIN Line : k < j /\ Opens(Line[k]) /\ Line[k].of = Line[j].of

(* A call that has begun has its card, or the card is in line, and ahead of *)
(* what the call waits for.                                                 *)
BegunInv ==
  \A s \in CardSteps : Opened(s) =>
    /\ CardOf(TheCards!Me(s)) \in DOMAIN ac_client \/ \E j \in DOMAIN Line : Opens(Line[j])
         /\ Line[j].of = TheCards!Me(s)
    /\ ac_call[s].at = "waits" =>
         \A j \in DOMAIN Line : Opens(Line[j]) /\ Line[j].of = TheCards!Me(s) => ac_sent + j <= ac_call[s].target

(* In a sequence no later call takes its place under the raw id. *)
PlaceInv ==
  ~ac_parallel => \A s \in CardSteps : Opened(s) =>
    /\ CardOf(TheCards!Me(s)) \in DOMAIN ac_client => ac_cards[CardRawId(s)] = CardOf(TheCards!Me(s))
    /\ \A j \in DOMAIN Line : Opens(Line[j]) =>
         \E k \in DOMAIN Line : k >= j /\ Opens(Line[k]) /\ Line[k].of = TheCards!Me(s)

(* The mapper's counts, one event after another, come to the runs there were. *)
Counts(path) ==
  /\ path \in [0..Len(ac_events) -> [CardSteps -> Nat]]
  /\ path[0] = ac_runs /\ path[Len(ac_events)] = [s \in CardSteps |-> ac_call[s].run]
  /\ \A j \in 1..Len(ac_events) :
       /\ path[j] = IF ac_events[j].kind = "span_start" THEN [path[j - 1] EXCEPT ![ac_events[j].step] = @ + 1]
            ELSE path[j - 1]
       /\ ac_events[j].kind # "span_start"
            => ac_events[j].of = <<ac_turn, ac_events[j].step, path[j][ac_events[j].step]>>

CountInv == \E path : Counts(path)

(* The previews under a raw id are those of the results in line, in order. *)
Places(pos, line, seen, r) ==
  /\ pos \in [1..Len(seen) -> 1..Len(line)]
  /\ \A i, j \in 1..Len(seen) : i < j => pos[i] < pos[j]
  /\ \A i \in 1..Len(seen) : Shows(line[pos[i]], r) /\ line[pos[i]].of = seen[i]
  /\ \A j \in 1..Len(line) : Shows(line[j], r) => \E i \in 1..Len(seen) : pos[i] = j

Matches(line, seen, r) == \E pos : Places(pos, line, seen, r)

Result(s) == [kind |-> "tool_result", step |-> s, of |-> TheCards!Me(s), ok |-> TRUE]

PreviewInv ==
  ~ac_parallel => \A r \in TheCards!RawIds :
    /\ (\A s \in CardSteps : ac_call[s].at # "ran") => Matches(ac_events, ac_previews[r], r)
    /\ \A s \in CardSteps : ac_call[s].at = "ran" => Matches(Append(ac_events, Result(s)), ac_previews[r], r)

WrongInv ==
  /\ "lowered" \notin ac_wrong
  /\ ~ac_lost => ac_wrong \intersect {"unknown", "reopened", "closes"} = {}
  /\ ~ac_lost /\ ~ac_parallel => ac_wrong \intersect {"other", "preview"} = {}

Told == LineTypes /\ ClientInv /\ OpensInv /\ ClosesInv /\ BegunInv /\ PlaceInv /\ CountInv /\ PreviewInv

CardsInv == CallTypes /\ TurnInv /\ (~ac_lost /\ ~ac_left => Told) /\ WrongInv

LEMMA RunIs ==
  ASSUME NEW of \in Run
  PROVE  /\ of[1] \in Nat /\ of[2] \in CardSteps /\ of[3] \in Nat /\ of = <<of[1], of[2], of[3]>>
         /\ CardOf(of) \in Card /\ Its(CardOf(of)) = of
         /\ CardOf(of)[1] = of[1] /\ CardOf(of)[2] = of[2] /\ CardOf(of)[3] = of[3]
              /\ CardOf(of)[4] = CardRawId(of[2])
         /\ \A other \in Run : CardOf(other) = CardOf(of) => other = of
<1>1. of[1] \in Nat /\ of[2] \in CardSteps /\ of[3] \in Nat /\ of = <<of[1], of[2], of[3]>>
  BY DEF Run
<1>2. CardRawId(of[2]) \in TheCards!RawIds
  BY <1>1 DEF TheCards!RawIds
<1>3. CardOf(of)[1] = of[1] /\ CardOf(of)[2] = of[2] /\ CardOf(of)[3] = of[3] /\ CardOf(of)[4] = CardRawId(of[2])
  BY DEF CardOf
<1>4. CardOf(of) \in Card
  BY <1>1, <1>2 DEF CardOf, Card
<1>5. Its(CardOf(of)) = of
  BY <1>1, <1>3 DEF Its
<1>6. ASSUME NEW other \in Run, CardOf(other) = CardOf(of) PROVE other = of
  <2>1. other = <<other[1], other[2], other[3]>>
    BY DEF Run
  <2>2. CardOf(other)[1] = other[1] /\ CardOf(other)[2] = other[2] /\ CardOf(other)[3] = other[3]
    BY DEF CardOf
  <2> QED BY <1>1, <1>3, <1>6, <2>1, <2>2
<1> QED BY <1>1, <1>3, <1>4, <1>5, <1>6

LEMMA EventIs ==
  ASSUME NEW e \in Event
  PROVE  /\ e.step \in CardSteps /\ e.kind \in {"span_start", "tool_call_start", "tool_result"}
         /\ e.kind # "span_start" => e.of \in Run
         /\ Closes(e) => e.ok \in BOOLEAN
BY DEF Event, Closes

LEMMA NoneIsNone ==
  ASSUME CardsAssumption, NEW e \in Event, NEW c \in Card
  PROVE  [event |-> e, card |-> c] # None /\ [event |-> e, card |-> c] \in [event : Event, card : Card]
BY DEF CardsAssumption

(* An event more in line, and what it leaves as it was. *)
LEMMA Appended ==
  ASSUME NEW S, NEW q \in Seq(S), NEW e \in S
  PROVE  /\ Append(q, e) \in Seq(S) /\ Len(Append(q, e)) = Len(q) + 1 /\ DOMAIN Append(q, e) = 1..Len(q) + 1
         /\ Append(q, e)[Len(q) + 1] = e /\ \A j \in 1..Len(q) : Append(q, e)[j] = q[j]
         /\ DOMAIN q = 1..Len(q) /\ Len(q) \in Nat /\ Append(q, e) # <<>>
<1>1. Append(q, e) \in Seq(S) /\ Len(Append(q, e)) = Len(q) + 1 /\ Len(q) \in Nat /\ DOMAIN q = 1..Len(q)
  OBVIOUS
<1>2. Append(q, e)[Len(q) + 1] = e /\ \A j \in 1..Len(q) : Append(q, e)[j] = q[j]
  OBVIOUS
<1>3. DOMAIN Append(q, e) = 1..Len(q) + 1 /\ Append(q, e) # <<>>
  BY <1>1
<1> QED BY <1>1, <1>2, <1>3

LEMMA Shortened ==
  ASSUME NEW S, NEW q \in Seq(S), q # <<>>
  PROVE  /\ Tail(q) \in Seq(S) /\ Len(q) \in Nat /\ Len(q) >= 1 /\ Len(Tail(q)) = Len(q) - 1
           /\ DOMAIN Tail(q) = 1..Len(q) - 1
         /\ Head(q) = q[1] /\ q[1] \in S /\ DOMAIN q = 1..Len(q) /\ \A j \in 1..Len(q) - 1 : Tail(q)[j] = q[j + 1]
<1>1. Tail(q) \in Seq(S) /\ Len(q) \in Nat /\ Len(q) >= 1 /\ Len(Tail(q)) = Len(q) - 1 /\ DOMAIN q = 1..Len(q)
  OBVIOUS
<1>2. Head(q) = q[1] /\ q[1] \in S
  BY <1>1
<1>3. \A j \in 1..Len(q) - 1 : Tail(q)[j] = q[j + 1]
  BY <1>1
<1> QED BY <1>1, <1>2, <1>3

LEMMA FirstThenRest ==
  ASSUME NEW S, NEW q \in Seq(S), q # <<>>
  PROVE  <<Head(q)>> \o Tail(q) = q
<1>1. Tail(q) \in Seq(S) /\ Head(q) \in S /\ <<Head(q)>> \in Seq(S)
  BY Shortened
<1>2. Len(<<Head(q)>> \o Tail(q)) = Len(q)
  BY <1>1, Shortened, ConcatProperties
<1> QED OBVIOUS

----------------------------------------------------------------------------
(* What is put in line, and what is taken from it, under a raw id. *)

LEMMA MatchesMore ==
  ASSUME NEW S, NEW line \in Seq(S), NEW seen \in Seq(Run), NEW r, NEW e \in S, Matches(line, seen, r)
  PROVE  /\ ~Shows(e, r) => Matches(Append(line, e), seen, r)
         /\ Shows(e, r) /\ e.of \in Run => Matches(Append(line, e), Append(seen, e.of), r)
<1>1. PICK pos : Places(pos, line, seen, r)
  BY DEF Matches
<1>2. PICK n \in Nat : n = Len(line) /\ Len(Append(line, e)) = n + 1 /\ Append(line, e)[n + 1] = e
                        /\ \A j \in 1..n : Append(line, e)[j] = line[j]
  BY Appended
<1>3. PICK m \in Nat : m = Len(seen)
  OBVIOUS
<1>4. PICK more : more = Append(line, e)
  OBVIOUS
<1>5. /\ pos \in [1..m -> 1..n]
      /\ \A i, j \in 1..m : i < j => pos[i] < pos[j]
      /\ \A i \in 1..m : Shows(line[pos[i]], r) /\ line[pos[i]].of = seen[i]
      /\ \A j \in 1..n : Shows(line[j], r) => \E i \in 1..m : pos[i] = j
  BY <1>1, <1>2, <1>3 DEF Places
<1>6. ASSUME ~Shows(e, r) PROVE Places(pos, more, seen, r)
  <2>1. pos \in [1..m -> 1..n + 1]
    BY <1>5
  <2>2. \A i \in 1..m : Shows(more[pos[i]], r) /\ more[pos[i]].of = seen[i]
    BY <1>2, <1>4, <1>5
  <2>3. ASSUME NEW j \in 1..n + 1, Shows(more[j], r) PROVE \E i \in 1..m : pos[i] = j
    <3>1. j # n + 1
      BY <1>2, <1>4, <1>6, <2>3
    <3>2. j \in 1..n /\ more[j] = line[j]
      BY <1>2, <1>4, <3>1
    <3> QED BY <1>5, <2>3, <3>2
  <2> QED BY <1>2, <1>3, <1>4, <1>5, <2>1, <2>2, <2>3 DEF Places
<1>7. ASSUME Shows(e, r), e.of \in Run PROVE Matches(more, Append(seen, e.of), r)
  <2>1. PICK all : all = Append(seen, e.of)
    OBVIOUS
  <2>2. Len(all) = m + 1 /\ all[m + 1] = e.of /\ \A i \in 1..m : all[i] = seen[i]
    BY <1>3, <1>7, <2>1, Appended
  <2>3. PICK at : at = [i \in 1..m + 1 |-> IF i = m + 1 THEN n + 1 ELSE pos[i]]
    OBVIOUS
  <2>4. \A i \in 1..m : at[i] = pos[i] /\ pos[i] \in 1..n
    BY <1>5, <2>3
  <2>5. at[m + 1] = n + 1
    BY <2>3
  <2>6. at \in [1..m + 1 -> 1..n + 1]
    <3>1. ASSUME NEW i \in 1..m + 1 PROVE at[i] \in 1..n + 1
      <4>1. CASE i = m + 1
        BY <2>5, <4>1
      <4>2. CASE i # m + 1
        <5>1. i \in 1..m
          BY <4>2
        <5> QED BY <2>4, <5>1
      <4> QED BY <4>1, <4>2
    <3> QED BY <2>3, <3>1
  <2>7. ASSUME NEW i \in 1..m + 1, NEW j \in 1..m + 1, i < j PROVE at[i] < at[j]
    <3>1. i \in 1..m
      BY <2>7
    <3>2. CASE j = m + 1
      BY <2>4, <2>5, <3>1, <3>2
    <3>3. CASE j # m + 1
      <4>1. j \in 1..m
        BY <3>3
      <4> QED BY <1>5, <2>4, <2>7, <3>1, <4>1
    <3> QED BY <3>2, <3>3
  <2>8. ASSUME NEW i \in 1..m + 1 PROVE Shows(more[at[i]], r) /\ more[at[i]].of = all[i]
    <3>1. CASE i = m + 1
      BY <1>2, <1>4, <1>7, <2>2, <2>5, <3>1
    <3>2. CASE i # m + 1
      <4>1. i \in 1..m
        BY <3>2
      <4>2. at[i] = pos[i] /\ pos[i] \in 1..n /\ all[i] = seen[i] /\ more[pos[i]] = line[pos[i]]
        BY <1>2, <1>4, <2>2, <2>4, <4>1
      <4> QED BY <1>5, <4>1, <4>2
    <3> QED BY <3>1, <3>2
  <2>9. ASSUME NEW j \in 1..n + 1, Shows(more[j], r) PROVE \E i \in 1..m + 1 : at[i] = j
    <3>1. CASE j = n + 1
      BY <2>5, <3>1
    <3>2. CASE j # n + 1
      <4>1. j \in 1..n /\ more[j] = line[j]
        BY <1>2, <1>4, <3>2
      <4>2. PICK i \in 1..m : pos[i] = j
        BY <1>5, <2>9, <4>1
      <4>3. i \in 1..m + 1 /\ at[i] = j
        BY <2>4, <4>2
      <4> QED BY <4>3
    <3> QED BY <3>1, <3>2
  <2>10. Places(at, more, all, r)
    BY <1>2, <1>4, <2>2, <2>6, <2>7, <2>8, <2>9 DEF Places
  <2> QED BY <2>1, <2>10 DEF Matches
<1> QED BY <1>4, <1>6, <1>7 DEF Matches

LEMMA MatchesLess ==
  ASSUME NEW S, NEW line \in Seq(S), line # <<>>, NEW seen \in Seq(Run), NEW r, Matches(line, seen, r)
  PROVE  /\ ~Shows(line[1], r) => Matches(Tail(line), seen, r)
         /\ Shows(line[1], r) => seen # <<>> /\ Head(seen) = line[1].of /\ Matches(Tail(line), Tail(seen), r)
<1>1. PICK pos : Places(pos, line, seen, r)
  BY DEF Matches
<1>2. PICK n \in Nat : n = Len(line) /\ n >= 1 /\ Len(Tail(line)) = n - 1
             /\ \A j \in 1..n - 1 : Tail(line)[j] = line[j + 1]
  BY Shortened
<1>3. PICK m \in Nat : m = Len(seen)
  OBVIOUS
<1>4. PICK less : less = Tail(line)
  OBVIOUS
<1>5. /\ pos \in [1..m -> 1..n]
      /\ \A i, j \in 1..m : i < j => pos[i] < pos[j]
      /\ \A i \in 1..m : Shows(line[pos[i]], r) /\ line[pos[i]].of = seen[i]
      /\ \A j \in 1..n : Shows(line[j], r) => \E i \in 1..m : pos[i] = j
  BY <1>1, <1>2, <1>3 DEF Places
<1>6. ASSUME ~Shows(line[1], r) PROVE Matches(less, seen, r)
  <2>1. \A i \in 1..m : pos[i] \in 2..n
    <3> SUFFICES ASSUME NEW i \in 1..m PROVE pos[i] \in 2..n
      OBVIOUS
    <3>1. pos[i] \in 1..n /\ pos[i] # 1
      BY <1>5, <1>6
    <3> QED BY <3>1
  <2>2. PICK at : at = [i \in 1..m |-> pos[i] - 1]
    OBVIOUS
  <2>3. \A i \in 1..m : at[i] = pos[i] - 1 /\ at[i] \in 1..n - 1 /\ at[i] + 1 = pos[i] /\ less[at[i]] = line[pos[i]]
    <3> SUFFICES ASSUME NEW i \in 1..m
                 PROVE at[i] = pos[i] - 1 /\ at[i] \in 1..n - 1 /\ at[i] + 1 = pos[i] /\ less[at[i]] = line[pos[i]]
      OBVIOUS
    <3>1. pos[i] \in 2..n /\ at[i] = pos[i] - 1
      BY <2>1, <2>2
    <3>2. at[i] \in 1..n - 1 /\ at[i] + 1 = pos[i]
      BY <3>1
    <3> QED BY <1>2, <1>4, <3>1, <3>2
  <2>4. at \in [1..m -> 1..n - 1]
    BY <2>2, <2>3
  <2>5. \A i, j \in 1..m : i < j => at[i] < at[j]
    <3> SUFFICES ASSUME NEW i \in 1..m, NEW j \in 1..m, i < j PROVE at[i] < at[j]
      OBVIOUS
    <3>1. pos[i] < pos[j] /\ at[i] = pos[i] - 1 /\ at[j] = pos[j] - 1 /\ pos[i] \in 2..n /\ pos[j] \in 2..n
      BY <1>5, <2>1, <2>3
    <3> QED BY <3>1
  <2>6. ASSUME NEW j \in 1..n - 1, Shows(less[j], r) PROVE \E i \in 1..m : at[i] = j
    <3>1. j + 1 \in 1..n /\ less[j] = line[j + 1]
      BY <1>2, <1>4
    <3>2. PICK i \in 1..m : pos[i] = j + 1
      BY <1>5, <2>6, <3>1
    <3>3. at[i] = j
      BY <2>3, <3>2
    <3> QED BY <3>3
  <2>7. Places(at, less, seen, r)
    BY <1>2, <1>3, <1>4, <1>5, <2>3, <2>4, <2>5, <2>6 DEF Places
  <2> QED BY <2>7 DEF Matches
<1>7. ASSUME Shows(line[1], r) PROVE seen # <<>> /\ Head(seen) = line[1].of /\ Matches(less, Tail(seen), r)
  <2>1. PICK f \in 1..m : pos[f] = 1
    BY <1>2, <1>5, <1>7
  <2>2. f = 1
    <3> SUFFICES ASSUME f # 1 PROVE FALSE
      OBVIOUS
    <3>1. 1 \in 1..m /\ 1 < f
      BY <2>1
    <3>2. pos[1] < pos[f] /\ pos[1] \in 1..n
      BY <1>5, <3>1
    <3> QED BY <2>1, <3>2
  <2>3. m >= 1 /\ pos[1] = 1 /\ 1 \in 1..m
    BY <2>1, <2>2
  <2>4. seen # <<>>
    BY <1>3, <2>3
  <2>5. Head(seen) = seen[1] /\ Len(Tail(seen)) = m - 1 /\ \A i \in 1..m - 1 : Tail(seen)[i] = seen[i + 1]
    BY <1>3, <2>4, Shortened
  <2>6. Head(seen) = line[1].of
    BY <1>5, <2>3, <2>5
  <2>7. PICK rest : rest = Tail(seen)
    OBVIOUS
  <2>8. PICK at : at = [i \in 1..m - 1 |-> pos[i + 1] - 1]
    OBVIOUS
  <2>9. \A i \in 1..m - 1 : at[i] = pos[i + 1] - 1 /\ at[i] \in 1..n - 1 /\ at[i] + 1 = pos[i + 1]
                             /\ less[at[i]] = line[pos[i + 1]] /\ i + 1 \in 1..m /\ rest[i] = seen[i + 1]
    <3> SUFFICES ASSUME NEW i \in 1..m - 1
                 PROVE at[i] = pos[i + 1] - 1 /\ at[i] \in 1..n - 1 /\ at[i] + 1 = pos[i + 1]
                         /\ less[at[i]] = line[pos[i + 1]] /\ i + 1 \in 1..m /\ rest[i] = seen[i + 1]
      OBVIOUS
    <3>1. i + 1 \in 1..m /\ 1 < i + 1 /\ at[i] = pos[i + 1] - 1 /\ rest[i] = seen[i + 1]
      BY <2>5, <2>7, <2>8
    <3>2. pos[1] < pos[i + 1] /\ pos[i + 1] \in 1..n
      BY <1>5, <2>3, <3>1
    <3>3. at[i] \in 1..n - 1 /\ at[i] + 1 = pos[i + 1]
      BY <2>3, <3>1, <3>2
    <3> QED BY <1>2, <1>4, <3>1, <3>3
  <2>10. at \in [1..m - 1 -> 1..n - 1]
    BY <2>8, <2>9
  <2>11. \A i, j \in 1..m - 1 : i < j => at[i] < at[j]
    <3> SUFFICES ASSUME NEW i \in 1..m - 1, NEW j \in 1..m - 1, i < j PROVE at[i] < at[j]
      OBVIOUS
    <3>1. i + 1 \in 1..m /\ j + 1 \in 1..m /\ i + 1 < j + 1 /\ at[i] = pos[i + 1] - 1 /\ at[j] = pos[j + 1] - 1
      BY <2>9
    <3>2. pos[i + 1] < pos[j + 1] /\ pos[i + 1] \in 1..n /\ pos[j + 1] \in 1..n
      BY <1>5, <3>1
    <3> QED BY <3>1, <3>2
  <2>12. ASSUME NEW j \in 1..n - 1, Shows(less[j], r) PROVE \E i \in 1..m - 1 : at[i] = j
    <3>1. j + 1 \in 1..n /\ less[j] = line[j + 1] /\ j + 1 # 1
      BY <1>2, <1>4
    <3>2. PICK i \in 1..m : pos[i] = j + 1
      BY <1>5, <2>12, <3>1
    <3>3. i # 1
      BY <2>3, <3>1, <3>2
    <3>4. i - 1 \in 1..m - 1 /\ (i - 1) + 1 = i
      BY <3>3
    <3>5. at[i - 1] = pos[i] - 1
      BY <2>9, <3>4
    <3>6. at[i - 1] = j
      BY <3>2, <3>5
    <3> QED BY <3>4, <3>6
  <2>13. \A i \in 1..m - 1 : Shows(less[at[i]], r) /\ less[at[i]].of = rest[i]
    <3> SUFFICES ASSUME NEW i \in 1..m - 1 PROVE Shows(less[at[i]], r) /\ less[at[i]].of = rest[i]
      OBVIOUS
    <3>1. less[at[i]] = line[pos[i + 1]] /\ i + 1 \in 1..m /\ rest[i] = seen[i + 1]
      BY <2>9
    <3>2. Shows(line[pos[i + 1]], r) /\ line[pos[i + 1]].of = seen[i + 1]
      BY <1>5, <3>1
    <3> QED BY <3>1, <3>2
  <2>14. Places(at, less, rest, r)
    BY <1>2, <1>4, <2>5, <2>7, <2>10, <2>11, <2>12, <2>13 DEF Places
  <2> QED BY <2>4, <2>6, <2>7, <2>14 DEF Matches
<1> QED BY <1>4, <1>6, <1>7

(* The line gets an event more, or loses its first. *)
More(e) ==
  /\ Line' \in Seq(Event) /\ Len(Line') = Len(Line) + 1 /\ Line'[Len(Line) + 1] = e
  /\ \A j \in 1..Len(Line) : Line'[j] = Line[j]

Less ==
  /\ Len(Line) >= 1 /\ Line' \in Seq(Event) /\ Len(Line') = Len(Line) - 1
  /\ \A j \in 1..Len(Line) - 1 : Line'[j] = Line[j + 1]

LEMMA InLineIs ==
  ASSUME NEW t, NEW q, Held(t, q)
  PROVE  /\ q \in Seq(Event) /\ Len(q) \in Nat
         /\ InLine(t, q) \in Seq(Event) /\ Len(InLine(t, q)) \in Nat /\ DOMAIN InLine(t, q) = 1..Len(InLine(t, q))
         /\ t = None => InLine(t, q) = q
         /\ t # None => /\ Len(InLine(t, q)) = Len(q) + 1 /\ InLine(t, q)[1] = t.event
                        /\ \A j \in 1..Len(q) : InLine(t, q)[j + 1] = q[j]
<1>1. q \in Seq(Event) /\ Len(q) \in Nat
  BY DEF Held
<1>2. CASE t = None
  BY <1>1, <1>2 DEF InLine
<1>3. CASE t # None
  <2>1. PICK e : e = t.event
    OBVIOUS
  <2>2. e \in Event
    BY <1>3, <2>1 DEF Held
  <2>3. PICK first : first = <<e>>
    OBVIOUS
  <2>4. first \in Seq(Event) /\ Len(first) = 1 /\ first[1] = e
    BY <2>2, <2>3
  <2>5. PICK all : all = first \o q
    OBVIOUS
  <2>6. PICK S : S = Event
    OBVIOUS
  <2>7. first \in Seq(S) /\ q \in Seq(S)
    BY <1>1, <2>4, <2>6
  <2>8. /\ all \in Seq(S) /\ Len(all) = Len(first) + Len(q)
        /\ \A i \in 1..Len(first) + Len(q) : all[i] = IF i <= Len(first) THEN first[i] ELSE q[i - Len(first)]
    BY <2>5, <2>7, ConcatProperties
  <2>9. Len(all) = 1 + Len(q) /\ all[1] = e
    BY <1>1, <2>4, <2>8
  <2>10. \A j \in 1..Len(q) : all[j + 1] = q[j]
    <3> SUFFICES ASSUME NEW j \in 1..Len(q) PROVE all[j + 1] = q[j]
      OBVIOUS
    <3>1. j + 1 \in 1..1 + Len(q) /\ ~(j + 1 <= 1) /\ (j + 1) - 1 = j
      BY <1>1
    <3> QED BY <2>4, <2>8, <3>1
  <2>11. all = InLine(t, q)
    BY <1>3, <2>1, <2>3, <2>5 DEF InLine
  <2>12. all \in Seq(Event) /\ DOMAIN all = 1..Len(all)
    BY <2>6, <2>8
  <2> QED BY <1>1, <1>3, <2>1, <2>9, <2>10, <2>11, <2>12
<1> QED BY <1>2, <1>3

LEMMA LineIs ==
  ASSUME HeldTypes
  PROVE  /\ ac_events \in Seq(Event) /\ Line \in Seq(Event) /\ Len(Line) \in Nat /\ DOMAIN Line = 1..Len(Line)
         /\ ac_taking = None => Line = ac_events
         /\ ac_taking # None => /\ Len(Line) = Len(ac_events) + 1 /\ Line[1] = ac_taking.event
                                /\ \A j \in 1..Len(ac_events) : Line[j + 1] = ac_events[j]
BY InLineIs DEF HeldTypes, Line

LEMMA LineNext ==
  ASSUME HeldTypes'
  PROVE  /\ Line' \in Seq(Event) /\ Len(Line') \in Nat /\ DOMAIN Line' = 1..Len(Line')
         /\ ac_taking' = None => Line' = ac_events'
         /\ ac_taking' # None => /\ Len(Line') = Len(ac_events') + 1 /\ Line'[1] = ac_taking'.event
                                 /\ \A j \in 1..Len(ac_events') : Line'[j + 1] = ac_events'[j]
<1>1. Held(ac_taking', ac_events')
  BY DEF HeldTypes
<1>2. Line' = InLine(ac_taking', ac_events')
  BY DEF Line
<1> QED BY <1>1, <1>2, InLineIs

LEMMA LineMore ==
  ASSUME HeldTypes, NEW e \in Event, ac_events' = Append(ac_events, e), ac_taking' = ac_taking
  PROVE  HeldTypes' /\ More(e)
<1>1. HeldTypes'
  BY Appended DEF HeldTypes, Held
<1>2. ac_events \in Seq(Event)
  BY DEF HeldTypes, Held
<1>3. PICK n \in Nat : n = Len(ac_events) /\ Len(ac_events') = n + 1 /\ ac_events'[n + 1] = e
             /\ \A j \in 1..n : ac_events'[j] = ac_events[j]
  BY <1>2, Appended, SMTT(20)
<1>4. /\ Line' \in Seq(Event) /\ (ac_taking' = None => Line' = ac_events')
      /\ ac_taking' # None => /\ Len(Line') = Len(ac_events') + 1 /\ Line'[1] = ac_taking'.event
                              /\ \A j \in 1..Len(ac_events') : Line'[j + 1] = ac_events'[j]
  BY <1>1, LineNext, Zenon
<1>5. CASE ac_taking = None
  <2>1. Line = ac_events /\ Line' = ac_events'
    BY <1>4, <1>5, LineIs
  <2> QED BY <1>1, <1>3, <1>4, <2>1 DEF More
<1>6. CASE ac_taking # None
  <2>1. Len(Line) = n + 1 /\ Len(Line') = n + 2 /\ Line'[n + 2] = e
    <3>1. n + 1 \in 1..Len(ac_events') /\ (n + 1) + 1 = n + 2
      BY <1>3
    <3> QED BY <1>3, <1>4, <1>6, <3>1, LineIs
  <2>2. ASSUME NEW j \in 1..n + 1 PROVE Line'[j] = Line[j]
    <3>1. CASE j = 1
      BY <1>4, <1>6, <3>1, LineIs
    <3>2. CASE j # 1
      <4>1. j - 1 \in 1..n /\ (j - 1) + 1 = j /\ j - 1 \in 1..Len(ac_events')
        BY <1>3, <3>2
      <4> QED BY <1>3, <1>4, <1>6, <4>1, LineIs
    <3> QED BY <3>1, <3>2
  <2>3. Line' \in Seq(Event) /\ Len(Line') = Len(Line) + 1 /\ Line'[Len(Line) + 1] = e
    <3>1. Len(Line) + 1 = n + 2
      BY <2>1
    <3> QED BY <1>4, <2>1, <3>1
  <2>4. \A j \in 1..Len(Line) : Line'[j] = Line[j]
    BY <2>1, <2>2
  <2> QED BY <1>1, <2>3, <2>4, SMTT(20) DEF More
<1> QED BY <1>1, <1>5, <1>6

(* An event that starts a span leaves the line when it is forwarded. *)
LEMMA LineForwards ==
  ASSUME HeldTypes, ac_taking = None, ac_events # <<>>, ac_events' = Tail(ac_events), ac_taking' = ac_taking
  PROVE  HeldTypes' /\ Less /\ Line[1] = Head(ac_events)
<1>1. HeldTypes' /\ ac_events \in Seq(Event)
  BY Shortened, SMTT(20) DEF HeldTypes, Held
<1>2. Line = ac_events /\ Line' = ac_events'
  BY <1>1, LineIs, LineNext
<1> QED BY <1>1, <1>2, Shortened DEF Less

(* Any other one stays in line until the client has taken it. *)
LEMMA LineHands ==
  ASSUME HeldTypes, ac_taking = None, ac_events # <<>>, ac_events' = Tail(ac_events), ac_taking' # None,
           ac_taking'.event = Head(ac_events), HeldTypes'
  PROVE  Line' = Line /\ Line[1] = Head(ac_events)
<1>1. ac_events \in Seq(Event) /\ Line = ac_events
  BY LineIs DEF HeldTypes, Held
<1>2. PICK first : first = Head(ac_events)
  OBVIOUS
<1>3. PICK rest : rest = Tail(ac_events)
  OBVIOUS
<1>4. <<first>> \o rest = ac_events
  BY <1>1, <1>2, <1>3, FirstThenRest
<1>5. Line' = <<first>> \o rest
  BY <1>2, <1>3 DEF Line, InLine
<1> QED BY <1>1, <1>4, <1>5, Shortened

LEMMA LineTaken ==
  ASSUME HeldTypes, ac_taking # None, ac_taking' = None, ac_events' = ac_events
  PROVE  HeldTypes' /\ Less /\ Line[1] = ac_taking.event
<1>1. HeldTypes'
  BY DEF HeldTypes, Held
<1>2. Line' = ac_events' /\ Line' \in Seq(Event) /\ Len(Line') \in Nat
  BY <1>1, LineNext
<1>3. Len(ac_events) \in Nat
  BY <1>1, SMTT(20) DEF HeldTypes, Held
<1>4. /\ Len(Line) = Len(ac_events) + 1 /\ Line[1] = ac_taking.event
      /\ \A j \in 1..Len(ac_events) : Line[j + 1] = ac_events[j]
  BY LineIs
<1> QED BY <1>1, <1>2, <1>3, <1>4 DEF Less

LEMMA LineAt ==
  ASSUME HeldTypes, NEW j \in DOMAIN Line
  PROVE  Line[j] \in Event
<1>1. PICK q : q = Line
  BY SMTT(20)
<1>2. q \in Seq(Event) /\ j \in DOMAIN q
  BY <1>1, LineIs
<1>3. q[j] \in Event
  BY <1>2
<1> QED BY <1>1, <1>3

LEMMA MoreIs ==
  ASSUME HeldTypes, NEW e \in Event, More(e)
  PROVE  \E n \in Nat : /\ n = Len(Line) /\ DOMAIN Line = 1..n /\ DOMAIN Line' = 1..n + 1 /\ Line'[n + 1] = e
                        /\ \A j \in 1..n : Line'[j] = Line[j]
<1>1. PICK n \in Nat : n = Len(Line)
  BY LineIs, Zenon
<1>2. DOMAIN Line = 1..n
  BY <1>1, LineIs
<1>3. PICK q : q = Line'
  OBVIOUS
<1>4. q \in Seq(Event) /\ Len(q) = n + 1 /\ q[n + 1] = e /\ \A j \in 1..n : q[j] = Line[j]
  BY <1>1, <1>3 DEF More
<1>5. DOMAIN q = 1..n + 1
  BY <1>4
<1> QED BY <1>1, <1>2, <1>3, <1>4, <1>5, SMTT(20)

LEMMA LessIs ==
  ASSUME HeldTypes, Less
  PROVE  \E n \in Nat : /\ n = Len(Line) /\ n >= 1 /\ DOMAIN Line = 1..n /\ DOMAIN Line' = 1..n - 1
                        /\ \A j \in 1..n - 1 : Line'[j] = Line[j + 1]
<1>1. PICK n \in Nat : n = Len(Line)
  BY LineIs, Zenon
<1>2. DOMAIN Line = 1..n
  BY <1>1, LineIs
<1>3. PICK q : q = Line'
  OBVIOUS
<1>4. q \in Seq(Event) /\ n >= 1 /\ Len(q) = n - 1 /\ \A j \in 1..n - 1 : q[j] = Line[j + 1]
  BY <1>1, <1>3 DEF Less
<1>5. DOMAIN q = 1..n - 1
  BY <1>4
<1> QED BY <1>1, <1>2, <1>3, <1>4, <1>5, SMTT(20)

(* Every step goes on from where it is, or begins anew. *)
CallGrows ==
  \A s \in CardSteps : /\ ac_call[s].run \in Nat /\ ac_call'[s].run \in Nat /\ ac_call[s].run <= ac_call'[s].run
                       /\ ac_call'[s].run = ac_call[s].run => ac_call'[s].at # "span" \/ ac_call[s].at = "span"

(* What the client draws, as long as it draws the same. *)
LEMMA ClientSame ==
  ASSUME ClientInv, CallGrows, ac_turn' = ac_turn, ac_client' = ac_client, ac_cards' = ac_cards
  PROVE  ClientInv'
<1> SUFFICES ASSUME NEW card \in DOMAIN ac_client
             PROVE  /\ card \in Card
                    /\ ac_client[card] = Its(card) /\ card[4] = CardRawId(card[2]) /\ card[1] = ac_turn
                    /\ card[3] <= ac_call'[card[2]].run
                    /\ card[3] = ac_call'[card[2]].run => ac_call'[card[2]].at # "span"
                    /\ ac_cards[card[4]] \in DOMAIN ac_client
  BY DEF ClientInv
<1>1. /\ card \in Card /\ ac_client[card] = Its(card) /\ card[4] = CardRawId(card[2]) /\ card[1] = ac_turn
      /\ card[3] <= ac_call[card[2]].run /\ (card[3] = ac_call[card[2]].run => ac_call[card[2]].at # "span")
      /\ ac_cards[card[4]] \in DOMAIN ac_client
  BY DEF ClientInv
<1>2. card[2] \in CardSteps /\ card[3] \in Nat
  BY <1>1 DEF Card
<1>3. /\ ac_call[card[2]].run \in Nat /\ ac_call'[card[2]].run \in Nat
           /\ ac_call[card[2]].run <= ac_call'[card[2]].run
      /\ ac_call'[card[2]].run = ac_call[card[2]].run
           => ac_call'[card[2]].at # "span" \/ ac_call[card[2]].at = "span"
  BY <1>2 DEF CallGrows
<1> QED BY <1>1, <1>2, <1>3

(* A card that opens is of the call that it names. *)
LEMMA ClientMore ==
  ASSUME ClientInv, ac_call' = ac_call, ac_turn' = ac_turn, NEW of \in Run, of[1] = ac_turn,
           of[3] <= ac_call[of[2]].run,
         of[3] = ac_call[of[2]].run => ac_call[of[2]].at # "span", DOMAIN ac_cards = TheCards!RawIds,
         ac_client' = [c \in DOMAIN ac_client \union {CardOf(of)} |-> IF c = CardOf(of) THEN of ELSE ac_client[c]],
         ac_cards' = [ac_cards EXCEPT ![CardOf(of)[4]] = CardOf(of)]
  PROVE  ClientInv' /\ DOMAIN ac_client' = DOMAIN ac_client \union {CardOf(of)}
           /\ DOMAIN ac_cards' = TheCards!RawIds
                    /\ ac_cards'[CardRawId(of[2])] = CardOf(of)
<1>1. PICK card : card = CardOf(of)
  OBVIOUS
<1>2. /\ card \in Card /\ Its(card) = of /\ card[1] = of[1] /\ card[2] = of[2] /\ card[3] = of[3]
           /\ card[4] = CardRawId(of[2])
      /\ of[2] \in CardSteps /\ card[4] \in TheCards!RawIds
  BY <1>1, RunIs DEF TheCards!RawIds
<1>3. DOMAIN ac_client' = DOMAIN ac_client \union {card} /\ ac_client'[card] = of
        /\ \A c \in DOMAIN ac_client \ {card} : ac_client'[c] = ac_client[c]
  BY <1>1
<1>4. DOMAIN ac_cards' = TheCards!RawIds /\ ac_cards'[card[4]] = card
        /\ \A r \in TheCards!RawIds \ {card[4]} : ac_cards'[r] = ac_cards[r]
  BY <1>1, <1>2
<1>5. ASSUME NEW c \in DOMAIN ac_client'
      PROVE  /\ c \in Card
             /\ ac_client'[c] = Its(c) /\ c[4] = CardRawId(c[2]) /\ c[1] = ac_turn
             /\ c[3] <= ac_call[c[2]].run
             /\ c[3] = ac_call[c[2]].run => ac_call[c[2]].at # "span"
             /\ ac_cards'[c[4]] \in DOMAIN ac_client'
  <2>1. CASE c = card
    BY <1>2, <1>3, <1>4, <2>1
  <2>2. CASE c # card
    <3>1. c \in DOMAIN ac_client /\ ac_client'[c] = ac_client[c]
      BY <1>3, <2>2
    <3>2. /\ c \in Card /\ ac_client[c] = Its(c) /\ c[4] = CardRawId(c[2]) /\ c[1] = ac_turn
          /\ c[3] <= ac_call[c[2]].run /\ (c[3] = ac_call[c[2]].run => ac_call[c[2]].at # "span")
          /\ ac_cards[c[4]] \in DOMAIN ac_client
      BY <3>1 DEF ClientInv
    <3>3. c[4] \in TheCards!RawIds
      BY <3>2 DEF Card
    <3>4. ac_cards'[c[4]] \in DOMAIN ac_client'
      BY <1>3, <1>4, <3>2, <3>3
    <3> QED BY <3>1, <3>2, <3>4
  <2> QED BY <2>1, <2>2
<1> QED BY <1>1, <1>2, <1>3, <1>4, <1>5 DEF ClientInv

----------------------------------------------------------------------------
(* What an event in line may be of, and what one that opens a card may. *)
OfTurn(e, t, calls) == e.of[1] = t /\ e.of[2] = e.step /\ e.of[3] <= calls[e.of[2]].run

OpensNew(of, drawn, calls) == CardOf(of) \notin DOMAIN drawn
  /\ (of[3] = calls[of[2]].run => calls[of[2]].at # "span")

LEMMA OpensAre ==
  OpensInv <=> \A j \in DOMAIN Line :
    /\ Line[j].kind # "span_start" => OfTurn(Line[j], ac_turn, ac_call)
    /\ Opens(Line[j]) => /\ OpensNew(Line[j].of, ac_client, ac_call)
                         /\ \A k \in DOMAIN Line : Opens(Line[k]) /\ Line[k].of = Line[j].of => k = j
BY DEF OpensInv, OfTurn, OpensNew, Opens

LEMMA OpensNext ==
  OpensInv' <=> \A j \in DOMAIN Line' :
    /\ Line'[j].kind # "span_start" => OfTurn(Line'[j], ac_turn', ac_call')
    /\ Opens(Line'[j]) => /\ OpensNew(Line'[j].of, ac_client', ac_call')
                          /\ \A k \in DOMAIN Line' : Opens(Line'[k]) /\ Line'[k].of = Line'[j].of => k = j
BY DEF OpensInv, OfTurn, OpensNew, Opens

LEMMA OpensGrow ==
  ASSUME CallGrows, NEW e \in Event, e.kind # "span_start", OfTurn(e, ac_turn, ac_call), NEW drawn
  PROVE  OfTurn(e, ac_turn, ac_call') /\ (OpensNew(e.of, drawn, ac_call) => OpensNew(e.of, drawn, ac_call'))
<1>1. e.of \in Run
  BY EventIs
<1>2. e.of[2] \in CardSteps /\ e.of[3] \in Nat
  BY <1>1 DEF Run
<1>3. /\ ac_call[e.of[2]].run \in Nat /\ ac_call'[e.of[2]].run \in Nat
           /\ ac_call[e.of[2]].run <= ac_call'[e.of[2]].run
      /\ ac_call'[e.of[2]].run = ac_call[e.of[2]].run
           => ac_call'[e.of[2]].at # "span" \/ ac_call[e.of[2]].at = "span"
  BY <1>2 DEF CallGrows
<1>4. OfTurn(e, ac_turn, ac_call')
  BY <1>2, <1>3 DEF OfTurn
<1>5. ASSUME OpensNew(e.of, drawn, ac_call) PROVE OpensNew(e.of, drawn, ac_call')
  BY <1>2, <1>3, <1>5 DEF OpensNew, OfTurn
<1> QED BY <1>4, <1>5

LEMMA OpensSame ==
  ASSUME OpensInv, CallGrows, HeldTypes, ac_turn' = ac_turn, ac_client' = ac_client, Line' = Line
  PROVE  OpensInv'
<1> SUFFICES ASSUME NEW j \in DOMAIN Line, Line[j].kind # "span_start"
             PROVE  /\ OfTurn(Line[j], ac_turn, ac_call')
                    /\ Opens(Line[j]) => OpensNew(Line[j].of, ac_client, ac_call')
  BY OpensAre, OpensNext DEF Opens
<1>1. PICK e \in Event : e = Line[j]
  BY LineAt
<1>2. OfTurn(e, ac_turn, ac_call) /\ (Opens(e) => OpensNew(e.of, ac_client, ac_call))
  BY <1>1, OpensAre
<1> QED BY <1>1, <1>2, OpensGrow

LEMMA OpensMore ==
  ASSUME OpensInv, CallGrows, HeldTypes, ac_turn' = ac_turn, ac_client' = ac_client, NEW e \in Event, More(e),
         e.kind # "span_start" => OfTurn(e, ac_turn, ac_call'),
         Opens(e) => OpensNew(e.of, ac_client, ac_call') /\ \A k \in DOMAIN Line : Opens(Line[k])
           => Line[k].of # e.of
  PROVE  OpensInv'
<1>1. PICK n \in Nat : n = Len(Line) /\ DOMAIN Line = 1..n /\ DOMAIN Line' = 1..n + 1 /\ Line'[n + 1] = e
                       /\ \A j \in 1..n : Line'[j] = Line[j]
  BY MoreIs
<1> SUFFICES ASSUME NEW j \in 1..n + 1
             PROVE  /\ Line'[j].kind # "span_start" => OfTurn(Line'[j], ac_turn, ac_call')
                    /\ Opens(Line'[j]) => /\ OpensNew(Line'[j].of, ac_client, ac_call')
                                          /\ \A k \in 1..n + 1 : Opens(Line'[k]) /\ Line'[k].of = Line'[j].of
                                               => k = j
  BY <1>1, OpensNext
<1>2. CASE j = n + 1
  <2>1. ASSUME Opens(e), NEW k \in 1..n + 1, Opens(Line'[k]), Line'[k].of = e.of PROVE k = j
    <3> SUFFICES ASSUME k # n + 1 PROVE FALSE
      BY <1>2
    <3>1. k \in 1..n /\ Line'[k] = Line[k]
      BY <1>1
    <3> QED BY <1>1, <2>1, <3>1
  <2> QED BY <1>1, <1>2, <2>1
<1>3. CASE j # n + 1
  <2>1. j \in 1..n /\ Line'[j] = Line[j]
    BY <1>1, <1>3
  <2>2. PICK f \in Event : f = Line[j]
    BY <1>1, <2>1, LineAt
  <2>3. /\ f.kind # "span_start" => OfTurn(f, ac_turn, ac_call)
        /\ Opens(f) => /\ OpensNew(f.of, ac_client, ac_call)
                       /\ \A k \in 1..n : Opens(Line[k]) /\ Line[k].of = f.of => k = j
    BY <1>1, <2>1, <2>2, OpensAre
  <2>4. /\ f.kind # "span_start" => OfTurn(f, ac_turn, ac_call')
        /\ Opens(f) => OpensNew(f.of, ac_client, ac_call')
    BY <2>3, OpensGrow DEF Opens
  <2>5. ASSUME Opens(f), NEW k \in 1..n + 1, Opens(Line'[k]), Line'[k].of = f.of PROVE k = j
    <3>1. CASE k = n + 1
      BY <1>1, <2>1, <2>2, <2>5, <3>1
    <3>2. CASE k # n + 1
      <4>1. k \in 1..n /\ Line'[k] = Line[k]
        BY <1>1, <3>2
      <4> QED BY <2>3, <2>5, <4>1
    <3> QED BY <3>1, <3>2
  <2> QED BY <2>1, <2>2, <2>4, <2>5
<1> QED BY <1>2, <1>3

LEMMA OpensLess ==
  ASSUME OpensInv, HeldTypes, ac_turn' = ac_turn, ac_call' = ac_call, Less,
         \A card \in DOMAIN ac_client' \ DOMAIN ac_client : Opens(Line[1]) /\ card = CardOf(Line[1].of)
  PROVE  OpensInv'
<1>1. PICK n \in Nat : n = Len(Line) /\ n >= 1 /\ DOMAIN Line = 1..n /\ DOMAIN Line' = 1..n - 1
                       /\ \A j \in 1..n - 1 : Line'[j] = Line[j + 1]
  BY LessIs
<1> SUFFICES ASSUME NEW j \in 1..n - 1
             PROVE  /\ Line'[j].kind # "span_start" => OfTurn(Line'[j], ac_turn, ac_call)
                    /\ Opens(Line'[j]) => /\ OpensNew(Line'[j].of, ac_client', ac_call)
                                          /\ \A k \in 1..n - 1 : Opens(Line'[k]) /\ Line'[k].of = Line'[j].of
                                               => k = j
  BY <1>1, OpensNext
<1>2. j + 1 \in 1..n /\ j + 1 # 1 /\ 1 \in 1..n /\ Line'[j] = Line[j + 1]
  BY <1>1
<1>3. PICK f \in Event : f = Line[j + 1]
  BY <1>1, <1>2, LineAt
<1>4. PICK g \in Event : g = Line[1]
  BY <1>1, <1>2, LineAt
<1>5. /\ f.kind # "span_start" => OfTurn(f, ac_turn, ac_call)
      /\ Opens(f) => /\ OpensNew(f.of, ac_client, ac_call)
                     /\ \A k \in 1..n : Opens(Line[k]) /\ Line[k].of = f.of => k = j + 1
  BY <1>1, <1>2, <1>3, OpensAre
<1>6. ASSUME Opens(f) PROVE OpensNew(f.of, ac_client', ac_call)
  <2> SUFFICES ASSUME CardOf(f.of) \in DOMAIN ac_client' PROVE FALSE
    BY <1>5, <1>6 DEF OpensNew
  <2>1. Opens(g) /\ CardOf(f.of) = CardOf(g.of)
    BY <1>4, <1>5, <1>6 DEF OpensNew
  <2>2. f.of \in Run /\ g.of \in Run
    BY <1>6, <2>1, EventIs DEF Opens
  <2>3. f.of = g.of
    BY <2>1, <2>2, RunIs
  <2> QED BY <1>2, <1>4, <1>5, <1>6, <2>1, <2>3
<1>7. ASSUME Opens(f), NEW k \in 1..n - 1, Opens(Line'[k]), Line'[k].of = f.of PROVE k = j
  <2>1. k + 1 \in 1..n /\ Line'[k] = Line[k + 1]
    BY <1>1
  <2>2. k + 1 = j + 1
    BY <1>5, <1>7, <2>1
  <2> QED BY <2>2
<1> QED BY <1>2, <1>3, <1>5, <1>6, <1>7

LEMMA ClosesAre ==
  ClosesInv <=> \A j \in DOMAIN Line : Closes(Line[j]) =>
    \/ CardOf(Line[j].of) \in DOMAIN ac_client
    \/ \E k \in DOMAIN Line : k < j /\ Opens(Line[k]) /\ Line[k].of = Line[j].of
BY DEF ClosesInv, Opens, Closes

LEMMA ClosesNext ==
  ClosesInv' <=> \A j \in DOMAIN Line' : Closes(Line'[j]) =>
    \/ CardOf(Line'[j].of) \in DOMAIN ac_client'
    \/ \E k \in DOMAIN Line' : k < j /\ Opens(Line'[k]) /\ Line'[k].of = Line'[j].of
BY DEF ClosesInv, Opens, Closes, CardOf

LEMMA ClosesMore ==
  ASSUME ClosesInv, HeldTypes, ac_client' = ac_client, NEW e \in Event, More(e),
         Closes(e) => CardOf(e.of) \in DOMAIN ac_client \/ \E k \in DOMAIN Line : Opens(Line[k])
           /\ Line[k].of = e.of
  PROVE  ClosesInv'
<1>1. PICK n \in Nat : n = Len(Line) /\ DOMAIN Line = 1..n /\ DOMAIN Line' = 1..n + 1 /\ Line'[n + 1] = e
                       /\ \A j \in 1..n : Line'[j] = Line[j]
  BY MoreIs
<1> SUFFICES ASSUME NEW j \in 1..n + 1, Closes(Line'[j]), CardOf(Line'[j].of) \notin DOMAIN ac_client
             PROVE  \E k \in 1..n + 1 : k < j /\ Opens(Line'[k]) /\ Line'[k].of = Line'[j].of
  BY <1>1, ClosesNext
<1>2. CASE j = n + 1
  <2>1. PICK k \in 1..n : Opens(Line[k]) /\ Line[k].of = e.of
    BY <1>1, <1>2
  <2>2. k \in 1..n + 1 /\ k < j /\ Line'[k] = Line[k]
    BY <1>1, <1>2
  <2> QED BY <1>1, <1>2, <2>1, <2>2
<1>3. CASE j # n + 1
  <2>1. j \in 1..n /\ Line'[j] = Line[j]
    BY <1>1, <1>3
  <2>2. PICK k \in 1..n : k < j /\ Opens(Line[k]) /\ Line[k].of = Line[j].of
    BY <1>1, <2>1, ClosesAre
  <2>3. k \in 1..n + 1 /\ Line'[k] = Line[k]
    BY <1>1
  <2> QED BY <2>1, <2>2, <2>3
<1> QED BY <1>2, <1>3

LEMMA ClosesLess ==
  ASSUME ClosesInv, HeldTypes, Less, DOMAIN ac_client \subseteq DOMAIN ac_client',
         Opens(Line[1]) => CardOf(Line[1].of) \in DOMAIN ac_client'
  PROVE  ClosesInv'
<1>1. PICK n \in Nat : n = Len(Line) /\ n >= 1 /\ DOMAIN Line = 1..n /\ DOMAIN Line' = 1..n - 1
                       /\ \A j \in 1..n - 1 : Line'[j] = Line[j + 1]
  BY LessIs
<1> SUFFICES ASSUME NEW j \in 1..n - 1, Closes(Line'[j]), CardOf(Line'[j].of) \notin DOMAIN ac_client'
             PROVE  \E k \in 1..n - 1 : k < j /\ Opens(Line'[k]) /\ Line'[k].of = Line'[j].of
  BY <1>1, ClosesNext
<1>2. j + 1 \in 1..n /\ Line'[j] = Line[j + 1]
  BY <1>1
<1>3. PICK k \in 1..n : k < j + 1 /\ Opens(Line[k]) /\ Line[k].of = Line[j + 1].of
  BY <1>1, <1>2, ClosesAre
<1>4. k # 1
  BY <1>2, <1>3
<1>5. k - 1 \in 1..n - 1 /\ k - 1 < j /\ (k - 1) + 1 = k
  BY <1>3, <1>4
<1>6. Line'[k - 1] = Line[k]
  BY <1>1, <1>5
<1> QED BY <1>2, <1>3, <1>5, <1>6

----------------------------------------------------------------------------
(* A call that has begun, and its name. *)
Busy(r) == r.at \notin {"idle", "done", "span"}
Mine(s, r) == <<ac_turn, s, r.run>>

LEMMA BegunAre ==
  BegunInv <=> \A s \in CardSteps : Busy(ac_call[s]) =>
    /\ \/ CardOf(Mine(s, ac_call[s])) \in DOMAIN ac_client
       \/ \E j \in DOMAIN Line : Opens(Line[j]) /\ Line[j].of = Mine(s, ac_call[s])
    /\ ac_call[s].at = "waits" =>
         \A j \in DOMAIN Line : Opens(Line[j]) /\ Line[j].of = Mine(s, ac_call[s])
           => ac_sent + j <= ac_call[s].target
BY DEF BegunInv, Opened, AtWork, Busy, Mine, TheCards!Me, Opens

LEMMA BegunNext ==
  ASSUME ac_turn' = ac_turn
  PROVE  BegunInv' <=> \A s \in CardSteps : Busy(ac_call'[s]) =>
    /\ \/ CardOf(Mine(s, ac_call'[s])) \in DOMAIN ac_client'
       \/ \E j \in DOMAIN Line' : Opens(Line'[j]) /\ Line'[j].of = Mine(s, ac_call'[s])
    /\ ac_call'[s].at = "waits" =>
         \A j \in DOMAIN Line' : Opens(Line'[j]) /\ Line'[j].of = Mine(s, ac_call'[s])
           => ac_sent' + j <= ac_call'[s].target
BY DEF BegunInv, Opened, AtWork, Busy, Mine, TheCards!Me, Opens, CardOf

(* A step goes on with its call, and may begin to wait for all in line. *)
LEMMA BegunSame ==
  ASSUME BegunInv, HeldTypes, ac_turn' = ac_turn, ac_client' = ac_client, Line' = Line, ac_sent' = ac_sent,
           ac_sent \in Nat,
         \A s \in CardSteps : Busy(ac_call'[s]) =>
           /\ Busy(ac_call[s]) /\ ac_call'[s].run = ac_call[s].run
           /\ ac_call'[s].at = "waits" => ac_call'[s] = ac_call[s] \/ ac_call'[s].target = ac_sent + Len(Line)
  PROVE  BegunInv'
<1>1. PICK n \in Nat : n = Len(Line) /\ DOMAIN Line = 1..n
  BY LineIs, Zenon
<1> SUFFICES ASSUME NEW s \in CardSteps, Busy(ac_call'[s])
             PROVE
    /\ \/ CardOf(Mine(s, ac_call'[s])) \in DOMAIN ac_client
       \/ \E j \in 1..n : Opens(Line[j]) /\ Line[j].of = Mine(s, ac_call'[s])
    /\ ac_call'[s].at = "waits" =>
         \A j \in 1..n : Opens(Line[j]) /\ Line[j].of = Mine(s, ac_call'[s]) => ac_sent + j <= ac_call'[s].target
  BY <1>1, BegunNext
<1>2. Busy(ac_call[s]) /\ Mine(s, ac_call'[s]) = Mine(s, ac_call[s])
  BY DEF Mine
<1>3. /\ \/ CardOf(Mine(s, ac_call[s])) \in DOMAIN ac_client
         \/ \E j \in 1..n : Opens(Line[j]) /\ Line[j].of = Mine(s, ac_call[s])
      /\ ac_call[s].at = "waits" =>
           \A j \in 1..n : Opens(Line[j]) /\ Line[j].of = Mine(s, ac_call[s]) => ac_sent + j <= ac_call[s].target
  BY <1>1, <1>2, BegunAre
<1>4. ASSUME ac_call'[s].at = "waits", NEW j \in 1..n, Opens(Line[j]), Line[j].of = Mine(s, ac_call'[s])
      PROVE  ac_sent + j <= ac_call'[s].target
  <2>1. CASE ac_call'[s] = ac_call[s]
    BY <1>3, <1>4, <2>1
  <2>2. CASE ac_call'[s].target = ac_sent + n
    BY <2>2
  <2> QED BY <1>1, <1>4, <2>1, <2>2
<1> QED BY <1>2, <1>3, <1>4, SMTT(20)

LEMMA BegunMore ==
  ASSUME BegunInv, HeldTypes, ac_turn' = ac_turn, ac_client' = ac_client, ac_sent' = ac_sent, NEW e \in Event,
           More(e),
         \A s \in CardSteps : Busy(ac_call'[s]) =>
           \/ ac_call'[s] = ac_call[s] /\ (Opens(e) => e.of # Mine(s, ac_call[s]))
           \/ Opens(e) /\ e.of = Mine(s, ac_call'[s]) /\ ac_call'[s].at # "waits"
  PROVE  BegunInv'
<1>1. PICK n \in Nat : n = Len(Line) /\ DOMAIN Line = 1..n /\ DOMAIN Line' = 1..n + 1 /\ Line'[n + 1] = e
                       /\ \A j \in 1..n : Line'[j] = Line[j]
  BY MoreIs
<1> SUFFICES ASSUME NEW s \in CardSteps, Busy(ac_call'[s])
             PROVE
    /\ \/ CardOf(Mine(s, ac_call'[s])) \in DOMAIN ac_client
       \/ \E j \in 1..n + 1 : Opens(Line'[j]) /\ Line'[j].of = Mine(s, ac_call'[s])
    /\ ac_call'[s].at = "waits" =>
         \A j \in 1..n + 1 : Opens(Line'[j]) /\ Line'[j].of = Mine(s, ac_call'[s])
           => ac_sent + j <= ac_call'[s].target
  BY <1>1, BegunNext
<1>2. CASE ac_call'[s] = ac_call[s] /\ (Opens(e) => e.of # Mine(s, ac_call[s]))
  <2>1. /\ \/ CardOf(Mine(s, ac_call[s])) \in DOMAIN ac_client
           \/ \E j \in 1..n : Opens(Line[j]) /\ Line[j].of = Mine(s, ac_call[s])
        /\ ac_call[s].at = "waits" =>
             \A j \in 1..n : Opens(Line[j]) /\ Line[j].of = Mine(s, ac_call[s]) => ac_sent + j <= ac_call[s].target
    BY <1>1, <1>2, BegunAre
  <2>2. ASSUME NEW j \in 1..n, Opens(Line[j]), Line[j].of = Mine(s, ac_call[s])
        PROVE \E i \in 1..n + 1 : Opens(Line'[i]) /\ Line'[i].of = Mine(s, ac_call[s])
    <3>1. j \in 1..n + 1 /\ Line'[j] = Line[j]
      BY <1>1
    <3> QED BY <2>2, <3>1
  <2>3. ASSUME ac_call[s].at = "waits", NEW j \in 1..n + 1, Opens(Line'[j]), Line'[j].of = Mine(s, ac_call[s])
        PROVE  ac_sent + j <= ac_call[s].target
    <3>1. j # n + 1
      BY <1>1, <1>2, <2>3
    <3>2. j \in 1..n /\ Line'[j] = Line[j]
      BY <1>1, <3>1
    <3> QED BY <2>1, <2>3, <3>2
  <2> QED BY <1>2, <2>1, <2>2, <2>3
<1>3. CASE Opens(e) /\ e.of = Mine(s, ac_call'[s]) /\ ac_call'[s].at # "waits"
  <2>1. n + 1 \in 1..n + 1
    OBVIOUS
  <2> QED BY <1>1, <1>3, <2>1
<1> QED BY <1>2, <1>3

LEMMA BegunLess ==
  ASSUME BegunInv, HeldTypes, ac_turn' = ac_turn, ac_call' = ac_call, ac_sent' = ac_sent + 1, ac_sent \in Nat, Less,
         \A s \in CardSteps : ac_call[s].target \in Nat,
         DOMAIN ac_client \subseteq DOMAIN ac_client', Opens(Line[1]) => CardOf(Line[1].of) \in DOMAIN ac_client'
  PROVE  BegunInv'
<1>1. PICK n \in Nat : n = Len(Line) /\ n >= 1 /\ DOMAIN Line = 1..n /\ DOMAIN Line' = 1..n - 1
                       /\ \A j \in 1..n - 1 : Line'[j] = Line[j + 1]
  BY LessIs
<1> SUFFICES ASSUME NEW s \in CardSteps, Busy(ac_call[s])
             PROVE
    /\ \/ CardOf(Mine(s, ac_call[s])) \in DOMAIN ac_client'
       \/ \E j \in 1..n - 1 : Opens(Line'[j]) /\ Line'[j].of = Mine(s, ac_call[s])
    /\ ac_call[s].at = "waits" =>
         \A j \in 1..n - 1 : Opens(Line'[j]) /\ Line'[j].of = Mine(s, ac_call[s])
           => ac_sent' + j <= ac_call[s].target
  BY <1>1, BegunNext
<1>2. /\ \/ CardOf(Mine(s, ac_call[s])) \in DOMAIN ac_client
         \/ \E j \in 1..n : Opens(Line[j]) /\ Line[j].of = Mine(s, ac_call[s])
      /\ ac_call[s].at = "waits" =>
           \A j \in 1..n : Opens(Line[j]) /\ Line[j].of = Mine(s, ac_call[s]) => ac_sent + j <= ac_call[s].target
  BY <1>1, BegunAre
<1>3. ASSUME NEW j \in 1..n, Opens(Line[j]), Line[j].of = Mine(s, ac_call[s]),
               CardOf(Mine(s, ac_call[s])) \notin DOMAIN ac_client'
      PROVE  \E i \in 1..n - 1 : Opens(Line'[i]) /\ Line'[i].of = Mine(s, ac_call[s])
  <2>1. j # 1
    BY <1>3
  <2>2. j - 1 \in 1..n - 1 /\ (j - 1) + 1 = j
    BY <2>1
  <2>3. Line'[j - 1] = Line[j]
    BY <1>1, <2>2
  <2> QED BY <1>3, <2>2, <2>3
<1>4. ASSUME ac_call[s].at = "waits", NEW j \in 1..n - 1, Opens(Line'[j]), Line'[j].of = Mine(s, ac_call[s])
      PROVE  ac_sent' + j <= ac_call[s].target
  <2>1. j + 1 \in 1..n /\ Line'[j] = Line[j + 1]
    BY <1>1
  <2>2. ac_sent + (j + 1) <= ac_call[s].target
    BY <1>2, <1>4, <2>1
  <2> QED BY <2>2
<1> QED BY <1>2, <1>3, <1>4

LEMMA PlaceAre ==
  PlaceInv <=> (~ac_parallel => \A s \in CardSteps : Busy(ac_call[s]) =>
    /\ CardOf(Mine(s, ac_call[s])) \in DOMAIN ac_client => ac_cards[CardRawId(s)] = CardOf(Mine(s, ac_call[s]))
    /\ \A j \in DOMAIN Line : Opens(Line[j]) =>
         \E k \in DOMAIN Line : k >= j /\ Opens(Line[k]) /\ Line[k].of = Mine(s, ac_call[s]))
BY DEF PlaceInv, Opened, AtWork, Busy, Mine, TheCards!Me, Opens

LEMMA PlaceNext ==
  ASSUME ac_turn' = ac_turn, ac_parallel' = ac_parallel
  PROVE  PlaceInv' <=> (~ac_parallel => \A s \in CardSteps : Busy(ac_call'[s]) =>
    /\ CardOf(Mine(s, ac_call'[s])) \in DOMAIN ac_client' => ac_cards'[CardRawId(s)] = CardOf(Mine(s, ac_call'[s]))
    /\ \A j \in DOMAIN Line' : Opens(Line'[j]) =>
         \E k \in DOMAIN Line' : k >= j /\ Opens(Line'[k]) /\ Line'[k].of = Mine(s, ac_call'[s]))
BY DEF PlaceInv, Opened, AtWork, Busy, Mine, TheCards!Me, Opens, CardOf

LEMMA PlaceSame ==
  ASSUME PlaceInv, ac_turn' = ac_turn, ac_parallel' = ac_parallel, ac_client' = ac_client, ac_cards' = ac_cards,
           Line' = Line,
         \A s \in CardSteps : Busy(ac_call'[s]) => Busy(ac_call[s]) /\ ac_call'[s].run = ac_call[s].run
  PROVE  PlaceInv'
<1> SUFFICES ASSUME ~ac_parallel, NEW s \in CardSteps, Busy(ac_call'[s])
             PROVE
    /\ CardOf(Mine(s, ac_call'[s])) \in DOMAIN ac_client => ac_cards[CardRawId(s)] = CardOf(Mine(s, ac_call'[s]))
    /\ \A j \in DOMAIN Line : Opens(Line[j]) =>
         \E k \in DOMAIN Line : k >= j /\ Opens(Line[k]) /\ Line[k].of = Mine(s, ac_call'[s])
  BY PlaceNext
<1>1. Busy(ac_call[s]) /\ Mine(s, ac_call'[s]) = Mine(s, ac_call[s])
  BY DEF Mine
<1> QED BY <1>1, PlaceAre

LEMMA PlaceMore ==
  ASSUME PlaceInv, HeldTypes, ac_turn' = ac_turn, ac_parallel' = ac_parallel, ac_client' = ac_client,
           ac_cards' = ac_cards, NEW e \in Event, More(e),
         ~ac_parallel => \A s \in CardSteps : Busy(ac_call'[s]) =>
           \/ ac_call'[s] = ac_call[s] /\ ~Opens(e)
           \/ Opens(e) /\ e.of = Mine(s, ac_call'[s]) /\ CardOf(e.of) \notin DOMAIN ac_client
  PROVE  PlaceInv'
<1>1. PICK n \in Nat : n = Len(Line) /\ DOMAIN Line = 1..n /\ DOMAIN Line' = 1..n + 1 /\ Line'[n + 1] = e
                       /\ \A j \in 1..n : Line'[j] = Line[j]
  BY MoreIs
<1> SUFFICES ASSUME ~ac_parallel, NEW s \in CardSteps, Busy(ac_call'[s])
             PROVE
    /\ CardOf(Mine(s, ac_call'[s])) \in DOMAIN ac_client => ac_cards[CardRawId(s)] = CardOf(Mine(s, ac_call'[s]))
    /\ \A j \in 1..n + 1 : Opens(Line'[j]) =>
         \E k \in 1..n + 1 : k >= j /\ Opens(Line'[k]) /\ Line'[k].of = Mine(s, ac_call'[s])
  BY <1>1, PlaceNext
<1>2. CASE ac_call'[s] = ac_call[s] /\ ~Opens(e)
  <2>1. /\ CardOf(Mine(s, ac_call[s])) \in DOMAIN ac_client => ac_cards[CardRawId(s)] = CardOf(Mine(s, ac_call[s]))
        /\ \A j \in 1..n : Opens(Line[j]) =>
             \E k \in 1..n : k >= j /\ Opens(Line[k]) /\ Line[k].of = Mine(s, ac_call[s])
    BY <1>1, <1>2, PlaceAre
  <2>2. ASSUME NEW j \in 1..n + 1, Opens(Line'[j])
        PROVE  \E k \in 1..n + 1 : k >= j /\ Opens(Line'[k]) /\ Line'[k].of = Mine(s, ac_call[s])
    <3>1. j # n + 1
      BY <1>1, <1>2, <2>2
    <3>2. j \in 1..n /\ Line'[j] = Line[j]
      BY <1>1, <3>1
    <3>3. PICK k \in 1..n : k >= j /\ Opens(Line[k]) /\ Line[k].of = Mine(s, ac_call[s])
      BY <2>1, <2>2, <3>2
    <3>4. k \in 1..n + 1 /\ Line'[k] = Line[k]
      BY <1>1
    <3> QED BY <3>3, <3>4
  <2> QED BY <1>2, <2>1, <2>2
<1>3. CASE Opens(e) /\ e.of = Mine(s, ac_call'[s]) /\ CardOf(e.of) \notin DOMAIN ac_client
  <2>1. \A j \in 1..n + 1 : n + 1 \in 1..n + 1 /\ n + 1 >= j
    OBVIOUS
  <2> QED BY <1>1, <1>3, <2>1
<1> QED BY <1>2, <1>3

LEMMA PlaceLess ==
  ASSUME PlaceInv, OpensInv, HeldTypes, ac_turn' = ac_turn, ac_parallel' = ac_parallel, ac_call' = ac_call, Less,
           ac_turn \in Nat,
         \A s \in CardSteps : ac_call[s].run \in Nat,
         \/ ~Opens(Line[1]) /\ ac_client' = ac_client /\ ac_cards' = ac_cards
         \/ /\ Opens(Line[1])
            /\ \A card \in DOMAIN ac_client' : card \in DOMAIN ac_client \/ card = CardOf(Line[1].of)
            /\ ac_cards'[CardRawId(Line[1].of[2])] = CardOf(Line[1].of)
  PROVE  PlaceInv'
<1>1. PICK n \in Nat : n = Len(Line) /\ n >= 1 /\ DOMAIN Line = 1..n /\ DOMAIN Line' = 1..n - 1
                       /\ \A j \in 1..n - 1 : Line'[j] = Line[j + 1]
  BY LessIs
<1> SUFFICES ASSUME ~ac_parallel, NEW s \in CardSteps, Busy(ac_call[s])
             PROVE
    /\ CardOf(Mine(s, ac_call[s])) \in DOMAIN ac_client' => ac_cards'[CardRawId(s)] = CardOf(Mine(s, ac_call[s]))
    /\ \A j \in 1..n - 1 : Opens(Line'[j]) =>
         \E k \in 1..n - 1 : k >= j /\ Opens(Line'[k]) /\ Line'[k].of = Mine(s, ac_call[s])
  BY <1>1, PlaceNext
<1>2. /\ CardOf(Mine(s, ac_call[s])) \in DOMAIN ac_client => ac_cards[CardRawId(s)] = CardOf(Mine(s, ac_call[s]))
      /\ \A j \in 1..n : Opens(Line[j]) =>
           \E k \in 1..n : k >= j /\ Opens(Line[k]) /\ Line[k].of = Mine(s, ac_call[s])
  BY <1>1, PlaceAre
<1>3. 1 \in 1..n
  BY <1>1
<1>4. ASSUME NEW j \in 1..n - 1, Opens(Line'[j])
      PROVE  \E k \in 1..n - 1 : k >= j /\ Opens(Line'[k]) /\ Line'[k].of = Mine(s, ac_call[s])
  <2>1. j + 1 \in 1..n /\ Line'[j] = Line[j + 1]
    BY <1>1
  <2>2. PICK k \in 1..n : k >= j + 1 /\ Opens(Line[k]) /\ Line[k].of = Mine(s, ac_call[s])
    BY <1>2, <1>4, <2>1
  <2>3. k - 1 \in 1..n - 1 /\ k - 1 >= j /\ (k - 1) + 1 = k
    BY <2>2
  <2>4. Line'[k - 1] = Line[k]
    BY <1>1, <2>3
  <2> QED BY <2>2, <2>3, <2>4
<1>5. ASSUME CardOf(Mine(s, ac_call[s])) \in DOMAIN ac_client'
               PROVE ac_cards'[CardRawId(s)] = CardOf(Mine(s, ac_call[s]))
  <2>1. CASE ~Opens(Line[1]) /\ ac_client' = ac_client /\ ac_cards' = ac_cards
    BY <1>2, <1>5, <2>1
  <2>2. CASE Opens(Line[1])
    <3>1. PICK g \in Event : g = Line[1]
      BY <1>1, <1>3, LineAt
    <3>2. g.of \in Run /\ Mine(s, ac_call[s]) \in Run /\ Mine(s, ac_call[s])[2] = s
      BY <2>2, <3>1, EventIs DEF Opens, Mine, Run
    <3>3. PICK k \in 1..n : k >= 1 /\ Opens(Line[k]) /\ Line[k].of = Mine(s, ac_call[s])
      BY <1>2, <1>3, <2>2
    <3>4. CardOf(Mine(s, ac_call[s])) \notin DOMAIN ac_client
      BY <1>1, <3>3, OpensAre DEF OpensNew
    <3>5. CardOf(Mine(s, ac_call[s])) = CardOf(g.of)
      BY <1>5, <2>2, <3>1, <3>4
    <3>6. Mine(s, ac_call[s]) = g.of
      BY <3>2, <3>5, RunIs
    <3>7. ac_cards'[CardRawId(g.of[2])] = CardOf(g.of)
      BY <2>2, <3>1
    <3> QED BY <3>2, <3>5, <3>6, <3>7
  <2> QED BY <2>1, <2>2
<1> QED BY <1>4, <1>5

----------------------------------------------------------------------------
(* The counts along a line, one of a span that starts more, or shifted.    *)
Next1(e, count) == IF e.kind = "span_start" THEN [count EXCEPT ![e.step] = @ + 1] ELSE count

CountsAlong(path, q, first, last) ==
  /\ path \in [0..Len(q) -> [CardSteps -> Nat]]
  /\ path[0] = first /\ path[Len(q)] = last
  /\ \A j \in 1..Len(q) :
       /\ path[j] = Next1(q[j], path[j - 1])
       /\ q[j].kind # "span_start" => q[j].of = <<ac_turn, q[j].step, path[j][q[j].step]>>

LEMMA CountAre == CountInv <=> \E path : CountsAlong(path, ac_events, ac_runs, [s \in CardSteps |-> ac_call[s].run])
BY DEF CountInv, Counts, CountsAlong, Next1

LEMMA CountNext ==
  ASSUME ac_turn' = ac_turn
  PROVE  CountInv' <=> \E path : CountsAlong(path, ac_events', ac_runs', [s \in CardSteps |-> ac_call'[s].run])
BY DEF CountInv, Counts, CountsAlong, Next1

LEMMA CountMore ==
  ASSUME NEW q \in Seq(Event), NEW e \in Event, NEW first, NEW last, NEW path, CountsAlong(path, q, first, last),
         Next1(e, last) \in [CardSteps -> Nat],
         e.kind # "span_start" => e.of = <<ac_turn, e.step, last[e.step]>>
  PROVE  \E all : CountsAlong(all, Append(q, e), first, Next1(e, last))
<1>1. PICK n \in Nat : n = Len(q)
  OBVIOUS
<1>2. PICK line : line = Append(q, e)
  OBVIOUS
<1>3. Len(line) = n + 1 /\ line[n + 1] = e /\ \A j \in 1..n : line[j] = q[j]
  BY <1>1, <1>2, Appended
<1>4. /\ path \in [0..n -> [CardSteps -> Nat]] /\ path[0] = first /\ path[n] = last
      /\ \A j \in 1..n :
           /\ path[j] = Next1(q[j], path[j - 1])
           /\ q[j].kind # "span_start" => q[j].of = <<ac_turn, q[j].step, path[j][q[j].step]>>
  BY <1>1 DEF CountsAlong
<1>5. PICK next : next = Next1(e, last)
  OBVIOUS
<1>6. PICK all : all = [j \in 0..n + 1 |-> IF j = n + 1 THEN next ELSE path[j]]
  OBVIOUS
<1>7. all[n + 1] = next /\ \A j \in 0..n : all[j] = path[j]
  BY <1>6
<1>8. all \in [0..n + 1 -> [CardSteps -> Nat]]
  <2>1. ASSUME NEW j \in 0..n + 1 PROVE all[j] \in [CardSteps -> Nat]
    <3>1. CASE j = n + 1
      BY <1>5, <1>7, <3>1
    <3>2. CASE j # n + 1
      <4>1. j \in 0..n
        BY <3>2
      <4> QED BY <1>4, <1>7, <4>1
    <3> QED BY <3>1, <3>2
  <2> QED BY <1>6, <2>1
<1>9. all[0] = first
  BY <1>4, <1>7
<1>10. ASSUME NEW j \in 1..n + 1
       PROVE  /\ all[j] = Next1(line[j], all[j - 1])
              /\ line[j].kind # "span_start" => line[j].of = <<ac_turn, line[j].step, all[j][line[j].step]>>
  <2>1. CASE j = n + 1
    <3>1. line[j] = e /\ all[j] = next /\ all[j - 1] = last
      BY <1>3, <1>4, <1>7, <2>1
    <3>2. e.kind # "span_start" => next = last
      BY <1>5 DEF Next1
    <3> QED BY <1>5, <3>1, <3>2
  <2>2. CASE j # n + 1
    <3>1. j \in 1..n /\ j \in 0..n /\ j - 1 \in 0..n
      BY <2>2
    <3>2. line[j] = q[j] /\ all[j] = path[j] /\ all[j - 1] = path[j - 1]
      BY <1>3, <1>7, <3>1
    <3> QED BY <1>4, <3>1, <3>2
  <2> QED BY <2>1, <2>2
<1>11. CountsAlong(all, line, first, next)
  BY <1>3, <1>7, <1>8, <1>9, <1>10 DEF CountsAlong
<1> QED BY <1>2, <1>5, <1>11

LEMMA CountLess ==
  ASSUME NEW q \in Seq(Event), q # <<>>, NEW first, NEW last, NEW path, CountsAlong(path, q, first, last)
  PROVE  /\ \E all : CountsAlong(all, Tail(q), Next1(q[1], first), last)
         /\ Next1(q[1], first) \in [CardSteps -> Nat]
         /\ q[1].kind # "span_start" => q[1].of = <<ac_turn, q[1].step, first[q[1].step]>>
<1>1. PICK n \in Nat : n = Len(q) /\ n >= 1 /\ Len(Tail(q)) = n - 1 /\ \A j \in 1..n - 1 : Tail(q)[j] = q[j + 1]
  BY Shortened
<1>2. PICK line : line = Tail(q)
  OBVIOUS
<1>3. /\ path \in [0..n -> [CardSteps -> Nat]] /\ path[0] = first /\ path[n] = last
      /\ \A j \in 1..n :
           /\ path[j] = Next1(q[j], path[j - 1])
           /\ q[j].kind # "span_start" => q[j].of = <<ac_turn, q[j].step, path[j][q[j].step]>>
  BY <1>1 DEF CountsAlong
<1>4. PICK all : all = [j \in 0..n - 1 |-> path[j + 1]]
  OBVIOUS
<1>5. \A j \in 0..n - 1 : all[j] = path[j + 1] /\ j + 1 \in 0..n
  BY <1>4
<1>6. all \in [0..n - 1 -> [CardSteps -> Nat]]
  BY <1>3, <1>4, <1>5
<1>7. 1 \in 1..n /\ 0 \in 0..n - 1 /\ n - 1 \in 0..n - 1 /\ 1 - 1 = 0 /\ 0 + 1 = 1 /\ (n - 1) + 1 = n
  BY <1>1
<1>8. path[1] = Next1(q[1], first) /\ (q[1].kind # "span_start" => q[1].of = <<ac_turn, q[1].step, path[1][q[1].step]>>)
        /\ path[1] \in [CardSteps -> Nat]
  BY <1>3, <1>7
<1>9. all[0] = Next1(q[1], first) /\ all[n - 1] = last
  BY <1>3, <1>5, <1>7, <1>8
<1>10. ASSUME NEW j \in 1..n - 1
       PROVE  /\ all[j] = Next1(line[j], all[j - 1])
              /\ line[j].kind # "span_start" => line[j].of = <<ac_turn, line[j].step, all[j][line[j].step]>>
  <2>1. j + 1 \in 1..n /\ j \in 0..n - 1 /\ j - 1 \in 0..n - 1 /\ (j + 1) - 1 = j /\ (j - 1) + 1 = j
    BY <1>1
  <2>2. line[j] = q[j + 1] /\ all[j] = path[j + 1] /\ all[j - 1] = path[j]
    BY <1>1, <1>2, <1>5, <2>1
  <2>3. /\ path[j + 1] = Next1(q[j + 1], path[j])
        /\ q[j + 1].kind # "span_start" => q[j + 1].of = <<ac_turn, q[j + 1].step, path[j + 1][q[j + 1].step]>>
    BY <1>3, <2>1
  <2> QED BY <2>2, <2>3
<1>11. CountsAlong(all, line, Next1(q[1], first), last)
  BY <1>1, <1>2, <1>6, <1>9, <1>10 DEF CountsAlong
<1>12. q[1].kind # "span_start" => path[1] = first
  BY <1>8 DEF Next1
<1> QED BY <1>2, <1>8, <1>11, <1>12

ResultIn(s, r) == [kind |-> "tool_result", step |-> s, of |-> Mine(s, r), ok |-> TRUE]

LEMMA PreviewAre ==
  PreviewInv <=> (~ac_parallel => \A r \in TheCards!RawIds :
    /\ (\A s \in CardSteps : ac_call[s].at # "ran") => Matches(ac_events, ac_previews[r], r)
    /\ \A s \in CardSteps : ac_call[s].at = "ran"
         => Matches(Append(ac_events, ResultIn(s, ac_call[s])), ac_previews[r], r))
BY DEF PreviewInv, Result, ResultIn, Mine, TheCards!Me

LEMMA PreviewNext ==
  ASSUME ac_turn' = ac_turn, ac_parallel' = ac_parallel
  PROVE  PreviewInv' <=> (~ac_parallel => \A r \in TheCards!RawIds :
    /\ (\A s \in CardSteps : ac_call'[s].at # "ran") => Matches(ac_events', ac_previews'[r], r)
    /\ \A s \in CardSteps : ac_call'[s].at = "ran"
         => Matches(Append(ac_events', ResultIn(s, ac_call'[s])), ac_previews'[r], r))
BY DEF PreviewInv, Result, ResultIn, Mine, TheCards!Me, TheCards!RawIds

LEMMA PreviewSame ==
  ASSUME PreviewInv, ac_turn' = ac_turn, ac_parallel' = ac_parallel, ac_events' = ac_events,
           ac_previews' = ac_previews,
         \A s \in CardSteps : (ac_call'[s].at = "ran" <=> ac_call[s].at = "ran")
           /\ (ac_call[s].at = "ran" => ac_call'[s] = ac_call[s])
  PROVE  PreviewInv'
<1> SUFFICES ASSUME ~ac_parallel, NEW r \in TheCards!RawIds
             PROVE
    /\ (\A s \in CardSteps : ac_call'[s].at # "ran") => Matches(ac_events, ac_previews[r], r)
    /\ \A s \in CardSteps : ac_call'[s].at = "ran"
         => Matches(Append(ac_events, ResultIn(s, ac_call'[s])), ac_previews[r], r)
  BY PreviewNext
<1>1. /\ (\A s \in CardSteps : ac_call[s].at # "ran") => Matches(ac_events, ac_previews[r], r)
      /\ \A s \in CardSteps : ac_call[s].at = "ran"
           => Matches(Append(ac_events, ResultIn(s, ac_call[s])), ac_previews[r], r)
  BY PreviewAre
<1>2. (\A s \in CardSteps : ac_call'[s].at # "ran") => (\A s \in CardSteps : ac_call[s].at # "ran")
  OBVIOUS
<1>3. ASSUME NEW s \in CardSteps, ac_call'[s].at = "ran"
               PROVE Matches(Append(ac_events, ResultIn(s, ac_call'[s])), ac_previews[r], r)
  <2>1. ac_call[s].at = "ran" /\ ac_call'[s] = ac_call[s]
    BY <1>3
  <2> QED BY <1>1, <2>1
<1> QED BY <1>1, <1>2, <1>3

LEMMA PreviewRecords ==
  ASSUME PreviewInv, ac_turn' = ac_turn, ac_parallel' = ac_parallel, ac_previews' = ac_previews,
           ac_previews \in [TheCards!RawIds -> Seq(Run)],
         ac_events \in Seq(Event), NEW e \in Event, ac_events' = Append(ac_events, e),
         ~ac_parallel => \A s \in CardSteps : ac_call'[s].at # "ran",
         ~ac_parallel => \/ (\A s \in CardSteps : ac_call[s].at # "ran") /\ \A r \in TheCards!RawIds : ~Shows(e, r)
                         \/ \E s \in CardSteps : ac_call[s].at = "ran" /\ e = ResultIn(s, ac_call[s])
  PROVE  PreviewInv'
<1> SUFFICES ASSUME ~ac_parallel, NEW r \in TheCards!RawIds PROVE Matches(ac_events', ac_previews[r], r)
  BY PreviewNext
<1>1. /\ (\A s \in CardSteps : ac_call[s].at # "ran") => Matches(ac_events, ac_previews[r], r)
      /\ \A s \in CardSteps : ac_call[s].at = "ran"
           => Matches(Append(ac_events, ResultIn(s, ac_call[s])), ac_previews[r], r)
  BY PreviewAre
<1>2. ac_previews[r] \in Seq(Run)
  OBVIOUS
<1>3. CASE (\A s \in CardSteps : ac_call[s].at # "ran") /\ ~Shows(e, r)
  <2>1. Matches(ac_events, ac_previews[r], r)
    BY <1>1, <1>3
  <2> QED BY <1>2, <1>3, <2>1, MatchesMore
<1>4. CASE \E s \in CardSteps : ac_call[s].at = "ran" /\ e = ResultIn(s, ac_call[s])
  BY <1>1, <1>4
<1> QED BY <1>3, <1>4

(* The tool of the one step that is at work leaves its preview. *)
LEMMA PreviewMore ==
  ASSUME PreviewInv, ac_turn' = ac_turn, ac_parallel' = ac_parallel, ac_previews \in [TheCards!RawIds -> Seq(Run)],
         ac_events \in Seq(Event), ac_events' = ac_events, NEW s \in CardSteps, NEW of \in Run,
           of = Mine(s, ac_call'[s]),
         ac_call'[s].at = "ran", ~ac_parallel
           => \A o \in CardSteps : ac_call[o].at # "ran" /\ (o # s => ac_call'[o].at # "ran"),
         ac_previews' = [ac_previews EXCEPT ![CardRawId(s)] = Append(@, of)]
  PROVE  PreviewInv'
<1>0. PICK raw \in TheCards!RawIds : raw = CardRawId(s)
  BY DEF TheCards!RawIds
<1> SUFFICES ASSUME ~ac_parallel, NEW r \in TheCards!RawIds
  PROVE Matches(Append(ac_events, ResultIn(s, ac_call'[s])), ac_previews'[r], r)
  BY PreviewNext
<1>1. Matches(ac_events, ac_previews[r], r) /\ ac_previews[r] \in Seq(Run)
  BY PreviewAre
<1>2. PICK e : e = ResultIn(s, ac_call'[s])
  OBVIOUS
<1>3. e \in Event /\ e.of = of /\ e.step = s /\ e.ok = TRUE /\ e.kind = "tool_result"
  BY <1>2 DEF ResultIn, Event
<1>4. Shows(e, r) <=> r = raw
  BY <1>0, <1>3 DEF Shows, Closes
<1>5. CASE r = raw
  <2>1. ac_previews'[r] = Append(ac_previews[r], of)
    BY <1>0, <1>5
  <2>2. Matches(Append(ac_events, e), Append(ac_previews[r], e.of), r)
    BY <1>1, <1>3, <1>4, <1>5, MatchesMore
  <2> QED BY <1>2, <1>3, <2>1, <2>2
<1>6. CASE r # raw
  <2>1. ac_previews'[r] = ac_previews[r]
    BY <1>0, <1>6
  <2>2. Matches(Append(ac_events, e), ac_previews[r], r)
    BY <1>1, <1>3, <1>4, <1>6, MatchesMore
  <2> QED BY <1>2, <2>1, <2>2
<1> QED BY <1>5, <1>6

(* An event leaves the line, and its preview with it. *)
Closed(e) == IF Closes(e) /\ e.ok THEN [ac_previews EXCEPT ![CardRawId(e.step)] = IF @ = <<>> THEN @ ELSE Tail(@)]
  ELSE ac_previews

LEMMA PreviewLess ==
  ASSUME PreviewInv, ac_turn' = ac_turn, ac_parallel' = ac_parallel, ac_call' = ac_call,
           ac_previews \in [TheCards!RawIds -> Seq(Run)],
         ac_events \in Seq(Event), ac_events # <<>>, ac_events' = Tail(ac_events), NEW e \in Event,
           e = Head(ac_events), ac_turn \in Nat,
         \A s \in CardSteps : ac_call[s].run \in Nat,
         ac_previews' = Closed(e)
  PROVE  /\ PreviewInv' /\ ac_previews' \in [TheCards!RawIds -> Seq(Run)]
         /\ ~ac_parallel /\ Closes(e) /\ e.ok
              => ac_previews[CardRawId(e.step)] # <<>> /\ Head(ac_previews[CardRawId(e.step)]) = e.of
<1>1. PICK raw \in TheCards!RawIds : raw = CardRawId(e.step)
  BY EventIs DEF TheCards!RawIds
<1>2. \A r \in TheCards!RawIds : Shows(e, r) <=> Closes(e) /\ e.ok /\ r = raw
  BY <1>1 DEF Shows
<1>3. ASSUME NEW r \in TheCards!RawIds
      PROVE  /\ Shows(e, r) => ac_previews'[r] = IF ac_previews[r] = <<>> THEN ac_previews[r]
               ELSE Tail(ac_previews[r])
             /\ ~Shows(e, r) => ac_previews'[r] = ac_previews[r]
  BY <1>1, <1>2, <1>3 DEF Closed
<1>4. ASSUME NEW q \in Seq(Event), q # <<>>, q[1] = e, NEW r \in TheCards!RawIds, Matches(q, ac_previews[r], r)
      PROVE  Matches(Tail(q), ac_previews'[r], r)
               /\ (Shows(e, r) => ac_previews[r] # <<>> /\ Head(ac_previews[r]) = e.of)
  <2>1. ac_previews[r] \in Seq(Run)
    OBVIOUS
  <2>2. CASE Shows(e, r)
    BY <1>3, <1>4, <2>1, <2>2, MatchesLess
  <2>3. CASE ~Shows(e, r)
    BY <1>3, <1>4, <2>1, <2>3, MatchesLess
  <2> QED BY <2>2, <2>3
<1>5. ac_events[1] = e
  BY Shortened
<1>6. ASSUME NEW s \in CardSteps
      PROVE  /\ Append(ac_events, ResultIn(s, ac_call[s])) \in Seq(Event)
               /\ Append(ac_events, ResultIn(s, ac_call[s])) # <<>>
             /\ Append(ac_events, ResultIn(s, ac_call[s]))[1] = e
             /\ Tail(Append(ac_events, ResultIn(s, ac_call[s]))) = Append(ac_events', ResultIn(s, ac_call[s]))
  <2>1. PICK f : f = ResultIn(s, ac_call[s])
    OBVIOUS
  <2>2. f \in Event
    BY <2>1 DEF ResultIn, Event, Mine, Run
  <2>3. Append(ac_events, f) \in Seq(Event) /\ Append(ac_events, f) # <<>> /\ Append(ac_events, f)[1] = e
    <3>1. Len(ac_events) \in Nat /\ Len(ac_events) >= 1 /\ 1 \in 1..Len(ac_events)
      BY Shortened
    <3> QED BY <1>5, <2>2, <3>1, Appended
  <2>4. Tail(Append(ac_events, f)) = Append(Tail(ac_events), f)
    BY <2>2
  <2> QED BY <2>1, <2>3, <2>4
<1>7. ac_previews' \in [TheCards!RawIds -> Seq(Run)]
  <2>1. ASSUME NEW r \in TheCards!RawIds PROVE ac_previews'[r] \in Seq(Run)
    <3>1. ac_previews[r] \in Seq(Run) /\ (ac_previews[r] # <<>> => Tail(ac_previews[r]) \in Seq(Run))
      OBVIOUS
    <3> QED BY <1>3, <3>1
  <2>2. DOMAIN ac_previews' = TheCards!RawIds /\ ac_previews' = [r \in TheCards!RawIds |-> ac_previews'[r]]
    BY DEF Closed
  <2> QED BY <2>1, <2>2
<1>8. ASSUME ~ac_parallel, NEW r \in TheCards!RawIds
      PROVE  /\ (\A s \in CardSteps : ac_call[s].at # "ran") => Matches(ac_events', ac_previews'[r], r)
             /\ \A s \in CardSteps : ac_call[s].at = "ran"
                  => Matches(Append(ac_events', ResultIn(s, ac_call[s])), ac_previews'[r], r)
             /\ Shows(e, r) => ac_previews[r] # <<>> /\ Head(ac_previews[r]) = e.of
  <2>1. /\ (\A s \in CardSteps : ac_call[s].at # "ran") => Matches(ac_events, ac_previews[r], r)
        /\ \A s \in CardSteps : ac_call[s].at = "ran"
             => Matches(Append(ac_events, ResultIn(s, ac_call[s])), ac_previews[r], r)
    BY <1>8, PreviewAre
  <2>2. CASE \A s \in CardSteps : ac_call[s].at # "ran"
    <3>1. Matches(Tail(ac_events), ac_previews'[r], r)
            /\ (Shows(e, r) => ac_previews[r] # <<>> /\ Head(ac_previews[r]) = e.of)
      BY <1>4, <1>5, <2>1, <2>2
    <3> QED BY <2>2, <3>1
  <2>3. CASE \E s \in CardSteps : ac_call[s].at = "ran"
    <3>1. ASSUME NEW s \in CardSteps, ac_call[s].at = "ran"
          PROVE  /\ Matches(Append(ac_events', ResultIn(s, ac_call[s])), ac_previews'[r], r)
                 /\ Shows(e, r) => ac_previews[r] # <<>> /\ Head(ac_previews[r]) = e.of
      <4>1. PICK q : q = Append(ac_events, ResultIn(s, ac_call[s]))
        OBVIOUS
      <4>2. q \in Seq(Event) /\ q # <<>> /\ q[1] = e /\ Tail(q) = Append(ac_events', ResultIn(s, ac_call[s]))
              /\ Matches(q, ac_previews[r], r)
        BY <1>6, <2>1, <3>1, <4>1
      <4>3. Matches(Tail(q), ac_previews'[r], r)
              /\ (Shows(e, r) => ac_previews[r] # <<>> /\ Head(ac_previews[r]) = e.of)
        BY <1>4, <4>2
      <4> QED BY <4>2, <4>3
    <3> QED BY <2>3, <3>1
  <2> QED BY <2>2, <2>3
<1>9. PreviewInv'
  BY <1>8, PreviewNext
<1>10. ASSUME ~ac_parallel, Closes(e), e.ok PROVE ac_previews[CardRawId(e.step)] # <<>>
                /\ Head(ac_previews[CardRawId(e.step)]) = e.of
  BY <1>1, <1>2, <1>8, <1>10
<1> QED BY <1>7, <1>9, <1>10

Points == {"idle", "done", "span", "called", "waits", "asks", "runs", "ran", "refused"}
Calls == [CardSteps -> [run : Nat, at : Points, target : Nat]]

(* One step goes on, as r. *)
Becomes(s, r) ==
  /\ ac_call' \in Calls /\ ac_call'[s] = r /\ \A o \in CardSteps \ {s} : ac_call'[o] = ac_call[o]

LEMMA CallIs ==
  ASSUME CallTypes, NEW s \in CardSteps
  PROVE  /\ ac_call \in Calls /\ ac_call[s].run \in Nat /\ ac_call[s].at \in Points /\ ac_call[s].target \in Nat
         /\ ac_turn \in Nat /\ Mine(s, ac_call[s]) \in Run /\ TheCards!Me(s) = Mine(s, ac_call[s])
              /\ Mine(s, ac_call[s])[1] = ac_turn
         /\ Mine(s, ac_call[s])[2] = s /\ Mine(s, ac_call[s])[3] = ac_call[s].run
BY DEF CallTypes, Calls, Points, Mine, TheCards!Me, Run

LEMMA AtIs ==
  ASSUME CallTypes, NEW s \in CardSteps, NEW where \in Points, TheCards!At(s, where)
  PROVE  /\ Becomes(s, ac_call'[s]) /\ ac_call'[s].at = where /\ ac_call'[s].run = ac_call[s].run
           /\ ac_call'[s].target = ac_call[s].target
<1>1. ac_call \in Calls /\ ac_call[s] \in [run : Nat, at : Points, target : Nat]
  BY CallIs DEF Calls
<1>2. PICK r : r = [ac_call[s] EXCEPT !.at = where]
  OBVIOUS
<1>3. r \in [run : Nat, at : Points, target : Nat] /\ r.at = where /\ r.run = ac_call[s].run
        /\ r.target = ac_call[s].target
  BY <1>1, <1>2
<1>4. ac_call' = [ac_call EXCEPT ![s] = r]
  BY <1>2 DEF TheCards!At
<1>5. ac_call' \in Calls /\ ac_call'[s] = r /\ \A o \in CardSteps \ {s} : ac_call'[o] = ac_call[o]
  BY <1>1, <1>3, <1>4 DEF Calls
<1> QED BY <1>3, <1>5 DEF Becomes

(* The others are idle, where steps take turns. *)
Alone(s) == ~ac_parallel => \A o \in CardSteps \ {s} : ac_call[o].at \in {"idle", "done"}

LEMMA AloneIs ==
  ASSUME TurnInv, NEW s \in CardSteps, ac_call[s].at \notin {"idle", "done"}
  PROVE  Alone(s)
BY DEF TurnInv, Alone, AtWork

LEMMA TypesKeep ==
  ASSUME CallTypes, TurnInv, NEW s \in CardSteps, Becomes(s, ac_call'[s]), Alone(s),
         UNCHANGED <<ac_parallel, ac_turn, ac_phase, ac_cancelled, ac_taking, ac_left>>,
         ac_lost' \in BOOLEAN, ac_recorded' \in Nat, ac_sent' \in Nat
  PROVE  CallTypes' /\ TurnInv'
<1>1. CallTypes'
  BY DEF CallTypes, Becomes, Calls, Points
<1>2. ASSUME ~ac_parallel, NEW r \in CardSteps, NEW o \in CardSteps, ac_call'[r].at \notin {"idle", "done"},
               ac_call'[o].at \notin {"idle", "done"}
      PROVE r = o
  <2>1. r = s
    BY <1>2 DEF Becomes, Alone
  <2>2. o = s
    BY <1>2 DEF Becomes, Alone
  <2> QED BY <2>1, <2>2
<1>3. TurnInv'
  BY <1>2 DEF TurnInv, AtWork
<1> QED BY <1>1, <1>3

LEMMA GrowsIs ==
  ASSUME CallTypes, NEW s \in CardSteps, Becomes(s, ac_call'[s]), ac_call[s].run <= ac_call'[s].run,
         ac_call'[s].run = ac_call[s].run => ac_call'[s].at # "span"
  PROVE  CallGrows
<1> SUFFICES ASSUME NEW o \in CardSteps
             PROVE  /\ ac_call[o].run \in Nat /\ ac_call'[o].run \in Nat /\ ac_call[o].run <= ac_call'[o].run
                    /\ ac_call'[o].run = ac_call[o].run => ac_call'[o].at # "span" \/ ac_call[o].at = "span"
  BY DEF CallGrows
<1>1. ac_call[o].run \in Nat /\ ac_call'[o].run \in Nat
  BY CallIs DEF Calls, Becomes
<1>2. CASE o = s
  BY <1>1, <1>2
<1>3. CASE o # s
  <2>1. ac_call'[o] = ac_call[o]
    BY <1>3 DEF Becomes
  <2> QED BY <1>1, <2>1
<1> QED BY <1>2, <1>3

LEMMA SameCalls ==
  ASSUME CallTypes, ac_call' = ac_call
  PROVE  CallGrows
BY CallIs DEF CallGrows

LEMMA WrongKeeps ==
  ASSUME WrongInv, ac_wrong' = ac_wrong, ac_parallel' = ac_parallel, ac_lost => ac_lost'
  PROVE  WrongInv'
BY DEF WrongInv

(* An event is recorded: it is in line behind the others, or one is lost. *)
LEMMA Recorded ==
  ASSUME CallTypes, NEW e \in Event, TheCards!Record(e), ac_left' = ac_left
  PROVE  /\ ac_recorded' = ac_recorded + 1 /\ ac_recorded' \in Nat /\ ac_lost' \in BOOLEAN /\ (ac_lost => ac_lost')
         /\ ~ac_lost' /\ ~ac_left' => ac_events' = Append(ac_events, e)
<1>1. ac_recorded' = ac_recorded + 1 /\ ac_recorded' \in Nat
  BY DEF TheCards!Record, CallTypes
<1>2. CASE ac_left
  BY <1>1, <1>2 DEF TheCards!Record, CallTypes
<1>3. CASE ~ac_left
  BY <1>1, <1>3 DEF TheCards!Record, CallTypes
<1> QED BY <1>2, <1>3

LEMMA LineRecords ==
  ASSUME CallTypes, LineTypes, NEW e \in Event, ac_events' = Append(ac_events, e), ac_recorded' = ac_recorded + 1,
         UNCHANGED <<ac_taking, ac_sent, ac_runs, ac_previews, ac_cards>>
  PROVE  LineTypes' /\ More(e)
<1>1. HeldTypes' /\ More(e)
  BY LineMore DEF LineTypes
<1>2. ac_recorded' = ac_sent' + Len(Line')
  <2>1. ac_recorded = ac_sent + Len(Line) /\ Len(Line) \in Nat /\ ac_sent \in Nat /\ Len(Line') = Len(Line) + 1
    BY <1>1, LineIs DEF LineTypes, CallTypes, More
  <2> QED BY <2>1, SMTT(20)
<1> QED BY <1>1, <1>2 DEF LineTypes

LEMMA LineKeeps ==
  ASSUME LineTypes, UNCHANGED <<ac_events, ac_recorded, ac_sent, ac_runs, ac_taking, ac_cards>>,
           ac_previews' \in [TheCards!RawIds -> Seq(Run)]
  PROVE  LineTypes' /\ Line' = Line
<1>1. HeldTypes'
  BY DEF LineTypes, HeldTypes, Held
<1>2. Line' = Line
  BY DEF Line, InLine
<1> QED BY <1>1, <1>2 DEF LineTypes

LEMMA CountRecords ==
  ASSUME CallTypes, LineTypes, CountInv, ac_turn' = ac_turn, ac_runs' = ac_runs, NEW e \in Event,
           ac_events' = Append(ac_events, e),
         [o \in CardSteps |-> ac_call'[o].run] = Next1(e, [o \in CardSteps |-> ac_call[o].run]),
         ac_call' \in Calls,
         e.kind # "span_start" => e.of = Mine(e.step, ac_call[e.step])
  PROVE  CountInv'
<1>1. PICK last : last = [o \in CardSteps |-> ac_call[o].run]
  OBVIOUS
<1>2. PICK path : CountsAlong(path, ac_events, ac_runs, last)
  BY <1>1, CountAre
<1>3. PICK next : next = [o \in CardSteps |-> ac_call'[o].run]
  OBVIOUS
<1>4. next = Next1(e, last) /\ next \in [CardSteps -> Nat]
  BY <1>1, <1>3 DEF Calls
<1>5. e.kind # "span_start" => e.of = <<ac_turn, e.step, last[e.step]>>
  BY <1>1, EventIs, SMTT(20) DEF Mine
<1>6. ac_events \in Seq(Event)
  BY LineIs DEF LineTypes
<1>7. \E all : CountsAlong(all, Append(ac_events, e), ac_runs, Next1(e, last))
  BY <1>2, <1>4, <1>5, <1>6, CountMore
<1> QED BY <1>3, <1>4, <1>7, CountNext

LEMMA CountSame ==
  ASSUME CountInv, ac_turn' = ac_turn, ac_runs' = ac_runs, ac_events' = ac_events,
           \A o \in CardSteps : ac_call'[o].run = ac_call[o].run
  PROVE  CountInv'
<1>1. [o \in CardSteps |-> ac_call'[o].run] = [o \in CardSteps |-> ac_call[o].run]
  OBVIOUS
<1> QED BY <1>1, CountAre, CountNext

LEMMA StartsIs ==
  ASSUME NEW s \in CardSteps, TheCards!SpanStarts(s)
  PROVE  /\ ac_call[s].at \in {"idle", "done"}
         /\ ac_parallel \/ \A o \in CardSteps \ {s} : ac_call[o].at \in {"idle", "done"}
         /\ ac_call' = [ac_call EXCEPT ![s] = [run |-> ac_call[s].run + 1, at |-> "span", target |-> 0]]
         /\ TheCards!Record([kind |-> "span_start", step |-> s])
         /\ UNCHANGED <<ac_parallel, ac_turn, ac_phase, ac_cancelled, ac_sent, ac_cards, ac_runs, ac_previews, ac_taking, ac_left, ac_client, ac_wrong, ac_mode, ac_granted>>
BY DEF TheCards!SpanStarts, TheCards!shown

LEMMA SpanStartsOK ==
  ASSUME CardsInv, NEW s \in CardSteps, TheCards!SpanStarts(s)
  PROVE  CardsInv'
<1>1. CallTypes /\ TurnInv /\ WrongInv /\ ac_call \in Calls
  BY CallIs DEF CardsInv
<1>2. PICK r : r = [run |-> ac_call[s].run + 1, at |-> "span", target |-> 0]
  OBVIOUS
<1>3. r \in [run : Nat, at : Points, target : Nat] /\ r.run = ac_call[s].run + 1 /\ r.at = "span"
  BY <1>1, <1>2, CallIs DEF Points
<1>4. ac_call' = [ac_call EXCEPT ![s] = r]
  BY <1>2, StartsIs
<1>5. ac_call' \in Calls /\ ac_call'[s] = r /\ \A o \in CardSteps \ {s} : ac_call'[o] = ac_call[o]
  BY <1>1, <1>3, <1>4 DEF Calls
<1>6. Becomes(s, ac_call'[s]) /\ Alone(s)
  BY <1>5, StartsIs DEF Becomes, Alone
<1>7. PICK e : e = [kind |-> "span_start", step |-> s]
  OBVIOUS
<1>8. e \in Event /\ e.kind = "span_start" /\ e.step = s /\ ~Opens(e) /\ ~Closes(e)
  BY <1>7 DEF Event, Opens, Closes
<1>9. TheCards!Record(e)
  BY <1>7, StartsIs
<1>10. UNCHANGED <<ac_parallel, ac_turn, ac_phase, ac_cancelled, ac_sent, ac_cards, ac_runs, ac_previews, ac_taking, ac_left, ac_client, ac_wrong>>
  BY StartsIs
<1>11. /\ ac_recorded' = ac_recorded + 1 /\ ac_recorded' \in Nat /\ ac_lost' \in BOOLEAN /\ (ac_lost => ac_lost')
       /\ ~ac_lost' /\ ~ac_left' => ac_events' = Append(ac_events, e)
  BY <1>1, <1>8, <1>9, <1>10, Recorded
<1>12. ac_sent' \in Nat
  BY <1>1, <1>10 DEF CallTypes
<1>13. CallTypes' /\ TurnInv'
  BY <1>1, <1>6, <1>10, <1>11, <1>12, TypesKeep
<1>14. WrongInv'
  BY <1>1, <1>10, <1>11, WrongKeeps
<1>15. ASSUME ~ac_lost', ~ac_left' PROVE Told'
  <2>1. Told /\ ac_events' = Append(ac_events, e)
    BY <1>10, <1>11, <1>15 DEF CardsInv
  <2>2. /\ LineTypes /\ ClientInv /\ OpensInv /\ ClosesInv /\ BegunInv /\ PlaceInv /\ CountInv /\ PreviewInv
        /\ HeldTypes /\ ac_previews \in [TheCards!RawIds -> Seq(Run)] /\ ac_events \in Seq(Event)
    BY <2>1 DEF Told, LineTypes, HeldTypes, Held
  <2>3. LineTypes' /\ More(e)
    BY <1>1, <1>8, <1>10, <1>11, <2>1, <2>2, LineRecords
  <2>4. CallGrows
    <3>1. ac_call[s].run \in Nat /\ ac_call[s].run <= ac_call'[s].run /\ ac_call'[s].run # ac_call[s].run
      BY <1>1, <1>3, <1>5, CallIs
    <3> QED BY <1>1, <1>6, <3>1, GrowsIs
  <2>5. ClientInv'
    BY <1>10, <2>2, <2>4, ClientSame
  <2>6. OpensInv'
    BY <1>8, <1>10, <2>2, <2>3, <2>4, OpensMore
  <2>7. ClosesInv'
    BY <1>8, <1>10, <2>2, <2>3, ClosesMore
  <2>8. \A o \in CardSteps : Busy(ac_call'[o]) => ac_call'[o] = ac_call[o]
    BY <1>3, <1>5 DEF Busy
  <2>9. BegunInv'
    BY <1>8, <1>10, <2>2, <2>3, <2>8, BegunMore
  <2>10. PlaceInv'
    BY <1>8, <1>10, <2>2, <2>3, <2>8, PlaceMore
  <2>11. CountInv'
    <3>1. PICK last : last = [o \in CardSteps |-> ac_call[o].run]
      OBVIOUS
    <3>2. last[s] = ac_call[s].run
      BY <3>1
    <3>3. Next1(e, last) = [last EXCEPT ![s] = ac_call[s].run + 1]
      BY <1>8, <3>2 DEF Next1
    <3>4. \A o \in CardSteps : ac_call'[o].run = [last EXCEPT ![s] = ac_call[s].run + 1][o]
      BY <1>3, <1>5, <3>1
    <3>5. [o \in CardSteps |-> ac_call'[o].run] = [last EXCEPT ![s] = ac_call[s].run + 1]
      BY <3>1, <3>4
    <3>6. [o \in CardSteps |-> ac_call'[o].run] = Next1(e, [o \in CardSteps |-> ac_call[o].run])
      BY <3>1, <3>3, <3>5
    <3> QED BY <1>1, <1>5, <1>8, <1>10, <2>1, <2>2, <3>6, CountRecords
  <2>12. PreviewInv'
    <3>1. ~ac_parallel => \A o \in CardSteps : ac_call'[o].at # "ran" /\ ac_call[o].at # "ran"
      <4> SUFFICES ASSUME ~ac_parallel, NEW o \in CardSteps PROVE ac_call'[o].at # "ran" /\ ac_call[o].at # "ran"
        OBVIOUS
      <4>1. ac_call[o].at \in {"idle", "done"}
        BY StartsIs
      <4> QED BY <1>3, <1>5, <4>1
    <3>2. \A q \in TheCards!RawIds : ~Shows(e, q)
      BY <1>8 DEF Shows
    <3> QED BY <1>8, <1>10, <2>1, <2>2, <3>1, <3>2, PreviewRecords
  <2> QED BY <2>3, <2>5, <2>6, <2>7, <2>9, <2>10, <2>11, <2>12 DEF Told
<1> QED BY <1>13, <1>14, <1>15 DEF CardsInv

LEMMA ToolCallStartsOK ==
  ASSUME CardsInv, NEW s \in CardSteps, TheCards!ToolCallStarts(s)
  PROVE  CardsInv'
<1>1. CallTypes /\ TurnInv /\ WrongInv /\ ac_call \in Calls /\ ac_call[s].at = "span" /\ TheCards!At(s, "called")
  BY CallIs DEF CardsInv, TheCards!ToolCallStarts
<1>2. Becomes(s, ac_call'[s]) /\ ac_call'[s].at = "called" /\ ac_call'[s].run = ac_call[s].run
  BY <1>1, AtIs DEF Points
<1>3. ac_call' \in Calls /\ \A o \in CardSteps \ {s} : ac_call'[o] = ac_call[o]
  BY <1>2 DEF Becomes
<1>4. Alone(s)
  BY <1>1, AloneIs
<1>5. PICK of \in Run : /\ of = Mine(s, ac_call[s]) /\ of = TheCards!Me(s) /\ of = Mine(s, ac_call'[s])
             /\ of[1] = ac_turn /\ of[2] = s
                        /\ of[3] = ac_call[s].run
  BY <1>1, <1>2, CallIs DEF Mine
<1>7. PICK e : e = [kind |-> "tool_call_start", step |-> s, of |-> of]
  OBVIOUS
<1>8. e \in Event /\ e.kind = "tool_call_start" /\ e.step = s /\ e.of = of /\ Opens(e) /\ ~Closes(e)
  BY <1>7 DEF Event, Opens, Closes
<1>9. TheCards!Record(e)
  BY <1>5, <1>7 DEF TheCards!ToolCallStarts
<1>10. UNCHANGED <<ac_parallel, ac_turn, ac_phase, ac_cancelled, ac_sent, ac_cards, ac_runs, ac_previews, ac_taking, ac_left, ac_client, ac_wrong>>
  BY DEF TheCards!ToolCallStarts, TheCards!shown
<1>11. /\ ac_recorded' = ac_recorded + 1 /\ ac_recorded' \in Nat /\ ac_lost' \in BOOLEAN /\ (ac_lost => ac_lost')
       /\ ~ac_lost' /\ ~ac_left' => ac_events' = Append(ac_events, e)
  BY <1>1, <1>8, <1>9, <1>10, Recorded
<1>12. ac_sent' \in Nat
  BY <1>1, <1>10 DEF CallTypes
<1>13. CallTypes' /\ TurnInv'
  BY <1>1, <1>2, <1>4, <1>10, <1>11, <1>12, TypesKeep
<1>14. WrongInv'
  BY <1>1, <1>10, <1>11, WrongKeeps
<1>15. ASSUME ~ac_lost', ~ac_left' PROVE Told'
  <2>1. Told /\ ac_events' = Append(ac_events, e)
    BY <1>10, <1>11, <1>15 DEF CardsInv
  <2>2. /\ LineTypes /\ ClientInv /\ OpensInv /\ ClosesInv /\ BegunInv /\ PlaceInv /\ CountInv /\ PreviewInv
        /\ HeldTypes /\ ac_previews \in [TheCards!RawIds -> Seq(Run)] /\ ac_events \in Seq(Event)
    BY <2>1 DEF Told, LineTypes, HeldTypes, Held
  <2>3. LineTypes' /\ More(e)
    BY <1>1, <1>8, <1>10, <1>11, <2>1, <2>2, LineRecords
  <2>4. CallGrows
    <3>1. ac_call[s].run \in Nat /\ ac_call[s].run <= ac_call'[s].run
      BY <1>1, <1>2, CallIs
    <3> QED BY <1>1, <1>2, <3>1, GrowsIs
  <2>5. ClientInv'
    BY <1>10, <2>2, <2>4, ClientSame
  <2>6. CardOf(of) \notin DOMAIN ac_client
    <3> SUFFICES ASSUME CardOf(of) \in DOMAIN ac_client PROVE FALSE
      OBVIOUS
    <3>1. CardOf(of)[2] = s /\ CardOf(of)[3] = ac_call[s].run
      BY <1>5, RunIs
    <3> QED BY <1>1, <2>2, <3>1 DEF ClientInv
  <2>7. ASSUME NEW k \in DOMAIN Line, Opens(Line[k]) PROVE Line[k].of # of
    <3> SUFFICES ASSUME Line[k].of = of PROVE FALSE
      OBVIOUS
    <3>1. OpensNew(of, ac_client, ac_call)
      BY <2>2, <2>7, OpensAre
    <3> QED BY <1>1, <1>5, <3>1 DEF OpensNew
  <2>8. OfTurn(e, ac_turn, ac_call') /\ OpensNew(e.of, ac_client, ac_call')
    <3>1. ac_call[s].run \in Nat /\ ac_call'[s].run <= ac_call'[s].run
      BY <1>1, <1>2, CallIs
    <3> QED BY <1>2, <1>5, <1>8, <2>6, <3>1 DEF OfTurn, OpensNew
  <2>9. OpensInv'
    BY <1>8, <1>10, <2>2, <2>3, <2>4, <2>7, <2>8, OpensMore
  <2>10. ClosesInv'
    BY <1>8, <1>10, <2>2, <2>3, ClosesMore
  <2>11. \A o \in CardSteps \ {s} : ac_call'[o] = ac_call[o] /\ of # Mine(o, ac_call[o])
    BY <1>3, <1>5 DEF Mine
  <2>12. \A o \in CardSteps : Busy(ac_call'[o]) =>
           \/ ac_call'[o] = ac_call[o] /\ (Opens(e) => e.of # Mine(o, ac_call[o]))
           \/ Opens(e) /\ e.of = Mine(o, ac_call'[o]) /\ ac_call'[o].at # "waits"
    <3> SUFFICES ASSUME NEW o \in CardSteps, Busy(ac_call'[o])
                 PROVE \/ ac_call'[o] = ac_call[o] /\ e.of # Mine(o, ac_call[o])
                       \/ e.of = Mine(o, ac_call'[o]) /\ ac_call'[o].at # "waits"
      BY <1>8
    <3>1. CASE o = s
      BY <1>2, <1>5, <1>8, <3>1
    <3>2. CASE o # s
      BY <1>8, <2>11, <3>2
    <3> QED BY <3>1, <3>2
  <2>13. BegunInv'
    BY <1>8, <1>10, <2>2, <2>3, <2>12, BegunMore
  <2>14. ~ac_parallel => \A o \in CardSteps : Busy(ac_call'[o])
           => Opens(e) /\ e.of = Mine(o, ac_call'[o]) /\ CardOf(e.of) \notin DOMAIN ac_client
    <3> SUFFICES ASSUME ~ac_parallel, NEW o \in CardSteps, Busy(ac_call'[o])
                 PROVE e.of = Mine(o, ac_call'[o]) /\ CardOf(e.of) \notin DOMAIN ac_client
      BY <1>8
    <3>1. o = s
      BY <1>4, <2>11 DEF Alone, Busy
    <3> QED BY <1>5, <1>8, <2>6, <3>1
  <2>15. PlaceInv'
    BY <1>8, <1>10, <2>2, <2>3, <2>14, PlaceMore
  <2>16. CountInv'
    <3>1. \A o \in CardSteps : ac_call'[o].run = ac_call[o].run
      BY <1>2, <1>3
    <3>2. [o \in CardSteps |-> ac_call'[o].run] = [o \in CardSteps |-> ac_call[o].run]
      BY <3>1
    <3>3. [o \in CardSteps |-> ac_call'[o].run] = Next1(e, [o \in CardSteps |-> ac_call[o].run])
      BY <1>8, <3>2 DEF Next1
    <3> QED BY <1>1, <1>3, <1>5, <1>8, <1>10, <2>1, <2>2, <3>3, CountRecords
  <2>17. PreviewInv'
    <3>1. ~ac_parallel => \A o \in CardSteps : ac_call'[o].at # "ran" /\ ac_call[o].at # "ran"
      <4> SUFFICES ASSUME ~ac_parallel, NEW o \in CardSteps PROVE ac_call'[o].at # "ran" /\ ac_call[o].at # "ran"
        OBVIOUS
      <4>1. o # s => ac_call[o].at \in {"idle", "done"}
        BY <1>4 DEF Alone
      <4> QED BY <1>1, <1>2, <1>3, <4>1
    <3>2. \A q \in TheCards!RawIds : ~Shows(e, q)
      BY <1>8 DEF Shows
    <3> QED BY <1>8, <1>10, <2>1, <2>2, <3>1, <3>2, PreviewRecords
  <2> QED BY <2>3, <2>5, <2>9, <2>10, <2>13, <2>15, <2>16, <2>17 DEF Told
<1> QED BY <1>13, <1>14, <1>15 DEF CardsInv

LEMMA ResultIsRecordedOK ==
  ASSUME CardsInv, NEW s \in CardSteps, TheCards!ResultIsRecorded(s)
  PROVE  CardsInv'
<1>1. CallTypes /\ TurnInv /\ WrongInv /\ ac_call \in Calls /\ ac_call[s].at \in {"ran", "refused"}
        /\ TheCards!At(s, "done")
  BY CallIs DEF CardsInv, TheCards!ResultIsRecorded
<1>2. Becomes(s, ac_call'[s]) /\ ac_call'[s].at = "done" /\ ac_call'[s].run = ac_call[s].run
  BY <1>1, AtIs DEF Points
<1>3. ac_call' \in Calls /\ \A o \in CardSteps \ {s} : ac_call'[o] = ac_call[o]
  BY <1>2 DEF Becomes
<1>4. Alone(s)
  BY <1>1, AloneIs
<1>5. PICK of \in Run : /\ of = Mine(s, ac_call[s]) /\ of = TheCards!Me(s) /\ of = Mine(s, ac_call'[s])
             /\ of[1] = ac_turn /\ of[2] = s
                        /\ of[3] = ac_call[s].run
  BY <1>1, <1>2, CallIs DEF Mine
<1>6. PICK ok \in BOOLEAN : ok = (ac_call[s].at = "ran")
  OBVIOUS
<1>7. PICK e : e = [kind |-> "tool_result", step |-> s, of |-> of, ok |-> ok]
  OBVIOUS
<1>8. e \in Event /\ e.kind = "tool_result" /\ e.step = s /\ e.of = of /\ ~Opens(e) /\ Closes(e) /\ e.ok = ok
  BY <1>7 DEF Event, Opens, Closes
<1>9. TheCards!Record(e)
  BY <1>5, <1>6, <1>7 DEF TheCards!ResultIsRecorded
<1>10. UNCHANGED <<ac_parallel, ac_turn, ac_phase, ac_cancelled, ac_sent, ac_cards, ac_runs, ac_previews, ac_taking, ac_left, ac_client, ac_wrong>>
  BY DEF TheCards!ResultIsRecorded, TheCards!shown
<1>11. /\ ac_recorded' = ac_recorded + 1 /\ ac_recorded' \in Nat /\ ac_lost' \in BOOLEAN /\ (ac_lost => ac_lost')
       /\ ~ac_lost' /\ ~ac_left' => ac_events' = Append(ac_events, e)
  BY <1>1, <1>8, <1>9, <1>10, Recorded
<1>12. ac_sent' \in Nat
  BY <1>1, <1>10 DEF CallTypes
<1>13. CallTypes' /\ TurnInv'
  BY <1>1, <1>2, <1>4, <1>10, <1>11, <1>12, TypesKeep
<1>14. WrongInv'
  BY <1>1, <1>10, <1>11, WrongKeeps
<1>15. ASSUME ~ac_lost', ~ac_left' PROVE Told'
  <2>1. Told /\ ac_events' = Append(ac_events, e)
    BY <1>10, <1>11, <1>15 DEF CardsInv
  <2>2. /\ LineTypes /\ ClientInv /\ OpensInv /\ ClosesInv /\ BegunInv /\ PlaceInv /\ CountInv /\ PreviewInv
        /\ HeldTypes /\ ac_previews \in [TheCards!RawIds -> Seq(Run)] /\ ac_events \in Seq(Event)
    BY <2>1 DEF Told, LineTypes, HeldTypes, Held
  <2>3. LineTypes' /\ More(e)
    BY <1>1, <1>8, <1>10, <1>11, <2>1, <2>2, LineRecords
  <2>4. CallGrows
    <3>1. ac_call[s].run \in Nat /\ ac_call[s].run <= ac_call'[s].run
      BY <1>1, <1>2, CallIs
    <3> QED BY <1>1, <1>2, <3>1, GrowsIs
  <2>5. ClientInv'
    BY <1>10, <2>2, <2>4, ClientSame
  <2>8. OfTurn(e, ac_turn, ac_call')
    <3>1. ac_call[s].run \in Nat /\ ac_call'[s].run <= ac_call'[s].run
      BY <1>1, <1>2, CallIs
    <3> QED BY <1>2, <1>5, <1>8, <3>1 DEF OfTurn
  <2>9. OpensInv'
    BY <1>8, <1>10, <2>2, <2>3, <2>4, <2>8, OpensMore
  <2>10. ClosesInv'
    <3>1. Busy(ac_call[s])
      BY <1>1 DEF Busy
    <3>2. CardOf(of) \in DOMAIN ac_client \/ \E k \in DOMAIN Line : Opens(Line[k]) /\ Line[k].of = of
      BY <1>5, <2>2, <3>1, BegunAre
    <3> QED BY <1>8, <1>10, <2>2, <2>3, <3>2, ClosesMore
  <2>12. \A o \in CardSteps : Busy(ac_call'[o]) => ac_call'[o] = ac_call[o] /\ ~Opens(e)
    BY <1>2, <1>3, <1>8 DEF Busy
  <2>13. BegunInv'
    BY <1>8, <1>10, <2>2, <2>3, <2>12, BegunMore
  <2>15. PlaceInv'
    BY <1>8, <1>10, <2>2, <2>3, <2>12, PlaceMore
  <2>16. CountInv'
    <3>1. \A o \in CardSteps : ac_call'[o].run = ac_call[o].run
      BY <1>2, <1>3
    <3>2. [o \in CardSteps |-> ac_call'[o].run] = [o \in CardSteps |-> ac_call[o].run]
      BY <3>1
    <3>3. [o \in CardSteps |-> ac_call'[o].run] = Next1(e, [o \in CardSteps |-> ac_call[o].run])
      BY <1>8, <3>2 DEF Next1
    <3> QED BY <1>1, <1>3, <1>5, <1>8, <1>10, <2>1, <2>2, <3>3, CountRecords
  <2>17. PreviewInv'
    <3>1. ~ac_parallel => \A o \in CardSteps : ac_call'[o].at # "ran" /\ (o # s => ac_call[o].at # "ran")
      <4> SUFFICES ASSUME ~ac_parallel, NEW o \in CardSteps
        PROVE ac_call'[o].at # "ran" /\ (o # s => ac_call[o].at # "ran")
        OBVIOUS
      <4>1. o # s => ac_call[o].at \in {"idle", "done"}
        BY <1>4 DEF Alone
      <4> QED BY <1>2, <1>3, <4>1
    <3>2. CASE ac_call[s].at = "ran"
      <4>1. e = ResultIn(s, ac_call[s])
        BY <1>5, <1>6, <1>7, <3>2 DEF ResultIn
      <4> QED BY <1>8, <1>10, <2>1, <2>2, <3>1, <3>2, <4>1, PreviewRecords
    <3>3. CASE ac_call[s].at # "ran"
      <4>1. \A q \in TheCards!RawIds : ~Shows(e, q)
        BY <1>6, <1>8, <3>3 DEF Shows
      <4>2. ~ac_parallel => \A o \in CardSteps : ac_call[o].at # "ran"
        BY <3>1, <3>3
      <4> QED BY <1>8, <1>10, <2>1, <2>2, <3>1, <4>1, <4>2, PreviewRecords
    <3> QED BY <3>2, <3>3
  <2> QED BY <2>3, <2>5, <2>9, <2>10, <2>13, <2>15, <2>16, <2>17 DEF Told
<1> QED BY <1>13, <1>14, <1>15 DEF CardsInv

----------------------------------------------------------------------------
(* A step goes on with its call, and nothing is recorded. *)
LEMMA MovesOK ==
  ASSUME CardsInv, NEW s \in CardSteps, ac_call[s].at \in {"called", "waits", "asks", "runs"},
           Becomes(s, ac_call'[s]),
         ac_call'[s].run = ac_call[s].run, ac_call'[s].at \in {"waits", "asks", "runs", "refused", "ran"},
         ac_call'[s].at = "waits" => ac_call'[s].target = ac_recorded,
         UNCHANGED <<ac_parallel, ac_turn, ac_phase, ac_cancelled, ac_events, ac_lost, TheCards!progress, ac_runs, ac_taking, ac_left, ac_client>>,
         \/ ac_call'[s].at # "ran" /\ ac_previews' = ac_previews
         \/ ac_call'[s].at = "ran" /\ ac_previews' = [ac_previews EXCEPT ![CardRawId(s)] = Append(@, TheCards!Me(s))]
  PROVE  CallTypes' /\ TurnInv' /\ (~ac_lost' /\ ~ac_left' => Told')
<1>1. CallTypes /\ TurnInv /\ ac_call \in Calls
  BY CallIs DEF CardsInv
<1>2. ac_call' \in Calls /\ \A o \in CardSteps \ {s} : ac_call'[o] = ac_call[o]
  BY DEF Becomes
<1>3. Alone(s)
  BY <1>1, AloneIs
<1>4. UNCHANGED <<ac_recorded, ac_sent, ac_cards>>
  BY DEF TheCards!progress
<1>5. ac_lost' \in BOOLEAN /\ ac_recorded' \in Nat /\ ac_sent' \in Nat
  BY <1>1, <1>4 DEF CallTypes
<1>6. CallTypes' /\ TurnInv'
  BY <1>1, <1>3, <1>5, TypesKeep
<1>7. PICK of \in Run : of = Mine(s, ac_call[s]) /\ of = TheCards!Me(s) /\ of = Mine(s, ac_call'[s])
  BY <1>1, CallIs DEF Mine
<1>8. ASSUME ~ac_lost', ~ac_left' PROVE Told'
  <2>1. Told
    BY <1>8 DEF CardsInv
  <2>2. /\ LineTypes /\ ClientInv /\ OpensInv /\ ClosesInv /\ BegunInv /\ PlaceInv /\ CountInv /\ PreviewInv
        /\ HeldTypes /\ ac_previews \in [TheCards!RawIds -> Seq(Run)] /\ ac_events \in Seq(Event) /\ ac_sent \in Nat
        /\ ac_recorded = ac_sent + Len(Line)
    BY <1>1, <2>1 DEF Told, LineTypes, HeldTypes, Held, CallTypes
  <2>3. ac_previews' \in [TheCards!RawIds -> Seq(Run)]
    <3>1. CASE ac_previews' = ac_previews
      BY <2>2, <3>1
    <3>2. CASE ac_previews' = [ac_previews EXCEPT ![CardRawId(s)] = Append(@, TheCards!Me(s))]
      <4>1. PICK raw \in TheCards!RawIds : raw = CardRawId(s)
        BY DEF TheCards!RawIds
      <4>2. Append(ac_previews[raw], of) \in Seq(Run)
        BY <2>2
      <4> QED BY <1>7, <2>2, <3>2, <4>1, <4>2
    <3> QED BY <3>1, <3>2
  <2>4. LineTypes' /\ Line' = Line
    BY <1>4, <2>2, <2>3, LineKeeps
  <2>5. CallGrows
    <3>1. ac_call[s].run \in Nat /\ ac_call[s].run <= ac_call'[s].run
      BY <1>1, CallIs
    <3> QED BY <1>1, <3>1, GrowsIs
  <2>6. ClientInv'
    BY <1>4, <2>2, <2>5, ClientSame
  <2>7. OpensInv'
    BY <2>2, <2>4, <2>5, OpensSame
  <2>8. ClosesInv'
    BY <2>2, <2>4, ClosesAre, ClosesNext
  <2>9. \A o \in CardSteps : Busy(ac_call'[o]) =>
          /\ Busy(ac_call[o]) /\ ac_call'[o].run = ac_call[o].run
          /\ ac_call'[o].at = "waits" => ac_call'[o] = ac_call[o] \/ ac_call'[o].target = ac_sent + Len(Line)
    <3> SUFFICES ASSUME NEW o \in CardSteps, Busy(ac_call'[o])
                 PROVE  /\ Busy(ac_call[o]) /\ ac_call'[o].run = ac_call[o].run
                        /\ ac_call'[o].at = "waits" => ac_call'[o] = ac_call[o]
                             \/ ac_call'[o].target = ac_sent + Len(Line)
      OBVIOUS
    <3>1. CASE o = s
      BY <2>2, <3>1 DEF Busy
    <3>2. CASE o # s
      BY <1>2, <3>2
    <3> QED BY <3>1, <3>2
  <2>10. BegunInv'
    BY <1>4, <2>2, <2>4, <2>9, BegunSame
  <2>11. PlaceInv'
    BY <1>4, <2>2, <2>4, <2>9, PlaceSame
  <2>12. CountInv'
    <3>1. \A o \in CardSteps : ac_call'[o].run = ac_call[o].run
      BY <1>2
    <3> QED BY <2>2, <3>1, CountSame
  <2>13. PreviewInv'
    <3>1. CASE ac_call'[s].at # "ran" /\ ac_previews' = ac_previews
      <4>1. \A o \in CardSteps : (ac_call'[o].at = "ran" <=> ac_call[o].at = "ran")
              /\ (ac_call[o].at = "ran" => ac_call'[o] = ac_call[o])
        BY <1>2, <3>1
      <4> QED BY <2>2, <3>1, <4>1, PreviewSame
    <3>2. CASE ac_call'[s].at = "ran" /\ ac_previews' = [ac_previews EXCEPT ![CardRawId(s)] = Append(@, TheCards!Me(s))]
      <4>1. ~ac_parallel => \A o \in CardSteps : ac_call[o].at # "ran" /\ (o # s => ac_call'[o].at # "ran")
        BY <1>2, <1>3 DEF Alone
      <4> QED BY <1>7, <2>2, <3>2, <4>1, PreviewMore
    <3> QED BY <3>1, <3>2
  <2> QED BY <2>4, <2>6, <2>7, <2>8, <2>10, <2>11, <2>12, <2>13 DEF Told
<1> QED BY <1>6, <1>8

LEMMA ApproverOK ==
  ASSUME CardsInv, NEW s \in CardSteps, TheCards!session_approver(s)
  PROVE  CardsInv'
<1>1. CallTypes /\ WrongInv /\ ac_call \in Calls /\ ac_call[s] \in [run : Nat, at : Points, target : Nat]
        /\ ac_recorded \in Nat
        /\ ac_call[s].at = "called"
  BY CallIs DEF CardsInv, TheCards!session_approver, CallTypes, Calls
<1>2. UNCHANGED <<ac_parallel, ac_turn, ac_phase, ac_cancelled, ac_events, ac_lost, TheCards!progress, ac_runs, ac_previews, ac_taking, ac_left, ac_client, ac_wrong>>
  BY DEF TheCards!session_approver, TheCards!shown
<1>3. TheCards!At(s, "refused") \/ TheCards!At(s, "runs")
        \/ ac_call' = [ac_call EXCEPT ![s].at = "waits", ![s].target = ac_recorded]
  BY DEF TheCards!session_approver
<1>4. Becomes(s, ac_call'[s]) /\ ac_call'[s].run = ac_call[s].run /\ ac_call'[s].at \in {"waits", "runs", "refused"}
        /\ (ac_call'[s].at = "waits" => ac_call'[s].target = ac_recorded)
  <2>1. CASE TheCards!At(s, "refused")
    BY <1>1, <2>1, AtIs DEF Points
  <2>2. CASE TheCards!At(s, "runs")
    BY <1>1, <2>2, AtIs DEF Points
  <2>3. CASE ac_call' = [ac_call EXCEPT ![s].at = "waits", ![s].target = ac_recorded]
    <3>1. PICK r : r = [ac_call[s] EXCEPT !.at = "waits"]
      OBVIOUS
    <3>2. r \in [run : Nat, at : Points, target : Nat] /\ r.at = "waits" /\ r.run = ac_call[s].run
      BY <1>1, <3>1 DEF Points
    <3>3. PICK q : q = [r EXCEPT !.target = ac_recorded]
      OBVIOUS
    <3>4. q \in [run : Nat, at : Points, target : Nat] /\ q.at = "waits" /\ q.run = ac_call[s].run
            /\ q.target = ac_recorded
      BY <1>1, <3>2, <3>3
    <3>5. ac_call' = [ac_call EXCEPT ![s] = q]
      BY <1>1, <2>3, <3>1, <3>3 DEF Calls
    <3>6. ac_call' \in Calls /\ ac_call'[s] = q /\ \A o \in CardSteps \ {s} : ac_call'[o] = ac_call[o]
      BY <1>1, <3>4, <3>5 DEF Calls
    <3> QED BY <3>4, <3>6 DEF Becomes
  <2> QED BY <1>3, <2>1, <2>2, <2>3
<1>5. CallTypes' /\ TurnInv' /\ (~ac_lost' /\ ~ac_left' => Told')
  BY <1>1, <1>2, <1>4, MovesOK
<1>6. WrongInv'
  BY <1>1, <1>2, WrongKeeps
<1> QED BY <1>5, <1>6 DEF CardsInv

LEMMA UnlessAbortedOK ==
  ASSUME CardsInv, NEW s \in CardSteps, TheCards!unless_aborted(s)
  PROVE  CardsInv'
<1>1. CallTypes /\ WrongInv /\ ac_call[s].at \in {"waits", "asks"} /\ TheCards!At(s, "refused")
  BY DEF CardsInv, TheCards!unless_aborted
<1>2. UNCHANGED <<ac_parallel, ac_turn, ac_phase, ac_cancelled, ac_events, ac_lost, TheCards!progress, ac_runs, ac_previews, ac_taking, ac_left, ac_client, ac_wrong>>
  BY DEF TheCards!unless_aborted, TheCards!shown
<1>3. Becomes(s, ac_call'[s]) /\ ac_call'[s].run = ac_call[s].run /\ ac_call'[s].at = "refused"
  BY <1>1, AtIs DEF Points
<1>4. CallTypes' /\ TurnInv' /\ (~ac_lost' /\ ~ac_left' => Told')
  BY <1>1, <1>2, <1>3, MovesOK
<1>5. WrongInv'
  BY <1>1, <1>2, WrongKeeps
<1> QED BY <1>4, <1>5 DEF CardsInv

LEMMA ExecutesOK ==
  ASSUME CardsInv, NEW s \in CardSteps, TheCards!Executes(s)
  PROVE  CardsInv'
<1>1. CallTypes /\ WrongInv /\ ac_call[s].at = "runs"
  BY DEF CardsInv, TheCards!Executes
<1>2. UNCHANGED <<ac_parallel, ac_turn, ac_phase, ac_cancelled, ac_events, ac_lost, TheCards!progress, ac_runs, ac_taking, ac_left, ac_client, ac_wrong>>
  BY DEF TheCards!Executes, TheCards!shown
<1>3. CASE TheCards!At(s, "ran") /\ ac_previews' = [ac_previews EXCEPT ![CardRawId(s)] = Append(@, TheCards!Me(s))]
  <2>1. Becomes(s, ac_call'[s]) /\ ac_call'[s].run = ac_call[s].run /\ ac_call'[s].at = "ran"
    BY <1>1, <1>3, AtIs DEF Points
  <2>2. CallTypes' /\ TurnInv' /\ (~ac_lost' /\ ~ac_left' => Told')
    BY <1>1, <1>2, <1>3, <2>1, MovesOK
  <2> QED BY <1>1, <1>2, <2>2, WrongKeeps DEF CardsInv
<1>4. CASE TheCards!At(s, "refused") /\ UNCHANGED ac_previews
  <2>1. Becomes(s, ac_call'[s]) /\ ac_call'[s].run = ac_call[s].run /\ ac_call'[s].at = "refused"
    BY <1>1, <1>4, AtIs DEF Points
  <2>2. CallTypes' /\ TurnInv' /\ (~ac_lost' /\ ~ac_left' => Told')
    BY <1>1, <1>2, <1>4, <2>1, MovesOK
  <2> QED BY <1>1, <1>2, <2>2, WrongKeeps DEF CardsInv
<1> QED BY <1>3, <1>4 DEF TheCards!Executes

(* What an approval that is asked points at. *)
LEMMA AsksOK ==
  ASSUME CardsInv, NEW s \in CardSteps, TheCards!Asks(s)
  PROVE  CardsInv'
<1>1. CallTypes /\ TurnInv /\ WrongInv /\ ac_call[s].at = "waits" /\ TheCards!At(s, "asks") /\ ~ac_cancelled
        /\ ac_sent >= ac_call[s].target
        /\ ac_wrong' = ac_wrong \union TheCards!MisplacedBy(s, ac_cards[CardRawId(s)])
  BY DEF CardsInv, TheCards!Asks, TheCards!caught_up
<1>2. UNCHANGED <<ac_parallel, ac_turn, ac_phase, ac_cancelled, ac_events, ac_lost, TheCards!progress, ac_runs, ac_previews, ac_taking, ac_left, ac_client>>
  BY DEF TheCards!Asks
<1>3. Becomes(s, ac_call'[s]) /\ ac_call'[s].run = ac_call[s].run /\ ac_call'[s].at = "asks"
  BY <1>1, AtIs DEF Points
<1>4. CallTypes' /\ TurnInv' /\ (~ac_lost' /\ ~ac_left' => Told')
  BY <1>1, <1>2, <1>3, MovesOK
<1>5. TheCards!MisplacedBy(s, ac_cards[CardRawId(s)]) \subseteq {"unknown", "other"}
  BY DEF TheCards!MisplacedBy
<1>6. ASSUME ~ac_lost PROVE ac_cards[CardRawId(s)] \in DOMAIN ac_client
               /\ (~ac_parallel => ac_client[ac_cards[CardRawId(s)]] = TheCards!Me(s))
  <2>1. ~ac_left
    BY <1>1 DEF TurnInv
  <2>2. /\ LineTypes /\ ClientInv /\ BegunInv /\ PlaceInv /\ HeldTypes /\ ac_sent \in Nat
    BY <1>1, <1>6, <2>1 DEF CardsInv, Told, LineTypes, CallTypes
  <2>3. PICK of \in Run : of = Mine(s, ac_call[s]) /\ of = TheCards!Me(s) /\ of[2] = s
    BY <1>1, CallIs
  <2>4. Busy(ac_call[s]) /\ ac_call[s].target \in Nat
    BY <1>1, CallIs DEF Busy
  <2>5. CardOf(of) \in DOMAIN ac_client
    <3> SUFFICES ASSUME CardOf(of) \notin DOMAIN ac_client PROVE FALSE
      OBVIOUS
    <3>1. PICK j \in DOMAIN Line : Opens(Line[j]) /\ Line[j].of = of
      BY <2>2, <2>3, <2>4, BegunAre
    <3>2. ac_sent + j <= ac_call[s].target
      BY <1>1, <2>2, <2>3, <2>4, <3>1, BegunAre
    <3>3. PICK n \in Nat : n = Len(Line) /\ DOMAIN Line = 1..n
      BY <2>2, LineIs
    <3>4. j \in Nat /\ j >= 1
      BY <3>1, <3>3
    <3> QED BY <1>1, <2>2, <2>4, <3>2, <3>4
  <2>6. CardOf(of)[4] = CardRawId(s) /\ Its(CardOf(of)) = of
    BY <2>3, RunIs
  <2>7. ac_cards[CardRawId(s)] \in DOMAIN ac_client /\ ac_client[CardOf(of)] = of
    BY <2>2, <2>5, <2>6 DEF ClientInv
  <2>8. ~ac_parallel => ac_cards[CardRawId(s)] = CardOf(of)
    BY <2>2, <2>3, <2>4, <2>5, PlaceAre
  <2> QED BY <2>3, <2>7, <2>8
<1>7. ~ac_lost => "unknown" \notin TheCards!MisplacedBy(s, ac_cards[CardRawId(s)])
  BY <1>6 DEF TheCards!MisplacedBy
<1>8. ~ac_lost /\ ~ac_parallel => TheCards!MisplacedBy(s, ac_cards[CardRawId(s)]) = {}
  BY <1>6 DEF TheCards!MisplacedBy
<1>9. WrongInv'
  BY <1>1, <1>2, <1>5, <1>7, <1>8 DEF WrongInv
<1> QED BY <1>4, <1>9 DEF CardsInv

(* An "always" never makes the session ask for more. *)
LEMMA AnswersOK ==
  ASSUME CardsInv, NEW s \in CardSteps, TheCards!Answers(s)
  PROVE  CardsInv'
<1>1. CallTypes /\ TurnInv /\ WrongInv /\ ac_call[s].at = "asks"
        /\ (TheCards!At(s, "runs") \/ TheCards!At(s, "refused"))
  BY DEF CardsInv, TheCards!Answers
<1>2. UNCHANGED <<ac_parallel, ac_turn, ac_phase, ac_cancelled, ac_events, ac_lost, TheCards!progress, ac_runs, ac_previews, ac_taking, ac_left, ac_client>>
  BY DEF TheCards!Answers
<1>3. Becomes(s, ac_call'[s]) /\ ac_call'[s].run = ac_call[s].run /\ ac_call'[s].at \in {"runs", "refused"}
  BY <1>1, AtIs DEF Points
<1>4. CallTypes' /\ TurnInv' /\ (~ac_lost' /\ ~ac_left' => Told')
  BY <1>1, <1>2, <1>3, MovesOK
<1>5. TheCards!Grant(s) => TheCards!Lowers = {}
  BY DEF TheCards!Grant, TheCards!Lowers, TheCards!asks_before
<1>6. ac_wrong' = ac_wrong
  BY <1>5 DEF TheCards!Answers
<1> QED BY <1>1, <1>2, <1>4, <1>6, WrongKeeps DEF CardsInv

(* In a sequence the oldest preview is of the result that is next. *)
LEMMA PreviewIsNext ==
  ASSUME PreviewInv, ~ac_parallel, ac_previews \in [TheCards!RawIds -> Seq(Run)], ac_events \in Seq(Event),
           ac_events # <<>>,
         NEW e \in Event, e = Head(ac_events), Closes(e), e.ok, ac_turn \in Nat,
           \A s \in CardSteps : ac_call[s].run \in Nat
  PROVE  Head(ac_previews[CardRawId(e.step)]) = e.of
<1>1. PICK raw \in TheCards!RawIds : raw = CardRawId(e.step)
  BY EventIs DEF TheCards!RawIds
<1>2. Shows(e, raw) /\ ac_previews[raw] \in Seq(Run) /\ ac_events[1] = e
  BY <1>1, Shortened DEF Shows
<1>3. CASE \A s \in CardSteps : ac_call[s].at # "ran"
  <2>1. Matches(ac_events, ac_previews[raw], raw)
    BY <1>3, PreviewAre
  <2> QED BY <1>1, <1>2, <2>1, MatchesLess
<1>4. ASSUME NEW s \in CardSteps, ac_call[s].at = "ran" PROVE Head(ac_previews[raw]) = e.of
  <2>1. PICK f : f = ResultIn(s, ac_call[s])
    OBVIOUS
  <2>2. f \in Event
    BY <2>1 DEF ResultIn, Event, Mine, Run
  <2>3. Append(ac_events, f) \in Seq(Event) /\ Append(ac_events, f) # <<>> /\ Append(ac_events, f)[1] = e
    <3>1. Len(ac_events) \in Nat /\ Len(ac_events) >= 1 /\ 1 \in 1..Len(ac_events)
      BY Shortened
    <3> QED BY <1>2, <2>2, <3>1, Appended
  <2>4. Matches(Append(ac_events, f), ac_previews[raw], raw)
    BY <1>4, <2>1, PreviewAre
  <2> QED BY <1>2, <2>3, <2>4, MatchesLess
<1> QED BY <1>1, <1>3, <1>4

(* What the consumer does with the next event. *)
LEMMA ForwardIs ==
  ASSUME TheCards!forward, NEW e, e = Head(ac_events)
  PROVE  /\ ac_phase # "over" /\ ac_taking = None /\ ~ac_left /\ ac_events # <<>>
         /\ UNCHANGED <<ac_parallel, ac_turn, ac_phase, ac_cancelled, ac_call, ac_lost, ac_recorded, ac_cards, ac_client, ac_mode, ac_granted>>
         /\ ac_runs' = Next1(e, ac_runs) /\ ac_previews' = Closed(e)
         /\ \/ ac_wrong' = ac_wrong
            \/ Closes(e) /\ e.ok /\ Head(ac_previews[CardRawId(e.step)]) # e.of
                 /\ ac_wrong' = ac_wrong \union {"preview"}
         /\ \/ e.kind = "span_start" /\ ac_sent' = ac_sent + 1 /\ ac_events' = Tail(ac_events)
              /\ ac_taking' = ac_taking /\ ac_left' = ac_left
            \/ e.kind # "span_start" /\ ac_cancelled /\ ac_left' = TRUE /\ ac_taking' = ac_taking
                 /\ ac_sent' = ac_sent
            \/ /\ e.kind # "span_start" /\ ~ac_cancelled /\ ac_left' = ac_left /\ ac_sent' = ac_sent
                 /\ ac_events' = Tail(ac_events)
               /\ ac_taking' = [event |-> e, card |-> TheCards!acp_tool_call_id(e.step)]
<1>1. /\ ac_phase # "over" /\ ac_taking = None /\ ~ac_left /\ ac_events # <<>>
      /\ UNCHANGED <<ac_parallel, ac_turn, ac_phase, ac_cancelled, ac_call, ac_lost, ac_recorded, ac_cards, ac_client, ac_mode, ac_granted>>
  BY DEF TheCards!forward
<1>2. TheCards!to_session_updates(e)
  BY DEF TheCards!forward
<1>3. \/ e.kind = "span_start" /\ ac_sent' = ac_sent + 1 /\ ac_events' = Tail(ac_events) /\ ac_taking' = ac_taking
           /\ ac_left' = ac_left
      \/ e.kind # "span_start" /\ ac_cancelled /\ ac_left' = TRUE /\ ac_taking' = ac_taking /\ ac_sent' = ac_sent
      \/ /\ e.kind # "span_start" /\ ~ac_cancelled /\ ac_left' = ac_left /\ ac_sent' = ac_sent
           /\ ac_events' = Tail(ac_events)
         /\ ac_taking' = [event |-> e, card |-> TheCards!acp_tool_call_id(e.step)]
  BY DEF TheCards!forward, TheCards!Sends
<1>4. ac_runs' = Next1(e, ac_runs)
  BY <1>2 DEF TheCards!to_session_updates, Next1
<1>5. TheCards!closing_updates(e)
  BY <1>2 DEF TheCards!to_session_updates
<1>6. CASE e.kind # "tool_result" \/ ~e.ok
  <2>1. ac_previews' = ac_previews /\ ac_wrong' = ac_wrong
    BY <1>5, <1>6 DEF TheCards!closing_updates
  <2>2. ac_previews' = Closed(e)
    BY <1>6, <2>1 DEF Closed, Closes
  <2> QED BY <1>1, <1>3, <1>4, <2>1, <2>2
<1>7. CASE ~(e.kind # "tool_result" \/ ~e.ok)
  <2>1. Closes(e) /\ e.ok
    BY <1>7 DEF Closes
  <2>2. /\ ac_previews' = [ac_previews EXCEPT ![CardRawId(e.step)] = IF @ = <<>> THEN @ ELSE Tail(@)]
        /\ ac_wrong' = ac_wrong \union (IF ac_previews[CardRawId(e.step)] # <<>> /\ Head(ac_previews[CardRawId(e.step)]) # e.of THEN {"preview"} ELSE {})
    BY <1>5, <1>7 DEF TheCards!closing_updates
  <2>3. ac_previews' = Closed(e)
    BY <2>1, <2>2 DEF Closed
  <2>4. \/ ac_wrong' = ac_wrong
        \/ Head(ac_previews[CardRawId(e.step)]) # e.of /\ ac_wrong' = ac_wrong \union {"preview"}
    BY <2>2
  <2> QED BY <1>1, <1>3, <1>4, <2>1, <2>3, <2>4
<1> QED BY <1>6, <1>7

LEMMA ForwardsOK ==
  ASSUME CardsAssumption, CardsInv, TheCards!forward
  PROVE  CardsInv'
<1>1. PICK e : e = Head(ac_events)
  OBVIOUS
<1>2. /\ ac_taking = None /\ ~ac_left /\ ac_events # <<>> /\ ac_phase # "over"
      /\ UNCHANGED <<ac_parallel, ac_turn, ac_phase, ac_cancelled, ac_call, ac_lost, ac_recorded, ac_cards, ac_client>>
      /\ ac_runs' = Next1(e, ac_runs) /\ ac_previews' = Closed(e)
  BY <1>1, ForwardIs
<1>3. \/ ac_wrong' = ac_wrong
      \/ Closes(e) /\ e.ok /\ Head(ac_previews[CardRawId(e.step)]) # e.of /\ ac_wrong' = ac_wrong \union {"preview"}
  BY <1>1, ForwardIs
<1>4. \/ e.kind = "span_start" /\ ac_sent' = ac_sent + 1 /\ ac_events' = Tail(ac_events) /\ ac_taking' = ac_taking
           /\ ac_left' = ac_left
      \/ e.kind # "span_start" /\ ac_cancelled /\ ac_left' = TRUE /\ ac_taking' = ac_taking /\ ac_sent' = ac_sent
      \/ /\ e.kind # "span_start" /\ ~ac_cancelled /\ ac_left' = ac_left /\ ac_sent' = ac_sent
           /\ ac_events' = Tail(ac_events)
         /\ ac_taking' = [event |-> e, card |-> TheCards!acp_tool_call_id(e.step)]
  BY <1>1, ForwardIs
<1>5. CallTypes /\ TurnInv /\ WrongInv
  BY DEF CardsInv
<1>6. CallTypes'
  <2>1. ac_sent' \in Nat
    BY <1>4, <1>5 DEF CallTypes
  <2> QED BY <1>2, <1>5, <2>1 DEF CallTypes
<1>7. TurnInv'
  <2>1. \A s \in CardSteps : AtWork(s)' <=> AtWork(s)
    BY <1>2 DEF AtWork
  <2>2. ac_left' => ac_cancelled' /\ ac_taking' = None
    BY <1>2, <1>4
  <2> QED BY <1>2, <1>5, <2>1, <2>2 DEF TurnInv
<1>8. ASSUME ~ac_lost
      PROVE  /\ Told /\ LineTypes /\ HeldTypes /\ ac_events \in Seq(Event) /\ e \in Event
               /\ ac_previews \in [TheCards!RawIds -> Seq(Run)]
             /\ ac_turn \in Nat /\ ac_sent \in Nat /\ ac_runs \in [CardSteps -> Nat]
                  /\ ac_recorded = ac_sent + Len(Line)
             /\ \A s \in CardSteps : ac_call[s].run \in Nat /\ ac_call[s].target \in Nat
  <2>1. Told
    BY <1>2, <1>8 DEF CardsInv
  <2>2. LineTypes /\ HeldTypes /\ ac_events \in Seq(Event)
    BY <2>1 DEF Told, LineTypes, HeldTypes, Held
  <2>3. e \in Event
    BY <1>1, <1>2, <2>2, Shortened
  <2>4. \A s \in CardSteps : ac_call[s].run \in Nat /\ ac_call[s].target \in Nat
    BY <1>5, CallIs
  <2> QED BY <1>5, <2>1, <2>2, <2>3, <2>4 DEF LineTypes, CallTypes
<1>9. WrongInv'
  <2>1. CASE ac_wrong' = ac_wrong
    BY <1>2, <1>5, <2>1, WrongKeeps
  <2>2. CASE Closes(e) /\ e.ok /\ Head(ac_previews[CardRawId(e.step)]) # e.of
               /\ ac_wrong' = ac_wrong \union {"preview"}
    <3>1. ac_lost \/ ac_parallel
      <4> SUFFICES ASSUME ~ac_lost, ~ac_parallel PROVE FALSE
        OBVIOUS
      <4>1. PreviewInv
        BY <1>8 DEF Told
      <4> QED BY <1>1, <1>2, <1>8, <2>2, <4>1, PreviewIsNext
    <3> QED BY <1>2, <1>5, <2>2, <3>1 DEF WrongInv
  <2> QED BY <1>3, <2>1, <2>2
<1>10. ASSUME ~ac_lost', ~ac_left' PROVE Told'
  <2>1. /\ Told /\ LineTypes /\ HeldTypes /\ ac_events \in Seq(Event) /\ e \in Event
             /\ ac_previews \in [TheCards!RawIds -> Seq(Run)]
        /\ ac_turn \in Nat /\ ac_sent \in Nat /\ ac_runs \in [CardSteps -> Nat] /\ ac_recorded = ac_sent + Len(Line)
        /\ \A s \in CardSteps : ac_call[s].run \in Nat /\ ac_call[s].target \in Nat
    BY <1>2, <1>8, <1>10
  <2>2. ac_events' = Tail(ac_events)
    BY <1>4, <1>10
  <2>3. ClientInv /\ OpensInv /\ ClosesInv /\ BegunInv /\ PlaceInv /\ CountInv /\ PreviewInv
    BY <2>1 DEF Told
  <2>4. PreviewInv' /\ ac_previews' \in [TheCards!RawIds -> Seq(Run)]
    BY <1>1, <1>2, <2>1, <2>2, <2>3, PreviewLess
  <2>5. ac_events[1] = e
    BY <1>1, <1>2, <2>1, Shortened
  <2>6. PICK path : CountsAlong(path, ac_events, ac_runs, [s \in CardSteps |-> ac_call[s].run])
    BY <2>3, CountAre
  <2>7. PICK last : last = [s \in CardSteps |-> ac_call[s].run]
    OBVIOUS
  <2>8. CountsAlong(path, ac_events, ac_runs, last)
    BY <2>6, <2>7
  <2>9. /\ \E all : CountsAlong(all, Tail(ac_events), Next1(e, ac_runs), last)
        /\ Next1(e, ac_runs) \in [CardSteps -> Nat]
        /\ e.kind # "span_start" => e.of = <<ac_turn, e.step, ac_runs[e.step]>>
    BY <1>2, <2>1, <2>5, <2>8, CountLess
  <2>10. CountInv'
    <3>1. last = [s \in CardSteps |-> ac_call'[s].run]
      BY <1>2, <2>7
    <3> QED BY <1>2, <2>2, <2>9, <3>1, CountNext
  <2>11. CallGrows
    BY <1>2, <1>5, SameCalls
  <2>12. ClientInv'
    BY <1>2, <2>3, <2>11, ClientSame
  <2>13. CASE e.kind = "span_start"
    <3>1. ac_sent' = ac_sent + 1 /\ ac_taking' = ac_taking
      BY <1>4, <2>13
    <3>2. HeldTypes' /\ Less /\ Line[1] = e
      BY <1>1, <1>2, <2>1, <2>2, <3>1, LineForwards
    <3>3. ~Opens(e)
      BY <2>13 DEF Opens
    <3>4. OpensInv'
      BY <1>2, <2>1, <2>3, <3>2, OpensLess
    <3>5. ClosesInv'
      BY <1>2, <2>1, <2>3, <3>2, <3>3, ClosesLess
    <3>6. BegunInv'
      BY <1>2, <2>1, <2>3, <3>1, <3>2, <3>3, BegunLess
    <3>7. PlaceInv'
      BY <1>2, <2>1, <2>3, <3>2, <3>3, PlaceLess
    <3>8. ac_recorded' = ac_sent' + Len(Line')
      <4>1. Len(Line) \in Nat /\ Len(Line') = Len(Line) - 1
        BY <2>1, <3>2, LineIs DEF Less
      <4> QED BY <1>2, <2>1, <3>1, <4>1
    <3>9. LineTypes'
      BY <1>2, <2>1, <2>4, <2>9, <3>2, <3>8 DEF LineTypes
    <3> QED BY <2>4, <2>10, <2>12, <3>4, <3>5, <3>6, <3>7, <3>9 DEF Told
  <2>14. CASE e.kind # "span_start"
    <3>1. ac_sent' = ac_sent /\ ac_taking' = [event |-> e, card |-> TheCards!acp_tool_call_id(e.step)]
      BY <1>4, <1>10, <2>14
    <3>2. e.of \in Run /\ e.step \in CardSteps
      BY <2>1, <2>14, EventIs
    <3>3. ac_runs' = ac_runs
      BY <1>2, <2>14 DEF Next1
    <3>4. TheCards!acp_tool_call_id(e.step) = CardOf(e.of)
      BY <2>9, <2>14 DEF TheCards!acp_tool_call_id, CardOf
    <3>5. PICK card \in Card : card = CardOf(e.of)
      BY <3>2, RunIs
    <3>6. ac_taking' = [event |-> e, card |-> card]
      BY <3>1, <3>4, <3>5
    <3>7. ac_taking' # None /\ ac_taking' \in [event : Event, card : Card] /\ ac_taking'.event = e
            /\ ac_taking'.card = card
      BY <2>1, <3>6, NoneIsNone
    <3>8. HeldTypes'
      <4>1. ac_events' \in Seq(Event)
        BY <1>2, <2>1, <2>2, Shortened
      <4> QED BY <2>14, <3>5, <3>7, <4>1 DEF HeldTypes, Held
    <3>9. Line' = Line
      BY <1>1, <1>2, <2>1, <2>2, <3>7, <3>8, LineHands
    <3>10. OpensInv'
      BY <1>2, <2>1, <2>3, <2>11, <3>9, OpensSame
    <3>11. ClosesInv'
      BY <1>2, <2>3, <3>9, ClosesAre, ClosesNext
    <3>12. BegunInv'
      BY <1>2, <2>1, <2>3, <3>1, <3>9, BegunSame
    <3>13. PlaceInv'
      BY <1>2, <2>3, <3>9, PlaceSame
    <3>14. LineTypes'
      BY <1>2, <2>1, <2>4, <3>1, <3>3, <3>8, <3>9 DEF LineTypes
    <3> QED BY <2>4, <2>10, <2>12, <3>10, <3>11, <3>12, <3>13, <3>14 DEF Told
  <2> QED BY <2>13, <2>14
<1> QED BY <1>6, <1>7, <1>9, <1>10 DEF CardsInv

LEMMA ClientTakesIs ==
  ASSUME TheCards!ClientTakes, NEW e, NEW card, e = ac_taking.event, card = ac_taking.card
  PROVE  /\ ac_taking # None /\ ac_taking' = None /\ ac_sent' = ac_sent + 1
         /\ UNCHANGED <<ac_parallel, ac_turn, ac_phase, ac_cancelled, ac_call, ac_events, ac_lost, ac_recorded, ac_runs, ac_previews, ac_left, ac_mode, ac_granted>>
         /\ \/ /\ Opens(e)
               /\ ac_cards' = [ac_cards EXCEPT ![card[4]] = card]
               /\ ac_wrong' = ac_wrong \union (IF card \in DOMAIN ac_client THEN {"reopened"} ELSE {})
               /\ ac_client' = [c \in DOMAIN ac_client \union {card} |-> IF c = card THEN e.of ELSE ac_client[c]]
            \/ /\ ~Opens(e) /\ ac_client' = ac_client /\ ac_cards' = ac_cards
               /\ ac_wrong' = ac_wrong \union (IF card \in DOMAIN ac_client /\ ac_client[card] = e.of THEN {} ELSE {"closes"})
  BY DEF TheCards!ClientTakes, TheCards!Known, Opens

LEMMA ClientTakesOK ==
  ASSUME CardsInv, TheCards!ClientTakes
  PROVE  CardsInv'
<1>1. PICK e, card : e = ac_taking.event /\ card = ac_taking.card
  OBVIOUS
<1>2. /\ ac_taking # None /\ ac_taking' = None /\ ac_sent' = ac_sent + 1
      /\ UNCHANGED <<ac_parallel, ac_turn, ac_phase, ac_cancelled, ac_call, ac_events, ac_lost, ac_recorded, ac_runs, ac_previews, ac_left>>
  BY <1>1, ClientTakesIs
<1>3. \/ /\ Opens(e)
         /\ ac_cards' = [ac_cards EXCEPT ![card[4]] = card]
         /\ ac_wrong' = ac_wrong \union (IF card \in DOMAIN ac_client THEN {"reopened"} ELSE {})
         /\ ac_client' = [c \in DOMAIN ac_client \union {card} |-> IF c = card THEN e.of ELSE ac_client[c]]
      \/ /\ ~Opens(e) /\ ac_client' = ac_client /\ ac_cards' = ac_cards
         /\ ac_wrong' = ac_wrong \union (IF card \in DOMAIN ac_client /\ ac_client[card] = e.of THEN {} ELSE {"closes"})
  BY <1>1, ClientTakesIs
<1>4. CallTypes /\ TurnInv /\ WrongInv /\ ~ac_left
  BY <1>2 DEF CardsInv, TurnInv
<1>5. CallTypes'
  BY <1>2, <1>4 DEF CallTypes
<1>6. TurnInv'
  <2>1. \A s \in CardSteps : AtWork(s)' <=> AtWork(s)
    BY <1>2 DEF AtWork
  <2> QED BY <1>2, <1>4, <2>1 DEF TurnInv
<1>7. CASE ac_lost
  <2>1. "lowered" \notin ac_wrong'
    BY <1>3, <1>4 DEF WrongInv
  <2>2. WrongInv'
    BY <1>2, <1>7, <2>1 DEF WrongInv
  <2> QED BY <1>2, <1>5, <1>6, <1>7, <2>2 DEF CardsInv
<1>8. CASE ~ac_lost
  <2>1. /\ Told /\ LineTypes /\ HeldTypes /\ ClientInv /\ OpensInv /\ ClosesInv /\ BegunInv /\ PlaceInv /\ CountInv
             /\ PreviewInv
    BY <1>4, <1>8 DEF CardsInv, Told, LineTypes
  <2>2. ac_turn \in Nat /\ ac_sent \in Nat /\ \A s \in CardSteps : ac_call[s].run \in Nat
          /\ ac_call[s].target \in Nat
    BY <1>4, CallIs DEF CallTypes
  <2>3. ac_taking \in [event : Event, card : Card] /\ e \in Event /\ e.kind # "span_start" /\ card = CardOf(e.of)
    BY <1>1, <1>2, <2>1 DEF HeldTypes, Held
  <2>4. PICK of \in Run : of = e.of
    BY <2>3, EventIs
  <2>5. /\ card = CardOf(of) /\ Its(card) = of /\ card[4] = CardRawId(of[2])
    BY <2>3, <2>4, RunIs
  <2>6. HeldTypes' /\ Less /\ Line[1] = e
    BY <1>1, <1>2, <2>1, LineTaken
  <2>7. PICK n \in Nat : n = Len(Line) /\ n >= 1 /\ DOMAIN Line = 1..n
    BY <2>1, <2>6, LessIs
  <2>8. OfTurn(e, ac_turn, ac_call) /\ (Opens(e) => OpensNew(e.of, ac_client, ac_call))
    BY <2>1, <2>3, <2>6, <2>7, OpensAre
  <2>9. /\ ac_wrong' = ac_wrong /\ ClientInv' /\ DOMAIN ac_cards' = TheCards!RawIds
             /\ DOMAIN ac_client \subseteq DOMAIN ac_client'
        /\ Opens(e) => card \in DOMAIN ac_client'
        /\ \A c \in DOMAIN ac_client' \ DOMAIN ac_client : Opens(e) /\ c = card
        /\ \/ ~Opens(e) /\ ac_client' = ac_client /\ ac_cards' = ac_cards
           \/ Opens(e) /\ (\A c \in DOMAIN ac_client' : c \in DOMAIN ac_client \/ c = card)
                /\ ac_cards'[CardRawId(of[2])] = card
    <3>1. CASE Opens(e)
      <4>1. /\ ac_cards' = [ac_cards EXCEPT ![CardOf(of)[4]] = CardOf(of)]
            /\ ac_client' = [c \in DOMAIN ac_client \union {CardOf(of)} |-> IF c = CardOf(of) THEN of ELSE ac_client[c]]
        BY <1>3, <2>4, <2>5, <3>1
      <4>2. card \notin DOMAIN ac_client /\ (of[3] = ac_call[of[2]].run => ac_call[of[2]].at # "span")
        BY <2>4, <2>5, <2>8, <3>1 DEF OpensNew
      <4>3. of[1] = ac_turn /\ of[3] <= ac_call[of[2]].run
        BY <2>4, <2>8 DEF OfTurn
      <4>4. DOMAIN ac_cards = TheCards!RawIds
        BY <2>1 DEF LineTypes
      <4>5. ClientInv' /\ DOMAIN ac_client' = DOMAIN ac_client \union {CardOf(of)}
              /\ DOMAIN ac_cards' = TheCards!RawIds
                       /\ ac_cards'[CardRawId(of[2])] = CardOf(of)
        BY <1>2, <2>1, <4>1, <4>2, <4>3, <4>4, ClientMore
      <4>6. ac_wrong' = ac_wrong
        BY <1>3, <3>1, <4>2
      <4> QED BY <2>5, <3>1, <4>5, <4>6
    <3>2. CASE ~Opens(e)
      <4>1. Closes(e)
        BY <2>3, <3>2, EventIs DEF Opens, Closes
      <4>2. CardOf(e.of) \in DOMAIN ac_client
        <5>1. CardOf(Line[1].of) \in DOMAIN ac_client \/ \E k \in DOMAIN Line : k < 1
          BY <2>1, <2>6, <2>7, <4>1, ClosesAre
        <5> QED BY <2>6, <2>7, <5>1
      <4>3. card \in DOMAIN ac_client /\ ac_client[card] = e.of
        BY <2>1, <2>3, <2>4, <2>5, <4>2 DEF ClientInv
      <4>4. ac_wrong' = ac_wrong /\ ac_client' = ac_client /\ ac_cards' = ac_cards
        BY <1>3, <3>2, <4>3
      <4>5. CallGrows
        BY <1>2, <1>4, SameCalls
      <4>6. ClientInv'
        BY <1>2, <2>1, <4>4, <4>5, ClientSame
      <4> QED BY <2>1, <3>2, <4>4, <4>6 DEF LineTypes
    <3> QED BY <3>1, <3>2
  <2>10. OpensInv'
    BY <1>2, <2>1, <2>3, <2>6, <2>9, OpensLess
  <2>11. ClosesInv'
    BY <1>2, <2>1, <2>3, <2>6, <2>9, ClosesLess
  <2>12. BegunInv'
    BY <1>2, <2>1, <2>2, <2>3, <2>6, <2>9, BegunLess
  <2>13. PlaceInv'
    BY <1>2, <2>1, <2>2, <2>3, <2>4, <2>6, <2>9, PlaceLess
  <2>14. CountInv'
    BY <1>2, <2>1, CountSame
  <2>15. PreviewInv'
    BY <1>2, <2>1, PreviewSame
  <2>16. LineTypes'
    <3>1. Len(Line) \in Nat /\ Len(Line') = Len(Line) - 1 /\ ac_recorded = ac_sent + Len(Line)
      BY <2>1, <2>6, LineIs DEF Less, LineTypes
    <3>2. ac_recorded' = ac_sent' + Len(Line')
      BY <1>2, <2>2, <3>1
    <3> QED BY <1>2, <2>1, <2>6, <2>9, <3>2 DEF LineTypes
  <2>17. WrongInv'
    BY <1>2, <1>4, <2>9, WrongKeeps
  <2> QED BY <1>5, <1>6, <2>9, <2>10, <2>11, <2>12, <2>13, <2>14, <2>15, <2>16, <2>17 DEF CardsInv, Told
<1> QED BY <1>7, <1>8

----------------------------------------------------------------------------
(* A turn begins with nothing in line, nothing drawn and nothing left.     *)
Begins ==
  /\ ac_parallel \in BOOLEAN /\ ac_lost = FALSE /\ ac_turn \in Nat /\ ac_phase = "on"
       /\ ac_call = TheCards!Fresh.call /\ ac_recorded = 0 /\ ac_sent = 0
  /\ ac_taking = None /\ ac_left = FALSE /\ ac_events = <<>> /\ ac_runs = TheCards!Fresh.runs
       /\ ac_previews = TheCards!Fresh.previews
  /\ ac_cards = TheCards!Fresh.cards /\ ac_client = <<>> /\ ac_wrong = {}

LEMMA BeginsOK == Begins => CardsInv
<1> SUFFICES ASSUME Begins PROVE CardsInv
  OBVIOUS
<1> USE DEF Begins
<1>1. \A s \in CardSteps : ac_call[s] = TheCards!Idle /\ ac_runs[s] = 0 /\ ac_call[s].run = 0
        /\ ac_call[s].at = "idle"
  BY DEF TheCards!Fresh, TheCards!Idle
<1>2. /\ ac_call \in [CardSteps -> [run : Nat, at : {"idle", "done", "span", "called", "waits", "asks", "runs", "ran", "refused"},
                             target : Nat]]
      /\ ac_runs \in [CardSteps -> Nat] /\ ac_previews \in [TheCards!RawIds -> Seq(Run)]
           /\ DOMAIN ac_cards = TheCards!RawIds
      /\ \A r \in TheCards!RawIds : ac_previews[r] = <<>>
  BY DEF TheCards!Fresh, TheCards!Idle
<1>3. CallTypes
  BY <1>2 DEF CallTypes
<1>4. TurnInv
  BY <1>1 DEF TurnInv, AtWork
<1>5. HeldTypes /\ Line = <<>>
  BY DEF HeldTypes, Held, Line, InLine
<1>6. Len(Line) = 0 /\ DOMAIN Line = {} /\ DOMAIN ac_client = {}
  BY <1>5
<1>7. LineTypes
  BY <1>2, <1>5, <1>6 DEF LineTypes
<1>8. ClientInv /\ OpensInv /\ ClosesInv
  BY <1>6 DEF ClientInv, OpensInv, ClosesInv
<1>9. BegunInv /\ PlaceInv
  BY <1>1 DEF BegunInv, PlaceInv, Opened, AtWork
<1>10. CountInv
  <2>1. PICK path : path = [j \in 0..0 |-> ac_runs]
    OBVIOUS
  <2>2. ac_runs = [s \in CardSteps |-> ac_call[s].run]
    BY <1>1, <1>2
  <2>3. CountsAlong(path, ac_events, ac_runs, [s \in CardSteps |-> ac_call[s].run])
    BY <1>2, <2>1, <2>2 DEF CountsAlong
  <2> QED BY <2>3, CountAre
<1>11. PreviewInv
  <2>1. ASSUME NEW r \in TheCards!RawIds PROVE Matches(ac_events, ac_previews[r], r)
    <3>1. ac_previews[r] = <<>> /\ ac_events = <<>>
      BY <1>2
    <3>2. PICK pos : pos = <<>>
      OBVIOUS
    <3>3. Places(pos, <<>>, <<>>, r)
      BY <3>2 DEF Places
    <3> QED BY <3>1, <3>3 DEF Matches
  <2>2. \A s \in CardSteps : ac_call[s].at # "ran"
    BY <1>1
  <2> QED BY <2>1, <2>2, PreviewAre
<1>12. WrongInv
  BY DEF WrongInv
<1> QED BY <1>3, <1>4, <1>7, <1>8, <1>9, <1>10, <1>11, <1>12 DEF CardsInv, Told

LEMMA BeginsNextOK ==
  ASSUME CardsInv, TheCards!NextTurn
  PROVE  Begins'
BY DEF CardsInv, CallTypes, TurnInv, TheCards!NextTurn, TheCards!reset_previews, Begins

(* What neither the run nor the consumer does. *)
LEMMA StillsOK ==
  ASSUME CardsInv, UNCHANGED <<ac_parallel, ac_turn, ac_call, ac_events, ac_lost, TheCards!progress, ac_runs, ac_previews, ac_taking, ac_left, TheCards!shown>>,
         ac_cancelled => ac_cancelled', ac_phase' = "over" => ac_taking = None
  PROVE  CardsInv'
<1>1. UNCHANGED <<ac_recorded, ac_sent, ac_cards, ac_client, ac_wrong>>
  BY DEF TheCards!progress, TheCards!shown
<1>2. CallTypes /\ TurnInv /\ WrongInv
  BY DEF CardsInv
<1>3. CallTypes'
  BY <1>1, <1>2 DEF CallTypes
<1>4. TurnInv'
  <2>1. \A s \in CardSteps : AtWork(s)' <=> AtWork(s)
    BY DEF AtWork
  <2> QED BY <1>2, <2>1 DEF TurnInv
<1>5. WrongInv'
  BY <1>1, <1>2, WrongKeeps
<1>6. ASSUME ~ac_lost', ~ac_left' PROVE Told'
  <2>1. /\ LineTypes /\ HeldTypes /\ ClientInv /\ OpensInv /\ ClosesInv /\ BegunInv /\ PlaceInv /\ CountInv
             /\ PreviewInv
    BY <1>6 DEF CardsInv, Told, LineTypes
  <2>2. Line' = Line /\ HeldTypes'
    BY <2>1 DEF Line, InLine, HeldTypes, Held
  <2>3. LineTypes'
    BY <1>1, <2>1, <2>2 DEF LineTypes
  <2>4. CallGrows
    BY <1>2, SameCalls
  <2>5. ac_sent \in Nat
    BY <1>2 DEF CallTypes
  <2>6. ClientInv'
    BY <1>1, <2>1, <2>4, ClientSame
  <2>7. OpensInv'
    BY <1>1, <2>1, <2>2, <2>4, OpensSame
  <2>8. ClosesInv'
    BY <1>1, <2>1, <2>2, ClosesAre, ClosesNext
  <2>9. BegunInv'
    BY <1>1, <2>1, <2>2, <2>5, BegunSame
  <2>10. PlaceInv'
    BY <1>1, <2>1, <2>2, PlaceSame
  <2>11. CountInv'
    BY <2>1, CountSame
  <2>12. PreviewInv'
    BY <2>1, PreviewSame
  <2> QED BY <2>3, <2>6, <2>7, <2>8, <2>9, <2>10, <2>11, <2>12 DEF Told
<1> QED BY <1>3, <1>4, <1>5, <1>6 DEF CardsInv

ASSUME CardsFit == CardsAssumption

(* The client of a session is shown what is so (src/acp): unless an event  *)
(* was lost, a request points at a card that is drawn, a card opens once   *)
(* and is closed by its own call, and in a sequence it shows its own       *)
(* change; and no "always" makes a session ask for more.  For any steps,   *)
(* raw ids and bounds.                                                     *)
THEOREM CardsAreShownTruly == TheCards!Spec => []CardsAreTrue
<1>1. TheCards!Init => CardsInv
  <2>1. TheCards!Init => Begins
    BY DEF TheCards!Init, Begins
  <2> QED BY <2>1, BeginsOK
<1>2. Begins' => CardsInv'
  BY BeginsOK, PTL
<1>3. CardsInv /\ [TheCards!Next]_(TheCards!vars) => CardsInv'
  <2> SUFFICES ASSUME CardsInv, [TheCards!Next]_(TheCards!vars) PROVE CardsInv'
    OBVIOUS
  <2>1. ASSUME NEW s \in CardSteps, TheCards!Step(s) PROVE CardsInv'
    BY <2>1, SpanStartsOK, ToolCallStartsOK, ApproverOK, AsksOK, UnlessAbortedOK, AnswersOK, ExecutesOK,
         ResultIsRecordedOK
       DEF TheCards!Step
  <2>2. CASE TheCards!forward
    BY <2>2, CardsFit, ForwardsOK
  <2>3. CASE TheCards!ClientTakes
    BY <2>3, ClientTakesOK
  <2>4. CASE TheCards!NextTurn
    BY <1>2, <2>4, BeginsNextOK
  <2>5. CASE TheCards!RunSettles
    BY <2>5, StillsOK DEF TheCards!RunSettles
  <2>6. CASE TheCards!TurnEnds
    BY <2>6, StillsOK DEF TheCards!TurnEnds
  <2>7. CASE TheCards!Cancels
    BY <2>7, StillsOK DEF TheCards!Cancels
  <2>8. CASE TheCards!SetsMode
    <3>1. ac_phase' = ac_phase /\ (ac_phase = "over" => ac_taking = None)
      BY <2>8 DEF TheCards!SetsMode, CardsInv, TurnInv
    <3> QED BY <2>8, <3>1, StillsOK DEF TheCards!SetsMode
  <2>9. CASE UNCHANGED TheCards!vars
    <3>1. ac_phase = "over" => ac_taking = None
      BY DEF CardsInv, TurnInv
    <3> QED BY <2>9, <3>1, StillsOK DEF TheCards!vars
  <2> QED BY <2>1, <2>2, <2>3, <2>4, <2>5, <2>6, <2>7, <2>8, <2>9 DEF TheCards!Next
<1>4. CardsInv => CardsAreTrue
  BY DEF CardsInv, WrongInv, CardsAreTrue, TheCards!CardsAreTrue
<1> QED BY <1>1, <1>3, <1>4, PTL DEF TheCards!Spec

----------------------------------------------------------------------------
(* Rounds: the composites that go in rounds.                               *)

CONSTANTS RoundMembers, RoundPlayers, RoundScores, RoundBound, RoundPatience, RoundLessons, NaN
VARIABLES rd_kind, rd_phase, rd_round, rd_state, rd_result, rd_log

TheRounds == INSTANCE Rounds WITH
  kind <- rd_kind, phase <- rd_phase, round <- rd_round, state <- rd_state, result <- rd_result,
  log <- rd_log, Members <- RoundMembers, Players <- RoundPlayers, MaxScore <- RoundScores,
  MaxRounds <- RoundBound, Patience <- RoundPatience, Capacity <- RoundLessons, NaN <- NaN,
  None <- None

(* Every round keeps the best there was, and the result says how it ended. *)
RoundsAreTold == TheRounds!RoundsAreTold

LEMMA RoundSizes == ASSUME NEW S PROVE TheRounds!Cardinality(S) = Cardinality(S)
BY DEF TheRounds!Cardinality, Cardinality, TheRounds!IsFiniteSet, IsFiniteSet

(* Some member, each of them with its number; NaN is no number. *)
RoundsAssumption ==
  /\ RoundMembers \in SUBSET Nat /\ RoundMembers # {}
  /\ RoundPlayers \in Nat /\ RoundScores \in Nat /\ RoundBound \in Nat /\ RoundPatience \in Nat
       /\ RoundLessons \in Nat
  /\ NaN \notin Nat

(* The rounds of improve, and which of them were accepted. *)
Winner == [score : Nat, accepted : BOOLEAN, reason : BOOLEAN]
Outcome == [member : Nat, winner : Winner, accepted : BOOLEAN]
Verdicts == {"none", "plateau", "budget"}
Improving == [parent : Nat \X Nat, parent_score : Nat, idle : Nat, history : Seq(Outcome), lessons : Seq(Nat), stopped : Verdicts]

Taken(h) == {r \in DOMAIN h : h[r].accepted}
Failed(h) == {r \in DOMAIN h : ~h[r].accepted /\ h[r].winner.reason}

(* Each that was accepted beat all before it, and the rest of its round. *)
Best(h, scores, best) ==
  \A r \in Taken(h) :
    /\ h[r].winner.accepted /\ h[r].winner.score <= best
    /\ \A n \in scores[r] : h[r].winner.score >= n
    /\ \A q \in Taken(h) : q < r => h[q].winner.score < h[r].winner.score

(* The last of them is the parent, and the rounds since then are counted. *)
Parent(h, n, idle, parent, score) ==
  /\ idle <= n
  /\ \A r \in n - idle + 1..n : ~h[r].accepted
  /\ idle = n => parent = TheRounds!Content(0, 0)
  /\ idle < n => /\ h[n - idle].accepted /\ parent = TheRounds!Content(n - idle, h[n - idle].member)
                 /\ score = h[n - idle].winner.score

(* The lessons are the last of the rounds that gave one, in order. *)
Lessons(failed, lessons, n) ==
  /\ n <= RoundLessons
  /\ \A i, j \in 1..n : i < j => lessons[i] < lessons[j]
  /\ \A i \in 1..n : lessons[i] \in failed
  /\ \A r \in failed : (\E i \in 1..n : lessons[i] = r) \/ (n = RoundLessons /\ \A i \in 1..n : r < lessons[i])

With(S, r, gives) == IF gives THEN S \union {r} ELSE S

(* A lesson more, and the last of them that the capacity keeps. *)
Noted(q, r, gives) == IF gives /\ RoundLessons > 0 THEN Append(q, r) ELSE q
LastOf(q) == SubSeq(q, IF Len(q) > RoundLessons THEN Len(q) - RoundLessons + 1 ELSE 1, Len(q))
Improves(s, w) == w.accepted /\ w.score > s.parent_score
Gives(s, w) == ~Improves(s, w) /\ w.reason
OutcomeOf(s, m, w) == [member |-> m, winner |-> w, accepted |-> Improves(s, w)]
Grown(n, h, o, g) == DOMAIN h = 1..n /\ DOMAIN g = 1..n + 1 /\ g[n + 1] = o /\ \A r \in 1..n : g[r] = h[r]

ImproveInv ==
  /\ rd_state \in Improving /\ Len(rd_state.history) = rd_round /\ rd_round <= RoundBound
  /\ rd_log \in Seq(SUBSET Nat) /\ Len(rd_log) = rd_round
  /\ Best(rd_state.history, rd_log, rd_state.parent_score)
       /\ Parent(rd_state.history, rd_round, rd_state.idle, rd_state.parent, rd_state.parent_score)
            /\ Lessons(Failed(rd_state.history), rd_state.lessons, Len(rd_state.lessons))
  /\ rd_phase \in {"body", "guard", "over"}
  /\ rd_phase = "over" =>
       rd_result = [best |-> rd_state.parent, score |-> rd_state.parent_score, rounds |-> rd_round,
                 stopped_by |-> IF rd_state.idle >= RoundPatience THEN "plateau" ELSE "budget"]

AdversarialInv ==
  /\ rd_state \in [candidate : Nat, notes : Nat] /\ rd_state.candidate = rd_round
  /\ rd_log \in Seq([prior : Nat, critique : Nat]) /\ Len(rd_log) = rd_round
  /\ \A r \in 1..rd_round : rd_log[r] = [prior |-> r - 1, critique |-> r - 1]
  /\ rd_phase \in {"body", "guard", "over"}
  /\ rd_phase = "body" => rd_state.notes = rd_round
  /\ rd_phase = "over" =>
       \E accept \in BOOLEAN :
         /\ rd_result = [candidate |-> rd_round, converged |-> accept, rounds |-> rd_round]
         /\ ~accept => rd_round = RoundBound

(* Every round of consensus but the last has two that differ. *)
Agree(results) == \A m, n \in RoundMembers : results[m] = results[n]

ConsensusInv ==
  /\ rd_log \in Seq([RoundMembers -> 0..1]) /\ Len(rd_log) = rd_round
  /\ \A r \in 1..rd_round - 1 : ~Agree(rd_log[r])
  /\ rd_phase \in {"body", "guard", "over"}
  /\ rd_phase = "body" => \A r \in 1..rd_round : ~Agree(rd_log[r])
  /\ rd_phase = "guard" => rd_round >= 1 /\ rd_state = [results |-> rd_log[rd_round]]
  /\ rd_phase = "over" => rd_round >= 1
       /\ rd_result = [results |-> rd_log[rd_round], converged |-> Agree(rd_log[rd_round])]

(* Who is still in the tournament, and the matches that a player lost. *)
In(m, q) == \E i \in DOMAIN q : q[i] = m
Once(q) == \A i, j \in DOMAIN q : q[i] = q[j] => i = j
Played(bracket, m) == {i \in DOMAIN bracket : m \in {bracket[i].a, bracket[i].b}}
Lost(bracket, m) == {i \in Played(bracket, m) : bracket[i].winner # m}
Bouts == Seq([round : Nat, a : Nat, b : Nat, winner : Nat])
Playing == [current : Seq(Nat), next : Seq(Nat), bracket : Bouts]

TournamentInv ==
  /\ rd_state \in Playing
  /\ Once(rd_state.current) /\ Once(rd_state.next)
  /\ \A m \in Nat : ~(In(m, rd_state.current) /\ In(m, rd_state.next))
  /\ \A m \in 1..RoundPlayers :
       IF In(m, rd_state.current) \/ In(m, rd_state.next) THEN Lost(rd_state.bracket, m) = {}
       ELSE \E i \in Nat : Lost(rd_state.bracket, m) = {i} /\ i \in Played(rd_state.bracket, m)
                           /\ \A j \in Played(rd_state.bracket, m) : j <= i
  /\ rd_phase \in {"body", "over"}
  /\ rd_phase = "over" => \A m \in Nat : (In(m, rd_state.current) \/ In(m, rd_state.next)) <=> m = rd_result

RoundsInv ==
  /\ rd_kind \in TheRounds!Kinds /\ rd_round \in Nat
  /\ rd_phase # "threw" => /\ rd_kind = "improve" => ImproveInv
                           /\ rd_kind = "adversarial" => AdversarialInv
                           /\ rd_kind = "consensus" => ConsensusInv
                           /\ rd_kind = "tournament" => TournamentInv

LEMMA OneMore ==
  ASSUME NEW S, NEW q \in Seq(S), NEW e \in S
  PROVE  /\ Append(q, e) \in Seq(S) /\ Len(Append(q, e)) = Len(q) + 1 /\ DOMAIN Append(q, e) = 1..Len(q) + 1
         /\ Append(q, e)[Len(q) + 1] = e /\ \A j \in 1..Len(q) : Append(q, e)[j] = q[j]
         /\ DOMAIN q = 1..Len(q) /\ Len(q) \in Nat
OBVIOUS

(* The candidate that wins a round beats all that have a score. *)
LEMMA BestOfIs ==
  ASSUME RoundsAssumption, NEW scored \in [RoundMembers -> TheRounds!Scored], TheRounds!Ranked(scored) # {}
  PROVE  /\ TheRounds!BestOf(scored) \in RoundMembers /\ scored[TheRounds!BestOf(scored)] \in Winner
         /\ {scored[m].score : m \in TheRounds!Ranked(scored)} \in SUBSET Nat
         /\ \A x \in {scored[m].score : m \in TheRounds!Ranked(scored)} : scored[TheRounds!BestOf(scored)].score >= x
<1>1. RoundMembers \in SUBSET Nat /\ RoundScores \in Nat /\ NaN \notin Nat
  BY DEF RoundsAssumption
<1>2. ASSUME NEW m \in TheRounds!Ranked(scored)
      PROVE  m \in RoundMembers /\ m \in Nat /\ scored[m] \in Winner /\ scored[m].score \in 0..RoundScores
  <2>1. m \in RoundMembers /\ scored[m] \in TheRounds!Scored /\ scored[m].score # NaN
    BY <1>2 DEF TheRounds!Ranked
  <2>2. scored[m].score \in 0..RoundScores
          /\ scored[m] = [score |-> scored[m].score, accepted |-> scored[m].accepted, reason |-> scored[m].reason]
        /\ scored[m].accepted \in BOOLEAN /\ scored[m].reason \in BOOLEAN
    BY <2>1 DEF TheRounds!Scored, TheRounds!Scores
  <2> QED BY <1>1, <2>1, <2>2 DEF Winner
<1>3. PICK S : S = {RoundScores - scored[m].score : m \in TheRounds!Ranked(scored)}
  OBVIOUS
<1>4. S \in SUBSET Nat /\ S # {}
  BY <1>1, <1>2, <1>3
<1>5. PICK k \in S : \A x \in S : k <= x
  BY <1>4, NatMin
<1>6. PICK T : T = {m \in TheRounds!Ranked(scored) : RoundScores - scored[m].score = k}
  OBVIOUS
<1>7. T \in SUBSET Nat /\ T # {}
  BY <1>2, <1>3, <1>5, <1>6
<1>8. PICK b \in T : \A x \in T : b <= x
  BY <1>7, NatMin
<1>9. b \in TheRounds!Ranked(scored)
  BY <1>6
<1>10. ASSUME NEW n \in TheRounds!Ranked(scored)
       PROVE  scored[b].score > scored[n].score \/ (scored[b].score = scored[n].score /\ b <= n)
  <2>1. scored[b].score \in Nat /\ scored[n].score \in Nat /\ k = RoundScores - scored[b].score
          /\ k <= RoundScores - scored[n].score
    BY <1>2, <1>3, <1>5, <1>6, <1>9, <1>10
  <2>2. scored[b].score = scored[n].score => n \in T
    BY <1>6, <2>1
  <2> QED BY <1>1, <1>8, <2>1, <2>2
<1>11. PICK w : w = TheRounds!BestOf(scored)
  OBVIOUS
<1>12. /\ w \in TheRounds!Ranked(scored)
       /\ \A n \in TheRounds!Ranked(scored) : scored[w].score > scored[n].score
            \/ (scored[w].score = scored[n].score /\ w <= n)
  BY <1>9, <1>10, <1>11 DEF TheRounds!BestOf
<1>13. \A n \in TheRounds!Ranked(scored) : scored[w].score >= scored[n].score
  BY <1>2, <1>12
<1> QED BY <1>2, <1>11, <1>12, <1>13

----------------------------------------------------------------------------
(* A round more, and what it adds to those that were accepted or failed. *)
LEMMA GrowsOutcome ==
  ASSUME NEW h \in Seq(Outcome), NEW o \in Outcome, NEW n \in Nat, n = Len(h), NEW g, g = Append(h, o)
  PROVE  g \in Seq(Outcome) /\ Len(g) = n + 1 /\ Grown(n, h, o, g)
BY OneMore DEF Grown

LEMMA GrowsScores ==
  ASSUME NEW h \in Seq(SUBSET Nat), NEW o \in SUBSET Nat, NEW n \in Nat, n = Len(h), NEW g, g = Append(h, o)
  PROVE  g \in Seq(SUBSET Nat) /\ Len(g) = n + 1 /\ Grown(n, h, o, g)
BY OneMore DEF Grown

LEMMA TakenMore ==
  ASSUME NEW n \in Nat, NEW h, NEW o, NEW g, Grown(n, h, o, g)
  PROVE  \A r : r \in Taken(g) <=> r \in Taken(h) \/ (o.accepted /\ r = n + 1)
<1>1. 1..n + 1 = 1..n \union {n + 1} /\ n + 1 \notin 1..n
  OBVIOUS
<1> QED BY <1>1 DEF Taken, Grown

LEMMA FailedMore ==
  ASSUME NEW n \in Nat, NEW h, NEW o, NEW g, Grown(n, h, o, g)
  PROVE  \A r : r \in Failed(g) <=> r \in Failed(h) \/ (~o.accepted /\ o.winner.reason /\ r = n + 1)
<1>1. 1..n + 1 = 1..n \union {n + 1} /\ n + 1 \notin 1..n
  OBVIOUS
<1> QED BY <1>1 DEF Failed, Grown

(* A lesson more, with room for it and without. *)
LEMMA LessonsGrow ==
  ASSUME RoundsAssumption, NEW n \in Nat, NEW F \in SUBSET (1..n), NEW L \in Nat, NEW q, NEW t, Lessons(F, q, L),
           L < RoundLessons,
         \A i \in 1..L : t[i] = q[i], t[L + 1] = n + 1
  PROVE  Lessons(F \union {n + 1}, t, L + 1)
<1>1. RoundLessons \in Nat
  BY DEF RoundsAssumption
<1>2. \A i \in 1..L : q[i] \in F /\ q[i] \in 1..n
  BY DEF Lessons
<1>3. \A i \in 1..L + 1 : i \in 1..L \/ i = L + 1
  OBVIOUS
<1>4. \A i, j \in 1..L + 1 : i < j => t[i] < t[j]
  <2> SUFFICES ASSUME NEW i \in 1..L + 1, NEW j \in 1..L + 1, i < j PROVE t[i] < t[j]
    OBVIOUS
  <2>1. i \in 1..L /\ t[i] = q[i] /\ q[i] \in 1..n
    BY <1>2
  <2>2. CASE j \in 1..L
    BY <2>1, <2>2 DEF Lessons
  <2>3. CASE j = L + 1
    BY <2>1, <2>3
  <2> QED BY <1>3, <2>2, <2>3
<1>5. \A i \in 1..L + 1 : t[i] \in F \union {n + 1}
  BY <1>2, <1>3
<1>6. \A r \in F \union {n + 1} : \E i \in 1..L + 1 : t[i] = r
  <2> SUFFICES ASSUME NEW r \in F \union {n + 1} PROVE \E i \in 1..L + 1 : t[i] = r
    OBVIOUS
  <2>1. CASE r = n + 1
    <3>1. L + 1 \in 1..L + 1
      OBVIOUS
    <3> QED BY <2>1, <3>1
  <2>2. CASE r \in F
    <3>1. PICK i \in 1..L : q[i] = r
      BY <1>1, <2>2 DEF Lessons
    <3>2. i \in 1..L + 1
      OBVIOUS
    <3> QED BY <3>1, <3>2
  <2> QED BY <2>1, <2>2
<1>7. L + 1 <= RoundLessons
  BY <1>1
<1> QED BY <1>4, <1>5, <1>6, <1>7 DEF Lessons

LEMMA LessonsShift ==
  ASSUME RoundsAssumption, NEW n \in Nat, NEW F \in SUBSET (1..n), NEW L \in Nat, NEW q, NEW t, Lessons(F, q, L),
           L = RoundLessons, L > 0,
         \A i \in 1..L - 1 : t[i] = q[i + 1], t[L] = n + 1
  PROVE  Lessons(F \union {n + 1}, t, L)
<1>2. \A i \in 1..L : q[i] \in F /\ q[i] \in 1..n
  BY DEF Lessons
<1>3. \A i \in 1..L : (i \in 1..L - 1 /\ i + 1 \in 1..L) \/ i = L
  OBVIOUS
<1>4. \A i, j \in 1..L : i < j => t[i] < t[j]
  <2> SUFFICES ASSUME NEW i \in 1..L, NEW j \in 1..L, i < j PROVE t[i] < t[j]
    OBVIOUS
  <2>1. i \in 1..L - 1 /\ i + 1 \in 1..L /\ t[i] = q[i + 1] /\ q[i + 1] \in 1..n
    BY <1>2
  <2>2. CASE j \in 1..L - 1
    <3>1. j + 1 \in 1..L /\ t[j] = q[j + 1] /\ i + 1 < j + 1
      BY <2>2
    <3>2. \A k, m \in 1..L : k < m => q[k] < q[m]
      BY DEF Lessons
    <3> QED BY <2>1, <3>1, <3>2
  <2>3. CASE j = L
    BY <2>1, <2>3
  <2> QED BY <1>3, <2>2, <2>3
<1>5. \A i \in 1..L : t[i] \in F \union {n + 1}
  BY <1>2, <1>3
<1>6. ASSUME NEW r \in F \union {n + 1} PROVE (\E i \in 1..L : t[i] = r) \/ (\A i \in 1..L : r < t[i])
  <2>1. CASE r = n + 1
    <3>1. L \in 1..L
      OBVIOUS
    <3> QED BY <2>1, <3>1
  <2>2. ASSUME NEW i \in 1..L, q[i] = r, i # 1 PROVE \E k \in 1..L : t[k] = r
    <3>1. i - 1 \in 1..L - 1 /\ i - 1 \in 1..L /\ i - 1 + 1 = i
      BY <2>2
    <3>2. t[i - 1] = q[i - 1 + 1]
      BY <3>1
    <3>3. t[i - 1] = r
      BY <2>2, <3>1, <3>2
    <3> QED BY <3>1, <3>3
  <2>3. ASSUME r \in F, \A i \in 2..L : r < q[i], NEW i \in 1..L PROVE r < t[i]
    <3>1. CASE i \in 1..L - 1
      <4>1. i + 1 \in 2..L /\ t[i] = q[i + 1]
        BY <3>1
      <4> QED BY <2>3, <4>1
    <3>2. CASE i = L
      <4>1. r < n + 1
        BY <2>3
      <4> QED BY <3>2, <4>1
    <3> QED BY <1>3, <3>1, <3>2
  <2>4. ASSUME r \in F, r = q[1] PROVE \A i \in 2..L : r < q[i]
    <3>1. \A k, m \in 1..L : k < m => q[k] < q[m]
      BY DEF Lessons
    <3>2. \A i \in 2..L : 1 \in 1..L /\ i \in 1..L /\ 1 < i
      OBVIOUS
    <3> QED BY <2>4, <3>1, <3>2
  <2>5. CASE r \in F
    <3>1. (\E i \in 1..L : q[i] = r) \/ (\A i \in 1..L : r < q[i])
      BY <2>5 DEF Lessons
    <3>2. CASE \A i \in 1..L : r < q[i]
      <4>1. \A i \in 2..L : r < q[i]
        BY <3>2
      <4> QED BY <2>3, <2>5, <4>1
    <3>3. CASE \E i \in 1..L : q[i] = r
      <4>1. PICK i \in 1..L : q[i] = r
        BY <3>3
      <4>2. CASE i = 1
        BY <2>3, <2>4, <2>5, <4>1, <4>2
      <4>3. CASE i # 1
        BY <2>2, <4>1, <4>3
      <4> QED BY <4>2, <4>3
    <3> QED BY <3>1, <3>2, <3>3
  <2> QED BY <2>1, <2>5
<1>7. L <= RoundLessons
  BY DEF Lessons
<1> QED BY <1>4, <1>5, <1>6, <1>7 DEF Lessons

LEMMA AllOfIt ==
  ASSUME NEW q \in Seq(Nat), NEW n, n = Len(q)
  PROVE  SubSeq(q, 1, n) = q
<1>1. n \in Nat /\ \A i \in 1..n : q[i] \in Nat
  OBVIOUS
<1>2. /\ SubSeq(q, 1, n) \in Seq(Nat) /\ Len(SubSeq(q, 1, n)) = (IF 1 <= n THEN n - 1 + 1 ELSE 0)
      /\ \A i \in 1..n - 1 + 1 : SubSeq(q, 1, n)[i] = q[1 + i - 1]
  BY <1>1, SubSeqProperties
<1>3. PICK t : t = SubSeq(q, 1, n)
  OBVIOUS
<1>4. t \in Seq(Nat) /\ Len(t) = n
  BY <1>1, <1>2, <1>3
<1>5. \A i \in 1..n : t[i] = q[i]
  BY <1>1, <1>2, <1>3
<1> QED BY <1>3, <1>4, <1>5, SeqEqual

(* Where what is kept begins. *)
LEMMA KeptFrom ==
  ASSUME NEW more, NEW n, n = Len(more), NEW kept, kept = LastOf(more)
  PROVE  /\ ~(n > RoundLessons) => kept = SubSeq(more, 1, n)
         /\ n > RoundLessons => kept = SubSeq(more, n - RoundLessons + 1, n)
BY DEF LastOf

LEMMA KeptButOne ==
  ASSUME RoundsAssumption, NEW more, NEW n, n = Len(more), n = RoundLessons + 1, NEW kept, kept = LastOf(more)
  PROVE  kept = SubSeq(more, 2, n)
<1>1. n > RoundLessons /\ n - RoundLessons + 1 = 2
  BY DEF RoundsAssumption
<1>2. kept = SubSeq(more, n - RoundLessons + 1, n)
  BY <1>1, KeptFrom
<1> QED BY <1>1, <1>2, Zenon

LEMMA NoteMore ==
  ASSUME NEW q \in Seq(Nat), NEW n \in Nat, NEW L, L = Len(q), NEW t, t = Append(q, n + 1)
  PROVE  t \in Seq(Nat) /\ Len(t) = L + 1 /\ t[L + 1] = n + 1 /\ \A i \in 1..L : t[i] = q[i]
OBVIOUS

LEMMA AllButTheFirst ==
  ASSUME NEW more, NEW L \in Nat, L >= 1, \A i \in 2..L + 1 : more[i] \in Nat, NEW kept,
           kept = SubSeq(more, 2, L + 1)
  PROVE  kept \in Seq(Nat) /\ Len(kept) = L /\ \A i \in 1..L : kept[i] = more[i + 1]
<1>1. /\ kept \in Seq(Nat) /\ Len(kept) = (IF 2 <= L + 1 THEN L + 1 - 2 + 1 ELSE 0)
      /\ \A i \in 1..L + 1 - 2 + 1 : kept[i] = more[2 + i - 1]
  BY SubSeqProperties
<1>2. \A i \in 1..L : i \in 1..L + 1 - 2 + 1 /\ 2 + i - 1 = i + 1
  OBVIOUS
<1>3. Len(kept) = L
  BY <1>1
<1> QED BY <1>1, <1>2, <1>3

LEMMA LessonsMore ==
  ASSUME RoundsAssumption, NEW n \in Nat, NEW F \in SUBSET (1..n), NEW lessons \in Seq(Nat),
           Lessons(F, lessons, Len(lessons)),
         NEW gives \in BOOLEAN, NEW more, more = Noted(lessons, n + 1, gives),
         NEW kept, kept = LastOf(more)
  PROVE  kept \in Seq(Nat) /\ Lessons(With(F, n + 1, gives), kept, Len(kept))
<1>2. PICK L \in Nat : L = Len(lessons)
  OBVIOUS
<1>3. RoundLessons \in Nat /\ L <= RoundLessons
  BY <1>2 DEF RoundsAssumption, Lessons
<1>4. CASE ~(gives /\ RoundLessons > 0)
  <2>1. more = lessons
    BY <1>4 DEF Noted
  <2>2. kept = SubSeq(lessons, 1, L)
    <3>1. ~(L > RoundLessons)
      BY <1>2, <1>3
    <3> QED BY <1>2, <2>1, <3>1, KeptFrom
  <2>3. kept = lessons
    BY <1>2, <2>2, AllOfIt
  <2>4. CASE ~gives
    BY <2>3, <2>4 DEF With
  <2>5. CASE RoundLessons = 0
    <3>1. L = 0
      BY <1>3, <2>5
    <3>2. \A G : Lessons(G, lessons, L)
      <4>1. 1..L = {}
        BY <3>1
      <4> QED BY <2>5, <3>1, <4>1 DEF Lessons
    <3> QED BY <1>2, <2>3, <3>2
  <2>6. RoundLessons = 0 \/ ~gives
    BY <1>3, <1>4
  <2> QED BY <2>4, <2>5, <2>6
<1>5. CASE gives /\ RoundLessons > 0
  <2>1. more = Append(lessons, n + 1)
    BY <1>5 DEF Noted
  <2>3. more \in Seq(Nat) /\ Len(more) = L + 1 /\ more[L + 1] = n + 1 /\ \A i \in 1..L : more[i] = lessons[i]
    BY <1>2, <2>1, NoteMore, SMTT(20)
  <2>4. CASE L < RoundLessons
    <3>1. kept = SubSeq(more, 1, L + 1)
      <4>1. ~(L + 1 > RoundLessons)
        BY <1>2, <1>3, <2>4
      <4> QED BY <2>3, <4>1, KeptFrom
    <3>2. kept = more
      BY <2>3, <3>1, AllOfIt
    <3>3. Lessons(F \union {n + 1}, more, L + 1)
      BY <1>2, <2>3, <2>4, LessonsGrow
    <3> QED BY <1>5, <2>3, <3>2, <3>3 DEF With
  <2>5. CASE L = RoundLessons
    <3>1. kept = SubSeq(more, 2, L + 1)
      <4>1. L + 1 = RoundLessons + 1
        BY <1>3, <2>5
      <4>2. L + 1 = Len(more)
        BY <2>3
      <4> QED BY <4>1, <4>2, KeptButOne, Zenon
    <3>2. \A i \in 2..L + 1 : more[i] \in Nat
      BY <1>2, <2>3, SMTT(20)
    <3>3. L >= 1
      BY <1>3, <1>5, <2>5
    <3>4. kept \in Seq(Nat) /\ Len(kept) = L /\ \A i \in 1..L : kept[i] = more[i + 1]
      BY <1>2, <3>1, <3>2, <3>3, AllButTheFirst, Zenon
    <3>8. kept[L] = n + 1 /\ \A i \in 1..L - 1 : kept[i] = lessons[i + 1]
      <4>1. L \in 1..L /\ \A i \in 1..L - 1 : i \in 1..L /\ i + 1 \in 1..L
        BY <1>2, <3>3
      <4>2. kept[L] = n + 1
        BY <2>3, <3>4, <4>1, Zenon
      <4>3. ASSUME NEW i \in 1..L - 1 PROVE kept[i] = lessons[i + 1]
        <5>1. kept[i] = more[i + 1] /\ more[i + 1] = lessons[i + 1]
          BY <2>3, <3>4, <4>1, Zenon
        <5> QED BY <5>1, Zenon
      <4> QED BY <4>2, <4>3, Zenon
    <3>9. Lessons(F \union {n + 1}, kept, L)
      <4>1. Lessons(F, lessons, L) /\ L > 0
        BY <1>2, <3>3
      <4> QED BY <1>2, <2>5, <3>8, <4>1, LessonsShift, Zenon
    <3> QED BY <1>5, <3>4, <3>9 DEF With
  <2>6. L < RoundLessons \/ L = RoundLessons
    BY <1>2, <1>3
  <2> QED BY <2>4, <2>5, <2>6
<1> QED BY <1>4, <1>5

(* The lessons are those rounds that have fewer than Capacity after them. *)
LEMMA LessonsAre ==
  ASSUME RoundsAssumption, NEW h \in Seq(Outcome), NEW lessons \in Seq(Nat),
           Lessons(Failed(h), lessons, Len(lessons))
  PROVE  {lessons[i] : i \in DOMAIN lessons} = {r \in Failed(h) : Cardinality({q \in Failed(h) : q > r}) < RoundLessons}
<1>1. PICK L \in Nat : L = Len(lessons) /\ DOMAIN lessons = 1..L
  OBVIOUS
<1>2. RoundLessons \in Nat /\ L <= RoundLessons
  BY <1>1 DEF RoundsAssumption, Lessons
<1>3. PICK n \in Nat : DOMAIN h = 1..n
  BY OneMore
<1>4. PICK F : F = Failed(h)
  OBVIOUS
<1>5. F \in SUBSET (1..n) /\ IsFiniteSet(F)
  <2>1. F \in SUBSET (1..n)
    BY <1>3, <1>4 DEF Failed
  <2>2. IsFiniteSet(1..n)
    BY FS_Interval
  <2> QED BY <2>1, <2>2, FS_Subset
<1>6. \A i \in 1..L : lessons[i] \in F /\ lessons[i] \in Nat
  BY <1>1, <1>4 DEF Lessons
<1>7. \A i, j \in 1..L : i < j => lessons[i] < lessons[j]
  BY <1>1 DEF Lessons
<1>8. \A r \in F : (\E i \in 1..L : lessons[i] = r) \/ (L = RoundLessons /\ \A i \in 1..L : r < lessons[i])
  BY <1>1, <1>4 DEF Lessons
<1>9. ASSUME NEW k \in 0..L
      PROVE  IsFiniteSet({lessons[j] : j \in k + 1..L}) /\ Cardinality({lessons[j] : j \in k + 1..L}) = L - k
  <2>1. PICK S : S = k + 1..L
    OBVIOUS
  <2>2. PICK T : T = {lessons[j] : j \in S}
    OBVIOUS
  <2>3. S \subseteq 1..L
    BY <1>1, <2>1
  <2>4. IsFiniteSet(S) /\ Cardinality(S) = L - k
    <3>1. k + 1 \in Int /\ L \in Int /\ (k + 1 > L => L - k = 0) /\ L - (k + 1) + 1 = L - k
      BY <1>1
    <3> QED BY <2>1, <3>1, FS_Interval
  <2>5. PICK f : f = [j \in S |-> lessons[j]]
    OBVIOUS
  <2>6. \A i, j \in S : f[i] = f[j] => i = j
    <3> SUFFICES ASSUME NEW i \in S, NEW j \in S, i # j PROVE f[i] # f[j]
      OBVIOUS
    <3>1. i \in 1..L /\ j \in 1..L /\ (i < j \/ j < i)
      BY <1>1, <2>3
    <3>2. lessons[i] # lessons[j]
      BY <1>6, <1>7, <3>1
    <3> QED BY <2>5, <3>2
  <2>7. f \in Bijection(S, T)
    <3>1. f \in [S -> T] /\ \A t \in T : \E j \in S : f[j] = t
      BY <2>2, <2>5
    <3> QED BY <2>6, <3>1 DEF Bijection, Injection, Surjection, IsInjective
  <2>8. ExistsBijection(S, T)
    BY <2>7 DEF ExistsBijection
  <2> QED BY <2>1, <2>2, <2>4, <2>8, FS_Bijection
<1>10. ASSUME NEW i \in 1..L PROVE Cardinality({q \in F : q > lessons[i]}) < RoundLessons
  <2>1. {q \in F : q > lessons[i]} \subseteq {lessons[j] : j \in i + 1..L}
    <3> SUFFICES ASSUME NEW q \in F, q > lessons[i] PROVE \E j \in i + 1..L : lessons[j] = q
      OBVIOUS
    <3>1. q \in Nat /\ lessons[i] \in Nat
      BY <1>5, <1>6
    <3>2. PICK j \in 1..L : lessons[j] = q
      BY <1>8, <3>1
    <3>3. ~(j <= i)
      BY <1>1, <1>7, <3>1, <3>2
    <3>4. j \in i + 1..L
      BY <1>1, <3>3
    <3> QED BY <3>2, <3>4
  <2>2. i \in 0..L
    BY <1>1
  <2>3. IsFiniteSet({lessons[j] : j \in i + 1..L}) /\ Cardinality({lessons[j] : j \in i + 1..L}) = L - i
    BY <1>9, <2>2
  <2>4. PICK T : T = {q \in F : q > lessons[i]}
    OBVIOUS
  <2>5. Cardinality(T) <= L - i /\ Cardinality(T) \in Nat
    BY <2>1, <2>3, <2>4, FS_Subset, FS_CardinalityType
  <2>6. Cardinality(T) < RoundLessons
    BY <1>1, <1>2, <2>5
  <2> QED BY <2>4, <2>6
<1>11. ASSUME NEW r \in F, \A i \in 1..L : lessons[i] # r PROVE ~(Cardinality({q \in F : q > r}) < RoundLessons)
  <2>1. L = RoundLessons /\ \A i \in 1..L : r < lessons[i]
    BY <1>8, <1>11
  <2>2. PICK S : S = {lessons[j] : j \in 0 + 1..L}
    OBVIOUS
  <2>3. IsFiniteSet(S) /\ Cardinality(S) = L
    <3>1. 0 \in 0..L /\ L - 0 = L
      BY <1>1
    <3> QED BY <1>9, <2>2, <3>1
  <2>4. PICK T : T = {q \in F : q > r}
    OBVIOUS
  <2>5. S \subseteq T
    <3> SUFFICES ASSUME NEW j \in 1..L PROVE lessons[j] \in F /\ lessons[j] > r
      BY <2>2, <2>4
    <3>1. r \in Nat
      BY <1>5
    <3> QED BY <1>6, <2>1, <3>1
  <2>6. IsFiniteSet(T)
    BY <1>5, <2>4, FS_Subset
  <2>7. Cardinality(S) <= Cardinality(T) /\ Cardinality(T) \in Nat
    BY <2>5, <2>6, FS_Subset, FS_CardinalityType
  <2> QED BY <1>2, <2>1, <2>3, <2>4, <2>7
<1>12. {lessons[i] : i \in 1..L} = {r \in F : Cardinality({q \in F : q > r}) < RoundLessons}
  BY <1>6, <1>10, <1>11
<1> QED BY <1>1, <1>4, <1>12

----------------------------------------------------------------------------
(* A round of improve. *)
LEMMA BestMore ==
  ASSUME NEW n \in Nat, NEW h, \A r \in 1..n : h[r] \in Outcome, NEW o \in Outcome, NEW g, Grown(n, h, o, g),
         NEW scores, NEW all, NEW X \in SUBSET Nat, Grown(n, scores, X, all),
         NEW best \in Nat, NEW next \in Nat, best <= next, Best(h, scores, best),
         o.accepted => o.winner.accepted /\ o.winner.score = next /\ best < next, \A x \in X : o.winner.score >= x
  PROVE  Best(g, all, next)
<1>0. /\ \A r \in 1..n : g[r] = h[r] /\ all[r] = scores[r]
      /\ g[n + 1] = o /\ all[n + 1] = X /\ Taken(h) \subseteq 1..n
      /\ \A r : r \in Taken(g) <=> r \in Taken(h) \/ (o.accepted /\ r = n + 1)
  <2>1. \A r : r \in Taken(g) <=> r \in Taken(h) \/ (o.accepted /\ r = n + 1)
    BY TakenMore
  <2> QED BY <2>1 DEF Grown, Taken
<1>1. ASSUME NEW r \in Taken(h)
      PROVE  /\ r \in 1..n /\ g[r] = h[r] /\ all[r] = scores[r] /\ h[r].winner.score \in Nat
             /\ h[r].winner.accepted /\ h[r].winner.score <= best
             /\ \A x \in scores[r] : h[r].winner.score >= x
             /\ \A q \in Taken(h) : q < r => h[q].winner.score < h[r].winner.score
  <2>1. r \in 1..n /\ h[r] \in Outcome
    BY <1>0
  <2>2. h[r].winner.score \in Nat
    BY <2>1 DEF Outcome, Winner
  <2> QED BY <1>0, <2>1, <2>2 DEF Best
<1>2. ASSUME NEW r \in Taken(h)
      PROVE  /\ g[r].winner.accepted /\ g[r].winner.score <= next
             /\ \A x \in all[r] : g[r].winner.score >= x
             /\ \A q \in Taken(g) : q < r => g[q].winner.score < g[r].winner.score
  <2>1. g[r].winner.accepted /\ g[r].winner.score <= next
    BY <1>1
  <2>2. \A x \in all[r] : g[r].winner.score >= x
    BY <1>1
  <2>3. ASSUME NEW q \in Taken(g), q < r PROVE g[q].winner.score < g[r].winner.score
    <3>1. q \in Taken(h)
      BY <1>0, <1>1, <2>3
    <3> QED BY <1>0, <1>1, <2>3, <3>1
  <2> QED BY <2>1, <2>2, <2>3
<1>3. ASSUME o.accepted
      PROVE  /\ g[n + 1].winner.accepted /\ g[n + 1].winner.score <= next
             /\ \A x \in all[n + 1] : g[n + 1].winner.score >= x
             /\ \A q \in Taken(g) : q < n + 1 => g[q].winner.score < g[n + 1].winner.score
  <2>1. ASSUME NEW q \in Taken(g), q < n + 1 PROVE g[q].winner.score < next
    <3>1. q \in Taken(h)
      BY <1>0, <2>1
    <3> QED BY <1>1, <1>3, <3>1
  <2>2. g[n + 1].winner.accepted /\ g[n + 1].winner.score = next /\ all[n + 1] = X
    BY <1>0, <1>3
  <2>3. \A x \in all[n + 1] : g[n + 1].winner.score >= x
    BY <1>0, Zenon
  <2>4. \A q \in Taken(g) : q < n + 1 => g[q].winner.score < g[n + 1].winner.score
    BY <2>1, <2>2
  <2>5. g[n + 1].winner.score <= next
    BY <2>2
  <2> QED BY <2>2, <2>3, <2>4, <2>5
<1> QED BY <1>0, <1>2, <1>3 DEF Best

LEMMA ParentMore ==
  ASSUME NEW n \in Nat, NEW h, NEW o, NEW g, Grown(n, h, o, g), NEW k, k = n + 1,
         NEW idle \in Nat, NEW parent, NEW score, Parent(h, n, idle, parent, score),
         NEW later \in Nat, NEW child, NEW best,
         o.accepted => later = 0 /\ child = TheRounds!Content(n + 1, o.member) /\ best = o.winner.score,
         ~o.accepted => later = idle + 1 /\ child = parent /\ best = score
  PROVE  Parent(g, k, later, child, best)
<1>0. (\A r \in 1..n : g[r] = h[r]) /\ g[n + 1] = o
  BY DEF Grown
<1>1. /\ idle <= n /\ (\A r \in n - idle + 1..n : ~h[r].accepted)
      /\ idle = n => parent = TheRounds!Content(0, 0)
      /\ idle < n => /\ h[n - idle].accepted /\ parent = TheRounds!Content(n - idle, h[n - idle].member)
                     /\ score = h[n - idle].winner.score
  BY DEF Parent
<1>2. CASE o.accepted
  <2>1. later = 0 /\ n + 1 - 0 = n + 1 /\ n + 1 + 1..n + 1 = {} /\ 0 <= n + 1 /\ 0 # n + 1
    BY <1>2
  <2> QED BY <1>0, <1>2, <2>1 DEF Parent
<1>3. CASE ~o.accepted
  <2>1. later = idle + 1 /\ child = parent /\ best = score
    BY <1>3
  <2>2. later <= n + 1 /\ (n + 1) - later = n - idle
    BY <1>1, <2>1
  <2>3. ASSUME NEW r \in n - idle + 1..n + 1 PROVE ~g[r].accepted
    <3>1. CASE r = n + 1
      BY <1>0, <1>3, <3>1
    <3>2. CASE r # n + 1
      <4>1. r \in n - idle + 1..n /\ r \in 1..n
        BY <1>1, <3>2
      <4> QED BY <1>0, <1>1, <4>1
    <3> QED BY <3>1, <3>2
  <2>4. later = n + 1 => idle = n
    BY <2>1
  <2>5. ASSUME later < n + 1
        PROVE  /\ g[n - idle].accepted /\ child = TheRounds!Content(n - idle, g[n - idle].member)
               /\ best = g[n - idle].winner.score
    <3>1. idle < n /\ n - idle \in 1..n
      BY <2>1, <2>5
    <3>2. g[n - idle] = h[n - idle]
      BY <1>0, <3>1
    <3> QED BY <1>1, <2>1, <3>1, <3>2
  <2> QED BY <1>1, <2>1, <2>2, <2>3, <2>4, <2>5 DEF Parent
<1> QED BY <1>2, <1>3

LEMMA MergeIs ==
  ASSUME NEW s \in Improving, NEW r \in Nat, NEW m \in Nat, NEW w \in Winner, NEW t,
           t = TheRounds!merge_outcome(s, r, m, w)
  PROVE  /\ Improves(s, w) => t.parent = TheRounds!Content(r, m) /\ t.parent_score = w.score /\ t.idle = 0
         /\ ~Improves(s, w) => t.parent = s.parent /\ t.parent_score = s.parent_score /\ t.idle = s.idle + 1
         /\ t.history = Append(s.history, OutcomeOf(s, m, w))
              /\ t.lessons = LastOf(Noted(s.lessons, r, Gives(s, w)))
         /\ t.stopped = s.stopped
         /\ t.parent \in Nat \X Nat /\ t.parent_score \in Nat /\ t.idle \in Nat
         /\ t.history \in Seq(Outcome) /\ t.lessons \in Seq(Nat) => t \in Improving
<1>1. s = [parent |-> s.parent, parent_score |-> s.parent_score, idle |-> s.idle, history |-> s.history,
           lessons |-> s.lessons, stopped |-> s.stopped]
  BY DEF Improving
<1>2. t = [s EXCEPT !.parent = IF Improves(s, w) THEN TheRounds!Content(r, m) ELSE @,
                    !.parent_score = IF Improves(s, w) THEN w.score ELSE @,
                    !.idle = IF Improves(s, w) THEN 0 ELSE @ + 1,
                    !.history = Append(@, OutcomeOf(s, m, w)),
                    !.lessons = LastOf(Noted(s.lessons, r, Gives(s, w)))]
  BY DEF TheRounds!merge_outcome, Improves, Gives, OutcomeOf, Noted, LastOf
<1>3. PICK p, x, e, g, kept : /\ p = (IF Improves(s, w) THEN TheRounds!Content(r, m) ELSE s.parent)
                              /\ x = (IF Improves(s, w) THEN w.score ELSE s.parent_score)
                              /\ e = (IF Improves(s, w) THEN 0 ELSE s.idle + 1)
                              /\ g = Append(s.history, OutcomeOf(s, m, w))
                                   /\ kept = LastOf(Noted(s.lessons, r, Gives(s, w)))
  OBVIOUS
<1>4. t = [parent |-> p, parent_score |-> x, idle |-> e, history |-> g, lessons |-> kept, stopped |-> s.stopped]
  BY <1>1, <1>2, <1>3
<1>5. t.parent = p /\ t.parent_score = x /\ t.idle = e /\ t.history = g /\ t.lessons = kept /\ t.stopped = s.stopped
  BY <1>4
<1>6. p \in Nat \X Nat /\ x \in Nat /\ e \in Nat /\ s.stopped \in Verdicts
  <2>1. /\ s.parent \in Nat \X Nat /\ s.parent_score \in Nat /\ s.idle \in Nat /\ s.stopped \in Verdicts
             /\ w.score \in Nat
        /\ TheRounds!Content(r, m) \in Nat \X Nat
    BY DEF Improving, Winner, TheRounds!Content
  <2> QED BY <1>3, <2>1
<1>7. g \in Seq(Outcome) /\ kept \in Seq(Nat) => t \in Improving
  BY <1>4, <1>6 DEF Improving
<1> QED BY <1>3, <1>5, <1>6, <1>7

LEMMA MergeHistory ==
  ASSUME NEW s \in Improving, NEW r \in Nat, NEW m \in Nat, NEW w \in Winner, NEW t,
           t = TheRounds!merge_outcome(s, r, m, w)
  PROVE  t.history = Append(s.history, OutcomeOf(s, m, w))
BY MergeIs

LEMMA MergeNotes ==
  ASSUME NEW s \in Improving, NEW r \in Nat, NEW m \in Nat, NEW w \in Winner,
         NEW t, t = TheRounds!merge_outcome(s, r, m, w)
  PROVE  t.lessons = LastOf(Noted(s.lessons, r, Gives(s, w)))
BY MergeIs, SMTT(20)

LEMMA MergeImproves ==
  ASSUME NEW s \in Improving, NEW r \in Nat, NEW m \in Nat, NEW w \in Winner, NEW t,
           t = TheRounds!merge_outcome(s, r, m, w)
  PROVE  /\ Improves(s, w) => t.parent = TheRounds!Content(r, m) /\ t.parent_score = w.score /\ t.idle = 0
         /\ ~Improves(s, w) => t.parent = s.parent /\ t.parent_score = s.parent_score /\ t.idle = s.idle + 1
         /\ s.idle \in Nat /\ t.idle \in Nat
<1>1. Improves(s, w) => t.parent = TheRounds!Content(r, m) /\ t.parent_score = w.score /\ t.idle = 0
  <2>1. Improves(s, w) => t.parent = TheRounds!Content(r, m)
    BY MergeIs
  <2>2. Improves(s, w) => t.parent_score = w.score
    BY MergeIs
  <2>3. Improves(s, w) => t.idle = 0
    BY MergeIs
  <2> QED BY <2>1, <2>2, <2>3
<1>2. ~Improves(s, w) => t.parent = s.parent /\ t.parent_score = s.parent_score /\ t.idle = s.idle + 1
  BY MergeIs
<1>3. t.idle \in Nat
  BY MergeIs
<1>4. s.idle \in Nat
  BY DEF Improving
<1> QED BY <1>1, <1>2, <1>3, <1>4

LEMMA OutcomeIs ==
  ASSUME NEW s \in Improving, NEW m \in Nat, NEW w \in Winner, NEW o, o = OutcomeOf(s, m, w)
  PROVE  /\ o \in Outcome /\ (o.accepted <=> Improves(s, w)) /\ o.winner = w /\ o.member = m
         /\ ((~o.accepted /\ o.winner.reason) <=> Gives(s, w))
<1>1. Improves(s, w) \in BOOLEAN
  BY DEF Improves
<1> QED BY <1>1 DEF OutcomeOf, Outcome, Gives

LEMMA MergeGrows ==
  ASSUME NEW s \in Improving, NEW n \in Nat, n = Len(s.history), NEW m \in Nat, NEW w \in Winner,
         NEW t, t = TheRounds!merge_outcome(s, n + 1, m, w)
  PROVE  t.history \in Seq(Outcome) /\ Len(t.history) = n + 1 /\ Grown(n, s.history, OutcomeOf(s, m, w), t.history)
<1>1. n + 1 \in Nat
  OBVIOUS
<1>2. t.history = Append(s.history, OutcomeOf(s, m, w))
  BY <1>1, MergeHistory
<1>3. OutcomeOf(s, m, w) \in Outcome
  BY OutcomeIs
<1>4. s.history \in Seq(Outcome)
  BY DEF Improving
<1> QED BY <1>2, <1>3, <1>4, GrowsOutcome, SMTT(20)

LEMMA MergeLessons ==
  ASSUME RoundsAssumption, NEW s \in Improving, NEW n \in Nat, n = Len(s.history), NEW m \in Nat, NEW w \in Winner,
         NEW t, t = TheRounds!merge_outcome(s, n + 1, m, w), Lessons(Failed(s.history), s.lessons, Len(s.lessons))
  PROVE  t \in Improving /\ Lessons(Failed(t.history), t.lessons, Len(t.lessons))
<1>1. n + 1 \in Nat
  OBVIOUS
<1>2. PICK o : o = OutcomeOf(s, m, w)
  OBVIOUS
<1>3. Grown(n, s.history, o, t.history)
  BY <1>2, MergeGrows
<1>4. \A r : r \in Failed(t.history) <=> r \in Failed(s.history) \/ (~o.accepted /\ o.winner.reason /\ r = n + 1)
  BY <1>3, FailedMore
<1>5. (~o.accepted /\ o.winner.reason) <=> Gives(s, w)
  BY <1>2, OutcomeIs
<1>6. PICK F \in SUBSET (1..n) : F = Failed(s.history)
  BY <1>3 DEF Failed, Grown
<1>7. PICK gives \in BOOLEAN : gives = Gives(s, w)
  BY DEF Gives
<1>8. Failed(t.history) = With(F, n + 1, gives)
  BY <1>4, <1>5, <1>6, <1>7 DEF With
<1>9. PICK lessons \in Seq(Nat) : lessons = s.lessons
  BY DEF Improving
<1>10. PICK more : more = Noted(lessons, n + 1, gives)
  OBVIOUS
<1>11. t.lessons = LastOf(Noted(s.lessons, n + 1, Gives(s, w)))
  BY <1>1, MergeNotes
<1>12. t.lessons = LastOf(more)
  BY <1>7, <1>9, <1>10, <1>11, Zenon
<1>13. Lessons(F, lessons, Len(lessons))
  BY <1>6, <1>9
<1>14. t.lessons \in Seq(Nat) /\ Lessons(With(F, n + 1, gives), t.lessons, Len(t.lessons))
  BY <1>10, <1>12, <1>13, LessonsMore
<1>15. t.history \in Seq(Outcome) /\ t.lessons \in Seq(Nat) => t \in Improving
  BY <1>1, MergeIs
<1>16. t.history \in Seq(Outcome)
  BY MergeGrows
<1> QED BY <1>8, <1>14, <1>15, <1>16, Zenon

LEMMA MergeScore ==
  ASSUME NEW s \in Improving, NEW r \in Nat, NEW m \in Nat, NEW w \in Winner, NEW t,
           t = TheRounds!merge_outcome(s, r, m, w)
  PROVE  /\ s.parent_score \in Nat /\ t.parent_score \in Nat /\ s.parent_score <= t.parent_score
         /\ Improves(s, w) => w.accepted /\ w.score = t.parent_score /\ s.parent_score < t.parent_score
<1>1. Improves(s, w) => w.accepted /\ w.score > s.parent_score
  BY DEF Improves
<1>2. /\ Improves(s, w) => t.parent_score = w.score
      /\ ~Improves(s, w) => t.parent_score = s.parent_score
  BY MergeIs
<1>3. s.parent_score \in Nat /\ w.score \in Nat
  BY DEF Improving, Winner
<1> QED BY <1>1, <1>2, <1>3

LEMMA MergeBest ==
  ASSUME NEW s \in Improving, NEW n \in Nat, n = Len(s.history), NEW m \in Nat, NEW w \in Winner,
         NEW t, t = TheRounds!merge_outcome(s, n + 1, m, w), NEW scores, NEW all, NEW X \in SUBSET Nat,
           Grown(n, scores, X, all),
         Best(s.history, scores, s.parent_score), \A x \in X : w.score >= x
  PROVE  Best(t.history, all, t.parent_score)
<1>1. n + 1 \in Nat
  OBVIOUS
<1>2. PICK o : o = OutcomeOf(s, m, w)
  OBVIOUS
<1>3. Grown(n, s.history, o, t.history)
  BY <1>2, MergeGrows
<1>4. o \in Outcome /\ (o.accepted <=> Improves(s, w)) /\ o.winner = w
  BY <1>2, OutcomeIs
<1>5. /\ s.parent_score \in Nat /\ t.parent_score \in Nat /\ s.parent_score <= t.parent_score
      /\ Improves(s, w) => w.accepted /\ w.score = t.parent_score /\ s.parent_score < t.parent_score
  BY <1>1, MergeScore
<1>6. \A r \in 1..n : s.history[r] \in Outcome
  <2>1. s.history \in Seq(Outcome)
    BY DEF Improving
  <2> QED BY <2>1
<1>7. o.accepted => o.winner.accepted /\ o.winner.score = t.parent_score /\ s.parent_score < t.parent_score
  BY <1>4, <1>5
<1>8. \A x \in X : o.winner.score >= x
  BY <1>4
<1> QED BY <1>3, <1>4, <1>5, <1>6, <1>7, <1>8, BestMore

LEMMA MergeParent ==
  ASSUME NEW s \in Improving, NEW n \in Nat, n = Len(s.history), NEW m \in Nat, NEW w \in Winner,
         NEW t, t = TheRounds!merge_outcome(s, n + 1, m, w), Parent(s.history, n, s.idle, s.parent, s.parent_score)
  PROVE  Parent(t.history, n + 1, t.idle, t.parent, t.parent_score)
<1>1. n + 1 \in Nat
  OBVIOUS
<1>2. PICK o : o = OutcomeOf(s, m, w)
  OBVIOUS
<1>3. Grown(n, s.history, o, t.history)
  BY <1>2, MergeGrows
<1>4. (o.accepted <=> Improves(s, w)) /\ o.winner = w /\ o.member = m
  BY <1>2, OutcomeIs
<1>5. PICK r \in Nat : r = n + 1
  BY <1>1
<1>6. t = TheRounds!merge_outcome(s, r, m, w)
  BY <1>5
<1>7. /\ Improves(s, w) => t.parent = TheRounds!Content(r, m) /\ t.parent_score = w.score /\ t.idle = 0
      /\ ~Improves(s, w) => t.parent = s.parent /\ t.parent_score = s.parent_score /\ t.idle = s.idle + 1
      /\ s.idle \in Nat /\ t.idle \in Nat
  BY <1>6, MergeImproves, SMTT(20)
<1>8. /\ o.accepted => t.idle = 0 /\ t.parent = TheRounds!Content(n + 1, o.member)
           /\ t.parent_score = o.winner.score
      /\ ~o.accepted => t.idle = s.idle + 1 /\ t.parent = s.parent /\ t.parent_score = s.parent_score
  BY <1>4, <1>5, <1>7
<1> QED BY <1>3, <1>7, <1>8, ParentMore

LEMMA ImprovesOK ==
  ASSUME RoundsAssumption, RoundsInv, TheRounds!ImproveRound
  PROVE  RoundsInv'
<1>1. /\ rd_kind = "improve" /\ rd_phase = "body" /\ rd_round < RoundBound /\ rd_round' = rd_round + 1
           /\ rd_kind' = rd_kind /\ rd_round \in Nat
      /\ ImproveInv
  BY DEF TheRounds!ImproveRound, TheRounds!Begins, RoundsInv
<1>2. PICK scored \in [RoundMembers -> TheRounds!Scored] :
         /\ rd_log' = Append(rd_log, {scored[m].score : m \in TheRounds!Ranked(scored)})
         /\ IF TheRounds!Ranked(scored) = {} THEN TheRounds!Throws
            ELSE TheRounds!Goes(TheRounds!merge_outcome(rd_state, rd_round', TheRounds!BestOf(scored), scored[TheRounds!BestOf(scored)]))
  BY DEF TheRounds!ImproveRound
<1>3. CASE TheRounds!Ranked(scored) = {}
  <2>1. rd_phase' = "threw"
    BY <1>2, <1>3 DEF TheRounds!Throws
  <2> QED BY <1>1, <2>1 DEF RoundsInv
<1>4. CASE TheRounds!Ranked(scored) # {}
  <2>1. PICK m, w, X : m = TheRounds!BestOf(scored) /\ w = scored[m]
               /\ X = {scored[n].score : n \in TheRounds!Ranked(scored)}
    OBVIOUS
  <2>2. m \in Nat /\ w \in Winner /\ X \in SUBSET Nat /\ \A x \in X : w.score >= x
    BY <1>4, <2>1, BestOfIs DEF RoundsAssumption
  <2>3. /\ rd_state \in Improving /\ Len(rd_state.history) = rd_round /\ rd_log \in Seq(SUBSET Nat)
             /\ Len(rd_log) = rd_round
        /\ Best(rd_state.history, rd_log, rd_state.parent_score)
             /\ Parent(rd_state.history, rd_round, rd_state.idle, rd_state.parent, rd_state.parent_score)
                  /\ Lessons(Failed(rd_state.history), rd_state.lessons, Len(rd_state.lessons))
    BY <1>1 DEF ImproveInv
  <2>4. PICK t : t = TheRounds!merge_outcome(rd_state, rd_round + 1, m, w)
    OBVIOUS
  <2>5. rd_log' = Append(rd_log, X) /\ rd_state' = t /\ rd_phase' = "guard"
    BY <1>1, <1>2, <1>4, <2>1, <2>4 DEF TheRounds!Goes
  <2>6. PICK all : all = Append(rd_log, X)
    OBVIOUS
  <2>7. t \in Improving /\ Lessons(Failed(t.history), t.lessons, Len(t.lessons))
    BY <1>1, <2>2, <2>3, <2>4, MergeLessons
  <2>10. Len(t.history) = rd_round + 1
    BY <1>1, <2>2, <2>3, <2>4, MergeGrows
  <2>11. Parent(t.history, rd_round + 1, t.idle, t.parent, t.parent_score)
    BY <1>1, <2>2, <2>3, <2>4, MergeParent
  <2>12. all \in Seq(SUBSET Nat) /\ Len(all) = rd_round + 1 /\ Grown(rd_round, rd_log, X, all)
    BY <1>1, <2>2, <2>3, <2>6, GrowsScores, Zenon
  <2>13. Best(t.history, all, t.parent_score)
    BY <1>1, <2>2, <2>3, <2>4, <2>12, MergeBest
  <2>8. rd_round + 1 <= RoundBound
    BY <1>1 DEF RoundsAssumption
  <2>9. ImproveInv'
    BY <1>1, <2>5, <2>6, <2>7, <2>8, <2>10, <2>11, <2>12, <2>13 DEF ImproveInv
  <2> QED BY <1>1, <2>5, <2>9 DEF RoundsInv
<1> QED BY <1>3, <1>4

(* A verdict changes nothing of what the rounds came to. *)
LEMMA StoppedIs ==
  ASSUME NEW s \in Improving, NEW stopped \in Verdicts, NEW t, t = [s EXCEPT !.stopped = stopped]
  PROVE  /\ t \in Improving /\ t.history = s.history /\ t.lessons = s.lessons
         /\ t.parent = s.parent /\ t.parent_score = s.parent_score /\ t.idle = s.idle
BY DEF Improving

LEMMA ImproveStopsOK ==
  ASSUME RoundsAssumption, RoundsInv, TheRounds!ImproveGuard
  PROVE  RoundsInv'
<1>1. /\ rd_kind = "improve" /\ rd_phase = "guard" /\ UNCHANGED <<rd_kind, rd_round, rd_log>> /\ rd_round \in Nat
           /\ ImproveInv
  BY DEF TheRounds!ImproveGuard, RoundsInv
<1>2. PICK tardy \in BOOLEAN :
         LET stopped == IF rd_state.idle >= RoundPatience THEN "plateau" ELSE IF tardy THEN "budget" ELSE "none"
             over == stopped # "none" \/ rd_round = RoundBound
         IN /\ rd_state' = [rd_state EXCEPT !.stopped = stopped]
            /\ rd_phase' = IF over THEN "over" ELSE "body"
            /\ rd_result' = IF ~over THEN None
                         ELSE [best |-> rd_state.parent, score |-> rd_state.parent_score, rounds |-> rd_round,
                               stopped_by |-> IF stopped = "none" THEN "budget" ELSE stopped]
  BY DEF TheRounds!ImproveGuard
<1>3. PICK stopped : stopped = IF rd_state.idle >= RoundPatience THEN "plateau" ELSE IF tardy THEN "budget"
             ELSE "none"
  OBVIOUS
<1>4. stopped \in Verdicts /\ (IF stopped = "none" THEN "budget" ELSE stopped) = (IF rd_state.idle >= RoundPatience THEN "plateau" ELSE "budget")
  <2>1. CASE rd_state.idle >= RoundPatience
    <3>1. stopped = "plateau"
      BY <1>3, <2>1
    <3>2. (IF stopped = "none" THEN "budget" ELSE stopped) = "plateau"
      BY <3>1
    <3>3. (IF rd_state.idle >= RoundPatience THEN "plateau" ELSE "budget") = "plateau"
      BY <2>1
    <3>4. stopped \in Verdicts
      BY <3>1 DEF Verdicts
    <3> QED BY <3>2, <3>3, <3>4, Zenon
  <2>2. CASE ~(rd_state.idle >= RoundPatience)
    <3>1. stopped = "budget" \/ stopped = "none"
      BY <1>3, <2>2
    <3>2. (IF stopped = "none" THEN "budget" ELSE stopped) = "budget"
      BY <3>1
    <3>3. (IF rd_state.idle >= RoundPatience THEN "plateau" ELSE "budget") = "budget"
      BY <2>2
    <3>4. stopped \in Verdicts
      BY <3>1 DEF Verdicts
    <3> QED BY <3>2, <3>3, <3>4, Zenon
  <2> QED BY <2>1, <2>2
<1>5. /\ rd_state' = [rd_state EXCEPT !.stopped = stopped]
      /\ rd_phase' \in {"over", "body"}
      /\ rd_phase' = "over" => rd_result' = [best |-> rd_state.parent, score |-> rd_state.parent_score, rounds |-> rd_round,
                                       stopped_by |-> IF stopped = "none" THEN "budget" ELSE stopped]
  BY <1>2, <1>3
<1>6. rd_state \in Improving
  BY <1>1 DEF ImproveInv
<1>7. /\ rd_state' \in Improving /\ rd_state'.history = rd_state.history /\ rd_state'.lessons = rd_state.lessons
      /\ rd_state'.parent = rd_state.parent /\ rd_state'.parent_score = rd_state.parent_score
           /\ rd_state'.idle = rd_state.idle
  BY <1>4, <1>5, <1>6, StoppedIs
<1>8. rd_phase' = "over" =>
        rd_result' = [best |-> rd_state'.parent, score |-> rd_state'.parent_score, rounds |-> rd_round',
                   stopped_by |-> IF rd_state'.idle >= RoundPatience THEN "plateau" ELSE "budget"]
  BY <1>1, <1>4, <1>5, <1>7
<1>9. ImproveInv'
  BY <1>1, <1>5, <1>7, <1>8 DEF ImproveInv
<1> QED BY <1>1, <1>9 DEF RoundsInv

----------------------------------------------------------------------------
(* The rounds of adversarial and of consensus. *)
LEMMA AdversarialRoundOK ==
  ASSUME RoundsAssumption, RoundsInv, TheRounds!AdversarialRound
  PROVE  RoundsInv'
<1>1. /\ rd_kind = "adversarial" /\ rd_phase = "body" /\ rd_round' = rd_round + 1 /\ rd_kind' = rd_kind
           /\ rd_round \in Nat
      /\ AdversarialInv /\ rd_log' = Append(rd_log, TheRounds!build_input_from_state(rd_state))
  BY DEF TheRounds!AdversarialRound, TheRounds!Begins, RoundsInv
<1>2. CASE TheRounds!Throws
  BY <1>1, <1>2 DEF TheRounds!Throws, RoundsInv
<1>3. CASE TheRounds!Goes([rd_state EXCEPT !.candidate = rd_round'])
  <2>1. rd_state' = [rd_state EXCEPT !.candidate = rd_round'] /\ rd_phase' = "guard"
    BY <1>3 DEF TheRounds!Goes
  <2>2. /\ rd_state \in [candidate : Nat, notes : Nat] /\ rd_state.candidate = rd_round /\ rd_state.notes = rd_round
        /\ rd_log \in Seq([prior : Nat, critique : Nat]) /\ Len(rd_log) = rd_round
        /\ \A r \in 1..rd_round : rd_log[r] = [prior |-> r - 1, critique |-> r - 1]
    BY <1>1 DEF AdversarialInv
  <2>3. PICK e : e = [prior |-> rd_round, critique |-> rd_round]
    OBVIOUS
  <2>4. TheRounds!build_input_from_state(rd_state) = e
    BY <2>2, <2>3 DEF TheRounds!build_input_from_state
  <2>5. e \in [prior : Nat, critique : Nat]
    BY <1>1, <2>3
  <2>6. /\ rd_log' \in Seq([prior : Nat, critique : Nat]) /\ Len(rd_log') = rd_round + 1
             /\ rd_log'[rd_round + 1] = e
        /\ \A r \in 1..rd_round : rd_log'[r] = rd_log[r]
    BY <1>1, <2>2, <2>4, <2>5, OneMore
  <2>7. \A r \in 1..rd_round + 1 : rd_log'[r] = [prior |-> r - 1, critique |-> r - 1]
    <3> SUFFICES ASSUME NEW r \in 1..rd_round + 1 PROVE rd_log'[r] = [prior |-> r - 1, critique |-> r - 1]
      OBVIOUS
    <3>1. r \in 1..rd_round \/ (r = rd_round + 1 /\ r - 1 = rd_round)
      BY <1>1
    <3> QED BY <2>2, <2>3, <2>6, <3>1
  <2>8. rd_state' \in [candidate : Nat, notes : Nat] /\ rd_state'.candidate = rd_round + 1
    BY <1>1, <2>1, <2>2
  <2>9. AdversarialInv'
    BY <1>1, <2>1, <2>6, <2>7, <2>8 DEF AdversarialInv
  <2> QED BY <1>1, <2>9 DEF RoundsInv
<1> QED BY <1>2, <1>3 DEF TheRounds!AdversarialRound

LEMMA AdversarialGuardOK ==
  ASSUME RoundsAssumption, RoundsInv, TheRounds!AdversarialGuard
  PROVE  RoundsInv'
<1>1. /\ rd_kind = "adversarial" /\ rd_phase = "guard" /\ UNCHANGED <<rd_kind, rd_round, rd_log>>
           /\ rd_round \in Nat
      /\ AdversarialInv /\ rd_state' = [rd_state EXCEPT !.notes = rd_state.candidate]
  BY DEF TheRounds!AdversarialGuard, RoundsInv
<1>2. PICK accept \in BOOLEAN :
         /\ rd_phase' = IF accept \/ rd_round = RoundBound THEN "over" ELSE "body"
         /\ rd_result' = IF accept \/ rd_round = RoundBound
                      THEN [candidate |-> rd_state.candidate, converged |-> accept, rounds |-> rd_round] ELSE None
  BY DEF TheRounds!AdversarialGuard
<1>3. /\ rd_state \in [candidate : Nat, notes : Nat] /\ rd_state.candidate = rd_round
      /\ rd_log \in Seq([prior : Nat, critique : Nat]) /\ Len(rd_log) = rd_round
      /\ \A r \in 1..rd_round : rd_log[r] = [prior |-> r - 1, critique |-> r - 1]
  BY <1>1 DEF AdversarialInv
<1>4. rd_state' \in [candidate : Nat, notes : Nat] /\ rd_state'.candidate = rd_round /\ rd_state'.notes = rd_round
  BY <1>1, <1>3
<1>5. rd_phase' \in {"over", "body"}
  BY <1>2
<1>6. rd_phase' = "over" => /\ rd_result' = [candidate |-> rd_round, converged |-> accept, rounds |-> rd_round]
                            /\ ~accept => rd_round = RoundBound
  BY <1>2, <1>3
<1>7. AdversarialInv'
  BY <1>1, <1>3, <1>4, <1>5, <1>6 DEF AdversarialInv
<1> QED BY <1>1, <1>7 DEF RoundsInv

LEMMA ConsensusRoundOK ==
  ASSUME RoundsAssumption, RoundsInv, TheRounds!ConsensusRound
  PROVE  RoundsInv'
<1>1. /\ rd_kind = "consensus" /\ rd_phase = "body" /\ rd_round' = rd_round + 1 /\ rd_kind' = rd_kind
           /\ rd_round \in Nat /\ ConsensusInv
  BY DEF TheRounds!ConsensusRound, TheRounds!Begins, RoundsInv
<1>2. CASE TheRounds!Throws
  BY <1>1, <1>2 DEF TheRounds!Throws, RoundsInv
<1>3. CASE \E results \in [RoundMembers -> 0..1] : rd_log' = Append(rd_log, results)
             /\ TheRounds!Goes([results |-> results])
  <2>1. PICK results \in [RoundMembers -> 0..1] : rd_log' = Append(rd_log, results)
               /\ TheRounds!Goes([results |-> results])
    BY <1>3
  <2>2. rd_state' = [results |-> results] /\ rd_phase' = "guard"
    BY <2>1 DEF TheRounds!Goes
  <2>3. rd_log \in Seq([RoundMembers -> 0..1]) /\ Len(rd_log) = rd_round /\ \A r \in 1..rd_round : ~Agree(rd_log[r])
    BY <1>1 DEF ConsensusInv
  <2>4. /\ rd_log' \in Seq([RoundMembers -> 0..1]) /\ Len(rd_log') = rd_round + 1 /\ rd_log'[rd_round + 1] = results
        /\ \A r \in 1..rd_round : rd_log'[r] = rd_log[r]
    BY <2>1, <2>3, OneMore
  <2>5. rd_round + 1 >= 1 /\ rd_round + 1 - 1 = rd_round
    BY <1>1
  <2>6. ConsensusInv'
    BY <1>1, <2>2, <2>3, <2>4, <2>5 DEF ConsensusInv
  <2> QED BY <1>1, <2>6 DEF RoundsInv
<1> QED BY <1>2, <1>3 DEF TheRounds!ConsensusRound

LEMMA ConsensusGuardOK ==
  ASSUME RoundsAssumption, RoundsInv, TheRounds!ConsensusGuard
  PROVE  RoundsInv'
<1>1. /\ rd_kind = "consensus" /\ rd_phase = "guard" /\ UNCHANGED <<rd_kind, rd_round, rd_state, rd_log>>
           /\ rd_round \in Nat /\ ConsensusInv
  BY DEF TheRounds!ConsensusGuard, RoundsInv
<1>2. /\ rd_log \in Seq([RoundMembers -> 0..1]) /\ Len(rd_log) = rd_round
           /\ (\A r \in 1..rd_round - 1 : ~Agree(rd_log[r]))
      /\ rd_round >= 1 /\ rd_state = [results |-> rd_log[rd_round]]
  BY <1>1 DEF ConsensusInv
<1>3. /\ rd_phase' = IF Agree(rd_log[rd_round]) \/ rd_round = RoundBound THEN "over" ELSE "body"
      /\ rd_result' = IF Agree(rd_log[rd_round])
           \/ rd_round = RoundBound THEN [results |-> rd_log[rd_round], converged |-> Agree(rd_log[rd_round])]
                ELSE None
  <2>1. rd_state.results = rd_log[rd_round]
    BY <1>2
  <2>2. Agree(rd_log[rd_round]) = \A m, n \in RoundMembers : rd_state.results[m] = rd_state.results[n]
    BY <2>1 DEF Agree
  <2> QED BY <2>1, <2>2 DEF TheRounds!ConsensusGuard
<1>4. rd_phase' \in {"over", "body"} /\ (rd_phase' = "body" => ~Agree(rd_log[rd_round]))
      /\ (rd_phase' = "over" => rd_result' = [results |-> rd_log[rd_round], converged |-> Agree(rd_log[rd_round])])
  BY <1>3
<1>5. rd_phase' = "body" => \A r \in 1..rd_round : ~Agree(rd_log[r])
  <2>1. \A r \in 1..rd_round : r \in 1..rd_round - 1 \/ r = rd_round
    BY <1>1
  <2> QED BY <1>2, <1>4, <2>1
<1>6. ConsensusInv'
  BY <1>1, <1>2, <1>4, <1>5 DEF ConsensusInv
<1> QED BY <1>1, <1>6 DEF RoundsInv

(* A match: two leave the round, and the one that wins goes to the next. *)
LeavesTwo(q, n, t) == n = Len(q) /\ n >= 2 /\ t = SubSeq(q, 3, n)

LEMMA CurrentLess ==
  ASSUME NEW q \in Seq(Nat), NEW n \in Nat, NEW t, LeavesTwo(q, n, t), Once(q)
  PROVE  /\ t \in Seq(Nat) /\ Once(t) /\ q[1] \in Nat /\ q[2] \in Nat /\ q[1] # q[2]
         /\ \A m \in Nat : In(m, q) <=> m = q[1] \/ m = q[2] \/ In(m, t)
         /\ ~In(q[1], t) /\ ~In(q[2], t)
<1>12. n = Len(q) /\ n >= 2 /\ t = SubSeq(q, 3, n)
  BY DEF LeavesTwo
<1>1. \A i \in 3..n : q[i] \in Nat
  BY <1>12
<1>2. /\ t \in Seq(Nat) /\ Len(t) = (IF 3 <= n THEN n - 3 + 1 ELSE 0)
      /\ \A i \in 1..n - 3 + 1 : t[i] = q[3 + i - 1]
  BY <1>1, <1>12, SubSeqProperties
<1>3. Len(t) = n - 2 /\ n - 3 + 1 = n - 2
  BY <1>2, <1>12
<1>4. DOMAIN q = 1..n /\ DOMAIN t = 1..n - 2
  BY <1>2, <1>3, <1>12
<1>5. \A i \in 1..n - 2 : t[i] = q[i + 2] /\ i + 2 \in 1..n /\ i + 2 # 1 /\ i + 2 # 2
  <2> SUFFICES ASSUME NEW i \in 1..n - 2 PROVE t[i] = q[i + 2] /\ i + 2 \in 1..n /\ i + 2 # 1 /\ i + 2 # 2
    OBVIOUS
  <2>1. 3 + i - 1 = i + 2 /\ i + 2 \in 1..n /\ i + 2 # 1 /\ i + 2 # 2
    BY <1>12
  <2> QED BY <1>2, <1>3, <2>1
<1>6. \A i \in 1..n : i = 1 \/ i = 2 \/ i - 2 \in 1..n - 2
  BY <1>12
<1>7. 1 \in 1..n /\ 2 \in 1..n
  BY <1>12
<1>8. Once(t)
  <2> SUFFICES ASSUME NEW i \in 1..n - 2, NEW j \in 1..n - 2, t[i] = t[j] PROVE i = j
    BY <1>4 DEF Once
  <2>1. i + 2 \in 1..n /\ j + 2 \in 1..n /\ q[i + 2] = q[j + 2]
    BY <1>5
  <2>2. i + 2 = j + 2
    BY <1>4, <2>1 DEF Once
  <2> QED BY <2>2
<1>9. q[1] \in Nat /\ q[2] \in Nat /\ q[1] # q[2]
  BY <1>4, <1>7 DEF Once
<1>10. \A i \in 1..n - 2 : t[i] # q[1] /\ t[i] # q[2]
  BY <1>4, <1>5, <1>7, Zenon DEF Once
<1>11. ASSUME NEW m \in Nat PROVE In(m, q) <=> m = q[1] \/ m = q[2] \/ In(m, t)
  <2>1. ASSUME NEW i \in 1..n, q[i] = m PROVE m = q[1] \/ m = q[2] \/ In(m, t)
    <3>1. CASE i - 2 \in 1..n - 2
      <4>1. t[i - 2] = q[i]
        BY <1>5, <3>1
      <4> QED BY <1>4, <2>1, <3>1, <4>1 DEF In
    <3> QED BY <1>6, <2>1, <3>1
  <2>2. ASSUME NEW i \in 1..n - 2, t[i] = m PROVE In(m, q)
    BY <1>4, <1>5, <2>2 DEF In
  <2> QED BY <1>4, <1>7, <2>1, <2>2 DEF In
<1> QED BY <1>2, <1>4, <1>8, <1>9, <1>10, <1>11 DEF In

LEMMA NextMore ==
  ASSUME NEW q \in Seq(Nat), NEW w \in Nat, Once(q), ~In(w, q)
  PROVE  /\ Append(q, w) \in Seq(Nat) /\ Once(Append(q, w))
         /\ \A m \in Nat : In(m, Append(q, w)) <=> m = w \/ In(m, q)
<1>1. PICK t, n : t = Append(q, w) /\ n = Len(q)
  OBVIOUS
<1>2. /\ n \in Nat /\ t \in Seq(Nat) /\ DOMAIN t = 1..n + 1 /\ t[n + 1] = w /\ DOMAIN q = 1..n
      /\ \A j \in 1..n : t[j] = q[j]
  BY <1>1, OneMore
<1>3. \A i \in 1..n + 1 : i \in 1..n \/ i = n + 1
  BY <1>2
<1>4. \A i \in 1..n : i \in 1..n + 1
  BY <1>2
<1>5. n + 1 \in 1..n + 1
  BY <1>2
<1>6. Once(t)
  <2> SUFFICES ASSUME NEW i \in 1..n + 1, NEW j \in 1..n + 1, t[i] = t[j] PROVE i = j
    BY <1>2 DEF Once
  <2> QED BY <1>2, <1>3 DEF Once, In
<1>7. \A m \in Nat : In(m, t) <=> m = w \/ In(m, q)
  BY <1>2, <1>3, <1>4, <1>5 DEF In
<1> QED BY <1>1, <1>2, <1>6, <1>7

LEMMA PlayedMore ==
  ASSUME NEW n \in Nat, NEW b, NEW bout, NEW c, Grown(n, b, bout, c), NEW m
  PROVE  \A i : i \in Played(c, m) <=> i \in Played(b, m) \/ (m \in {bout.a, bout.b} /\ i = n + 1)
<1>1. 1..n + 1 = 1..n \union {n + 1} /\ n + 1 \notin 1..n
  OBVIOUS
<1> QED BY <1>1 DEF Played, Grown

LEMMA LostMore ==
  ASSUME NEW n \in Nat, NEW b, NEW bout, NEW c, Grown(n, b, bout, c), NEW m
  PROVE  \A i : i \in Lost(c, m) <=> i \in Lost(b, m) \/ (m \in {bout.a, bout.b} /\ m # bout.winner /\ i = n + 1)
<1>1. \A i : i \in Played(c, m) <=> i \in Played(b, m) \/ (m \in {bout.a, bout.b} /\ i = n + 1)
  BY PlayedMore
<1>2. Played(b, m) \subseteq 1..n /\ n + 1 \notin 1..n
  BY DEF Played, Grown
<1> QED BY <1>1, <1>2 DEF Lost, Grown

LEMMA BoutMore ==
  ASSUME NEW b \in Bouts, NEW bout \in [round : Nat, a : Nat, b : Nat, winner : Nat], NEW n \in Nat, n = Len(b),
           NEW c, c = Append(b, bout)
  PROVE  c \in Bouts /\ Grown(n, b, bout, c)
BY OneMore DEF Bouts, Grown

(* What a player that is in or out has lost. *)
Fares(b, m, inside) ==
  IF inside THEN Lost(b, m) = {}
  ELSE \E i \in Nat : Lost(b, m) = {i} /\ i \in Played(b, m) /\ \A j \in Played(b, m) : j <= i

LEMMA MatchOK ==
  ASSUME RoundsAssumption, RoundsInv, TheRounds!Match
  PROVE  RoundsInv'
<1>1. /\ rd_kind = "tournament" /\ rd_phase = "body"
           /\ UNCHANGED <<rd_kind, rd_phase, rd_round, rd_result, rd_log>> /\ rd_round \in Nat
      /\ TournamentInv /\ Len(rd_state.current) >= 2
  BY DEF TheRounds!Match, RoundsInv
<1>2. PICK q, p, b : q = rd_state.current /\ p = rd_state.next /\ b = rd_state.bracket
  OBVIOUS
<1>3. /\ q \in Seq(Nat) /\ p \in Seq(Nat) /\ b \in Bouts /\ Once(q) /\ Once(p)
      /\ \A m \in Nat : ~(In(m, q) /\ In(m, p))
      /\ \A m \in 1..RoundPlayers : Fares(b, m, In(m, q) \/ In(m, p))
  BY <1>1, <1>2 DEF TournamentInv, Playing, Fares
<1>4. PICK winner \in {q[1], q[2]} :
        rd_state' = [current |-> SubSeq(q, 3, Len(q)), next |-> Append(p, winner),
                  bracket |-> Append(b, [round |-> rd_round + 1, a |-> q[1], b |-> q[2], winner |-> winner])]
  BY <1>2 DEF TheRounds!Match
<1>5. PICK n, t, bout, c, u : /\ n = Len(q) /\ t = SubSeq(q, 3, n) /\ u = Append(p, winner) /\ c = Append(b, bout)
                              /\ bout = [round |-> rd_round + 1, a |-> q[1], b |-> q[2], winner |-> winner]
  OBVIOUS
<1>6. n \in Nat /\ n >= 2
  BY <1>1, <1>2, <1>3, <1>5
<1>18. LeavesTwo(q, n, t)
  BY <1>5, <1>6 DEF LeavesTwo
<1>7. /\ t \in Seq(Nat) /\ Once(t) /\ q[1] \in Nat /\ q[2] \in Nat /\ q[1] # q[2]
      /\ \A m \in Nat : In(m, q) <=> m = q[1] \/ m = q[2] \/ In(m, t)
      /\ ~In(q[1], t) /\ ~In(q[2], t)
  <2>1. t \in Seq(Nat) /\ Once(t)
    BY <1>3, <1>6, <1>18, CurrentLess
  <2>2. q[1] \in Nat /\ q[2] \in Nat /\ q[1] # q[2]
    BY <1>3, <1>6, <1>18, CurrentLess
  <2>3. \A m \in Nat : In(m, q) <=> m = q[1] \/ m = q[2] \/ In(m, t)
    BY <1>3, <1>6, <1>18, CurrentLess
  <2>4. ~In(q[1], t) /\ ~In(q[2], t)
    BY <1>3, <1>6, <1>18, CurrentLess
  <2> QED BY <2>1, <2>2, <2>3, <2>4
<1>8. winner \in Nat /\ In(winner, q) /\ ~In(winner, p) /\ ~In(winner, t)
  BY <1>3, <1>7
<1>9. u \in Seq(Nat) /\ Once(u) /\ \A m \in Nat : In(m, u) <=> m = winner \/ In(m, p)
  BY <1>3, <1>5, <1>8, NextMore
<1>10. \A m \in Nat : ~(In(m, t) /\ In(m, u))
  BY <1>3, <1>7, <1>8, <1>9
<1>11. /\ bout \in [round : Nat, a : Nat, b : Nat, winner : Nat] /\ bout.winner \in {bout.a, bout.b}
       /\ bout.a = q[1] /\ bout.b = q[2] /\ bout.winner = winner
  BY <1>1, <1>5, <1>7, <1>8
<1>12. PICK k \in Nat : k = Len(b)
  BY <1>3 DEF Bouts
<1>13. c \in Bouts /\ Grown(k, b, bout, c)
  BY <1>3, <1>5, <1>11, <1>12, BoutMore
<1>14. ASSUME NEW m \in 1..RoundPlayers PROVE Fares(c, m, In(m, t) \/ In(m, u))
  <2>1. m \in Nat /\ Fares(b, m, In(m, q) \/ In(m, p))
    BY <1>3 DEF RoundsAssumption
  <2>2. /\ \A i : i \in Played(c, m) <=> i \in Played(b, m) \/ (m \in {q[1], q[2]} /\ i = k + 1)
        /\ \A i : i \in Lost(c, m) <=> i \in Lost(b, m) \/ (m \in {q[1], q[2]} /\ m # winner /\ i = k + 1)
        /\ Played(b, m) \subseteq 1..k
    <3>1. \A i : i \in Played(c, m) <=> i \in Played(b, m) \/ (m \in {bout.a, bout.b} /\ i = k + 1)
      BY <1>12, <1>13, PlayedMore
    <3>2. \A i : i \in Lost(c, m) <=> i \in Lost(b, m) \/ (m \in {bout.a, bout.b} /\ m # bout.winner /\ i = k + 1)
      BY <1>12, <1>13, LostMore
    <3>3. Played(b, m) \subseteq 1..k
      BY <1>13 DEF Played, Grown
    <3> QED BY <1>11, <3>1, <3>2, <3>3
  <2>3. CASE m \in {q[1], q[2]} /\ m # winner
    <3>1. ~In(m, t) /\ ~In(m, u) /\ In(m, q)
      BY <1>3, <1>7, <1>9, <2>1, <2>3
    <3>2. Lost(b, m) = {}
      BY <2>1, <3>1 DEF Fares
    <3>3. Lost(c, m) = {k + 1} /\ k + 1 \in Played(c, m) /\ k + 1 \in Nat
      BY <1>12, <2>2, <2>3, <3>2
    <3>4. \A j \in Played(c, m) : j <= k + 1
      BY <1>12, <2>2
    <3> QED BY <3>1, <3>3, <3>4 DEF Fares
  <2>4. CASE m = winner
    <3>1. In(m, u) /\ In(m, q)
      BY <1>8, <1>9, <2>1, <2>4
    <3>2. Lost(c, m) = {}
      BY <2>1, <2>2, <2>4, <3>1 DEF Fares
    <3> QED BY <3>1, <3>2 DEF Fares
  <2>5. CASE m \notin {q[1], q[2]} /\ m # winner
    <3>1. (In(m, t) \/ In(m, u)) <=> (In(m, q) \/ In(m, p))
      BY <1>7, <1>9, <2>1, <2>5
    <3>2. Lost(c, m) = Lost(b, m) /\ Played(c, m) = Played(b, m)
      BY <2>2, <2>5
    <3> QED BY <2>1, <3>1, <3>2 DEF Fares
  <2> QED BY <2>3, <2>4, <2>5
<1>15. rd_state' = [current |-> t, next |-> u, bracket |-> c]
  BY <1>4, <1>5
<1>16. rd_state' \in Playing /\ rd_state'.current = t /\ rd_state'.next = u /\ rd_state'.bracket = c
  BY <1>7, <1>9, <1>13, <1>15 DEF Playing
<1>17. TournamentInv'
  BY <1>1, <1>7, <1>9, <1>10, <1>14, <1>16 DEF TournamentInv, Fares
<1> QED BY <1>1, <1>17 DEF RoundsInv

LEMMA JoinedAt ==
  ASSUME NEW p \in Seq(Nat), NEW q \in Seq(Nat), NEW t, t = p \o q
  PROVE  \A m \in Nat : In(m, t) <=> In(m, q) \/ In(m, p)
<1>1. PICK n, k : n = Len(p) /\ k = Len(q)
  OBVIOUS
<1>2. n \in Nat /\ k \in Nat /\ DOMAIN p = 1..n /\ DOMAIN q = 1..k
  BY <1>1
<1>3. t \in Seq(Nat) /\ Len(t) = n + k /\ DOMAIN t = 1..n + k
  BY <1>1, <1>2
<1>4. \A i \in 1..n + k : t[i] = IF i <= n THEN p[i] ELSE q[i - n]
  BY <1>1, <1>2
<1>5. \A i \in 1..n + k : (i <= n /\ i \in 1..n) \/ (~(i <= n) /\ i - n \in 1..k)
  BY <1>2
<1>6. \A i \in 1..n : i \in 1..n + k /\ t[i] = p[i]
  BY <1>2, <1>4
<1>7. \A i \in 1..k : i + n \in 1..n + k /\ t[i + n] = q[i]
  <2> SUFFICES ASSUME NEW i \in 1..k PROVE i + n \in 1..n + k /\ t[i + n] = q[i]
    OBVIOUS
  <2>1. i \in Nat /\ i <= k /\ i >= 1
    BY <1>2
  <2>2. PICK j : j = i + n
    OBVIOUS
  <2>3. j \in 1..n + k /\ ~(j <= n) /\ j - n = i
    BY <1>2, <2>1, <2>2
  <2>4. t[j] = q[j - n]
    BY <1>4, <2>3
  <2> QED BY <2>2, <2>3, <2>4
<1>8. \A i \in 1..n : p[i] \in Nat
  BY <1>2
<1>10. \A m \in Nat : In(m, t) <=> In(m, q) \/ In(m, p)
  <2> SUFFICES ASSUME NEW m \in Nat PROVE In(m, t) <=> In(m, q) \/ In(m, p)
    OBVIOUS
  <2>1. In(m, t) => In(m, q) \/ In(m, p)
    BY <1>2, <1>3, <1>4, <1>5 DEF In
  <2>2. In(m, q) => In(m, t)
    BY <1>2, <1>3, <1>7 DEF In
  <2>3. In(m, p) => In(m, t)
    BY <1>2, <1>3, <1>6 DEF In
  <2> QED BY <2>1, <2>2, <2>3
<1> QED BY <1>10

LEMMA Joined ==
  ASSUME NEW p \in Seq(Nat), NEW q \in Seq(Nat), Once(p), Once(q), \A m \in Nat : ~(In(m, q) /\ In(m, p)), NEW t,
           t = p \o q
  PROVE  Once(t)
<1>1. PICK n, k : n = Len(p) /\ k = Len(q)
  OBVIOUS
<1>2. n \in Nat /\ k \in Nat /\ DOMAIN p = 1..n /\ DOMAIN q = 1..k
  BY <1>1
<1>3. t \in Seq(Nat) /\ Len(t) = n + k /\ DOMAIN t = 1..n + k
  BY <1>1, <1>2
<1>4. \A i \in 1..n + k : t[i] = IF i <= n THEN p[i] ELSE q[i - n]
  BY <1>1, <1>2
<1>5. \A i \in 1..n + k : (i <= n /\ i \in 1..n) \/ (~(i <= n) /\ i - n \in 1..k)
  BY <1>2
<1>6. \A i \in 1..n : i \in 1..n + k /\ t[i] = p[i]
  BY <1>2, <1>4
<1>7. \A i \in 1..k : i + n \in 1..n + k /\ t[i + n] = q[i]
  <2> SUFFICES ASSUME NEW i \in 1..k PROVE i + n \in 1..n + k /\ t[i + n] = q[i]
    OBVIOUS
  <2>1. i \in Nat /\ i <= k /\ i >= 1
    BY <1>2
  <2>2. PICK j : j = i + n
    OBVIOUS
  <2>3. j \in 1..n + k /\ ~(j <= n) /\ j - n = i
    BY <1>2, <2>1, <2>2
  <2>4. t[j] = q[j - n]
    BY <1>4, <2>3
  <2> QED BY <2>2, <2>3, <2>4
<1>8. \A i \in 1..n : p[i] \in Nat
  BY <1>2
<1>9. Once(t)
  <2> SUFFICES ASSUME NEW i \in 1..n + k, NEW j \in 1..n + k, t[i] = t[j] PROVE i = j
    BY <1>3 DEF Once
  <2>1. CASE i <= n /\ j <= n
    BY <1>2, <1>4, <1>5, <2>1 DEF Once
  <2>2. CASE ~(i <= n) /\ ~(j <= n)
    <3>2. i - n \in 1..k /\ j - n \in 1..k /\ q[i - n] = q[j - n]
      BY <1>4, <1>5, <2>2
    <3>1. i - n = j - n
      BY <1>2, <3>2 DEF Once
    <3> QED BY <1>2, <3>1
  <2>3. CASE i <= n /\ ~(j <= n)
    BY <1>2, <1>4, <1>5, <1>8, <2>3 DEF In
  <2>4. CASE ~(i <= n) /\ j <= n
    BY <1>2, <1>4, <1>5, <1>8, <2>4 DEF In
  <2> QED BY <2>1, <2>2, <2>3, <2>4
<1> QED BY <1>9

LEMMA NextRoundOK ==
  ASSUME RoundsAssumption, RoundsInv, TheRounds!NextRound
  PROVE  RoundsInv'
<1>1. /\ rd_kind = "tournament" /\ rd_phase = "body" /\ UNCHANGED <<rd_kind, rd_log>> /\ rd_round \in Nat
           /\ TournamentInv
  BY DEF TheRounds!NextRound, RoundsInv
<1>2. PICK q, p, b, t : q = rd_state.current /\ p = rd_state.next /\ b = rd_state.bracket /\ t = p \o q
  OBVIOUS
<1>3. /\ rd_state = [current |-> q, next |-> p, bracket |-> b]
      /\ q \in Seq(Nat) /\ p \in Seq(Nat) /\ b \in Bouts /\ Once(q) /\ Once(p)
      /\ \A m \in Nat : ~(In(m, q) /\ In(m, p))
      /\ \A m \in 1..RoundPlayers : Fares(b, m, In(m, q) \/ In(m, p))
  BY <1>1, <1>2 DEF TournamentInv, Playing, Fares
<1>4. t \in Seq(Nat) /\ Once(t) /\ \A m \in Nat : In(m, t) <=> In(m, q) \/ In(m, p)
  <2>1. t \in Seq(Nat)
    BY <1>2, <1>3
  <2>2. Once(t)
    BY <1>2, <1>3, Joined
  <2>3. \A m \in Nat : In(m, t) <=> In(m, q) \/ In(m, p)
    <3>1. p \in Seq(Nat) /\ q \in Seq(Nat) /\ t = p \o q
      BY <1>2, <1>3
    <3> QED BY <3>1, JoinedAt
  <2> QED BY <2>1, <2>2, <2>3
<1>5. IF Len(t) = 1 THEN rd_phase' = "over" /\ rd_result' = Head(t) /\ UNCHANGED <<rd_state, rd_round>>
      ELSE rd_state' = [rd_state EXCEPT !.current = t, !.next = <<>>] /\ rd_round' = rd_round + 1
        /\ UNCHANGED <<rd_phase, rd_result>>
  BY <1>2 DEF TheRounds!NextRound
<1>6. CASE Len(t) = 1
  <2>1. rd_phase' = "over" /\ rd_result' = Head(t) /\ UNCHANGED <<rd_state, rd_round>>
    BY <1>5, <1>6
  <2>2. DOMAIN t = {1} /\ Head(t) = t[1]
    BY <1>4, <1>6
  <2>3. \A m \in Nat : (In(m, q) \/ In(m, p)) <=> m = rd_result'
    BY <1>4, <2>1, <2>2 DEF In
  <2>4. TournamentInv'
    BY <1>1, <1>2, <2>1, <2>3 DEF TournamentInv
  <2> QED BY <1>1, <2>1, <2>4 DEF RoundsInv
<1>7. CASE Len(t) # 1
  <2>1. rd_state' = [rd_state EXCEPT !.current = t, !.next = <<>>] /\ rd_round' = rd_round + 1
          /\ UNCHANGED <<rd_phase, rd_result>>
    BY <1>5, <1>7
  <2>2. rd_state' = [current |-> t, next |-> <<>>, bracket |-> b]
    BY <1>3, <2>1
  <2>3. rd_state' \in Playing /\ rd_state'.current = t /\ rd_state'.next = <<>> /\ rd_state'.bracket = b
    BY <1>3, <1>4, <2>2 DEF Playing
  <2>4. Once(<<>>) /\ \A m \in Nat : ~In(m, <<>>)
    BY DEF Once, In
  <2>5. \A m \in 1..RoundPlayers : Fares(b, m, In(m, t) \/ In(m, <<>>))
    <3> SUFFICES ASSUME NEW m \in 1..RoundPlayers PROVE Fares(b, m, In(m, t) \/ In(m, <<>>))
      OBVIOUS
    <3>1. m \in Nat /\ ((In(m, t) \/ In(m, <<>>)) <=> (In(m, q) \/ In(m, p)))
      BY <1>4, <2>4 DEF RoundsAssumption
    <3> QED BY <1>3, <3>1 DEF Fares
  <2>6. TournamentInv'
    BY <1>1, <1>4, <2>1, <2>3, <2>4, <2>5 DEF TournamentInv, Fares
  <2> QED BY <1>1, <2>1, <2>6 DEF RoundsInv
<1> QED BY <1>6, <1>7

(* Nothing has been played or scored when the rounds begin. *)
LEMMA NoRoundYet ==
  ASSUME RoundsAssumption, NEW seed \in Nat
  PROVE  Best(<<>>, <<>>, seed) /\ Parent(<<>>, 0, 0, TheRounds!Content(0, 0), seed)
           /\ Lessons(Failed(<<>>), <<>>, 0)
<1>1. DOMAIN <<>> = {}
  OBVIOUS
<1>2. Taken(<<>>) = {} /\ Failed(<<>>) = {}
  BY <1>1 DEF Taken, Failed
<1>3. 0 - 0 + 1..0 = {} /\ 1..0 = {} /\ 0 <= RoundLessons
  BY DEF RoundsAssumption
<1>4. Best(<<>>, <<>>, seed)
  BY <1>2 DEF Best
<1>5. Parent(<<>>, 0, 0, TheRounds!Content(0, 0), seed)
  BY <1>3 DEF Parent
<1>6. Lessons(Failed(<<>>), <<>>, 0)
  BY <1>2, <1>3 DEF Lessons
<1> QED BY <1>4, <1>5, <1>6

LEMMA RoundsBegin ==
  ASSUME RoundsAssumption, TheRounds!Init
  PROVE  RoundsInv
<1>1. rd_kind \in TheRounds!Kinds /\ rd_phase = "body" /\ rd_round = 0 /\ rd_result = None /\ rd_log = <<>>
  BY DEF TheRounds!Init
<1>2. CASE rd_kind = "improve"
  <2>1. PICK seed \in TheRounds!Scores :
          rd_state = [parent |-> TheRounds!Content(0, 0), parent_score |-> seed, idle |-> 0, history |-> <<>>, lessons |-> <<>>, stopped |-> "none"]
    BY <1>2 DEF TheRounds!Init
  <2>2. seed \in Nat /\ TheRounds!Content(0, 0) \in Nat \X Nat /\ "none" \in Verdicts /\ rd_round <= RoundBound
    BY <1>1 DEF RoundsAssumption, TheRounds!Scores, TheRounds!Content, Verdicts
  <2>3. <<>> \in Seq(Outcome) /\ <<>> \in Seq(Nat) /\ <<>> \in Seq(SUBSET Nat) /\ Len(<<>>) = 0
    OBVIOUS
  <2>4. rd_state \in Improving
    BY <2>1, <2>2, <2>3 DEF Improving
  <2>5. /\ rd_state.parent = TheRounds!Content(0, 0) /\ rd_state.parent_score = seed /\ rd_state.idle = 0
             /\ rd_state.history = <<>> /\ rd_state.lessons = <<>>
    BY <2>1
  <2>6. Best(<<>>, <<>>, seed) /\ Parent(<<>>, 0, 0, TheRounds!Content(0, 0), seed)
          /\ Lessons(Failed(<<>>), <<>>, 0)
    BY <2>2, NoRoundYet
  <2>7. ImproveInv
    BY <1>1, <2>2, <2>3, <2>4, <2>5, <2>6 DEF ImproveInv
  <2> QED BY <1>1, <1>2, <2>7 DEF RoundsInv
<1>3. CASE rd_kind = "adversarial"
  <2>1. rd_state = [candidate |-> 0, notes |-> 0]
    BY <1>3 DEF TheRounds!Init
  <2>2. AdversarialInv
    BY <1>1, <2>1 DEF AdversarialInv
  <2> QED BY <1>1, <1>3, <2>2 DEF RoundsInv
<1>4. CASE rd_kind = "consensus"
  <2>1. ConsensusInv
    BY <1>1 DEF ConsensusInv
  <2> QED BY <1>1, <1>4, <2>1 DEF RoundsInv
<1>5. CASE rd_kind = "tournament"
  <2>1. rd_state = [current |-> [n \in 1..RoundPlayers |-> n], next |-> <<>>, bracket |-> <<>>]
    BY <1>5 DEF TheRounds!Init
  <2>2. PICK q : q = [n \in 1..RoundPlayers |-> n]
    OBVIOUS
  <2>3. RoundPlayers \in Nat
    BY DEF RoundsAssumption
  <2>4. q \in Seq(Nat) /\ DOMAIN q = 1..RoundPlayers /\ \A m \in 1..RoundPlayers : q[m] = m
    BY <2>2, <2>3
  <2>5. <<>> \in Seq(Nat) /\ <<>> \in Bouts /\ DOMAIN <<>> = {}
    BY DEF Bouts
  <2>6. rd_state \in Playing /\ rd_state.current = q /\ rd_state.next = <<>> /\ rd_state.bracket = <<>>
    BY <2>1, <2>2, <2>4, <2>5 DEF Playing
  <2>7. Once(q) /\ \A m \in 1..RoundPlayers : In(m, q)
    BY <2>4 DEF Once, In
  <2>8. Once(<<>>) /\ (\A m : ~In(m, <<>>)) /\ \A m : Lost(<<>>, m) = {}
    BY <2>5 DEF Once, In, Lost, Played
  <2>9. TournamentInv
    BY <1>1, <2>6, <2>7, <2>8 DEF TournamentInv
  <2> QED BY <1>1, <1>5, <2>9 DEF RoundsInv
<1> QED BY <1>1, <1>2, <1>3, <1>4, <1>5 DEF TheRounds!Kinds

LEMMA RoundsStay ==
  ASSUME RoundsInv, UNCHANGED TheRounds!vars
  PROVE  RoundsInv'
<1>1. UNCHANGED <<rd_kind, rd_phase, rd_round, rd_state, rd_result, rd_log>>
  BY DEF TheRounds!vars
<1> QED BY <1>1 DEF RoundsInv, ImproveInv, AdversarialInv, ConsensusInv, TournamentInv

----------------------------------------------------------------------------
(* What the rounds return is what they show. *)
LEMMA MaxIs ==
  ASSUME NEW S \in SUBSET Nat, NEW x \in S, \A y \in S : y <= x
  PROVE  TheRounds!Max(S) = x
<1>1. \A y \in S : x >= y
  OBVIOUS
<1>2. PICK z : z = TheRounds!Max(S)
  OBVIOUS
<1>3. z \in S /\ \A y \in S : z >= y
  BY <1>1, <1>2 DEF TheRounds!Max
<1>4. z = x
  BY <1>3
<1> QED BY <1>2, <1>4

LEMMA AgreeIs ==
  ASSUME RoundsAssumption, NEW f \in [RoundMembers -> 0..1], NEW S, S = {f[m] : m \in RoundMembers}
  PROVE  (Cardinality(S) = 1 <=> Agree(f)) /\ (~Agree(f) => Cardinality(S) > 1)
<1>1. S \subseteq 0..1 /\ IsFiniteSet(0..1)
  <2>1. IsFiniteSet({0} \union {1})
    BY FS_Singleton, FS_AddElement
  <2>2. 0..1 = {0} \union {1}
    OBVIOUS
  <2> QED BY <2>1, <2>2
<1>2. IsFiniteSet(S) /\ Cardinality(S) \in Nat
  BY <1>1, FS_Subset, FS_CardinalityType
<1>3. CASE Agree(f)
  <2>1. PICK x : x \in RoundMembers
    BY DEF RoundsAssumption
  <2>2. S = {f[x]}
    BY <1>3, <2>1 DEF Agree
  <2> QED BY <1>3, <2>2, FS_Singleton
<1>4. CASE ~Agree(f)
  <2>1. PICK m \in RoundMembers, n \in RoundMembers : f[m] # f[n]
    BY <1>4 DEF Agree
  <2>2. PICK T : T = {f[m]} \union {f[n]}
    OBVIOUS
  <2>3. IsFiniteSet({f[m]}) /\ Cardinality({f[m]}) = 1
    BY FS_Singleton
  <2>4. Cardinality(T) = 2
    BY <2>1, <2>2, <2>3, FS_AddElement, SMTT(20)
  <2>5. T \subseteq S
    BY <2>1, <2>2
  <2>6. Cardinality(T) <= Cardinality(S)
    BY <1>2, <2>5, FS_Subset
  <2> QED BY <1>2, <1>4, <2>4, <2>6
<1> QED BY <1>3, <1>4

LEMMA ImproveIsTold ==
  ASSUME RoundsAssumption, rd_round \in Nat, ImproveInv, rd_phase = "over"
  PROVE  TheRounds!BestIsKept
<1>1. PICK h, n, k : h = rd_state.history /\ n = rd_round /\ k = rd_state.idle
  OBVIOUS
<1>2. /\ rd_state \in Improving /\ Len(h) = n /\ n \in Nat /\ n <= RoundBound /\ Len(rd_log) = n
      /\ Best(h, rd_log, rd_state.parent_score) /\ Parent(h, n, k, rd_state.parent, rd_state.parent_score)
      /\ Lessons(Failed(h), rd_state.lessons, Len(rd_state.lessons))
  BY <1>1 DEF ImproveInv
<1>3. /\ rd_result.best = rd_state.parent /\ rd_result.score = rd_state.parent_score /\ rd_result.rounds = n
      /\ rd_result.stopped_by = (IF k >= RoundPatience THEN "plateau" ELSE "budget")
  BY <1>1 DEF ImproveInv
<1>4. h \in Seq(Outcome) /\ k \in Nat /\ rd_state.lessons \in Seq(Nat) /\ DOMAIN h = 1..n /\ DOMAIN rd_log = 1..n
  <2>1. h \in Seq(Outcome) /\ k \in Nat /\ rd_state.lessons \in Seq(Nat)
    BY <1>1, <1>2 DEF Improving
  <2>2. rd_log \in Seq(SUBSET Nat)
    BY DEF ImproveInv
  <2> QED BY <1>2, <2>1, <2>2
<1>5. TheRounds!Accepted = Taken(h) /\ Taken(h) \subseteq 1..n
  BY <1>1, <1>4 DEF TheRounds!Accepted, Taken
<1>6. /\ k <= n /\ \A r \in n - k + 1..n : r \notin Taken(h)
      /\ k = n => rd_state.parent = TheRounds!Content(0, 0)
      /\ k < n => /\ n - k \in Taken(h) /\ rd_state.parent = TheRounds!Content(n - k, h[n - k].member)
                  /\ rd_state.parent_score = h[n - k].winner.score
  <2>1. k < n => n - k \in 1..n
    BY <1>2, <1>4
  <2> QED BY <1>2, <1>4, <2>1 DEF Parent, Taken
<1>7. \A r \in TheRounds!Accepted :
        /\ rd_state.history[r].winner.accepted
        /\ \A x \in rd_log[r] : rd_state.history[r].winner.score >= x
        /\ \A q \in TheRounds!Accepted : q < r
             => rd_state.history[q].winner.score < rd_state.history[r].winner.score
  BY <1>1, <1>2, <1>5 DEF Best
<1>8. ASSUME k < n PROVE TheRounds!Max(TheRounds!Accepted) = n - k /\ TheRounds!Accepted # {}
  <2>1. \A r \in Taken(h) : r <= n - k
    <3> SUFFICES ASSUME NEW r \in Taken(h), r > n - k PROVE FALSE
      BY <1>2, <1>4, <1>5
    <3>1. r \in n - k + 1..n
      BY <1>2, <1>4, <1>5
    <3> QED BY <1>6, <3>1
  <2>2. Taken(h) \in SUBSET Nat /\ n - k \in Taken(h)
    BY <1>5, <1>6, <1>8
  <2> QED BY <1>5, <2>1, <2>2, MaxIs
<1>9. k = n => TheRounds!Accepted = {}
  <2> SUFFICES ASSUME k = n, NEW r \in Taken(h) PROVE FALSE
    BY <1>5
  <2>1. r \in n - k + 1..n
    BY <1>2, <1>4, <1>5
  <2> QED BY <1>6, <2>1
<1>10. k < n \/ k = n
  BY <1>2, <1>4, <1>6
<1>11. /\ TheRounds!Accepted # {} => /\ rd_result.best = TheRounds!Content(TheRounds!Max(TheRounds!Accepted), rd_state.history[TheRounds!Max(TheRounds!Accepted)].member)
                                     /\ rd_result.score = rd_state.history[TheRounds!Max(TheRounds!Accepted)].winner.score
       /\ TheRounds!Accepted = {} => rd_result.best = TheRounds!Content(0, 0)
  BY <1>1, <1>3, <1>6, <1>8, <1>9, <1>10
<1>12. rd_result.stopped_by = "plateau" <=>
         rd_result.rounds >= RoundPatience
           /\ \A r \in rd_result.rounds - RoundPatience + 1..rd_result.rounds : r \notin TheRounds!Accepted
  <2>1. RoundPatience \in Nat
    BY DEF RoundsAssumption
  <2>2. CASE k >= RoundPatience
    <3>1. n >= RoundPatience /\ \A r \in n - RoundPatience + 1..n : r \in n - k + 1..n
      BY <1>2, <1>4, <1>6, <2>1, <2>2
    <3>2. rd_result.stopped_by = "plateau"
      BY <1>3, <2>2
    <3> QED BY <1>3, <1>5, <1>6, <3>1, <3>2
  <2>3. CASE ~(k >= RoundPatience)
    <3>1. rd_result.stopped_by = "budget"
      BY <1>3, <2>3
    <3>2. n >= RoundPatience => k < n /\ n - k \in n - RoundPatience + 1..n
      BY <1>2, <1>4, <2>1, <2>3
    <3> QED BY <1>3, <1>5, <1>6, <3>1, <3>2
  <2> QED BY <2>2, <2>3
<1>13. PICK failed : failed = {r \in DOMAIN rd_log : r \notin TheRounds!Accepted
              /\ rd_state.history[r].winner.reason}
  OBVIOUS
<1>14. failed = Failed(h)
  BY <1>1, <1>4, <1>5, <1>13 DEF Failed, Taken
<1>15. TheRounds!ToSet(rd_state.lessons) = {r \in failed : TheRounds!Cardinality({q \in failed : q > r}) < RoundLessons}
  <2>1. {rd_state.lessons[i] : i \in DOMAIN rd_state.lessons} = {r \in Failed(h) : Cardinality({q \in Failed(h) : q > r}) < RoundLessons}
    BY <1>2, <1>4, LessonsAre
  <2>2. TheRounds!ToSet(rd_state.lessons) = {rd_state.lessons[i] : i \in DOMAIN rd_state.lessons}
    BY DEF TheRounds!ToSet
  <2>3. \A r : TheRounds!Cardinality({q \in failed : q > r}) = Cardinality({q \in failed : q > r})
    BY RoundSizes
  <2> QED BY <1>14, <2>1, <2>2, <2>3
<1>16. rd_result.rounds = Len(rd_log) /\ rd_result.rounds <= RoundBound
  BY <1>2, <1>3
<1> QED BY <1>7, <1>11, <1>12, <1>13, <1>15, <1>16 DEF TheRounds!BestIsKept

LEMMA AdversarialIsTold ==
  ASSUME rd_round \in Nat, AdversarialInv, rd_phase = "over"
  PROVE  TheRounds!CritiqueIsOfThePrior
<1>1. Len(rd_log) = rd_round /\ DOMAIN rd_log = 1..rd_round
        /\ \A r \in 1..rd_round : rd_log[r] = [prior |-> r - 1, critique |-> r - 1]
  BY DEF AdversarialInv
<1>2. PICK accept \in BOOLEAN : /\ rd_result = [candidate |-> rd_round, converged |-> accept, rounds |-> rd_round]
                                /\ ~accept => rd_round = RoundBound
  BY DEF AdversarialInv
<1> QED BY <1>1, <1>2 DEF TheRounds!CritiqueIsOfThePrior

LEMMA ConsensusIsTold ==
  ASSUME RoundsAssumption, rd_round \in Nat, ConsensusInv, rd_phase = "over"
  PROVE  /\ rd_result.results = rd_log[Len(rd_log)]
         /\ rd_result.converged <=> TheRounds!Cardinality({rd_result.results[m] : m \in RoundMembers}) = 1
         /\ \A r \in 1..Len(rd_log) - 1 : TheRounds!Cardinality({rd_log[r][m] : m \in RoundMembers}) > 1
<1>1. /\ Len(rd_log) = rd_round /\ rd_round >= 1 /\ (\A r \in 1..rd_round : rd_log[r] \in [RoundMembers -> 0..1])
      /\ \A r \in 1..rd_round - 1 : ~Agree(rd_log[r])
      /\ rd_result = [results |-> rd_log[rd_round], converged |-> Agree(rd_log[rd_round])]
  BY DEF ConsensusInv
<1>2. ASSUME NEW r \in 1..rd_round
      PROVE  /\ TheRounds!Cardinality({rd_log[r][m] : m \in RoundMembers}) = 1 <=> Agree(rd_log[r])
             /\ ~Agree(rd_log[r]) => TheRounds!Cardinality({rd_log[r][m] : m \in RoundMembers}) > 1
  <2>1. rd_log[r] \in [RoundMembers -> 0..1]
    BY <1>1
  <2>2. PICK S : S = {rd_log[r][m] : m \in RoundMembers}
    OBVIOUS
  <2>3. (Cardinality(S) = 1 <=> Agree(rd_log[r])) /\ (~Agree(rd_log[r]) => Cardinality(S) > 1)
    BY <2>1, <2>2, AgreeIs
  <2> QED BY <2>2, <2>3, RoundSizes
<1>3. rd_round \in 1..rd_round /\ \A r \in 1..rd_round - 1 : r \in 1..rd_round
  BY <1>1
<1>4. rd_result.results = rd_log[rd_round] /\ (rd_result.converged <=> Agree(rd_log[rd_round]))
  BY <1>1 DEF Agree
<1>5. rd_result.converged <=> TheRounds!Cardinality({rd_result.results[m] : m \in RoundMembers}) = 1
  <2>1. {rd_result.results[m] : m \in RoundMembers} = {rd_log[rd_round][m] : m \in RoundMembers}
    BY <1>4
  <2> QED BY <1>2, <1>3, <1>4, <2>1
<1>6. \A r \in 1..Len(rd_log) - 1 : TheRounds!Cardinality({rd_log[r][m] : m \in RoundMembers}) > 1
  BY <1>1, <1>2, <1>3
<1> QED BY <1>1, <1>4, <1>5, <1>6

LEMMA TournamentIsTold ==
  ASSUME RoundsAssumption, TournamentInv, rd_phase = "over"
  PROVE  TheRounds!OneLossEach
<1>1. ASSUME NEW m \in 1..RoundPlayers, NEW played, played = Played(rd_state.bracket, m), NEW lost,
               lost = Lost(rd_state.bracket, m)
      PROVE  IF m = rd_result THEN lost = {} ELSE lost = {TheRounds!Max(played)}
  <2>1. m \in Nat /\ ((In(m, rd_state.current) \/ In(m, rd_state.next)) <=> m = rd_result)
    BY DEF TournamentInv, RoundsAssumption
  <2>2. CASE m = rd_result
    BY <1>1, <2>1, <2>2 DEF TournamentInv
  <2>3. CASE m # rd_result
    <3>1. PICK i \in Nat : lost = {i} /\ i \in played /\ \A j \in played : j <= i
      BY <1>1, <2>1, <2>3 DEF TournamentInv
    <3>2. played \in SUBSET Nat
      BY <1>1, SMTT(20) DEF TournamentInv, Playing, Bouts, Played
    <3>3. TheRounds!Max(played) = i
      BY <3>1, <3>2, MaxIs
    <3> QED BY <2>3, <3>1, <3>3
  <2> QED BY <2>2, <2>3
<1>2. ASSUME NEW m \in 1..RoundPlayers
      PROVE  IF m = rd_result THEN Lost(rd_state.bracket, m) = {}
               ELSE Lost(rd_state.bracket, m) = {TheRounds!Max(Played(rd_state.bracket, m))}
  BY <1>1
<1> QED BY <1>2 DEF TheRounds!OneLossEach, Lost, Played

LEMMA RoundsTold ==
  ASSUME RoundsAssumption, RoundsInv
  PROVE  TheRounds!RoundsAreTold
<1>1. TheRounds!Done("improve") => TheRounds!BestIsKept
  BY ImproveIsTold DEF TheRounds!Done, RoundsInv
<1>2. TheRounds!Done("adversarial") => TheRounds!CritiqueIsOfThePrior
  BY AdversarialIsTold DEF TheRounds!Done, RoundsInv
<1>3. TheRounds!Done("consensus") =>
        /\ rd_result.results = rd_log[Len(rd_log)]
        /\ rd_result.converged <=> TheRounds!Cardinality({rd_result.results[m] : m \in RoundMembers}) = 1
        /\ \A r \in 1..Len(rd_log) - 1 : TheRounds!Cardinality({rd_log[r][m] : m \in RoundMembers}) > 1
  <2> SUFFICES ASSUME TheRounds!Done("consensus")
               PROVE  /\ rd_result.results = rd_log[Len(rd_log)]
                      /\ rd_result.converged <=> TheRounds!Cardinality({rd_result.results[m] : m \in RoundMembers}) = 1
                      /\ \A r \in 1..Len(rd_log) - 1 : TheRounds!Cardinality({rd_log[r][m] : m \in RoundMembers}) > 1
    OBVIOUS
  <2>1. rd_round \in Nat /\ ConsensusInv /\ rd_phase = "over"
    BY DEF TheRounds!Done, RoundsInv
  <2> QED BY <2>1, ConsensusIsTold
<1>4. TheRounds!Done("tournament") => TheRounds!OneLossEach
  BY TournamentIsTold DEF TheRounds!Done, RoundsInv
<1> QED BY <1>1, <1>2, <1>3, <1>4 DEF TheRounds!RoundsAreTold

ASSUME RoundsFit == RoundsAssumption

LEMMA RoundsKeep == RoundsInv /\ [TheRounds!Next]_(TheRounds!vars) => RoundsInv'
<1> SUFFICES ASSUME RoundsInv, [TheRounds!Next]_(TheRounds!vars) PROVE RoundsInv'
  OBVIOUS
<1>1. CASE TheRounds!ImproveRound BY <1>1, RoundsFit, ImprovesOK
<1>2. CASE TheRounds!ImproveGuard BY <1>2, RoundsFit, ImproveStopsOK
<1>3. CASE TheRounds!AdversarialRound BY <1>3, RoundsFit, AdversarialRoundOK
<1>4. CASE TheRounds!AdversarialGuard BY <1>4, RoundsFit, AdversarialGuardOK
<1>5. CASE TheRounds!ConsensusRound BY <1>5, RoundsFit, ConsensusRoundOK
<1>6. CASE TheRounds!ConsensusGuard BY <1>6, RoundsFit, ConsensusGuardOK
<1>7. CASE TheRounds!Match BY <1>7, RoundsFit, MatchOK
<1>8. CASE TheRounds!NextRound BY <1>8, RoundsFit, NextRoundOK
<1>9. CASE UNCHANGED TheRounds!vars BY <1>9, RoundsStay
<1> QED BY <1>1, <1>2, <1>3, <1>4, <1>5, <1>6, <1>7, <1>8, <1>9 DEF TheRounds!Next

(* What the composites that go in rounds return is what their rounds show  *)
(* (src/composites: improve, ensemble_step, adversarial, consensus,        *)
(* tournament): improve, the candidate of the last round that beat all     *)
(* before it, with the plateau and the lessons that its rounds had; the    *)
(* adversary, the last build, each made with the critique of the one       *)
(* before it; consensus, the last round, alone in agreeing when it         *)
(* converged; a tournament, the one player that lost no match, the others  *)
(* having lost their last.  For any members, players, scores and bounds.   *)
THEOREM RoundsAreToldTruly == TheRounds!Spec => []RoundsAreTold
<1>1. TheRounds!Init => RoundsInv
  BY RoundsFit, RoundsBegin
<1>2. RoundsInv => RoundsAreTold
  BY RoundsFit, RoundsTold DEF RoundsAreTold
<1> QED BY <1>1, <1>2, RoundsKeep, PTL DEF TheRounds!Spec
=============================================================================
