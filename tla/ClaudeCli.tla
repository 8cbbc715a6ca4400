------------------------------ MODULE ClaudeCli ------------------------------
(* The claude_cli provider: a call runs the claude binary in a process     *)
(* group of its own, once to read its version when it is sandboxed, once   *)
(* for the answer and once more per schema repair, and every run can be    *)
(* cut short by the caller's signal, by two timers and by dispose.         *)
(*                                                                         *)
(* src/src/engine/providers/claude_cli/{adapter,spawn,version}.ts.  A run  *)
(* closes when its output does: claude itself, and what it left behind     *)
(* with its output open, must both be gone.  The text of the answer is     *)
(* left out; a consumer of the chunks may throw.                           *)
EXTENDS Naturals, FiniteSets, TLAPS

CONSTANTS
  Calls,        \* the calls of generate of one adapter
  MaxRepairs,   \* schema_repair_attempts
  Sandboxed,    \* whether the version is checked first
  Forking,      \* calls whose claude may leave a process with its output
  Throwing      \* calls whose on_chunk may throw

ASSUME CliAssumption ==
  /\ MaxRepairs \in Nat /\ Sandboxed \in BOOLEAN
  /\ Forking \subseteq Calls /\ Throwing \subseteq Calls

VARIABLES
  at,         \* where each call is
  repairs,    \* repairs it has done
  abort,      \* who aborted its controller, "caller" or "engine", or "none"
  out,        \* how it settled
  passed,     \* the version gate has seen a version it accepts
  child,      \* the last process of each call
  disposal,   \* of the adapter: "no", "waiting" or "done"
  awaited,    \* calls whose child dispose_all waits for
  killing     \* calls whose child dispose_all is going to kill

vars == <<at, repairs, abort, out, passed, child, disposal, awaited, killing>>

(* leader: claude itself, exited with a code or killed by a signal; helper *)
(* a process it left; reason why it was told to stop; failure the timer    *)
(* that has fired; armed whether a SIGKILL is due.                         *)
NoChild == [leader |-> "none", code |-> "none", helper |-> FALSE, closed |-> TRUE, heard |-> FALSE,
            termed |-> FALSE, reason |-> "none", failure |-> "none", armed |-> FALSE]

Init ==
  /\ at = [c \in Calls |-> "idle"]
  /\ repairs = [c \in Calls |-> 0]
  /\ abort = [c \in Calls |-> "none"]
  /\ passed = FALSE
  /\ out = [c \in Calls |-> "none"]
  /\ child = [c \in Calls |-> NoChild]
  /\ disposal = "no" /\ awaited = {} /\ killing = {}

live_children == {c \in Calls : ~child[c].closed}

----------------------------------------------------------------------------
(* Processes.                                                              *)

(* send_signal: to the group, unless there is no leader or it has exited   *)
(* with a code.                                                            *)
send_signal(p, signal) ==
  IF p.leader \in {"none", "exited"} THEN p
  ELSE IF signal = "SIGTERM" THEN [p EXCEPT !.termed = TRUE]
  ELSE [p EXCEPT !.leader = "killed", !.code = "none", !.helper = FALSE]

(* Mutant: a process that is told to stop is never killed. *)
escalate_politely(p, reason) ==
  IF p.reason # "none" THEN p
  ELSE [send_signal(p, "SIGTERM") EXCEPT !.reason = reason]

(* The first reason counts. *)
escalate(p, reason) ==
  IF p.reason # "none" THEN p
  ELSE [send_signal(p, "SIGTERM") EXCEPT !.reason = reason, !.armed = TRUE]

(* claude ends by itself, or on a SIGTERM it catches; or it dies of one. *)
LeaderEnds(c) ==
  /\ child[c].leader = "running"
  /\ \/ \E code \in {"zero", "nonzero"} :
          child' = [child EXCEPT ![c].leader = "exited", ![c].code = code]
     \/ child[c].termed /\ child' = [child EXCEPT ![c].leader = "killed"]
  /\ UNCHANGED <<at, repairs, abort, out, passed, disposal, awaited, killing>>

HelperStarts(c) ==
  /\ c \in Forking /\ child[c].leader = "running" /\ ~child[c].helper
  /\ child' = [child EXCEPT ![c].helper = TRUE]
  /\ UNCHANGED <<at, repairs, abort, out, passed, disposal, awaited, killing>>

HelperEnds(c) ==
  /\ child[c].helper
  /\ child' = [child EXCEPT ![c].helper = FALSE]
  /\ UNCHANGED <<at, repairs, abort, out, passed, disposal, awaited, killing>>

Output(c) ==
  /\ (child[c].leader = "running" \/ child[c].helper) /\ ~child[c].heard
  /\ child' = [child EXCEPT ![c].heard = TRUE]
  /\ UNCHANGED <<at, repairs, abort, out, passed, disposal, awaited, killing>>

(* No output for a while, from the start or since the last of it. *)
QuietTimerFires(c) ==
  /\ ~child[c].closed /\ child[c].failure = "none"
  /\ LET failure == IF child[c].heard THEN "stall_timeout" ELSE "startup_timeout"
     IN child' = [child EXCEPT ![c] = escalate([@ EXCEPT !.failure = failure], "timeout")]
  /\ UNCHANGED <<at, repairs, abort, out, passed, disposal, awaited, killing>>

SigkillTimerFires(c) ==
  /\ ~child[c].closed /\ child[c].armed
  /\ child' = [child EXCEPT ![c] = [send_signal(@, "SIGKILL") EXCEPT !.armed = FALSE]]
  /\ UNCHANGED <<at, repairs, abort, out, passed, disposal, awaited, killing>>

----------------------------------------------------------------------------
(* Calls.                                                                  *)

(* A call in one of these is in in_flight, linked to its caller's signal. *)
InFlight == {c \in Calls : at[c] \in {"gate", "run"}}

Settle(c, result) ==
  /\ at' = [at EXCEPT ![c] = "settled"]
  /\ out' = [out EXCEPT ![c] = result]

(* spawn_cli: nothing is spawned under a signal that has fired, and the    *)
(* binary may not be there.                                                *)
Spawn(c, stage) ==
  \/ /\ abort[c] # "none"
     /\ Settle(c, "aborted") /\ UNCHANGED child
  \/ /\ abort[c] = "none"
     /\ at' = [at EXCEPT ![c] = stage]
     /\ UNCHANGED out
     /\ child' \in {[child EXCEPT ![c] = [NoChild EXCEPT !.closed = FALSE, !.leader = "running"]],
                    [child EXCEPT ![c] = [NoChild EXCEPT !.closed = FALSE, !.failure = "binary_not_found"]]}

(* Mutant: a call goes ahead on an adapter that has been disposed of. *)
GenerateAnyway(c) ==
  /\ at[c] = "idle"
  /\ Spawn(c, IF Sandboxed /\ ~passed THEN "gate" ELSE "run")
  /\ UNCHANGED <<repairs, abort, passed, disposal, awaited, killing>>

Generate(c) ==
  /\ at[c] = "idle"
  /\ \/ disposal # "no" /\ Settle(c, "engine_disposed") /\ UNCHANGED child
     \/ disposal = "no" /\ Spawn(c, IF Sandboxed /\ ~passed THEN "gate" ELSE "run")
  /\ UNCHANGED <<repairs, abort, passed, disposal, awaited, killing>>

(* The process is gone, and so is what held its output. *)
Close(c) ==
  /\ ~child[c].closed /\ child[c].leader # "running" /\ ~child[c].helper
  /\ child' = [child EXCEPT ![c].closed = TRUE, ![c].armed = FALSE]
  /\ awaited' = awaited \ {c}
  /\ UNCHANGED <<at, repairs, abort, out, passed, disposal, killing>>

(* What a run that closed comes to: wait_close, then its code and answer,  *)
(* which may be a version too old or one that does not fit the schema.     *)
Verdicts(c) ==
  IF child[c].failure # "none" THEN {child[c].failure}
  ELSE IF child[c].reason = "abort" THEN {"aborted"}
  ELSE IF at[c] = "gate"
  THEN {"sandbox_unavailable"} \cup (IF child[c].code = "zero" THEN {"fits"} ELSE {})
  ELSE IF child[c].code = "zero" THEN {"no_result_event", "fits", "misfits"} ELSE {"subprocess_exit"}

(* The call goes on when its run has closed. *)
PassesGate(c) ==
  /\ at[c] = "gate" /\ child[c].closed /\ "fits" \in Verdicts(c)
  /\ passed' = TRUE
  /\ Spawn(c, "run")
  /\ UNCHANGED <<repairs, abort, disposal, awaited, killing>>

Repairs(c) ==
  /\ at[c] = "run" /\ child[c].closed /\ "misfits" \in Verdicts(c)
  /\ repairs[c] < MaxRepairs
  /\ repairs' = [repairs EXCEPT ![c] = @ + 1]
  /\ Spawn(c, "run")
  /\ UNCHANGED <<abort, passed, disposal, awaited, killing>>

Ends(c) ==
  /\ c \in InFlight /\ child[c].closed
  /\ \E verdict \in Verdicts(c) :
       /\ verdict = "fits" => at[c] = "run"
       /\ Settle(c, IF verdict = "fits" THEN "ok"
                    ELSE IF verdict = "misfits" THEN "schema_validation_error" ELSE verdict)
  /\ UNCHANGED <<repairs, abort, passed, child, disposal, awaited, killing>>

(* The caller's on_chunk throws, which ends the call and not its process. *)
ConsumerThrows(c) ==
  /\ c \in Throwing /\ at[c] = "run" /\ child[c].heard
  /\ Settle(c, "consumer_error")
  /\ UNCHANGED <<repairs, abort, passed, child, disposal, awaited, killing>>

----------------------------------------------------------------------------

(* The controllers of some calls are aborted. *)
Aborting(cs, reason) == [c \in Calls |-> IF c \in cs /\ abort[c] = "none" THEN reason ELSE abort[c]]

Told(cs) ==
  [c \in Calls |-> IF c \in cs /\ abort[c] = "none" /\ ~child[c].closed
                   THEN escalate(child[c], "abort") ELSE child[c]]

CallerAborts(c) ==
  /\ c \in InFlight /\ abort[c] = "none"
  /\ abort' = Aborting({c}, "caller")
  /\ child' = Told({c})
  /\ UNCHANGED <<at, repairs, out, passed, disposal, awaited, killing>>

(* dispose: every call is aborted; and dispose_all tells every child, once *)
(* more, and waits for those that have not exited.                         *)
Dispose ==
  /\ disposal = "no" /\ disposal' = "waiting"
  /\ abort' = Aborting(InFlight, "engine")
  /\ LET pending == {c \in live_children : child[c].leader # "exited"}
     IN /\ child' = [c \in Calls |-> IF c \in pending THEN send_signal(Told(InFlight)[c], "SIGTERM")
                                     ELSE Told(InFlight)[c]]
        /\ awaited' = pending
        /\ killing' = {c \in pending : child[c].leader # "none"}
  /\ UNCHANGED <<at, repairs, out, passed>>

DisposeKills(c) ==
  /\ c \in killing /\ killing' = killing \ {c}
  /\ child' = [child EXCEPT ![c] = send_signal(@, "SIGKILL")]
  /\ UNCHANGED <<at, repairs, abort, out, passed, disposal, awaited>>

Disposed ==
  /\ disposal = "waiting" /\ awaited = {}
  /\ disposal' = "done"
  /\ UNCHANGED <<at, repairs, abort, out, passed, child, awaited, killing>>

----------------------------------------------------------------------------

Proceed(c) == Close(c) \/ PassesGate(c) \/ Repairs(c) \/ Ends(c)

Next ==
  \/ \E c \in Calls :
       \/ Generate(c) \/ Proceed(c) \/ ConsumerThrows(c) \/ CallerAborts(c)
       \/ LeaderEnds(c) \/ HelperStarts(c) \/ HelperEnds(c) \/ Output(c)
       \/ QuietTimerFires(c) \/ SigkillTimerFires(c) \/ DisposeKills(c)
  \/ Dispose \/ Disposed

Spec == Init /\ [][Next]_vars

(* The event loop goes on and the timers of a SIGKILL fire.  claude need   *)
(* not end or heed a SIGTERM, nor is any other timer needed.               *)
FairSpec ==
  /\ Spec
  /\ WF_vars(Disposed)
  /\ \A c \in Calls : WF_vars(Proceed(c)) /\ WF_vars(SigkillTimerFires(c)) /\ WF_vars(DisposeKills(c))

----------------------------------------------------------------------------
(* Properties.                                                             *)

(* Every variable has values of its type.                                  *)
TypeOK ==
  /\ at \in [Calls -> {"idle", "gate", "run", "settled"}]
  /\ repairs \in [Calls -> 0 .. MaxRepairs]
  /\ abort \in [Calls -> {"none", "caller", "engine"}]
  /\ passed \in BOOLEAN
  /\ disposal \in {"no", "waiting", "done"}
  /\ awaited \subseteq Calls /\ killing \subseteq Calls
  /\ \A c \in Calls :
       /\ child[c].leader \in {"none", "running", "exited", "killed"}
       /\ child[c].reason \in {"none", "abort", "timeout"}
       /\ child[c].failure \in {"none", "binary_not_found", "startup_timeout", "stall_timeout"}
       /\ child[c].armed => child[c].reason # "none" /\ ~child[c].closed

(* Nothing is started on an adapter that has been disposed of, not by a    *)
(* call that was between two runs, or about to start its first, either.    *)
NothingStartsAfterDispose == [][disposal # "no" => live_children' \subseteq live_children]_vars

(* A process that claude left, with its output, after claude had exited    *)
(* with a code.                                                            *)
Held(c) == child[c].leader = "exited" /\ child[c].helper

(* When dispose returns, every process of the adapter is gone, but for     *)
(* those that a claude which had exited left behind.                       *)
DisposeEndsAll ==
  disposal = "done" => \A c \in Calls : child[c].leader # "running" /\ (child[c].helper => Held(c))

(* A call that has settled has left no process behind, unless its consumer *)
(* ended it.                                                               *)
SettledIsOver ==
  \A c \in Calls : at[c] = "settled" /\ out[c] # "consumer_error" => child[c].closed

(* Dispose ends every child, a settled call is over, and nothing starts    *)
(* once the adapter is disposed of (spawn.ts, adapter.ts).                 *)
CliHolds == [](DisposeEndsAll /\ SettledIsOver) /\ NothingStartsAfterDispose

(* A call whose signal has fired settles, even if claude heeds no SIGTERM. *)
AbortEndsCall == \A c \in Calls : abort[c] # "none" ~> at[c] = "settled"

(* The same, but for a call whose run is held open.                        *)
AbortEndsUnlessHeld == \A c \in Calls : abort[c] # "none" ~> at[c] = "settled" \/ Held(c)

----------------------------------------------------------------------------
(* Proofs: what a call and dispose leave of the processes of an adapter,   *)
(* for any number of calls and repairs.                                    *)

ChildType ==
  [leader : {"none", "running", "exited", "killed"}, code : {"none", "zero", "nonzero"},
   helper : BOOLEAN, closed : BOOLEAN, heard : BOOLEAN, termed : BOOLEAN,
   reason : {"none", "abort", "timeout"},
   failure : {"none", "binary_not_found", "startup_timeout", "stall_timeout"}, armed : BOOLEAN]

ShapeInv ==
  /\ at \in [Calls -> {"idle", "gate", "run", "settled"}]
  /\ repairs \in [Calls -> 0 .. MaxRepairs]
  /\ abort \in [Calls -> {"none", "caller", "engine"}]
  /\ passed \in BOOLEAN
  /\ disposal \in {"no", "waiting", "done"}
  /\ awaited \subseteq Calls /\ killing \subseteq Calls
  /\ child \in [Calls -> ChildType]
  /\ DOMAIN out = Calls

(* What is known of a process alone.  Only a live one has a timer armed,   *)
(* and what has closed is gone with all that it left.                      *)
Sound(p) ==
  /\ p.armed => p.reason # "none" /\ ~p.closed
  /\ p.closed => p.leader # "running" /\ ~p.helper

(* A call begins and settles with no process, and once the adapter is      *)
(* disposed of no call in flight may start another: its signal has fired.  *)
CallInv(c) ==
  /\ Sound(child[c])
  /\ at[c] = "idle" => child[c].closed
  /\ at[c] = "settled" /\ out[c] # "consumer_error" => child[c].closed
  /\ disposal # "no" /\ at[c] \in {"gate", "run"} => abort[c] # "none"
  /\ disposal # "no" => child[c].closed \/ c \in awaited \/ child[c].leader = "exited"

CliInv ==
  /\ ShapeInv
  /\ \A c \in Calls : CallInv(c)
  /\ disposal = "done" => awaited = {}

(* What a step has to be shown to do: to keep the invariant, and to start  *)
(* no process once dispose has begun.                                      *)
StepOK ==
  /\ CliInv'
  /\ disposal # "no" => \A c \in Calls : child[c].closed => child'[c].closed

----------------------------------------------------------------------------
(* The processes. *)

LEMMA NoChildIsOne == NoChild \in ChildType /\ Sound(NoChild)
BY DEF NoChild, ChildType, Sound

LEMMA Signals ==
  ASSUME NEW p \in ChildType, NEW signal
  PROVE  /\ send_signal(p, signal) \in ChildType
         /\ send_signal(p, signal).closed = p.closed
         /\ send_signal(p, signal).armed = p.armed /\ send_signal(p, signal).reason = p.reason
         /\ p.leader = "exited" => send_signal(p, signal) = p
         /\ Sound(p) => Sound(send_signal(p, signal))
<1>1. CASE p.leader \in {"none", "exited"}
  BY <1>1 DEF send_signal
<1>2. CASE p.leader \notin {"none", "exited"} /\ signal = "SIGTERM"
  <2>1. send_signal(p, signal) = [p EXCEPT !.termed = TRUE]
    BY <1>2 DEF send_signal
  <2> QED BY <1>2, <2>1 DEF ChildType, Sound
<1>3. CASE p.leader \notin {"none", "exited"} /\ signal # "SIGTERM"
  <2>1. send_signal(p, signal) = [p EXCEPT !.leader = "killed", !.code = "none", !.helper = FALSE]
    BY <1>3 DEF send_signal
  <2> QED BY <1>3, <2>1 DEF ChildType, Sound
<1> QED BY <1>1, <1>2, <1>3

LEMMA Escalates ==
  ASSUME NEW p \in ChildType, NEW reason \in {"abort", "timeout"}
  PROVE  /\ escalate(p, reason) \in ChildType
         /\ escalate(p, reason).closed = p.closed
         /\ p.leader = "exited" => escalate(p, reason).leader = "exited"
         /\ Sound(p) /\ ~p.closed => Sound(escalate(p, reason))
<1> DEFINE q == send_signal(p, "SIGTERM")
<1>1. /\ q \in ChildType /\ q.closed = p.closed /\ (p.leader = "exited" => q = p) /\ (Sound(p) => Sound(q))
  BY Signals
<1> HIDE DEF q
<1>2. CASE p.reason # "none"
  BY <1>2 DEF escalate
<1>3. CASE p.reason = "none"
  <2>1. escalate(p, reason) = [q EXCEPT !.reason = reason, !.armed = TRUE]
    BY <1>3 DEF escalate, q
  <2> QED BY <1>1, <2>1 DEF ChildType, Sound
<1> QED BY <1>2, <1>3

----------------------------------------------------------------------------
(* A step that changes processes alone: none of them is started, and one   *)
(* that has exited stays so.                                               *)

Later(q, p) ==
  /\ q \in ChildType /\ q.closed = p.closed
  /\ Sound(p) => Sound(q)
  /\ p.leader = "exited" => q.leader = "exited"

LEMMA ChildrenStep ==
  ASSUME CliInv, UNCHANGED <<at, repairs, out, passed, disposal, awaited>>, killing' \subseteq killing,
         abort' \in [Calls -> {"none", "caller", "engine"}],
         \A c \in Calls : abort[c] # "none" => abort'[c] # "none",
         child' = [c \in Calls |-> child'[c]],
         \A c \in Calls : Later(child'[c], child[c])
  PROVE  StepOK
<1>1. ShapeInv'
  <2>1. child' \in [Calls -> ChildType]
    BY DEF Later
  <2> QED BY <2>1 DEF CliInv, ShapeInv
<1>2. \A c \in Calls : CallInv(c)'
  BY DEF CliInv, CallInv, Later
<1> QED BY <1>1, <1>2 DEF CliInv, StepOK, Later

LEMMA ChildStep ==
  ASSUME CliInv, UNCHANGED <<at, repairs, abort, out, passed, disposal, awaited>>, killing' \subseteq killing,
         NEW c \in Calls, NEW p, child' = [child EXCEPT ![c] = p], Later(p, child[c])
  PROVE  StepOK
<1>1. \A d \in Calls : child[d] \in ChildType
  BY DEF CliInv, ShapeInv
<1>2. child' = [d \in Calls |-> child'[d]]
  BY DEF CliInv, ShapeInv
<1>3. \A d \in Calls : Later(child'[d], child[d])
  BY <1>1 DEF CliInv, ShapeInv, Later
<1>4. abort' \in [Calls -> {"none", "caller", "engine"}] /\ abort' = abort
  BY DEF CliInv, ShapeInv
<1> QED BY <1>2, <1>3, <1>4, ChildrenStep

LEMMA ProcessStep ==
  ASSUME CliInv, NEW c \in Calls, LeaderEnds(c) \/ HelperStarts(c) \/ HelperEnds(c) \/ Output(c)
  PROVE  StepOK
<1>1. child[c] \in ChildType /\ DOMAIN child = Calls
  BY DEF CliInv, ShapeInv
<1>2. PICK p : child' = [child EXCEPT ![c] = p] /\ Later(p, child[c])
  <2>1. CASE LeaderEnds(c)
    <3>1. CASE \E code \in {"zero", "nonzero"} : child' = [child EXCEPT ![c].leader = "exited", ![c].code = code]
      <4>1. PICK code \in {"zero", "nonzero"} : child' = [child EXCEPT ![c].leader = "exited", ![c].code = code]
        BY <3>1
      <4> DEFINE p == [child[c] EXCEPT !.leader = "exited", !.code = code]
      <4>2. child' = [child EXCEPT ![c] = p]
        BY <4>1, <1>1
      <4>3. Later(p, child[c])
        BY <1>1 DEF Later, ChildType, Sound
      <4> QED BY <4>2, <4>3
    <3>2. CASE child' = [child EXCEPT ![c].leader = "killed"]
      <4> DEFINE p == [child[c] EXCEPT !.leader = "killed"]
      <4>1. child' = [child EXCEPT ![c] = p]
        BY <3>2, <1>1
      <4>2. Later(p, child[c])
        BY <1>1, <2>1 DEF Later, ChildType, Sound, LeaderEnds
      <4> QED BY <4>1, <4>2
    <3> QED BY <2>1, <3>1, <3>2 DEF LeaderEnds
  <2>2. CASE HelperStarts(c)
    <3> DEFINE p == [child[c] EXCEPT !.helper = TRUE]
    <3>1. child' = [child EXCEPT ![c] = p]
      BY <2>2, <1>1 DEF HelperStarts
    <3>2. Later(p, child[c])
      BY <1>1, <2>2 DEF Later, ChildType, Sound, HelperStarts
    <3> QED BY <3>1, <3>2
  <2>3. CASE HelperEnds(c)
    <3> DEFINE p == [child[c] EXCEPT !.helper = FALSE]
    <3>1. child' = [child EXCEPT ![c] = p]
      BY <2>3, <1>1 DEF HelperEnds
    <3>2. Later(p, child[c])
      BY <1>1 DEF Later, ChildType, Sound
    <3> QED BY <3>1, <3>2
  <2>4. CASE Output(c)
    <3> DEFINE p == [child[c] EXCEPT !.heard = TRUE]
    <3>1. child' = [child EXCEPT ![c] = p]
      BY <2>4, <1>1 DEF Output
    <3>2. Later(p, child[c])
      BY <1>1 DEF Later, ChildType, Sound
    <3> QED BY <3>1, <3>2
  <2> QED BY <2>1, <2>2, <2>3, <2>4
<1>3. UNCHANGED <<at, repairs, abort, out, passed, disposal, awaited, killing>>
  BY DEF LeaderEnds, HelperStarts, HelperEnds, Output
<1> QED BY <1>2, <1>3, ChildStep

LEMMA TimerStep ==
  ASSUME CliInv, NEW c \in Calls, QuietTimerFires(c) \/ SigkillTimerFires(c) \/ DisposeKills(c)
  PROVE  StepOK
<1>1. child[c] \in ChildType /\ DOMAIN child = Calls
  BY DEF CliInv, ShapeInv
<1>2. PICK p : child' = [child EXCEPT ![c] = p] /\ Later(p, child[c])
  <2>1. CASE QuietTimerFires(c)
    <3> DEFINE failed(f) == [child[c] EXCEPT !.failure = f]
    <3>1. PICK f \in {"stall_timeout", "startup_timeout"} : child' = [child EXCEPT ![c] = escalate(failed(f), "timeout")]
      BY <1>1, <2>1 DEF QuietTimerFires
    <3>2. /\ failed(f) \in ChildType /\ failed(f).closed = child[c].closed
          /\ failed(f).leader = child[c].leader
          /\ Sound(child[c]) => Sound(failed(f))
          /\ ~child[c].closed
      BY <1>1, <2>1 DEF ChildType, Sound, QuietTimerFires
    <3> HIDE DEF failed
    <3>3. Later(escalate(failed(f), "timeout"), child[c])
      BY <3>2, Escalates DEF Later
    <3> QED BY <3>1, <3>3
  <2>2. CASE SigkillTimerFires(c)
    <3> DEFINE q == send_signal(child[c], "SIGKILL")
               p == [q EXCEPT !.armed = FALSE]
    <3>1. child' = [child EXCEPT ![c] = p]
      BY <1>1, <2>2 DEF SigkillTimerFires
    <3>2. /\ q \in ChildType /\ q.closed = child[c].closed
          /\ child[c].leader = "exited" => q = child[c]
          /\ Sound(child[c]) => Sound(q)
      BY <1>1, Signals
    <3> HIDE DEF q
    <3>3. Later(p, child[c])
      BY <1>1, <3>2 DEF Later, ChildType, Sound
    <3> QED BY <3>1, <3>3
  <2>3. CASE DisposeKills(c)
    <3>1. child' = [child EXCEPT ![c] = send_signal(child[c], "SIGKILL")]
      BY <1>1, <2>3 DEF DisposeKills
    <3>2. Later(send_signal(child[c], "SIGKILL"), child[c])
      BY <1>1, Signals DEF Later
    <3> QED BY <3>1, <3>2
  <2> QED BY <2>1, <2>2, <2>3
<1>3. UNCHANGED <<at, repairs, abort, out, passed, disposal, awaited>> /\ killing' \subseteq killing
  BY DEF QuietTimerFires, SigkillTimerFires, DisposeKills
<1> QED BY <1>2, <1>3, ChildStep

----------------------------------------------------------------------------
(* The signals of the callers, and dispose. *)

LEMMA Aborts ==
  ASSUME CliInv, NEW cs \in SUBSET Calls, NEW reason \in {"caller", "engine"}
  PROVE  /\ Aborting(cs, reason) \in [Calls -> {"none", "caller", "engine"}]
         /\ \A c \in Calls : abort[c] # "none" => Aborting(cs, reason)[c] # "none"
         /\ \A c \in cs : Aborting(cs, reason)[c] # "none"
         /\ Told(cs) = [c \in Calls |-> Told(cs)[c]]
         /\ \A c \in Calls : Later(Told(cs)[c], child[c])
<1>1. ASSUME NEW c \in Calls PROVE Later(Told(cs)[c], child[c])
  <2>1. child[c] \in ChildType
    BY DEF CliInv, ShapeInv
  <2>2. CASE c \in cs /\ abort[c] = "none" /\ ~child[c].closed
    <3>1. Told(cs)[c] = escalate(child[c], "abort")
      BY <2>2 DEF Told
    <3> QED BY <2>1, <2>2, <3>1, Escalates DEF Later
  <2>3. CASE ~(c \in cs /\ abort[c] = "none" /\ ~child[c].closed)
    <3>1. Told(cs)[c] = child[c]
      BY <2>3 DEF Told
    <3> QED BY <2>1, <3>1 DEF Later
  <2> QED BY <2>2, <2>3
<1>2. /\ Aborting(cs, reason) \in [Calls -> {"none", "caller", "engine"}]
      /\ \A c \in Calls : abort[c] # "none" => Aborting(cs, reason)[c] # "none"
      /\ \A c \in cs : Aborting(cs, reason)[c] # "none"
  BY DEF Aborting, CliInv, ShapeInv
<1>3. Told(cs) = [c \in Calls |-> Told(cs)[c]]
  BY DEF Told
<1> QED BY <1>1, <1>2, <1>3

LEMMA CallerAbortsStep == ASSUME CliInv, NEW c \in Calls, CallerAborts(c) PROVE StepOK
<1>1. /\ abort' = Aborting({c}, "caller") /\ child' = Told({c})
      /\ UNCHANGED <<at, repairs, out, passed, disposal, awaited, killing>>
  BY DEF CallerAborts
<1>2. /\ Aborting({c}, "caller") \in [Calls -> {"none", "caller", "engine"}]
      /\ \A d \in Calls : abort[d] # "none" => Aborting({c}, "caller")[d] # "none"
      /\ Told({c}) = [d \in Calls |-> Told({c})[d]]
      /\ \A d \in Calls : Later(Told({c})[d], child[d])
  BY Aborts
<1> QED BY <1>1, <1>2, ChildrenStep

LEMMA DisposeStep == CliInv /\ Dispose => StepOK
<1> SUFFICES ASSUME CliInv, Dispose PROVE StepOK
  OBVIOUS
<1> DEFINE pending == {c \in live_children : child[c].leader # "exited"}
<1>1. /\ disposal = "no" /\ disposal' = "waiting" /\ abort' = Aborting(InFlight, "engine")
      /\ child' = [c \in Calls |-> IF c \in pending THEN send_signal(Told(InFlight)[c], "SIGTERM") ELSE Told(InFlight)[c]]
      /\ awaited' = pending /\ killing' \subseteq pending
      /\ UNCHANGED <<at, repairs, out, passed>>
  BY DEF Dispose
<1>2. pending \subseteq Calls /\ InFlight \subseteq Calls
  BY DEF live_children, InFlight
<1>3. /\ abort' \in [Calls -> {"none", "caller", "engine"}]
      /\ \A c \in Calls : at[c] \in {"gate", "run"} => abort'[c] # "none"
      /\ \A c \in Calls : Later(Told(InFlight)[c], child[c])
  BY <1>1, <1>2, Aborts DEF InFlight
<1>4. ASSUME NEW c \in Calls
      PROVE  Later(child'[c], child[c]) /\ (child[c].closed \/ c \in awaited' \/ child'[c].leader = "exited")
  <2>1. child[c] \in ChildType
    BY DEF CliInv, ShapeInv
  <2>2. CASE c \in pending
    <3>1. child'[c] = send_signal(Told(InFlight)[c], "SIGTERM")
      BY <1>1, <2>2
    <3>2. Told(InFlight)[c] \in ChildType
      BY <1>3 DEF Later
    <3>3. Later(child'[c], child[c])
      BY <1>3, <3>1, <3>2, Signals DEF Later
    <3> QED BY <1>1, <2>2, <3>3
  <2>3. CASE c \notin pending
    <3>1. child'[c] = Told(InFlight)[c]
      BY <1>1, <2>3
    <3>2. child[c].closed \/ child[c].leader = "exited"
      BY <2>3 DEF live_children
    <3> QED BY <1>3, <3>1, <3>2 DEF Later
  <2> QED BY <2>2, <2>3
<1> HIDE DEF pending
<1>5. ShapeInv'
  <2>1. child' \in [Calls -> ChildType]
    BY <1>1, <1>4 DEF Later
  <2> QED BY <1>1, <1>2, <1>3, <2>1 DEF CliInv, ShapeInv
<1>6. \A c \in Calls : CallInv(c)'
  BY <1>1, <1>3, <1>4 DEF CliInv, CallInv, Later
<1> QED BY <1>1, <1>5, <1>6 DEF CliInv, StepOK

LEMMA DisposedStep == CliInv /\ Disposed => StepOK
<1> SUFFICES ASSUME CliInv, Disposed PROVE StepOK
  OBVIOUS
<1>1. ShapeInv'
  BY DEF CliInv, ShapeInv, Disposed
<1>2. \A d \in Calls : CallInv(d)'
  BY DEF CliInv, CallInv, Disposed
<1> QED BY <1>1, <1>2 DEF CliInv, StepOK, Disposed

----------------------------------------------------------------------------
(* The calls. *)

(* A call in which a process may start.  None does once dispose has begun. *)
LEMMA SpawnStep ==
  ASSUME CliInv, NEW c \in Calls, NEW stage \in {"gate", "run"}, Spawn(c, stage),
         child[c].closed, at[c] # "settled", at[c] = "idle" => disposal = "no",
         repairs' \in [Calls -> 0 .. MaxRepairs], passed' \in BOOLEAN, UNCHANGED <<abort, disposal, awaited, killing>>
  PROVE  StepOK
<1>1. CASE abort[c] # "none"
  <2>1. Settle(c, "aborted") /\ child' = child
    BY <1>1 DEF Spawn
  <2>2. ShapeInv'
    BY <2>1 DEF CliInv, ShapeInv, Settle
  <2>3. \A d \in Calls : CallInv(d)'
    BY <2>1 DEF CliInv, ShapeInv, CallInv, Settle
  <2> QED BY <2>1, <2>2, <2>3 DEF CliInv, StepOK
<1>2. CASE abort[c] = "none"
  <2>1. disposal = "no"
    BY <1>2 DEF CliInv, CallInv, ShapeInv
  <2>2. PICK p \in {[NoChild EXCEPT !.closed = FALSE, !.leader = "running"],
                    [NoChild EXCEPT !.closed = FALSE, !.failure = "binary_not_found"]} :
          child' = [child EXCEPT ![c] = p]
    BY <1>2 DEF Spawn
  <2>3. at' = [at EXCEPT ![c] = stage] /\ out' = out
    BY <1>2 DEF Spawn
  <2>4. p \in ChildType /\ Sound(p)
    BY DEF NoChild, ChildType, Sound
  <2>5. ShapeInv'
    BY <2>2, <2>3, <2>4 DEF CliInv, ShapeInv
  <2>6. \A d \in Calls : CallInv(d)'
    BY <2>1, <2>2, <2>3, <2>4 DEF CliInv, ShapeInv, CallInv
  <2> QED BY <2>1, <2>5, <2>6 DEF CliInv, StepOK
<1> QED BY <1>1, <1>2

LEMMA GenerateStep ==
  ASSUME CliInv, NEW c \in Calls, Generate(c)
  PROVE  StepOK
<1>1. CASE disposal # "no" /\ Settle(c, "engine_disposed") /\ UNCHANGED child
  <2>1. UNCHANGED <<repairs, abort, passed, child, disposal, awaited, killing>> /\ at[c] = "idle"
    BY <1>1 DEF Generate
  <2>2. ShapeInv'
    BY <1>1, <2>1 DEF CliInv, ShapeInv, Settle
  <2>3. \A d \in Calls : CallInv(d)'
    BY <1>1, <2>1 DEF CliInv, ShapeInv, CallInv, Settle
  <2> QED BY <1>1, <2>1, <2>2, <2>3 DEF CliInv, StepOK
<1>2. CASE disposal = "no" /\ Spawn(c, IF Sandboxed /\ ~passed THEN "gate" ELSE "run")
  <2>1. child[c].closed /\ at[c] = "idle"
    BY DEF Generate, CliInv, CallInv
  <2>2. repairs' \in [Calls -> 0 .. MaxRepairs] /\ passed' \in BOOLEAN /\ UNCHANGED <<abort, disposal, awaited, killing>>
    BY DEF Generate, CliInv, ShapeInv
  <2>3. PICK stage \in {"gate", "run"} : Spawn(c, stage)
    BY <1>2
  <2> QED BY <1>2, <2>1, <2>2, <2>3, SpawnStep
<1> QED BY <1>1, <1>2 DEF Generate

LEMMA GoesOn ==
  ASSUME CliInv, NEW c \in Calls, PassesGate(c) \/ Repairs(c)
  PROVE  StepOK
<1>1. /\ Spawn(c, "run") /\ child[c].closed /\ at[c] \in {"gate", "run"}
      /\ UNCHANGED <<abort, disposal, awaited, killing>>
  BY DEF PassesGate, Repairs
<1>2. passed' \in BOOLEAN
  BY DEF PassesGate, Repairs, CliInv, ShapeInv
<1>3. repairs' \in [Calls -> 0 .. MaxRepairs]
  <2>1. repairs[c] \in 0 .. MaxRepairs /\ MaxRepairs \in Nat
    BY CliAssumption DEF CliInv, ShapeInv
  <2>2. CASE PassesGate(c)
    BY <2>2 DEF PassesGate, CliInv, ShapeInv
  <2>3. CASE Repairs(c)
    <3>1. repairs[c] + 1 \in 0 .. MaxRepairs /\ repairs' = [repairs EXCEPT ![c] = repairs[c] + 1]
      BY <2>1, <2>3 DEF Repairs, CliInv, ShapeInv
    <3> QED BY <3>1 DEF CliInv, ShapeInv
  <2> QED BY <2>2, <2>3
<1> QED BY <1>1, <1>2, <1>3, SpawnStep

LEMMA CloseStep == ASSUME CliInv, NEW c \in Calls, Close(c) PROVE StepOK
<1> DEFINE p == [child[c] EXCEPT !.closed = TRUE, !.armed = FALSE]
<1>1. /\ child' = [child EXCEPT ![c] = p] /\ awaited' = awaited \ {c}
      /\ child[c].leader # "running" /\ ~child[c].helper
      /\ UNCHANGED <<at, repairs, abort, out, passed, disposal, killing>>
  BY DEF Close, CliInv, ShapeInv
<1>2. p \in ChildType /\ Sound(p) /\ p.closed
  <2>1. child[c] \in ChildType
    BY DEF CliInv, ShapeInv
  <2> QED BY <1>1, <2>1 DEF ChildType, Sound
<1> HIDE DEF p
<1>3. ShapeInv'
  BY <1>1, <1>2 DEF CliInv, ShapeInv
<1>4. \A d \in Calls : CallInv(d)'
  BY <1>1, <1>2 DEF CliInv, ShapeInv, CallInv
<1> QED BY <1>1, <1>2, <1>3, <1>4 DEF CliInv, ShapeInv, StepOK

LEMMA EndsStep == ASSUME CliInv, NEW c \in Calls, Ends(c) \/ ConsumerThrows(c) PROVE StepOK
<1>1. /\ UNCHANGED <<repairs, abort, passed, child, disposal, awaited, killing>>
      /\ \E result : Settle(c, result) /\ (result = "consumer_error" \/ child[c].closed)
  BY DEF Ends, ConsumerThrows
<1>2. ShapeInv'
  BY <1>1 DEF CliInv, ShapeInv, Settle
<1>3. \A d \in Calls : CallInv(d)'
  BY <1>1 DEF CliInv, ShapeInv, CallInv, Settle
<1> QED BY <1>1, <1>2, <1>3 DEF CliInv, StepOK

----------------------------------------------------------------------------

(* The steps of a call that are about its process, or its signal, alone.   *)
Beside(c) ==
  \/ ConsumerThrows(c) \/ CallerAborts(c) \/ Close(c) \/ Ends(c)
  \/ LeaderEnds(c) \/ HelperStarts(c) \/ HelperEnds(c) \/ Output(c)
  \/ QuietTimerFires(c) \/ SigkillTimerFires(c) \/ DisposeKills(c)

LEMMA BesideStep == ASSUME CliInv, NEW c \in Calls, Beside(c) PROVE StepOK
BY EndsStep, CallerAbortsStep, CloseStep, ProcessStep, TimerStep DEF Beside

LEMMA StepKinds ==
  Next <=> \/ \E c \in Calls : Generate(c) \/ PassesGate(c) \/ Repairs(c) \/ Beside(c)
           \/ Dispose \/ Disposed
BY DEF Next, Proceed, Beside

LEMMA StepsAreOK == CliInv /\ [Next]_vars => StepOK
<1> SUFFICES ASSUME CliInv, [Next]_vars PROVE StepOK
  OBVIOUS
<1>1. ASSUME NEW c \in Calls, Generate(c) \/ PassesGate(c) \/ Repairs(c) \/ Beside(c) PROVE StepOK
  BY <1>1, GenerateStep, GoesOn, BesideStep
<1>2. CASE UNCHANGED vars
  BY <1>2 DEF vars, CliInv, ShapeInv, CallInv, StepOK
<1> QED BY <1>1, <1>2, DisposeStep, DisposedStep, StepKinds

LEMMA CliInvInit == Init => CliInv
<1> SUFFICES ASSUME Init PROVE CliInv
  OBVIOUS
<1>1. ShapeInv
  <2>1. 0 \in 0 .. MaxRepairs
    BY CliAssumption
  <2> QED BY <2>1, NoChildIsOne DEF Init, ShapeInv
<1>2. \A c \in Calls : CallInv(c)
  BY NoChildIsOne DEF Init, CallInv, NoChild
<1> QED BY <1>1, <1>2 DEF Init, CliInv

LEMMA CliInvHolds == Spec => []CliInv
<1>1. CliInv /\ [Next]_vars => CliInv'
  BY StepsAreOK DEF StepOK
<1> QED BY <1>1, CliInvInit, PTL DEF Spec

(* The adapter's variables keep their types: a SIGKILL is due only for a   *)
(* process that was told to stop and is still there.                       *)
THEOREM TypeCorrect == Spec => []TypeOK
<1>1. CliInv => TypeOK
  <2> SUFFICES ASSUME CliInv PROVE TypeOK
    OBVIOUS
  <2>1. \A c \in Calls : child[c] \in ChildType /\ Sound(child[c])
    BY DEF CliInv, ShapeInv, CallInv
  <2> QED BY <2>1 DEF CliInv, ShapeInv, ChildType, Sound, TypeOK
<1> QED BY <1>1, CliInvHolds, PTL

(* A call that has settled, however it did, has left no process behind,    *)
(* unless its consumer threw; when dispose returns, the processes of all   *)
(* calls are gone, but for what a claude that had exited left behind; and  *)
(* from the moment it is called no process starts, not for a call that is  *)
(* between two runs, either.  For any number of calls and of repairs.      *)
THEOREM CallsLeaveNone == Spec => CliHolds
<1>1. CliInv => SettledIsOver
  BY DEF CliInv, CallInv, SettledIsOver
<1>2. CliInv => DisposeEndsAll
  <2> SUFFICES ASSUME CliInv, disposal = "done", NEW c \in Calls
               PROVE  child[c].leader # "running" /\ (child[c].helper => Held(c))
    BY DEF DisposeEndsAll
  <2>1. Sound(child[c]) /\ (child[c].closed \/ child[c].leader = "exited")
    BY DEF CliInv, CallInv
  <2> QED BY <2>1 DEF Sound, Held
<1>3. CliInv /\ [Next]_vars => [disposal # "no" => live_children' \subseteq live_children]_vars
  BY StepsAreOK DEF StepOK, live_children
<1>4. Spec => NothingStartsAfterDispose
  BY <1>3, CliInvHolds, PTL DEF Spec, NothingStartsAfterDispose
<1> QED BY <1>1, <1>2, <1>4, CliInvHolds, PTL DEF CliHolds

=============================================================================
