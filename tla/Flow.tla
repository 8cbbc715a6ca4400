-------------------------------- MODULE Flow --------------------------------
(* The composers of src/src/core at work: sequence (and scope and chain,   *)
(* which run their children the same way), branch, parallel, map, retry,   *)
(* fallback, loop and timeout, over a tree of steps.                       *)
(*                                                                         *)
(* A dispatched step is a frame: a child of the frame that dispatched it,  *)
(* with an abort signal that fires with its parent's.  Frames run side by  *)
(* side under parallel and map, and where a timeout gave up on a child,    *)
(* which runs on beside whatever comes next.  What a leaf computes is left *)
(* out: it returns, throws, suspends, or throws the reason it is aborted   *)
(* with, and it may ignore that it is.                                     *)
EXTENDS Naturals, Sequences, FiniteSets

CONSTANTS
  Nodes,      \* the steps of the flows
  Roots,      \* the outermost ones: a run is of one of them
  Kind,       \* the kind of each
  Kids,       \* its children: a loop has its body and its guard, if any
  Limit,      \* max_attempts, max_rounds or concurrency
  Items,      \* how many items a map has
  Settling,   \* the maps with settle: true
  Gates,      \* the leaves that may suspend
  Stubborn    \* the leaves that need never end, aborted or not

Kinds == {"step", "sequence", "branch", "parallel", "map", "retry", "fallback", "loop", "timeout"}

(* What the constants are. *)
FlowAssumption ==
  /\ Roots \subseteq Nodes /\ Stubborn \subseteq Nodes
  /\ Kind \in [Nodes -> Kinds]
  /\ Kids \in [Nodes -> Seq(Nodes)]
  /\ Limit \in [Nodes -> Nat \ {0}]
  /\ Items \in [Nodes -> Nat \ {0}]
  /\ Settling \subseteq Nodes /\ Gates \subseteq Nodes
  /\ \A n \in Nodes : Kids[n] = <<>> <=> Kind[n] = "step"

VARIABLES
  frames,     \* the frames in the order they were dispatched
  controller  \* the reason the run was aborted with, or "none"

vars == <<frames, controller>>

Reasons == {"typed", "plain", "timeout"}           \* typed: an aborted_error
Errors == {"error", "suspended", "aborted", "plain", "timeout"}

(* A frame: its node, the frame and the slot it was dispatched from, where *)
(* its run function stands (at, mode, and for a map the items it has dealt *)
(* with and the first error), the reason of its signal, and what it        *)
(* settled with.                                                           *)
Frame(node, parent, slot, reason) ==
  [node |-> node, parent |-> parent, slot |-> slot, reason |-> reason,
   at |-> 0, mode |-> "new", seen |-> {}, failed |-> "none", out |-> "none"]

Init ==
  /\ \E root \in Roots : frames = <<Frame(root, 0, 1, "none")>>
  /\ controller = "none"

KindOf(f) == Kind[frames[f].node]
At(f) == frames[f].at
Mode(f) == frames[f].mode
Aborted(f) == frames[f].reason # "none"
Open(f, kind) == KindOf(f) = kind /\ frames[f].out = "none"

(* What the child in a slot settled with. *)
Result(f, slot) ==
  LET kid == {g \in DOMAIN frames : frames[g].parent = f /\ frames[g].slot = slot}
  IN IF kid = {} THEN "none" ELSE frames[CHOOSE g \in kid : TRUE].out

Got(f) == Result(f, At(f))
Ready(f) == At(f) = 0 \/ Got(f) = "ok"

----------------------------------------------------------------------------

is_control_flow_error(out) == out \in {"suspended", "aborted"}
Failure(out) == out \in Errors /\ ~is_control_flow_error(out)

(* throw_if_aborted and its likes: an Error is thrown as it is. *)
AbortError(reason) == IF reason = "typed" THEN "aborted" ELSE reason

Settle(f, out) == frames' = [frames EXCEPT ![f].out = out] /\ UNCHANGED controller

SettleAborted(f) == Settle(f, AbortError(frames[f].reason))

(* f goes on as me and dispatches children in some slots. *)
Call(f, me, slots, node) ==
  /\ frames' = [frames EXCEPT ![f] = me] \o
       [i \in 1 .. Len(slots) |-> Frame(node[slots[i]], f, slots[i], me.reason)]
  /\ UNCHANGED controller

CallOne(f, slot, node) ==
  Call(f, [frames[f] EXCEPT !.at = slot, !.mode = "on"], <<slot>>, [s \in {slot} |-> node])

(* The frames under f. *)
Under(f) ==
  LET under[g \in 0 .. Len(frames)] == g > f /\ (frames[g].parent = f \/ under[frames[g].parent])
  IN {g \in DOMAIN frames : under[g]}

(* The signals of some frames fire.  A timeout whose child has not settled *)
(* has lost its race to the signal.                                        *)
Fire(fs, reason) ==
  [g \in DOMAIN frames |->
     IF g \notin fs \/ Aborted(g) THEN frames[g]
     ELSE [frames[g] EXCEPT !.reason = reason,
             !.mode = IF Open(g, "timeout") /\ @ = "on" /\ Got(g) = "none" THEN "aborted" ELSE @]]

----------------------------------------------------------------------------
(* A leaf.                                                                 *)

LeafEnds(f) ==
  /\ Open(f, "step")
  /\ \E out \in {"ok", "error"}
                \cup (IF frames[f].node \in Gates THEN {"suspended"} ELSE {}) : Settle(f, out)

LeafHonoursAbort(f) ==
  /\ Open(f, "step") /\ Aborted(f)
  /\ SettleAborted(f)

----------------------------------------------------------------------------
(* sequence, scope, chain.                                                 *)

SequenceNext(f) ==
  /\ Open(f, "sequence") /\ Ready(f) /\ ~Aborted(f)
  /\ At(f) < Len(Kids[frames[f].node])
  /\ CallOne(f, At(f) + 1, Kids[frames[f].node][At(f) + 1])

SequenceAborted(f) ==
  /\ Open(f, "sequence") /\ Ready(f) /\ Aborted(f)
  /\ At(f) < Len(Kids[frames[f].node])
  /\ SettleAborted(f)

SequenceEnds(f) ==
  /\ Open(f, "sequence")
  /\ Got(f) \in Errors \/ (Got(f) = "ok" /\ At(f) = Len(Kids[frames[f].node]))
  /\ Settle(f, Got(f))

(* branch: the condition may throw; nothing asks whether the run goes on.  *)
BranchTakes(f) ==
  /\ Open(f, "branch") /\ Mode(f) = "new"
  /\ \/ \E arm \in {1, 2} : CallOne(f, arm, Kids[frames[f].node][arm])
     \/ Settle(f, "error")

BranchEnds(f) ==
  /\ Open(f, "branch") /\ Got(f) # "none"
  /\ Settle(f, Got(f))

(* loop: body and guard take turns, and a guard may stop it. *)
Turns(f) == Len(Kids[frames[f].node])
LastTurn(f) == Limit[frames[f].node] * Turns(f)

LoopNext(f) ==
  /\ Open(f, "loop") /\ Ready(f) /\ ~Aborted(f)
  /\ At(f) < LastTurn(f)
  /\ CallOne(f, At(f) + 1, Kids[frames[f].node][(At(f) % Turns(f)) + 1])

LoopAborted(f) ==
  /\ Open(f, "loop") /\ Ready(f) /\ Aborted(f)
  /\ At(f) < LastTurn(f)
  /\ SettleAborted(f)

LoopEnds(f) ==
  /\ Open(f, "loop")
  /\ \/ Got(f) \in Errors
     \/ Got(f) = "ok" /\ At(f) % Turns(f) = 0 /\ (At(f) = LastTurn(f) \/ Turns(f) = 2)
  /\ Settle(f, Got(f))

----------------------------------------------------------------------------
(* parallel.                                                               *)

ParallelStarts(f) ==
  /\ Open(f, "parallel") /\ Mode(f) = "new"
  /\ LET kids == Kids[frames[f].node]
     IN Call(f, [frames[f] EXCEPT !.mode = "on"], [k \in DOMAIN kids |-> k], kids)

(* Mutant: the first error in declared order. *)
PickErrorFirst(outs) ==
  IF \A k \in DOMAIN outs : outs[k] = "ok" THEN "ok"
  ELSE outs[CHOOSE k \in DOMAIN outs : outs[k] # "ok" /\ \A j \in 1 .. k - 1 : outs[j] = "ok"]

(* A suspension, else the first error in declared order. *)
PickError(outs) ==
  IF \E k \in DOMAIN outs : outs[k] = "suspended" THEN "suspended"
  ELSE IF \A k \in DOMAIN outs : outs[k] = "ok" THEN "ok"
  ELSE outs[CHOOSE k \in DOMAIN outs : outs[k] # "ok" /\ \A j \in 1 .. k - 1 : outs[j] = "ok"]

ParallelEnds(f) ==
  /\ Open(f, "parallel") /\ Mode(f) = "on"
  /\ LET outs == [k \in DOMAIN Kids[frames[f].node] |-> Result(f, k)]
     IN /\ \A k \in DOMAIN outs : outs[k] # "none"
        /\ IF Aborted(f) THEN SettleAborted(f) ELSE Settle(f, PickError(outs))

----------------------------------------------------------------------------
(* map.                                                                    *)

Size(f) == Items[frames[f].node]

(* items may throw; then the workers take an item each. *)
MapStarts(f) ==
  /\ Open(f, "map") /\ Mode(f) = "new"
  /\ \/ Settle(f, "error")
     \/ LET workers == IF Limit[frames[f].node] < Size(f) THEN Limit[frames[f].node] ELSE Size(f)
            first == IF Aborted(f) THEN 0 ELSE workers
        IN Call(f, [frames[f] EXCEPT !.mode = "on", !.at = first],
                [k \in 1 .. first |-> k], [k \in 1 .. first |-> Kids[frames[f].node][1]])

(* An error that becomes the slot of its item, and not the map's. *)
Kept(f, out) == frames[f].node \in Settling /\ Failure(out) /\ ~Aborted(f)

(* A worker is done with an item and takes the next. *)
MapTakes(f, item) ==
  /\ Open(f, "map") /\ Mode(f) = "on"
  /\ item \in (1 .. At(f)) \ frames[f].seen
  /\ Result(f, item) # "none"
  /\ LET out == Result(f, item)
         failed == IF frames[f].failed = "none" /\ out # "ok" /\ ~Kept(f, out) THEN out ELSE frames[f].failed
         me == [frames[f] EXCEPT !.seen = @ \cup {item}, !.failed = failed]
         next == At(f) + 1
     IN IF ~Aborted(f) /\ failed = "none" /\ next <= Size(f)
        THEN Call(f, [me EXCEPT !.at = next], <<next>>, [s \in {next} |-> Kids[frames[f].node][1]])
        ELSE Call(f, me, <<>>, <<>>)

MapEnds(f) ==
  /\ Open(f, "map") /\ Mode(f) = "on"
  /\ frames[f].seen = 1 .. At(f)
  /\ At(f) = Size(f) \/ Aborted(f) \/ frames[f].failed # "none"
  /\ IF Aborted(f) THEN SettleAborted(f)
     ELSE Settle(f, IF frames[f].failed # "none" THEN frames[f].failed ELSE "ok")

----------------------------------------------------------------------------
(* retry.                                                                  *)

RetryTries(f) ==
  /\ Open(f, "retry") /\ Mode(f) \in {"new", "backoff"}
  /\ IF Aborted(f) THEN SettleAborted(f) ELSE CallOne(f, At(f) + 1, Kids[frames[f].node][1])

RetryBacksOff(f) ==
  /\ Open(f, "retry") /\ Mode(f) = "on"
  /\ Failure(Got(f)) /\ At(f) < Limit[frames[f].node]
  /\ frames' = [frames EXCEPT ![f].mode = "backoff"] /\ UNCHANGED controller

(* When the last attempt failed, or when rejects the error, or it is none. *)
RetryEnds(f) ==
  /\ Open(f, "retry") /\ Mode(f) = "on" /\ Got(f) # "none"
  /\ Settle(f, Got(f))

(* fallback. *)
FallbackStarts(f) ==
  /\ Open(f, "fallback") /\ Mode(f) = "new"
  /\ CallOne(f, 1, Kids[frames[f].node][1])

FallbackBacks(f) ==
  /\ Open(f, "fallback") /\ At(f) = 1 /\ Failure(Got(f))
  /\ CallOne(f, 2, Kids[frames[f].node][2])

FallbackEnds(f) ==
  /\ Open(f, "fallback") /\ At(f) > 0 /\ Got(f) # "none"
  /\ Settle(f, Got(f))

----------------------------------------------------------------------------
(* timeout.                                                                *)

(* The child starts, whether or not the signal has fired already. *)
TimeoutStarts(f) ==
  /\ Open(f, "timeout") /\ Mode(f) = "new"
  /\ Call(f, [frames[f] EXCEPT !.at = 1, !.mode = IF Aborted(f) THEN "aborted" ELSE "on"],
          <<1>>, Kids[frames[f].node])

TimerFires(f) ==
  /\ Open(f, "timeout") /\ Mode(f) = "on" /\ Got(f) = "none"
  /\ frames' = [Fire(Under(f), "timeout") EXCEPT ![f].mode = "timed"]
  /\ UNCHANGED controller

TimeoutGivesUp(f) ==
  /\ Open(f, "timeout") /\ Mode(f) \in {"timed", "aborted"}
  /\ IF Mode(f) = "timed" THEN Settle(f, "timeout") ELSE SettleAborted(f)

TimeoutEnds(f) ==
  /\ Open(f, "timeout") /\ Mode(f) = "on" /\ Got(f) # "none"
  /\ Settle(f, Got(f))

----------------------------------------------------------------------------

(* The run's controller aborts, with an aborted_error or another Error. *)
Abort(reason) ==
  /\ controller = "none" /\ frames[1].out = "none"
  /\ controller' = reason
  /\ frames' = Fire(DOMAIN frames, reason)

Compose(f) ==
  \/ SequenceNext(f) \/ SequenceAborted(f) \/ SequenceEnds(f)
  \/ BranchTakes(f) \/ BranchEnds(f)
  \/ LoopNext(f) \/ LoopAborted(f) \/ LoopEnds(f)
  \/ ParallelStarts(f) \/ ParallelEnds(f)
  \/ MapStarts(f) \/ MapEnds(f) \/ \E item \in 1 .. Size(f) : MapTakes(f, item)
  \/ RetryTries(f) \/ RetryBacksOff(f) \/ RetryEnds(f)
  \/ FallbackStarts(f) \/ FallbackBacks(f) \/ FallbackEnds(f)
  \/ TimeoutStarts(f) \/ TimeoutGivesUp(f) \/ TimeoutEnds(f)

Next ==
  \/ \E f \in DOMAIN frames : LeafEnds(f) \/ LeafHonoursAbort(f) \/ TimerFires(f) \/ Compose(f)
  \/ \E reason \in {"typed", "plain"} : Abort(reason)

Spec == Init /\ [][Next]_vars

(* The composers go on when they can, the timers of timeouts fire, and a   *)
(* step that is aborted honours it, unless it is stubborn.  No other step  *)
(* need ever end.                                                          *)
FairSpec ==
  /\ Spec
  /\ WF_vars(\E f \in DOMAIN frames : Compose(f))
  /\ WF_vars(\E f \in DOMAIN frames : TimerFires(f))
  /\ WF_vars(\E f \in DOMAIN frames : frames[f].node \notin Stubborn /\ LeafHonoursAbort(f))

----------------------------------------------------------------------------
(* Properties.                                                             *)

Outs == {"none", "ok"} \cup Errors

(* Every variable has values of its type.                                  *)
TypeOK ==
  /\ controller \in {"none", "typed", "plain"}
  /\ \A f \in DOMAIN frames :
       /\ frames[f].node \in Nodes /\ frames[f].parent \in 0 .. f - 1
       /\ frames[f].slot \in Nat /\ At(f) \in Nat
       /\ frames[f].reason \in {"none"} \cup Reasons
       /\ Mode(f) \in {"new", "on", "backoff", "timed", "aborted"}
       /\ frames[f].failed \in {"none"} \cup Errors /\ frames[f].out \in Outs

Live(f) == frames[f].out = "none"

(* Work that outlives the composer that started it is only ever what a     *)
(* timeout gave up on, and it has been told to stop: its signal has fired. *)
(* Everything else waits for all it started.                               *)
AbandonedIsAborted ==
  \A g \in DOMAIN frames :
    Live(g) /\ frames[g].parent # 0 /\ ~Live(frames[g].parent)
      => KindOf(frames[g].parent) = "timeout" /\ Aborted(g)

(* A gate that suspends is what the whole flow ends with, whatever runs    *)
(* beside it and around it, unless the gate was aborted.                   *)
SuspensionSurfaces ==
  ~Live(1) => \A f \in DOMAIN frames :
                frames[f].out = "suspended" /\ ~Aborted(f) => frames[1].out = "suspended"

(* A composer that is aborted between its children starts no further one:  *)
(* what starts under a signal that has fired is a first child, or the      *)
(* backup of a fallback.                                                   *)
NoFurtherChildUnderAbort ==
  [][\A g \in DOMAIN frames' \ DOMAIN frames :
       frames'[g].reason # "none" =>
         LET parent == frames[frames'[g].parent]
         IN parent.mode = "new" \/ Kind[parent.node] = "fallback"]_vars

(* A flow whose steps honour their signal ends when its run is aborted,    *)
(* wherever the abort finds it.                                            *)
AbortEndsFlow ==
  controller # "none" ~> ~Live(1) \/ \E f \in DOMAIN frames : frames[f].node \in Stubborn

=============================================================================
