------------------------------ MODULE Replays ------------------------------
(* Suspension, resumption and checkpoints: suspend.ts and checkpoint.ts of *)
(* src/src/core with what runner.ts keeps of the gates of a run, the check *)
(* on suspend ids, and the analysis of replays.ts that warns of the side   *)
(* effects that a resumed run can repeat.                                  *)
(*                                                                         *)
(* A run is a series of passes over its flow, each from the flow's input:  *)
(* one that stops at a gate is followed, once the gate has its datum, by   *)
(* another.  The process may die in a pass.  The store of checkpoints      *)
(* outlives them all.                                                      *)
EXTENDS Naturals, Sequences, FiniteSets, Functions

CONSTANTS
  Nodes,      \* the steps of the flows, numbered so that a child comes after its parent
  Roots,
  Kind,
  Kids,
  Marked,     \* the steps marked side_effect
  SuspendId,  \* the id of each suspend
  Failing,    \* the checkpoints with on_read_error and on_write_error: "fail"
  MaxPasses   \* bound of the model: how many passes a run has

VARIABLES
  root,
  arm,        \* which arm each branch takes, the same in every pass
  pass,
  status,     \* of each node in this pass
  resumed,    \* the gates that the run's resume data has a value for
  unreached,  \* those of them that this pass has not reached
  store,      \* the checkpoints whose result the store holds
  started,    \* the marked steps that started in an earlier pass
  again,      \* those that started in two passes
  replayed,   \* the steps named in a step_replayed event
  mishap,     \* a step or the store has failed, or the process has died
  outcome

vars == <<root, arm, pass, status, resumed, unreached, store, started, again, replayed, mishap, outcome>>

flow == <<root, arm>>

gates == <<resumed, unreached>>

history == <<started, again, replayed>>

Children(n) == Range(Kids[n])

(* The subtree at each node. *)
Below ==
  LET below[n \in Nodes] == {n} \union UNION {below[k] : k \in Children(n)} IN [n \in Nodes |-> below[n]]

Holds(a, n) == n \in Below[a]

(* The gates of the subtree at n, by id. *)
gates_within(n) == {SuspendId[g] : g \in {m \in Below[n] : Kind[m] = "suspend"}}

Settled == {"ok", "failed", "suspended"}

Init ==
  /\ root \in Roots
  /\ arm \in [{n \in Nodes : Kind[n] = "branch" /\ Holds(root, n)} -> {1, 2}]
  /\ pass = 1
  /\ status = [n \in Below[root] |-> "idle"]
  /\ resumed = {} /\ unreached = {}
  /\ store = {}
  /\ started = {} /\ again = {} /\ replayed = {}
  /\ mishap = FALSE
  /\ outcome = "none"

----------------------------------------------------------------------------
(* replays.ts: what the flow's shape tells. *)

IndexOf(p, n) == CHOOSE i \in DOMAIN Kids[p] : Holds(Kids[p][i], n)

(* Where the paths to s and g part. *)
Split(s, g) == CHOOSE p \in Nodes : /\ Holds(p, s) /\ Holds(p, g)
                                    /\ \A k \in Children(p) : ~(Holds(k, s) /\ Holds(k, g))

comes_first(kind, first, second) ==
  CASE kind = "branch" -> FALSE
    [] kind \in {"parallel", "step"} -> TRUE
    [] OTHER -> first < second

(* No checkpoint that holds s and not g lies between. *)
runs_before(s, g) ==
  LET p == Split(s, g) IN
  /\ p # g
  /\ \/ p = s
     \/ /\ comes_first(Kind[p], IndexOf(p, s), IndexOf(p, g))
        /\ \A c \in Below[p] \ {p, s} : Kind[c] = "checkpoint" => ~Holds(c, s)

(* The gates that a marked step can run before. *)
replay_gates(s) == {SuspendId[g] : g \in {m \in Below[root] : Kind[m] = "suspend" /\ runs_before(s, m)}}

(* check_suspend_ids: an id that two places of the flow declare. *)
refusals == [r \in Roots |-> \E g, h \in Below[r] :
  g # h /\ Kind[g] = "suspend" /\ Kind[h] = "suspend" /\ SuspendId[g] = SuspendId[h]]

FlowIsRefused == refusals[root]

----------------------------------------------------------------------------
(* A pass. *)

Parent == [n \in Nodes \ Roots |-> CHOOSE p \in Nodes : n \in Children(p)]

(* Whether the body of the parent has come to n. *)
MayStart(n) ==
  n # root =>
    LET p == Parent[n] IN
    /\ status[p] = "running"
    /\ Kind[p] = "sequence" => \A i \in 1 .. IndexOf(p, n) - 1 : status[Kids[p][i]] = "ok"
    /\ Kind[p] = "branch" => n = Kids[p][arm[p]]

CanStart(n) == outcome = "none" /\ ~FlowIsRefused /\ status[n] = "idle" /\ MayStart(n)

Become(n, what) == status' = [status EXCEPT ![n] = what]

check_suspend_ids ==
  /\ FlowIsRefused /\ outcome = "none"
  /\ outcome' = "refused"
  /\ UNCHANGED <<flow, pass, status, gates, store, history, mishap>>

(* dispatch_step, and record_replay for a marked step. *)
dispatch_step(n) ==
  /\ CanStart(n) /\ Kind[n] \in {"step", "sequence", "parallel", "branch"}
  /\ Become(n, "running")
  /\ IF n \in Marked
     THEN /\ started' = started \union {<<n, pass>>}
          /\ again' = IF \E q \in 1 .. pass - 1 : <<n, q>> \in started THEN again \union {n} ELSE again
          /\ replayed' = IF unreached # {} THEN replayed \union {n} ELSE replayed
     ELSE UNCHANGED history
  /\ UNCHANGED <<flow, pass, gates, store, mishap, outcome>>

(* Mutant: what the store holds is not looked up. *)
look_up_never(n) ==
  /\ CanStart(n) /\ Kind[n] = "checkpoint"
  /\ Become(n, "running")
  /\ UNCHANGED <<flow, pass, gates, store, history, mishap, outcome>>

(* A hit stands for the gates inside; a read that fails is a miss. *)
look_up(n) ==
  /\ CanStart(n) /\ Kind[n] = "checkpoint"
  /\ \/ n \in store /\ Become(n, "ok") /\ unreached' = unreached \ gates_within(n) /\ UNCHANGED mishap
     \/ n \notin store /\ Become(n, "running") /\ UNCHANGED <<unreached, mishap>>
     \/ Become(n, IF n \in Failing THEN "failed" ELSE "running") /\ mishap' = TRUE /\ UNCHANGED unreached
  /\ UNCHANGED <<flow, pass, resumed, store, history, outcome>>

(* A gate without a datum calls on and stops the pass. *)
suspend(n) ==
  /\ CanStart(n) /\ Kind[n] = "suspend" /\ SuspendId[n] \notin resumed
  /\ Become(n, "suspended")
  /\ UNCHANGED <<flow, pass, gates, store, history, mishap, outcome>>

(* A gate with one takes it, and its schema may refuse it. *)
take_datum(n) ==
  /\ CanStart(n) /\ Kind[n] = "suspend" /\ SuspendId[n] \in resumed
  /\ unreached' = unreached \ {SuspendId[n]}
  /\ \/ Become(n, "running") /\ UNCHANGED mishap
     \/ Become(n, "failed") /\ mishap' = TRUE
  /\ UNCHANGED <<flow, pass, resumed, store, history, outcome>>

(* A step's function, or a gate's combine, returns or throws. *)
Returns(n) ==
  /\ outcome = "none" /\ status[n] = "running" /\ Kind[n] \in {"step", "suspend"}
  /\ \/ Become(n, "ok") /\ UNCHANGED mishap
     \/ Become(n, "failed") /\ mishap' = TRUE
  /\ UNCHANGED <<flow, pass, gates, store, history, outcome>>

(* The children of n that count: for a branch the arm it took. *)
Due(n) == IF Kind[n] = "branch" THEN {Kids[n][arm[n]]} ELSE Children(n)

(* A composer ends with its last child or, but for parallel, which lets    *)
(* every child settle, with the first that does not return; a suspension   *)
(* wins over an error.                                                     *)
ComposerEnds(n) ==
  /\ outcome = "none" /\ status[n] = "running" /\ Kind[n] \in {"sequence", "parallel", "branch"}
  /\ LET ends == {status[k] : k \in Due(n)} IN
       \/ ends = {"ok"} /\ Become(n, "ok")
       \/ /\ \E what \in {"suspended", "failed"} :
               what \in ends /\ (what = "failed" => "suspended" \notin ends) /\ Become(n, what)
          /\ Kind[n] = "parallel" => ends \subseteq Settled
  /\ UNCHANGED <<flow, pass, gates, store, history, mishap, outcome>>

(* A checkpoint keeps what its step returned; a write that fails is        *)
(* recorded, or fails the step.                                            *)
keep(n) ==
  /\ outcome = "none" /\ status[n] = "running" /\ Kind[n] = "checkpoint"
  /\ LET inner == status[Kids[n][1]] IN
       \/ inner = "ok" /\ store' = store \union {n} /\ Become(n, "ok") /\ UNCHANGED mishap
       \/ /\ inner = "ok" /\ Become(n, IF n \in Failing THEN "failed" ELSE "ok") /\ mishap' = TRUE
          /\ UNCHANGED store
       \/ inner \in {"failed", "suspended"} /\ Become(n, inner) /\ UNCHANGED <<store, mishap>>
  /\ UNCHANGED <<flow, pass, gates, history, outcome>>

----------------------------------------------------------------------------
(* Between passes. *)

RunEnds ==
  /\ outcome = "none" /\ status[root] \in Settled
  /\ outcome' = status[root]
  /\ UNCHANGED <<flow, pass, status, gates, store, history, mishap>>

(* The gate that the error names: the first in declared order. *)
Surfaces == CHOOSE g \in Below[root] :
  /\ Kind[g] = "suspend" /\ status[g] = "suspended"
  /\ \A h \in Below[root] : Kind[h] = "suspend" /\ status[h] = "suspended" => g <= h

NewPass(data) ==
  /\ pass < MaxPasses
  /\ pass' = pass + 1
  /\ status' = [n \in Below[root] |-> "idle"]
  /\ resumed' = data /\ unreached' = data
  /\ outcome' = "none"

Resume ==
  /\ outcome = "suspended"
  /\ NewPass(resumed \union {SuspendId[Surfaces]})
  /\ UNCHANGED <<flow, store, history, mishap>>

(* The process dies, and another takes the run over. *)
Dies ==
  /\ outcome = "none" /\ ~FlowIsRefused
  /\ NewPass(resumed)
  /\ mishap' = TRUE
  /\ UNCHANGED <<flow, store, history>>

Step ==
  \/ check_suspend_ids \/ RunEnds \/ Resume
  \/ \E n \in Below[root] : \/ dispatch_step(n) \/ look_up(n) \/ suspend(n) \/ take_datum(n)
                            \/ Returns(n) \/ ComposerEnds(n) \/ keep(n)

Next == Step \/ Dies

Spec == Init /\ [][Next]_vars

----------------------------------------------------------------------------
(* Properties.                                                             *)

(* describe.replays warns of every side effect that a run repeats because  *)
(* it was resumed: as long as no step, store or process fails, a marked    *)
(* step that starts in two passes is one the analysis lists.               *)
ReplaysAreForetold == ~mishap => \A s \in again : replay_gates(s) # {}

=============================================================================
