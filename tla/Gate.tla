-------------------------------- MODULE Gate --------------------------------
(* gate (composites/gate.ts): a step's result is kept in a store and shown *)
(* to an approver, and a resumed run passes the kept one on.  The store,   *)
(* the process and the approver may fail at any point between.             *)
EXTENDS Naturals, FiniteSets

CONSTANTS
  HasStore,  \* whether the gate or its run has a store
  MaxRuns,   \* bound of the model: the runs of the flow
  None

VARIABLES
  store,    \* the result kept at "gate:<id>"
  paid,     \* how often the inner step ran: its results are numbered
  runs,     \* runs begun
  run,      \* the run: where it is, whether it resumes, the gate's first input and its result
  shown,    \* the result that the approver was shown last
  approved, \* the result that the approver approved
  passed,   \* the results that went through, with what was approved then, and whether unshown held it
  unshown,  \* the results bought since that the approver was not shown
  resold    \* results that were bought in a run that resumes

vars == <<store, paid, runs, run, shown, approved, passed, unshown, resold>>

Idle == [at |-> "idle", resumes |-> FALSE, input |-> None, result |-> None]

Init ==
  /\ store = None /\ paid = 0 /\ runs = 0 /\ run = Idle
  /\ shown = None /\ approved = None /\ passed = {} /\ unshown = {} /\ resold = {}

Become(fields) == run' = fields

(* The flow is run, with the decision among its resume data if there is one. *)
FlowRuns ==
  /\ run.at \in {"idle", "over"} /\ runs < MaxRuns
  /\ runs' = runs + 1
  /\ Become([Idle EXCEPT !.at = "reaches", !.resumes = approved # None])
  /\ UNCHANGED <<store, paid, shown, approved, passed, unshown, resold>>

(* resume_aware: a run that reaches the gate again, on another input, throws. *)
Reaches ==
  /\ run.at = "reaches"
  /\ \E input \in {1, 2} :
       IF run.input \in {None, input}
       THEN Become([run EXCEPT !.at = "reads", !.input = input])
       ELSE Become([run EXCEPT !.at = "over"])
  /\ UNCHANGED <<store, paid, runs, shown, approved, passed, unshown, resold>>

(* Mutant: a resumed gate falls back on the checkpoint, which buys anew. *)
ReadsForAResumeAnyway ==
  /\ run.at = "reads" /\ run.resumes
  /\ \/ /\ HasStore /\ store # None /\ Become([run EXCEPT !.at = "passes", !.result = store])
     \/ Become([run EXCEPT !.at = "buys"])
  /\ UNCHANGED <<store, paid, runs, shown, approved, passed, unshown, resold>>

(* gate_result_error: no store, a failed read, or nothing there. *)
ReadsForAResume ==
  /\ run.at = "reads" /\ run.resumes
  /\ \/ /\ HasStore /\ store # None /\ Become([run EXCEPT !.at = "passes", !.result = store])
     \/ Become([run EXCEPT !.at = "over"])
  /\ UNCHANGED <<store, paid, runs, shown, approved, passed, unshown, resold>>

(* checkpoint: a hit is served, and a failed read is a miss. *)
ReadsFirst ==
  /\ run.at = "reads" /\ ~run.resumes
  /\ \/ HasStore /\ store # None /\ Become([run EXCEPT !.at = "suspends", !.result = store])
     \/ Become([run EXCEPT !.at = "buys"])
  /\ UNCHANGED <<store, paid, runs, shown, approved, passed, unshown, resold>>

Buys ==
  /\ run.at = "buys"
  /\ \/ /\ paid' = paid + 1
        /\ unshown' = unshown \union {paid + 1}
        /\ resold' = IF run.resumes THEN resold \union {paid + 1} ELSE resold
        /\ Become([run EXCEPT !.at = "writes", !.result = paid + 1])
     \/ Become([run EXCEPT !.at = "over"]) /\ UNCHANGED <<paid, unshown, resold>>
  /\ UNCHANGED <<store, runs, shown, approved, passed>>

Writes ==
  /\ run.at = "writes"
  /\ \/ /\ store' = IF HasStore THEN run.result ELSE store
        /\ Become([run EXCEPT !.at = IF run.resumes THEN "passes" ELSE "suspends"])
     \/ HasStore /\ Become([run EXCEPT !.at = "over"]) /\ UNCHANGED store
  /\ UNCHANGED <<paid, runs, shown, approved, passed, unshown, resold>>

(* The payload goes to the approver, and the run ends. *)
Suspends ==
  /\ run.at = "suspends"
  /\ shown' = run.result /\ approved' = None /\ unshown' = unshown \ {run.result}
  /\ Become([run EXCEPT !.at = "over"])
  /\ UNCHANGED <<store, paid, runs, passed, resold>>

(* combine restores the result; then a retry may run the gate once more.   *)
Passes ==
  /\ run.at = "passes"
  /\ passed' = passed \union {<<run.result, approved, run.result \in unshown>>}
  /\ run' \in {[run EXCEPT !.at = "reaches"], [run EXCEPT !.at = "over"]}
  /\ UNCHANGED <<store, paid, runs, shown, approved, unshown, resold>>

Approves ==
  /\ shown # None /\ run.at \in {"idle", "over"}
  /\ approved' = shown
  /\ UNCHANGED <<store, paid, runs, run, shown, passed, unshown, resold>>

(* The process dies; the answer is with the driver, who may have lost it.  *)
Dies ==
  /\ run.at # "over"
  /\ Become([run EXCEPT !.at = "over"])
  /\ UNCHANGED <<store, paid, runs, shown, approved, passed, unshown, resold>>

LosesTheAnswer ==
  /\ run.at = "over" /\ approved # None
  /\ approved' = None
  /\ UNCHANGED <<store, paid, runs, run, shown, passed, unshown, resold>>

EntryIsDropped ==
  /\ store # None
  /\ store' = None
  /\ UNCHANGED <<paid, runs, run, shown, approved, passed, unshown, resold>>

Next ==
  FlowRuns \/ Reaches \/ ReadsForAResume \/ ReadsFirst \/ Buys \/ Writes \/ Suspends \/ Passes
    \/ Approves \/ Dies \/ LosesTheAnswer \/ EntryIsDropped

Spec == Init /\ [][Next]_vars

----------------------------------------------------------------------------
(* Properties *)

(* A resumed run buys nothing, and what passes the gate is what was shown  *)
(* and approved, whatever is lost or fails in between, unless a run that   *)
(* did not live to show it had bought another since.                       *)
ResumeServesTheKept ==
  /\ resold = {}
  /\ \A p \in passed : p[1] = p[2] \/ p[3]

=============================================================================
