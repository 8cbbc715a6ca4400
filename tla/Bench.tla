------------------------------- MODULE Bench -------------------------------
(* bench (composites/bench.ts): a flow is run on every case, by a pool of  *)
(* workers, its output is judged, and a report is made, which              *)
(* regression_compare (regression.ts) holds against a baseline.            *)
EXTENDS Naturals, FiniteSets, Functions

CONSTANTS
  Cases,     \* the cases, 1..n in the order given
  Judges,    \* the judges, 1..n in the order given
  Limits,    \* the values of concurrency
  None

(* What the modules that instantiate it must give it. *)
BenchAssumption == IsFiniteSet(Cases) /\ Cases = 1 .. Cardinality(Cases) /\ None \notin Nat

VARIABLES
  limit,    \* concurrency
  at,       \* where each case stands: "queued", "running", "done", or "off" once its run threw control flow
  judging,  \* the judge that each running case has come to; 0 while the flow runs
  results,  \* each case's ok, its scores and its cost
  next,     \* run_with_concurrency: the next case to claim
  halted,   \* the workers that are over
  aborted,  \* options.abort
  late,     \* cases claimed after the abort
  bench,    \* "on", "resolved" or "rejected"
  summary,  \* the report's
  baseline, \* the report that it is compared with
  verdict   \* of regression_compare

vars == <<limit, at, judging, results, next, halted, aborted, late, bench, summary, baseline, verdict>>

N == Cardinality(Cases)
Fresh == [ok |-> FALSE, scores |-> [j \in Judges |-> None], cost |-> 0]

(* A smaller limit takes as many workers; any other starts every case. *)
Pooled == limit < N

Init ==
  /\ limit \in Limits
  /\ at = [c \in Cases |-> IF limit < N THEN "queued" ELSE "running"]
  /\ judging = [c \in Cases |-> 0]
  /\ results = [c \in Cases |-> Fresh]
  /\ next = 1 /\ halted = 0
  /\ aborted = FALSE /\ late = {}
  /\ bench = "on" /\ summary = None /\ verdict = None
  /\ baseline \in [Cases -> {Fresh, [ok |-> TRUE, scores |-> [j \in Judges |-> 1], cost |-> 1]}]

Busy == {c \in Cases : at[c] = "running"}

(* A worker takes the next case: each of them that is neither busy nor over. *)
Claims ==
  /\ Pooled /\ next <= N /\ ~aborted
  /\ Cardinality(Busy) + halted < limit
  /\ at' = [at EXCEPT ![next] = "running"]
  /\ late' = IF aborted THEN late \union {next} ELSE late
  /\ next' = next + 1
  /\ UNCHANGED <<limit, judging, results, halted, aborted, bench, summary, baseline, verdict>>

(* A worker throws: the bench rejects, and the other workers go on. *)
Halts == halted' = (IF Pooled THEN halted + 1 ELSE halted) /\ bench' = (IF bench = "on" THEN "rejected" ELSE bench)

AbortSeen ==
  /\ Pooled /\ aborted /\ Cardinality(Busy) + halted < limit
  /\ Halts
  /\ UNCHANGED <<limit, at, judging, results, next, aborted, late, summary, baseline, verdict>>

(* rethrow_control_flow: a suspension, or the abort where the flow heeds it. *)
ControlFlow(c) ==
  /\ at[c] = "running"
  /\ at' = [at EXCEPT ![c] = "off"]
  /\ Halts
  /\ UNCHANGED <<limit, judging, results, next, aborted, late, summary, baseline, verdict>>

Finish(c) == at' = [at EXCEPT ![c] = "done"]

FlowEnds(c) ==
  /\ at[c] = "running" /\ judging[c] = 0
  /\ \E ok \in BOOLEAN, cost \in 0..1 :
       /\ results' = [results EXCEPT ![c] = [@ EXCEPT !.ok = ok, !.cost = cost]]
       /\ IF ok /\ Judges # {} THEN judging' = [judging EXCEPT ![c] = 1] /\ UNCHANGED at
          ELSE Finish(c) /\ UNCHANGED judging
  /\ UNCHANGED <<limit, next, halted, aborted, late, bench, summary, baseline, verdict>>

(* run_judges: a judge that throws or has no finite score abstains. *)
JudgeEnds(c) ==
  /\ at[c] = "running" /\ judging[c] # 0
  /\ \E score \in {None, 0, 1} :
       results' = [results EXCEPT ![c].scores[judging[c]] = score]
  /\ IF judging[c] < Cardinality(Judges) THEN judging' = [judging EXCEPT ![c] = @ + 1] /\ UNCHANGED at
     ELSE Finish(c) /\ UNCHANGED judging
  /\ UNCHANGED <<limit, next, halted, aborted, late, bench, summary, baseline, verdict>>

CallerAborts ==
  /\ ~aborted /\ bench = "on"
  /\ aborted' = TRUE
  /\ UNCHANGED <<limit, at, judging, results, next, halted, late, bench, summary, baseline, verdict>>

(* The sum over the cases that have one, and how many have. *)
SumOf(score) ==
  LET scored == {c \in Cases : score[c] # None}
  IN <<FoldFunctionOnSet(+, 0, score, scored), Cardinality(scored)>>

summarize(report) ==
  [passes |-> Cardinality({c \in Cases : report[c].ok}),
   means |-> [j \in Judges |-> SumOf([c \in Cases |-> report[c].scores[j]])],
   cost |-> SumOf([c \in Cases |-> report[c].cost])[1]]

(* regression_compare, with both thresholds at 0: a missing score counts 0 *)
(* in a case, and a judge with no score at all counts 0 among the means.   *)
ScoreOf(x) == IF x = None THEN 0 ELSE x

MeanDrops(c, b) ==
  IF b[2] = 0 THEN FALSE ELSE IF c[2] = 0 THEN b[1] > 0 ELSE c[1] * b[2] < b[1] * c[2]

CaseRegresses(c, b) ==
  \/ \E j \in Judges : ScoreOf(c.scores[j]) < ScoreOf(b.scores[j])
  \/ c.cost > b.cost
  \/ b.ok /\ ~c.ok

regression_compare(report, base) ==
  LET current == summarize(report) was == summarize(base) IN
  ~ \/ current.passes < was.passes
    \/ \E j \in Judges : MeanDrops(current.means[j], was.means[j])
    \/ current.cost > was.cost
    \/ \E c \in Cases : CaseRegresses(report[c], base[c])

(* Every worker is over, and the signal is read once more. *)
AllSettled == \A c \in Cases : at[c] = "done"

RejectsLast ==
  /\ bench = "on" /\ AllSettled /\ aborted
  /\ bench' = "rejected"
  /\ UNCHANGED <<limit, at, judging, results, next, halted, aborted, late, summary, baseline, verdict>>

(* Mutant: a report is made of a bench that was cancelled. *)
ResolvesAnyway ==
  /\ bench = "on" /\ AllSettled
  /\ bench' = "resolved" /\ summary' = summarize(results)
  /\ verdict' = regression_compare(results, baseline)
  /\ UNCHANGED <<limit, at, judging, results, next, halted, aborted, late, baseline>>

Resolves ==
  /\ bench = "on" /\ AllSettled /\ ~aborted
  /\ bench' = "resolved" /\ summary' = summarize(results)
  /\ verdict' = regression_compare(results, baseline)
  /\ UNCHANGED <<limit, at, judging, results, next, halted, aborted, late, baseline>>

Next ==
  \/ \E c \in Cases : ControlFlow(c) \/ FlowEnds(c) \/ JudgeEnds(c)
  \/ Claims \/ AbortSeen \/ CallerAborts \/ RejectsLast \/ Resolves

Spec == Init /\ [][Next]_vars

----------------------------------------------------------------------------
(* Properties *)

(* A bench that resolves reports every case it was given, and was neither  *)
(* cancelled nor suspended on the way; what it sums up is its cases' own;  *)
(* a case that failed has no score; an abort lets no case start; and a     *)
(* report is no regression of itself, while a verdict that nothing got     *)
(* worse hides no case that did (bench.ts, regression.ts).                 *)
ReportIsWhole ==
  /\ late = {}
  /\ bench = "resolved" =>
       /\ ~aborted /\ \A c \in Cases : at[c] = "done"
       /\ \A c \in Cases : ~results[c].ok => results[c].scores = Fresh.scores
       /\ \A j \in Judges : summary.means[j][2] <= summary.passes
       /\ regression_compare(results, results)
       /\ verdict => \A c \in Cases : baseline[c].ok =>
            results[c].ok /\ results[c].cost <= baseline[c].cost
              /\ \A j \in Judges : results[c].scores[j] # None
=============================================================================
