------------------------------- MODULE Rounds -------------------------------
(* The composites that go in rounds, over core/loop.ts: improve (with the  *)
(* round of ensemble_step in it), adversarial, consensus, and tournament's *)
(* bracket.  What a member of theirs returns is any value; what the round  *)
(* makes of it, and when the rounds end, is the model.                     *)
EXTENDS Naturals, Sequences, FiniteSets, SequencesExt, FiniteSetsExt

CONSTANTS
  Members,    \* the members' keys, numbered in the order of the configuration
  Players,    \* how many play a tournament, numbered likewise
  MaxScore,   \* bound of the model: the scores
  MaxRounds,  \* max_rounds
  Patience,   \* budget.patience of improve
  Capacity,   \* lessons_capacity
  NaN,        \* a score that is not a number
  None        \* no result yet

VARIABLES
  kind,    \* the composite
  phase,   \* what it does next: "body", "guard", "over" or "threw"
  round,   \* rounds begun
  state,   \* the state its loop carries
  result,  \* what it returns, or None
  log      \* each round's outcome, in a trajectory

vars == <<kind, phase, round, state, result, log>>

Kinds == {"improve", "adversarial", "consensus", "tournament"}

Scores == 0..MaxScore
Scored == [score : Scores \union {NaN}, accepted : BOOLEAN, reason : BOOLEAN]

Content(r, m) == <<r, m>>

Init ==
  /\ kind \in Kinds
  /\ phase = "body" /\ round = 0 /\ result = None /\ log = <<>>
  /\ CASE kind = "improve" -> \E seed \in Scores :
            state = [parent |-> Content(0, 0), parent_score |-> seed, idle |-> 0, history |-> <<>>, lessons |-> <<>>, stopped |-> "none"]
       [] kind = "adversarial" -> state = [candidate |-> 0, notes |-> 0]
       [] kind = "consensus" -> state = [results |-> <<>>]
       [] kind = "tournament" -> state = [current |-> [n \in 1..Players |-> n], next |-> <<>>, bracket |-> <<>>]

----------------------------------------------------------------------------
(* ensemble_step: every member's candidate is scored and the best rank     *)
(* wins, the first of them in the members' order; NaN never does.          *)

Ranked(scored) == {m \in DOMAIN scored : scored[m].score # NaN}

BestOf(scored) ==
  CHOOSE m \in Ranked(scored) :
    \A n \in Ranked(scored) : \/ scored[m].score > scored[n].score
                              \/ scored[m].score = scored[n].score /\ m <= n

(* Mutant: a round's winner replaces the parent it does not improve on. *)
merge_outcome_any(s, r, m, w) ==
  LET accepted == w.accepted
      lessons == IF ~accepted /\ w.reason /\ Capacity > 0 THEN Append(s.lessons, r) ELSE s.lessons
  IN [s EXCEPT !.parent = IF accepted THEN Content(r, m) ELSE @,
               !.parent_score = IF accepted THEN w.score ELSE @,
               !.idle = IF accepted THEN 0 ELSE @ + 1,
               !.history = Append(@, [member |-> m, winner |-> w, accepted |-> accepted]),
               !.lessons = SubSeq(lessons, IF Len(lessons) > Capacity THEN Len(lessons) - Capacity + 1 ELSE 1, Len(lessons))]

(* The winner becomes the parent if it passed the gate and scores more. *)
merge_outcome(s, r, m, w) ==
  LET accepted == w.accepted /\ w.score > s.parent_score
      lessons == IF ~accepted /\ w.reason /\ Capacity > 0 THEN Append(s.lessons, r) ELSE s.lessons
  IN [s EXCEPT !.parent = IF accepted THEN Content(r, m) ELSE @,
               !.parent_score = IF accepted THEN w.score ELSE @,
               !.idle = IF accepted THEN 0 ELSE @ + 1,
               !.history = Append(@, [member |-> m, winner |-> w, accepted |-> accepted]),
               !.lessons = SubSeq(lessons, IF Len(lessons) > Capacity THEN Len(lessons) - Capacity + 1 ELSE 1, Len(lessons))]

Throws == phase' = "threw" /\ UNCHANGED <<state, result>>

Goes(s) == state' = s /\ phase' = "guard" /\ UNCHANGED result

Begins(k) == kind = k /\ phase = "body" /\ round < MaxRounds /\ round' = round + 1 /\ UNCHANGED kind

ImproveRound ==
  /\ Begins("improve")
  /\ \E scored \in [Members -> Scored] :
       /\ log' = Append(log, {scored[m].score : m \in Ranked(scored)})
       /\ IF Ranked(scored) = {} THEN Throws
          ELSE LET m == BestOf(scored) IN Goes(merge_outcome(state, round', m, scored[m]))

(* A plateau, or the wall clock, which may run out at any round. *)
ImproveGuard ==
  /\ kind = "improve" /\ phase = "guard"
  /\ \E late \in BOOLEAN :
       LET stopped == IF state.idle >= Patience THEN "plateau" ELSE IF late THEN "budget" ELSE "none"
           over == stopped # "none" \/ round = MaxRounds
       IN /\ state' = [state EXCEPT !.stopped = stopped]
          /\ phase' = IF over THEN "over" ELSE "body"
          /\ result' = IF ~over THEN None
                       ELSE [best |-> state.parent, score |-> state.parent_score, rounds |-> round,
                             stopped_by |-> IF stopped = "none" THEN "budget" ELSE stopped]
  /\ UNCHANGED <<kind, round, log>>

(* The build sees the candidate before it and the critique of it. *)
build_input_from_state(s) ==
  IF s.candidate = 0 THEN [prior |-> 0, critique |-> 0] ELSE [prior |-> s.candidate, critique |-> s.notes]

AdversarialRound ==
  /\ Begins("adversarial")
  /\ log' = Append(log, build_input_from_state(state))
  /\ \/ Throws   \* the build returns undefined, and the guard has no candidate
     \/ Goes([state EXCEPT !.candidate = round'])

AdversarialGuard ==
  /\ kind = "adversarial" /\ phase = "guard"
  /\ state' = [state EXCEPT !.notes = state.candidate]
  /\ \E accept \in BOOLEAN :
       /\ phase' = IF accept \/ round = MaxRounds THEN "over" ELSE "body"
       /\ result' = IF accept \/ round = MaxRounds
                    THEN [candidate |-> state.candidate, converged |-> accept, rounds |-> round] ELSE None
  /\ UNCHANGED <<kind, round, log>>

(* parallel gives the round every member's result, or throws. *)
ConsensusRound ==
  /\ Begins("consensus")
  /\ \/ Throws /\ UNCHANGED log
     \/ \E results \in [Members -> 0..1] : log' = Append(log, results) /\ Goes([results |-> results])

ConsensusGuard ==
  /\ kind = "consensus" /\ phase = "guard"
  /\ LET agree == \A m, n \in Members : state.results[m] = state.results[n]
         over == agree \/ round = MaxRounds
     IN /\ phase' = IF over THEN "over" ELSE "body"
        /\ result' = IF over THEN [results |-> state.results, converged |-> agree] ELSE None
  /\ UNCHANGED <<kind, round, state, log>>

(* play_round, a match at a time: two survivors meet, the last of an odd   *)
(* number has a bye.                                                       *)
Match ==
  /\ kind = "tournament" /\ phase = "body" /\ Len(state.current) >= 2
  /\ LET one == state.current[1] other == state.current[2] IN
     \E winner \in {one, other} :
       state' = [current |-> SubSeq(state.current, 3, Len(state.current)), next |-> Append(state.next, winner),
                 bracket |-> Append(state.bracket, [round |-> round + 1, a |-> one, b |-> other, winner |-> winner])]
  /\ UNCHANGED <<kind, phase, round, result, log>>

NextRound ==
  /\ kind = "tournament" /\ phase = "body" /\ Len(state.current) < 2
  /\ LET survivors == state.next \o state.current IN
     IF Len(survivors) = 1
     THEN phase' = "over" /\ result' = Head(survivors) /\ UNCHANGED <<state, round>>
     ELSE /\ state' = [state EXCEPT !.current = survivors, !.next = <<>>]
          /\ round' = round + 1 /\ UNCHANGED <<phase, result>>
  /\ UNCHANGED <<kind, log>>

Next == ImproveRound \/ ImproveGuard \/ AdversarialRound \/ AdversarialGuard
          \/ ConsensusRound \/ ConsensusGuard \/ Match \/ NextRound

Spec == Init /\ [][Next]_vars

----------------------------------------------------------------------------
(* Properties *)

Done(k) == kind = k /\ phase = "over"

Accepted == {r \in DOMAIN state.history : state.history[r].accepted}

(* What improve returns is what its rounds show: the candidate of the last *)
(* round that was accepted, which passed its gate, scored no less than any *)
(* of its round and more than each accepted before it; a plateau exactly   *)
(* when the last rounds, as many as its patience, all failed; and the      *)
(* lessons are the last reasons it had.                                    *)
BestIsKept ==
  /\ \A r \in Accepted :
       /\ state.history[r].winner.accepted
       /\ \A n \in log[r] : state.history[r].winner.score >= n
       /\ \A q \in Accepted : q < r => state.history[q].winner.score < state.history[r].winner.score
  /\ Accepted # {} =>
       LET last == Max(Accepted) IN
       result.best = Content(last, state.history[last].member) /\ result.score = state.history[last].winner.score
  /\ Accepted = {} => result.best = Content(0, 0)
  /\ result.rounds = Len(log) /\ result.rounds <= MaxRounds
  /\ result.stopped_by = "plateau" <=>
       result.rounds >= Patience /\ \A r \in result.rounds - Patience + 1..result.rounds : r \notin Accepted
  /\ LET failed == {r \in DOMAIN log : r \notin Accepted /\ state.history[r].winner.reason}
     IN ToSet(state.lessons) = {r \in failed : Cardinality({q \in failed : q > r}) < Capacity}

(* Each build of adversarial but the first has the candidate before it     *)
(* with the critique of that very candidate, and it returns the last one.  *)
CritiqueIsOfThePrior ==
  /\ \A r \in DOMAIN log : log[r] = [prior |-> r - 1, critique |-> r - 1]
  /\ result.candidate = Len(log) /\ result.rounds = Len(log)
  /\ ~result.converged => result.rounds = MaxRounds

(* Every member of a tournament but its winner loses one match, the last   *)
(* that it plays, and the winner loses none.                               *)
OneLossEach ==
  \A m \in 1..Players :
    LET played == {i \in DOMAIN state.bracket : m \in {state.bracket[i].a, state.bracket[i].b}}
        lost == {i \in played : state.bracket[i].winner # m}
    IN IF m = result THEN lost = {} ELSE lost = {Max(played)}

(* What the rounds return is what they show (improve.ts, adversarial.ts,   *)
(* consensus.ts, tournament.ts).                                           *)
RoundsAreTold ==
  /\ Done("improve") => BestIsKept
  /\ Done("adversarial") => CritiqueIsOfThePrior
  /\ Done("consensus") =>
       /\ result.results = log[Len(log)]
       /\ result.converged <=> Cardinality({result.results[m] : m \in Members}) = 1
       /\ \A r \in 1..Len(log) - 1 : Cardinality({log[r][m] : m \in Members}) > 1
  /\ Done("tournament") => OneLossEach
=============================================================================
