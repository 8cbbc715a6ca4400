----------------------------- MODULE MCRunner -----------------------------
(* Small instances of Runner for TLC, and beside it of what a run runs.     *)
(* Flow: the composers at work, in a small forest of flows.                 *)
(*   guarded: fallback(retry(parallel({ a, g })), b)                        *)
(*     a gate beside a step that fails                                      *)
(*   batch: sequence([map(g), loop({ body: branch(a, b), guard: c })])      *)
(*     a settling map of gates, then rounds                                 *)
(*   patient: retry(timeout(sequence([a, g])))                              *)
(*     the next attempt beside the last one                                 *)
(*   nested: timeout(map(retry(timeout(s))))                                *)
(*     timeouts within timeouts, around a step that need never end          *)
(* Composition: what the composers hand on, in four flows and every graph   *)
(* of three steps.  Rounds: the games of improvement and judging.  Bench:   *)
(* the cases of a benchmark.  AcpCards: the cards and approvals of a prompt.*)
EXTENDS Runner, TLC

CONSTANTS Parts, a, b, NoPath

VARIABLE part  \* the part that is explored; the others stay as they are
VARIABLES cn_root, cn_at, cn_pos, cn_spans, cn_span, cn_stage, cn_state, cn_map, cn_converged,
          cn_log, cn_reads, cn_aborted

(* Run a may have two cleanup handlers, the other has none. *)
TwoForA == [r \in Runs |-> IF r = a THEN 2 ELSE 0]

(* The flows of Composition, each numbered from its root.                  *)
PlacesOfFlows == 1 .. 30
RootsOfFlows == {1, 10, 18, 25}
KindsOfPlaces ==
  (1 :> "scope" @@ 2 :> "stash" @@ 3 :> "step" @@ 4 :> "parallel" @@ 5 :> "scope" @@ 6 :> "stash" @@ 7 :> "step" @@ 8 :> "use" @@ 9 :> "stash" @@
   10 :> "chain" @@ 11 :> "step" @@ 12 :> "compose" @@ 13 :> "step" @@ 14 :> "step" @@ 15 :> "step" @@ 16 :> "step" @@ 17 :> "step" @@
   18 :> "loop" @@ 19 :> "scope" @@ 20 :> "use" @@ 21 :> "stash" @@ 22 :> "pipe" @@ 23 :> "step" @@ 24 :> "step" @@
   25 :> "sequence" @@ 26 :> "step" @@ 27 :> "step" @@ 28 :> "use" @@ 29 :> "step" @@ 30 :> "use")
KidsOfPlaces ==
  [n \in PlacesOfFlows |->
    CASE n = 1 -> <<2, 4, 30>> [] n = 2 -> <<3>> [] n = 4 -> <<5, 9>> [] n = 5 -> <<6, 8>> [] n = 6 -> <<7>> [] n = 9 -> <<29>>
      [] n = 10 -> <<11, 12, 14, 17>> [] n = 12 -> <<13>> [] n = 14 -> <<15>>
      [] n = 18 -> <<19, 24>> [] n = 19 -> <<20, 21>> [] n = 21 -> <<22>> [] n = 22 -> <<23>>
      [] n = 25 -> <<26, 27, 28>>
      [] OTHER -> <<>>]
ChainPlan == [n \in PlacesOfFlows |-> IF n = 10 THEN <<"child", "draft", "child", "review", "child", "child">> ELSE <<>>]
KeysOfPlaces == [n \in {2, 6, 8, 9, 20, 21, 28, 30} |-> IF n \in {9, 30} THEN "b" ELSE "a"]
Short(S) == {<<>>} \union {<<m>> : m \in S} \union {<<m, n>> : m, n \in S}
SmallGraphs == [1 .. 3 -> Short(1 .. 3)]

(* The nodes of the forest of Flow. *)
KindOfNode ==
  [a |-> "step", b |-> "step", c |-> "step", g |-> "step", s |-> "step",
   guarded |-> "fallback", again |-> "retry", both |-> "parallel",
   batch |-> "sequence", gates |-> "map", rounds |-> "loop", either |-> "branch",
   patient |-> "retry", hurry |-> "timeout", pair |-> "sequence",
   nested |-> "timeout", each |-> "map", twice |-> "retry", brief |-> "timeout"]

KidsOfNode ==
  [n \in {"a", "b", "c", "g", "s"} |-> <<>>] @@
  [guarded |-> <<"again", "b">>, again |-> <<"both">>, both |-> <<"a", "g">>,
   batch |-> <<"gates", "rounds">>, gates |-> <<"g">>, rounds |-> <<"either", "c">>,
   either |-> <<"a", "b">>,
   patient |-> <<"hurry">>, hurry |-> <<"pair">>, pair |-> <<"a", "g">>,
   nested |-> <<"each">>, each |-> <<"twice">>, twice |-> <<"brief">>, brief |-> <<"s">>]

TheNodes == DOMAIN KindOfNode
Twos == [n \in TheNodes |-> 2]

(* The items of the nested map run one after the other. *)
OneAtATime == [Twos EXCEPT !["each"] = 1]

(* A turn edits and runs a command, under the same raw id.                 *)
StepsOfATurn == {1, 2}
TheRawId(s) == "raw"
DoesOfStep(s) == IF s = 1 THEN "edit" ELSE "command"

----------------------------------------------------------------------------
K == INSTANCE Composition WITH
  root <- cn_root, at <- cn_at, pos <- cn_pos, spans <- cn_spans, span <- cn_span,
  stage <- cn_stage, state <- cn_state, map <- cn_map, converged <- cn_converged, log <- cn_log,
  reads <- cn_reads, aborted <- cn_aborted, Nodes <- PlacesOfFlows, Roots <- RootsOfFlows,
  Kind <- KindsOfPlaces, Kids <- KidsOfPlaces, Plan <- ChainPlan, Key <- KeysOfPlaces,
  Graphs <- SmallGraphs, Child <- "child", MaxRounds <- 2, NoPath <- NoPath
cn_vars == <<cn_root, cn_at, cn_pos, cn_spans, cn_span, cn_stage, cn_state, cn_map, cn_converged, cn_log,
  cn_reads, cn_aborted>>

ac_vars == <<ac_parallel, ac_turn, ac_phase, ac_cancelled, ac_call, ac_events, ac_lost, ac_recorded, ac_sent,
  ac_cards, ac_runs, ac_previews, ac_taking, ac_left, ac_client, ac_mode, ac_granted, ac_wrong>>

fl_vars == <<fl_frames, fl_controller>>

(* The forest is one that no suspension is lost in. *)
ASSUME FlowsAreCareful == Careful

rd_vars == <<rd_kind, rd_phase, rd_round, rd_state, rd_result, rd_log>>

bn_vars == <<bn_limit, bn_at, bn_judging, bn_results, bn_next, bn_halted, bn_aborted, bn_late, bn_bench,
  bn_summary, bn_baseline, bn_verdict>>

all == <<part, vars, fl_vars, cn_vars, rd_vars, bn_vars, ac_vars>>

AllInit ==
  /\ part \in Parts
  /\ Init
  /\ part # "runner" => opted_out = {}
  /\ IF part = "composition" THEN K!Init
     ELSE cn_root = 0 /\ cn_at = 0 /\ cn_pos = 0 /\ cn_spans = 0 /\ cn_span = 0 /\ cn_stage = 0 /\
          cn_state = 0 /\ cn_map = 0 /\ cn_converged = 0 /\ cn_log = 0 /\ cn_reads = 0 /\
          cn_aborted = 0
  /\ TheCards!Init
  /\ part # "cards" => ~ac_parallel
  /\ TheFlow!Init
  /\ part # "flow" => fl_frames[1].node = "batch"
  /\ TheRounds!Init
  /\ part # "rounds" => rd_kind = "consensus"
  /\ TheBench!Init
  /\ part # "bench" => bn_limit = 2 /\ \A c \in BenchCases : bn_baseline[c] = TheBench!Fresh

(* A step is of the part that is explored. *)
InRunner == part = "runner" /\ UNCHANGED <<part, fl_vars, cn_vars, rd_vars, bn_vars, ac_vars>>
InFlow == part = "flow" /\ UNCHANGED <<part, vars, cn_vars, rd_vars, bn_vars, ac_vars>>
InComposition == part = "composition" /\ UNCHANGED <<part, vars, fl_vars, rd_vars, bn_vars, ac_vars>>
InRounds == part = "rounds" /\ UNCHANGED <<part, vars, fl_vars, cn_vars, bn_vars, ac_vars>>
InBench == part = "bench" /\ UNCHANGED <<part, vars, fl_vars, cn_vars, rd_vars, ac_vars>>
InCards == part = "cards" /\ UNCHANGED <<part, vars, fl_vars, cn_vars, rd_vars, bn_vars>>

AllNext ==
  \/ InRunner /\ Next
  \/ InFlow /\ TheFlow!Next
  \/ InComposition /\ K!Next
  \/ InRounds /\ TheRounds!Next
  \/ InBench /\ TheBench!Next
  \/ InCards /\ TheCards!Next

AllSpec == AllInit /\ [][AllNext]_all

(* The timer of a handler fires, and a flush whose handlers are done with  *)
(* settles.  Nothing makes a handler return.  The stream of a turn's events *)
(* goes on.  The composers go on when they can, the timers of timeouts      *)
(* fire, and a step that is aborted honours it, unless it is stubborn.  No  *)
(* other step need ever end.                                                *)
AllFairSpec ==
  /\ AllSpec
  /\ \A r \in Runs : WF_vars(part = "runner" /\ HandlerTimesOut(r))
  /\ \A r \in Runs : WF_vars(part = "runner" /\ (Settle(r) \/ SettleThrows(r)))
  /\ WF_ac_vars(part = "cards" /\ TheCards!forward)
  /\ WF_ac_vars(part = "cards" /\ TheCards!ClientTakes)
  /\ \A s \in StepsOfATurn : WF_ac_vars(part = "cards" /\ TheCards!Asks(s))
  /\ WF_fl_vars(part = "flow" /\ (\E f \in DOMAIN fl_frames : TheFlow!Compose(f)))
  /\ WF_fl_vars(part = "flow" /\ (\E f \in DOMAIN fl_frames : TheFlow!TimerFires(f)))
  /\ WF_fl_vars(part = "flow" /\ (\E f \in DOMAIN fl_frames : fl_frames[f].node \notin {"s"} /\ TheFlow!LeafHonoursAbort(f)))

----------------------------------------------------------------------------
(* Every composer hands on, keeps and reports what its kind promises.      *)
FlowIsAsTold == part = "composition" => K!FlowIsAsTold

RunOf(n) == <<a, b>>[n]

(* No wait lasts for ever: a handler that never returns does not keep a run *)
(* from settling (cleanup.ts), an approval that is waited for has been asked*)
(* of the editor (approve.ts), and a flow whose run is aborted ends, but for*)
(* a step that ignores its signal.                                          *)
Waits(n) ==
  \/ part = "runner" /\ phase[RunOf(n)] = "flush"
  \/ part = "cards" /\ ac_call[n].at = "waits" /\ ~ac_cancelled /\ ~ac_lost
  \/ /\ part = "flow" /\ n = 1 /\ fl_controller # "none" /\ TheFlow!Live(1)
     /\ \A f \in DOMAIN fl_frames : fl_frames[f].node # "s"

WaitsEnd == \A n \in 1 .. 2 : Waits(n) ~> ~Waits(n)
============================================================================
