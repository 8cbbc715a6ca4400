---------------------------- MODULE MCDurable -----------------------------
(* Small instances of Durable, and beside it of what a resumed run does:   *)
(* Replays, the flow run again from its checkpoints, and Gate; and of the  *)
(* sinks of a run's trajectory (Observers).                                *)
EXTENDS DurableProofs

CONSTANTS Parts, s1, r1, r2, d1, ga, gb, old, new

VARIABLE part  \* the part that is explored; the others stay as they are
VARIABLES ob_deck, ob_shape, ob_way, ob_sinks, ob_id_map, ob_name, ob_call, ob_stage, ob_outcome,
          ob_faults

(* One gate, and a flow that waits at it. *)
OneGate == [f \in Shapes |-> <<ga>>]

(* Two gates in a row. *)
TwoGates == [f \in Shapes |-> <<ga, gb>>]

(* A deploy put a second gate before the one the run waits at. *)
GateAdded == [f \in Shapes |-> IF f = old THEN <<ga>> ELSE <<gb, ga>>]

SameShape == [c \in Starts \cup Resumes |-> CHOOSE f \in Shapes : TRUE]

(* The starts run the old flow, and every resume the new one. *)
ResumesAreNew == [c \in Starts \cup Resumes |-> IF c \in Resumes THEN new ELSE old]

(* The process of r2 refuses a changed flow, the others adopt it. *)
OnlyR2Fails == [c \in Starts \cup Resumes |-> IF c = r2 THEN "fail" ELSE "replay"]

(* Everybody's datum is for the one gate. *)
AllForA == [r \in Resumes |-> ga]

(* The first datum is for gate ga, every other for gb. *)
AThenB == [r \in Resumes |-> IF r = r1 THEN ga ELSE gb]

(* A call may outlast its lease while it drives the flow. *)
InTheBody == {"body"}

(* The flows of Replays.                                                   *)
(* 1: sequence[step, checkpoint[step], gate, step, gate]                    *)
(* 8: parallel[sequence[step, gate], checkpoint[sequence[gate, step]]]       *)
(* 16: sequence[checkpoint[sequence[step, checkpoint[step], gate]], gate]    *)
(* 24: sequence[branch[step, gate], step, gate]; 30: twice the same id     *)
StepsOfFlows == 1 .. 32
FlowsOfSteps == {1, 8, 16, 24, 30}
KidsOfSteps ==
  << <<2, 3, 5, 6, 7>>, <<>>, <<4>>, <<>>, <<>>, <<>>, <<>>,
     <<9, 12>>, <<10, 11>>, <<>>, <<>>, <<13>>, <<14, 15>>, <<>>, <<>>,
     <<17, 23>>, <<18>>, <<19, 20, 22>>, <<>>, <<21>>, <<>>, <<>>, <<>>,
     <<25, 28, 29>>, <<26, 27>>, <<>>, <<>>, <<>>, <<>>, <<31, 32>>, <<>>, <<>> >>
KindsOfSteps ==
  <<"sequence", "step", "checkpoint", "step", "suspend", "step", "suspend",
    "parallel", "sequence", "step", "suspend", "checkpoint", "sequence", "suspend", "step",
    "sequence", "checkpoint", "sequence", "step", "checkpoint", "step", "suspend", "suspend",
    "sequence", "branch", "step", "suspend", "step", "suspend", "sequence", "suspend", "suspend">>
SuspendIds == [n \in StepsOfFlows |-> IF n = 32 THEN 31 ELSE n]
FailingSteps == {20}
MarkedSteps == {2, 4, 6, 10, 15, 19, 21, 26, 28}

(* The sinks that a tee may hold. *)
DecksOfSinks == {<<"line">>, <<"otel">>, <<"line", "otel">>, <<"otel", "line">>, <<"throws", "otel">>}

----------------------------------------------------------------------------
rp_vars == <<rp_root, rp_arm, rp_pass, rp_status, rp_resumed, rp_unreached, rp_store, rp_started, rp_again,
  rp_replayed, rp_mishap, rp_outcome>>

gt_vars == <<gt_store, gt_paid, gt_runs, gt_run, gt_shown, gt_approved, gt_passed, gt_unshown, gt_resold>>

O == INSTANCE Observers WITH
  deck <- ob_deck, shape <- ob_shape, way <- ob_way, sinks <- ob_sinks, id_map <- ob_id_map,
  name <- ob_name, call <- ob_call, stage <- ob_stage, outcome <- ob_outcome, faults <- ob_faults,
  Decks <- DecksOfSinks, Shapes <- {"parallel", "sequence"}, Ways <- {"model_call", "direct"},
  Calls <- {1, 2}, MaxTurns <- 1, MaxFaults <- 1, None <- None
ob_vars == <<ob_deck, ob_shape, ob_way, ob_sinks, ob_id_map, ob_name, ob_call, ob_stage, ob_outcome, ob_faults>>

all == <<part, vars, rp_vars, gt_vars, ob_vars>>

AllInit ==
  /\ part \in Parts
  /\ Init
  /\ TheReplays!Init /\ (part # "replays" => rp_root = 30)
  /\ TheGate!Init
  /\ IF part = "observers" THEN O!Init
     ELSE ob_deck = 0 /\ ob_shape = 0 /\ ob_way = 0 /\ ob_sinks = 0 /\ ob_id_map = 0 /\
          ob_name = 0 /\ ob_call = 0 /\ ob_stage = 0 /\ ob_outcome = 0 /\ ob_faults = 0

AllNext ==
  \/ part = "durable" /\ Next /\ UNCHANGED <<part, rp_vars, gt_vars, ob_vars>>
  \/ part = "replays" /\ TheReplays!Next /\ UNCHANGED <<part, vars, gt_vars, ob_vars>>
  \/ part = "gate" /\ TheGate!Next /\ UNCHANGED <<part, vars, rp_vars, ob_vars>>
  \/ part = "observers" /\ O!Next /\ UNCHANGED <<part, vars, rp_vars, gt_vars>>

AllSpec == AllInit /\ [][AllNext]_all

(* A live process keeps running, and a claim whose owner is gone runs out. *)
AllFairSpec ==
  /\ AllSpec
  /\ \A c \in Calls : WF_vars(part = "durable" /\ pc[c] # "new" /\ Step(c))
  /\ WF_vars(part = "durable" /\ ExpireLease)
  /\ \A g \in Gates : WF_vars(part = "durable" /\ ExpireGateClaim(g))

----------------------------------------------------------------------------
(* Every sink is told the run as it was, as far as its kind can tell it.   *)
SinksTellTheRun == part = "observers" => O!SinksTellTheRun
============================================================================
