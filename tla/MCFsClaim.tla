---------------------------- MODULE MCFsClaim -----------------------------
(* Small instances of FsClaim for TLC, and beside it of the inspector that *)
(* reads a run's events (Drawer).                                          *)
EXTENDS FsClaim, TLC

CONSTANTS Parts, a, b, c, x, None

VARIABLE part  \* the part that is explored; the others stay as they are
VARIABLES dr_plan, dr_sent, dr_log, dr_wire, dr_frames, dr_lost, dr_moves, dr_turns, dr_held,
          dr_open, dr_picked, dr_copied, dr_copies, dr_last_copy

(* Everybody but the clearer, or one owner and the clearer. *)
OneMeetsTheClearer == {Owners \ Clearers} \cup {{p} \cup Clearers : p \in Owners}

(* Owner a renews what it claimed, everybody else claims once. *)
OnlyARenews == [p \in Owners |-> IF p = a THEN 2 ELSE 1]

OwnerSymmetry == Permutations({b, c})

(* The inspector's calls: of three turns and none, or of one each.          *)
NodesOfCalls == <<"a", "b">>
PlansOfTurns == {<<3, 0>>, <<1, 1>>}

----------------------------------------------------------------------------
D == INSTANCE Drawer WITH
  plan <- dr_plan, sent <- dr_sent, log <- dr_log, wire <- dr_wire, frames <- dr_frames,
  lost <- dr_lost, moves <- dr_moves, turns <- dr_turns, held <- dr_held, open <- dr_open,
  picked <- dr_picked, copied <- dr_copied, copies <- dr_copies, last_copy <- dr_last_copy,
  Calls <- {1, 2}, NodeOf <- NodesOfCalls, Plans <- PlansOfTurns, InFlight <- 2, MaxLost <- 1,
  MaxMoves <- 2, None <- None
dr_vars == <<dr_plan, dr_sent, dr_log, dr_wire, dr_frames, dr_lost, dr_moves, dr_turns, dr_held, dr_open,
  dr_picked, dr_copied, dr_copies, dr_last_copy>>

all == <<part, vars, dr_vars>>

AllInit ==
  /\ part \in Parts
  /\ Init
  /\ part # "claim" => \A p \in Clearers : pc[p] = "gone"
  /\ IF part = "drawer" THEN D!Init
     ELSE dr_plan = 0 /\ dr_sent = 0 /\ dr_log = 0 /\ dr_wire = 0 /\ dr_frames = 0 /\ dr_lost = 0 /\
          dr_moves = 0 /\ dr_turns = 0 /\ dr_held = 0 /\ dr_open = 0 /\ dr_picked = 0 /\
          dr_copied = 0 /\ dr_copies = 0 /\ dr_last_copy = 0

AllNext ==
  \/ part = "claim" /\ Next /\ UNCHANGED <<part, dr_vars>>
  \/ part = "drawer" /\ D!Next /\ UNCHANGED <<part, vars>>

AllSpec == AllInit /\ [][AllNext]_all

----------------------------------------------------------------------------
(* The inspector shows the turns of the node that is picked.               *)
InspectorIsTrue == part = "drawer" => D!InspectorIsTrue
============================================================================
