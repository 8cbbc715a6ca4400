--------------------------- MODULE MCViewerTail ---------------------------
(* Small instances of ViewerTail for TLC, and beside it of the feed from   *)
(* the file to the page (TheFeed) and of its playback (ThePlayback), which *)
(* are the instances that the proofs speak of.                             *)
EXTENDS ViewerTailProofs

CONSTANT Parts

VARIABLE part  \* the part that is explored; the others stay as they are

(* The bodies of POSTs to the viewer. *)
TheBodies == {<<"good">>, <<"good", "bad">>, <<"bad", "good">>, <<"good", "good">>}

(* The steps of a run's stamps, one of them back. *)
TheGaps == {-4, 0, 1, 5}

----------------------------------------------------------------------------
vf_vars == <<vf_mode, vf_file, vf_ending, vf_tailed, vf_issued, vf_post, vf_page, vf_wire, vf_missed,
  vf_written, vf_rotations, vf_restarts, vf_drops>>

pb_vars == <<pb_times, pb_runs, pb_held, pb_playback, pb_due>>

all == <<part, vars, vf_vars, pb_vars>>

AllInit ==
  /\ part \in Parts
  /\ Init /\ TheFeed!Init /\ ThePlayback!Init
  /\ part # "tail" => follow_links = (TRUE \in FollowLinks) /\ files = <<>> /\ dir = 0
  /\ part # "feed" => vf_mode = "tail"

AllNext ==
  \/ part = "tail" /\ Next /\ UNCHANGED <<part, vf_vars, pb_vars>>
  \/ part = "feed" /\ TheFeed!Next /\ UNCHANGED <<part, vars, pb_vars>>
  \/ part = "playback" /\ ThePlayback!Next /\ UNCHANGED <<part, vars, vf_vars>>

AllSpec == AllInit /\ [][AllNext]_all

(* The event loop serves the pass in flight and the watches; nothing is    *)
(* asked of the writer.                                                    *)
AllFairSpec ==
  /\ AllSpec
  /\ WF_vars(part = "tail" /\ Pass)
  /\ WF_vars(part = "tail" /\ (\E w \in {"file", "dir"} : Notice(w)))

----------------------------------------------------------------------------
(* The tail comes to rest when its writer does (schedule in tail.ts). *)
TailRests == part = "tail" => ComesToRest
============================================================================
