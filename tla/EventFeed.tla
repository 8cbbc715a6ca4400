----------------------------- MODULE EventFeed -----------------------------
(* What run.stream promises the consumer of a run's events: it gets them   *)
(* in the order of the run, it may miss old ones when it is slow, never    *)
(* the newest, and it is told the feed is over only when it has got        *)
(* everything that was still to be had.                                    *)
EXTENDS Naturals

VARIABLES
  emitted,   \* the number of events the run has recorded, while the feed was open
  seen,      \* the number of the newest one the consumer has received
  open,      \* whether the feed still takes events
  over       \* whether the consumer was told that the feed is over

feed == <<emitted, seen, open, over>>

Init == emitted = 0 /\ seen = 0 /\ open = TRUE /\ over = FALSE

Emit ==
  /\ open
  /\ emitted' = emitted + 1
  /\ seen' \in {seen, emitted'}   \* a consumer that waits for it has it at once
  /\ UNCHANGED <<open, over>>

Receive ==
  /\ seen' \in seen + 1 .. emitted
  /\ UNCHANGED <<emitted, open, over>>

(* The run settles, or the consumer turns away. *)
Shut ==
  /\ open' = FALSE
  /\ over' \in {over, seen = emitted}
  /\ UNCHANGED <<emitted, seen>>

Finish ==
  /\ ~open /\ seen = emitted
  /\ over' = TRUE
  /\ UNCHANGED <<emitted, seen, open>>

Next == Emit \/ Receive \/ Shut \/ Finish

Spec == Init /\ [][Next]_feed
=============================================================================
