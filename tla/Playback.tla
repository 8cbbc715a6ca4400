------------------------------ MODULE Playback ------------------------------
(* The viewer's playhead: the timeline of app/lib/timeline.ts, the          *)
(* performance of app/lib/playback.ts, and the handlers of app/main.tsx     *)
(* that share one playhead between a scrub, a performance, a walk by hand   *)
(* and the live edge, while frames go on arriving.                          *)
(*                                                                          *)
(* Wall time is counted in sixths of the unit of run time, so that each of  *)
(* the three speeds divides it.  Indices start at 0, as in the code.        *)
EXTENDS Integers, Sequences, FiniteSetsExt

CONSTANTS
  None,
  MaxEvents,    \* frames of the run
  MaxRuns,      \* how many runs the log holds
  Gaps,         \* how much later (earlier, when negative) than the last a frame may be stamped
  Ticks,        \* how much wall time passes between two animation frames
  GAP_FLOOR,    \* GAP_FLOOR_MS
  GAP_CAP,      \* GAP_CAP_MS
  Second        \* the second of step_second

VARIABLES
  times,     \* timeline().times
  runs,      \* how many runs have started
  held,      \* None follows the live edge
  playback,  \* since is the wall time since anchor_now_ms
  due        \* something that the playhead's effect reads has changed

vars == <<times, runs, held, playback, due>>

INITIAL_PLAYBACK ==
  [playing |-> FALSE, stepping |-> FALSE, speed |-> 1, compress |-> TRUE, loop |-> FALSE, anchor |-> 0, since |-> 0]

Init ==
  /\ times = <<>>
  /\ runs = 1
  /\ held = None
  /\ playback = INITIAL_PLAYBACK
  /\ due = FALSE

Count == Len(times)

Clamp(n, low, high) == Min({high, Max({low, n})})

At(i) == times[i + 1]

span == IF Count = 0 THEN 0 ELSE At(Count - 1)

index == IF held = None THEN Max({0, Count - 1}) ELSE held

----------------------------------------------------------------------------
(* timeline.ts. *)

step_event(i, direction) == Clamp(i + direction, 0, Max({0, Count - 1}))

next_beat(i) ==
  LET later == {j \in i + 1..Count - 1 : j = Count - 1 \/ At(j + 1) > At(j)}
  IN  IF span = 0 THEN step_event(i, 1) ELSE IF later = {} THEN i ELSE Min(later)

step_second(i, direction) ==
  LET ahead == {j \in i + 1..Count - 1 : At(j) >= At(i) + Second}
      behind == {j \in 0..i - 1 : At(j) <= At(i) - Second}
  IN  IF direction > 0 THEN Min(ahead \cup {Count - 1}) ELSE Max(behind \cup {0})

(* index_at_fraction, nearest_index: the event nearest to a moment of the  *)
(* spine, or an index where the run has no span.                           *)
index_at(target) ==
  LET first == Min({j \in 0..Count - 1 : At(j) >= target})
  IN  IF span = 0 THEN target
      ELSE IF first > 0 /\ target - At(first - 1) <= At(first) - target THEN first - 1
      ELSE first

----------------------------------------------------------------------------
(* playback.ts. *)

paced(gap) == ((IF gap > 0 THEN Max({gap, GAP_FLOOR}) ELSE 0) * 6) \div playback.speed

(* build_plan: the wall offset of each event. *)
plan ==
  LET wall[i \in 1..Count] ==
        IF i = 1 THEN 0
        ELSE LET gap == paced(times[i] - times[i - 1])
             IN  wall[i - 1] + (IF playback.compress THEN Min({gap, 6 * GAP_CAP}) ELSE gap)
  IN  wall

play_elapsed == plan[playback.anchor + 1] + playback.since

(* position_at: the last event at or behind the offset. *)
position_at(elapsed) == Max({j \in 0..Count - 1 : plan[j + 1] <= elapsed})

done == play_elapsed >= plan[Count]

(* The T+ of position_at, which runs through the gap that it is in. *)
t_plus ==
  LET i == position_at(play_elapsed)
  IN  IF done THEN 6 * At(i)
      ELSE 6 * At(i) + ((play_elapsed - plan[i + 1]) * 6 * (At(i + 1) - At(i))) \div (plan[i + 2] - plan[i + 1])

anchored(state, i) == IF state.playing THEN [state EXCEPT !.anchor = i, !.since = 0] ELSE state

step_entry_index == IF held = None \/ held >= Count - 1 THEN 0 ELSE held

toggle_play ==
  IF playback.playing THEN [playback EXCEPT !.playing = FALSE]
  ELSE IF Count < 2 THEN playback
  ELSE [playback EXCEPT !.playing = TRUE, !.anchor = step_entry_index, !.since = 0]

toggle_step ==
  IF playback.stepping THEN [playback EXCEPT !.stepping = FALSE]
  ELSE [playback EXCEPT !.stepping = TRUE, !.playing = FALSE]

----------------------------------------------------------------------------
(* main.tsx.  A handler is followed by the effect, before anything else.    *)

Handled(at, state) ==
  /\ ~due
  /\ held' = at
  /\ playback' = state
  /\ due' = state.playing

hold(target) == Handled(target, anchored(playback, target))

(* The effect: the playhead is where the clock is, and a schedule that is  *)
(* spent laps or stops.                                                    *)
Performs ==
  /\ due
  /\ held' = position_at(play_elapsed)
  /\ playback' = IF ~done THEN playback
                 ELSE IF playback.loop THEN [playback EXCEPT !.anchor = 0, !.since = 0]
                 ELSE [playback EXCEPT !.playing = FALSE]
  /\ due' = (done /\ playback.loop)
  /\ UNCHANGED <<times, runs>>

AnimationFrame ==
  /\ playback.playing
  /\ \E d \in Ticks : Handled(held, [playback EXCEPT !.since = @ + d])
  /\ UNCHANGED <<times, runs>>

(* on_frame; a frame without a usable ts leaves the clock where it was.     *)
(* build_timeline takes each stamp as it comes, one from before the last as *)
(* well: the clock may fall, though never below T+0.                        *)
Arrives ==
  /\ Count < MaxEvents
  /\ \E gap \in Gaps : times' = Append(times, IF Count = 0 THEN 0 ELSE Max({0, span + gap}))
  /\ Handled(held, playback)
  /\ UNCHANGED runs

(* on_new_run: return_to_live, and the log starts over. *)
NewRun ==
  /\ runs < MaxRuns /\ Count > 0
  /\ runs' = runs + 1
  /\ times' = <<0>>
  /\ Handled(None, [playback EXCEPT !.playing = FALSE])

(* The play chip and the space bar. *)
Forward ==
  /\ IF playback.stepping
     THEN Handled(IF Count = 0 THEN held ELSE next_beat(index), playback)
     ELSE Handled(held, toggle_play)
  /\ UNCHANGED <<times, runs>>

TogglesStepping ==
  /\ Handled(IF playback.stepping THEN held ELSE step_entry_index, toggle_step)
  /\ UNCHANGED <<times, runs>>

(* scrub_key, and seek with the pointer. *)
Scrubs ==
  /\ Count > 0
  /\ \E target \in {step_event(index, d) : d \in {-1, 1}} \cup {step_second(index, d) : d \in {-1, 1}} \cup {0}
                   \cup {index_at(t) : t \in IF span = 0 THEN 0..Count - 1 ELSE 0..span} : hold(target)
  /\ UNCHANGED <<times, runs>>

ReturnsToLive ==
  /\ Handled(None, [playback EXCEPT !.playing = FALSE])
  /\ UNCHANGED <<times, runs>>

TurnsADial ==
  /\ \/ Handled(held, anchored([playback EXCEPT !.speed = (@ % 3) + 1], index))
     \/ Handled(held, anchored([playback EXCEPT !.compress = ~@], index))
     \/ Handled(held, [playback EXCEPT !.loop = ~@])
  /\ UNCHANGED <<times, runs>>

Next ==
  \/ Performs \/ AnimationFrame \/ Arrives \/ NewRun
  \/ Forward \/ TogglesStepping \/ Scrubs \/ ReturnsToLive \/ TurnsADial

(* The effect runs, and so do the animation frames of the browser. *)
FairSpec == Init /\ [][Next]_vars /\ WF_vars(Performs) /\ WF_vars(AnimationFrame)

----------------------------------------------------------------------------
(* Properties. *)

(* Where a performance of the whole run stands, one moment after another. *)
Performed == {position_at(plan[i]) : i \in DOMAIN plan}

(* The playhead is on an event of the run, whatever arrived, started over  *)
(* or was pressed in between; the clock and the hand never drive it both;  *)
(* a running clock is never spent, never ahead of what is held and shows   *)
(* a moment on the way from it to the next; and walking by hand stops      *)
(* exactly where a performance stands at every speed: all of this for      *)
(* stamps that fall as well.  playback.ts takes the times for "non-         *)
(* decreasing by construction" and nearest_index for "a clock that only    *)
(* rises", which nothing enforces: that a scrub to an event's own moment is *)
(* a scrub to that moment is said of runs whose times do not fall.         *)
PlayheadIsWhole ==
  ~due =>
    /\ held = None \/ held \in 0..Max({0, Count - 1})
    /\ ~(playback.playing /\ playback.stepping)
    /\ playback.playing => ~done /\ held = position_at(play_elapsed) /\ t_plus \in 6 * At(held)..6 * At(held + 1)
    /\ span > 0 => \A i \in 0..Count - 1 :
         /\ next_beat(i) = Min({j \in Performed : j > i} \cup {Count - 1})
         /\ (\A j \in 1..Count - 1 : At(j - 1) <= At(j)) => At(index_at(At(i))) = At(i)

=============================================================================
