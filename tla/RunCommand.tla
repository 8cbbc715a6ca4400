----------------------------- MODULE RunCommand -----------------------------
(* One call of the run_command tool, src/src/acp/tools/run_command.ts: the *)
(* shell that it spawns, the process group that the shell leads, what      *)
(* holds its output open, and the timers, the abort and the two events of  *)
(* the child that the call waits for.                                      *)
EXTENDS Naturals

CONSTANTS
  Limit,      \* output_limit_bytes, in chunks
  MaxPrints,  \* bound of the model: the chunks that the command prints
  None

VARIABLES
  shell,      \* "unborn", "runs", "dead" once it has ended, "exited" once the call knows
  group,      \* something else in its process group is alive
  outside,    \* something it moved out of its group holds the output open
  printed,    \* the chunks that the shell and its group wrote
  unread,     \* those still in the pipe
  capture,    \* what the call has read: Capture
  reading,    \* the streams are not destroyed
  closed,     \* the child's close event
  timer,      \* the timeout: "armed", "fired" or "off"
  grace,      \* the grace timer: "off", "armed" or "fired"
  aborted,    \* the turn is cancelled
  listening,  \* the abort listener is there
  outcome     \* how the promise settled

timers == <<timer, grace, listening>>
processes == <<shell, group, outside, printed>>
vars == <<processes, unread, capture, reading, closed, timers, aborted, outcome>>

settled == outcome # None

Init ==
  /\ shell = "unborn" /\ group = FALSE /\ outside = FALSE
  /\ printed = 0 /\ unread = 0
  /\ capture = [kept |-> 0, total |-> 0]
  /\ reading = FALSE /\ closed = FALSE
  /\ timer = "off" /\ grace = "off" /\ listening = FALSE
  /\ aborted \in BOOLEAN
  /\ outcome = None

----------------------------------------------------------------------------
(* The call.                                                               *)

Cleared(timeout) == IF timeout = "armed" THEN "off" ELSE timeout

(* The promise settles, and the finally of run_shell follows: timed_out    *)
(* and held stay as they are.                                              *)
Settles(how) ==
  /\ outcome' = how
  /\ timer' = Cleared(timer) /\ grace' = Cleared(grace) /\ listening' = FALSE

(* A turn that is cancelled already starts nothing, and a shell may not    *)
(* start: the child then reports an error.                                 *)
Spawns ==
  /\ shell = "unborn" /\ ~settled
  /\ IF aborted THEN Settles("aborted") /\ UNCHANGED <<shell, reading>>
     ELSE \/ /\ shell' = "runs" /\ reading' = TRUE
             /\ timer' = "armed" /\ listening' = TRUE
             /\ UNCHANGED <<grace, outcome>>
          \/ Settles("no shell") /\ UNCHANGED <<shell, reading>>
  /\ UNCHANGED <<group, outside, printed, unread, capture, closed, aborted>>

(* SIGKILL to the whole group.                                             *)
kill_group ==
  /\ shell' = IF shell = "runs" THEN "dead" ELSE shell
  /\ group' = FALSE

on_abort ==
  /\ ~aborted
  /\ aborted' = TRUE
  /\ IF listening THEN kill_group /\ Settles("aborted") ELSE UNCHANGED <<shell, group, timers, outcome>>
  /\ UNCHANGED <<outside, printed, unread, capture, reading, closed>>

TimesOut ==
  /\ timer = "armed"
  /\ timer' = "fired"
  /\ kill_group
  /\ UNCHANGED <<outside, printed, unread, capture, reading, closed, grace, listening, aborted, outcome>>

(* Reading goes on past the limit, and only the bytes within it are kept.  *)
take ==
  /\ reading /\ unread > 0
  /\ unread' = unread - 1
  /\ capture' = [kept |-> IF capture.kept < Limit THEN capture.kept + 1 ELSE capture.kept, total |-> capture.total + 1]
  /\ UNCHANGED <<processes, reading, closed, timers, aborted, outcome>>

(* Mutant: no grace timer.                                                 *)
on_exit_patient ==
  /\ shell = "dead"
  /\ shell' = "exited" /\ group' = FALSE
  /\ IF settled THEN reading' = FALSE /\ UNCHANGED timer
     ELSE timer' = Cleared(timer) /\ UNCHANGED reading
  /\ UNCHANGED <<outside, printed, unread, capture, closed, grace, listening, aborted, outcome>>

(* The child's exit event: what the shell left running is killed, and its  *)
(* output may stay open for the grace at most.                             *)
on_exit ==
  /\ shell = "dead"
  /\ shell' = "exited" /\ group' = FALSE
  /\ IF settled THEN reading' = FALSE /\ UNCHANGED <<timer, grace>>
     ELSE timer' = Cleared(timer) /\ grace' = "armed" /\ UNCHANGED reading
  /\ UNCHANGED <<outside, printed, unread, capture, closed, listening, aborted, outcome>>

GraceEnds ==
  /\ grace = "armed"
  /\ grace' = "fired" /\ reading' = FALSE
  /\ UNCHANGED <<processes, unread, capture, closed, timer, listening, aborted, outcome>>

(* The output ends when nothing holds it open and all of it is read, or    *)
(* when the streams are destroyed; the child's close event follows.        *)
OutputEnds == ~reading \/ (~group /\ ~outside /\ unread = 0)

on_close ==
  /\ shell = "exited" /\ ~closed /\ OutputEnds
  /\ closed' = TRUE /\ reading' = FALSE
  /\ IF settled THEN UNCHANGED <<timers, outcome>>
     ELSE Settles(IF timer = "fired" THEN "timed out" ELSE IF grace = "fired" THEN "held" ELSE "finished")
  /\ UNCHANGED <<processes, unread, capture, aborted>>

Call == Spawns \/ on_exit \/ take \/ on_close

----------------------------------------------------------------------------
(* The command.                                                            *)

Alive == shell = "runs" \/ group

Prints ==
  /\ Alive /\ printed < MaxPrints
  /\ printed' = printed + 1 /\ unread' = unread + 1
  /\ UNCHANGED <<shell, group, outside, capture, reading, closed, timers, aborted, outcome>>

Forks ==
  /\ shell = "runs"
  /\ \/ ~group /\ group' = TRUE /\ UNCHANGED outside
     \/ ~outside /\ outside' = TRUE /\ UNCHANGED group
  /\ UNCHANGED <<shell, printed, unread, capture, reading, closed, timers, aborted, outcome>>

JobEnds ==
  /\ \/ group /\ group' = FALSE /\ UNCHANGED outside
     \/ outside /\ outside' = FALSE /\ UNCHANGED group
  /\ UNCHANGED <<shell, printed, unread, capture, reading, closed, timers, aborted, outcome>>

ShellEnds ==
  /\ shell = "runs"
  /\ shell' = "dead"
  /\ UNCHANGED <<group, outside, printed, unread, capture, reading, closed, timers, aborted, outcome>>

Command == Prints \/ Forks \/ JobEnds \/ ShellEnds

Next == Call \/ Command \/ on_abort \/ TimesOut \/ GraceEnds

(* Node runs the callbacks that are due and its timers fire; the command   *)
(* itself owes nothing.                                                    *)
Spec == Init /\ [][Next]_vars
FairSpec == Spec /\ WF_vars(Call) /\ WF_vars(TimesOut) /\ WF_vars(GraceEnds)

----------------------------------------------------------------------------
(* Properties.                                                             *)

(* A command that ran to its end, or that its timeout killed, has all that *)
(* was printed counted, unless the grace ran out while something out of    *)
(* its reach held the output; and nothing of a settled call's is left: no  *)
(* timer, no listener, nothing in the group once the call knows of the     *)
(* exit.                                                                   *)
ReportIsWhole ==
  /\ outcome = "finished" => grace # "fired"
  /\ outcome \in {"finished", "timed out"} /\ grace # "fired" => capture.total = printed
  /\ settled => timer # "armed" /\ grace # "armed" /\ ~listening
  /\ shell = "exited" => ~group
  /\ outcome \in {"finished", "held", "timed out"} => ~Alive

(* Every call ends, whatever the command does: at its own end, at its      *)
(* timeout or at the abort, with all of its group dead.                    *)
CommandEnds == <>[](settled /\ ~Alive)

=============================================================================
