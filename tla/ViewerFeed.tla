----------------------------- MODULE ViewerFeed -----------------------------
(* How a page of the viewer comes by the events of a run: server.ts,        *)
(* broadcast.ts and start_viewer.ts of src/src/viewer, and the page's own   *)
(* app/history.ts, app/sse.ts and follow_run of app/main.tsx.               *)
(*                                                                          *)
(* A tail of a file and posts to /api/ingest feed one broadcaster, which    *)
(* numbers what it emits and keeps the newest of it in a ring.  A page      *)
(* folds /api/trajectory (the file, or the ring where there is none), takes *)
(* a cursor from it, and follows /api/events past the cursor, which it asks *)
(* for again with the id it read last whenever the connection drops.        *)
(*                                                                          *)
(* An event is its number in the order of their writing, 0 is a line that   *)
(* is none.  The tail is abstract here (ViewerTail has it): it emits the    *)
(* ended lines of the file in turn, and starts over with a new file.        *)
EXTENDS Integers, Sequences, SequencesExt, FiniteSets

CONSTANTS
  Modes,         \* of "tail", "ingest" and "both": what feeds the viewer
  N,             \* config.buffer
  MaxEvents,     \* how many events are written or posted
  Bodies,        \* what is posted: sequences of "good" and "bad" lines
  Limit,         \* INGEST_LIMIT_BYTES, in halves of a line
  MaxRotations,  \* how often the file is replaced
  MaxRestarts,   \* how often the viewer is started again
  MaxDrops       \* how often the page's connection breaks

VARIABLES
  mode,
  file,      \* the lines of the file; an empty one is as good as missing
  ending,    \* how much is there of its last line: "half", "whole" or "done"
  tailed,    \* how many lines the tail has read
  issued,    \* what the broadcaster emitted: the event of each id
  post,      \* the request that /api/ingest reads
  page,
  wire,      \* the frames on their way to the page
  missed,    \* ids that had left the ring when the page asked for them
  written,   \* how many events there are
  rotations, restarts, drops

vars == <<mode, file, ending, tailed, issued, post, page, wire, missed, written, rotations, restarts, drops>>

NoPost == [at |-> "none"]

Init ==
  /\ mode \in Modes
  /\ file = <<>> /\ ending = "done" /\ tailed = 0
  /\ issued = <<>>
  /\ post = NoPost
  /\ page = [at |-> "out", head |-> 0, cursor |-> 0, last |-> 0, guard |-> 0, history |-> <<>>, folded |-> <<>>]
  /\ wire = <<>>
  /\ missed = {}
  /\ written = 0 /\ rotations = 0 /\ restarts = 0 /\ drops = 0

Bound(n, m) == IF n > m THEN n ELSE m

(* The members of a sequence that are in a set. *)
Where(seq, S) ==
  LET kept[i \in 0..Len(seq)] ==
        IF i = 0 THEN <<>> ELSE IF seq[i] \in S THEN Append(kept[i - 1], seq[i]) ELSE kept[i - 1]
  IN  kept[Len(seq)]

----------------------------------------------------------------------------
(* broadcast.ts.  An entry is an id, and issued tells its event. *)

ring == [i \in 1..(IF Len(issued) < N THEN Len(issued) ELSE N) |-> Bound(Len(issued) - N, 0) + i]

newest == Len(issued)

snapshot_after(last_id) == Where(ring, last_id + 1..newest)

Entry(id) == [id |-> id, event |-> issued[id]]

(* What the subscribed streams write of the events just emitted. *)
(* Mutant: a stream writes whatever is emitted. *)
live_unguarded(events) ==
  IF page.at # "following" THEN <<>>
  ELSE [i \in DOMAIN events |-> [id |-> newest + i, event |-> events[i]]]

live(events) ==
  IF page.at # "following" THEN <<>>
  ELSE LET ids == Where([i \in DOMAIN events |-> newest + i], page.guard + 1..newest + Len(events))
       IN  [i \in DOMAIN ids |-> [id |-> ids[i], event |-> events[ids[i] - newest]]]

emit(events) ==
  /\ issued' = issued \o events
  /\ wire' = wire \o live(events)

----------------------------------------------------------------------------
(* The writer of the file and the tail. *)

Ended == IF ending = "done" THEN Len(file) ELSE Len(file) - 1

Writes ==
  /\ mode # "ingest" /\ ending = "done" /\ written < MaxEvents
  /\ \/ /\ file' = Append(file, written + 1)
        /\ written' = written + 1
        /\ ending' = "half"
     \/ file' = Append(file, 0) /\ 0 \notin ToSet(file) /\ UNCHANGED <<written, ending>>
  /\ UNCHANGED <<mode, tailed, issued, post, page, wire, missed, rotations, restarts, drops>>

WritesOn ==
  /\ ending # "done"
  /\ ending' = IF ending = "half" THEN "whole" ELSE "done"
  /\ UNCHANGED <<mode, file, tailed, issued, post, page, wire, missed, written, rotations, restarts, drops>>

Rotates ==
  /\ rotations < MaxRotations /\ file # <<>> /\ ending = "done"
  /\ rotations' = rotations + 1
  /\ file' = <<>> /\ tailed' = 0
  /\ UNCHANGED <<mode, ending, issued, post, page, wire, missed, written, restarts, drops>>

TailEmits ==
  /\ tailed < Ended
  /\ tailed' = tailed + 1
  /\ emit(IF file[tailed + 1] = 0 THEN <<>> ELSE <<file[tailed + 1]>>)
  /\ UNCHANGED <<mode, file, ending, post, page, missed, written, rotations, restarts, drops>>

----------------------------------------------------------------------------
(* /api/ingest.  A line is two halves, of which the newline is the second,  *)
(* and the last line of a body may go without.                              *)

Total(p) == 2 * Len(p.body) - (IF p.ended THEN 0 ELSE 1)

(* refuse_ingest, for a body that declares its length. *)
Posts ==
  /\ mode # "tail" /\ post = NoPost
  /\ \E body \in Bodies, ended, declared \in BOOLEAN :
       LET p == [at |-> "reading", body |-> body, ended |-> ended, got |-> 0, lines |-> 0,
                 accepted |-> 0, rejected |-> 0]
       IN  /\ written + Len(body) <= MaxEvents
           /\ post' = IF declared /\ Total(p) > Limit THEN [p EXCEPT !.at = "too_large"] ELSE p
  /\ UNCHANGED <<mode, file, ending, tailed, issued, page, wire, missed, written, rotations, restarts, drops>>

(* consume_line for every line up to the given one; next is what becomes   *)
(* of the request besides.                                                 *)
Consumes(upto, next) ==
  LET lines == SubSeq(post.body, post.lines + 1, upto)
      good == Len(Where(lines, {"good"}))
  IN  /\ emit([i \in 1..good |-> written + i])
      /\ written' = written + good
      /\ post' = [next EXCEPT !.lines = upto, !.accepted = @ + good, !.rejected = @ + Len(lines) - good]

(* A chunk of the body.  One that runs past the limit is not looked into. *)
IngestReads ==
  /\ post.at = "reading"
  /\ \E got \in post.got + 1..Total(post) :
       \/ /\ got > Limit
          /\ post' = [post EXCEPT !.at = "too_large"]
          /\ UNCHANGED <<issued, wire, written>>
       \/ got <= Limit /\ Consumes(got \div 2, [post EXCEPT !.got = got])
  /\ UNCHANGED <<mode, file, ending, tailed, page, missed, rotations, restarts, drops>>

(* The end flushes a last line that has no newline; an error answers 400. *)
IngestEnds ==
  /\ post.at = "reading"
  /\ \/ post.got = Total(post) /\ Consumes(Len(post.body), [post EXCEPT !.at = "ok"])
     \/ post' = [post EXCEPT !.at = "bad_request"] /\ UNCHANGED <<issued, wire, written>>
  /\ UNCHANGED <<mode, file, ending, tailed, page, missed, rotations, restarts, drops>>

IsAnswered ==
  /\ post.at \in {"ok", "too_large", "bad_request"}
  /\ post' = NoPost
  /\ UNCHANGED <<mode, file, ending, tailed, issued, page, wire, missed, written, rotations, restarts, drops>>
----------------------------------------------------------------------------
(* /api/trajectory and the page's fold of it. *)

(* serve_trajectory up to its headers: the ring is taken with the head,    *)
(* and serves where there is no file.                                      *)
Fetches ==
  /\ page.at = "out"
  /\ page' = [page EXCEPT !.at = IF file = <<>> THEN "takes_ring" ELSE "takes_file", !.head = newest,
                           !.history = IF file = <<>> THEN [i \in DOMAIN ring |-> issued[ring[i]]] ELSE <<>>]
  /\ missed' = IF file = <<>> THEN 1..(newest - Len(ring)) ELSE {}
  /\ UNCHANGED <<mode, file, ending, tailed, issued, post, wire, written, rotations, restarts, drops>>

(* fold_history: a line that was caught half-written is no frame. *)
Frames(lines) == Where(lines, 1..MaxEvents)

FoldsHistory ==
  /\ page.at \in {"takes_ring", "takes_file"}
  /\ LET events == IF page.at = "takes_ring" THEN page.history
                   ELSE Frames(IF ending = "half" THEN Front(file) ELSE file)
     IN  page' = [page EXCEPT !.at = "loaded", !.folded = events, !.history = <<>>,
                              !.cursor = Bound(Len(events), page.head)]
  /\ UNCHANGED <<mode, file, ending, tailed, issued, post, wire, missed, written, rotations, restarts, drops>>

(* The request failed: the page starts empty, with no cursor. *)
FetchFails ==
  /\ page.at \in {"takes_ring", "takes_file"} /\ drops < MaxDrops
  /\ drops' = drops + 1
  /\ page' = [page EXCEPT !.at = "loaded", !.history = <<>>]
  /\ missed' = {}
  /\ UNCHANGED <<mode, file, ending, tailed, issued, post, wire, written, rotations, restarts>>

(* handle_sse, of the ?since= of events_url and of Last-Event-ID. *)
Connects ==
  /\ page.at \in {"loaded", "dropped"}
  /\ LET cursor == Bound(page.last, page.cursor)
     IN  /\ page' = [page EXCEPT !.at = "following", !.guard = cursor]
         /\ wire' = [i \in DOMAIN snapshot_after(cursor) |-> Entry(snapshot_after(cursor)[i])]
         /\ missed' = missed \cup {id \in cursor + 1..newest : id \notin ToSet(ring)}
  /\ UNCHANGED <<mode, file, ending, tailed, issued, post, written, rotations, restarts, drops>>

(* on_frame. *)
Receives ==
  /\ wire # <<>>
  /\ wire' = Tail(wire)
  /\ page' = [page EXCEPT !.last = Head(wire).id, !.folded = Append(@, Head(wire).event)]
  /\ UNCHANGED <<mode, file, ending, tailed, issued, post, missed, written, rotations, restarts, drops>>

Dropped == IF page.at = "following" THEN [page EXCEPT !.at = "dropped"] ELSE page

Drops ==
  /\ page.at = "following" /\ drops < MaxDrops
  /\ drops' = drops + 1
  /\ page' = Dropped
  /\ wire' = <<>>
  /\ UNCHANGED <<mode, file, ending, tailed, issued, post, missed, written, rotations, restarts>>

(* close and start_viewer: another broadcaster, and a tail that starts at  *)
(* the file's first line.                                                  *)
Restarts ==
  /\ restarts < MaxRestarts /\ page.at \notin {"takes_ring", "takes_file"}
  /\ restarts' = restarts + 1
  /\ issued' = <<>> /\ tailed' = 0 /\ post' = NoPost
  /\ page' = Dropped /\ wire' = <<>>
  /\ UNCHANGED <<mode, file, ending, missed, written, rotations, drops>>

Next ==
  \/ Writes \/ WritesOn \/ Rotates \/ TailEmits
  \/ Posts \/ IngestReads \/ IngestEnds \/ IsAnswered
  \/ Fetches \/ FoldsHistory \/ FetchFails \/ Connects \/ Receives \/ Drops \/ Restarts

Spec == Init /\ [][Next]_vars

----------------------------------------------------------------------------
(* Properties. *)

Folded == ToSet(page.folded)

(* Whatever the file was written up to when the page read it, however far   *)
(* behind the tail was, and however often the connection broke, the page    *)
(* folds every event once and in its order, and lacks none but those that   *)
(* the ring had dropped by then, as long as one producer feeds the viewer,  *)
(* its file is not replaced, and, where posts are all there is, the viewer  *)
(* stays up.                                                                *)
FoldsWhatWasFed ==
  \/ mode = "both"
  \/ rotations > 0
  \/ mode = "ingest" /\ restarts > 0
  \/ /\ \A i, j \in DOMAIN page.folded : i < j => page.folded[i] < page.folded[j]
     /\ page.at = "following" /\ wire = <<>> => ToSet(issued) \ Folded \subseteq missed
     /\ \A id \in DOMAIN issued : page.folded # <<>> /\ issued[id] < Last(page.folded)
                                     => issued[id] \in Folded \/ id \in missed

(* However a body is cut into chunks, an answer of 200 counts every line of *)
(* it, and nothing of a request is emitted once it was refused.             *)
AnswersCountTheLines ==
  post.at = "ok" =>
    /\ post.accepted = Len(Where(post.body, {"good"}))
    /\ post.rejected = Len(post.body) - post.accepted

FeedIsWhole == FoldsWhatWasFed /\ AnswersCountTheLines
=============================================================================
