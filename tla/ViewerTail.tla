----------------------------- MODULE ViewerTail -----------------------------
(* The tail of the viewer, src/src/viewer/tail.ts: it follows the file at  *)
(* a path while a writer appends to it, truncates it, moves it away, or    *)
(* moves away its directory, and hands every line to on_event.             *)
(*                                                                         *)
(* A line is two halves.  Halves are numbered in the order they are        *)
(* written, so that the even ones end a line, and a file is a sequence of  *)
(* them.  Inodes are numbered as they are made, and so are the directories *)
(* at the one level above the file that may be missing; 0 is none, and for *)
(* the directory watch the level above, which is always there.             *)
EXTENDS Integers, Sequences, FiniteSetsExt

CONSTANTS
  FollowLinks,      \* what follow_links may be
  SplitChars,       \* whether a half line may end inside a character
  DirReportsWrites, \* whether a directory watch reports writes to the files inside
  MaxHalves, MaxFiles, MaxDirs, MaxTruncations   \* bounds of the model

ASSUME TailAssumption ==
  /\ FollowLinks \cup {SplitChars, DirReportsWrites} \subseteq BOOLEAN
  /\ {MaxHalves, MaxFiles, MaxDirs, MaxTruncations} \subseteq Nat
  /\ MaxHalves >= 2 /\ MaxFiles >= 1 /\ MaxDirs >= 1    \* a file may be there at first, with a line

VARIABLES
  follow_links,
  files,        \* the content of every inode
  at_path,      \* the inode at the path
  dir, dirs,    \* the directory at the path's directory, and how many there were
  written,      \* the number of the last half written
  truncations,
  overtaken,    \* whether the writer acted between a new file's stat and its watch
  notices,      \* the watches that have something to report
  inode, offset, buffer, pending, closed,
  pc,           \* where the pass in flight is: busy, unless "idle"
  found,        \* what it found at the path, and the size it reads up to
  fh,           \* the inode that its handle is on
  file_watch,   \* the inode that is watched
  dir_watch,
  events,       \* the lines handed to on_event
  spoilt,       \* whether a line was handed on that nobody wrote
  due           \* the lines that drain was called for

disk == <<files, at_path, dir, dirs, written, truncations, overtaken>>
state == <<inode, offset, buffer, file_watch, dir_watch>>
told == <<events, spoilt>>
vars == <<follow_links, disk, notices, state, pending, closed, pc, found, fh, told, due>>

NoWatch == -1
Nothing == [ino |-> 0, size |-> 0]
FirstStep == IF follow_links THEN "stat" ELSE "open"

Init ==
  /\ follow_links \in FollowLinks
  /\ \/ files = <<>> /\ at_path = 0 /\ dir = 0 /\ dirs = 0 /\ written = 0
     \/ files = <<>> /\ at_path = 0 /\ dir = 1 /\ dirs = 1 /\ written = 0
     \/ files = <<<<1, 2>>>> /\ at_path = 1 /\ dir = 1 /\ dirs = 1 /\ written = 2
  /\ truncations = 0 /\ overtaken = FALSE
  /\ notices = {}
  /\ inode = 0 /\ offset = 0 /\ buffer = <<>>
  /\ pending = FALSE /\ closed = FALSE
  /\ pc = FirstStep /\ found = Nothing /\ fh = 0
  /\ file_watch = 0 /\ dir_watch = NoWatch
  /\ events = <<>> /\ spoilt = FALSE /\ due = {}

----------------------------------------------------------------------------
(* The writer, and what the watches report of it.                          *)

FileSize(ino) == Len(files[ino])

Adopting == pc = "track" /\ found.ino \notin {0, inode}

WriterActs ==
  /\ overtaken' = (overtaken \/ Adopting)
  /\ UNCHANGED <<follow_links, state, pending, closed, pc, found, fh, told, due>>

FileNotice == IF at_path # 0 /\ file_watch = at_path THEN {"file"} ELSE {}
DirNotice == IF dir_watch = dir THEN {"dir"} ELSE {}
WriteNotice == FileNotice \cup (IF DirReportsWrites THEN DirNotice ELSE {})

(* A line that was left half written is never completed in another file.   *)
NextLine == IF written % 2 = 1 THEN written + 1 ELSE written

AppendHalves(k) ==
  /\ WriterActs
  /\ at_path # 0 /\ written + k <= MaxHalves
  /\ files' = [files EXCEPT ![at_path] = @ \o [i \in 1..k |-> written + i]]
  /\ written' = written + k
  /\ notices' = notices \cup WriteNotice
  /\ UNCHANGED <<at_path, dir, dirs, truncations>>

Truncate ==
  /\ WriterActs
  /\ at_path # 0 /\ truncations < MaxTruncations
  /\ files' = [files EXCEPT ![at_path] = <<>>]
  /\ truncations' = truncations + 1
  /\ written' = NextLine
  /\ notices' = notices \cup WriteNotice
  /\ UNCHANGED <<at_path, dir, dirs>>

(* A new, empty file at the path, in the place of the one there, if any. *)
Create ==
  /\ WriterActs
  /\ dir # 0 /\ Len(files) < MaxFiles
  /\ files' = Append(files, <<>>)
  /\ at_path' = Len(files) + 1
  /\ written' = NextLine
  /\ notices' = notices \cup FileNotice \cup DirNotice
  /\ UNCHANGED <<dir, dirs, truncations>>

Unlink ==
  /\ WriterActs
  /\ at_path # 0
  /\ at_path' = 0
  /\ written' = NextLine
  /\ notices' = notices \cup FileNotice \cup DirNotice
  /\ UNCHANGED <<files, dir, dirs, truncations>>

(* The directory goes away with the file inside, of which only a watch on  *)
(* the directory, or on the one above it, hears.                           *)
MoveDir ==
  /\ WriterActs
  /\ dir # 0
  /\ dir' = 0 /\ at_path' = 0
  /\ written' = NextLine
  /\ notices' = notices \cup (IF dir_watch \in {dir, 0} THEN {"dir"} ELSE {})
  /\ UNCHANGED <<files, dirs, truncations>>

MakeDir ==
  /\ WriterActs
  /\ dir = 0 /\ dirs < MaxDirs
  /\ dirs' = dirs + 1 /\ dir' = dirs + 1
  /\ notices' = notices \cup DirNotice
  /\ UNCHANGED <<files, at_path, written, truncations>>

----------------------------------------------------------------------------
(* Watches. *)

Watches(target, none) == IF closed THEN none ELSE target

(* watch_dir on the nearest directory: a watch that stays keeps what it    *)
(* has to report, any other is closed.                                     *)
Rearms == dir_watch # dir

WatchNearest(others) ==
  /\ dir_watch' = Watches(dir, NoWatch)
  /\ notices' = IF Rearms THEN others \ {"dir"} ELSE others

Adopt(ino) ==
  /\ inode' = ino
  /\ offset' = 0 /\ buffer' = <<>>
  /\ file_watch' = Watches(at_path, 0)
  /\ WatchNearest(notices \ {"file"})

----------------------------------------------------------------------------
(* A pass. *)

(* schedule *)
Schedule ==
  IF pc = "idle" /\ ~closed
  THEN pc' = FirstStep /\ pending' = FALSE
  ELSE pc' = pc /\ pending' = (pending \/ ~closed)

(* The end of a pass, after which comes another one if a change arrived    *)
(* while it ran.                                                           *)
PassEnds(again) ==
  IF again /\ ~closed
  THEN pc' = FirstStep /\ pending' = FALSE
  ELSE pc' = "idle" /\ pending' = again

(* Mutant: arming a watch schedules nothing. *)
ForgetOnce ==
  /\ inode' = 0
  /\ UNCHANGED <<offset, buffer, file_watch>>
  /\ WatchNearest(notices)
  /\ PassEnds(pending)

(* Mutant: a watch that is there already is armed again. *)
ForgetSpinning ==
  /\ inode' = 0
  /\ UNCHANGED <<offset, buffer, file_watch>>
  /\ WatchNearest(notices)
  /\ PassEnds(pending \/ ~closed)

(* forget and await_file *)
Forget ==
  /\ inode' = 0
  /\ UNCHANGED <<offset, buffer, file_watch>>
  /\ WatchNearest(notices)
  /\ PassEnds(pending \/ (Rearms /\ ~closed))

(* track, once something was found *)
Track ==
  IF found.ino # inode THEN Adopt(found.ino)
  ELSE /\ IF found.size < offset THEN offset' = 0 /\ buffer' = <<>> ELSE UNCHANGED <<offset, buffer>>
       /\ UNCHANGED <<inode, file_watch, dir_watch, notices>>

(* The stat of locate. *)
Stat ==
  /\ pc = "stat"
  /\ found' = IF at_path = 0 THEN Nothing ELSE [ino |-> at_path, size |-> FileSize(at_path)]
  /\ pc' = "track"
  /\ UNCHANGED <<follow_links, disk, notices, state, pending, closed, fh, told, due>>

(* open_unfollowed: the handle, and its stats. *)
OpenUnfollowed ==
  /\ pc = "open" /\ ~follow_links
  /\ found' = IF at_path = 0 THEN Nothing ELSE [ino |-> at_path, size |-> FileSize(at_path)]
  /\ fh' = at_path
  /\ pc' = "track"
  /\ UNCHANGED <<follow_links, disk, notices, state, pending, closed, told, due>>

(* What a pass does once it knows what is at the path. *)
Found ==
  /\ pc = "track"
  /\ \/ /\ found = Nothing
        /\ Forget
     \/ /\ found # Nothing
        /\ Track
        /\ IF follow_links /\ found.size = offset'
           THEN PassEnds(pending)
           ELSE pc' = (IF follow_links THEN "open" ELSE "read") /\ UNCHANGED pending
  /\ UNCHANGED <<follow_links, disk, closed, found, fh, told, due>>

(* open_followed opens the path again. *)
Open ==
  /\ pc = "open" /\ follow_links
  /\ fh' = at_path
  /\ IF at_path = 0 THEN PassEnds(pending) ELSE pc' = "read" /\ UNCHANGED pending
  /\ UNCHANGED <<follow_links, disk, notices, state, closed, found, told, due>>

(* A line is parsed if it is one that was written, and one whose halves    *)
(* come from two reads was decoded in two pieces.                          *)
Ends(text) == {i \in DOMAIN text : text[i] % 2 = 0}

Whole(text, i) ==
  /\ i > 1 /\ text[i - 1] = text[i] - 1
  /\ i > 2 => text[i - 2] % 2 = 0

InOrder(S) ==
  CHOOSE s \in [1..Cardinality(S) -> S] : \A i, j \in DOMAIN s : i < j => s[i] < s[j]

Rest(text) == SubSeq(text, 1 + (IF Ends(text) = {} THEN 0 ELSE Max(Ends(text))), Len(text))

Read ==
  LET size == IF FileSize(fh) < found.size THEN FileSize(fh) ELSE found.size
      text == buffer \o SubSeq(files[fh], offset + 1, size)
      whole == InOrder({i \in Ends(text) : Whole(text, i)})
  IN
  /\ pc = "read"
  /\ offset' = IF size > offset THEN size ELSE offset
  /\ buffer' = Rest(text)
  /\ events' = events \o [k \in DOMAIN whole |-> text[whole[k]] \div 2]
  /\ spoilt' = ( \/ spoilt
                 \/ \E i \in Ends(text) : ~Whole(text, i)
                 \/ SplitChars /\ buffer # <<>> /\ Len(text) > Len(buffer) )
  /\ PassEnds(pending)
  /\ UNCHANGED <<follow_links, disk, notices, inode, file_watch, dir_watch, closed, found, fh, due>>

----------------------------------------------------------------------------

Notice(w) ==
  /\ w \in notices
  /\ notices' = notices \ {w}
  /\ Schedule
  /\ UNCHANGED <<follow_links, disk, state, closed, found, fh, told, due>>

LinesThere ==
  IF at_path = 0 THEN {} ELSE {files[at_path][i] \div 2 : i \in Ends(files[at_path])}

(* drain, of which one call is followed: it resolves when the tail rests. *)
Drain ==
  /\ due = {} /\ LinesThere # {}
  /\ due' = LinesThere
  /\ Schedule
  /\ UNCHANGED <<follow_links, disk, notices, state, closed, found, fh, told>>

Stop ==
  /\ ~closed
  /\ closed' = TRUE
  /\ file_watch' = 0 /\ dir_watch' = NoWatch /\ notices' = {}
  /\ UNCHANGED <<follow_links, disk, inode, offset, buffer, pending, pc, found, fh, told, due>>

Writer ==
  \/ \E k \in 1..2 : AppendHalves(k)
  \/ Truncate
  \/ Create
  \/ Unlink
  \/ MoveDir
  \/ MakeDir

Pass == Stat \/ OpenUnfollowed \/ Found \/ Open \/ Read

Next == Writer \/ Pass \/ (\E w \in {"file", "dir"} : Notice(w)) \/ Drain \/ Stop

Spec == Init /\ [][Next]_vars

(* The event loop serves the pass in flight and the watches; nothing is    *)
(* asked of the writer.                                                    *)
FairSpec == Spec /\ WF_vars(Pass) /\ WF_vars(\E w \in {"file", "dir"} : Notice(w))

----------------------------------------------------------------------------
(* Properties. *)

(* Every variable has values of its type.                                  *)
TypeOK ==
  /\ {follow_links, pending, closed, spoilt, overtaken} \subseteq BOOLEAN
  /\ files \in Seq(Seq(1..MaxHalves)) /\ Len(files) <= MaxFiles
  /\ at_path \in 0..Len(files)
  /\ dir \in 0..dirs /\ dirs \in 0..MaxDirs
  /\ written \in 0..MaxHalves + 1 /\ truncations \in 0..MaxTruncations
  /\ notices \subseteq {"file", "dir"}
  /\ inode \in 0..Len(files) /\ offset \in 0..MaxHalves
  /\ buffer \in Seq(1..MaxHalves)
  /\ pc \in {"idle", "stat", "track", "open", "read"}
  /\ found \in [ino : 0..Len(files), size : 0..MaxHalves]
  /\ fh \in 0..Len(files)
  /\ file_watch \in 0..Len(files)
  /\ dir_watch \in NoWatch..MaxDirs
  /\ events \in Seq(1..MaxHalves)
  /\ due \subseteq 1..MaxHalves

(* A tail that does not follow links hands on the lines as they were       *)
(* written, whatever is rotated or truncated under it: none twice, none    *)
(* before an earlier one, and none with a half of another, unless a file   *)
(* was truncated and rewritten past the offset between two looks, or a     *)
(* half line ended inside a character.                                     *)
LinesAsWritten ==
  ~follow_links =>
    /\ \A i, j \in DOMAIN events : i < j => events[i] < events[j]
    /\ truncations = 0 /\ ~SplitChars => ~spoilt

Asleep == pc = "idle" /\ notices = {} /\ ~closed

(* A tail that nothing will wake has read the file at the path to its end, *)
(* unless the writer came between a new file's stat and its watch.         *)
SleepsCaughtUp ==
  Asleep /\ ~overtaken => inode = at_path /\ (inode # 0 => offset = FileSize(inode))

(* When drain resolves, the lines that were in the file when it was called *)
(* have been handed on, or are not in the file at the path any more,       *)
(* unless a file was truncated.                                            *)
DrainCatchesUp ==
  pc = "idle" /\ ~closed /\ truncations = 0 =>
    \A line \in due \cap LinesThere : \E i \in DOMAIN events : events[i] = line

(* What the tail owes its reader: the lines as they were written, all of   *)
(* them before it sleeps, and all that a drain was called for (tail.ts).   *)
TailServes == LinesAsWritten /\ SleepsCaughtUp /\ DrainCatchesUp

(* The tail comes to rest when the writer does: no pass schedules another  *)
(* for ever.                                                               *)
ComesToRest == <>[](pc = "idle")
=============================================================================
