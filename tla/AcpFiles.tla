-------------------------------- MODULE AcpFiles --------------------------------
(***************************************************************************)
(* The file tools of an ACP session (src/acp/tools): reads in windows,     *)
(* listings, writes and exact edits worked out before they land, and       *)
(* searches in a worker thread, run by sessions that share a workspace     *)
(* while the user edits it and cancels turns.                              *)
(***************************************************************************)
EXTENDS Naturals, Integers, Sequences, FiniteSets, SequencesExt, FiniteSetsExt

CONSTANTS Sessions,
          Requests,  \* what a model may ask of a tool
          Disks,     \* workspaces to start from: what lies at each path
          Outside,   \* paths out of the workspace
          Guarded,   \* paths under .git or node_modules
          Saved,     \* what the user may put at a path, or its removal
          MaxSaves, MaxCalls, MAX_LINK_HOPS,
          ReadLimit, ListLimit, MATCH_LIMIT,
          None

VARIABLES disk, saves,
          call,      \* the tool call each session has under way
          aborted,   \* sessions whose turn is cancelled
          answers,   \* what each session's calls answered
          previews   \* the changes left for the cards

vars == <<disk, saves, call, aborted, answers, previews>>

Paths == DOMAIN disk
Text(lines) == [kind |-> "text", lines |-> lines, to |-> None]
Idle == [phase |-> "idle", request |-> None, real |-> None, old |-> None, new |-> None, line |-> 0, matches |-> 0,
         over |-> None, raced |-> FALSE, files |-> <<>>, listed |-> <<>>, looked |-> <<>>, found |-> <<>>,
         more |-> FALSE, worker |-> "none", armed |-> FALSE]

Init ==
    /\ disk \in Disks /\ saves = 0
    /\ call = [s \in Sessions |-> Idle] /\ aborted = {}
    /\ answers = [s \in Sessions |-> <<>>] /\ previews = <<>>

------------------------------------------------------------------------------
(* Paths.  A missing path is where a write through it would land: a link's  *)
(* own target, whether it is there or not.                                  *)
real_path(path) ==
    LET from[p \in Paths, hops \in 0..MAX_LINK_HOPS] ==
            IF disk[p].kind # "link" THEN p ELSE IF hops = 0 THEN None ELSE from[disk[p].to, hops - 1]
    IN  from[path, MAX_LINK_HOPS]
contain(path) == LET real == real_path(path) IN IF real \in Outside THEN None ELSE real
contain_writable(path) == IF path \in Guarded \/ contain(path) \in Guarded THEN None ELSE contain(path)
writes(request) == request.tool \in {"write_file", "edit_file"}

------------------------------------------------------------------------------
(* Edits.  The matches of a text, as splitting on it finds them from the    *)
(* left, and the text with each of them replaced.                           *)
Occurs(text, old) == {i \in 1..(Len(text) - Len(old) + 1) : SubSeq(text, i, i + Len(old) - 1) = old}
matches(text, old) ==
    LET from[i \in 1..(Len(text) + 1)] ==
            IF Len(text) - i + 1 < Len(old) THEN {}
            ELSE IF SubSeq(text, i, i + Len(old) - 1) = old THEN {i} \cup from[i + Len(old)]
            ELSE from[i + 1]
    IN  from[1]
replaced(text, at, old, new) ==
    LET from[i \in 1..(Len(text) + 1)] ==
            IF i > Len(text) THEN <<>>
            ELSE IF i \in at THEN new \o from[i + Len(old)]
            ELSE <<text[i]>> \o from[i + 1]
    IN  from[1]
edit_refused(r) == r.old = <<>> \/ r.old = r.new
edit_file_change_first(lines, r) ==
    LET at == matches(lines, r.old)
    IN  IF at = {} \/ (Cardinality(at) > 1 /\ ~r.replace_all) THEN None
        ELSE [new |-> replaced(lines, {Min(at)}, r.old, r.new), line |-> Min(at), matches |-> Cardinality(at)]
edit_file_change(lines, r) ==
    LET at == matches(lines, r.old)
    IN  IF at = {} \/ (Cardinality(at) > 1 /\ ~r.replace_all) THEN None
        ELSE [new |-> replaced(lines, at, r.old, r.new), line |-> Min(at), matches |-> Cardinality(at)]

(* A window of a file's lines, and whether the file goes on past it. *)
read_lines(lines, r) ==
    LET last == r.offset + Min({r.limit, ReadLimit}) - 1
        take(window, line) ==
            IF window.more THEN window
            ELSE IF window.count + 1 > last THEN [window EXCEPT !.count = @ + 1, !.more = TRUE]
            ELSE [window EXCEPT !.count = @ + 1,
                                !.shown = IF window.count + 1 >= r.offset THEN Append(@, line) ELSE @]
        read == FoldLeft(take, [count |-> 0, shown |-> <<>>, more |-> FALSE], lines)
    IN  IF read.count # 0 /\ read.shown = <<>> THEN None
        ELSE [shown |-> read.shown, next |-> IF read.more THEN last + 1 ELSE 0]
(* The files a walk lists, in order: links are neither files nor followed. *)
walked == SetToSortSeq({p \in Paths : disk[p].kind \in {"text", "binary"} /\ p \notin Guarded \cup Outside}, <)
listing(files) == [shown |-> SubSeq(files, 1, Min({Len(files), ListLimit})),
                   total |-> IF Len(files) > ListLimit THEN Len(files) ELSE 0]

------------------------------------------------------------------------------
Others == <<saves, aborted>>
Become(s, c) == call' = [call EXCEPT ![s] = c]
Tell(s, ok, body) == answers' = [answers EXCEPT ![s] = Append(@, [request |-> call[s].request, ok |-> ok, body |-> body])]
Answer(s, ok, body) == Tell(s, ok, body) /\ Become(s, Idle)
Fails(s) == Answer(s, FALSE, None)

(* A call arrives, and its path is placed in the workspace or refused. *)
Calls(s) ==
    /\ call[s].phase = "idle" /\ s \notin aborted /\ Len(answers[s]) < MaxCalls
    /\ \E r \in Requests :
         LET real == IF writes(r) THEN contain_writable(r.path) ELSE contain(r.path)
             refused == (r.tool = "edit_file" /\ edit_refused(r)) \/ (r.tool # "list_files" /\ real = None)
         IN  IF refused
             THEN /\ answers' = [answers EXCEPT ![s] = Append(@, [request |-> r, ok |-> FALSE, body |-> None])]
                  /\ UNCHANGED call
             ELSE /\ Become(s, [Idle EXCEPT !.phase = "stat", !.request = r, !.real = IF r.tool = "list_files" THEN None ELSE real])
                  /\ UNCHANGED answers
    /\ UNCHANGED <<disk, previews, Others>>
Node(s) == disk[call[s].real]
(* What comes to be at a path races the changes that were worked out on the *)
(* text before it.                                                          *)
Races(path) ==
    [t \in Sessions |-> IF call[t].phase \in {"worked", "landing"} /\ call[t].real = path
                        THEN [call[t] EXCEPT !.raced = TRUE] ELSE call[t]]
Puts(s, lines, c) ==
    /\ disk' = [disk EXCEPT ![call[s].real] = Text(lines)]
    /\ call' = [Races(call[s].real) EXCEPT ![s] = c]
(* A write looks at what is there, and refuses all but a text to change. *)
Stats(s) ==
    /\ call[s].phase = "stat" /\ writes(call[s].request)
    /\ IF Node(s).kind = "none"
       THEN IF call[s].request.tool = "edit_file" THEN Fails(s)
            ELSE Become(s, [call[s] EXCEPT !.phase = "worked", !.new = call[s].request.new]) /\ UNCHANGED answers
       ELSE IF Node(s).kind # "text" THEN Fails(s)
       ELSE Become(s, [call[s] EXCEPT !.phase = "opening"]) /\ UNCHANGED answers
    /\ UNCHANGED <<disk, previews, Others>>
(* It reads the text it would replace, and works the change out. *)
current_text(s) ==
    /\ call[s].phase = "opening"
    /\ LET r == call[s].request
           change == IF r.tool = "write_file" THEN [new |-> r.new, line |-> 0, matches |-> 0]
                     ELSE edit_file_change(Node(s).lines, r)
       IN  IF Node(s).kind # "text" \/ change = None THEN Fails(s)
           ELSE /\ Become(s, [call[s] EXCEPT !.phase = "worked", !.old = Node(s).lines, !.new = change.new,
                                             !.line = change.line, !.matches = change.matches])
                /\ UNCHANGED answers
    /\ UNCHANGED <<disk, previews, Others>>
(* A cancelled turn stops here; the file is then opened, a new one only if  *)
(* nothing has come to be at its path, and an old one is emptied.           *)
apply_change(s) ==
    /\ call[s].phase = "worked"
    /\ IF s \in aborted THEN Fails(s) ELSE Become(s, [call[s] EXCEPT !.phase = "landing"]) /\ UNCHANGED answers
    /\ UNCHANGED <<disk, previews, Others>>
Takes(s) == IF call[s].old = None THEN Node(s).kind = "none" ELSE Node(s).kind \in {"text", "none", "binary"}
Opens(s) ==
    /\ call[s].phase = "landing"
    /\ IF ~Takes(s) THEN Fails(s) /\ UNCHANGED disk
       ELSE /\ Puts(s, <<>>, [call[s] EXCEPT !.phase = "writing", !.over = IF Node(s).kind = "none" THEN None ELSE Node(s).lines])
            /\ UNCHANGED answers
    /\ UNCHANGED <<previews, Others>>
Lands(s) ==
    /\ call[s].phase = "writing"
    /\ IF Node(s).kind = "text" THEN Puts(s, call[s].new, Idle) ELSE Become(s, Idle) /\ UNCHANGED disk
    /\ previews' = Append(previews, [path |-> call[s].request.path, old |-> call[s].old, new |-> call[s].new, line |-> call[s].line])
    /\ Tell(s, TRUE, [did |-> IF call[s].request.tool = "edit_file" THEN "edited"
                              ELSE IF call[s].old = None THEN "created" ELSE "overwrote",
                      old |-> call[s].old, new |-> call[s].new, line |-> call[s].line, matches |-> call[s].matches,
                      over |-> call[s].over, raced |-> call[s].raced])
    /\ UNCHANGED Others

ReadsWindow(s) ==
    /\ call[s].phase = "stat" /\ call[s].request.tool = "read_file"
    /\ IF Node(s).kind # "text" THEN Fails(s)
       ELSE LET window == read_lines(Node(s).lines, call[s].request)
            IN  IF window = None THEN Fails(s)
                ELSE Answer(s, TRUE, [window |-> window, lines |-> Node(s).lines])
    /\ UNCHANGED <<disk, previews, Others>>
ListsFiles(s) ==
    /\ call[s].phase = "stat" /\ call[s].request.tool = "list_files"
    /\ IF s \in aborted THEN Fails(s) ELSE Answer(s, TRUE, [files |-> walked, listing |-> listing(walked)])
    /\ UNCHANGED <<disk, previews, Others>>

------------------------------------------------------------------------------
(* A search: the worker walks, then reads file by file, and may never be    *)
(* done with one; the budget and the abort each end it.                     *)
in_worker(s) ==
    /\ call[s].phase = "stat" /\ call[s].request.tool = "search"
    /\ IF s \in aborted \/ Node(s).kind \notin {"dir", "text", "binary"} THEN Fails(s)
       ELSE /\ Become(s, [call[s] EXCEPT !.phase = "searching", !.worker = "walking", !.armed = TRUE])
            /\ UNCHANGED answers
    /\ UNCHANGED <<disk, previews, Others>>
Working(s, states) == call[s].phase = "searching" /\ call[s].worker \in states
files_of(s) ==
    /\ Working(s, {"walking"})
    /\ LET files == IF Node(s).kind = "dir" THEN walked ELSE <<call[s].real>>
       IN  Become(s, [call[s] EXCEPT !.worker = "reading", !.files = files, !.listed = files])
    /\ UNCHANGED <<disk, answers, previews, Others>>
Found(s, file) == {<<file, i>> : i \in {k \in DOMAIN disk[file].lines : disk[file].lines[k] = call[s].request.pattern}}
search_files(s) ==
    /\ Working(s, {"reading"}) /\ call[s].files # <<>>
    /\ LET file == Head(call[s].files)
           all == call[s].found \o SetToSortSeq(Found(s, file), LAMBDA a, b : a[2] < b[2])
       IN  Become(s, [call[s] EXCEPT
               !.files = IF Len(all) > MATCH_LIMIT THEN <<>> ELSE Tail(@),
               !.looked = Append(@, [file |-> file, lines |-> disk[file].lines]),
               !.found = SubSeq(all, 1, Min({Len(all), MATCH_LIMIT})),
               !.more = Len(all) > MATCH_LIMIT,
               !.worker = IF disk[file].kind \in {"text", "binary"} THEN "reading" ELSE "failed"])
    /\ UNCHANGED <<disk, answers, previews, Others>>
BacktracksOn(s) ==
    /\ Working(s, {"reading"}) /\ call[s].files # <<>>
    /\ Become(s, [call[s] EXCEPT !.worker = "stuck"])
    /\ UNCHANGED <<disk, answers, previews, Others>>
Posts(s) ==
    /\ Working(s, {"reading"}) /\ call[s].files = <<>>
    /\ Become(s, [call[s] EXCEPT !.worker = "posted"])
    /\ UNCHANGED <<disk, answers, previews, Others>>
(* However it ends, its timer and its listener go. *)
Settles(s, worker, ok) ==
    /\ answers' = [answers EXCEPT ![s] = Append(@,
           [request |-> call[s].request, ok |-> ok,
            body |-> IF ok THEN [found |-> call[s].found, more |-> call[s].more, listed |-> call[s].listed, looked |-> call[s].looked]
                     ELSE None])]
    /\ Become(s, [Idle EXCEPT !.worker = worker])
Receives(s) ==
    /\ Working(s, {"posted", "failed"})
    /\ Settles(s, "none", call[s].worker = "posted")
    /\ UNCHANGED <<disk, previews, Others>>
BudgetFires(s) ==
    /\ call[s].phase = "searching" /\ call[s].armed
    /\ Settles(s, "none", FALSE)
    /\ UNCHANGED <<disk, previews, Others>>

(* The user. *)
Saves ==
    /\ saves < MaxSaves /\ saves' = saves + 1
    /\ \E path \in DOMAIN Saved : disk[path].kind \in {"text", "none"} /\ disk' = [disk EXCEPT ![path] = Saved[path]]
                                 /\ call' = Races(path)
    /\ UNCHANGED <<aborted, answers, previews>>
Cancels(s) ==
    /\ call[s].phase # "idle" /\ s \notin aborted /\ aborted' = aborted \cup {s}
    /\ IF call[s].phase = "searching" THEN Settles(s, "none", FALSE) ELSE UNCHANGED <<call, answers>>
    /\ UNCHANGED <<disk, saves, previews>>

Writes(s) == Stats(s) \/ current_text(s) \/ apply_change(s) \/ Opens(s) \/ Lands(s)
Looks(s) == ReadsWindow(s) \/ ListsFiles(s)
Searches(s) == in_worker(s) \/ files_of(s) \/ search_files(s) \/ Posts(s) \/ Receives(s) \/ BudgetFires(s)
GoesOn(s) == Writes(s) \/ Looks(s) \/ Searches(s)
Next == Saves \/ \E s \in Sessions : Calls(s) \/ GoesOn(s) \/ BacktracksOn(s) \/ Cancels(s)
Spec == Init /\ [][Next]_vars
(* The calls under way go on, and the budget of a search fires.             *)
FairSpec == Spec /\ \A s \in Sessions : WF_vars(GoesOn(s))

------------------------------------------------------------------------------
Told(a, did) == a.ok /\ writes(a.request) /\ a.body.did = did
Preview(a) == [path |-> a.request.path, old |-> a.body.old, new |-> a.body.new, line |-> a.body.line]
(* An edit changes the place it names and nothing else of the text it read. *)
EditsAreExact ==
    \A s \in Sessions : \A i \in DOMAIN answers[s] : LET a == answers[s][i] IN
        Told(a, "edited") =>
            LET old == a.body.old
                new == a.body.new
                n == Len(a.request.old)
            IN  /\ a.body.line \in Occurs(old, a.request.old)
                /\ SubSeq(new, 1, a.body.line - 1) = SubSeq(old, 1, a.body.line - 1)
                /\ Len(new) = Len(old) + a.body.matches * (Len(a.request.new) - n)
                /\ ~a.request.replace_all => new = SubSeq(old, 1, a.body.line - 1) \o a.request.new
                                                   \o SubSeq(old, a.body.line + n, Len(old))
                /\ a.request.replace_all /\ Occurs(a.request.new, a.request.old) = {} /\ n = 1 => Occurs(new, a.request.old) = {}
(* A file that is created takes the place of nothing that came to be there, *)
(* and a change that is told replaces the text it was worked out on, unless *)
(* another wrote at its path between that reading and the write: the code   *)
(* keeps nobody's change then but its own.                                  *)
ChangesReplaceWhatWasRead ==
    \A s \in Sessions : \A i \in DOMAIN answers[s] : LET a == answers[s][i] IN
        a.ok /\ writes(a.request) =>
            /\ a.body.did = "created" => a.body.over = None
            /\ ~a.body.raced => a.body.over = a.body.old
(* The cards show the changes that landed, each one once. *)
CardsShowWhatLanded ==
    /\ Len(previews) = FoldSet(LAMBDA s, n : n + Len(SelectSeq(answers[s], LAMBDA a : a.ok /\ writes(a.request))), 0, Sessions)
    /\ \A s \in Sessions : \A i \in DOMAIN answers[s] :
         answers[s][i].ok /\ writes(answers[s][i].request) => Contains(previews, Preview(answers[s][i]))
(* What a session reads is a part of the file, with the next line to read   *)
(* named; a listing that was cut says so; and a search tells the first      *)
(* matches of the lines that it read, in their order, and says that there   *)
(* are more when one was left out, or else has read every file it listed.   *)
Matching(look, pattern) ==
    LET at == SelectSeq([i \in DOMAIN look.lines |-> i], LAMBDA i : look.lines[i] = pattern)
    IN  [n \in DOMAIN at |-> <<look.file, at[n]>>]
LooksAreWhole ==
    \A s \in Sessions : \A i \in DOMAIN answers[s] : LET a == answers[s][i] IN a.ok =>
        /\ a.request.tool = "read_file" =>
             LET w == a.body.window
                 last == a.request.offset + Len(w.shown) - 1
             IN  /\ w.shown = SubSeq(a.body.lines, a.request.offset, last)
                 /\ (w.next = 0) = (last >= Len(a.body.lines) \/ a.body.lines = <<>>)
                 /\ w.next # 0 => w.next = last + 1
        /\ a.request.tool = "list_files" =>
             (a.body.listing.total = 0) = (a.body.listing.shown = a.body.files)
        /\ a.request.tool = "search" =>
             LET looked == a.body.looked
                 all == FlattenSeq([n \in DOMAIN looked |-> Matching(looked[n], a.request.pattern)])
             IN  /\ a.body.found = SubSeq(all, 1, Min({Len(all), MATCH_LIMIT}))
                 /\ a.body.more = (Len(all) > MATCH_LIMIT)
                 /\ ~a.body.more => [n \in DOMAIN looked |-> looked[n].file] = a.body.listed
(* A session with no call under way holds no search worker, timer or        *)
(* listener, whichever of the answer, the budget and the abort ended it.    *)
IdleHoldsNothing ==
    \A s \in Sessions : call[s].phase = "idle" => call[s].worker = "none" /\ ~call[s].armed
FilesAreAsTold == EditsAreExact /\ ChangesReplaceWhatWasRead /\ CardsShowWhatLanded /\ LooksAreWhole /\ IdleHoldsNothing

(* A call that is made is answered, a search that never ends included. *)
CallsAreAnswered == \A s \in Sessions : call[s].phase # "idle" ~> call[s].phase = "idle"
==============================================================================
