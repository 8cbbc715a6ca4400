--------------------------- MODULE MCAcpSession ---------------------------
(* Two loads, two prompts, a change of mode and a close, by each client,    *)
(* and beside it the commands (RunCommand), the files (AcpFiles) and the    *)
(* MCP servers (McpServers) of its agent.                                   *)
EXTENDS AcpSession

CONSTANTS Parts, l1, l2, p1, p2, s1, c1

VARIABLE part  \* the part that is explored; the others stay as they are
VARIABLES rc_shell, rc_group, rc_outside, rc_printed, rc_unread, rc_capture, rc_reading, rc_closed,
          rc_timer, rc_grace, rc_aborted, rc_listening, rc_outcome
VARIABLES fi_disk, fi_saves, fi_call, fi_aborted, fi_answers, fi_previews
VARIABLES ms_at, ms_open, ms_stuck, ms_session, ms_tools, ms_call, ms_asked, ms_granted, ms_aborted, ms_told

(* A workspace of a file, a link to where no file is yet, a binary, a       *)
(* directory and a guarded path, numbered in the order they sort.           *)
Holds(lines) == [kind |-> "text", lines |-> lines, to |-> None]
Made(kind) == [kind |-> kind, lines |-> <<>>, to |-> None]
Link(to) == [kind |-> "link", lines |-> <<>>, to |-> to]
SmallDisks == { <<Made("dir"), Holds(<<"x", "y", "x">>), Link(4), Made("none"), Made("binary"), Holds(<<"x">>), Holds(<<"x">>)>> }
SavedByTheUser == [p \in {2, 4} |-> IF p = 2 THEN Made("none") ELSE Holds(<<"z">>)]

Asked == [path |-> 2, old |-> <<>>, new |-> <<>>, replace_all |-> FALSE, offset |-> 1, limit |-> 9, pattern |-> "x", tool |-> "list_files"]
Edit(path, old, new, all) == [Asked EXCEPT !.tool = "edit_file", !.path = path, !.old = old, !.new = new, !.replace_all = all]
Write(path, new) == [Asked EXCEPT !.tool = "write_file", !.path = path, !.new = new]
Read(path, offset, limit) == [Asked EXCEPT !.tool = "read_file", !.path = path, !.offset = offset, !.limit = limit]
Search(path) == [Asked EXCEPT !.tool = "search", !.path = path]
ToolRequests == { Edit(2, <<"x">>, <<"z", "z">>, TRUE), Edit(2, <<"y">>, <<>>, FALSE), Edit(2, <<"x">>, <<"z">>, FALSE),
                Write(3, <<"w">>), Write(2, <<"v">>), Write(7, <<"v">>),
                Read(2, 1, 2), Read(2, 3, 9), Read(5, 1, 1), Search(1), Search(2), Asked }

(* Servers 1 and 2 have names that become one prefix and share a tool, and  *)
(* the third speaks a transport that the agent does not.                    *)
TransportOf(s) == <<"stdio", "http", "sse">>[s]
OffersOf(s) == <<<<"read">>, <<"find", "read">>, <<"read">>>>[s]
NamedOf(s, own) == <<IF s = 3 THEN "mcp__c__" ELSE "mcp__a_b__", own>>

----------------------------------------------------------------------------
R == INSTANCE RunCommand WITH
  shell <- rc_shell, group <- rc_group, outside <- rc_outside, printed <- rc_printed,
  unread <- rc_unread, capture <- rc_capture, reading <- rc_reading, closed <- rc_closed,
  timer <- rc_timer, grace <- rc_grace, aborted <- rc_aborted, listening <- rc_listening,
  outcome <- rc_outcome, Limit <- 1, MaxPrints <- 3, None <- None
rc_vars == <<rc_shell, rc_group, rc_outside, rc_printed, rc_unread, rc_capture, rc_reading, rc_closed,
  rc_timer, rc_grace, rc_aborted, rc_listening, rc_outcome>>

F == INSTANCE AcpFiles WITH
  disk <- fi_disk, saves <- fi_saves, call <- fi_call, aborted <- fi_aborted, answers <- fi_answers,
  previews <- fi_previews, Sessions <- {1, 2}, Requests <- ToolRequests, Disks <- SmallDisks,
  Outside <- {6}, Guarded <- {7}, Saved <- SavedByTheUser, MaxSaves <- 1, MaxCalls <- 1,
  MAX_LINK_HOPS <- 2, ReadLimit <- 2, ListLimit <- 1, MATCH_LIMIT <- 1, None <- None
fi_vars == <<fi_disk, fi_saves, fi_call, fi_aborted, fi_answers, fi_previews>>

V == INSTANCE McpServers WITH
  at <- ms_at, open <- ms_open, stuck <- ms_stuck, session <- ms_session, tools <- ms_tools,
  call <- ms_call, asked <- ms_asked, granted <- ms_granted, aborted <- ms_aborted, told <- ms_told,
  Servers <- 1..3, Transport <- TransportOf, Offers <- OffersOf, Named <- NamedOf,
  FlowTools <- {NamedOf(1, "read")}, MaxCalls <- 2, None <- None
ms_vars == <<ms_at, ms_open, ms_stuck, ms_session, ms_tools, ms_call, ms_asked, ms_granted, ms_aborted, ms_told>>

all == <<part, vars, rc_vars, fi_vars, ms_vars>>

AllInit ==
  /\ part \in Parts
  /\ Init
  /\ part # "session" => client = "patient"
  /\ IF part = "command" THEN R!Init
     ELSE rc_shell = 0 /\ rc_group = 0 /\ rc_outside = 0 /\ rc_printed = 0 /\ rc_unread = 0 /\
          rc_capture = 0 /\ rc_reading = 0 /\ rc_closed = 0 /\ rc_timer = 0 /\ rc_grace = 0 /\
          rc_aborted = 0 /\ rc_listening = 0 /\ rc_outcome = 0
  /\ IF part = "files" THEN F!Init
     ELSE fi_disk = 0 /\ fi_saves = 0 /\ fi_call = 0 /\ fi_aborted = 0 /\ fi_answers = 0 /\
          fi_previews = 0
  /\ IF part = "servers" THEN V!Init
     ELSE ms_at = 0 /\ ms_open = 0 /\ ms_stuck = 0 /\ ms_session = 0 /\ ms_tools = 0 /\
          ms_call = 0 /\ ms_asked = 0 /\ ms_granted = 0 /\ ms_aborted = 0 /\ ms_told = 0

AllNext ==
  \/ part = "session" /\ Next /\ UNCHANGED <<part, rc_vars, fi_vars, ms_vars>>
  \/ part = "command" /\ R!Next /\ UNCHANGED <<part, vars, fi_vars, ms_vars>>
  \/ part = "files" /\ F!Next /\ UNCHANGED <<part, vars, rc_vars, ms_vars>>
  \/ part = "servers" /\ V!Next /\ UNCHANGED <<part, vars, rc_vars, fi_vars>>

AllSpec == AllInit /\ [][AllNext]_all

(* Handlers go on by themselves, a run that is aborted settles, the        *)
(* timers of a command fire, and the calls of the file tools go on.        *)
AllFairSpec ==
  /\ AllSpec
  /\ WF_vars(part = "session" /\ Handles)
  /\ \A p \in Prompts : WF_vars(part = "session" /\ TurnEnds(p) /\ p \in cancelled)
  /\ WF_rc_vars(part = "command" /\ R!Call)
  /\ WF_rc_vars(part = "command" /\ R!TimesOut)
  /\ WF_rc_vars(part = "command" /\ R!GraceEnds)
  /\ \A s \in {1, 2} : WF_fi_vars(part = "files" /\ F!GoesOn(s))

----------------------------------------------------------------------------
(* A command's report is whole, an edit, a write, a read or a search tells *)
(* what it did to the files, an MCP tool is reached by its own name, and   *)
(* no server is left behind by its session (mcp_servers.ts).               *)
ToolsReportTruly ==
  /\ part = "command" => R!ReportIsWhole
  /\ part = "files" => F!FilesAreAsTold
  /\ part = "servers" => V!NamesLeadHome /\ V!NoServerIsLost

(* A prompt that waits gets its turn, a command that is called ends, and   *)
(* every call of a file tool returns.                                      *)
CallsEnd ==
  /\ PromptsStart
  /\ <>[](part = "command" => R!settled /\ ~R!Alive)
  /\ \A s \in {1, 2} :
       part = "files" /\ fi_call[s].phase # "idle" ~> part = "files" /\ fi_call[s].phase = "idle"
============================================================================
