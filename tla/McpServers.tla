----------------------------- MODULE McpServers -----------------------------
(* The MCP servers of an ACP session (src/src/acp/mcp_servers.ts over      *)
(* src/src/mcp/client.ts): all of them are connected at once, what cannot  *)
(* be reached is left out, the tools of the others go to the flow under    *)
(* names of the session's own, and the connections end with the session.   *)
(* A server may die at any moment, and closing a connection may fail.      *)
EXTENDS Naturals, Sequences, FiniteSets, SequencesExt

CONSTANTS
  Servers,      \* numbered in the order the client sent them
  Transport(_), \* "stdio", "http" or one that the agent does not speak
  Offers(_),    \* the names that a server advertises, in order
  Named(_, _),  \* name_prefix and the name: what the session calls a server's tool
  FlowTools,    \* the names of tools that the flow brings
  MaxCalls,     \* bound of the model: the tool calls of the session
  None

VARIABLES
  at,       \* of each server: "connecting", "listing", "undoing", "up", "closing" or "out"
  open,     \* the servers whose connection is there
  stuck,    \* those whose close failed
  session,  \* "opening", "on", "closing" or "closed"
  tools,    \* the session's tools: name, server and the server's own name
  call,     \* the call under way
  asked,    \* the inputs that the session's MCP tools were asked about
  granted,  \* the tools that are always allowed
  aborted,  \* the turn is cancelled
  told      \* the calls that ended

vars == <<at, open, stuck, session, tools, call, asked, granted, aborted, told>>

connections == <<at, open, stuck>>

(* of is the place of the session's tool that is called, None for one of   *)
(* the flow's own; leave says why the call ran, or None when it did not.   *)
NoCall == [phase |-> "idle", tool |-> None, of |-> None, input |-> 0, leave |-> None, wire |-> None, out |-> None]

Init ==
  /\ at = [s \in Servers |-> IF Transport(s) \in {"stdio", "http"} THEN "connecting" ELSE "out"]
  /\ open = {} /\ stuck = {}
  /\ session = "opening" /\ tools = <<>>
  /\ call = NoCall /\ asked = {} /\ granted = {} /\ aborted = FALSE /\ told = <<>>

----------------------------------------------------------------------------
(* mcp_client, once for each server. *)

connect_client(s) ==
  /\ at[s] = "connecting"
  /\ \/ at' = [at EXCEPT ![s] = "listing"] /\ open' = open \union {s}
     \/ at' = [at EXCEPT ![s] = "out"] /\ UNCHANGED open
  /\ UNCHANGED <<stuck, session, tools, call, asked, granted, aborted, told>>

lists(s) ==
  /\ at[s] = "listing"
  /\ \/ s \in open /\ at' = [at EXCEPT ![s] = "up"]
     \/ at' = [at EXCEPT ![s] = "undoing"]
  /\ UNCHANGED <<open, stuck, session, tools, call, asked, granted, aborted, told>>

(* A close that fails leaves what it could not close. *)
disconnects(s) ==
  /\ at[s] \in {"undoing", "closing"}
  /\ at' = [at EXCEPT ![s] = "out"]
  /\ \/ open' = open \ {s} /\ UNCHANGED stuck
     \/ s \in open /\ stuck' = stuck \union {s} /\ UNCHANGED open
  /\ UNCHANGED <<session, tools, call, asked, granted, aborted, told>>

Dies(s) ==
  /\ s \in open
  /\ open' = open \ {s}
  /\ UNCHANGED <<at, stuck, session, tools, call, asked, granted, aborted, told>>

----------------------------------------------------------------------------
(* connect_mcp_servers, and the close that it returns. *)

Up == {s \in Servers : at[s] = "up"}

to_fascicle_tools(s) ==
  [i \in DOMAIN Offers(s) |-> [name |-> Named(s, Offers(s)[i]), server |-> s, own |-> Offers(s)[i]]]

HandlesTools == FlattenSeq([i \in 1..Cardinality(Up) |-> to_fascicle_tools(SetToSortSeq(Up, <)[i])])

first_takes(all) ==
  FoldLeft(LAMBDA taken, t : IF \E i \in DOMAIN taken : taken[i].name = t.name THEN taken ELSE Append(taken, t), <<>>, all)

connect_mcp_servers ==
  /\ session = "opening" /\ \A s \in Servers : at[s] \in {"up", "out"}
  /\ session' = "on" /\ tools' = first_takes(HandlesTools)
  /\ UNCHANGED <<connections, call, asked, granted, aborted, told>>

(* It comes when the last turn has settled (AcpSession). *)
close_all ==
  /\ session = "on" /\ call = NoCall
  /\ session' = "closing" /\ at' = [s \in Servers |-> IF s \in Up THEN "closing" ELSE at[s]]
  /\ UNCHANGED <<open, stuck, tools, call, asked, granted, aborted, told>>

Closed ==
  /\ session = "closing" /\ \A s \in Servers : at[s] = "out"
  /\ session' = "closed"
  /\ UNCHANGED <<connections, tools, call, asked, granted, aborted, told>>

----------------------------------------------------------------------------
(* A call of a tool, of the session's or of one that the flow brings.  An  *)
(* input is an object, so that no two calls have the same.                 *)

Input == Len(told) + 1

is_mcp_call(input) == input \in asked

(* The session's mode asks before a command or does not; a tool of the     *)
(* flow's own has a rule of its own.                                       *)
needs_approval ==
  /\ session = "on" /\ ~aborted /\ call = NoCall /\ Len(told) < MaxCalls
  /\ \E needs \in BOOLEAN :
       LET Called(name, of) ==
             call' = [NoCall EXCEPT !.phase = IF needs THEN "asks" ELSE "runs", !.leave = IF needs THEN None ELSE "unasked",
                                    !.tool = name, !.of = of, !.input = Input]
       IN \/ \E i \in DOMAIN tools : Called(tools[i].name, i) /\ asked' = asked \union {Input}
          \/ \E name \in FlowTools : Called(name, None) /\ UNCHANGED asked
  /\ UNCHANGED <<connections, session, tools, granted, aborted, told>>

Ends(out) == told' = Append(told, [call EXCEPT !.phase = "over", !.out = out]) /\ call' = NoCall

Runs(leave) == call' = [call EXCEPT !.phase = "runs", !.leave = leave] /\ UNCHANGED told

(* session_approver: only a call that has a gate can be granted for good.  *)
approve ==
  /\ call.phase = "asks"
  /\ IF is_mcp_call(call.input) /\ call.tool \in granted THEN Runs("granted") /\ UNCHANGED granted
     ELSE \/ ~aborted /\ Runs("once") /\ UNCHANGED granted
          \/ ~aborted /\ is_mcp_call(call.input) /\ Runs("always") /\ granted' = granted \union {call.tool}
          \/ Ends("denied") /\ UNCHANGED granted
  /\ UNCHANGED <<connections, session, tools, asked, aborted>>

(* execute: an abort that came before it goes no further. *)
execute ==
  /\ call.phase = "runs"
  /\ IF call.of = None THEN Ends("returned")
     ELSE IF aborted THEN Ends("threw")
     ELSE /\ call' = [call EXCEPT !.phase = "sent", !.wire = <<tools[call.of].server, tools[call.of].own>>]
          /\ UNCHANGED told
  /\ UNCHANGED <<connections, session, tools, asked, granted, aborted>>

(* A result with isError, an abort and a connection that is gone throw. *)
ServerAnswers ==
  /\ call.phase = "sent"
  /\ \/ Ends("threw")
     \/ call.wire[1] \in open /\ Ends("returned")
  /\ UNCHANGED <<connections, session, tools, asked, granted, aborted>>

Cancels ==
  /\ ~aborted /\ session = "on"
  /\ aborted' = TRUE
  /\ UNCHANGED <<connections, session, tools, call, asked, granted, told>>

Next ==
  \/ \E s \in Servers : connect_client(s) \/ lists(s) \/ disconnects(s) \/ Dies(s)
  \/ connect_mcp_servers \/ close_all \/ Closed
  \/ needs_approval \/ approve \/ execute \/ ServerAnswers \/ Cancels

Spec == Init /\ [][Next]_vars

----------------------------------------------------------------------------
(* No connection is left to nobody: one that is there is being made or     *)
(* undone, is the session's own, or could not be closed, and once the      *)
(* session is closed only the last of these is (mcp_client and close_all,  *)
(* which go on past a server that fails).                                  *)
NoServerIsLost ==
  /\ \A s \in open \ stuck : at[s] # "out"
  /\ session = "closed" => open \subseteq stuck

(* The tool that a name is of is one, that of the first server reached     *)
(* which offers it, and none that was reached goes without; a call under a *)
(* name goes to that tool's server under the server's own name for it, and *)
(* what the client allowed for good is what it was asked of an MCP tool,   *)
(* whatever the flow's own tools are called.                               *)
NamesLeadHome ==
  /\ session = "on" =>
       \A s \in Up : \A i \in DOMAIN Offers(s) :
         LET holders == {j \in DOMAIN tools : tools[j].name = Named(s, Offers(s)[i])}
         IN Cardinality(holders) = 1 /\ \A j \in holders : tools[j].server <= s
  /\ \A i \in DOMAIN told :
       /\ told[i].wire # None => Named(told[i].wire[1], told[i].wire[2]) = told[i].tool
       /\ told[i].leave \in {"always", "granted"} => told[i].of # None
       /\ told[i].leave = "granted" => \E j \in 1..(i - 1) : told[j].tool = told[i].tool /\ told[j].leave = "always"
=============================================================================
