----------------------------- MODULE AcpSession -----------------------------
(* One stored session of an ACP agent, src/src/acp/acp_agent.ts and        *)
(* src/src/acp/prompt_turn.ts: the requests of its client, whose handlers  *)
(* run side by side, the records they find or make in the agent's memory,  *)
(* and the file that the session store keeps.                              *)
(*                                                                         *)
(* A record is known by the session/load request that opened it.           *)
EXTENDS Integers, Sequences, FiniteSets, SequencesExt

CONSTANTS
  Loads,      \* session/load and session/resume requests
  Prompts,    \* session/prompt requests
  Settings,   \* session/set_mode and session/set_config_option requests
  Closes,     \* session/close requests
  Hangup,     \* the agent's own close when the connection ends
  None,
  Past,       \* what the stored session holds at first
  Clients     \* what the client may wait for before it sends a request

Closers == Closes \cup {Hangup}
Requests == Loads \cup Prompts \cup Settings \cup Closers

ASSUME AcpSessionAssumption ==
  /\ Clients \subseteq {"patient", "serial", "hasty"}
  /\ {None, Hangup, Past} \cap (Loads \cup Prompts \cup Settings \cup Closes) = {}
  /\ Loads \cap (Prompts \cup Settings \cup Closes) = {}
  /\ Prompts \cap (Settings \cup Closes) = {} /\ Settings \cap Closes = {}

VARIABLES
  client,       \* what the client waits for
  connected,
  sessions,     \* the record that the agent's map holds for the session
  store,        \* the exchanges in the session's file
  pc,           \* how far each request has come
  loaded,       \* what a load read from the store
  history, last_turn, saving, mcp,    \* of each record
  record,       \* the record that a request was given
  awaits,       \* the turn that a prompt or a close waits for
  cancelled     \* the turns that were cancelled

records == <<history, last_turn, saving, mcp>>
vars == <<client, connected, sessions, store, pc, loaded, records, record, awaits, cancelled>>

Init ==
  /\ client \in Clients
  /\ connected = TRUE
  /\ sessions = None
  /\ store = <<Past>>
  /\ pc = [q \in Requests |-> "unsent"]
  /\ loaded = [l \in Loads |-> <<>>]
  /\ history = [l \in Loads |-> <<>>]
  /\ last_turn = [l \in Loads |-> None]
  /\ saving = [l \in Loads |-> <<>>]
  /\ mcp = [l \in Loads |-> "none"]
  /\ record = [q \in Requests \ Loads |-> None]
  /\ awaits = [q \in Prompts \cup Closers |-> None]
  /\ cancelled = {}

----------------------------------------------------------------------------
(* The client.                                                             *)

Answered(q) == pc[q] \in {"unsent", "done", "refused"}
Idle(S) == \A q \in S : Answered(q)

(* A serial client sends nothing while it waits for a load or a close, and *)
(* a patient one does not load while it waits for anything.                *)
MaySend(q) ==
  /\ connected
  /\ pc[q] = "unsent"
  /\ client # "hasty" => Idle(Loads \cup Closes)
  /\ client = "patient" /\ q \in Loads => Idle(Requests)

Moves(q, to) == pc' = [pc EXCEPT ![q] = to]
Cancel(turns) == cancelled' = cancelled \cup (turns \ {None})
Settled(p) == p # None => pc[p] \in {"saving", "done"}

----------------------------------------------------------------------------
(* Opening.                                                                *)

(* A session that is live is picked up as it is.                           *)
Load(l) ==
  /\ MaySend(l)
  /\ Moves(l, IF sessions # None THEN "done" ELSE "loading")
  /\ UNCHANGED <<client, connected, sessions, store, loaded, records, record, awaits, cancelled>>

ReadsStore(l) ==
  /\ pc[l] = "loading"
  /\ \/ Moves(l, "opening") /\ loaded' = [loaded EXCEPT ![l] = store]
     \/ Moves(l, "refused") /\ UNCHANGED loaded
  /\ UNCHANGED <<client, connected, sessions, store, records, record, awaits, cancelled>>

(* The roots are resolved and the MCP servers connected; then the record   *)
(* takes its place, unless the roots are bad or the flow builder throws.   *)
open_session(l) ==
  /\ pc[l] = "opening"
  /\ \/ /\ Moves(l, "done")
        /\ sessions' = l
        /\ history' = [history EXCEPT ![l] = loaded[l]]
        /\ mcp' = [mcp EXCEPT ![l] = "open"]
     \/ /\ Moves(l, "refused")
        /\ mcp' = [mcp EXCEPT ![l] = "closed"]
        /\ UNCHANGED <<sessions, history>>
  /\ UNCHANGED <<client, connected, store, loaded, last_turn, saving, record, awaits, cancelled>>

----------------------------------------------------------------------------
(* Turns.                                                                  *)

(* A new prompt cancels the turn before it and waits for it to settle.     *)
Prompt(p) ==
  /\ MaySend(p)
  /\ IF sessions = None THEN Moves(p, "refused") /\ UNCHANGED <<record, awaits, last_turn, cancelled>>
     ELSE LET previous == last_turn[sessions] IN
       /\ record' = [record EXCEPT ![p] = sessions]
       /\ awaits' = [awaits EXCEPT ![p] = previous]
       /\ last_turn' = [last_turn EXCEPT ![sessions] = p]
       /\ Cancel({previous})
       /\ Moves(p, IF previous = None THEN "running" ELSE "waiting")
  /\ UNCHANGED <<client, connected, sessions, store, loaded, history, saving, mcp>>

run_turn(p) ==
  /\ pc[p] = "waiting"
  /\ Settled(awaits[p])
  /\ Moves(p, "running")
  /\ UNCHANGED <<client, connected, sessions, store, loaded, records, record, awaits, cancelled>>

(* A save is queued behind the saves before it; an empty session has none. *)
save_session(q, exchanges) ==
  LET r == record[q] IN
  IF exchanges = <<>> THEN Moves(q, "done") /\ UNCHANGED saving
  ELSE /\ Moves(q, "saving")
       /\ saving' = [saving EXCEPT ![r] = Append(@, [by |-> q, snapshot |-> exchanges])]

(* The run has settled.  A turn that was cancelled is always recorded, one *)
(* that failed or was refused is not.                                      *)
TurnEnds(p) ==
  LET r == record[p] IN
  /\ pc[p] = "running"
  /\ \E recorded \in BOOLEAN :
       /\ p \in cancelled => recorded
       /\ history' = IF recorded THEN [history EXCEPT ![r] = Append(@, p)] ELSE history
       /\ save_session(p, history'[r])
  /\ UNCHANGED <<client, connected, sessions, store, loaded, last_turn, mcp, record, awaits, cancelled>>

(* The config's to_input throws, before anything has run.                  *)
InputThrows(p) ==
  /\ pc[p] = "waiting"
  /\ Settled(awaits[p])
  /\ save_session(p, history[record[p]])
  /\ UNCHANGED <<client, connected, sessions, store, loaded, history, last_turn, mcp, record, awaits, cancelled>>

(* Mutant: saves of one session finish in any order.                       *)
SaveUnqueued(r) ==
  /\ \E n \in 1 .. Len(saving[r]) :
       /\ saving' = [saving EXCEPT ![r] = RemoveAt(@, n)]
       /\ Moves(saving[r][n].by, "done")
       /\ store' \in {store, saving[r][n].snapshot}
  /\ UNCHANGED <<client, connected, sessions, loaded, history, last_turn, mcp, record, awaits, cancelled>>

(* The file is replaced, or the save fails and leaves it.                  *)
Save(r) ==
  /\ saving[r] # <<>>
  /\ saving' = [saving EXCEPT ![r] = Tail(@)]
  /\ Moves(Head(saving[r]).by, "done")
  /\ store' \in {store, Head(saving[r]).snapshot}
  /\ UNCHANGED <<client, connected, sessions, loaded, history, last_turn, mcp, record, awaits, cancelled>>

CancelTurn ==
  /\ connected /\ sessions # None
  /\ last_turn[sessions] \notin cancelled \cup {None}
  /\ Cancel({last_turn[sessions]})
  /\ UNCHANGED <<client, connected, sessions, store, pc, loaded, records, record, awaits>>

----------------------------------------------------------------------------
(* Settings: the client is told first, then the session is saved.          *)

Set(s) ==
  /\ MaySend(s)
  /\ record' = [record EXCEPT ![s] = sessions]
  /\ Moves(s, IF sessions = None THEN "refused" ELSE "sending")
  /\ UNCHANGED <<client, connected, sessions, store, loaded, records, awaits, cancelled>>

SetSaves(s) ==
  /\ pc[s] = "sending"
  /\ save_session(s, history[record[s]])
  /\ UNCHANGED <<client, connected, sessions, store, loaded, history, last_turn, mcp, record, awaits, cancelled>>

----------------------------------------------------------------------------
(* Closing.                                                                *)

close_session(c) ==
  /\ sessions' = None
  /\ record' = [record EXCEPT ![c] = sessions]
  /\ awaits' = [awaits EXCEPT ![c] = last_turn[sessions]]

Close(c) ==
  /\ MaySend(c)
  /\ IF sessions = None THEN Moves(c, "refused") /\ UNCHANGED <<sessions, record, awaits, cancelled>>
     ELSE Moves(c, "closing") /\ close_session(c) /\ Cancel({last_turn[sessions]})
  /\ UNCHANGED <<client, connected, store, loaded, records>>

ClosesServers(c) ==
  /\ pc[c] = "closing"
  /\ Settled(awaits[c])
  /\ Moves(c, "done")
  /\ mcp' = [mcp EXCEPT ![record[c]] = "closed"]
  /\ UNCHANGED <<client, connected, sessions, store, loaded, history, last_turn, saving, record, awaits, cancelled>>

(* Mutant: the connection's end aborts the turns and closes no session.    *)
DisconnectOnly ==
  /\ connected
  /\ client # "hasty" => Idle(Loads)
  /\ connected' = FALSE
  /\ Cancel({p \in Prompts : pc[p] \in {"waiting", "running"}})
  /\ UNCHANGED <<client, sessions, store, pc, loaded, records, record, awaits>>

(* The end of the connection aborts every request in flight, then closes   *)
(* the sessions that the map holds.                                        *)
Disconnect ==
  /\ connected
  /\ client # "hasty" => Idle(Loads)
  /\ connected' = FALSE
  /\ Cancel({p \in Prompts : pc[p] \in {"waiting", "running"}})
  /\ IF sessions = None THEN UNCHANGED <<pc, sessions, record, awaits>>
     ELSE Moves(Hangup, "closing") /\ close_session(Hangup)
  /\ UNCHANGED <<client, store, loaded, records>>

Handles ==
  \/ \E l \in Loads : ReadsStore(l) \/ open_session(l) \/ Save(l)
  \/ \E p \in Prompts : run_turn(p) \/ InputThrows(p)
  \/ \E s \in Settings : SetSaves(s)
  \/ \E c \in Closers : ClosesServers(c)

Next ==
  \/ Handles
  \/ \E l \in Loads : Load(l)
  \/ \E p \in Prompts : Prompt(p) \/ TurnEnds(p)
  \/ \E s \in Settings : Set(s)
  \/ \E c \in Closes : Close(c)
  \/ CancelTurn \/ Disconnect

Spec == Init /\ [][Next]_vars

(* Handlers go on by themselves, and a run that is aborted settles.        *)
FairSpec ==
  /\ Spec
  /\ WF_vars(Handles)
  /\ \A p \in Prompts : WF_vars(TurnEnds(p) /\ p \in cancelled)

----------------------------------------------------------------------------
(* Properties.                                                             *)

(* Every variable has values of its type, and a request in flight has a    *)
(* record.                                                                 *)
TypeOK ==
  LET Exchanges == Seq(Prompts \cup {Past}) IN
  /\ client \in Clients
  /\ connected \in BOOLEAN
  /\ sessions \in Loads \cup {None}
  /\ store \in Exchanges
  /\ pc \in [Requests -> {"unsent", "loading", "opening", "waiting", "running", "sending",
                          "saving", "closing", "done", "refused"}]
  /\ \A l \in Loads : /\ {loaded[l], history[l]} \subseteq Exchanges
                      /\ last_turn[l] \in Prompts \cup {None}
                      /\ mcp[l] \in {"none", "open", "closed"}
                      /\ \A n \in 1 .. Len(saving[l]) : pc[saving[l][n].by] = "saving"
  /\ \A q \in Requests \ Loads :
       pc[q] \in {"waiting", "running", "sending", "saving", "closing"} => record[q] \in Loads
  /\ awaits \in [Prompts \cup Closers -> Prompts \cup {None}]
  /\ cancelled \subseteq Prompts

(* A turn of the session never runs beside another, unless the client      *)
(* loads the session twice at once.                                        *)
TurnsNeverOverlap ==
  client # "hasty" =>
    \A p, q \in Prompts : pc[p] = "running" /\ pc[q] = "running" => p = q

(* While a turn runs, the MCP servers of its session are not closed,       *)
(* whatever is closed or loaded beside it.                                 *)
ToolsHaveTheirServers ==
  \A p \in Prompts : pc[p] = "running" => mcp[record[p]] = "open"

(* Once the editor is gone and every handler has returned, no MCP server   *)
(* that it sent is still connected, unless a load was in flight when it    *)
(* left.                                                                   *)
NoServerOutlivesTheEditor ==
  client # "hasty" /\ ~connected /\ Idle(Requests) => \A l \in Loads : mcp[l] # "open"

(* Turns of a session never overlap, tools run beside their servers, and   *)
(* no server outlives the editor.                                          *)
SessionsHold == TurnsNeverOverlap /\ ToolsHaveTheirServers /\ NoServerOutlivesTheEditor

(* A save adds exchanges to the stored session and never takes one away,   *)
(* as long as a load waits for the answers to everything before it.        *)
NoExchangeIsLost == [][client = "patient" => IsPrefix(store, store')]_vars

(* A prompt that replaced another turn does not wait for it forever.       *)
PromptsStart == \A p \in Prompts : pc[p] = "waiting" ~> pc[p] # "waiting"

=============================================================================
