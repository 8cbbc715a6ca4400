-------------------------- MODULE AcpSessionProofs --------------------------
(* Proofs about AcpSession: what the handlers of one session, interleaved  *)
(* at their awaits, keep true for any number of requests.                  *)
EXTENDS AcpSession, TLAPS

----------------------------------------------------------------------------
(* The inductive invariant. *)

Handled == Requests \ Loads
Exchange == Prompts \cup {Past}
SaveType == [by : Handled, snapshot : Seq(Exchange)]

Points == {"unsent", "loading", "opening", "waiting", "running", "sending", "saving", "closing", "done", "refused"}

(* The types of the variables, as sets.                                    *)
ShapeInv ==
  /\ client \in Clients /\ connected \in BOOLEAN
  /\ sessions \in Loads \cup {None}
  /\ store \in Seq(Exchange)
  /\ pc \in [Requests -> Points]
  /\ loaded \in [Loads -> Seq(Exchange)] /\ history \in [Loads -> Seq(Exchange)]
  /\ last_turn \in [Loads -> Prompts \cup {None}]
  /\ saving \in [Loads -> Seq(SaveType)]
  /\ mcp \in [Loads -> {"none", "open", "closed"}]
  /\ record \in [Handled -> Loads \cup {None}]
  /\ awaits \in [Prompts \cup Closers -> Prompts \cup {None}]
  /\ cancelled \subseteq Prompts

Opening(l) == pc[l] \in {"loading", "opening"}
Unsettled(p) == pc[p] \in {"waiting", "running"}
Active(q) == pc[q] \in {"waiting", "running", "sending", "saving"}

(* Where each kind of request can be, and the records that they were given.*)
Place(q, at) ==
  /\ q \in Loads => at \in {"unsent", "loading", "opening", "done", "refused"}
  /\ q \in Prompts => at \in {"unsent", "waiting", "running", "saving", "done", "refused"}
  /\ q \in Settings => at \in {"unsent", "sending", "saving", "done", "refused"}
  /\ q \in Closers => at \in {"unsent", "closing", "done", "refused"}

PlaceInv ==
  /\ \A q \in Requests : Place(q, pc[q])
  /\ \A q \in Handled : record[q] = None <=> pc[q] \in {"unsent", "refused"}
  /\ \A q \in Handled : record[q] # None => pc[record[q]] = "done"
  /\ sessions # None => pc[sessions] = "done"

(* Every save that is queued is one that a request waits for.              *)
SavingInv ==
  \A l \in Loads :
    /\ \A n \in 1 .. Len(saving[l]) : pc[saving[l][n].by] = "saving" /\ record[saving[l][n].by] = l
    /\ \A m, n \in 1 .. Len(saving[l]) : saving[l][m].by = saving[l][n].by => m = n

(* The turns of a record, in the order of their prompts: each waits for    *)
(* the one before it, and all that come after one that has not settled     *)
(* still wait.                                                             *)
Ordered(rank) ==
  /\ \A l \in Loads : last_turn[l] # None => record[last_turn[l]] = l
  /\ \A p, q \in Prompts : record[p] # None /\ record[q] = record[p] =>
       /\ rank[p] = rank[q] => p = q
       /\ rank[q] < rank[p] /\ Unsettled(q) => pc[p] = "waiting"
       /\ rank[q] < rank[p] =>
            /\ awaits[p] # None /\ record[awaits[p]] = record[p]
            /\ rank[q] <= rank[awaits[p]] /\ rank[awaits[p]] < rank[p]
       /\ last_turn[record[p]] # None /\ rank[p] <= rank[last_turn[record[p]]]

TurnsInv == \E k \in Nat : \E rank \in [Prompts -> 0 .. k] : Ordered(rank)

(* A session that is being closed has left the map, and its last turn is   *)
(* the one that its close waits for.                                       *)
ClosingInv ==
  \A c \in Closers : pc[c] = "closing" => record[c] # sessions /\ awaits[c] = last_turn[record[c]]

ServersInv ==
  /\ sessions # None => mcp[sessions] = "open"
  /\ \A p \in Prompts : Unsettled(p) => mcp[record[p]] = "open"

Closing(l) == \E c \in Closers : pc[c] = "closing" /\ record[c] = l

(* A client that waits for its loads and closes has one record at a time.  *)
SerialInv ==
  client # "hasty" =>
    /\ \A l \in Loads : Opening(l) =>
         /\ sessions = None /\ connected
         /\ \A m \in Loads : m # l => ~Opening(m)
         /\ \A p \in Prompts : ~Unsettled(p)
         /\ \A c \in Closers : pc[c] # "closing"
    /\ \A p \in Prompts : Unsettled(p) => record[p] = sessions \/ Closing(record[p])
    /\ \A p, q \in Prompts : Unsettled(p) /\ Unsettled(q) => record[p] = record[q]
    /\ \A l \in Loads : mcp[l] = "open" => l = sessions \/ Closing(l)
    /\ ~connected => sessions = None
    /\ connected => pc[Hangup] = "unsent"

Pre(s, t) == Len(s) <= Len(t) /\ \A i \in 1 .. Len(s) : s[i] = t[i]

(* What is stored, what is queued to be stored, and the history.           *)
Grows(l) ==
  /\ Pre(store, history[l])
  /\ \A n \in 1 .. Len(saving[l]) :
       /\ Pre(store, saving[l][n].snapshot) /\ Pre(saving[l][n].snapshot, history[l])
       /\ \A m \in 1 .. n : Pre(saving[l][m].snapshot, saving[l][n].snapshot)

(* The record that the map holds, and those that requests still use.       *)
Live(l) == l = sessions \/ \E q \in Handled : Active(q) /\ record[q] = l

(* One that waits for every answer before it loads has one history.        *)
PatientInv ==
  client = "patient" =>
    /\ \A l \in Loads : Opening(l) => \A q \in Handled : ~Active(q)
    /\ \A l \in Loads : pc[l] = "opening" => loaded[l] = store
    /\ \A l, m \in Loads : Live(l) /\ Live(m) => l = m
    /\ \A l \in Loads : Live(l) => Grows(l)

SessionInv ==
  /\ ShapeInv /\ PlaceInv /\ SavingInv /\ TurnsInv /\ ClosingInv /\ ServersInv
  /\ SerialInv /\ PatientInv
----------------------------------------------------------------------------
(* The kinds of requests, and what it is that one moves. *)

LEMMA Kinds ==
  /\ Handled = Prompts \cup Settings \cup Closers
  /\ Loads \cap Handled = {} /\ Prompts \cap (Settings \cup Closers) = {} /\ Settings \cap Closers = {}
  /\ Hangup \notin Closes /\ Hangup \in Closers /\ Closes \subseteq Closers
  /\ Requests = Loads \cup Handled
  /\ None \notin Loads /\ None \notin Prompts
BY AcpSessionAssumption DEF Handled, Requests, Closers

LEMMA MovesTo ==
  ASSUME ShapeInv, NEW q \in Requests, NEW to \in Points, Moves(q, to)
  PROVE  /\ pc' \in [Requests -> Points] /\ pc'[q] = to
         /\ \A s \in Requests : s # q => pc'[s] = pc[s]
BY DEF ShapeInv, Moves

(* A request that is being handled has a record. *)
LEMMA HasRecord ==
  ASSUME ShapeInv, PlaceInv, NEW q \in Handled, pc[q] \notin {"unsent", "refused"}
  PROVE  record[q] \in Loads
<1>1. record[q] \in Loads \cup {None}
  BY DEF ShapeInv
<1>2. record[q] # None
  BY DEF PlaceInv
<1> QED BY <1>1, <1>2

LEMMA Saves ==
  ASSUME ShapeInv, NEW q \in Handled, record[q] \in Loads, NEW exchanges \in Seq(Exchange),
         save_session(q, exchanges)
  PROVE  /\ saving' \in [Loads -> Seq(SaveType)]
         /\ \A l \in Loads : l # record[q] => saving'[l] = saving[l]
         /\ \/ Moves(q, "done") /\ saving' = saving
            \/ /\ Moves(q, "saving")
               /\ saving'[record[q]] = Append(saving[record[q]], [by |-> q, snapshot |-> exchanges])
<1> DEFINE entry == [by |-> q, snapshot |-> exchanges]
<1>1. entry \in SaveType
  BY DEF SaveType
<1>2. CASE exchanges = <<>>
  BY <1>2 DEF save_session, ShapeInv
<1>3. CASE exchanges # <<>>
  <2>1. Moves(q, "saving") /\ saving' = [saving EXCEPT ![record[q]] = Append(saving[record[q]], entry)]
    BY <1>3 DEF save_session
  <2>2. Append(saving[record[q]], entry) \in Seq(SaveType)
    BY <1>1 DEF ShapeInv
  <2> HIDE DEF entry
  <2>3. /\ saving' \in [Loads -> Seq(SaveType)]
        /\ \A l \in Loads : l # record[q] => saving'[l] = saving[l]
        /\ saving'[record[q]] = Append(saving[record[q]], entry)
    BY <2>1, <2>2 DEF ShapeInv
  <2> QED BY <2>1, <2>3 DEF entry
<1> QED BY <1>2, <1>3

(* The save at the head of a record's queue is over. *)
LEMMA SaveEnds ==
  ASSUME ShapeInv, NEW l \in Loads, Save(l)
  PROVE  /\ saving[l] \in Seq(SaveType) /\ saving[l] # <<>>
         /\ saving[l][1] \in SaveType /\ saving[l][1].by \in Handled /\ Moves(saving[l][1].by, "done")
         /\ saving' \in [Loads -> Seq(SaveType)]
         /\ \A m \in Loads : m # l => saving'[m] = saving[m]
         /\ Len(saving'[l]) = Len(saving[l]) - 1 /\ Len(saving[l]) \in Nat \ {0}
         /\ \A n \in 1 .. Len(saving'[l]) : saving'[l][n] = saving[l][n + 1] /\ n + 1 \in 1 .. Len(saving[l])
         /\ store' \in {store, saving[l][1].snapshot} /\ store' \in Seq(Exchange)
<1>1. saving[l] \in Seq(SaveType) /\ saving[l] # <<>>
  BY DEF ShapeInv, Save
<1>2. /\ saving[l][1] \in SaveType /\ Head(saving[l]) = saving[l][1]
      /\ Tail(saving[l]) \in Seq(SaveType) /\ Len(Tail(saving[l])) = Len(saving[l]) - 1
      /\ Len(saving[l]) \in Nat \ {0}
      /\ \A n \in 1 .. Len(Tail(saving[l])) : Tail(saving[l])[n] = saving[l][n + 1] /\ n + 1 \in 1 .. Len(saving[l])
  BY <1>1
<1>3. saving[l][1].by \in Handled /\ saving[l][1].snapshot \in Seq(Exchange)
  BY <1>2 DEF SaveType
<1>4. /\ saving' = [saving EXCEPT ![l] = Tail(saving[l])]
      /\ Moves(Head(saving[l]).by, "done")
      /\ store' \in {store, Head(saving[l]).snapshot}
  BY DEF Save
<1>5. saving'[l] = Tail(saving[l]) /\ saving' \in [Loads -> Seq(SaveType)] /\ \A m \in Loads : m # l => saving'[m] = saving[m]
  BY <1>2, <1>4 DEF ShapeInv
<1> QED BY <1>1, <1>2, <1>3, <1>4, <1>5 DEF ShapeInv

(* A turn that ends has its record's history as it was, or longer by it.   *)
LEMMA TurnEnding ==
  ASSUME ShapeInv, PlaceInv, NEW p \in Prompts, TurnEnds(p)
  PROVE  /\ record[p] \in Loads /\ pc[p] = "running"
         /\ history' \in [Loads -> Seq(Exchange)]
         /\ \A l \in Loads : l # record[p] => history'[l] = history[l]
         /\ history'[record[p]] \in {history[record[p]], Append(history[record[p]], p)}
         /\ \E h \in Seq(Exchange) : h = history'[record[p]] /\ save_session(p, h)
<1>1. p \in Handled /\ pc[p] = "running" /\ record[p] \in Loads
  BY Kinds DEF TurnEnds, PlaceInv, Place, ShapeInv
<1>2. history[record[p]] \in Seq(Exchange) /\ Append(history[record[p]], p) \in Seq(Exchange)
  BY <1>1 DEF ShapeInv, Exchange
<1>3. history' = history \/ history' = [history EXCEPT ![record[p]] = Append(history[record[p]], p)]
  BY DEF TurnEnds
<1>4. /\ history' \in [Loads -> Seq(Exchange)]
      /\ \A l \in Loads : l # record[p] => history'[l] = history[l]
      /\ history'[record[p]] \in {history[record[p]], Append(history[record[p]], p)}
  BY <1>1, <1>2, <1>3 DEF ShapeInv
<1>5. save_session(p, history'[record[p]])
  BY DEF TurnEnds
<1>6. history'[record[p]] \in Seq(Exchange)
  BY <1>1, <1>4
<1> QED BY <1>1, <1>4, <1>5, <1>6

(* What a request is given when it is sent, and a close. *)
LEMMA SessionClosed ==
  ASSUME ShapeInv, NEW c \in Closers, sessions # None, close_session(c)
  PROVE  /\ sessions \in Loads /\ sessions' = None
         /\ record' \in [Handled -> Loads \cup {None}] /\ record'[c] = sessions
         /\ \A q \in Handled : q # c => record'[q] = record[q]
         /\ awaits' \in [Prompts \cup Closers -> Prompts \cup {None}] /\ awaits'[c] = last_turn[sessions]
         /\ \A q \in Prompts \cup Closers : q # c => awaits'[q] = awaits[q]
<1>1. c \in Handled /\ sessions \in Loads
  BY Kinds DEF ShapeInv
<1>2. last_turn[sessions] \in Prompts \cup {None}
  BY <1>1 DEF ShapeInv
<1> QED BY <1>1, <1>2 DEF close_session, ShapeInv

----------------------------------------------------------------------------
(* The types. *)

LEMMA ShapeStep == ShapeInv /\ PlaceInv /\ Next => ShapeInv'
<1> SUFFICES ASSUME ShapeInv, PlaceInv, Next PROVE ShapeInv'
  OBVIOUS
<1> USE Kinds
<1>1. ASSUME NEW l \in Loads, Load(l) PROVE ShapeInv'
  <2>1. pc' \in [Requests -> Points]
    BY <1>1 DEF Load, Moves, ShapeInv, Points
  <2> QED BY <1>1, <2>1 DEF Load, records, ShapeInv
<1>2. ASSUME NEW l \in Loads, ReadsStore(l) PROVE ShapeInv'
  <2>1. pc' \in [Requests -> Points]
    BY <1>2 DEF ReadsStore, Moves, ShapeInv, Points
  <2>2. store \in Seq(Exchange) /\ loaded \in [Loads -> Seq(Exchange)]
    BY DEF ShapeInv
  <2>3. loaded' = [loaded EXCEPT ![l] = store] \/ loaded' = loaded
    BY <1>2 DEF ReadsStore
  <2>4. loaded' \in [Loads -> Seq(Exchange)]
    BY <2>2, <2>3
  <2> QED BY <1>2, <2>1, <2>4 DEF ReadsStore, records, ShapeInv
<1>3. ASSUME NEW l \in Loads, open_session(l) PROVE ShapeInv'
  <2>1. pc' \in [Requests -> Points]
    BY <1>3 DEF open_session, Moves, ShapeInv, Points
  <2>2. mcp' \in [Loads -> {"none", "open", "closed"}] /\ history' \in [Loads -> Seq(Exchange)]
    BY <1>3 DEF open_session, ShapeInv
  <2> QED BY <1>3, <2>1, <2>2 DEF open_session, ShapeInv
<1>4. ASSUME NEW l \in Loads, Save(l) PROVE ShapeInv'
  <2>1. pc' \in [Requests -> Points]
    BY <1>4, SaveEnds, MovesTo DEF Points
  <2> QED BY <1>4, <2>1, SaveEnds DEF Save, ShapeInv
<1>5. ASSUME NEW p \in Prompts, Prompt(p) PROVE ShapeInv'
  <2>0. \E to \in Points : Moves(p, to)
    BY <1>5 DEF Prompt, Points
  <2>1. pc' \in [Requests -> Points]
    BY <2>0, MovesTo
  <2>2. CASE sessions = None
    BY <1>5, <2>1, <2>2 DEF Prompt, ShapeInv
  <2>3. CASE sessions # None
    <3>1. sessions \in Loads /\ last_turn[sessions] \in Prompts \cup {None} /\ p \in Handled
      BY <2>3 DEF ShapeInv
    <3>2. /\ record' = [record EXCEPT ![p] = sessions]
          /\ awaits' = [awaits EXCEPT ![p] = last_turn[sessions]]
          /\ last_turn' = [last_turn EXCEPT ![sessions] = p]
          /\ cancelled' = cancelled \cup ({last_turn[sessions]} \ {None})
      BY <1>5, <2>3 DEF Prompt, Cancel
    <3> QED BY <1>5, <2>1, <3>1, <3>2 DEF Prompt, ShapeInv
  <2> QED BY <2>2, <2>3
<1>6. ASSUME NEW p \in Prompts, run_turn(p) PROVE ShapeInv'
  <2>1. pc' \in [Requests -> Points]
    BY <1>6 DEF run_turn, Moves, ShapeInv, Points
  <2> QED BY <1>6, <2>1 DEF run_turn, records, ShapeInv
<1>7. ASSUME NEW p \in Prompts, InputThrows(p) PROVE ShapeInv'
  <2>1. pc' \in [Requests -> Points] /\ saving' \in [Loads -> Seq(SaveType)]
    <3>1. p \in Handled /\ record[p] \in Loads /\ history[record[p]] \in Seq(Exchange)
      BY <1>7 DEF InputThrows, PlaceInv, ShapeInv
    <3> QED BY <1>7, <3>1, Saves, MovesTo DEF InputThrows, Points
  <2> QED BY <1>7, <2>1 DEF InputThrows, ShapeInv
<1>8. ASSUME NEW p \in Prompts, TurnEnds(p) PROVE ShapeInv'
  <2>1. PICK h \in Seq(Exchange) : h = history'[record[p]] /\ save_session(p, h)
    BY <1>8, TurnEnding
  <2>2. p \in Handled /\ record[p] \in Loads /\ history' \in [Loads -> Seq(Exchange)]
    BY <1>8, TurnEnding
  <2>3. pc' \in [Requests -> Points] /\ saving' \in [Loads -> Seq(SaveType)]
    BY <2>1, <2>2, Saves, MovesTo DEF Points
  <2> QED BY <1>8, <2>2, <2>3 DEF TurnEnds, ShapeInv
<1>9. ASSUME NEW s \in Settings, Set(s) PROVE ShapeInv'
  <2>1. pc' \in [Requests -> Points]
    BY <1>9 DEF Set, Moves, ShapeInv, Points
  <2>2. record' \in [Handled -> Loads \cup {None}]
    BY <1>9 DEF Set, ShapeInv
  <2> QED BY <1>9, <2>1, <2>2 DEF Set, records, ShapeInv
<1>10. ASSUME NEW s \in Settings, SetSaves(s) PROVE ShapeInv'
  <2>1. pc' \in [Requests -> Points] /\ saving' \in [Loads -> Seq(SaveType)]
    <3>1. s \in Handled /\ record[s] \in Loads /\ history[record[s]] \in Seq(Exchange)
      BY <1>10 DEF SetSaves, PlaceInv, ShapeInv
    <3> QED BY <1>10, <3>1, Saves, MovesTo DEF SetSaves, Points
  <2> QED BY <1>10, <2>1 DEF SetSaves, ShapeInv
<1>11. ASSUME NEW c \in Closes, Close(c) PROVE ShapeInv'
  <2>0. \E to \in Points : Moves(c, to)
    BY <1>11 DEF Close, Points
  <2>1. pc' \in [Requests -> Points]
    BY <2>0, MovesTo
  <2>2. CASE sessions = None
    BY <1>11, <2>1, <2>2 DEF Close, records, ShapeInv
  <2>3. CASE sessions # None
    <3>1. close_session(c) /\ cancelled' = cancelled \cup ({last_turn[sessions]} \ {None})
      BY <1>11, <2>3 DEF Close, Cancel
    <3>2. cancelled' \subseteq Prompts
      BY <2>3, <3>1 DEF ShapeInv
    <3> QED BY <1>11, <2>1, <2>3, <3>1, <3>2, SessionClosed DEF Close, records, ShapeInv
  <2> QED BY <2>2, <2>3
<1>12. ASSUME NEW c \in Closers, ClosesServers(c) PROVE ShapeInv'
  <2>1. pc' \in [Requests -> Points]
    BY <1>12 DEF ClosesServers, Moves, ShapeInv, Points
  <2>2. mcp' \in [Loads -> {"none", "open", "closed"}]
    BY <1>12 DEF ClosesServers, ShapeInv
  <2> QED BY <1>12, <2>1, <2>2 DEF ClosesServers, ShapeInv
<1>13. ASSUME CancelTurn PROVE ShapeInv'
  <2>1. cancelled' \subseteq Prompts
    BY <1>13 DEF CancelTurn, Cancel, ShapeInv
  <2> QED BY <1>13, <2>1 DEF CancelTurn, records, ShapeInv
<1>14. ASSUME Disconnect PROVE ShapeInv'
  <2>1. cancelled' \subseteq Prompts
    BY <1>14 DEF Disconnect, Cancel, ShapeInv
  <2>2. CASE sessions = None
    BY <1>14, <2>1, <2>2 DEF Disconnect, records, ShapeInv
  <2>3. CASE sessions # None
    <3>1. close_session(Hangup) /\ Moves(Hangup, "closing")
      BY <1>14, <2>3 DEF Disconnect
    <3>2. pc' \in [Requests -> Points]
      BY <3>1, MovesTo DEF Points
    <3> QED BY <1>14, <2>1, <2>3, <3>1, <3>2, SessionClosed DEF Disconnect, records, ShapeInv
  <2> QED BY <2>2, <2>3
<1> QED BY <1>1, <1>2, <1>3, <1>4, <1>5, <1>6, <1>7, <1>8, <1>9, <1>10, <1>11, <1>12, <1>13, <1>14 DEF Next, Handles


----------------------------------------------------------------------------
(* Where the requests are. *)

LEMMA PlaceMoves ==
  ASSUME ShapeInv, PlaceInv, NEW q \in Requests, NEW to \in Points, Moves(q, to), Place(q, to),
         record' = record, sessions' = sessions,
         q \in Handled => (record[q] = None <=> to \in {"unsent", "refused"}),
         q \in Loads /\ pc[q] = "done" => to = "done"
  PROVE  PlaceInv'
<1>1. pc'[q] = to /\ \A s \in Requests : s # q => pc'[s] = pc[s]
  BY MovesTo
<1>2. \A s \in Requests : Place(s, pc[s])'
  BY <1>1 DEF PlaceInv, Place
<1>3. \A s \in Handled : record'[s] = None <=> pc'[s] \in {"unsent", "refused"}
  BY <1>1, Kinds DEF PlaceInv
<1>4. \A l \in Loads : pc[l] = "done" => pc'[l] = "done"
  BY <1>1, Kinds
<1>5. \A s \in Handled : record[s] # None => record[s] \in Loads /\ pc[record[s]] = "done"
  BY DEF PlaceInv, ShapeInv
<1>6. \A s \in Handled : record'[s] # None => pc'[record'[s]] = "done"
  BY <1>4, <1>5
<1>7. sessions' # None => pc'[sessions'] = "done"
  BY <1>4 DEF PlaceInv, ShapeInv
<1> QED BY <1>2, <1>3, <1>6, <1>7 DEF PlaceInv

(* A request that is given the record of the map, or nothing. *)
LEMMA PlaceGiven ==
  ASSUME ShapeInv, PlaceInv, NEW q \in Handled, NEW to \in Points, Moves(q, to), Place(q, to),
         sessions' \in {sessions, None},
         \A s \in Handled : s # q => record'[s] = record[s],
         record'[q] \in {sessions, None}, record'[q] = None <=> to \in {"unsent", "refused"}
  PROVE  PlaceInv'
<1>1. q \in Requests /\ pc'[q] = to /\ \A s \in Requests : s # q => pc'[s] = pc[s]
  BY MovesTo, Kinds
<1>2. \A s \in Requests : Place(s, pc[s])'
  BY <1>1 DEF PlaceInv, Place
<1>3. \A s \in Handled : record'[s] = None <=> pc'[s] \in {"unsent", "refused"}
  BY <1>1, Kinds DEF PlaceInv
<1>4. \A l \in Loads : pc'[l] = pc[l]
  BY <1>1, Kinds
<1>5. \A s \in Handled : record[s] # None => record[s] \in Loads /\ pc[record[s]] = "done"
  BY DEF PlaceInv, ShapeInv
<1>6. sessions # None => sessions \in Loads /\ pc[sessions] = "done"
  BY DEF PlaceInv, ShapeInv
<1>7. \A s \in Handled : record'[s] \in {record[s], sessions, None}
  OBVIOUS
<1>8. ASSUME NEW s \in Handled, record'[s] # None PROVE pc'[record'[s]] = "done"
  <2>1. CASE record'[s] = record[s]
    BY <1>4, <1>5, <1>8, <2>1
  <2>2. CASE record'[s] = sessions
    BY <1>4, <1>6, <1>8, <2>2
  <2> QED BY <1>7, <1>8, <2>1, <2>2
<1>9. sessions' # None => pc'[sessions'] = "done"
  BY <1>4, <1>6
<1> QED BY <1>2, <1>3, <1>8, <1>9 DEF PlaceInv

LEMMA PlaceStep == ShapeInv /\ PlaceInv /\ SavingInv /\ Next => PlaceInv'
<1> SUFFICES ASSUME ShapeInv, PlaceInv, SavingInv, Next PROVE PlaceInv'
  OBVIOUS
<1> USE Kinds
<1>1. ASSUME NEW l \in Loads, Load(l) PROVE PlaceInv'
  <2>1. PICK to \in {"done", "loading"} : Moves(l, to)
    BY <1>1 DEF Load
  <2>2. Place(l, to) /\ pc[l] # "done" /\ to \in Points /\ record' = record /\ sessions' = sessions
    BY <1>1 DEF Place, Points, Load, MaySend
  <2> QED BY <2>1, <2>2, PlaceMoves
<1>2. ASSUME NEW l \in Loads, ReadsStore(l) PROVE PlaceInv'
  <2>1. PICK to \in {"opening", "refused"} : Moves(l, to)
    BY <1>2 DEF ReadsStore
  <2>2. Place(l, to) /\ pc[l] # "done" /\ to \in Points /\ record' = record /\ sessions' = sessions
    BY <1>2 DEF Place, Points, ReadsStore
  <2> QED BY <2>1, <2>2, PlaceMoves
<1>3. ASSUME NEW l \in Loads, open_session(l) PROVE PlaceInv'
  <2>1. PICK to \in {"done", "refused"} : Moves(l, to) /\ (sessions' = sessions \/ (sessions' = l /\ to = "done"))
    BY <1>3 DEF open_session
  <2>2. Place(l, to) /\ pc[l] = "opening" /\ to \in Points /\ record' = record
    BY <1>3 DEF Place, Points, open_session
  <2>3. pc'[l] = to /\ \A s \in Requests : s # l => pc'[s] = pc[s]
    BY <2>1, <2>2, MovesTo
  <2>4. \A s \in Requests : Place(s, pc[s])'
    BY <2>2, <2>3 DEF PlaceInv, Place
  <2>5. \A s \in Handled : record'[s] = None <=> pc'[s] \in {"unsent", "refused"}
    BY <2>2, <2>3 DEF PlaceInv
  <2>6. ASSUME NEW s \in Handled, record'[s] # None PROVE pc'[record'[s]] = "done"
    <3>1. record'[s] = record[s] /\ record[s] \in Loads /\ pc[record[s]] = "done"
      BY <2>2, <2>6 DEF PlaceInv, ShapeInv
    <3> QED BY <2>2, <2>3, <3>1
  <2>7. sessions' # None => pc'[sessions'] = "done"
    BY <2>1, <2>2, <2>3 DEF PlaceInv, ShapeInv
  <2> QED BY <2>4, <2>5, <2>6, <2>7 DEF PlaceInv
<1>4. ASSUME NEW l \in Loads, Save(l) PROVE PlaceInv'
  <2> DEFINE q == saving[l][1].by
  <2>1. q \in Handled /\ Moves(q, "done") /\ 1 \in 1 .. Len(saving[l])
    BY <1>4, SaveEnds
  <2>2. pc[q] = "saving" /\ record' = record /\ sessions' = sessions
    BY <1>4, <2>1 DEF Save, SavingInv
  <2> HIDE DEF q
  <2>3. Place(q, "done") /\ "done" \in Points /\ record[q] # None /\ q \in Requests
    BY <2>1, <2>2 DEF PlaceInv, Place, Points
  <2> QED BY <2>1, <2>2, <2>3, PlaceMoves
<1>5. ASSUME NEW p \in Prompts, Prompt(p) PROVE PlaceInv'
  <2>0. pc[p] = "unsent" /\ p \in Handled /\ sessions' = sessions /\ record[p] = None
    BY <1>5 DEF Prompt, MaySend, PlaceInv
  <2>1. CASE sessions = None
    <3>1. Moves(p, "refused") /\ record' = record
      BY <1>5, <2>1 DEF Prompt
    <3> QED BY <2>0, <2>1, <3>1, PlaceMoves DEF Place, Points
  <2>2. CASE sessions # None
    <3>1. PICK to \in {"running", "waiting"} : Moves(p, to)
      BY <1>5, <2>2 DEF Prompt
    <3>2. record' = [record EXCEPT ![p] = sessions]
      BY <1>5, <2>2 DEF Prompt
    <3>3. record'[p] = sessions /\ \A s \in Handled : s # p => record'[s] = record[s]
      BY <2>0, <3>2 DEF ShapeInv
    <3>4. Place(p, to) /\ to \in Points
      BY DEF Place, Points
    <3> QED BY <2>0, <2>2, <3>1, <3>3, <3>4, PlaceGiven
  <2> QED BY <2>1, <2>2
<1>6. ASSUME NEW p \in Prompts, run_turn(p) PROVE PlaceInv'
  <2>1. Moves(p, "running") /\ pc[p] = "waiting" /\ record' = record /\ sessions' = sessions /\ p \in Handled
    BY <1>6 DEF run_turn
  <2>2. Place(p, "running") /\ "running" \in Points /\ record[p] # None
    BY <2>1 DEF Place, Points, PlaceInv
  <2> QED BY <2>1, <2>2, PlaceMoves
<1>7. ASSUME NEW q \in Prompts \cup Settings, pc[q] \in {"waiting", "running", "sending"},
             NEW exchanges \in Seq(Exchange), save_session(q, exchanges), record' = record, sessions' = sessions
      PROVE  PlaceInv'
  <2>1. q \in Handled /\ record[q] # None /\ record[q] \in Loads
    BY <1>7 DEF PlaceInv, ShapeInv
  <2>2. PICK to \in {"saving", "done"} : Moves(q, to)
    BY <1>7, <2>1, Saves
  <2>3. Place(q, to) /\ to \in Points
    BY DEF Place, Points
  <2> QED BY <1>7, <2>1, <2>2, <2>3, PlaceMoves
<1>8. ASSUME NEW p \in Prompts, InputThrows(p) PROVE PlaceInv'
  <2>1. pc[p] = "waiting" /\ save_session(p, history[record[p]]) /\ record' = record /\ sessions' = sessions
    BY <1>8 DEF InputThrows
  <2>2. history[record[p]] \in Seq(Exchange)
    BY <2>1 DEF PlaceInv, ShapeInv
  <2> QED BY <2>1, <2>2, <1>7
<1>9. ASSUME NEW p \in Prompts, TurnEnds(p) PROVE PlaceInv'
  <2>1. PICK h \in Seq(Exchange) : save_session(p, h)
    BY <1>9, TurnEnding
  <2>2. pc[p] = "running" /\ record' = record /\ sessions' = sessions
    BY <1>9 DEF TurnEnds
  <2> QED BY <2>1, <2>2, <1>7
<1>10. ASSUME NEW s \in Settings, Set(s) PROVE PlaceInv'
  <2>1. PICK to \in {"refused", "sending"} : Moves(s, to) /\ (to = "refused" <=> sessions = None)
    BY <1>10 DEF Set
  <2>2. s \in Handled /\ sessions' = sessions /\ record' = [record EXCEPT ![s] = sessions]
    BY <1>10 DEF Set
  <2>3. record'[s] = sessions /\ \A q \in Handled : q # s => record'[q] = record[q]
    BY <2>2 DEF ShapeInv
  <2>4. Place(s, to) /\ to \in Points
    BY DEF Place, Points
  <2> QED BY <2>1, <2>2, <2>3, <2>4, PlaceGiven
<1>11. ASSUME NEW s \in Settings, SetSaves(s) PROVE PlaceInv'
  <2>1. pc[s] = "sending" /\ save_session(s, history[record[s]]) /\ record' = record /\ sessions' = sessions
    BY <1>11 DEF SetSaves
  <2>2. history[record[s]] \in Seq(Exchange)
    BY <2>1 DEF PlaceInv, ShapeInv
  <2> QED BY <2>1, <2>2, <1>7
<1>12. ASSUME NEW c \in Closers, Moves(c, "closing"), sessions # None, close_session(c) PROVE PlaceInv'
  <2>1. Place(c, "closing") /\ "closing" \in Points /\ c \in Handled
    BY DEF Place, Points
  <2> QED BY <1>12, <2>1, PlaceGiven, SessionClosed
<1>13. ASSUME NEW c \in Closes, Close(c) PROVE PlaceInv'
  <2>1. CASE sessions = None
    <3>1. Moves(c, "refused") /\ record' = record /\ sessions' = sessions /\ pc[c] = "unsent" /\ c \in Handled
      BY <1>13, <2>1 DEF Close, MaySend
    <3>2. Place(c, "refused") /\ "refused" \in Points /\ record[c] = None
      BY <3>1 DEF Place, Points, PlaceInv
    <3> QED BY <3>1, <3>2, PlaceMoves
  <2>2. CASE sessions # None
    BY <1>12, <1>13, <2>2 DEF Close
  <2> QED BY <2>1, <2>2
<1>14. ASSUME NEW c \in Closers, ClosesServers(c) PROVE PlaceInv'
  <2>1. Moves(c, "done") /\ pc[c] = "closing" /\ record' = record /\ sessions' = sessions /\ c \in Handled
    BY <1>14 DEF ClosesServers
  <2>2. Place(c, "done") /\ "done" \in Points /\ record[c] # None
    BY <2>1 DEF Place, Points, PlaceInv
  <2> QED BY <2>1, <2>2, PlaceMoves
<1>15. ASSUME CancelTurn PROVE PlaceInv'
  BY <1>15 DEF CancelTurn, PlaceInv, Place
<1>16. ASSUME Disconnect PROVE PlaceInv'
  <2>1. CASE sessions = None
    BY <1>16, <2>1 DEF Disconnect, PlaceInv, Place
  <2>2. CASE sessions # None
    BY <1>12, <1>16, <2>2 DEF Disconnect
  <2> QED BY <2>1, <2>2
<1> QED BY <1>1, <1>2, <1>3, <1>4, <1>5, <1>6, <1>8, <1>9, <1>10, <1>11, <1>13, <1>14, <1>15, <1>16 DEF Next, Handles

----------------------------------------------------------------------------
(* The saves that are queued. *)

LEMMA SavingKept ==
  ASSUME ShapeInv, SavingInv, saving' = saving,
         \A q \in Handled : pc[q] = "saving" => pc'[q] = "saving" /\ record'[q] = record[q]
  PROVE  SavingInv'
<1>1. ASSUME NEW l \in Loads, NEW n \in 1 .. Len(saving[l]) PROVE saving[l][n].by \in Handled
  <2>1. saving[l] \in Seq(SaveType)
    BY DEF ShapeInv
  <2>2. saving[l][n] \in SaveType
    BY <2>1
  <2> QED BY <2>2 DEF SaveType
<1> QED BY <1>1 DEF SavingInv

LEMMA SavingStarts ==
  ASSUME ShapeInv, PlaceInv, SavingInv, NEW q \in Handled, record[q] \in Loads, pc[q] # "saving",
         NEW exchanges \in Seq(Exchange), save_session(q, exchanges), record' = record
  PROVE  SavingInv'
<1> q \in Requests
  BY Kinds
<1>1. CASE Moves(q, "done") /\ saving' = saving
  <2>1. \A s \in Requests : s # q => pc'[s] = pc[s]
    BY <1>1, MovesTo DEF Points
  <2> QED BY <1>1, <2>1, SavingKept, Kinds
<1>2. CASE /\ Moves(q, "saving")
           /\ saving'[record[q]] = Append(saving[record[q]], [by |-> q, snapshot |-> exchanges])
  <2> DEFINE l == record[q]
  <2>0. pc'[q] = "saving" /\ \A s \in Requests : s # q => pc'[s] = pc[s]
    BY <1>2, MovesTo DEF Points
  <2>1. \A m \in Loads : m # l => saving'[m] = saving[m]
    BY Saves
  <2>2. \A m \in Loads : \A n \in 1 .. Len(saving[m]) :
          /\ saving[m][n].by \in Requests /\ saving[m][n].by # q
          /\ pc'[saving[m][n].by] = "saving" /\ record'[saving[m][n].by] = m
    <3>1. ASSUME NEW m \in Loads, NEW n \in 1 .. Len(saving[m]) PROVE saving[m][n].by \in Requests
      <4>1. saving[m] \in Seq(SaveType)
        BY DEF ShapeInv
      <4>2. saving[m][n] \in SaveType
        BY <4>1
      <4> QED BY <4>2, Kinds DEF SaveType
    <3> QED BY <3>1, <2>0 DEF SavingInv
  <2>3. saving[l] \in Seq(SaveType) /\ Len(saving[l]) \in Nat
    BY DEF ShapeInv
  <2>4. /\ Len(saving'[l]) = Len(saving[l]) + 1
        /\ \A n \in 1 .. Len(saving[l]) : saving'[l][n] = saving[l][n]
        /\ saving'[l][Len(saving[l]) + 1].by = q
    <3> DEFINE entry == [by |-> q, snapshot |-> exchanges]
    <3>1. saving'[l] = Append(saving[l], entry) /\ entry.by = q
      BY <1>2
    <3> HIDE DEF entry, l
    <3> QED BY <2>3, <3>1
  <2> HIDE DEF l
  <2>5. ASSUME NEW m \in Loads, NEW n \in 1 .. Len(saving'[m])
        PROVE  pc'[saving'[m][n].by] = "saving" /\ record'[saving'[m][n].by] = m
    <3>1. CASE m # l
      BY <2>1, <2>2, <2>5, <3>1
    <3>2. CASE m = l /\ n = Len(saving[l]) + 1
      BY <2>0, <2>4, <3>2 DEF l
    <3>3. CASE m = l /\ n # Len(saving[l]) + 1
      <4>1. n \in 1 .. Len(saving[l])
        BY <2>3, <2>4, <2>5, <3>3
      <4> QED BY <2>2, <2>4, <3>3, <4>1
    <3> QED BY <3>1, <3>2, <3>3
  <2>6. ASSUME NEW m \in Loads, NEW i \in 1 .. Len(saving'[m]), NEW n \in 1 .. Len(saving'[m]),
               saving'[m][i].by = saving'[m][n].by
        PROVE  i = n
    <3>1. CASE m # l
      BY <2>1, <2>6, <3>1 DEF SavingInv
    <3>2. CASE m = l
      <4>1. \A k \in 1 .. Len(saving'[l]) : k = Len(saving[l]) + 1 \/ k \in 1 .. Len(saving[l])
        BY <2>3, <2>4
      <4>2. ASSUME i \in 1 .. Len(saving[l]), n \in 1 .. Len(saving[l]) PROVE i = n
        <5>1. saving[l][i].by = saving[l][n].by
          BY <2>4, <2>6, <3>2, <4>2
        <5> QED BY <3>2, <4>2, <5>1 DEF SavingInv
      <4>3. \A k \in 1 .. Len(saving[l]) : saving'[l][k].by # q
        BY <2>2, <2>4, <3>2
      <4>4. saving'[l][i].by = saving'[l][n].by
        BY <2>6, <3>2
      <4>5. (i = Len(saving[l]) + 1) <=> (n = Len(saving[l]) + 1)
        BY <2>4, <2>6, <3>2, <4>1, <4>3, <4>4
      <4> QED BY <2>6, <3>2, <4>1, <4>2, <4>5
    <3> QED BY <3>1, <3>2
  <2> QED BY <2>5, <2>6 DEF SavingInv
<1> QED BY <1>1, <1>2, Saves

LEMMA SavingEnds ==
  ASSUME ShapeInv, SavingInv, NEW l \in Loads, Save(l)
  PROVE  SavingInv'
<1> DEFINE q == saving[l][1].by
<1>0. record' = record
  BY DEF Save
<1>1. /\ q \in Requests /\ Moves(q, "done") /\ 1 \in 1 .. Len(saving[l]) /\ record' = record
      /\ \A m \in Loads : m # l => saving'[m] = saving[m]
      /\ Len(saving'[l]) = Len(saving[l]) - 1 /\ Len(saving[l]) \in Nat \ {0}
      /\ \A n \in 1 .. Len(saving'[l]) : saving'[l][n] = saving[l][n + 1] /\ n + 1 \in 1 .. Len(saving[l])
  BY <1>0, SaveEnds, Kinds
<1>2. record[q] = l /\ \A n \in 1 .. Len(saving[l]) : saving[l][n].by = q => n = 1
  BY <1>1 DEF SavingInv
<1> HIDE DEF q
<1>3. \A s \in Requests : s # q => pc'[s] = pc[s]
  BY <1>1, MovesTo DEF Points
<1>4. ASSUME NEW m \in Loads, NEW n \in 1 .. Len(saving[m]), saving[m][n].by # q
      PROVE  pc'[saving[m][n].by] = "saving" /\ record'[saving[m][n].by] = m
  <2>1. saving[m] \in Seq(SaveType)
    BY DEF ShapeInv
  <2>2. saving[m][n] \in SaveType
    BY <2>1
  <2>3. saving[m][n].by \in Requests
    BY <2>2, Kinds DEF SaveType
  <2> QED BY <1>1, <1>3, <1>4, <2>3 DEF SavingInv
<1>5. ASSUME NEW m \in Loads, NEW n \in 1 .. Len(saving'[m])
      PROVE  pc'[saving'[m][n].by] = "saving" /\ record'[saving'[m][n].by] = m
  <2>1. CASE m # l
    <3>1. n \in 1 .. Len(saving[m]) /\ saving'[m][n] = saving[m][n]
      BY <1>1, <1>5, <2>1
    <3>2. record[saving[m][n].by] = m
      BY <3>1 DEF SavingInv
    <3> QED BY <1>2, <1>4, <2>1, <3>1, <3>2
  <2>2. CASE m = l
    <3>1. n + 1 \in 1 .. Len(saving[l]) /\ saving'[l][n] = saving[l][n + 1] /\ n + 1 # 1
      BY <1>1, <1>5, <2>2
    <3> QED BY <1>2, <1>4, <2>2, <3>1
  <2> QED BY <2>1, <2>2
<1>6. ASSUME NEW m \in Loads, NEW i \in 1 .. Len(saving'[m]), NEW n \in 1 .. Len(saving'[m]),
             saving'[m][i].by = saving'[m][n].by
      PROVE  i = n
  <2>1. CASE m # l
    BY <1>1, <1>6, <2>1 DEF SavingInv
  <2>2. CASE m = l
    <3>1. i + 1 \in 1 .. Len(saving[l]) /\ n + 1 \in 1 .. Len(saving[l]) /\ saving[l][i + 1].by = saving[l][n + 1].by
      BY <1>1, <1>6, <2>2
    <3>2. i + 1 = n + 1
      BY <3>1 DEF SavingInv
    <3> QED BY <1>1, <1>6, <2>2, <3>2
  <2> QED BY <2>1, <2>2
<1> QED BY <1>5, <1>6 DEF SavingInv

LEMMA SavingStep == ShapeInv /\ PlaceInv /\ SavingInv /\ Next => SavingInv'
<1> SUFFICES ASSUME ShapeInv, PlaceInv, SavingInv, Next PROVE SavingInv'
  OBVIOUS
<1> USE Kinds
<1>1. ASSUME NEW q \in Requests, NEW to \in Points, Moves(q, to), pc[q] # "saving", saving' = saving,
             \A s \in Handled : s # q => record'[s] = record[s]
      PROVE  SavingInv'
  BY <1>1, MovesTo, SavingKept
<1>2. ASSUME NEW l \in Loads, Load(l) \/ ReadsStore(l) \/ open_session(l) PROVE SavingInv'
  <2>1. \E to \in Points : Moves(l, to)
    BY <1>2 DEF Load, ReadsStore, open_session, Points
  <2>2. pc[l] # "saving" /\ record' = record /\ saving' = saving
    BY <1>2 DEF Load, ReadsStore, open_session, records, MaySend
  <2> QED BY <1>1, <2>1, <2>2
<1>3. ASSUME NEW l \in Loads, Save(l) PROVE SavingInv'
  BY <1>3, SavingEnds
<1>4. ASSUME NEW p \in Prompts, Prompt(p) PROVE SavingInv'
  <2>1. \E to \in Points : Moves(p, to)
    BY <1>4 DEF Prompt, Points
  <2>2. pc[p] # "saving" /\ saving' = saving /\ \A s \in Handled : s # p => record'[s] = record[s]
    BY <1>4 DEF Prompt, MaySend, ShapeInv
  <2> QED BY <1>1, <2>1, <2>2
<1>5. ASSUME NEW p \in Prompts, run_turn(p) PROVE SavingInv'
  BY <1>5, <1>1 DEF run_turn, records, Points
<1>6. ASSUME NEW p \in Prompts, InputThrows(p) PROVE SavingInv'
  <2>1. pc[p] = "waiting" /\ save_session(p, history[record[p]]) /\ record' = record
    BY <1>6 DEF InputThrows
  <2>2. record[p] \in Loads /\ history[record[p]] \in Seq(Exchange)
    BY <2>1 DEF PlaceInv, ShapeInv
  <2> QED BY <2>1, <2>2, SavingStarts
<1>7. ASSUME NEW p \in Prompts, TurnEnds(p) PROVE SavingInv'
  <2>1. PICK h \in Seq(Exchange) : save_session(p, h)
    BY <1>7, TurnEnding
  <2>2. pc[p] = "running" /\ record' = record /\ record[p] \in Loads
    BY <1>7, TurnEnding DEF TurnEnds
  <2> QED BY <2>1, <2>2, SavingStarts
<1>8. ASSUME NEW s \in Settings, Set(s) PROVE SavingInv'
  <2>1. \E to \in Points : Moves(s, to)
    BY <1>8 DEF Set, Points
  <2>2. pc[s] # "saving" /\ saving' = saving /\ \A q \in Handled : q # s => record'[q] = record[q]
    BY <1>8 DEF Set, MaySend, records, ShapeInv
  <2> QED BY <1>1, <2>1, <2>2
<1>9. ASSUME NEW s \in Settings, SetSaves(s) PROVE SavingInv'
  <2>1. pc[s] = "sending" /\ save_session(s, history[record[s]]) /\ record' = record
    BY <1>9 DEF SetSaves
  <2>2. record[s] \in Loads /\ history[record[s]] \in Seq(Exchange)
    BY <2>1 DEF PlaceInv, ShapeInv
  <2> QED BY <2>1, <2>2, SavingStarts
<1>10. ASSUME NEW c \in Closes, Close(c) PROVE SavingInv'
  <2>1. \E to \in Points : Moves(c, to)
    BY <1>10 DEF Close, Points
  <2>2. pc[c] # "saving" /\ saving' = saving /\ \A q \in Handled : q # c => record'[q] = record[q]
    BY <1>10, SessionClosed DEF Close, MaySend, records
  <2> QED BY <1>1, <2>1, <2>2
<1>11. ASSUME NEW c \in Closers, ClosesServers(c) PROVE SavingInv'
  BY <1>11, <1>1 DEF ClosesServers, Points
<1>12. ASSUME CancelTurn PROVE SavingInv'
  BY <1>12, SavingKept DEF CancelTurn, records
<1>13. ASSUME Disconnect PROVE SavingInv'
  <2>1. CASE sessions = None
    BY <1>13, <2>1, SavingKept DEF Disconnect, records
  <2>2. CASE sessions # None
    <3>1. Moves(Hangup, "closing") /\ close_session(Hangup) /\ saving' = saving
      BY <1>13, <2>2 DEF Disconnect, records
    <3>2. pc[Hangup] # "saving" /\ "closing" \in Points
      BY DEF PlaceInv, Place, Points
    <3>3. \A q \in Handled : q # Hangup => record'[q] = record[q]
      BY <2>2, <3>1, SessionClosed
    <3> QED BY <1>1, <3>1, <3>2, <3>3
  <2> QED BY <2>1, <2>2
<1> QED BY <1>2, <1>3, <1>4, <1>5, <1>6, <1>7, <1>8, <1>9, <1>10, <1>11, <1>12, <1>13 DEF Next, Handles

----------------------------------------------------------------------------
(* The turns of each record. *)

LEMMA RequestsOf == Prompts \subseteq Handled /\ Prompts \subseteq Requests /\ Closers \subseteq Handled /\ Closers \subseteq Requests
BY Kinds

(* When the turn that was prompted last has settled, all have.             *)
LEMMA AllSettled ==
  ASSUME ShapeInv, TurnsInv, NEW l \in Loads, Settled(last_turn[l]), NEW p \in Prompts, record[p] = l
  PROVE  ~Unsettled(p)
<1>1. PICK k \in Nat : \E rank \in [Prompts -> 0 .. k] : Ordered(rank)
  BY DEF TurnsInv
<1>2. PICK rank \in [Prompts -> 0 .. k] : Ordered(rank)
  BY <1>1
<1> DEFINE t == last_turn[l]
<1>3. t \in Prompts \cup {None}
  BY DEF ShapeInv
<1>4. record[p] # None /\ record[p] = l
  BY Kinds
<1>5. t # None /\ rank[p] <= rank[t]
  BY <1>2, <1>4 DEF Ordered
<1>6. t \in Prompts /\ record[t] = l /\ pc[t] \in {"saving", "done"}
  BY <1>2, <1>3, <1>5 DEF Ordered, Settled
<1> HIDE DEF t
<1>7. rank[p] = rank[t] => p = t
  BY <1>2, <1>4, <1>6 DEF Ordered
<1>8. rank[p] < rank[t] /\ Unsettled(p) => pc[t] = "waiting"
  BY <1>2, <1>4, <1>6 DEF Ordered
<1>9. rank[p] \in Int /\ rank[t] \in Int
  BY <1>2, <1>6
<1> QED BY <1>5, <1>6, <1>7, <1>8, <1>9 DEF Unsettled

LEMMA TurnsKept ==
  ASSUME ShapeInv, TurnsInv, last_turn' = last_turn,
         \A p \in Prompts : record'[p] = record[p] /\ awaits'[p] = awaits[p],
         \A p \in Prompts : Unsettled(p)' => Unsettled(p),
         \A p \in Prompts : pc[p] = "waiting" => pc'[p] = "waiting" \/ Settled(awaits[p])
  PROVE  TurnsInv'
<1>1. PICK k \in Nat : \E rank \in [Prompts -> 0 .. k] : Ordered(rank)
  BY DEF TurnsInv
<1>2. PICK rank \in [Prompts -> 0 .. k] : Ordered(rank)
  BY <1>1
<1>3. ASSUME NEW l \in Loads, last_turn'[l] # None PROVE record'[last_turn'[l]] = l
  <2>1. last_turn[l] \in Prompts
    BY <1>3 DEF ShapeInv
  <2> QED BY <1>2, <1>3, <2>1 DEF Ordered
<1>4. ASSUME NEW p \in Prompts, NEW q \in Prompts, record'[p] # None, record'[q] = record'[p]
      PROVE  /\ rank[p] = rank[q] => p = q
             /\ rank[q] < rank[p] =>
                  /\ awaits'[p] # None /\ record'[awaits'[p]] = record'[p]
                  /\ rank[q] <= rank[awaits'[p]] /\ rank[awaits'[p]] < rank[p]
             /\ last_turn'[record'[p]] # None /\ rank[p] <= rank[last_turn'[record'[p]]]
  <2>1. record[p] # None /\ record[q] = record[p] /\ record'[p] = record[p] /\ awaits'[p] = awaits[p]
    BY <1>4
  <2>2. awaits[p] \in Prompts \cup {None}
    BY DEF ShapeInv
  <2>3. rank[q] < rank[p] => awaits[p] # None /\ record[awaits[p]] = record[p] /\ rank[q] <= rank[awaits[p]] /\ rank[awaits[p]] < rank[p]
    BY <1>2, <2>1 DEF Ordered
  <2>4. rank[q] < rank[p] => record'[awaits[p]] = record[p]
    BY <2>2, <2>3
  <2>5. (rank[p] = rank[q] => p = q) /\ last_turn[record[p]] # None /\ rank[p] <= rank[last_turn[record[p]]]
    BY <1>2, <2>1 DEF Ordered
  <2> QED BY <2>1, <2>3, <2>4, <2>5
<1>5. ASSUME NEW p \in Prompts, NEW q \in Prompts, record'[p] # None, record'[q] = record'[p],
             rank[q] < rank[p], Unsettled(q)'
      PROVE  pc'[p] = "waiting"
  <2>1. record[p] # None /\ record[q] = record[p] /\ Unsettled(q)
    BY <1>5
  <2>2. pc[p] = "waiting"
    BY <1>2, <1>5, <2>1 DEF Ordered
  <2> DEFINE a == awaits[p]
  <2>3. /\ a # None /\ record[a] = record[p] /\ rank[q] <= rank[a]
    BY <1>2, <1>5, <2>1 DEF Ordered
  <2>4. a \in Prompts
    BY <2>3 DEF ShapeInv
  <2> HIDE DEF a
  <2>5. rank[q] = rank[a] => q = a
    BY <1>2, <2>1, <2>3, <2>4 DEF Ordered
  <2>6. rank[q] < rank[a] => pc[a] = "waiting"
    BY <1>2, <2>1, <2>3, <2>4 DEF Ordered
  <2>7. rank[q] \in Int /\ rank[a] \in Int
    BY <1>2, <2>4
  <2>8. Unsettled(a)
    BY <2>1, <2>3, <2>5, <2>6, <2>7 DEF Unsettled
  <2>9. ~Settled(awaits[p])
    BY <2>3, <2>8 DEF Settled, Unsettled, a
  <2> QED BY <2>2, <2>9
<1>6. Ordered(rank)'
  BY <1>3, <1>4, <1>5 DEF Ordered
<1> QED BY <1>6 DEF TurnsInv

(* A prompt is given the highest rank.                                     *)
LEMMA TurnsGrow ==
  ASSUME ShapeInv, PlaceInv, TurnsInv, NEW p \in Prompts, Prompt(p), sessions # None
  PROVE  TurnsInv'
<1>1. PICK k \in Nat : \E rank \in [Prompts -> 0 .. k] : Ordered(rank)
  BY DEF TurnsInv
<1>2. PICK rank \in [Prompts -> 0 .. k] : Ordered(rank)
  BY <1>1
<1> DEFINE S == sessions
           previous == last_turn[S]
           new == [rank EXCEPT ![p] = k + 1]
<1>3. /\ S \in Loads /\ S # None /\ pc[p] = "unsent" /\ p \in Handled /\ p \in Requests
      /\ previous \in Prompts \cup {None} /\ record[p] = None
  BY RequestsOf DEF ShapeInv, PlaceInv, Prompt, MaySend
<1>4. /\ record' = [record EXCEPT ![p] = S] /\ awaits' = [awaits EXCEPT ![p] = previous]
      /\ last_turn' = [last_turn EXCEPT ![S] = p]
      /\ Moves(p, IF previous = None THEN "running" ELSE "waiting")
  BY DEF Prompt
<1>5. pc'[p] = (IF previous = None THEN "running" ELSE "waiting") /\ \A q \in Requests : q # p => pc'[q] = pc[q]
  BY <1>3, <1>4, MovesTo DEF Points
<1>6. /\ record'[p] = S /\ awaits'[p] = previous /\ last_turn'[S] = p
      /\ \A q \in Prompts : q # p => record'[q] = record[q] /\ awaits'[q] = awaits[q] /\ pc'[q] = pc[q]
      /\ \A l \in Loads : l # S => last_turn'[l] = last_turn[l]
  BY <1>3, <1>4, <1>5, RequestsOf DEF ShapeInv
<1>7. /\ new \in [Prompts -> 0 .. k + 1] /\ new[p] = k + 1 /\ k + 1 \in Nat
      /\ \A q \in Prompts : q # p => new[q] = rank[q] /\ rank[q] \in 0 .. k
  BY <1>2
<1>8. previous # None => previous \in Prompts /\ record[previous] = S /\ previous # p
  BY <1>2, <1>3 DEF Ordered
<1>9. \A q \in Prompts : record[q] = S => previous # None /\ rank[q] <= rank[previous]
  BY <1>2, <1>3 DEF Ordered
<1> HIDE DEF S, previous, new
<1>10. ASSUME NEW l \in Loads, last_turn'[l] # None PROVE record'[last_turn'[l]] = l
  <2>1. CASE l = S
    BY <1>6, <2>1
  <2>2. CASE l # S
    <3>1. last_turn[l] \in Prompts /\ record[last_turn[l]] = l
      BY <1>2, <1>6, <1>10, <2>2 DEF Ordered, ShapeInv
    <3>2. last_turn[l] # p
      BY <1>3, <3>1, Kinds
    <3> QED BY <1>6, <2>2, <3>1, <3>2
  <2> QED BY <2>1, <2>2
<1>11. ASSUME NEW q \in Prompts, record'[q] = S PROVE new[q] <= k + 1 /\ (q = p \/ new[q] < k + 1)
  BY <1>7
<1>12. ASSUME NEW q \in Prompts, record'[q] = S, new[q] < new[p]
       PROVE  /\ pc'[p] = "waiting"
              /\ awaits'[p] # None /\ record'[awaits'[p]] = S
              /\ new[q] <= new[awaits'[p]] /\ new[awaits'[p]] < new[p]
  <2>1. q # p /\ record[q] = S
    BY <1>6, <1>7, <1>12
  <2>2. previous # None /\ previous # p /\ previous \in Prompts /\ record[previous] = S /\ rank[q] <= rank[previous]
    BY <1>8, <1>9, <2>1
  <2>3. new[q] = rank[q] /\ new[previous] = rank[previous] /\ new[previous] < k + 1
    BY <1>7, <2>1, <2>2
  <2> QED BY <1>5, <1>6, <1>7, <2>2, <2>3
<1>13. ASSUME NEW x \in Prompts, NEW y \in Prompts, x # p, y # p, record'[x] # None, record'[y] = record'[x]
       PROVE  /\ new[x] = new[y] => x = y
              /\ new[y] < new[x] /\ Unsettled(y)' => pc'[x] = "waiting"
              /\ new[y] < new[x] =>
                   /\ awaits'[x] # None /\ record'[awaits'[x]] = record'[x]
                   /\ new[y] <= new[awaits'[x]] /\ new[awaits'[x]] < new[x]
              /\ last_turn'[record'[x]] # None /\ new[x] <= new[last_turn'[record'[x]]]
  <2>1. /\ record[x] # None /\ record[y] = record[x] /\ record'[x] = record[x] /\ awaits'[x] = awaits[x]
        /\ pc'[x] = pc[x] /\ pc'[y] = pc[y] /\ new[x] = rank[x] /\ new[y] = rank[y]
    BY <1>6, <1>7, <1>13
  <2>2. (rank[x] = rank[y] => x = y) /\ (rank[y] < rank[x] /\ Unsettled(y) => pc[x] = "waiting")
    BY <1>2, <2>1 DEF Ordered
  <2>3. rank[y] < rank[x] => /\ awaits[x] # None /\ record[awaits[x]] = record[x]
                             /\ rank[y] <= rank[awaits[x]] /\ rank[awaits[x]] < rank[x]
    BY <1>2, <2>1 DEF Ordered
  <2>4. awaits[x] \in Prompts \cup {None}
    BY DEF ShapeInv
  <2>5. rank[y] < rank[x] => /\ awaits[x] \in Prompts /\ awaits[x] # p
    BY <1>3, <2>1, <2>3, <2>4
  <2>6. rank[y] < rank[x] => record'[awaits[x]] = record[awaits[x]] /\ new[awaits[x]] = rank[awaits[x]]
    BY <1>6, <1>7, <2>5
  <2>7. last_turn[record[x]] # None /\ rank[x] <= rank[last_turn[record[x]]]
    BY <1>2, <2>1 DEF Ordered
  <2>8. record[x] \in Loads
    BY <2>1, RequestsOf DEF ShapeInv
  <2>9. last_turn'[record[x]] # None /\ new[x] <= new[last_turn'[record[x]]]
    <3>1. CASE record[x] = S
      BY <1>6, <1>7, <1>13, <3>1, Kinds
    <3>2. CASE record[x] # S
      <4>1. last_turn[record[x]] \in Prompts /\ record[last_turn[record[x]]] = record[x]
        BY <1>2, <2>7, <2>8 DEF Ordered, ShapeInv
      <4>2. last_turn[record[x]] # p
        BY <1>3, <2>1, <4>1
      <4> QED BY <1>6, <1>7, <2>1, <2>7, <2>8, <3>2, <4>1, <4>2
    <3> QED BY <3>1, <3>2
  <2>10. Unsettled(y)' => Unsettled(y)
    BY <2>1 DEF Unsettled
  <2> QED BY <2>1, <2>2, <2>3, <2>6, <2>9, <2>10
<1>14. ASSUME NEW x \in Prompts, NEW y \in Prompts, record'[x] # None, record'[y] = record'[x]
       PROVE  /\ new[x] = new[y] => x = y
              /\ new[y] < new[x] /\ Unsettled(y)' => pc'[x] = "waiting"
              /\ new[y] < new[x] =>
                   /\ awaits'[x] # None /\ record'[awaits'[x]] = record'[x]
                   /\ new[y] <= new[awaits'[x]] /\ new[awaits'[x]] < new[x]
              /\ last_turn'[record'[x]] # None /\ new[x] <= new[last_turn'[record'[x]]]
  <2>1. CASE x # p /\ y # p
    BY <1>13, <1>14, <2>1
  <2>2. CASE x = p
    <3>1. record'[y] = S /\ record'[x] = S /\ last_turn'[S] = p /\ p # None /\ new[p] \in Nat
      BY <1>6, <1>7, <1>14, <2>2, Kinds
    <3>2. new[p] = new[y] => p = y
      BY <1>7, <1>11, <3>1
    <3> QED BY <1>12, <2>2, <3>1, <3>2
  <2>3. CASE x # p /\ y = p
    <3>1. record'[x] = S /\ last_turn'[S] = p /\ p # None /\ new[x] < new[p] /\ new[x] \in Int /\ new[p] \in Int
      BY <1>6, <1>7, <1>14, <2>3, Kinds
    <3> QED BY <2>3, <3>1
  <2> QED BY <2>1, <2>2, <2>3
<1>15. Ordered(new)'
  BY <1>10, <1>14 DEF Ordered
<1> QED BY <1>7, <1>15 DEF TurnsInv

LEMMA TurnsStep == ShapeInv /\ PlaceInv /\ SavingInv /\ TurnsInv /\ Next => TurnsInv'
<1> SUFFICES ASSUME ShapeInv, PlaceInv, SavingInv, TurnsInv, Next PROVE TurnsInv'
  OBVIOUS
<1> USE RequestsOf
<1>1. ASSUME NEW q \in Requests, NEW to \in Points, Moves(q, to),
             last_turn' = last_turn, \A p \in Prompts : record'[p] = record[p] /\ awaits'[p] = awaits[p],
             q \in Prompts => (to \in {"waiting", "running"} => Unsettled(q)),
             q \in Prompts /\ pc[q] = "waiting" => to = "waiting" \/ Settled(awaits[q])
      PROVE  TurnsInv'
  <2>1. pc'[q] = to /\ \A s \in Requests : s # q => pc'[s] = pc[s]
    BY <1>1, MovesTo
  <2>2. \A p \in Prompts : Unsettled(p)' => Unsettled(p)
    BY <1>1, <2>1 DEF Unsettled
  <2>3. \A p \in Prompts : pc[p] = "waiting" => pc'[p] = "waiting" \/ Settled(awaits[p])
    BY <1>1, <2>1
  <2> QED BY <1>1, <2>2, <2>3, TurnsKept
<1>2. ASSUME NEW l \in Loads, Load(l) \/ ReadsStore(l) \/ open_session(l) PROVE TurnsInv'
  <2>1. \E to \in Points : Moves(l, to)
    BY <1>2 DEF Load, ReadsStore, open_session, Points
  <2>2. l \in Requests /\ l \notin Prompts /\ record' = record /\ awaits' = awaits /\ last_turn' = last_turn
    BY <1>2, Kinds DEF Load, ReadsStore, open_session, records
  <2> QED BY <1>1, <2>1, <2>2
<1>3. ASSUME NEW l \in Loads, Save(l) PROVE TurnsInv'
  <2> DEFINE q == saving[l][1].by
  <2>1. q \in Requests /\ Moves(q, "done") /\ 1 \in 1 .. Len(saving[l])
    BY <1>3, SaveEnds, Kinds
  <2>2. pc[q] = "saving" /\ record' = record /\ awaits' = awaits /\ last_turn' = last_turn
    BY <1>3, <2>1 DEF Save, SavingInv
  <2> HIDE DEF q
  <2> QED BY <1>1, <2>1, <2>2 DEF Points
<1>4. ASSUME NEW p \in Prompts, Prompt(p) PROVE TurnsInv'
  <2>1. CASE sessions = None
    <3>1. Moves(p, "refused") /\ record' = record /\ awaits' = awaits /\ last_turn' = last_turn /\ pc[p] = "unsent"
      BY <1>4, <2>1 DEF Prompt, MaySend
    <3> QED BY <1>1, <3>1 DEF Points
  <2>2. CASE sessions # None
    BY <1>4, <2>2, TurnsGrow
  <2> QED BY <2>1, <2>2
<1>5. ASSUME NEW p \in Prompts, run_turn(p) PROVE TurnsInv'
  <2>1. /\ Moves(p, "running") /\ pc[p] = "waiting" /\ Settled(awaits[p])
        /\ record' = record /\ awaits' = awaits /\ last_turn' = last_turn
    BY <1>5 DEF run_turn, records
  <2> QED BY <1>1, <2>1 DEF Points, Unsettled
<1>6. ASSUME NEW p \in Prompts, InputThrows(p) PROVE TurnsInv'
  <2>1. /\ pc[p] = "waiting" /\ Settled(awaits[p]) /\ save_session(p, history[record[p]])
        /\ record' = record /\ awaits' = awaits /\ last_turn' = last_turn
    BY <1>6 DEF InputThrows
  <2>2. record[p] \in Loads /\ history[record[p]] \in Seq(Exchange)
    BY <2>1 DEF PlaceInv, ShapeInv
  <2>3. PICK to \in {"saving", "done"} : Moves(p, to)
    BY <2>1, <2>2, Saves
  <2> QED BY <1>1, <2>1, <2>3 DEF Points
<1>7. ASSUME NEW p \in Prompts, TurnEnds(p) PROVE TurnsInv'
  <2>1. PICK h \in Seq(Exchange) : save_session(p, h)
    BY <1>7, TurnEnding
  <2>2. /\ pc[p] = "running" /\ record[p] \in Loads
        /\ record' = record /\ awaits' = awaits /\ last_turn' = last_turn
    BY <1>7, TurnEnding DEF TurnEnds
  <2>3. PICK to \in {"saving", "done"} : Moves(p, to)
    BY <2>1, <2>2, Saves
  <2> QED BY <1>1, <2>2, <2>3 DEF Points
<1>8. ASSUME NEW s \in Settings, Set(s) \/ SetSaves(s) PROVE TurnsInv'
  <2>0. s \in Handled /\ s \in Requests /\ s \notin Prompts
    BY Kinds
  <2>1. CASE Set(s)
    <3>1. \E to \in Points : Moves(s, to)
      BY <2>1 DEF Set, Points
    <3>2. awaits' = awaits /\ last_turn' = last_turn /\ \A p \in Prompts : record'[p] = record[p]
      BY <2>0, <2>1 DEF Set, records, ShapeInv
    <3> QED BY <1>1, <2>0, <3>1, <3>2
  <2>2. CASE SetSaves(s)
    <3>1. /\ pc[s] = "sending" /\ save_session(s, history[record[s]])
          /\ record' = record /\ awaits' = awaits /\ last_turn' = last_turn
      BY <2>2 DEF SetSaves
    <3>2. record[s] \in Loads /\ history[record[s]] \in Seq(Exchange)
      BY <2>0, <3>1 DEF PlaceInv, ShapeInv
    <3>3. PICK to \in {"saving", "done"} : Moves(s, to)
      BY <2>0, <3>1, <3>2, Saves
    <3> QED BY <1>1, <2>0, <3>1, <3>3 DEF Points
  <2> QED BY <1>8, <2>1, <2>2
<1>9. ASSUME NEW c \in Closers, \E to \in Points : Moves(c, to), last_turn' = last_turn,
             (record' = record /\ awaits' = awaits) \/ (sessions # None /\ close_session(c))
      PROVE  TurnsInv'
  <2>1. c \in Requests /\ c \notin Prompts /\ \A p \in Prompts : record'[p] = record[p] /\ awaits'[p] = awaits[p]
    BY <1>9, SessionClosed, Kinds
  <2> QED BY <1>1, <1>9, <2>1
<1>10. ASSUME NEW c \in Closes, Close(c) PROVE TurnsInv'
  <2>1. c \in Closers /\ last_turn' = last_turn /\ \E to \in Points : Moves(c, to)
    BY <1>10, Kinds DEF Close, records, Points
  <2>2. (record' = record /\ awaits' = awaits) \/ (sessions # None /\ close_session(c))
    BY <1>10 DEF Close
  <2> QED BY <1>9, <2>1, <2>2
<1>11. ASSUME NEW c \in Closers, ClosesServers(c) PROVE TurnsInv'
  BY <1>9, <1>11 DEF ClosesServers, Points
<1>12. ASSUME CancelTurn PROVE TurnsInv'
  BY <1>12, TurnsKept DEF CancelTurn, records, Unsettled
<1>13. ASSUME Disconnect PROVE TurnsInv'
  <2>1. CASE sessions = None
    BY <1>13, <2>1, TurnsKept DEF Disconnect, records, Unsettled
  <2>2. CASE sessions # None
    <3>1. Moves(Hangup, "closing") /\ close_session(Hangup) /\ last_turn' = last_turn
      BY <1>13, <2>2 DEF Disconnect, records
    <3> QED BY <1>9, <2>2, <3>1, Kinds DEF Points
  <2> QED BY <2>1, <2>2
<1> QED BY <1>2, <1>3, <1>4, <1>5, <1>6, <1>7, <1>8, <1>10, <1>11, <1>12, <1>13 DEF Next, Handles

----------------------------------------------------------------------------
(* Closing and the MCP servers. *)

(* A step that opens, starts and closes nothing.                           *)
Quiet ==
  /\ client' = client /\ connected' = connected /\ sessions' = sessions
  /\ mcp' = mcp /\ last_turn' = last_turn
  /\ \A l \in Loads : Opening(l)' => Opening(l)
  /\ \A p \in Prompts : Unsettled(p)' => Unsettled(p) /\ record'[p] = record[p]
  /\ \A c \in Closers :
       /\ pc'[c] = "closing" <=> pc[c] = "closing"
       /\ pc[c] = "closing" => record'[c] = record[c] /\ awaits'[c] = awaits[c]
  /\ pc[Hangup] = "unsent" => pc'[Hangup] = "unsent"

LEMMA QuietMoves ==
  ASSUME ShapeInv, PlaceInv, NEW q \in Requests, NEW to \in Points, Moves(q, to), Place(q, to),
         client' = client, connected' = connected, sessions' = sessions, mcp' = mcp, last_turn' = last_turn,
         awaits' = awaits, \A s \in Prompts \cup Closers : record'[s] = record[s],
         q \in Loads /\ to \in {"loading", "opening"} => Opening(q),
         q \in Prompts /\ to \in {"waiting", "running"} => Unsettled(q),
         q \in Closers => q # Hangup /\ pc[q] = "unsent" /\ to = "refused"
  PROVE  Quiet
<1>1. pc'[q] = to /\ \A s \in Requests : s # q => pc'[s] = pc[s]
  BY MovesTo
<1>2. Loads \subseteq Requests /\ Hangup \in Requests
  BY Kinds
<1>3. \A l \in Loads : Opening(l)' => Opening(l)
  BY <1>1, <1>2 DEF Opening
<1>4. \A p \in Prompts : Unsettled(p)' => Unsettled(p) /\ record'[p] = record[p]
  BY <1>1, RequestsOf DEF Unsettled
<1>5. \A c \in Closers : pc'[c] = "closing" <=> pc[c] = "closing"
  BY <1>1, RequestsOf
<1>6. \A c \in Closers : record'[c] = record[c] /\ awaits'[c] = awaits[c]
  OBVIOUS
<1>7. pc[Hangup] = "unsent" => pc'[Hangup] = "unsent"
  BY <1>1, <1>2, Kinds
<1> QED BY <1>3, <1>4, <1>5, <1>6, <1>7 DEF Quiet

(* A request that saves its session, or has nothing to save, is quiet.     *)
LEMMA QuietSaves ==
  ASSUME ShapeInv, PlaceInv, NEW q \in Prompts \cup Settings, pc[q] \in {"waiting", "running", "sending"},
         NEW exchanges \in Seq(Exchange), save_session(q, exchanges),
         client' = client, connected' = connected, sessions' = sessions, mcp' = mcp, last_turn' = last_turn,
         awaits' = awaits, record' = record
  PROVE  Quiet
<1>1. q \in Handled /\ q \in Requests /\ q \notin Loads /\ q \notin Closers
  BY Kinds
<1>2. record[q] \in Loads
  BY <1>1 DEF PlaceInv, ShapeInv
<1>3. PICK to \in {"saving", "done"} : Moves(q, to)
  BY <1>1, <1>2, Saves
<1>4. Place(q, to) /\ to \in Points
  BY <1>1, Kinds DEF Place, Points
<1> QED BY <1>1, <1>3, <1>4, QuietMoves

Noisy ==
  \/ \E l \in Loads : Load(l) /\ sessions = None
  \/ \E l \in Loads : open_session(l)
  \/ \E p \in Prompts : Prompt(p) /\ sessions # None
  \/ \E c \in Closes : Close(c) /\ sessions # None
  \/ \E c \in Closers : ClosesServers(c)
  \/ Disconnect

LEMMA QuietOrNoisy ==
  ASSUME ShapeInv, PlaceInv, SavingInv, Next
  PROVE  Quiet \/ Noisy
<1> USE RequestsOf
<1>1. ASSUME NEW l \in Loads, Load(l) \/ ReadsStore(l), ~(Load(l) /\ sessions = None) PROVE Quiet
  <2>1. PICK to \in {"done", "opening", "refused"} :
          Moves(l, to) /\ (to = "opening" => pc[l] = "loading")
    BY <1>1 DEF Load, ReadsStore
  <2>2. l \in Requests /\ l \notin Prompts /\ l \notin Closers /\ Place(l, to) /\ to \in Points
    BY Kinds DEF Place, Points
  <2>3. /\ client' = client /\ connected' = connected /\ sessions' = sessions /\ mcp' = mcp
        /\ last_turn' = last_turn /\ awaits' = awaits /\ record' = record
    BY <1>1 DEF Load, ReadsStore, records
  <2> QED BY <2>1, <2>2, <2>3, QuietMoves DEF Opening
<1>2. ASSUME NEW l \in Loads, Save(l) PROVE Quiet
  <2> DEFINE q == saving[l][1].by
  <2>1. q \in Handled /\ q \in Requests /\ Moves(q, "done") /\ 1 \in 1 .. Len(saving[l])
    BY <1>2, SaveEnds, Kinds
  <2>2. /\ client' = client /\ connected' = connected /\ sessions' = sessions /\ mcp' = mcp
        /\ last_turn' = last_turn /\ awaits' = awaits /\ record' = record
    BY <1>2 DEF Save
  <2>3. pc[q] = "saving"
    BY <2>1 DEF SavingInv
  <2> HIDE DEF q
  <2>4. q \notin Loads /\ q \notin Closers /\ Place(q, "done") /\ "done" \in Points
    BY <2>1, <2>3, Kinds DEF PlaceInv, Place, Points
  <2> QED BY <2>1, <2>2, <2>4, QuietMoves
<1>3. ASSUME NEW p \in Prompts, Prompt(p), sessions = None PROVE Quiet
  <2>1. /\ Moves(p, "refused") /\ client' = client /\ connected' = connected /\ sessions' = sessions /\ mcp' = mcp
        /\ last_turn' = last_turn /\ awaits' = awaits /\ record' = record
    BY <1>3 DEF Prompt
  <2>2. p \notin Loads /\ p \notin Closers /\ Place(p, "refused") /\ "refused" \in Points
    BY Kinds DEF Place, Points
  <2> QED BY <2>1, <2>2, QuietMoves
<1>4. ASSUME NEW p \in Prompts, run_turn(p) PROVE Quiet
  <2>1. /\ Moves(p, "running") /\ client' = client /\ connected' = connected /\ sessions' = sessions /\ mcp' = mcp
        /\ last_turn' = last_turn /\ awaits' = awaits /\ record' = record /\ pc[p] = "waiting"
    BY <1>4 DEF run_turn, records
  <2>2. p \notin Loads /\ p \notin Closers /\ Place(p, "running") /\ "running" \in Points
    BY Kinds DEF Place, Points
  <2> QED BY <2>1, <2>2, QuietMoves DEF Unsettled
<1>5. ASSUME NEW p \in Prompts, InputThrows(p) PROVE Quiet
  <2>1. /\ pc[p] = "waiting" /\ save_session(p, history[record[p]])
        /\ client' = client /\ connected' = connected /\ sessions' = sessions /\ mcp' = mcp
        /\ last_turn' = last_turn /\ awaits' = awaits /\ record' = record
    BY <1>5 DEF InputThrows
  <2>2. history[record[p]] \in Seq(Exchange)
    BY <2>1 DEF PlaceInv, ShapeInv
  <2> QED BY <2>1, <2>2, QuietSaves
<1>6. ASSUME NEW p \in Prompts, TurnEnds(p) PROVE Quiet
  <2>1. PICK h \in Seq(Exchange) : save_session(p, h)
    BY <1>6, TurnEnding
  <2>2. /\ pc[p] = "running" /\ client' = client /\ connected' = connected /\ sessions' = sessions /\ mcp' = mcp
        /\ last_turn' = last_turn /\ awaits' = awaits /\ record' = record
    BY <1>6 DEF TurnEnds
  <2> QED BY <2>1, <2>2, QuietSaves
<1>7. ASSUME NEW s \in Settings, Set(s) PROVE Quiet
  <2>1. s \in Handled /\ s \notin Loads /\ s \notin Closers /\ s \notin Prompts
    BY Kinds
  <2>2. /\ client' = client /\ connected' = connected /\ sessions' = sessions /\ mcp' = mcp
        /\ last_turn' = last_turn /\ awaits' = awaits
    BY <1>7 DEF Set, records
  <2>3. \A q \in Prompts \cup Closers : record'[q] = record[q]
    BY <1>7, <2>1 DEF Set, ShapeInv
  <2>4. PICK to \in {"refused", "sending"} : Moves(s, to)
    BY <1>7 DEF Set
  <2>5. Place(s, to) /\ to \in Points /\ s \in Requests
    BY <2>1, Kinds DEF Place, Points
  <2> QED BY <2>1, <2>2, <2>3, <2>4, <2>5, QuietMoves
<1>8. ASSUME NEW s \in Settings, SetSaves(s) PROVE Quiet
  <2>1. /\ pc[s] = "sending" /\ save_session(s, history[record[s]])
        /\ client' = client /\ connected' = connected /\ sessions' = sessions /\ mcp' = mcp
        /\ last_turn' = last_turn /\ awaits' = awaits /\ record' = record
    BY <1>8 DEF SetSaves
  <2>2. s \in Handled
    BY Kinds
  <2>3. history[record[s]] \in Seq(Exchange)
    BY <2>1, <2>2 DEF PlaceInv, ShapeInv
  <2> QED BY <2>1, <2>3, QuietSaves
<1>9. ASSUME NEW c \in Closes, Close(c), sessions = None PROVE Quiet
  <2>1. /\ Moves(c, "refused") /\ client' = client /\ connected' = connected /\ sessions' = sessions /\ mcp' = mcp
        /\ last_turn' = last_turn /\ awaits' = awaits /\ record' = record /\ pc[c] = "unsent"
    BY <1>9 DEF Close, records, MaySend
  <2>2. c \in Closers /\ c # Hangup /\ c \notin Loads /\ c \notin Prompts /\ Place(c, "refused") /\ "refused" \in Points
    BY Kinds DEF Place, Points
  <2> QED BY <2>1, <2>2, QuietMoves
<1>10. ASSUME CancelTurn PROVE Quiet
  BY <1>10 DEF CancelTurn, Quiet, records, Opening, Unsettled
<1> QED BY <1>1, <1>2, <1>3, <1>4, <1>5, <1>6, <1>7, <1>8, <1>9, <1>10 DEF Next, Handles, Noisy

(* What a close does, or the agent's own when its connection ends.         *)
LEMMA Closed ==
  ASSUME ShapeInv, PlaceInv, NEW c \in Closers, sessions # None, Moves(c, "closing"), close_session(c)
  PROVE  /\ pc'[c] = "closing" /\ \A q \in Requests : q # c => pc'[q] = pc[q]
         /\ record'[c] = sessions /\ sessions' = None /\ sessions \in Loads
         /\ awaits'[c] = last_turn[sessions]
         /\ \A q \in Handled : q # c => record'[q] = record[q]
         /\ \A q \in Prompts \cup Closers : q # c => awaits'[q] = awaits[q]
         /\ \A p \in Prompts : pc'[p] = pc[p] /\ record'[p] = record[p]
         /\ \A l \in Loads : pc'[l] = pc[l]
BY MovesTo, SessionClosed, RequestsOf, Kinds DEF Points

LEMMA ClosingStep == ShapeInv /\ PlaceInv /\ SavingInv /\ ClosingInv /\ Next => ClosingInv'
<1> SUFFICES ASSUME ShapeInv, PlaceInv, SavingInv, ClosingInv, Next PROVE ClosingInv'
  OBVIOUS
<1> USE RequestsOf
<1>0. \A c \in Closers : pc[c] = "closing" => record[c] \in Loads /\ pc[record[c]] = "done"
  BY DEF PlaceInv, ShapeInv
<1>1. CASE Quiet
  BY <1>0, <1>1 DEF Quiet, ClosingInv
<1>2. ASSUME NEW q \in Requests, NEW to \in Points, Moves(q, to), to # "closing",
             sessions' = sessions \/ (sessions' = q /\ q \in Loads), q \in Loads => pc[q] # "done",
             \A c \in Closers : record'[c] = record[c] /\ awaits'[c] = awaits[c],
             \A l \in Loads : l # sessions => last_turn'[l] = last_turn[l]
      PROVE  ClosingInv'
  <2>1. pc'[q] = to /\ \A s \in Requests : s # q => pc'[s] = pc[s]
    BY <1>2, MovesTo
  <2>2. ASSUME NEW c \in Closers, pc'[c] = "closing"
        PROVE  record'[c] # sessions' /\ awaits'[c] = last_turn'[record'[c]]
    <3>1. pc[c] = "closing"
      BY <1>2, <2>1, <2>2
    <3>2. record[c] # sessions /\ awaits[c] = last_turn[record[c]] /\ record[c] \in Loads /\ pc[record[c]] = "done"
      BY <1>0, <3>1 DEF ClosingInv
    <3> QED BY <1>2, <3>2
  <2> QED BY <2>2 DEF ClosingInv
<1>3. ASSUME NEW l \in Loads, Load(l) \/ open_session(l) PROVE ClosingInv'
  <2>1. \E to \in Points : Moves(l, to) /\ to # "closing"
    BY <1>3 DEF Load, open_session, Points
  <2>2. /\ (sessions' = sessions \/ (sessions' = l /\ l \in Loads)) /\ pc[l] # "done" /\ record' = record /\ awaits' = awaits
        /\ last_turn' = last_turn /\ l \in Requests
    BY <1>3, Kinds DEF Load, open_session, records, MaySend
  <2> QED BY <1>2, <2>1, <2>2
<1>4. ASSUME NEW p \in Prompts, Prompt(p), sessions # None PROVE ClosingInv'
  <2>1. \E to \in Points : Moves(p, to) /\ to # "closing"
    BY <1>4 DEF Prompt, Points
  <2>2. sessions' = sessions /\ p \notin Loads /\ p \notin Closers
    BY <1>4, Kinds DEF Prompt
  <2>3. \A c \in Closers : record'[c] = record[c] /\ awaits'[c] = awaits[c]
    BY <1>4, <2>2 DEF Prompt, ShapeInv
  <2>4. \A l \in Loads : l # sessions => last_turn'[l] = last_turn[l]
    BY <1>4 DEF Prompt, ShapeInv
  <2> QED BY <1>2, <2>1, <2>2, <2>3, <2>4
<1>5. ASSUME NEW c \in Closers, Moves(c, "closing"), sessions # None, close_session(c), last_turn' = last_turn
      PROVE  ClosingInv'
  <2>1. /\ record'[c] = sessions /\ awaits'[c] = last_turn[sessions] /\ sessions' = None /\ sessions \in Loads
        /\ \A d \in Closers : d # c => pc'[d] = pc[d] /\ record'[d] = record[d] /\ awaits'[d] = awaits[d]
    BY <1>5, Closed
  <2>2. ASSUME NEW d \in Closers, pc'[d] = "closing"
        PROVE  record'[d] # sessions' /\ awaits'[d] = last_turn'[record'[d]]
    <3>1. CASE d = c
      BY <1>5, <2>1, <3>1, Kinds
    <3>2. CASE d # c
      <4>1. pc[d] = "closing" /\ record'[d] = record[d] /\ awaits'[d] = awaits[d]
        BY <2>1, <2>2, <3>2
      <4> QED BY <1>0, <1>5, <2>1, <4>1, Kinds DEF ClosingInv
    <3> QED BY <3>1, <3>2
  <2> QED BY <2>2 DEF ClosingInv
<1>6. ASSUME NEW c \in Closes, Close(c), sessions # None PROVE ClosingInv'
  BY <1>5, <1>6, Kinds DEF Close, records
<1>7. ASSUME NEW c \in Closers, ClosesServers(c) PROVE ClosingInv'
  <2>1. /\ Moves(c, "done") /\ sessions' = sessions /\ record' = record /\ awaits' = awaits
        /\ last_turn' = last_turn /\ c \notin Loads /\ "done" \in Points
    BY <1>7, Kinds DEF ClosesServers, Points
  <2> QED BY <1>2, <2>1
<1>8. ASSUME Disconnect PROVE ClosingInv'
  <2>1. CASE sessions = None
    BY <1>8, <2>1 DEF Disconnect, records, ClosingInv
  <2>2. CASE sessions # None
    BY <1>5, <1>8, <2>2, Kinds DEF Disconnect, records
  <2> QED BY <2>1, <2>2
<1> QED BY <1>1, <1>3, <1>4, <1>6, <1>7, <1>8, QuietOrNoisy DEF Noisy

(* The turns of a record whose servers are being closed have settled.      *)
LEMMA ClosingIsSettled ==
  ASSUME ShapeInv, PlaceInv, TurnsInv, ClosingInv, NEW c \in Closers, ClosesServers(c)
  PROVE  /\ record[c] \in Loads /\ record[c] # sessions /\ pc[c] = "closing"
         /\ \A p \in Prompts : Unsettled(p) => record[p] # record[c]
         /\ pc'[c] = "done" /\ \A q \in Requests : q # c => pc'[q] = pc[q]
         /\ mcp'[record[c]] = "closed" /\ \A l \in Loads : l # record[c] => mcp'[l] = mcp[l]
<1>1. pc[c] = "closing" /\ Settled(awaits[c]) /\ Moves(c, "done") /\ mcp' = [mcp EXCEPT ![record[c]] = "closed"]
  BY DEF ClosesServers
<1>2. record[c] \in Loads /\ record[c] # sessions /\ awaits[c] = last_turn[record[c]]
  BY <1>1, RequestsOf, HasRecord DEF ClosingInv
<1>3. \A p \in Prompts : Unsettled(p) => record[p] # record[c]
  BY <1>1, <1>2, AllSettled
<1>4. mcp'[record[c]] = "closed" /\ \A l \in Loads : l # record[c] => mcp'[l] = mcp[l]
  BY <1>1, <1>2 DEF ShapeInv
<1>5. pc'[c] = "done" /\ \A q \in Requests : q # c => pc'[q] = pc[q]
  BY <1>1, MovesTo, RequestsOf DEF Points
<1> QED BY <1>1, <1>2, <1>3, <1>4, <1>5

LEMMA ServersStep ==
  ShapeInv /\ PlaceInv /\ SavingInv /\ TurnsInv /\ ClosingInv /\ ServersInv /\ Next => ServersInv'
<1> SUFFICES ASSUME ShapeInv, PlaceInv, SavingInv, TurnsInv, ClosingInv, ServersInv, Next PROVE ServersInv'
  OBVIOUS
<1> USE RequestsOf
<1>0. /\ \A p \in Prompts : Unsettled(p) => record[p] \in Loads /\ pc[record[p]] = "done"
      /\ sessions # None => sessions \in Loads /\ pc[sessions] = "done"
  BY DEF PlaceInv, ShapeInv, Unsettled
<1>1. CASE Quiet
  BY <1>0, <1>1 DEF Quiet, ServersInv
<1>2. ASSUME NEW l \in Loads, Load(l) \/ open_session(l) PROVE ServersInv'
  <2>1. \E to \in Points : Moves(l, to)
    BY <1>2 DEF Load, open_session, Points
  <2>2. l \in Requests /\ pc[l] # "done" /\ record' = record
    BY <1>2, Kinds DEF Load, open_session, MaySend
  <2>3. /\ \A m \in Loads : m # l => mcp'[m] = mcp[m]
        /\ sessions' = sessions \/ (sessions' = l /\ mcp'[l] = "open")
    BY <1>2 DEF Load, open_session, records, ShapeInv
  <2>4. \A p \in Prompts : pc'[p] = pc[p]
    BY <2>1, <2>2, MovesTo, Kinds
  <2>5. \A p \in Prompts : Unsettled(p)' => Unsettled(p)
    BY <2>4 DEF Unsettled
  <2>6. \A p \in Prompts : Unsettled(p) => mcp'[record'[p]] = "open"
    BY <1>0, <2>2, <2>3 DEF ServersInv
  <2>7. sessions' # None => mcp'[sessions'] = "open"
    BY <1>0, <2>2, <2>3 DEF ServersInv
  <2> QED BY <2>5, <2>6, <2>7 DEF ServersInv
<1>3. ASSUME NEW p \in Prompts, Prompt(p), sessions # None PROVE ServersInv'
  <2>1. \E to \in Points : Moves(p, to)
    BY <1>3 DEF Prompt, Points
  <2>2. sessions' = sessions /\ mcp' = mcp /\ record' = [record EXCEPT ![p] = sessions]
    BY <1>3 DEF Prompt
  <2>3. record'[p] = sessions /\ \A q \in Prompts : q # p => record'[q] = record[q] /\ pc'[q] = pc[q]
    BY <2>1, <2>2, MovesTo DEF ShapeInv
  <2>4. ASSUME NEW q \in Prompts, Unsettled(q)' PROVE mcp'[record'[q]] = "open"
    <3>1. CASE q = p
      BY <1>3, <2>2, <2>3, <3>1 DEF ServersInv
    <3>2. CASE q # p
      BY <2>2, <2>3, <2>4, <3>2 DEF ServersInv, Unsettled
    <3> QED BY <3>1, <3>2
  <2> QED BY <2>2, <2>4 DEF ServersInv
<1>4. ASSUME NEW c \in Closers, Moves(c, "closing"), sessions # None, close_session(c), mcp' = mcp PROVE ServersInv'
  BY <1>4, Closed DEF ServersInv, Unsettled
<1>5. ASSUME NEW c \in Closes, Close(c), sessions # None PROVE ServersInv'
  BY <1>4, <1>5, Kinds DEF Close, records
<1>6. ASSUME NEW c \in Closers, ClosesServers(c) PROVE ServersInv'
  <2>1. sessions' = sessions /\ record' = record
    BY <1>6 DEF ClosesServers
  <2>2. sessions # None => mcp'[sessions] = "open"
    BY <1>0, <1>6, ClosingIsSettled DEF ServersInv
  <2>3. \A p \in Prompts : pc'[p] = pc[p]
    BY <1>6, ClosingIsSettled, Kinds
  <2>4. \A p \in Prompts : Unsettled(p) => mcp'[record[p]] = "open"
    BY <1>0, <1>6, ClosingIsSettled DEF ServersInv
  <2> QED BY <2>1, <2>2, <2>3, <2>4 DEF ServersInv, Unsettled
<1>7. ASSUME Disconnect PROVE ServersInv'
  <2>1. CASE sessions = None
    BY <1>7, <2>1 DEF Disconnect, records, ServersInv, Unsettled
  <2>2. CASE sessions # None
    BY <1>4, <1>7, <2>2, Kinds DEF Disconnect, records
  <2> QED BY <2>1, <2>2
<1> QED BY <1>1, <1>2, <1>3, <1>5, <1>6, <1>7, QuietOrNoisy DEF Noisy

----------------------------------------------------------------------------
(* A client that waits for its loads and its closes. *)

LEMMA SerialStep ==
  ShapeInv /\ PlaceInv /\ SavingInv /\ TurnsInv /\ ClosingInv /\ SerialInv /\ Next => SerialInv'
<1> SUFFICES ASSUME ShapeInv, PlaceInv, SavingInv, TurnsInv, ClosingInv, SerialInv, Next, client' # "hasty"
             PROVE  SerialInv'
  BY DEF SerialInv
<1> USE RequestsOf
<1>a. client' = client
  BY DEF Next, Handles, Load, ReadsStore, open_session, Save, Prompt, run_turn, InputThrows, TurnEnds,
         Set, SetSaves, Close, ClosesServers, CancelTurn, Disconnect
<1>o. \A l \in Loads : Opening(l) =>
        /\ sessions = None /\ connected
        /\ \A m \in Loads : m # l => ~Opening(m)
        /\ \A p \in Prompts : ~Unsettled(p)
        /\ \A c \in Closers : pc[c] # "closing"
  BY <1>a DEF SerialInv
<1>u. \A p \in Prompts : Unsettled(p) => record[p] = sessions \/ Closing(record[p])
  BY <1>a DEF SerialInv
<1>s. \A p, q \in Prompts : Unsettled(p) /\ Unsettled(q) => record[p] = record[q]
  BY <1>a DEF SerialInv
<1>m. \A l \in Loads : mcp[l] = "open" => l = sessions \/ Closing(l)
  BY <1>a DEF SerialInv
<1>h. (~connected => sessions = None) /\ (connected => pc[Hangup] = "unsent")
  BY <1>a DEF SerialInv
<1>c. ASSUME NEW q, MaySend(q), q \in Requests \ {Hangup}
      PROVE  /\ connected /\ pc[q] = "unsent"
             /\ \A l \in Loads : ~Opening(l)
             /\ \A c \in Closers : pc[c] # "closing"
  BY <1>a, <1>h, <1>c DEF MaySend, Idle, Answered, Opening, Closers
<1>d. \A p \in Prompts : Unsettled(p) => record[p] \in Loads
  BY DEF PlaceInv, ShapeInv, Unsettled
<1>1. CASE Quiet
  <2>1. \A l \in Loads : Closing(l) => Closing(l)'
    BY <1>1 DEF Quiet, Closing
  <2>2. \A p \in Prompts : Unsettled(p)' => (record[p] = sessions \/ Closing(record[p]))'
    BY <1>1, <1>u, <1>d, <2>1 DEF Quiet
  <2>3. \A p, q \in Prompts : Unsettled(p)' /\ Unsettled(q)' => record'[p] = record'[q]
    BY <1>1, <1>s DEF Quiet
  <2>4. \A l \in Loads : mcp'[l] = "open" => l = sessions' \/ Closing(l)'
    BY <1>1, <1>m, <2>1 DEF Quiet
  <2>5. \A l \in Loads : Opening(l)' =>
             /\ sessions' = None /\ connected'
             /\ \A m \in Loads : m # l => ~Opening(m)'
             /\ \A p \in Prompts : ~Unsettled(p)'
             /\ \A c \in Closers : pc'[c] # "closing"
    BY <1>1, <1>o, <1>u DEF Quiet
  <2>6. (~connected' => sessions' = None) /\ (connected' => pc'[Hangup] = "unsent")
    BY <1>1, <1>h DEF Quiet
  <2> QED BY <2>2, <2>3, <2>4, <2>5, <2>6 DEF SerialInv
<1>2. ASSUME NEW l \in Loads, Load(l), sessions = None PROVE SerialInv'
  <2>1. /\ Moves(l, "loading") /\ sessions' = sessions /\ connected' = connected /\ mcp' = mcp /\ record' = record
        /\ MaySend(l) /\ l \in Requests \ {Hangup}
    BY <1>2, Kinds DEF Load, records
  <2>2. \A q \in Handled : pc'[q] = pc[q]
    BY <2>1, MovesTo, Kinds DEF Points
  <2>3. \A m \in Loads : m # l => ~Opening(m)'
    BY <1>c, <2>1, MovesTo, Kinds DEF Points, Opening
  <2>4. \A m \in Loads : ~Closing(m)
    BY <1>c, <2>1 DEF Closing
  <2>5. \A p \in Prompts : ~Unsettled(p)
    BY <1>2, <1>u, <1>d, <2>4, Kinds
  <2>6. \A p \in Prompts : ~Unsettled(p)'
    BY <2>2, <2>5 DEF Unsettled
  <2>7. \A m \in Loads : mcp'[m] = "open" => m = sessions'
    BY <1>m, <2>1, <2>4
  <2>8. pc'[Hangup] = "unsent"
    BY <1>h, <1>c, <2>1, <2>2, Kinds
  <2>9. \A c \in Closers : pc'[c] # "closing"
    BY <1>c, <2>1, <2>2
  <2> QED BY <1>2, <1>c, <2>1, <2>3, <2>6, <2>7, <2>8, <2>9 DEF SerialInv
<1>3. ASSUME NEW l \in Loads, open_session(l) PROVE SerialInv'
  <2>1. PICK to \in {"done", "refused"} : Moves(l, to)
    BY <1>3 DEF open_session
  <2>2. /\ pc[l] = "opening" /\ connected' = connected /\ record' = record
        /\ \A m \in Loads : m # l => mcp'[m] = mcp[m]
        /\ (sessions' = l \/ (sessions' = sessions /\ mcp'[l] = "closed"))
    BY <1>3 DEF open_session, ShapeInv
  <2>3. /\ sessions = None /\ connected
        /\ \A m \in Loads : m # l => ~Opening(m)
        /\ \A p \in Prompts : ~Unsettled(p)
        /\ \A c \in Closers : pc[c] # "closing"
    BY <1>o, <2>2 DEF Opening
  <2>4. pc'[l] = to /\ \A q \in Requests : q # l => pc'[q] = pc[q]
    BY <2>1, MovesTo, Kinds DEF Points
  <2>5. \A m \in Loads : ~Opening(m)'
    BY <2>3, <2>4, Kinds DEF Opening
  <2>6. \A p \in Prompts : ~Unsettled(p)'
    BY <2>3, <2>4, Kinds DEF Unsettled
  <2>7. \A m \in Loads : mcp'[m] = "open" => m = sessions'
    BY <1>m, <2>2, <2>3, Kinds DEF Closing
  <2>8. connected' /\ pc'[Hangup] = "unsent"
    BY <1>h, <2>2, <2>3, <2>4, Kinds
  <2> QED BY <2>5, <2>6, <2>7, <2>8 DEF SerialInv
<1>4. ASSUME NEW p \in Prompts, Prompt(p), sessions # None PROVE SerialInv'
  <2>1. /\ sessions' = sessions /\ connected' = connected /\ mcp' = mcp /\ MaySend(p)
        /\ record' = [record EXCEPT ![p] = sessions] /\ p \in Requests \ {Hangup}
    BY <1>4, Kinds DEF Prompt
  <2>2. \E to \in Points : Moves(p, to)
    BY <1>4 DEF Prompt, Points
  <2>3. \A q \in Requests : q # p => pc'[q] = pc[q]
    BY <2>2, MovesTo
  <2>4. record'[p] = sessions /\ \A q \in Prompts : q # p => record'[q] = record[q]
    BY <2>1 DEF ShapeInv
  <2>5. \A m \in Loads : ~Closing(m) /\ ~Opening(m)'
    BY <1>c, <2>1, <2>3, Kinds DEF Closing, Opening
  <2>6. ASSUME NEW q \in Prompts, Unsettled(q)' PROVE record'[q] = sessions'
    <3>1. CASE q = p
      BY <2>1, <2>4, <3>1
    <3>2. CASE q # p
      <4>1. Unsettled(q)
        BY <2>3, <2>6, <3>2 DEF Unsettled
      <4> QED BY <1>u, <1>d, <2>1, <2>4, <2>5, <3>2, <4>1
    <3> QED BY <3>1, <3>2
  <2>7. \A m \in Loads : mcp'[m] = "open" => m = sessions'
    BY <1>m, <1>u, <2>1, <2>5
  <2>8. connected' /\ pc'[Hangup] = "unsent"
    BY <1>h, <1>c, <2>1, <2>3, Kinds
  <2> QED BY <2>5, <2>6, <2>7, <2>8 DEF SerialInv
<1>5. ASSUME NEW c \in Closers, Moves(c, "closing"), close_session(c), sessions # None, mcp' = mcp,
             connected' => connected /\ c # Hangup, pc[c] = "unsent"
      PROVE  SerialInv'
  <2>1. \A l \in Loads : ~Opening(l) /\ pc'[l] = pc[l]
    BY <1>5, <1>o, Closed
  <2>2. \A l \in Loads : l = sessions \/ Closing(l) => Closing(l)'
    <3>1. \A l \in Loads : l = sessions => Closing(l)'
      BY <1>5, Closed DEF Closing
    <3>2. ASSUME NEW l \in Loads, NEW d \in Closers, pc[d] = "closing", record[d] = l, l # sessions PROVE Closing(l)'
      <4>1. CASE d = c
        BY <1>5, <3>2, <4>1
      <4>2. CASE d # c
        BY <1>5, <3>2, <4>2, Closed DEF Closing
      <4> QED BY <4>1, <4>2
    <3> QED BY <3>1, <3>2 DEF Closing
  <2>3. /\ sessions' = None /\ \A p \in Prompts : record'[p] = record[p] /\ pc'[p] = pc[p]
        /\ c # Hangup => pc'[Hangup] = pc[Hangup]
    BY <1>5, Closed, Kinds
  <2>4. \A p \in Prompts : Unsettled(p)' => Unsettled(p)
    BY <2>3 DEF Unsettled
  <2>5. \A p \in Prompts : Unsettled(p)' => Closing(record[p])'
    BY <1>u, <1>d, <2>2, <2>3, <2>4
  <2>6. \A p, q \in Prompts : Unsettled(p)' /\ Unsettled(q)' => record'[p] = record'[q]
    BY <1>s, <2>3, <2>4
  <2>7. \A l \in Loads : mcp'[l] = "open" => Closing(l)'
    BY <1>5, <1>m, <2>2
  <2>8. \A l \in Loads : ~Opening(l)'
    BY <2>1 DEF Opening
  <2>9. connected' => pc'[Hangup] = "unsent"
    BY <1>5, <1>h, <2>3
  <2> QED BY <2>3, <2>5, <2>6, <2>7, <2>8, <2>9 DEF SerialInv
<1>6. ASSUME NEW c \in Closes, Close(c), sessions # None PROVE SerialInv'
  <2>1. /\ c \in Closers /\ c # Hangup /\ Moves(c, "closing") /\ close_session(c) /\ mcp' = mcp /\ connected' = connected
        /\ pc[c] = "unsent"
    BY <1>6, Kinds DEF Close, records, MaySend
  <2> QED BY <1>5, <1>6, <2>1
<1>7. ASSUME NEW c \in Closers, ClosesServers(c) PROVE SerialInv'
  <2>1. sessions' = sessions /\ record' = record /\ connected' = connected
    BY <1>7 DEF ClosesServers
  <2>2. /\ record[c] \in Loads /\ record[c] # sessions /\ pc[c] = "closing"
        /\ \A p \in Prompts : Unsettled(p) => record[p] # record[c]
        /\ pc'[c] = "done" /\ \A q \in Requests : q # c => pc'[q] = pc[q]
        /\ mcp'[record[c]] = "closed" /\ \A l \in Loads : l # record[c] => mcp'[l] = mcp[l]
    BY <1>7, ClosingIsSettled
  <2>3. \A l \in Loads : l # record[c] /\ Closing(l) => Closing(l)'
    BY <2>1, <2>2 DEF Closing
  <2>4. \A l \in Loads : ~Opening(l)'
    BY <1>o, <2>2, Kinds DEF Opening
  <2>5. \A p \in Prompts : Unsettled(p)' => Unsettled(p)
    BY <2>2, Kinds DEF Unsettled
  <2>6. \A p \in Prompts : Unsettled(p)' => (record[p] = sessions \/ Closing(record[p]))'
    BY <1>u, <1>d, <2>1, <2>2, <2>3, <2>5
  <2>7. \A p, q \in Prompts : Unsettled(p)' /\ Unsettled(q)' => record'[p] = record'[q]
    BY <1>s, <2>1, <2>5
  <2>8. \A l \in Loads : mcp'[l] = "open" => l = sessions' \/ Closing(l)'
    BY <1>m, <2>1, <2>2, <2>3
  <2>9. (~connected' => sessions' = None) /\ (connected' => pc'[Hangup] = "unsent")
    BY <1>h, <2>1, <2>2, Kinds
  <2> QED BY <2>4, <2>6, <2>7, <2>8, <2>9 DEF SerialInv
<1>8. ASSUME Disconnect PROVE SerialInv'
  <2>1. connected /\ connected' = FALSE /\ mcp' = mcp /\ \A l \in Loads : ~Opening(l)
    BY <1>8, <1>a DEF Disconnect, records, Idle, Answered, Opening
  <2>2. CASE sessions = None
    <3>1. pc' = pc /\ sessions' = sessions /\ record' = record
      BY <1>8, <2>2 DEF Disconnect
    <3>2. \A l \in Loads : ~Opening(l)' /\ (Closing(l) => Closing(l)')
      BY <2>1, <3>1 DEF Opening, Closing
    <3>3. \A p \in Prompts : Unsettled(p)' => Unsettled(p)
      BY <3>1 DEF Unsettled
    <3>4. \A p \in Prompts : Unsettled(p)' => (record[p] = sessions \/ Closing(record[p]))'
      BY <1>u, <1>d, <3>1, <3>2, <3>3
    <3>5. \A p, q \in Prompts : Unsettled(p)' /\ Unsettled(q)' => record'[p] = record'[q]
      BY <1>s, <3>1, <3>3
    <3>6. \A l \in Loads : mcp'[l] = "open" => l = sessions' \/ Closing(l)'
      BY <1>m, <2>1, <3>1, <3>2
    <3> QED BY <2>1, <2>2, <3>1, <3>2, <3>4, <3>5, <3>6 DEF SerialInv
  <2>3. CASE sessions # None
    <3>1. Moves(Hangup, "closing") /\ close_session(Hangup) /\ Hangup \in Closers /\ pc[Hangup] = "unsent"
      BY <1>8, <1>h, <2>1, <2>3, Kinds DEF Disconnect
    <3> QED BY <1>5, <2>1, <2>3, <3>1
  <2> QED BY <2>2, <2>3
<1> QED BY <1>1, <1>2, <1>3, <1>4, <1>6, <1>7, <1>8, QuietOrNoisy DEF Noisy

----------------------------------------------------------------------------
(* A client that waits for every answer before it loads. *)

LEMMA PreSelf ==
  ASSUME NEW s \in Seq(Exchange)
  PROVE  Pre(s, s)
BY DEF Pre

LEMMA PreTrans ==
  ASSUME NEW s \in Seq(Exchange), NEW t \in Seq(Exchange), NEW u \in Seq(Exchange), Pre(s, t), Pre(t, u)
  PROVE  Pre(s, u)
BY DEF Pre

LEMMA PreLonger ==
  ASSUME NEW s \in Seq(Exchange), NEW e \in Exchange
  PROVE  Pre(s, Append(s, e))
BY DEF Pre

LEMMA Snapshots ==
  ASSUME ShapeInv, NEW l \in Loads
  PROVE  /\ saving[l] \in Seq(SaveType) /\ Len(saving[l]) \in Nat
         /\ \A n \in 1 .. Len(saving[l]) : saving[l][n].by \in Handled /\ saving[l][n].snapshot \in Seq(Exchange)
<1>1. saving[l] \in Seq(SaveType)
  BY DEF ShapeInv
<1>2. \A n \in 1 .. Len(saving[l]) : saving[l][n] \in SaveType
  BY <1>1
<1> QED BY <1>1, <1>2 DEF SaveType

(* A save is queued of a history that has grown, or not. *)
LEMMA GrowsSaves ==
  ASSUME ShapeInv, NEW l \in Loads, Grows(l), NEW h \in Seq(Exchange), Pre(history[l], h), history'[l] = h,
         store' = store, NEW e, e.snapshot = h, saving'[l] = saving[l] \/ saving'[l] = Append(saving[l], e)
  PROVE  Grows(l)'
<1>1. saving[l] \in Seq(SaveType) /\ Len(saving[l]) \in Nat /\ history[l] \in Seq(Exchange) /\ store \in Seq(Exchange)
  BY Snapshots DEF ShapeInv
<1>2. Pre(store, history[l])
  BY DEF Grows
<1>3. Pre(store, h)
  BY <1>1, <1>2, PreTrans
<1>4. ASSUME NEW n \in 1 .. Len(saving[l])
      PROVE  /\ saving[l][n].snapshot \in Seq(Exchange)
             /\ Pre(store, saving[l][n].snapshot) /\ Pre(saving[l][n].snapshot, h)
             /\ \A m \in 1 .. n : Pre(saving[l][m].snapshot, saving[l][n].snapshot)
  <2>1. saving[l][n].snapshot \in Seq(Exchange)
    BY Snapshots
  <2>2. /\ Pre(store, saving[l][n].snapshot) /\ Pre(saving[l][n].snapshot, history[l])
        /\ \A m \in 1 .. n : Pre(saving[l][m].snapshot, saving[l][n].snapshot)
    BY DEF Grows
  <2>3. Pre(saving[l][n].snapshot, h)
    BY <1>1, <2>1, <2>2, PreTrans
  <2> QED BY <2>1, <2>2, <2>3
<1>5. CASE saving'[l] = saving[l]
  BY <1>3, <1>4, <1>5 DEF Grows
<1>6. CASE saving'[l] = Append(saving[l], e)
  <2>1. /\ Len(saving'[l]) = Len(saving[l]) + 1 /\ saving'[l][Len(saving[l]) + 1] = e
        /\ \A n \in 1 .. Len(saving[l]) : saving'[l][n] = saving[l][n]
    BY <1>1, <1>6
  <2>2. ASSUME NEW n \in 1 .. Len(saving'[l])
        PROVE  /\ Pre(store, saving'[l][n].snapshot) /\ Pre(saving'[l][n].snapshot, h)
               /\ \A m \in 1 .. n : Pre(saving'[l][m].snapshot, saving'[l][n].snapshot)
    <3>1. CASE n \in 1 .. Len(saving[l])
      <4>1. \A m \in 1 .. n : m \in 1 .. Len(saving[l])
        BY <1>1, <3>1
      <4> QED BY <1>4, <2>1, <3>1, <4>1
    <3>2. CASE n = Len(saving[l]) + 1
      <4>1. saving'[l][n].snapshot = h
        BY <2>1, <3>2
      <4>2. Pre(h, h)
        BY PreSelf
      <4>3. \A m \in 1 .. n : m = n \/ m \in 1 .. Len(saving[l])
        BY <1>1, <3>2
      <4>4. \A m \in 1 .. n : Pre(saving'[l][m].snapshot, h)
        BY <1>4, <2>1, <4>1, <4>2, <4>3
      <4> QED BY <1>3, <4>1, <4>2, <4>4
    <3> QED BY <1>1, <2>1, <2>2, <3>1, <3>2
  <2> QED BY <1>3, <2>2 DEF Grows
<1> QED BY <1>5, <1>6

(* The save at the head of the queue is over, and the file holds it or not.*)
LEMMA GrowsStored ==
  ASSUME ShapeInv, NEW l \in Loads, Grows(l), Save(l)
  PROVE  Grows(l)' /\ Pre(store, store')
<1>1. /\ Len(saving'[l]) = Len(saving[l]) - 1 /\ Len(saving[l]) \in Nat \ {0}
      /\ \A n \in 1 .. Len(saving'[l]) : saving'[l][n] = saving[l][n + 1] /\ n + 1 \in 1 .. Len(saving[l])
      /\ store' \in {store, saving[l][1].snapshot}
  BY SaveEnds
<1>2. history' = history /\ store \in Seq(Exchange)
  BY DEF Save, ShapeInv
<1>3. /\ Pre(store, history[l]) /\ Pre(store, saving[l][1].snapshot) /\ Pre(saving[l][1].snapshot, history[l])
      /\ \A n \in 1 .. Len(saving[l]) :
           /\ Pre(store, saving[l][n].snapshot) /\ Pre(saving[l][n].snapshot, history[l])
           /\ \A m \in 1 .. n : Pre(saving[l][m].snapshot, saving[l][n].snapshot)
  BY <1>1 DEF Grows
<1>4. Pre(store, store')
  BY <1>1, <1>2, <1>3, PreSelf
<1>5. Pre(store', history[l])
  BY <1>1, <1>3
<1>6. ASSUME NEW n \in 1 .. Len(saving'[l])
      PROVE  /\ Pre(store', saving'[l][n].snapshot) /\ Pre(saving'[l][n].snapshot, history[l])
             /\ \A m \in 1 .. n : Pre(saving'[l][m].snapshot, saving'[l][n].snapshot)
  <2>1. saving'[l][n] = saving[l][n + 1] /\ n + 1 \in 1 .. Len(saving[l]) /\ 1 \in 1 .. n + 1
    BY <1>1
  <2>2. Pre(saving[l][1].snapshot, saving[l][n + 1].snapshot) /\ Pre(store, saving[l][n + 1].snapshot)
    BY <1>3, <2>1
  <2>3. \A m \in 1 .. n : saving'[l][m] = saving[l][m + 1] /\ m + 1 \in 1 .. n + 1
    BY <1>1
  <2> QED BY <1>1, <1>3, <2>1, <2>2, <2>3
<1> QED BY <1>2, <1>4, <1>5, <1>6 DEF Grows

LEMMA PatientKept ==
  ASSUME PatientInv, client' = client, store' = store,
         client = "patient" =>
           /\ \A l \in Loads : Opening(l)' => \A q \in Handled : ~Active(q)'
           /\ \A l \in Loads : pc'[l] = "opening" => loaded'[l] = store
           /\ \A l \in Loads : Live(l)' => Live(l) /\ history'[l] = history[l] /\ saving'[l] = saving[l]
  PROVE  PatientInv'
<1> SUFFICES ASSUME client = "patient" PROVE PatientInv'
  BY DEF PatientInv
<1>1. \A l \in Loads : Live(l)' => Grows(l)'
  BY DEF PatientInv, Grows
<1>2. \A l, m \in Loads : Live(l)' /\ Live(m)' => l = m
  BY DEF PatientInv
<1> QED BY <1>1, <1>2 DEF PatientInv

(* No request becomes active, and no load goes on.                         *)
LEMMA PatientRests ==
  ASSUME PatientInv, client' = client, store' = store, history' = history, saving' = saving, loaded' = loaded,
         sessions' \in {sessions, None},
         \A l \in Loads : (Opening(l)' => Opening(l)) /\ (pc'[l] = "opening" => pc[l] = "opening"),
         \A q \in Handled : Active(q)' => Active(q) /\ record'[q] = record[q]
  PROVE  PatientInv'
<1>1. \A l \in Loads : Live(l)' => Live(l)
  BY Kinds DEF Live
<1>2. client = "patient" => \A l \in Loads : Opening(l)' => \A q \in Handled : ~Active(q)'
  BY DEF PatientInv
<1>3. client = "patient" => \A l \in Loads : pc'[l] = "opening" => loaded'[l] = store
  BY DEF PatientInv
<1> QED BY <1>1, <1>2, <1>3, PatientKept

(* A request is given the record that the map holds.                       *)
LEMMA PatientStarts ==
  ASSUME ShapeInv, SerialInv, PatientInv, NEW q \in Handled, NEW to \in Points, Moves(q, to),
         sessions # None, sessions' = sessions, record'[q] = sessions,
         \A s \in Handled : s # q => record'[s] = record[s],
         client' = client, store' = store, history' = history, saving' = saving
  PROVE  PatientInv'
<1>1. \A s \in Requests : s # q => pc'[s] = pc[s]
  BY MovesTo, Kinds
<1>2. \A l \in Loads : pc'[l] = pc[l]
  BY <1>1, Kinds
<1>3. client = "patient" => \A l \in Loads : ~Opening(l)'
  BY <1>2 DEF SerialInv, Opening
<1>4. ASSUME NEW l \in Loads, NEW s \in Handled, Active(s)', record'[s] = l PROVE Live(l)
  <2>1. CASE s = q
    BY <1>4, <2>1 DEF Live
  <2>2. CASE s # q
    <3>1. Active(s) /\ record[s] = l
      BY <1>1, <1>4, <2>2, Kinds DEF Active
    <3> QED BY <3>1 DEF Live
  <2> QED BY <2>1, <2>2
<1>5. \A l \in Loads : Live(l)' => Live(l)
  BY <1>4 DEF Live
<1>6. client = "patient" => \A l \in Loads : pc'[l] # "opening"
  BY <1>3 DEF Opening
<1> QED BY <1>3, <1>5, <1>6, PatientKept

(* A request saves the history of its record, as it was or longer.         *)
LEMMA PatientSaves ==
  ASSUME ShapeInv, PlaceInv, PatientInv, NEW q \in Handled, pc[q] \in {"waiting", "running", "sending"},
         NEW h \in Seq(Exchange), save_session(q, h), record' = record, sessions' = sessions,
         client' = client, store' = store, loaded' = loaded,
         history'[record[q]] = h, Pre(history[record[q]], h),
         \A l \in Loads : l # record[q] => history'[l] = history[l]
  PROVE  PatientInv'
<1> SUFFICES ASSUME client = "patient" PROVE PatientInv'
  BY DEF PatientInv
<1>0. record[q] \in Loads
  BY HasRecord
<1>r. PICK r \in Loads : r = record[q]
  BY <1>0
<1>1. Active(q) /\ Live(r)
  BY <1>r DEF Active, Live
<1>2. PICK to \in {"saving", "done"} : Moves(q, to)
  BY <1>0, Saves
<1>3. pc'[q] = to /\ \A s \in Requests : s # q => pc'[s] = pc[s]
  BY <1>2, MovesTo, Kinds DEF Points
<1>4. \A s \in Handled : Active(s)' => Active(s)
  BY <1>1, <1>3, Kinds DEF Active
<1>5. \A l \in Loads : Live(l)' => Live(l)
  BY <1>4 DEF Live
<1>6. \A l \in Loads : Live(l) => l = r
  BY <1>1 DEF PatientInv
<1>7. Grows(r)
  BY <1>1 DEF PatientInv
<1> DEFINE e == [by |-> q, snapshot |-> h]
<1>8. e.snapshot = h /\ (saving'[r] = saving[r] \/ saving'[r] = Append(saving[r], e))
  BY <1>0, <1>r, Saves
<1>9. history'[r] = h /\ Pre(history[r], h)
  BY <1>r
<1> HIDE DEF e
<1>10. Grows(r)'
  BY <1>1, <1>7, <1>8, <1>9, GrowsSaves
<1>11. \A l \in Loads : ~Opening(l)'
  BY <1>1, <1>3, Kinds DEF PatientInv, Opening
<1> QED BY <1>5, <1>6, <1>10, <1>11 DEF PatientInv, Opening

LEMMA PatientStep ==
  ShapeInv /\ PlaceInv /\ SavingInv /\ SerialInv /\ PatientInv /\ Next => PatientInv'
<1> SUFFICES ASSUME ShapeInv, PlaceInv, SavingInv, SerialInv, PatientInv, Next PROVE PatientInv'
  OBVIOUS
<1> USE RequestsOf
<1>1. ASSUME NEW q \in Requests, NEW to \in Points, Moves(q, to), to \notin {"loading", "opening", "waiting", "sending"},
             (to \in {"running", "saving"} => q \in Handled /\ Active(q)),
             client' = client, store' = store, history' = history, saving' = saving, loaded' = loaded,
             sessions' \in {sessions, None}, \A s \in Handled : Active(s) => record'[s] = record[s]
      PROVE  PatientInv'
  <2>1. pc'[q] = to /\ \A s \in Requests : s # q => pc'[s] = pc[s]
    BY <1>1, MovesTo
  <2>2. \A l \in Loads : (Opening(l)' => Opening(l)) /\ (pc'[l] = "opening" => pc[l] = "opening")
    BY <1>1, <2>1, Kinds DEF Opening
  <2>3. \A s \in Handled : Active(s)' => Active(s) /\ record'[s] = record[s]
    BY <1>1, <2>1, Kinds DEF Active
  <2> QED BY <1>1, <2>2, <2>3, PatientRests
<1>2. ASSUME NEW l \in Loads, Load(l) PROVE PatientInv'
  <2>1. /\ client' = client /\ store' = store /\ history' = history /\ saving' = saving /\ loaded' = loaded
        /\ sessions' = sessions /\ record' = record /\ l \in Requests
    BY <1>2, Kinds DEF Load, records
  <2>2. CASE sessions # None
    BY <1>1, <1>2, <2>1, <2>2 DEF Load, Points
  <2>3. CASE sessions = None
    <3>1. pc'[l] = "loading" /\ \A q \in Requests : q # l => pc'[q] = pc[q]
      BY <1>2, <2>1, <2>3, MovesTo DEF Load, Points
    <3>2. client = "patient" => \A q \in Handled : ~Active(q)
      BY <1>2, Kinds DEF Load, MaySend, Idle, Answered, Active
    <3>3. \A q \in Handled : Active(q)' => Active(q)
      BY <3>1, Kinds DEF Active
    <3>4. client = "patient" => \A m \in Loads : pc'[m] = "opening" => loaded'[m] = store
      BY <2>1, <3>1, Kinds DEF PatientInv
    <3>5. \A m \in Loads : Live(m)' => Live(m)
      BY <2>1, <3>3 DEF Live
    <3> QED BY <2>1, <3>2, <3>3, <3>4, <3>5, PatientKept
  <2> QED BY <2>2, <2>3
<1>3. ASSUME NEW l \in Loads, ReadsStore(l) PROVE PatientInv'
  <2>1. /\ client' = client /\ store' = store /\ history' = history /\ saving' = saving
        /\ sessions' = sessions /\ record' = record /\ l \in Requests /\ pc[l] = "loading"
    BY <1>3, Kinds DEF ReadsStore, records
  <2>2. \/ Moves(l, "opening") /\ loaded'[l] = store
        \/ Moves(l, "refused")
    BY <1>3 DEF ReadsStore, ShapeInv
  <2>3. \A m \in Loads : m # l => loaded'[m] = loaded[m]
    BY <1>3 DEF ReadsStore, ShapeInv
  <2>4. \A q \in Requests : q # l => pc'[q] = pc[q]
    BY <2>1, <2>2, MovesTo DEF Points
  <2>5. pc'[l] = "opening" => loaded'[l] = store
    BY <2>1, <2>2, MovesTo DEF Points
  <2>6. \A q \in Handled : Active(q)' => Active(q)
    BY <2>1, <2>4, Kinds DEF Active
  <2>7. \A m \in Loads : Opening(m)' => Opening(m)
    BY <2>1, <2>4, Kinds DEF Opening
  <2>8. \A m \in Loads : Live(m)' => Live(m)
    BY <2>1, <2>6 DEF Live
  <2>9. client = "patient" => \A m \in Loads : pc'[m] = "opening" => loaded'[m] = store
    BY <2>3, <2>4, <2>5, Kinds DEF PatientInv
  <2>10. client = "patient" => \A m \in Loads : Opening(m)' => \A q \in Handled : ~Active(q)'
    BY <2>6, <2>7 DEF PatientInv
  <2> QED BY <2>1, <2>8, <2>9, <2>10, PatientKept
<1>4. ASSUME NEW l \in Loads, open_session(l) PROVE PatientInv'
  <2>1. /\ client' = client /\ store' = store /\ saving' = saving /\ loaded' = loaded
        /\ record' = record /\ l \in Requests /\ pc[l] = "opening"
    BY <1>4, Kinds DEF open_session
  <2>2. CASE Moves(l, "refused") /\ sessions' = sessions /\ history' = history
    BY <1>1, <2>1, <2>2 DEF Points
  <2>3. CASE Moves(l, "done") /\ sessions' = l /\ history' = [history EXCEPT ![l] = loaded[l]]
    <3> SUFFICES ASSUME client = "patient" PROVE PatientInv'
      BY <2>1 DEF PatientInv
    <3>1. pc'[l] = "done" /\ \A q \in Requests : q # l => pc'[q] = pc[q]
      BY <2>1, <2>3, MovesTo DEF Points
    <3>2. Opening(l) /\ (\A m \in Loads : m # l => ~Opening(m)) /\ (\A q \in Handled : ~Active(q)) /\ loaded[l] = store
      BY <2>1 DEF SerialInv, PatientInv, Opening
    <3>3. \A m \in Loads : ~Opening(m)'
      BY <3>1, <3>2, Kinds DEF Opening
    <3>4. \A q \in Handled : ~Active(q)'
      BY <3>1, <3>2, Kinds DEF Active
    <3>5. \A m \in Loads : Live(m)' => m = l
      BY <2>3, <3>4 DEF Live
    <3>6. history'[l] = store /\ store \in Seq(Exchange)
      BY <2>3, <3>2 DEF ShapeInv
    <3>7. Len(saving[l]) = 0
      <4>1. ASSUME NEW n \in 1 .. Len(saving[l]) PROVE FALSE
        <5>1. pc[saving[l][n].by] = "saving"
          BY DEF SavingInv
        <5> QED BY <3>2, <5>1, Snapshots DEF Active
      <4> QED BY <4>1, Snapshots
    <3>8. Grows(l)'
      BY <2>1, <3>6, <3>7, PreSelf DEF Grows
    <3> QED BY <3>3, <3>5, <3>8 DEF PatientInv, Opening
  <2> QED BY <1>4, <2>2, <2>3 DEF open_session
<1>5. ASSUME NEW l \in Loads, Save(l) PROVE PatientInv'
  <2> DEFINE q == saving[l][1].by
  <2>1. /\ q \in Handled /\ q \in Requests /\ Moves(q, "done") /\ 1 \in 1 .. Len(saving[l])
        /\ \A m \in Loads : m # l => saving'[m] = saving[m]
    BY <1>5, SaveEnds, Kinds
  <2>2. client' = client /\ sessions' = sessions /\ record' = record
    BY <1>5 DEF Save
  <2>3. pc[q] = "saving" /\ record[q] = l
    BY <2>1 DEF SavingInv
  <2> HIDE DEF q
  <2> SUFFICES ASSUME client = "patient" PROVE PatientInv'
    BY <2>2 DEF PatientInv
  <2>4. Active(q) /\ Live(l)
    BY <2>1, <2>3 DEF Active, Live
  <2>5. Grows(l) /\ \A m \in Loads : ~Opening(m) /\ (Live(m) => m = l)
    BY <2>1, <2>4 DEF PatientInv
  <2>6. pc'[q] = "done" /\ \A s \in Requests : s # q => pc'[s] = pc[s]
    BY <2>1, MovesTo DEF Points
  <2>7. \A m \in Loads : ~Opening(m)'
    BY <2>1, <2>5, <2>6, Kinds DEF Opening
  <2>8. \A s \in Handled : Active(s)' => Active(s)
    BY <2>1, <2>6, Kinds DEF Active
  <2>9. \A m \in Loads : Live(m)' => m = l
    BY <2>2, <2>5, <2>8 DEF Live
  <2>10. Grows(l)'
    BY <1>5, <2>5, GrowsStored
  <2> QED BY <2>7, <2>9, <2>10 DEF PatientInv, Opening
<1>6. ASSUME NEW p \in Prompts, Prompt(p) PROVE PatientInv'
  <2>1. /\ client' = client /\ store' = store /\ history' = history /\ saving' = saving /\ loaded' = loaded
        /\ sessions' = sessions
    BY <1>6 DEF Prompt
  <2>2. CASE sessions = None
    BY <1>1, <1>6, <2>1, <2>2 DEF Prompt, Points
  <2>3. CASE sessions # None
    <3>1. record' = [record EXCEPT ![p] = sessions] /\ \E to \in Points : Moves(p, to)
      BY <1>6, <2>3 DEF Prompt, Points
    <3>2. record'[p] = sessions /\ \A s \in Handled : s # p => record'[s] = record[s]
      BY <3>1 DEF ShapeInv
    <3> QED BY <2>1, <2>3, <3>1, <3>2, PatientStarts
  <2> QED BY <2>2, <2>3
<1>7. ASSUME NEW p \in Prompts, run_turn(p) PROVE PatientInv'
  BY <1>1, <1>7 DEF run_turn, records, Points, Active
<1>8. ASSUME NEW p \in Prompts, InputThrows(p) PROVE PatientInv'
  <2>1. /\ client' = client /\ store' = store /\ history' = history /\ loaded' = loaded
        /\ sessions' = sessions /\ record' = record
        /\ pc[p] = "waiting" /\ save_session(p, history[record[p]])
    BY <1>8 DEF InputThrows
  <2>2. history[record[p]] \in Seq(Exchange)
    BY <2>1 DEF PlaceInv, ShapeInv
  <2> QED BY <2>1, <2>2, PreSelf, PatientSaves
<1>9. ASSUME NEW p \in Prompts, TurnEnds(p) PROVE PatientInv'
  <2>1. PICK h \in Seq(Exchange) : h = history'[record[p]] /\ save_session(p, h)
    BY <1>9, TurnEnding
  <2>2. /\ client' = client /\ store' = store /\ loaded' = loaded /\ sessions' = sessions /\ record' = record
        /\ pc[p] = "running"
    BY <1>9 DEF TurnEnds
  <2>3. /\ record[p] \in Loads /\ h \in {history[record[p]], Append(history[record[p]], p)}
        /\ \A l \in Loads : l # record[p] => history'[l] = history[l]
    BY <1>9, <2>1, TurnEnding
  <2>4. history[record[p]] \in Seq(Exchange) /\ p \in Exchange
    BY <2>3 DEF ShapeInv, Exchange
  <2>5. Pre(history[record[p]], h)
    BY <2>3, <2>4, PreSelf, PreLonger
  <2> QED BY <2>1, <2>2, <2>3, <2>5, PatientSaves
<1>10. ASSUME NEW s \in Settings, Set(s) PROVE PatientInv'
  <2>1. /\ client' = client /\ store' = store /\ history' = history /\ saving' = saving /\ loaded' = loaded
        /\ sessions' = sessions /\ s \in Handled /\ s \in Requests /\ pc[s] = "unsent"
        /\ record' = [record EXCEPT ![s] = sessions]
    BY <1>10, Kinds DEF Set, records, MaySend
  <2>2. record'[s] = sessions /\ \A q \in Handled : q # s => record'[q] = record[q]
    BY <2>1 DEF ShapeInv
  <2>3. CASE sessions = None
    <3>1. Moves(s, "refused") /\ ~Active(s)
      BY <1>10, <2>1, <2>3 DEF Set, Active
    <3> QED BY <1>1, <2>1, <2>2, <3>1 DEF Points
  <2>4. CASE sessions # None
    <3>1. Moves(s, "sending") /\ "sending" \in Points
      BY <1>10, <2>4 DEF Set, Points
    <3> QED BY <2>1, <2>2, <2>4, <3>1, PatientStarts
  <2> QED BY <2>3, <2>4
<1>11. ASSUME NEW s \in Settings, SetSaves(s) PROVE PatientInv'
  <2>1. /\ client' = client /\ store' = store /\ history' = history /\ loaded' = loaded
        /\ sessions' = sessions /\ record' = record /\ s \in Handled
        /\ pc[s] = "sending" /\ save_session(s, history[record[s]])
    BY <1>11, Kinds DEF SetSaves
  <2>2. history[record[s]] \in Seq(Exchange)
    BY <2>1 DEF PlaceInv, ShapeInv
  <2> QED BY <2>1, <2>2, PreSelf, PatientSaves
<1>12. ASSUME NEW c \in Closers, NEW to \in {"closing", "done", "refused"}, Moves(c, to),
              client' = client, store' = store, history' = history, saving' = saving, loaded' = loaded,
              \/ sessions' = sessions /\ record' = record
              \/ sessions # None /\ close_session(c)
       PROVE  PatientInv'
  <2>1. ~Active(c) /\ to \in Points /\ c \in Requests
    BY DEF PlaceInv, Place, Active, Points
  <2>2. sessions' \in {sessions, None} /\ \A s \in Handled : s # c => record'[s] = record[s]
    BY <1>12, SessionClosed
  <2> QED BY <1>1, <1>12, <2>1, <2>2
<1>13. ASSUME NEW c \in Closes, Close(c) PROVE PatientInv'
  <2>1. /\ client' = client /\ store' = store /\ history' = history /\ saving' = saving /\ loaded' = loaded
        /\ c \in Closers
    BY <1>13, Kinds DEF Close, records
  <2>2. \E to \in {"closing", "refused"} : Moves(c, to)
    BY <1>13 DEF Close
  <2>3. \/ sessions' = sessions /\ record' = record
        \/ sessions # None /\ close_session(c)
    BY <1>13 DEF Close
  <2> QED BY <1>12, <2>1, <2>2, <2>3
<1>14. ASSUME NEW c \in Closers, ClosesServers(c) PROVE PatientInv'
  BY <1>12, <1>14 DEF ClosesServers
<1>15. ASSUME CancelTurn PROVE PatientInv'
  BY <1>15, PatientRests DEF CancelTurn, records, Opening, Active
<1>16. ASSUME Disconnect PROVE PatientInv'
  <2>1. /\ client' = client /\ store' = store /\ history' = history /\ saving' = saving /\ loaded' = loaded
    BY <1>16 DEF Disconnect, records
  <2>2. CASE sessions = None
    BY <1>16, <2>1, <2>2, PatientRests DEF Disconnect, Opening, Active
  <2>3. CASE sessions # None
    BY <1>12, <1>16, <2>1, <2>3, Kinds DEF Disconnect
  <2> QED BY <2>2, <2>3
<1> QED BY <1>2, <1>3, <1>4, <1>5, <1>6, <1>7, <1>8, <1>9, <1>10, <1>11, <1>13, <1>14, <1>15, <1>16 DEF Next, Handles

----------------------------------------------------------------------------
(* The invariant. *)

LEMMA SessionStarts == Init => SessionInv
<1> SUFFICES ASSUME Init PROVE SessionInv
  OBVIOUS
<1> USE Kinds
<1>1. ShapeInv
  <2>1. <<Past>> \in Seq(Exchange)
    BY DEF Exchange
  <2>2. saving \in [Loads -> Seq(SaveType)] /\ loaded \in [Loads -> Seq(Exchange)] /\ history \in [Loads -> Seq(Exchange)]
    BY DEF Init
  <2>3. pc \in [Requests -> Points]
    BY DEF Init, Points
  <2> QED BY <2>1, <2>2, <2>3 DEF Init, ShapeInv, Handled
<1>2. /\ \A q \in Requests : pc[q] = "unsent"
      /\ \A q \in Handled : record[q] = None
      /\ sessions = None /\ connected
      /\ \A l \in Loads : saving[l] = <<>> /\ last_turn[l] = None /\ mcp[l] = "none"
  BY DEF Init, Handled
<1>3. PlaceInv
  BY <1>2 DEF PlaceInv, Place
<1>4. SavingInv
  BY <1>2 DEF SavingInv
<1>5. TurnsInv
  <2>1. [p \in Prompts |-> 0] \in [Prompts -> 0 .. 0]
    OBVIOUS
  <2>2. Ordered([p \in Prompts |-> 0])
    BY <1>2 DEF Ordered
  <2> QED BY <2>1, <2>2 DEF TurnsInv
<1>6. ClosingInv /\ ServersInv
  BY <1>2 DEF ClosingInv, ServersInv, Unsettled
<1>7. SerialInv
  BY <1>2 DEF SerialInv, Opening, Unsettled
<1>8. PatientInv
  BY <1>2 DEF PatientInv, Opening, Active, Live
<1> QED BY <1>1, <1>3, <1>4, <1>5, <1>6, <1>7, <1>8 DEF SessionInv

LEMMA SessionStep == SessionInv /\ [Next]_vars => SessionInv'
<1> SUFFICES ASSUME SessionInv, [Next]_vars PROVE SessionInv'
  OBVIOUS
<1>1. ShapeInv /\ PlaceInv /\ SavingInv /\ TurnsInv /\ ClosingInv /\ ServersInv /\ SerialInv /\ PatientInv
  BY DEF SessionInv
<1>2. CASE Next
  BY <1>1, <1>2, ShapeStep, PlaceStep, SavingStep, TurnsStep, ClosingStep, ServersStep, SerialStep, PatientStep
     DEF SessionInv
<1>3. CASE UNCHANGED vars
  <2>1. ShapeInv' /\ PlaceInv' /\ SavingInv' /\ ClosingInv' /\ ServersInv'
    BY <1>1, <1>3 DEF vars, records, ShapeInv, PlaceInv, Place, SavingInv, ClosingInv, ServersInv, Unsettled
  <2>2. TurnsInv'
    BY <1>1, <1>3, TurnsKept DEF vars, records, Unsettled
  <2>3. SerialInv'
    BY <1>1, <1>3 DEF vars, records, SerialInv, Opening, Unsettled, Closing
  <2>4. PatientInv'
    BY <1>1, <1>3, PatientRests DEF vars, records, Opening, Active
  <2> QED BY <2>1, <2>2, <2>3, <2>4 DEF SessionInv
<1> QED BY <1>2, <1>3

LEMMA SessionIsInvariant == Spec => []SessionInv
<1>1. Init => SessionInv
  BY SessionStarts
<1>2. SessionInv /\ [Next]_vars => SessionInv'
  BY SessionStep
<1> QED BY <1>1, <1>2, PTL DEF Spec

----------------------------------------------------------------------------
(* The theorems. *)

(* The variables have their types, whatever requests there are: what is    *)
(* stored and what is queued to be stored is made of the session's         *)
(* prompts, and a request that is being handled has a record to work on.   *)
THEOREM TypeCorrect == Spec => []TypeOK
<1>1. SessionInv => TypeOK
  <2> SUFFICES ASSUME SessionInv PROVE TypeOK
    OBVIOUS
  <2>1. ShapeInv /\ PlaceInv /\ SavingInv
    BY DEF SessionInv
  <2>2. \A l \in Loads : {loaded[l], history[l]} \subseteq Seq(Prompts \cup {Past}) /\ last_turn[l] \in Prompts \cup {None}
                        /\ mcp[l] \in {"none", "open", "closed"}
    BY <2>1 DEF ShapeInv, Exchange
  <2>3. \A l \in Loads : \A n \in 1 .. Len(saving[l]) : pc[saving[l][n].by] = "saving"
    BY <2>1 DEF SavingInv
  <2>4. \A q \in Requests \ Loads :
          pc[q] \in {"waiting", "running", "sending", "saving", "closing"} => record[q] \in Loads
    BY <2>1 DEF ShapeInv, PlaceInv, Handled
  <2> QED BY <2>1, <2>2, <2>3, <2>4 DEF TypeOK, ShapeInv, Exchange, Points
<1> QED BY <1>1, SessionIsInvariant, PTL

(* For any number of loads, prompts, settings and closes, however their    *)
(* handlers interleave at their awaits: the turns of a session never       *)
(* overlap, a turn that runs has the MCP servers of its session, and once  *)
(* the editor is gone and all has returned, none of its servers is left.   *)
THEOREM SessionsAreHeld == Spec => []SessionsHold
<1>1. SessionInv => SessionsHold
  <2> SUFFICES ASSUME SessionInv PROVE SessionsHold
    OBVIOUS
  <2>1. ShapeInv /\ PlaceInv /\ TurnsInv /\ ServersInv /\ SerialInv
    BY DEF SessionInv
  <2>2. TurnsNeverOverlap
    <3> SUFFICES ASSUME client # "hasty", NEW p \in Prompts, NEW q \in Prompts, pc[p] = "running", pc[q] = "running"
                 PROVE  p = q
      BY DEF TurnsNeverOverlap
    <3>1. record[p] # None /\ record[q] = record[p] /\ Unsettled(p) /\ Unsettled(q)
      BY <2>1, RequestsOf DEF PlaceInv, SerialInv, Unsettled
    <3>2. PICK k \in Nat : \E rank \in [Prompts -> 0 .. k] : Ordered(rank)
      BY <2>1 DEF TurnsInv
    <3>3. PICK rank \in [Prompts -> 0 .. k] : Ordered(rank)
      BY <3>2
    <3>4. rank[p] \in Int /\ rank[q] \in Int
      BY <3>3
    <3>5. ~(rank[p] < rank[q]) /\ ~(rank[q] < rank[p])
      BY <3>1, <3>3 DEF Ordered
    <3>6. rank[p] = rank[q] => p = q
      BY <3>1, <3>3 DEF Ordered
    <3> QED BY <3>4, <3>5, <3>6
  <2>3. ToolsHaveTheirServers
    BY <2>1 DEF ToolsHaveTheirServers, ServersInv, Unsettled
  <2>4. NoServerOutlivesTheEditor
    <3> SUFFICES ASSUME client # "hasty", ~connected, Idle(Requests), NEW l \in Loads, mcp[l] = "open" PROVE FALSE
      BY DEF NoServerOutlivesTheEditor
    <3>1. sessions = None /\ Closing(l)
      BY <2>1, Kinds DEF SerialInv
    <3> QED BY <3>1, RequestsOf DEF Closing, Idle, Answered
  <2> QED BY <2>2, <2>3, <2>4 DEF SessionsHold
<1> QED BY <1>1, SessionIsInvariant, PTL

LEMMA PreIsPrefix ==
  ASSUME NEW s \in Seq(Exchange), NEW t \in Seq(Exchange), Pre(s, t)
  PROVE  IsPrefix(s, t)
<1>1. Len(s) <= Len(t) /\ Len(s) \in Nat /\ Len(t) \in Nat
  BY DEF Pre
<1>2. SubSeq(s, 1, Len(s)) = SubSeq(t, 1, Len(s))
  BY <1>1 DEF Pre
<1> QED BY <1>1, <1>2 DEF IsPrefix

(* For a client that waits for every answer before it loads a session      *)
(* again, the stored session only ever grows: no save that is queued or    *)
(* late, and none of an older record, takes an exchange away.              *)
THEOREM StoreGrows == Spec => NoExchangeIsLost
<1>1. SessionInv /\ [Next]_vars => [client = "patient" => IsPrefix(store, store')]_vars
  <2> SUFFICES ASSUME SessionInv, [Next]_vars, client = "patient" PROVE IsPrefix(store, store')
    OBVIOUS
  <2>1. ShapeInv /\ PlaceInv /\ SavingInv /\ PatientInv /\ store \in Seq(Exchange)
    BY DEF SessionInv, ShapeInv
  <2>2. CASE store' = store
    BY <2>1, <2>2, PreSelf, PreIsPrefix
  <2>3. ASSUME NEW l \in Loads, Save(l) PROVE IsPrefix(store, store')
    <3>1. saving[l][1].by \in Handled /\ 1 \in 1 .. Len(saving[l]) /\ store' \in Seq(Exchange)
      BY <2>1, <2>3, SaveEnds
    <3>2. pc[saving[l][1].by] = "saving" /\ record[saving[l][1].by] = l
      BY <2>1, <3>1 DEF SavingInv
    <3>3. Live(l)
      BY <3>1, <3>2 DEF Live, Active
    <3>4. Grows(l)
      BY <2>1, <3>3 DEF PatientInv
    <3> QED BY <2>1, <2>3, <3>1, <3>4, GrowsStored, PreIsPrefix
  <2>4. store' = store \/ \E l \in Loads : Save(l)
    BY DEF Next, Handles, Load, ReadsStore, open_session, Prompt, run_turn, InputThrows, TurnEnds, Set, SetSaves, Close,
           ClosesServers, CancelTurn, Disconnect, vars
  <2> QED BY <2>2, <2>3, <2>4
<1> QED BY <1>1, SessionIsInvariant, PTL DEF Spec, NoExchangeIsLost

----------------------------------------------------------------------------
(* RunCommand: the call of the shell tool, its processes and its timers.   *)

CONSTANTS OutputLimit, MaxPrints
VARIABLES rc_shell, rc_group, rc_outside, rc_printed, rc_unread, rc_capture, rc_reading, rc_closed, rc_timer,
          rc_grace, rc_aborted, rc_listening, rc_outcome

TheCommand == INSTANCE RunCommand WITH
  shell <- rc_shell, group <- rc_group, outside <- rc_outside, printed <- rc_printed, unread <- rc_unread,
  capture <- rc_capture, reading <- rc_reading, closed <- rc_closed, timer <- rc_timer, grace <- rc_grace,
  aborted <- rc_aborted, listening <- rc_listening, outcome <- rc_outcome, Limit <- OutputLimit,
  MaxPrints <- MaxPrints, None <- None

(* The types. *)
Flags ==
  /\ rc_group \in BOOLEAN /\ rc_outside \in BOOLEAN /\ rc_reading \in BOOLEAN /\ rc_closed \in BOOLEAN
  /\ rc_aborted \in BOOLEAN /\ rc_listening \in BOOLEAN

Places ==
  /\ rc_shell \in {"unborn", "runs", "dead", "exited"}
  /\ rc_timer \in {"off", "armed", "fired"} /\ rc_grace \in {"off", "armed", "fired"}
  /\ rc_outcome \in {None, "aborted", "no shell", "finished", "held", "timed out"}

(* What was printed is in the pipe or was read. *)
PipeInv ==
  /\ rc_printed \in Nat /\ rc_unread \in Nat /\ rc_capture.total \in Nat
  /\ rc_capture.total + rc_unread = rc_printed

(* How far the call has come with its shell. *)
CallInv ==
  /\ rc_shell = "unborn" => ~rc_group /\ rc_timer = "off" /\ ~rc_closed /\ ~rc_reading /\ rc_printed = 0
  /\ rc_shell = "exited" => ~rc_group /\ rc_timer # "armed"
  /\ rc_shell # "exited" => rc_grace = "off"
  /\ TheCommand!settled => rc_timer # "armed" /\ rc_grace # "armed" /\ ~rc_listening
  /\ rc_outcome \in {"finished", "held", "timed out"} => rc_shell = "exited" /\ rc_closed
  /\ rc_outcome = "finished" => rc_grace # "fired"
  /\ rc_outcome \in {"finished", "timed out"} /\ rc_grace # "fired" => rc_unread = 0
  /\ rc_closed => rc_shell = "exited"
  (* Only the grace timer destroys the streams of a call that waits. *)
  /\ ~TheCommand!settled /\ rc_shell \in {"runs", "dead", "exited"} => rc_reading \/ rc_grace = "fired"
  /\ rc_closed => TheCommand!settled

CommandInv == Flags /\ Places /\ PipeInv /\ CallInv

CommandAssumption == None \notin {"aborted", "no shell", "finished", "held", "timed out"}

LEMMA CommandStarts == ASSUME CommandAssumption PROVE TheCommand!Init => CommandInv
<1> SUFFICES ASSUME TheCommand!Init PROVE CommandInv
  OBVIOUS
<1>1. /\ rc_shell = "unborn" /\ rc_group = FALSE /\ rc_outside = FALSE /\ rc_printed = 0 /\ rc_unread = 0
           /\ rc_capture.total = 0
      /\ rc_reading = FALSE /\ rc_closed = FALSE /\ rc_timer = "off" /\ rc_grace = "off" /\ rc_listening = FALSE
      /\ rc_aborted \in BOOLEAN /\ rc_outcome = None
  BY DEF TheCommand!Init
<1>2. Places /\ PipeInv
  BY <1>1 DEF Places, PipeInv
<1>4. Flags
  BY <1>1 DEF Flags
<1>3. CallInv
  BY <1>1 DEF CallInv, TheCommand!settled, CommandAssumption
<1> QED BY <1>2, <1>3, <1>4 DEF CommandInv

LEMMA CommandKeeps ==
  ASSUME CommandAssumption PROVE CommandInv /\ [TheCommand!Next]_(TheCommand!vars) => CommandInv'
<1> SUFFICES ASSUME CommandInv, [TheCommand!Next]_(TheCommand!vars) PROVE CommandInv'
  OBVIOUS
<1>0. Flags /\ Places /\ PipeInv /\ CallInv
  BY DEF CommandInv
<1>1. CASE TheCommand!Spawns
  BY <1>0, <1>1, CommandAssumption DEF CommandInv, Flags, Places, PipeInv, CallInv, TheCommand!settled,
       CommandAssumption, TheCommand!Spawns, TheCommand!Settles, TheCommand!Cleared
<1>2. CASE TheCommand!on_exit
  BY <1>0, <1>2 DEF CommandInv, Flags, Places, PipeInv, CallInv, TheCommand!settled, TheCommand!on_exit,
       TheCommand!Cleared
<1>3. CASE TheCommand!take
  <2>1. UNCHANGED <<rc_shell, rc_group, rc_outside, rc_printed, rc_reading, rc_closed, rc_timer, rc_grace,
                   rc_listening, rc_aborted, rc_outcome>>
    BY <1>3 DEF TheCommand!take, TheCommand!processes, TheCommand!timers
  <2>2. rc_unread > 0 /\ rc_unread' = rc_unread - 1 /\ rc_capture'.total = rc_capture.total + 1
          /\ rc_printed' = rc_printed
    BY <1>3, <2>1 DEF TheCommand!take
  <2>3. PipeInv'
    BY <1>0, <2>2 DEF PipeInv
  <2>4. rc_unread # 0
    BY <1>0, <2>2 DEF PipeInv
  <2>5. CallInv' /\ Flags' /\ Places'
    BY <1>0, <2>1, <2>4 DEF CallInv, Flags, Places, TheCommand!settled
  <2> QED BY <2>3, <2>5 DEF CommandInv
<1>4. CASE TheCommand!on_close
  BY <1>0, <1>4, CommandAssumption DEF CommandInv, Flags, Places, PipeInv, CallInv, TheCommand!settled,
       CommandAssumption, TheCommand!on_close, TheCommand!OutputEnds, TheCommand!Settles, TheCommand!Cleared,
    TheCommand!processes, TheCommand!timers
<1>5. CASE TheCommand!Prints
  <2>1. UNCHANGED <<rc_shell, rc_group, rc_outside, rc_capture, rc_reading, rc_closed, rc_timer, rc_grace,
                   rc_listening, rc_aborted, rc_outcome>>
    BY <1>5 DEF TheCommand!Prints, TheCommand!timers
  <2>2. rc_printed' = rc_printed + 1 /\ rc_unread' = rc_unread + 1
    BY <1>5 DEF TheCommand!Prints
  <2>3. rc_shell \notin {"unborn", "exited"} /\ rc_outcome \notin {"finished", "timed out"}
    BY <1>0, <1>5 DEF TheCommand!Prints, TheCommand!Alive, CallInv
  <2>4. PipeInv'
    <3>1. rc_capture'.total = rc_capture.total /\ rc_capture.total \in Nat /\ rc_unread \in Nat
            /\ rc_printed \in Nat
      BY <1>0, <2>1 DEF PipeInv
    <3>2. rc_capture.total + rc_unread = rc_printed
      BY <1>0 DEF PipeInv
    <3> QED BY <2>2, <3>1, <3>2 DEF PipeInv
  <2>5. CallInv' /\ Flags' /\ Places'
    BY <1>0, <2>1, <2>3 DEF CallInv, Flags, Places, TheCommand!settled
  <2> QED BY <2>4, <2>5 DEF CommandInv
<1>6. CASE TheCommand!Forks
  BY <1>0, <1>6 DEF CommandInv, Flags, Places, PipeInv, CallInv, TheCommand!settled, TheCommand!Forks,
       TheCommand!timers
<1>7. CASE TheCommand!JobEnds
  <2>1. UNCHANGED <<rc_shell, rc_printed, rc_unread, rc_capture, rc_reading, rc_closed, rc_timer, rc_grace,
                   rc_listening, rc_aborted, rc_outcome>>
    BY <1>7 DEF TheCommand!JobEnds, TheCommand!timers
  <2>2. rc_group' = FALSE \/ rc_group' = rc_group
    BY <1>7 DEF TheCommand!JobEnds
  <2>3. rc_outside' = FALSE \/ rc_outside' = rc_outside
    BY <1>7 DEF TheCommand!JobEnds
  <2>4. Flags' /\ (~rc_group => ~rc_group')
    <3>1. UNCHANGED <<rc_reading, rc_closed, rc_listening, rc_aborted>>
      BY <2>1
    <3>2. rc_group' \in BOOLEAN /\ (~rc_group => ~rc_group')
      <4>1. CASE rc_group' = FALSE
        BY <4>1
      <4>2. CASE rc_group' = rc_group
        BY <1>0, <4>2 DEF Flags
      <4> QED BY <2>2, <4>1, <4>2
    <3>3. rc_outside' \in BOOLEAN
      BY <1>0, <2>3, Zenon DEF Flags
    <3> QED BY <1>0, <3>1, <3>2, <3>3 DEF Flags
  <2>5. Places' /\ PipeInv'
    BY <1>0, <2>1 DEF Places, PipeInv
  <2>6. CallInv'
    BY <1>0, <2>1, <2>4 DEF CallInv, TheCommand!settled
  <2> QED BY <2>4, <2>5, <2>6 DEF CommandInv
<1>8. CASE TheCommand!ShellEnds
  BY <1>0, <1>8 DEF CommandInv, Flags, Places, PipeInv, CallInv, TheCommand!settled, TheCommand!ShellEnds,
       TheCommand!timers
<1>9. CASE TheCommand!on_abort
  BY <1>0, <1>9, CommandAssumption DEF CommandInv, Flags, Places, PipeInv, CallInv, TheCommand!settled,
       CommandAssumption, TheCommand!on_abort, TheCommand!kill_group,
    TheCommand!Settles, TheCommand!Cleared, TheCommand!timers
<1>10. CASE TheCommand!TimesOut
  BY <1>0, <1>10 DEF CommandInv, Flags, Places, PipeInv, CallInv, TheCommand!settled, TheCommand!TimesOut,
       TheCommand!kill_group
<1>11. CASE TheCommand!GraceEnds
  BY <1>0, <1>11 DEF CommandInv, Flags, Places, PipeInv, CallInv, TheCommand!settled, TheCommand!GraceEnds,
       TheCommand!processes
<1>12. CASE UNCHANGED TheCommand!vars
  BY <1>0, <1>12 DEF CommandInv, Flags, Places, PipeInv, CallInv, TheCommand!settled, TheCommand!vars,
       TheCommand!processes, TheCommand!timers
<1> QED BY <1>1, <1>2, <1>3, <1>4, <1>5, <1>6, <1>7, <1>8, <1>9, <1>10, <1>11, <1>12 DEF TheCommand!Next,
  TheCommand!Call, TheCommand!Command

LEMMA NothingIsAdded == ASSUME NEW n \in Nat, NEW m, NEW k, k = 0, n + k = m PROVE n = m
OBVIOUS

(* A command that ran to its end or that its timeout killed has all that   *)
(* was printed counted, unless the grace after its exit ran out, and a     *)
(* settled call has left no timer, no listener and nothing in the shell's  *)
(* group (run_command.ts), however many chunks the command prints and      *)
(* whatever limit the output has.                                          *)
THEOREM CommandReports == ASSUME CommandAssumption PROVE TheCommand!Spec => []TheCommand!ReportIsWhole
<1>1. CommandInv => TheCommand!ReportIsWhole
  <2> SUFFICES ASSUME CommandInv PROVE TheCommand!ReportIsWhole
    OBVIOUS
  <2>1. rc_outcome \in {"finished", "timed out"} /\ rc_grace # "fired" => rc_capture.total = rc_printed
    <3> SUFFICES ASSUME rc_outcome \in {"finished", "timed out"}, rc_grace # "fired"
                 PROVE  rc_capture.total = rc_printed
      OBVIOUS
    <3>1. PICK n : n = rc_capture.total
      OBVIOUS
    <3>2. n \in Nat /\ n + rc_unread = rc_printed
      BY <3>1 DEF CommandInv, PipeInv
    <3>3. rc_unread = 0
      BY DEF CommandInv, CallInv
    <3>4. n = rc_printed
      BY <3>2, <3>3, NothingIsAdded
    <3> QED BY <3>1, <3>4
  <2>2. rc_outcome \in {"finished", "held", "timed out"} => ~TheCommand!Alive
    BY DEF CommandInv, CallInv, TheCommand!Alive
  <2>3. /\ rc_outcome = "finished" => rc_grace # "fired"
        /\ TheCommand!settled => rc_timer # "armed" /\ rc_grace # "armed" /\ ~rc_listening
        /\ rc_shell = "exited" => ~rc_group
    BY DEF CommandInv, CallInv
  <2> QED BY <2>1, <2>2, <2>3 DEF TheCommand!ReportIsWhole
<1> QED BY <1>1, CommandStarts, CommandKeeps, PTL DEF TheCommand!Spec

----------------------------------------------------------------------------
(* McpServers: the connections that a session's servers have.              *)

CONSTANTS Servers, Transport(_), Offers(_), Named(_, _), FlowTools, MaxCalls
VARIABLES ms_at, ms_open, ms_stuck, ms_session, ms_tools, ms_call, ms_asked, ms_granted, ms_aborted, ms_told

TheServers == INSTANCE McpServers WITH
  at <- ms_at, open <- ms_open, stuck <- ms_stuck, session <- ms_session, tools <- ms_tools, call <- ms_call,
  asked <- ms_asked, granted <- ms_granted, aborted <- ms_aborted, told <- ms_told, Servers <- Servers,
  Transport <- Transport, Offers <- Offers, Named <- Named, FlowTools <- FlowTools, MaxCalls <- MaxCalls,
  None <- None

(* A connection is somebody's, and a closed session has none under way. *)
ConnectionsInv ==
  /\ ms_at \in [Servers -> {"connecting", "listing", "undoing", "up", "closing", "out"}]
  /\ ms_open \subseteq Servers
  /\ \A s \in ms_open : ms_at[s] # "connecting" /\ (s \in ms_stuck \/ ms_at[s] # "out")
  /\ ms_session = "closed" => \A s \in Servers : ms_at[s] = "out"

LEMMA ServersStart == TheServers!Init => ConnectionsInv
BY DEF TheServers!Init, ConnectionsInv

(* One server connects, lists, is let go of or dies. *)
LEMMA ServerOK ==
  ASSUME ConnectionsInv, NEW s \in Servers, TheServers!connect_client(s) \/ TheServers!lists(s)
           \/ TheServers!disconnects(s) \/ TheServers!Dies(s)
  PROVE  ConnectionsInv'
<1>1. CASE TheServers!connect_client(s)
  <2>1. CASE ms_at' = [ms_at EXCEPT ![s] = "listing"] /\ ms_open' = ms_open \union {s}
    BY <1>1, <2>1 DEF TheServers!connect_client, ConnectionsInv
  <2>2. CASE ms_at' = [ms_at EXCEPT ![s] = "out"] /\ UNCHANGED ms_open
    <3>1. ms_at'[s] = "out" /\ ms_at' \in [Servers -> {"connecting", "listing", "undoing", "up", "closing", "out"}]
      BY <2>2 DEF ConnectionsInv
    <3>2. s \notin ms_open
      BY <1>1 DEF TheServers!connect_client, ConnectionsInv
    <3> QED BY <1>1, <2>2, <3>1, <3>2 DEF TheServers!connect_client, ConnectionsInv
  <2> QED BY <1>1, <2>1, <2>2 DEF TheServers!connect_client
<1>2. CASE TheServers!lists(s)
  BY <1>2 DEF TheServers!lists, ConnectionsInv
<1>3. CASE TheServers!disconnects(s)
  BY <1>3 DEF TheServers!disconnects, ConnectionsInv
<1>4. CASE TheServers!Dies(s)
  BY <1>4 DEF TheServers!Dies, ConnectionsInv
<1> QED BY <1>1, <1>2, <1>3, <1>4

LEMMA ServersKeep == ConnectionsInv /\ [TheServers!Next]_(TheServers!vars) => ConnectionsInv'
<1> SUFFICES ASSUME ConnectionsInv, [TheServers!Next]_(TheServers!vars) PROVE ConnectionsInv'
  OBVIOUS
<1>1. CASE \E s \in Servers : TheServers!connect_client(s) \/ TheServers!lists(s) \/ TheServers!disconnects(s)
             \/ TheServers!Dies(s)
  BY <1>1, ServerOK
<1>2. CASE TheServers!connect_mcp_servers
  BY <1>2 DEF TheServers!connect_mcp_servers, TheServers!connections, ConnectionsInv
<1>3. CASE TheServers!close_all
  BY <1>3 DEF TheServers!close_all, TheServers!Up, ConnectionsInv
<1>4. CASE TheServers!Closed
  BY <1>4 DEF TheServers!Closed, TheServers!connections, ConnectionsInv
<1>5. CASE TheServers!needs_approval \/ TheServers!approve \/ TheServers!execute \/ TheServers!ServerAnswers
             \/ TheServers!Cancels \/ UNCHANGED TheServers!vars
  <2>1. UNCHANGED <<ms_at, ms_open, ms_stuck, ms_session>>
    BY <1>5 DEF TheServers!needs_approval, TheServers!approve, TheServers!execute, TheServers!ServerAnswers,
         TheServers!Cancels, TheServers!vars, TheServers!connections
  <2> QED BY <2>1 DEF ConnectionsInv
<1> QED BY <1>1, <1>2, <1>3, <1>4, <1>5 DEF TheServers!Next

(* No connection is left to nobody, and none outlives its session but one  *)
(* that could not be closed (mcp_client, close_all), for any servers.      *)
THEOREM ServersAreLetGo == TheServers!Spec => []TheServers!NoServerIsLost
<1>1. ConnectionsInv => TheServers!NoServerIsLost
  BY DEF ConnectionsInv, TheServers!NoServerIsLost
<1> QED BY <1>1, ServersStart, ServersKeep, PTL DEF TheServers!Spec
=============================================================================
