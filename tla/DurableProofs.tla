--------------------------- MODULE DurableProofs ---------------------------
(* Theorems about Durable, for any calls, flows, failures and stalls.      *)
EXTENDS Durable, WellFoundedInduction, TLAPS

----------------------------------------------------------------------------
(* The flow's stop: the least gate of the flow that stops a drive exists.  *)

(* A gate's datum for good: one is there, and the gate does not refuse it. *)
Accepted(d) == d \notin Refused \cup {NoDatum}

(* A suspended record waits at a gate that has no datum for good. *)
Suspendable(r) ==
  r.status = "suspended" => r.gate \in Gates /\ ~Accepted(r.resume[r.gate])

(* Record q may be saved over record r. *)
Follows(r, q) ==
  /\ q.rev = r.rev
  /\ q.input = r.input
  /\ r.status # "done"
  /\ \A g \in Gates : Accepted(r.resume[g]) => q.resume[g] = r.resume[g]

LEMMA FirstStopIsGate ==
  ASSUME NEW r \in Record, StopsAt(r) # {}
  PROVE  /\ FirstStop(r) \in Gates /\ ~Accepted(r.resume[FirstStop(r)])
         /\ \E i \in DOMAIN FlowOf[r.flow] : FirstStop(r) = FlowOf[r.flow][i]
PROOF
  <1> DEFINE S == StopsAt(r)
  <1>1. FlowOf[r.flow] \in Seq(Gates) /\ S \subseteq DOMAIN FlowOf[r.flow]
    BY FlowAssumption DEF Record, StopsAt
  <1>2. S \subseteq Nat
    BY <1>1
  <1>3. PICK m \in S : \A k \in S : <<k, m>> \notin OpToRel(<, Nat)
    BY <1>2, WFMin, NatLessThanWellFounded, Zenon
  <1>4. \A k \in S : ~ (k < m)
    BY <1>2, <1>3, Zenon DEF OpToRel
  <1>5. \A k \in S : m <= k
    BY <1>2, <1>4
  <1>6. (CHOOSE i \in S : \A j \in S : i <= j) \in S
    BY <1>3, <1>5, Zenon
  <1>7. PICK i \in S : FirstStop(r) = FlowOf[r.flow][i]
    BY <1>6, Zenon DEF FirstStop
  <1>8. ~Accepted(r.resume[FlowOf[r.flow][i]])
    BY DEF StopsAt, Accepted
  <1> QED
    BY <1>1, <1>7, <1>8

LEMMA AtRestIsRecord ==
  ASSUME NEW r \in Record, r.status # "done", ~Refuses(r)
  PROVE  /\ AtRest(r) \in Record
         /\ Suspendable(AtRest(r))
         /\ Follows(r, AtRest(r))
PROOF
  <1>1. CASE StopsAt(r) = {}
    BY <1>1 DEF AtRest, Record, Statuses, Suspendable, Follows
  <1>2. CASE StopsAt(r) # {}
    <2>1. FirstStop(r) \in Gates /\ ~Accepted(r.resume[FirstStop(r)])
      BY <1>2, FirstStopIsGate
    <2> QED
      BY <1>2, <2>1 DEF AtRest, Record, Statuses, Suspendable, Follows
  <1> QED
    BY <1>1, <1>2

LEMMA RefusalIsRecord ==
  ASSUME NEW r \in Record, r.status # "done", Refuses(r)
  PROVE  /\ Refusal(r) \in Record
         /\ Suspendable(Refusal(r))
         /\ Follows(r, Refusal(r))
         /\ Refusal(r).status # "done"
PROOF
  <1>1. FirstStop(r) \in Gates /\ ~Accepted(r.resume[FirstStop(r)])
    BY FirstStopIsGate DEF Refuses
  <1>2. CASE r.gate = FirstStop(r)
    <2> DEFINE data == [r.resume EXCEPT ![r.gate] = NoDatum]
    <2>1. Refusal(r) = [r EXCEPT !.status = "suspended", !.resume = data]
      BY <1>2 DEF Refusal, Record
    <2>2. /\ data \in Resumed
          /\ data[r.gate] = NoDatum
          /\ \A g \in Gates : Accepted(r.resume[g]) => data[g] = r.resume[g]
      BY <1>1, <1>2 DEF Record, Resumed
    <2> HIDE DEF data
    <2>3. Refusal(r) \in Record /\ Refusal(r).resume = data /\ Refusal(r).gate = r.gate
      BY <2>1, <2>2 DEF Record, Statuses
    <2>4. Refusal(r).rev = r.rev /\ Refusal(r).input = r.input /\ Refusal(r).status = "suspended"
      BY <2>1 DEF Record
    <2> QED
      BY <1>1, <1>2, <2>2, <2>3, <2>4 DEF Suspendable, Follows, Accepted
  <1>3. CASE r.gate # FirstStop(r)
    BY <1>3 DEF Refusal, Failed, Record, Statuses, Suspendable, Follows
  <1> QED
    BY <1>2, <1>3

----------------------------------------------------------------------------
(* What a call's locals hold at each point where it stands, which its next *)
(* steps rely on.                                                          *)

Delivering == {"dl_claim", "dl_inbox", "dl_record", "dl_set", "dl_release"}
Driving == {"tk_inbox", "tk_delete", "body", "sv_confirm", "sv_get", "sv_set"}
Saving == {"sv_confirm", "sv_get", "sv_set"}

KindInv(c) ==
  /\ pc[c] \in Delivering => c \in Resumes /\ GateFor[c] \in Gates
  /\ pc[c] \in {"start_load", "create"} => c \in Starts
  /\ pc[c] \in {"claim", "load", "end", "recheck"} \cup Driving => c \in Starts \cup Resumes
  /\ pc[c] = "d_clear" => c \in Deletes

DriveInv(c) ==
  /\ pc[c] \in Driving => rec[c] \in Record /\ Suspendable(rec[c]) /\ rec[c].status # "done"
  /\ pc[c] = "tk_inbox" => rec[c].status = "suspended"
  /\ pc[c] \in {"tk_inbox", "tk_delete"} => rec[c].gate \in Gates
  /\ (pc[c] = "recheck" \/ (pc[c] = "end" /\ out[c] = "suspended"))
       => rec[c] \in Record /\ rec[c].gate \in Gates

SaveInv(c) ==
  pc[c] \in Saving =>
    /\ nxt[c] \in Record /\ Suspendable(nxt[c])
    /\ Follows(rec[c], nxt[c])
    /\ save[c] = "take_up" => nxt[c].gate \in Gates
    /\ save[c] = "shape_take_up" => entry[c] \in Resumes /\ nxt[c].status = "suspended"
    /\ save[c] # "rest" => nxt[c].status # "done"
    /\ save[c] # "none"

CallInv(c) == KindInv(c) /\ DriveInv(c) /\ SaveInv(c)

TypeInv ==
  /\ TypeOK
  /\ record # NoRecord => Suspendable(record)
  /\ \A c \in Calls : CallInv(c)

LocalType ==
  /\ pc \in [Calls -> Points]
  /\ rec \in [Calls -> Record \cup {NoRecord}]
  /\ nxt \in [Calls -> Record \cup {NoRecord}]
  /\ save \in [Calls -> Saves]
  /\ entry \in [Calls -> Resumes \cup {NoDatum}]
  /\ lost \in [Calls -> BOOLEAN]
  /\ out \in [Calls -> Outcomes]

StoreType ==
  /\ record \in Record \cup {NoRecord}
  /\ inbox \in [Gates -> Resumes \cup {NoDatum}]
  /\ lease \in Calls \cup {Free}
  /\ gclaim \in [Gates -> Calls \cup {Free}]

(* A step of c leaves the locals of the other calls alone. *)
OthersStay(c) ==
  \A d \in Calls \ {c} :
    /\ pc'[d] = pc[d] /\ rec'[d] = rec[d] /\ nxt'[d] = nxt[d] /\ save'[d] = save[d]
    /\ entry'[d] = entry[d] /\ out'[d] = out[d]

(* What a step of c has to be shown to do. *)
StepOK(c) == LocalType' /\ OthersStay(c) /\ CallInv(c)'

LEMMA OthersKeepCallInv ==
  ASSUME NEW c \in Calls, NEW d \in Calls \ {c}, OthersStay(c), CallInv(d)
  PROVE  CallInv(d)'
PROOF
  <1>1. /\ pc'[d] = pc[d] /\ rec'[d] = rec[d] /\ nxt'[d] = nxt[d] /\ save'[d] = save[d]
        /\ entry'[d] = entry[d] /\ out'[d] = out[d]
    BY DEF OthersStay
  <1>2. KindInv(d)'
    BY <1>1 DEF CallInv, KindInv
  <1>3. DriveInv(d)'
    BY <1>1 DEF CallInv, DriveInv, Suspendable
  <1>4. SaveInv(d)'
    BY <1>1 DEF CallInv, SaveInv, Suspendable, Follows
  <1> QED
    BY <1>2, <1>3, <1>4 DEF CallInv

LEMMA ReturnOK ==
  ASSUME LocalType, NEW c \in Calls, NEW o \in Outcomes, Return(c, o)
  PROVE  StepOK(c)
PROOF
  <1>1. LocalType'
    BY DEF LocalType, Return, Goto, Points, Saves
  <1>2. OthersStay(c)
    BY DEF LocalType, Return, Goto, OthersStay
  <1>3. pc'[c] = "returned"
    BY DEF LocalType, Return, Goto
  <1>4. CallInv(c)'
    BY <1>3 DEF CallInv, KindInv, DriveInv, SaveInv, Delivering, Driving, Saving
  <1> QED
    BY <1>1, <1>2, <1>4 DEF StepOK

(* The other helpers leave rec, lost and entry to the action that uses them. *)
RecStep(c) ==
  /\ rec' \in [Calls -> Record \cup {NoRecord}]
  /\ \A d \in Calls \ {c} : rec'[d] = rec[d]
  /\ lost' \in [Calls -> BOOLEAN]

EntryStep(c) ==
  /\ entry' \in [Calls -> Resumes \cup {NoDatum}]
  /\ \A d \in Calls \ {c} : entry'[d] = entry[d]

LEMMA GoEndOK ==
  ASSUME LocalType, NEW c \in Starts \cup Resumes, NEW o \in Outcomes, GoEnd(c, o),
         RecStep(c), EntryStep(c),
         o = "suspended" => rec'[c] \in Record /\ rec'[c].gate \in Gates
  PROVE  StepOK(c)
PROOF
  <1>0. c \in Calls
    BY DEF Calls
  <1>1. LocalType'
    BY <1>0 DEF LocalType, GoEnd, Goto, Points, RecStep, EntryStep
  <1>2. OthersStay(c)
    BY <1>0 DEF LocalType, GoEnd, Goto, OthersStay, RecStep, EntryStep
  <1>3. pc'[c] = "end" /\ out'[c] = o
    BY <1>0 DEF LocalType, GoEnd, Goto
  <1>4. CallInv(c)'
    BY <1>3 DEF CallInv, KindInv, DriveInv, SaveInv, Delivering, Driving, Saving
  <1> QED
    BY <1>1, <1>2, <1>4 DEF StepOK

LEMMA GoSaveOK ==
  ASSUME LocalType, NEW c \in Starts \cup Resumes, NEW r \in Record, Suspendable(r),
         NEW why \in Saves \ {"none"}, GoSave(c, r, why), RecStep(c), EntryStep(c),
         rec'[c] \in Record, Suspendable(rec'[c]), Follows(rec'[c], r),
         why # "rest" => r.status # "done",
         why = "take_up" => r.gate \in Gates,
         why = "shape_take_up" => entry'[c] \in Resumes /\ r.status = "suspended"
  PROVE  StepOK(c)
PROOF
  <1>0. c \in Calls
    BY DEF Calls
  <1>1. LocalType'
    BY <1>0 DEF LocalType, GoSave, Goto, Points, RecStep, EntryStep
  <1>2. OthersStay(c)
    BY <1>0 DEF LocalType, GoSave, Goto, OthersStay, RecStep, EntryStep
  <1>3. pc'[c] = "sv_confirm" /\ nxt'[c] = r /\ save'[c] = why
    BY <1>0 DEF LocalType, GoSave, Goto
  <1>4. CallInv(c)'
    BY <1>3
    DEF CallInv, KindInv, DriveInv, SaveInv, Delivering, Driving, Saving, Suspendable, Follows
  <1> QED
    BY <1>1, <1>2, <1>4 DEF StepOK

LEMMA DriveOnceOK ==
  ASSUME LocalType, NEW c \in Starts \cup Resumes, NEW r \in Record, Suspendable(r),
         r.status # "done",
         DriveOnce(c, r), RecStep(c), rec'[c] = r
  PROVE  StepOK(c)
PROOF
  <1>0. c \in Calls /\ ShapeOf[c] \in Shapes
    BY CallAssumption DEF Calls
  <1>1. EntryStep(c) /\ UNCHANGED entry
    BY DEF DriveOnce, EntryStep, LocalType
  <1>2. CASE r.flow = ShapeOf[c] /\ GoBody(c)
    <2>1. LocalType'
      BY <1>0, <1>1, <1>2 DEF LocalType, GoBody, Goto, Points, RecStep
    <2>2. OthersStay(c)
      BY <1>0, <1>1, <1>2 DEF LocalType, GoBody, Goto, OthersStay, RecStep
    <2>3. pc'[c] = "body"
      BY <1>0, <1>2 DEF LocalType, GoBody, Goto
    <2>4. CallInv(c)'
      BY <2>3 DEF CallInv, KindInv, DriveInv, SaveInv, Delivering, Driving, Saving, Suspendable
    <2> QED
      BY <2>1, <2>2, <2>4 DEF StepOK
  <1>3. CASE GoEnd(c, Thrown(lost[c], "flow_changed"))
    <2>1. Thrown(lost[c], "flow_changed") \in Outcomes \ {"suspended"}
      BY DEF Thrown, Outcomes
    <2> QED
      BY <1>1, <1>3, <2>1, GoEndOK
  <1>4. CASE GoSave(c, [r EXCEPT !.flow = ShapeOf[c]], "shape_drive")
    <2> DEFINE q == [r EXCEPT !.flow = ShapeOf[c]]
    <2>1. q \in Record /\ Suspendable(q) /\ Follows(r, q) /\ q.status # "done"
      BY <1>0 DEF Record, Suspendable, Follows
    <2>2. GoSave(c, q, "shape_drive") /\ "shape_drive" \in Saves \ {"none"}
      BY <1>4 DEF Saves
    <2> HIDE DEF q
    <2> QED
      BY <1>1, <2>1, <2>2, GoSaveOK
  <1> QED
    BY <1>2, <1>3, <1>4 DEF DriveOnce, CheckShape

LEMMA TakingUpFollows ==
  ASSUME NEW c \in Calls, NEW r \in Record, NEW d \in Resumes, Suspendable(r),
         r.status = "suspended"
  PROVE  /\ TakingUp(c, r, d) \in Record
         /\ Suspendable(TakingUp(c, r, d))
         /\ Follows(r, TakingUp(c, r, d))
         /\ TakingUp(c, r, d).gate \in Gates
         /\ TakingUp(c, r, d).status = "running"
PROOF
  <1> DEFINE data == [r.resume EXCEPT ![r.gate] = d]
  <1>1. TakingUp(c, r, d) = [r EXCEPT !.status = "running", !.resume = data]
    BY DEF TakingUp, Record
  <1>2. /\ data \in Resumed
        /\ \A g \in Gates : Accepted(r.resume[g]) => data[g] = r.resume[g]
    BY DEF Record, Resumed, Suspendable
  <1> HIDE DEF data
  <1>3. /\ TakingUp(c, r, d) \in Record /\ TakingUp(c, r, d).resume = data
        /\ TakingUp(c, r, d).gate = r.gate /\ TakingUp(c, r, d).status = "running"
        /\ TakingUp(c, r, d).rev = r.rev /\ TakingUp(c, r, d).input = r.input
    BY <1>1, <1>2 DEF Record, Statuses
  <1> QED
    BY <1>2, <1>3 DEF Suspendable, Follows

LEMMA SettleOK ==
  ASSUME LocalType, NEW c \in Starts \cup Resumes, NEW r \in Record, Suspendable(r),
         Settle(c, r), UNCHANGED lost
  PROVE  StepOK(c)
PROOF
  <1>0. c \in Calls
    BY DEF Calls
  <1>1. RecStep(c) /\ rec'[c] = r
    BY <1>0 DEF Settle, RecStep, LocalType
  <1>2. CASE GoEnd(c, "done") /\ UNCHANGED entry
    BY <1>1, <1>2, GoEndOK DEF Outcomes, EntryStep, LocalType
  <1>3. CASE r.status = "suspended" /\ Goto(c, "tk_inbox") /\ UNCHANGED <<nxt, save, entry, out>>
    <2>1. LocalType'
      BY <1>0, <1>1, <1>3 DEF LocalType, Goto, Points, RecStep
    <2>2. OthersStay(c)
      BY <1>0, <1>1, <1>3 DEF LocalType, Goto, OthersStay, RecStep
    <2>3. pc'[c] = "tk_inbox"
      BY <1>0, <1>3 DEF LocalType, Goto
    <2>4. CallInv(c)'
      BY <1>1, <1>3, <2>3
      DEF CallInv, KindInv, DriveInv, SaveInv, Delivering, Driving, Saving, Suspendable
    <2> QED
      BY <2>1, <2>2, <2>4 DEF StepOK
  <1>4. CASE r.status \in {"running", "failed"} /\ DriveOnce(c, r)
    BY <1>1, <1>4, DriveOnceOK
  <1> QED
    BY <1>2, <1>3, <1>4 DEF Settle

----------------------------------------------------------------------------
(* Type correctness: one step per action of a call.                        *)

StoreOK == StoreType' /\ (record' # NoRecord => Suspendable(record'))

LEMMA StepTypes ==
  ASSUME TypeInv, NEW c \in Calls, Step(c)
  PROVE  StoreOK /\ StepOK(c)
PROOF
  <1> USE CallAssumption
  <1>0. /\ LocalType /\ StoreType /\ CallInv(c)
        /\ record # NoRecord => record \in Record /\ Suspendable(record)
    BY DEF TypeInv, TypeOK, LocalType, StoreType
  <1> DEFINE Moved(p) ==
        /\ Goto(c, p) /\ UNCHANGED <<rec, nxt, save, entry, lost, out>>
  <1>m. ASSUME NEW p \in Points, Moved(p),
               p \in Delivering => c \in Resumes /\ GateFor[c] \in Gates,
               p \in {"start_load", "create"} => c \in Starts,
               p \in {"claim", "load"} => c \in Starts \cup Resumes,
               p = "d_clear" => c \in Deletes,
               p \notin {"end", "recheck"} \cup Driving
        PROVE  StepOK(c)
    <2>1. LocalType' /\ OthersStay(c) /\ pc'[c] = p
      BY <1>0, <1>m DEF LocalType, OthersStay, Goto
    <2>2. CallInv(c)'
      BY <1>m, <2>1 DEF CallInv, KindInv, DriveInv, SaveInv, Delivering, Driving, Saving
    <2> QED
      BY <2>1, <2>2 DEF StepOK
  <1>s. UNCHANGED store => StoreOK
    BY <1>0 DEF store, StoreOK, StoreType, Suspendable
  <1>k. KindInv(c) /\ DriveInv(c) /\ SaveInv(c)
    BY <1>0 DEF CallInv
  <1>1. CASE ResumeCall(c)
    <2>1. StoreOK
      BY <1>1, <1>s DEF ResumeCall
    <2>2. CASE \E o \in {"not_found", "done"} : Return(c, o)
      BY <1>0, <2>1, <2>2, ReturnOK DEF Outcomes
    <2>3. CASE Moved(IF GateFor[c] = NoGate THEN "claim" ELSE "dl_claim")
      <3> DEFINE p == IF GateFor[c] = NoGate THEN "claim" ELSE "dl_claim"
      <3>1. /\ p \in {"claim", "dl_claim"} /\ c \in Resumes
            /\ p = "dl_claim" => GateFor[c] \in Gates
        BY <1>1 DEF ResumeCall
      <3> HIDE DEF p
      <3> QED
        BY <1>m, <2>1, <2>3, <3>1 DEF Delivering, Driving, Points, p
    <2> QED
      BY <1>1, <2>2, <2>3 DEF ResumeCall
  <1>2. CASE DeliverClaim(c)
    <2>1. c \in Resumes /\ GateFor[c] \in Gates
      BY <1>2, <1>k DEF DeliverClaim, KindInv, Delivering
    <2>2. StoreOK
      BY <1>0, <1>2, <2>1 DEF DeliverClaim, StoreOK, StoreType, Suspendable
    <2>3. \E p \in {"dl_inbox", "claim"} : Moved(p)
      BY <1>2 DEF DeliverClaim
    <2> QED
      BY <1>m, <2>1, <2>2, <2>3 DEF Delivering, Driving, Points
  <1>3. CASE DeliverReadInbox(c) \/ DeliverReadRecord(c)
    <2>1. c \in Resumes /\ GateFor[c] \in Gates
      BY <1>3, <1>k DEF DeliverReadInbox, DeliverReadRecord, KindInv, Delivering
    <2>2. UNCHANGED store /\ \E p \in {"dl_record", "dl_release", "dl_set"} : Moved(p)
      BY <1>3 DEF DeliverReadInbox, DeliverReadRecord
    <2> QED
      BY <1>m, <1>s, <2>1, <2>2 DEF Delivering, Driving, Points
  <1>4. CASE DeliverSet(c)
    <2>1. c \in Resumes /\ GateFor[c] \in Gates
      BY <1>4, <1>k DEF DeliverSet, KindInv, Delivering
    <2>2. StoreOK
      BY <1>0, <1>4, <2>1 DEF DeliverSet, StoreOK, StoreType, Suspendable
    <2>3. Moved("dl_release")
      BY <1>4 DEF DeliverSet
    <2> QED
      BY <1>m, <2>1, <2>2, <2>3 DEF Delivering, Driving, Points
  <1>5. CASE DeliverRelease(c)
    <2>1. c \in Resumes /\ GateFor[c] \in Gates
      BY <1>5, <1>k DEF DeliverRelease, KindInv, Delivering
    <2>2. StoreOK
      BY <1>0, <1>5, <2>1 DEF DeliverRelease, StoreOK, StoreType, Suspendable
    <2>3. CASE Moved("claim")
      BY <1>m, <2>1, <2>2, <2>3 DEF Delivering, Driving, Points
    <2>4. CASE Return(c, "error")
      BY <1>0, <2>2, <2>4, ReturnOK DEF Outcomes
    <2> QED
      BY <1>5, <2>3, <2>4 DEF DeliverRelease
  <1>6. CASE TakeLease(c)
    <2>1. c \in Starts \cup Resumes
      BY <1>6, <1>k DEF TakeLease, WantsLease, KindInv
    <2>2. StoreOK
      BY <1>0, <1>6 DEF TakeLease, StoreOK, StoreType, Suspendable
    <2> DEFINE p == IF c \in Starts THEN "start_load" ELSE "load"
    <2>3. LocalType' /\ OthersStay(c) /\ pc'[c] = p
      BY <1>0, <1>6 DEF TakeLease, LocalType, OthersStay, Goto, Points
    <2>4. CallInv(c)'
      BY <2>1, <2>3 DEF CallInv, KindInv, DriveInv, SaveInv, Delivering, Driving, Saving
    <2> QED
      BY <2>2, <2>3, <2>4 DEF StepOK
  <1>7. CASE FindBusy(c)
    BY <1>0, <1>7, <1>s, ReturnOK DEF FindBusy, Outcomes
  <1>8. CASE StartLoad(c)
    <2>1. c \in Starts /\ UNCHANGED <<store, lost>>
      BY <1>8, <1>k DEF StartLoad, KindInv
    <2>2. CASE record # NoRecord /\ Settle(c, record)
      BY <1>0, <1>s, <2>1, <2>2, SettleOK
    <2>3. CASE Moved("create")
      BY <1>m, <1>s, <2>1, <2>3 DEF Delivering, Driving, Points
    <2> QED
      BY <1>8, <2>1, <2>2, <2>3 DEF StartLoad
  <1>9. CASE Create(c)
    <2>1. c \in Starts /\ ShapeOf[c] \in Shapes
      BY <1>9, <1>k DEF Create, KindInv
    <2>2. StoreOK
      BY <1>0, <1>9, <2>1
      DEF Create, StoreOK, StoreType, Record, Resumed, Statuses, Suspendable
    <2>3. Moved("load")
      BY <1>9 DEF Create
    <2> QED
      BY <1>m, <2>1, <2>2, <2>3 DEF Delivering, Driving, Points
  <1>10. CASE Load(c)
    <2>1. c \in Starts \cup Resumes /\ UNCHANGED <<store, lost>>
      BY <1>10, <1>k DEF Load, KindInv
    <2>2. CASE record # NoRecord /\ Settle(c, record)
      BY <1>0, <1>s, <2>1, <2>2, SettleOK
    <2>3. CASE GoEnd(c, Thrown(lost[c], "not_found")) /\ UNCHANGED <<rec, entry>>
      <3>1. /\ RecStep(c) /\ EntryStep(c)
            /\ Thrown(lost[c], "not_found") \in Outcomes \ {"suspended"}
        BY <1>0, <2>1, <2>3 DEF RecStep, EntryStep, LocalType, Thrown, Outcomes
      <3> QED
        BY <1>0, <1>s, <2>1, <2>3, <3>1, GoEndOK
    <2> QED
      BY <1>10, <2>2, <2>3 DEF Load
  <1>11. CASE TakeUpRead(c)
    <2>1. /\ c \in Starts \cup Resumes /\ UNCHANGED <<store, rec, lost>>
          /\ rec[c] \in Record /\ Suspendable(rec[c]) /\ rec[c].gate \in Gates
          /\ rec[c].status = "suspended"
      BY <1>11, <1>k DEF TakeUpRead, KindInv, DriveInv, Driving
    <2>2. RecStep(c) /\ rec'[c] = rec[c]
      BY <1>0, <2>1 DEF RecStep, LocalType
    <2> DEFINE d == inbox[rec[c].gate]
    <2>3. CASE GoEnd(c, "suspended") /\ UNCHANGED entry
      BY <1>0, <1>s, <2>1, <2>2, <2>3, GoEndOK DEF Outcomes, EntryStep, LocalType
    <2>4. ASSUME d # NoDatum, entry' = [entry EXCEPT ![c] = d]
          PROVE  d \in Resumes /\ EntryStep(c) /\ entry'[c] \in Resumes
      BY <1>0, <2>1, <2>4 DEF StoreType, LocalType, EntryStep
    <2>5. CASE /\ d # NoDatum /\ entry' = [entry EXCEPT ![c] = d]
               /\ GoSave(c, TakingUp(c, rec[c], d), "take_up")
      <3> DEFINE q == TakingUp(c, rec[c], d)
      <3>1. /\ q \in Record /\ Suspendable(q) /\ Follows(rec[c], q) /\ q.gate \in Gates
            /\ q.status # "done"
        BY <2>1, <2>4, <2>5, TakingUpFollows
      <3>2. GoSave(c, q, "take_up") /\ "take_up" \in Saves \ {"none"}
        BY <2>5 DEF Saves
      <3> HIDE DEF q
      <3>3. StepOK(c)
        BY <1>0, <2>1, <2>2, <2>4, <2>5, <3>1, <3>2, GoSaveOK
      <3> QED
        BY <1>s, <2>1, <3>3
    <2>6. CASE /\ d # NoDatum /\ entry' = [entry EXCEPT ![c] = d]
               /\ GoSave(c, [rec[c] EXCEPT !.flow = ShapeOf[c]], "shape_take_up")
      <3> DEFINE q == [rec[c] EXCEPT !.flow = ShapeOf[c]]
      <3>1. /\ q \in Record /\ Suspendable(q) /\ Follows(rec[c], q) /\ q.status = "suspended"
        BY <2>1, <1>0, CallAssumption DEF Record, Suspendable, Follows
      <3>2. GoSave(c, q, "shape_take_up") /\ "shape_take_up" \in Saves \ {"none"}
        BY <2>6 DEF Saves
      <3> HIDE DEF q
      <3>3. StepOK(c)
        BY <1>0, <2>1, <2>2, <2>4, <2>6, <3>1, <3>2, GoSaveOK
      <3> QED
        BY <1>s, <2>1, <3>3
    <2>7. CASE /\ d # NoDatum /\ entry' = [entry EXCEPT ![c] = d]
               /\ GoEnd(c, Thrown(lost[c], "flow_changed"))
      <3>1. Thrown(lost[c], "flow_changed") \in Outcomes \ {"suspended"}
        BY DEF Thrown, Outcomes
      <3> QED
        BY <1>0, <1>s, <2>1, <2>2, <2>4, <2>7, <3>1, GoEndOK
    <2> QED
      BY <1>11, <2>3, <2>5, <2>6, <2>7 DEF TakeUpRead, CheckShape
  <1>12. CASE TakeUpDelete(c)
    <2>1. /\ c \in Starts \cup Resumes /\ UNCHANGED <<record, lease, gclaim, rec, lost>>
          /\ rec[c] \in Record /\ Suspendable(rec[c]) /\ rec[c].gate \in Gates
          /\ rec[c].status # "done"
      BY <1>12, <1>k DEF TakeUpDelete, KindInv, DriveInv, Driving
    <2>2. StoreOK
      BY <1>0, <1>12, <2>1 DEF TakeUpDelete, StoreOK, StoreType, Suspendable
    <2>3. RecStep(c) /\ rec'[c] = rec[c]
      BY <1>0, <2>1 DEF RecStep, LocalType
    <2>4. StepOK(c)
      BY <1>0, <1>12, <2>1, <2>3, DriveOnceOK DEF TakeUpDelete
    <2> QED
      BY <2>2, <2>4
  <1>13. CASE BodyRests(c) \/ BodyRefuses(c) \/ BodyThrows(c)
    <2>1. /\ c \in Starts \cup Resumes /\ UNCHANGED <<store, rec, entry, lost>>
          /\ rec[c] \in Record /\ Suspendable(rec[c]) /\ rec[c].status # "done"
      BY <1>13, <1>k DEF BodyRests, BodyRefuses, BodyThrows, KindInv, DriveInv, Driving
    <2>2. RecStep(c) /\ rec'[c] = rec[c] /\ EntryStep(c)
      BY <1>0, <2>1 DEF RecStep, EntryStep, LocalType
    <2>3. \E q \in Record, why \in {"rest", "failure"} :
            /\ Suspendable(q) /\ Follows(rec[c], q) /\ GoSave(c, q, why)
            /\ why = "failure" => q.status # "done"
      <3>1. CASE BodyRests(c)
        BY <2>1, <3>1, AtRestIsRecord DEF BodyRests
      <3>2. CASE BodyRefuses(c)
        BY <2>1, <3>2, RefusalIsRecord DEF BodyRefuses
      <3>3. CASE BodyThrows(c)
        <4>1. /\ Failed(rec[c]) \in Record /\ Follows(rec[c], Failed(rec[c]))
              /\ Failed(rec[c]).status = "failed"
          BY <2>1 DEF Failed, Record, Statuses, Follows
        <4> QED
          BY <3>3, <4>1 DEF BodyThrows, Suspendable
      <3> QED
        BY <1>13, <3>1, <3>2, <3>3
    <2>4. PICK q \in Record, why \in {"rest", "failure"} :
            /\ Suspendable(q) /\ Follows(rec[c], q) /\ GoSave(c, q, why)
            /\ why = "failure" => q.status # "done"
      BY <2>3
    <2>5. StepOK(c)
      BY <1>0, <2>1, <2>2, <2>4, GoSaveOK DEF Saves
    <2> QED
      BY <1>s, <2>1, <2>5
  <1>14. CASE SaveConfirm(c) \/ (SaveGet(c) /\ Fenced(c))
    <2>1. /\ pc[c] \in Saving /\ c \in Starts \cup Resumes
          /\ UNCHANGED <<record, inbox, gclaim, rec, nxt, save, entry, lost, out>>
          /\ lease' \in {lease, c} /\ Goto(c, pc'[c]) /\ pc'[c] \in {"sv_get", "sv_set"}
      BY <1>0, <1>14, <1>k
      DEF SaveConfirm, SaveGet, Lose, GoEnd, Goto, store, Driving, Saving, KindInv, LocalType
    <2>2. StoreOK
      BY <1>0, <2>1 DEF StoreOK, StoreType, Suspendable
    <2>3. LocalType' /\ OthersStay(c)
      BY <1>0, <2>1 DEF LocalType, OthersStay, Goto, Points
    <2>4. CallInv(c)'
      BY <1>k, <2>1
      DEF CallInv, KindInv, DriveInv, SaveInv, Delivering, Driving, Saving, Suspendable, Follows
    <2> QED
      BY <2>2, <2>3, <2>4 DEF StepOK
  <1>15. CASE SaveFindsLost(c) \/ (SaveGet(c) /\ ~Fenced(c))
    <2>1. c \in Starts \cup Resumes /\ UNCHANGED <<store, rec>> /\ Lose(c)
      BY <1>15, <1>k DEF SaveFindsLost, SaveGet, KindInv, Driving
    <2>2. RecStep(c) /\ EntryStep(c)
      BY <1>0, <2>1 DEF RecStep, EntryStep, LocalType, Lose
    <2>3. StepOK(c)
      BY <1>0, <2>1, <2>2, GoEndOK DEF Lose, Outcomes
    <2> QED
      BY <1>s, <2>1, <2>3
  <1>16. CASE SaveSet(c)
    <2> DEFINE q == Saved(c)
    <2>1. /\ c \in Starts \cup Resumes /\ UNCHANGED <<inbox, lease, gclaim, lost>>
          /\ nxt[c] \in Record /\ Suspendable(nxt[c])
          /\ save[c] = "take_up" => nxt[c].gate \in Gates
          /\ save[c] = "shape_take_up" => entry[c] \in Resumes /\ nxt[c].status = "suspended"
          /\ save[c] # "rest" => nxt[c].status # "done"
      BY <1>16, <1>k DEF SaveSet, KindInv, SaveInv, Driving, Saving
    <2>2. /\ q \in Record /\ Suspendable(q) /\ q.gate = nxt[c].gate /\ q.status = nxt[c].status
      BY <2>1 DEF Saved, Record, Suspendable
    <2>3. StoreOK
      BY <1>0, <1>16, <2>1, <2>2 DEF SaveSet, StoreOK, StoreType
    <2> HIDE DEF q
    <2>4. CASE Settle(c, q)
      BY <1>0, <2>1, <2>2, <2>3, <2>4, SettleOK
    <2>5. CASE rec' = [rec EXCEPT ![c] = q]
      <3>1. RecStep(c) /\ rec'[c] = q
        BY <1>0, <2>1, <2>2, <2>5 DEF RecStep, LocalType
      <3>2. CASE save[c] = "failure" /\ GoEnd(c, Thrown(lost[c], "error")) /\ UNCHANGED entry
        <4>1. Thrown(lost[c], "error") \in Outcomes \ {"suspended"} /\ EntryStep(c)
          BY <1>0, <3>2 DEF Thrown, Outcomes, EntryStep, LocalType
        <4> QED
          BY <1>0, <2>1, <2>3, <3>1, <3>2, <4>1, GoEndOK
      <3>3. CASE save[c] = "shape_drive" /\ GoBody(c) /\ UNCHANGED entry
        <4>1. LocalType' /\ OthersStay(c) /\ pc'[c] = "body"
          BY <1>0, <3>1, <3>3 DEF LocalType, OthersStay, GoBody, Goto, Points, RecStep
        <4>2. CallInv(c)'
          BY <2>1, <2>2, <3>1, <3>3, <4>1
          DEF CallInv, KindInv, DriveInv, SaveInv, Delivering, Driving, Saving, Suspendable
        <4> QED
          BY <2>3, <4>1, <4>2 DEF StepOK
      <3>4. CASE /\ save[c] = "shape_take_up" /\ UNCHANGED entry
                 /\ GoSave(c, TakingUp(c, q, entry[c]), "take_up")
        <4> DEFINE t == TakingUp(c, q, entry[c])
        <4>1. /\ t \in Record /\ Suspendable(t) /\ Follows(q, t) /\ t.gate \in Gates
              /\ t.status # "done"
          BY <2>1, <2>2, <3>4, TakingUpFollows
        <4>2. GoSave(c, t, "take_up") /\ "take_up" \in Saves \ {"none"}
          BY <3>4 DEF Saves
        <4> HIDE DEF t
        <4>3. EntryStep(c)
          BY <1>0, <3>4 DEF EntryStep, LocalType
        <4> QED
          BY <1>0, <2>1, <2>2, <2>3, <3>1, <4>1, <4>2, <4>3, GoSaveOK
      <3>5. CASE /\ save[c] = "take_up" /\ Goto(c, "tk_delete")
                 /\ UNCHANGED <<nxt, save, entry, out>>
        <4>1. LocalType' /\ OthersStay(c) /\ pc'[c] = "tk_delete"
          BY <1>0, <3>1, <3>5 DEF LocalType, OthersStay, Goto, Points, RecStep
        <4>2. CallInv(c)'
          BY <2>1, <2>2, <3>1, <3>5, <4>1
          DEF CallInv, KindInv, DriveInv, SaveInv, Delivering, Driving, Saving, Suspendable
        <4> QED
          BY <2>3, <4>1, <4>2 DEF StepOK
      <3> QED
        BY <1>16, <2>4, <2>3, <3>2, <3>3, <3>4, <3>5 DEF SaveSet, q
    <2> QED
      BY <1>16, <2>4, <2>5 DEF SaveSet, q
  <1>17. CASE EndLease(c)
    <2>1. StoreOK
      BY <1>0, <1>17 DEF EndLease, StoreOK, StoreType, Suspendable
    <2>2. CASE out[c] = "suspended" /\ Goto(c, "recheck")
               /\ UNCHANGED <<rec, nxt, save, entry, lost, out>>
      <3>1. LocalType' /\ OthersStay(c) /\ pc'[c] = "recheck"
        BY <1>0, <2>2 DEF LocalType, OthersStay, Goto, Points
      <3>2. CallInv(c)'
        BY <1>17, <1>k, <2>2, <3>1
        DEF EndLease, CallInv, KindInv, DriveInv, SaveInv, Delivering, Driving, Saving
      <3> QED
        BY <2>1, <3>1, <3>2 DEF StepOK
    <2>3. CASE Return(c, out[c])
      BY <1>0, <2>1, <2>3, ReturnOK DEF LocalType
    <2> QED
      BY <1>17, <2>2, <2>3 DEF EndLease
  <1>18. CASE Recheck(c)
    <2>1. UNCHANGED store /\ c \in Starts \cup Resumes
      BY <1>18, <1>k DEF Recheck, KindInv
    <2>2. CASE Return(c, "suspended")
      BY <1>0, <1>s, <2>1, <2>2, ReturnOK DEF Outcomes
    <2>3. CASE Moved("claim")
      BY <1>m, <1>s, <2>1, <2>3 DEF Delivering, Driving, Points
    <2> QED
      BY <1>18, <2>2, <2>3 DEF Recheck
  <1>19. CASE DeleteCall(c)
    <2>1. StoreOK
      BY <1>0, <1>19 DEF DeleteCall, StoreOK, StoreType, Suspendable
    <2>2. CASE Moved("d_clear") /\ c \in Deletes
      BY <1>m, <2>1, <2>2 DEF Delivering, Driving, Points
    <2>3. CASE Return(c, "not_deleted")
      BY <1>0, <2>1, <2>3, ReturnOK DEF Outcomes
    <2> QED
      BY <1>19, <2>2, <2>3 DEF DeleteCall
  <1>20. CASE DeleteClear(c)
    <2>1. StoreOK
      BY <1>0, <1>20 DEF DeleteClear, StoreOK, StoreType
    <2>2. StepOK(c)
      BY <1>0, <1>20, ReturnOK DEF DeleteClear, Outcomes
    <2> QED
      BY <2>1, <2>2
  <1> QED
    BY <1>1, <1>2, <1>3, <1>4, <1>5, <1>6, <1>7, <1>8, <1>9, <1>10, <1>11, <1>12, <1>13,
       <1>14, <1>15, <1>16, <1>17, <1>18, <1>19, <1>20
    DEF Step, SaveGet

----------------------------------------------------------------------------
(* The steps around the calls, and type correctness of the specification.  *)

LEMMA DieOK ==
  ASSUME TypeInv, NEW c \in Calls, Die(c)
  PROVE  StoreOK /\ StepOK(c)
PROOF
  <1>1. LocalType /\ StoreType /\ (record # NoRecord => Suspendable(record))
    BY DEF TypeInv, TypeOK, LocalType, StoreType
  <1>2. StoreOK
    BY <1>1 DEF Die, store, StoreOK, StoreType, Suspendable
  <1>3. LocalType' /\ OthersStay(c) /\ pc'[c] = "dead"
    BY <1>1 DEF Die, Goto, LocalType, OthersStay, Points, Saves
  <1>4. CallInv(c)'
    BY <1>3 DEF CallInv, KindInv, DriveInv, SaveInv, Delivering, Driving, Saving
  <1> QED
    BY <1>2, <1>3, <1>4 DEF StepOK

LEMMA StoreThrowsOK ==
  ASSUME TypeInv, NEW c \in Calls, StoreThrows(c)
  PROVE  StoreOK /\ StepOK(c)
PROOF
  <1>1. LocalType /\ StoreType /\ (record # NoRecord => Suspendable(record)) /\ KindInv(c)
    BY DEF TypeInv, TypeOK, LocalType, StoreType, CallInv
  <1>2. StoreOK
    BY <1>1 DEF StoreThrows, store, StoreOK, StoreType, Suspendable
  <1>3. CASE /\ pc[c] \in Holding \ {"body", "end"}
             /\ GoEnd(c, Thrown(lost[c], "error")) /\ UNCHANGED <<rec, entry, lost>>
    <2>1. c \in Starts \cup Resumes
      BY <1>1, <1>3 DEF KindInv, Holding, Driving
    <2>2. /\ RecStep(c) /\ EntryStep(c)
          /\ Thrown(lost[c], "error") \in Outcomes \ {"suspended"}
      BY <1>1, <1>3, <2>1 DEF RecStep, EntryStep, LocalType, Thrown, Outcomes
    <2> QED
      BY <1>1, <1>2, <1>3, <2>1, <2>2, GoEndOK
  <1>4. CASE /\ pc[c] \in {"dl_inbox", "dl_record", "dl_set"} /\ Goto(c, "dl_release")
             /\ out' = [out EXCEPT ![c] = "error"] /\ UNCHANGED <<rec, nxt, save, entry, lost>>
    <2>1. c \in Resumes /\ GateFor[c] \in Gates
      BY <1>1, <1>4 DEF KindInv, Delivering
    <2>2. LocalType' /\ OthersStay(c) /\ pc'[c] = "dl_release"
      BY <1>1, <1>4 DEF Goto, LocalType, OthersStay, Points, Outcomes
    <2>3. CallInv(c)'
      BY <2>1, <2>2 DEF CallInv, KindInv, DriveInv, SaveInv, Delivering, Driving, Saving
    <2> QED
      BY <1>2, <2>2, <2>3 DEF StepOK
  <1>5. CASE Return(c, "error")
    BY <1>1, <1>2, <1>5, ReturnOK DEF Outcomes
  <1> QED
    BY <1>3, <1>4, <1>5 DEF StoreThrows

LEMMA RenewOK ==
  ASSUME TypeInv, NEW c \in Calls, Renew(c)
  PROVE  StoreOK /\ StepOK(c)
PROOF
  <1>1. LocalType /\ StoreType /\ (record # NoRecord => Suspendable(record)) /\ CallInv(c)
    BY DEF TypeInv, TypeOK, LocalType, StoreType
  <1>2. StoreOK
    BY <1>1 DEF Renew, StoreOK, StoreType, Suspendable
  <1>3. LocalType' /\ OthersStay(c) /\ UNCHANGED <<pc, rec, nxt, save, entry, out>>
    BY <1>1 DEF Renew, LocalType, OthersStay
  <1>4. CallInv(c)'
    BY <1>1, <1>3
    DEF CallInv, KindInv, DriveInv, SaveInv, Suspendable
  <1> QED
    BY <1>2, <1>3, <1>4 DEF StepOK

LEMMA TypeInvFromStep ==
  ASSUME TypeInv, NEW c \in Calls, StoreOK, StepOK(c)
  PROVE  TypeInv'
PROOF
  <1>1. \A d \in Calls : CallInv(d)'
    <2>1. SUFFICES ASSUME NEW d \in Calls PROVE CallInv(d)'
      OBVIOUS
    <2>2. CASE d = c
      BY <2>2 DEF StepOK
    <2>3. CASE d # c
      BY <2>3, OthersKeepCallInv DEF StepOK, TypeInv
    <2> QED
      BY <2>2, <2>3
  <1>2. TypeOK' /\ (record' # NoRecord => Suspendable(record'))
    BY DEF StepOK, StoreOK, StoreType, LocalType, TypeOK
  <1> QED
    BY <1>1, <1>2 DEF TypeInv, Suspendable

LEMMA TypeInvUnmoved ==
  ASSUME TypeInv, UNCHANGED locals, StoreOK
  PROVE  TypeInv'
PROOF
  <1>1. \A d \in Calls : CallInv(d)'
    BY DEF TypeInv, CallInv, KindInv, DriveInv, SaveInv, Suspendable, locals
  <1>2. TypeOK' /\ (record' # NoRecord => Suspendable(record'))
    BY DEF TypeInv, locals, StoreOK, StoreType, TypeOK
  <1> QED
    BY <1>1, <1>2 DEF TypeInv, Suspendable

LEMMA TypeInvInit == Init => TypeInv
PROOF
  <1> SUFFICES ASSUME Init PROVE TypeInv
    OBVIOUS
  <1>1. TypeOK
    BY DEF Init, TypeOK, Points, Saves, Outcomes
  <1>2. \A c \in Calls : CallInv(c)
    BY DEF Init, CallInv, KindInv, DriveInv, SaveInv, Delivering, Driving, Saving
  <1> QED
    BY <1>1, <1>2 DEF Init, TypeInv

LEMMA TypeInvStep == TypeInv /\ [Next]_vars => TypeInv'
PROOF
  <1> SUFFICES ASSUME TypeInv, [Next]_vars PROVE TypeInv'
    OBVIOUS
  <1>0. StoreType /\ (record # NoRecord => Suspendable(record))
    BY DEF TypeInv, TypeOK, StoreType
  <1>1. CASE \E c \in Calls : Step(c)
    BY <1>1, StepTypes, TypeInvFromStep
  <1>2. CASE \E c \in Calls : Renew(c)
    BY <1>2, RenewOK, TypeInvFromStep
  <1>3. CASE \E c \in Calls : Die(c)
    BY <1>3, DieOK, TypeInvFromStep
  <1>4. CASE \E c \in Calls : StoreThrows(c)
    BY <1>4, StoreThrowsOK, TypeInvFromStep
  <1>5. CASE ExpireLease \/ \E g \in Gates : ExpireGateClaim(g)
    <2>1. StoreOK /\ UNCHANGED locals
      BY <1>0, <1>5 DEF ExpireLease, ExpireGateClaim, StoreOK, StoreType, Suspendable
    <2> QED
      BY <2>1, TypeInvUnmoved
  <1>6. CASE UNCHANGED vars
    <2>1. StoreOK /\ UNCHANGED locals
      BY <1>0, <1>6 DEF vars, locals, StoreOK, StoreType, Suspendable
    <2> QED
      BY <2>1, TypeInvUnmoved
  <1> QED
    BY <1>1, <1>2, <1>3, <1>4, <1>5, <1>6 DEF Next

(* Whatever the calls, the flows and the failures, every variable keeps    *)
(* its type: in particular every record a call can read is a whole record  *)
(* of the run, and a run that is suspended waits at a gate of its flow.    *)
THEOREM TypeCorrect == Spec => []TypeOK
PROOF
  <1>1. TypeInv => TypeOK
    BY DEF TypeInv
  <1> QED
    BY <1>1, TypeInvInit, TypeInvStep, PTL DEF Spec

----------------------------------------------------------------------------
(* The fence.  A call stands in a window from the renewal that confirmed   *)
(* its lease until the write it allows; nobody outlasts a lease there.     *)

Window == {"start_load", "create", "sv_get", "sv_set"}

(* No live call is held up in a window for longer than its lease, and no   *)
(* call deletes the run: a deletion starts the revisions again.  save and  *)
(* start read and write the record in separate calls of the store, so that *)
(* the properties do not hold without either assumption.                   *)
Timely == StallAt \cap Window = {} /\ Deletes = {}

WindowInv == \A c \in Calls : pc[c] \in Window => lease = c

(* What a call knows of the record is its past, or the record as it is.    *)
PastInv ==
  \A c \in Calls :
    rec[c] # NoRecord =>
      /\ record # NoRecord
      /\ rec[c].rev <= record.rev
      /\ rec[c].rev = record.rev => rec[c] = record

FenceInv == TypeInv /\ WindowInv /\ PastInv /\ NoLostUpdate

(* A step of c that leaves the record alone. *)
LEMMA FenceKept ==
  ASSUME FenceInv, NEW c \in Calls, OthersStay(c), UNCHANGED record,
         rec'[c] \in {rec[c], record, NoRecord},
         lease' # lease => lease \in {Free, c},
         pc'[c] \in Window => lease' = c,
         pc'[c] = "create" => record = NoRecord,
         pc'[c] = "sv_set" => record = rec'[c]
  PROVE  WindowInv' /\ PastInv' /\ NoLostUpdate'
PROOF
  <1>1. \A d \in Calls \ {c} : pc'[d] = pc[d] /\ rec'[d] = rec[d]
    BY DEF OthersStay
  <1>2. WindowInv'
    BY <1>1, CallAssumption DEF FenceInv, WindowInv
  <1>3. PastInv'
    <2>1. record # NoRecord => record.rev <= record.rev
      BY DEF FenceInv, TypeInv, TypeOK, Record
    <2> QED
      BY <1>1, <2>1 DEF FenceInv, PastInv
  <1>4. NoLostUpdate'
    BY <1>1 DEF FenceInv, NoLostUpdate
  <1> QED
    BY <1>2, <1>3, <1>4

(* The windows exclude each other. *)
LEMMA WindowsExclude ==
  ASSUME FenceInv, NEW c \in Calls, NEW d \in Calls, pc[c] \in Window, pc[d] \in Window
  PROVE  c = d
PROOF
  BY DEF FenceInv, WindowInv

LEMMA SettleMoves ==
  ASSUME LocalType, NEW c \in Calls, NEW r, Settle(c, r)
  PROVE  rec'[c] = r /\ pc'[c] \in {"end", "tk_inbox", "body", "sv_confirm"}
PROOF
  <1>1. rec'[c] = r
    BY DEF Settle, LocalType
  <1>2. pc'[c] \in {"end", "tk_inbox", "body", "sv_confirm"}
    BY DEF Settle, DriveOnce, CheckShape, GoEnd, GoSave, GoBody, Goto, LocalType
  <1> QED
    BY <1>1, <1>2

LEMMA CreateFence ==
  ASSUME FenceInv, NEW c \in Calls, Create(c), OthersStay(c)
  PROVE  WindowInv' /\ PastInv' /\ NoLostUpdate'
PROOF
  <1>1. record = NoRecord /\ lease = c /\ rec' = rec /\ lease' = lease /\ pc'[c] = "load"
    BY DEF FenceInv, WindowInv, NoLostUpdate, Window, Create, Goto, TypeInv, TypeOK
  <1>2. \A d \in Calls : rec'[d] = NoRecord
    BY <1>1 DEF FenceInv, PastInv
  <1>3. \A d \in Calls : pc'[d] \notin Window
    BY <1>1, WindowsExclude DEF Window, Create, OthersStay
  <1> QED
    BY <1>2, <1>3 DEF WindowInv, PastInv, NoLostUpdate, Window

LEMMA SaveFollows ==
  ASSUME FenceInv, NEW c \in Calls, SaveSet(c)
  PROVE  /\ record = rec[c] /\ record \in Record /\ record' \in Record
         /\ record'.rev = record.rev + 1
         /\ Follows(record, [record' EXCEPT !.rev = record.rev])
PROOF
  <1>1. /\ record = rec[c] /\ rec[c] \in Record /\ nxt[c] \in Record
        /\ Follows(rec[c], nxt[c])
        /\ record' = Saved(c)
    BY DEF FenceInv, NoLostUpdate, TypeInv, CallInv, DriveInv, SaveInv, SaveSet, Driving, Saving
  <1> QED
    BY <1>1 DEF Saved, Follows, Record

LEMMA SaveFence ==
  ASSUME FenceInv, NEW c \in Calls, SaveSet(c), OthersStay(c)
  PROVE  WindowInv' /\ PastInv' /\ NoLostUpdate'
PROOF
  <1>1. /\ record \in Record /\ record' \in Record /\ record'.rev = record.rev + 1
        /\ record' # NoRecord
    BY SaveFollows, NoRecordAssumption
  <1>2. rec'[c] = record' /\ pc'[c] \notin Window
    <2>1. LocalType /\ record' = Saved(c)
      BY DEF FenceInv, TypeInv, TypeOK, LocalType, SaveSet
    <2>2. CASE Settle(c, Saved(c))
      BY <2>1, <2>2, SettleMoves DEF Window
    <2>3. CASE /\ rec' = [rec EXCEPT ![c] = Saved(c)]
               /\ pc'[c] \in {"end", "body", "sv_confirm", "tk_delete"}
      BY <2>1, <2>3 DEF LocalType, Window
    <2> QED
      BY <2>1, <2>2, <2>3 DEF SaveSet, GoEnd, GoBody, GoSave, Goto, LocalType
  <1>3. \A d \in Calls \ {c} : pc'[d] = pc[d] /\ rec'[d] = rec[d] /\ pc'[d] \notin Window
    BY WindowsExclude DEF OthersStay, SaveSet, Window
  <1>4. PastInv'
    <2>1. SUFFICES ASSUME NEW d \in Calls, rec'[d] # NoRecord
                   PROVE  rec'[d].rev <= record'.rev /\ (rec'[d].rev = record'.rev => rec'[d] = record')
      BY <1>1 DEF PastInv
    <2>2. CASE d = c
      BY <1>1, <1>2, <2>2 DEF Record
    <2>3. CASE d # c
      <3>1. rec[d] \in Record /\ rec'[d] = rec[d] /\ rec[d].rev <= record.rev
        BY <1>3, <2>1, <2>3 DEF FenceInv, PastInv, TypeInv, TypeOK
      <3> QED
        BY <1>1, <3>1 DEF Record
    <2> QED
      BY <2>2, <2>3
  <1> QED
    BY <1>2, <1>3, <1>4 DEF WindowInv, NoLostUpdate, Window

LEMMA FenceCalls ==
  ASSUME Timely, FenceInv, NEW c \in Calls, Step(c), OthersStay(c)
  PROVE  WindowInv' /\ PastInv' /\ NoLostUpdate'
PROOF
  <1> USE CallAssumption
  <1>0. LocalType /\ KindInv(c) /\ DriveInv(c) /\ SaveInv(c)
    BY DEF FenceInv, TypeInv, TypeOK, LocalType, CallInv
  <1>1. CASE ResumeCall(c) \/ FindBusy(c) \/ Recheck(c)
    <2>1. /\ UNCHANGED <<record, lease>> /\ rec'[c] \in {rec[c], NoRecord}
          /\ pc'[c] \notin Window
      BY <1>0, <1>1 DEF ResumeCall, FindBusy, Recheck, store, Return, Goto, LocalType, Window
    <2> QED
      BY <2>1, FenceKept DEF Window
  <1>2. CASE DeliverClaim(c) \/ DeliverReadInbox(c) \/ DeliverReadRecord(c) \/ DeliverSet(c)
    <2>1. UNCHANGED <<record, lease, rec>> /\ pc'[c] \notin Window
      BY <1>0, <1>2
      DEF DeliverClaim, DeliverReadInbox, DeliverReadRecord, DeliverSet, store, Goto, LocalType,
          Window
    <2> QED
      BY <2>1, FenceKept DEF Window
  <1>3. CASE DeliverRelease(c)
    <2>1. /\ UNCHANGED <<record, lease>> /\ rec'[c] \in {rec[c], NoRecord}
          /\ pc'[c] \notin Window
      BY <1>0, <1>3 DEF DeliverRelease, Return, Goto, LocalType, Window
    <2> QED
      BY <2>1, FenceKept DEF Window
  <1>4. CASE TakeLease(c)
    <2>1. /\ UNCHANGED <<record, rec>> /\ lease \in {Free, c} /\ lease' = c
          /\ pc'[c] \in {"start_load", "load"}
      BY <1>0, <1>4 DEF TakeLease, Claimable, Goto, LocalType
    <2> QED
      BY <2>1, FenceKept DEF Window
  <1>5. CASE StartLoad(c) \/ Load(c)
    <2>1. UNCHANGED <<record, lease>> /\ (pc[c] = "start_load" => lease = c)
      BY <1>5 DEF StartLoad, Load, store, FenceInv, WindowInv, Window
    <2>2. CASE Settle(c, record)
      BY <1>0, <2>1, <2>2, SettleMoves, FenceKept DEF Window
    <2>3. CASE pc[c] = "start_load" /\ record = NoRecord /\ Goto(c, "create") /\ UNCHANGED rec
      <3>1. pc'[c] = "create"
        BY <1>0, <2>3 DEF Goto, LocalType
      <3> QED
        BY <2>1, <2>3, <3>1, FenceKept DEF Window
    <2>4. CASE pc'[c] = "end" /\ UNCHANGED rec
      BY <2>1, <2>4, FenceKept DEF Window
    <2> QED
      BY <1>0, <1>5, <2>2, <2>3, <2>4 DEF StartLoad, Load, GoEnd, Goto, LocalType
  <1>6. CASE Create(c)
    BY <1>6, CreateFence
  <1>7. CASE TakeUpRead(c) \/ TakeUpDelete(c) \/ BodyRests(c) \/ BodyRefuses(c) \/ BodyThrows(c)
    <2>1. UNCHANGED <<record, lease, rec>> /\ pc'[c] \in {"end", "sv_confirm", "body"}
      BY <1>0, <1>7
      DEF TakeUpRead, TakeUpDelete, BodyRests, BodyRefuses, BodyThrows, DriveOnce, CheckShape,
          GoEnd, GoSave, GoBody, Goto, LocalType, store
    <2> QED
      BY <2>1, FenceKept DEF Window
  <1>8. CASE SaveConfirm(c)
    <2>1. /\ UNCHANGED <<record, rec>> /\ lease \in {Free, c} /\ lease' = c
          /\ pc'[c] = "sv_get"
      BY <1>0, <1>8 DEF SaveConfirm, Claimable, Goto, LocalType
    <2> QED
      BY <2>1, FenceKept
  <1>9. CASE SaveFindsLost(c) \/ (SaveGet(c) /\ ~Fenced(c))
    <2>1. UNCHANGED <<record, lease, rec>> /\ pc'[c] = "end"
      BY <1>0, <1>9 DEF SaveFindsLost, SaveGet, Lose, GoEnd, Goto, LocalType, store
    <2> QED
      BY <2>1, FenceKept DEF Window
  <1>10. CASE SaveGet(c) /\ Fenced(c)
    <2>1. UNCHANGED <<record, lease, rec>> /\ lease = c /\ pc'[c] = "sv_set"
      BY <1>0, <1>10
      DEF SaveGet, Lose, GoEnd, Goto, LocalType, store, FenceInv, WindowInv, Window
    <2>2. record = rec[c]
      <3>1. rec[c] \in Record /\ nxt[c].rev = rec[c].rev /\ record.rev = nxt[c].rev
        BY <1>0, <1>10 DEF SaveGet, Fenced, DriveInv, SaveInv, Follows, Driving, Saving
      <3> QED
        BY <3>1, NoRecordAssumption DEF FenceInv, PastInv
    <2> QED
      BY <2>1, <2>2, FenceKept
  <1>11. CASE SaveSet(c)
    BY <1>11, SaveFence
  <1>12. CASE EndLease(c)
    <2>1. /\ UNCHANGED record /\ rec'[c] \in {rec[c], NoRecord}
          /\ lease' # lease => lease = c
          /\ pc'[c] \in {"recheck", "returned"}
      BY <1>0, <1>12 DEF EndLease, Return, Goto, LocalType
    <2> QED
      BY <2>1, FenceKept DEF Window
  <1>13. CASE DeleteCall(c) \/ DeleteClear(c)
    BY <1>0, <1>13 DEF DeleteCall, DeleteClear, Timely, KindInv
  <1> QED
    BY <1>1, <1>2, <1>3, <1>4, <1>5, <1>6, <1>7, <1>8, <1>9, <1>10, <1>11, <1>12, <1>13 DEF Step

LEMMA FenceStep ==
  ASSUME Timely, FenceInv, [Next]_vars
  PROVE  FenceInv'
PROOF
  <1>1. TypeInv'
    BY TypeInvStep DEF FenceInv
  <1>2. WindowInv' /\ PastInv' /\ NoLostUpdate'
    <2> USE CallAssumption
    <2>0. TypeInv /\ LocalType
      BY DEF FenceInv, TypeInv, TypeOK, LocalType
    <2>1. CASE \E c \in Calls : Step(c)
      BY <2>0, <2>1, StepTypes, FenceCalls DEF StepOK
    <2>2. ASSUME NEW c \in Calls, Renew(c) PROVE WindowInv' /\ PastInv' /\ NoLostUpdate'
      <3>1. OthersStay(c) /\ UNCHANGED <<record, rec, pc>>
        BY <2>2 DEF Renew, OthersStay
      <3>2. lease' # lease => lease = Free
        BY <2>2 DEF Renew
      <3>3. pc[c] \in Window => lease = c
        BY DEF FenceInv, WindowInv
      <3>4. lease # c
        BY <2>2 DEF Renew
      <3> QED
        BY <3>1, <3>2, <3>3, <3>4, FenceKept DEF FenceInv, NoLostUpdate, Window
    <2>3. ASSUME NEW c \in Calls, Die(c) PROVE WindowInv' /\ PastInv' /\ NoLostUpdate'
      <3>1. OthersStay(c) /\ UNCHANGED <<record, lease>> /\ rec'[c] = NoRecord /\ pc'[c] = "dead"
        BY <2>0, <2>3 DEF Die, OthersStay, Goto, LocalType, store
      <3> QED
        BY <3>1, FenceKept DEF Window
    <2>4. ASSUME NEW c \in Calls, StoreThrows(c) PROVE WindowInv' /\ PastInv' /\ NoLostUpdate'
      <3>1. OthersStay(c)
        BY <2>0, <2>4, StoreThrowsOK DEF StepOK
      <3>2. /\ UNCHANGED <<record, lease>> /\ rec'[c] \in {rec[c], NoRecord}
            /\ pc'[c] \in {"end", "dl_release", "returned"}
        BY <2>0, <2>4 DEF StoreThrows, GoEnd, Return, Goto, LocalType, store
      <3> QED
        BY <3>1, <3>2, FenceKept DEF Window
    <2>5. CASE ExpireLease
      <3>1. UNCHANGED <<record, rec, pc>> /\ Expirable(lease)
        BY <2>5 DEF ExpireLease, locals
      <3>2. \A c \in Calls : pc[c] \notin Window
        BY <3>1 DEF FenceInv, WindowInv, Expirable, Timely, Window
      <3> QED
        BY <3>1, <3>2 DEF FenceInv, WindowInv, PastInv, NoLostUpdate, Window
    <2>6. CASE (\E g \in Gates : ExpireGateClaim(g)) \/ UNCHANGED vars
      <3>1. UNCHANGED <<record, lease, rec, pc>>
        BY <2>6 DEF ExpireGateClaim, locals, vars
      <3> QED
        BY <3>1 DEF FenceInv, WindowInv, PastInv, NoLostUpdate
    <2> QED
      BY <2>1, <2>2, <2>3, <2>4, <2>5, <2>6 DEF Next
  <1> QED
    BY <1>1, <1>2 DEF FenceInv

LEMMA FenceInit == Init => FenceInv
PROOF
  <1>1. Init => WindowInv /\ PastInv /\ NoLostUpdate
    BY DEF Init, WindowInv, PastInv, NoLostUpdate, Window
  <1> QED
    BY <1>1, TypeInvInit DEF FenceInv

(* Only a creation and a save write the record. *)
LEMMA Writes ==
  ASSUME Timely, FenceInv, [Next]_vars, record # NoRecord
  PROVE  record' = record \/ \E c \in Calls : SaveSet(c)
PROOF
  <1>1. ASSUME NEW c \in Calls, Step(c) PROVE record' = record \/ SaveSet(c)
    <2>1. ~Create(c)
      BY DEF FenceInv, NoLostUpdate, Create
    <2>2. ~DeleteCall(c) /\ ~DeleteClear(c)
      BY DEF DeleteCall, DeleteClear, Timely, FenceInv, TypeInv, CallInv, KindInv
    <2> QED
      BY <1>1, <2>1, <2>2
      DEF Step, store, ResumeCall, DeliverClaim, DeliverReadInbox, DeliverReadRecord, DeliverSet,
          DeliverRelease, TakeLease, FindBusy, StartLoad, Load, TakeUpRead, TakeUpDelete,
          BodyRests, BodyRefuses, BodyThrows, SaveConfirm, SaveFindsLost, SaveGet, EndLease,
          Recheck
  <1>2. CASE ~\E c \in Calls : Step(c)
    BY <1>2 DEF Next, Renew, Die, StoreThrows, ExpireLease, ExpireGateClaim, store, vars
  <1> QED
    BY <1>1, <1>2

----------------------------------------------------------------------------

(* The revision fences every write of a timely run: a call that writes the *)
(* record writes over exactly the record it read, and a start creates a    *)
(* run only where there is none.                                           *)
THEOREM NoUpdateIsLost == Timely => (Spec => []NoLostUpdate)
PROOF
  <1> SUFFICES ASSUME Timely PROVE Spec => []NoLostUpdate
    OBVIOUS
  <1>1. FenceInv /\ [Next]_vars => FenceInv'
    BY FenceStep
  <1>2. FenceInv => NoLostUpdate
    BY DEF FenceInv
  <1> QED
    BY <1>1, <1>2, FenceInit, PTL DEF Spec

(* What every write of the record does, whatever step makes it. *)
LEMMA WritesFollow ==
  ASSUME Timely, FenceInv, [Next]_vars, record # NoRecord, record' # record
  PROVE  /\ record'.rev = record.rev + 1
         /\ record'.input = record.input
         /\ record.status # "done"
         /\ \A g \in Gates : Accepted(record.resume[g]) => record'.resume[g] = record.resume[g]
PROOF
  <1>1. PICK c \in Calls : SaveSet(c)
    BY Writes
  <1> QED
    BY <1>1, SaveFollows DEF Follows, Record

(* The revision counts the writes of the record one by one. *)
THEOREM RevisionsCount == Timely => (Spec => RevisionCounts)
PROOF
  <1> SUFFICES ASSUME Timely PROVE Spec => RevisionCounts
    OBVIOUS
  <1>1. FenceInv /\ [Next]_vars => FenceInv'
    BY FenceStep
  <1>2. FenceInv /\ [Next]_vars =>
          [(record # NoRecord /\ record' \notin {record, NoRecord})
             => record'.rev = record.rev + 1]_vars
    BY WritesFollow
  <1> QED
    BY <1>1, <1>2, FenceInit, PTL DEF Spec, RevisionCounts

(* A repeated start, a resume, a drive that lost its lease: none changes   *)
(* the input of a run that exists.                                         *)
THEOREM InputStays == Timely => (Spec => InputIsFixed)
PROOF
  <1> SUFFICES ASSUME Timely PROVE Spec => InputIsFixed
    OBVIOUS
  <1>1. FenceInv /\ [Next]_vars => FenceInv'
    BY FenceStep
  <1>2. FenceInv /\ [Next]_vars =>
          [record # NoRecord /\ record' # NoRecord => record'.input = record.input]_vars
    BY WritesFollow
  <1> QED
    BY <1>1, <1>2, FenceInit, PTL DEF Spec, InputIsFixed

(* A run that is done stays as it is. *)
THEOREM DoneStays == Timely => (Spec => DoneIsFinal)
PROOF
  <1> SUFFICES ASSUME Timely PROVE Spec => DoneIsFinal
    OBVIOUS
  <1>1. FenceInv /\ [Next]_vars => FenceInv'
    BY FenceStep
  <1>2. FenceInv /\ [Next]_vars =>
          [record # NoRecord /\ record.status = "done" => record' \in {record, NoRecord}]_vars
    BY WritesFollow
  <1> QED
    BY <1>1, <1>2, FenceInit, PTL DEF Spec, DoneIsFinal

(* The first datum to reach a gate that accepts it is the one it keeps. *)
THEOREM TakenDatumStays == Timely => (Spec => TakenDatumIsKept)
PROOF
  <1> SUFFICES ASSUME Timely PROVE Spec => TakenDatumIsKept
    OBVIOUS
  <1>1. FenceInv /\ [Next]_vars => FenceInv'
    BY FenceStep
  <1>2. FenceInv /\ [Next]_vars =>
          [\A g \in Gates :
             (record # NoRecord /\ record' # NoRecord /\ record.resume[g] \notin Refused \cup {NoDatum})
               => record'.resume[g] = record.resume[g]]_vars
    BY WritesFollow DEF Accepted
  <1> QED
    BY <1>1, <1>2, FenceInit, PTL DEF Spec, TakenDatumIsKept

----------------------------------------------------------------------------
(* One driver.  A call that holds the lease and does not know it for lost  *)
(* is its owner.                                                           *)

(* No live call outlasts its lease between taking it and letting it go. *)
LeasesHold == StallAt \cap (Holding \cup {"d_clear"}) = {}

LeaseInv ==
  \A c \in Calls :
    /\ pc[c] \in Holding /\ ~lost[c] => lease = c
    /\ pc[c] = "d_clear" => lease = c

(* The steps of call c, and of what goes wrong around it. *)
Moves(c) == Step(c) \/ Renew(c) \/ Die(c) \/ StoreThrows(c)

LEMMA MovesOK ==
  ASSUME TypeInv, NEW c \in Calls, Moves(c)
  PROVE  /\ LocalType /\ StoreType /\ LocalType' /\ StoreType'
         /\ OthersStay(c)
         /\ CallInv(c) /\ CallInv(c)'
         /\ \A d \in Calls \ {c} : lost'[d] = lost[d]
PROOF
  <1>1. LocalType /\ StoreType /\ CallInv(c)
    BY DEF TypeInv, TypeOK, LocalType, StoreType
  <1>2. StoreOK /\ StepOK(c)
    BY StepTypes, RenewOK, DieOK, StoreThrowsOK DEF Moves
  <1>3. UNCHANGED lost \/ \E b \in BOOLEAN : lost' = [lost EXCEPT ![c] = b]
    BY DEF Moves, Step, Renew, Die, StoreThrows, ResumeCall, DeliverClaim, DeliverReadInbox,
           DeliverReadRecord, DeliverSet, DeliverRelease, TakeLease, FindBusy, StartLoad, Create,
           Load, TakeUpRead, TakeUpDelete, BodyRests, BodyRefuses, BodyThrows, SaveConfirm,
           SaveFindsLost, SaveGet, SaveSet, EndLease, Recheck, DeleteCall, DeleteClear, Lose, Return
  <1>4. \A d \in Calls \ {c} : lost'[d] = lost[d]
    BY <1>1, <1>3 DEF LocalType
  <1> QED
    BY <1>1, <1>2, <1>4 DEF StoreOK, StepOK

LEMMA LeaseKept ==
  ASSUME LeaseInv, NEW c \in Calls, OthersStay(c),
         \A d \in Calls \ {c} : lost'[d] = lost[d],
         lease' = lease \/ lease \in {Free, c},
         pc'[c] \in Holding /\ ~lost'[c] => lease' = c,
         pc'[c] = "d_clear" => lease' = c
  PROVE  LeaseInv'
PROOF
  <1>1. SUFFICES ASSUME NEW d \in Calls
                 PROVE  /\ pc'[d] \in Holding /\ ~lost'[d] => lease' = d
                        /\ pc'[d] = "d_clear" => lease' = d
    BY DEF LeaseInv
  <1>2. CASE d # c
    BY <1>2, CallAssumption DEF LeaseInv, OthersStay
  <1> QED
    BY <1>2

LEMMA LeaseMoves ==
  ASSUME TypeInv, LeaseInv, NEW c \in Calls, Moves(c)
  PROVE  LeaseInv'
PROOF
  <1>0. /\ LocalType /\ OthersStay(c) /\ KindInv(c)
        /\ \A d \in Calls \ {c} : lost'[d] = lost[d]
    BY MovesOK DEF CallInv
  <1>1. CASE \/ ResumeCall(c) \/ FindBusy(c) \/ Recheck(c) \/ DeliverClaim(c) \/ DeliverReadInbox(c)
             \/ DeliverReadRecord(c) \/ DeliverSet(c) \/ DeliverRelease(c) \/ Die(c)
    <2>1. lease' = lease /\ pc'[c] \notin Holding \cup {"d_clear"}
      BY <1>0, <1>1
      DEF ResumeCall, FindBusy, Recheck, DeliverClaim, DeliverReadInbox, DeliverReadRecord,
          DeliverSet, DeliverRelease, Die, store, Return, Goto, LocalType, Holding
    <2> QED
      BY <1>0, <2>1, LeaseKept
  <1>2. CASE TakeLease(c) \/ SaveConfirm(c) \/ (DeleteCall(c) /\ lease' = c)
    <2>1. lease' = c /\ lease \in {Free, c}
      BY <1>2 DEF TakeLease, SaveConfirm, DeleteCall, Claimable
    <2> QED
      BY <1>0, <2>1, LeaseKept
  <1>3. CASE \/ StartLoad(c) \/ Load(c) \/ Create(c) \/ TakeUpRead(c) \/ TakeUpDelete(c)
             \/ BodyRests(c) \/ BodyRefuses(c) \/ BodyThrows(c) \/ SaveFindsLost(c)
             \/ SaveGet(c) \/ SaveSet(c)
    <2>1. lease' = lease /\ pc[c] \in Holding
      BY <1>3
      DEF StartLoad, Load, Create, TakeUpRead, TakeUpDelete, BodyRests, BodyRefuses, BodyThrows,
          SaveFindsLost, SaveGet, SaveSet, store, Holding
    <2>2. lost' = lost \/ lost'[c]
      BY <1>0, <1>3
      DEF StartLoad, Load, Create, TakeUpRead, TakeUpDelete, BodyRests, BodyRefuses, BodyThrows,
          SaveFindsLost, SaveGet, SaveSet, Lose, LocalType
    <2>3. pc'[c] # "d_clear"
      BY <1>0, <1>3
      DEF StartLoad, Load, Create, TakeUpRead, TakeUpDelete, BodyRests, BodyRefuses, BodyThrows,
          SaveFindsLost, SaveGet, SaveSet, Lose, Settle, DriveOnce, CheckShape, GoEnd, GoSave,
          GoBody, Goto, LocalType
    <2> QED
      BY <1>0, <2>1, <2>2, <2>3, LeaseKept DEF LeaseInv
  <1>4. CASE StoreThrows(c)
    <2>1. /\ lease' = lease /\ lost' = lost /\ pc'[c] # "d_clear"
          /\ pc'[c] \in Holding => pc[c] \in Holding
      BY <1>0, <1>4 DEF StoreThrows, store, GoEnd, Return, Goto, LocalType, Holding
    <2> QED
      BY <1>0, <2>1, LeaseKept DEF LeaseInv
  <1>5. CASE EndLease(c) \/ DeleteClear(c) \/ (DeleteCall(c) /\ lease' = lease)
    <2>1. lease' = lease \/ lease = c
      BY <1>5 DEF EndLease, DeleteClear, LeaseInv
    <2>2. CASE pc'[c] \in {"recheck", "returned"}
      BY <1>0, <2>1, <2>2, LeaseKept DEF Holding
    <2>3. CASE pc'[c] = "d_clear" /\ lease' = c
      BY <1>0, <2>1, <2>3, LeaseKept DEF Holding
    <2> QED
      BY <1>0, <1>5, <2>2, <2>3 DEF EndLease, DeleteClear, DeleteCall, Return, Goto, LocalType
  <1>6. CASE Renew(c)
    <2>1. /\ lease' = lease \/ lease = Free
          /\ lost'[c] \/ lease' = c
          /\ pc'[c] = pc[c]
      BY <1>0, <1>6 DEF Renew, LocalType
    <2>2. pc'[c] # "d_clear"
      BY <1>6 DEF Renew, Holding
    <2> QED
      BY <1>0, <2>1, <2>2, LeaseKept
  <1>7. DeleteCall(c) => lease' = c \/ lease' = lease
    BY DEF DeleteCall
  <1> QED
    BY <1>1, <1>2, <1>3, <1>4, <1>5, <1>6, <1>7 DEF Moves, Step

LEMMA LeaseStep ==
  ASSUME LeasesHold, TypeInv, LeaseInv, [Next]_vars
  PROVE  LeaseInv'
PROOF
  <1>1. CASE \E c \in Calls : Moves(c)
    BY <1>1, LeaseMoves
  <1>2. CASE ExpireLease
    <2>1. UNCHANGED <<pc, lost>> /\ Expirable(lease) /\ lease \in Calls
      BY <1>2 DEF ExpireLease, locals, TypeInv, TypeOK
    <2>2. \A c \in Calls : ~(pc[c] \in Holding /\ ~lost[c]) /\ pc[c] # "d_clear"
      BY <2>1 DEF LeaseInv, LeasesHold, Expirable, Holding
    <2> QED
      BY <2>1, <2>2 DEF LeaseInv
  <1>3. CASE (\E g \in Gates : ExpireGateClaim(g)) \/ UNCHANGED vars
    BY <1>3 DEF ExpireGateClaim, locals, vars, LeaseInv
  <1> QED
    BY <1>1, <1>2, <1>3 DEF Next, Moves

(* Of the calls that drive, save or clear a run whose leases hold, at most *)
(* one has not lost the run.                                               *)
THEOREM OneCallDrives == LeasesHold => (Spec => []OneDriver)
PROOF
  <1> SUFFICES ASSUME LeasesHold PROVE Spec => []OneDriver
    OBVIOUS
  <1>1. TypeInv /\ LeaseInv /\ [Next]_vars => (TypeInv /\ LeaseInv)'
    BY LeaseStep, TypeInvStep
  <1>2. Init => LeaseInv
    BY DEF Init, LeaseInv, Holding
  <1>3. LeaseInv => OneDriver
    BY DEF LeaseInv, OneDriver
  <1> QED
    BY <1>1, <1>2, <1>3, TypeInvInit, PTL DEF Spec

----------------------------------------------------------------------------
(* The shape of the flow.                                                  *)

ShapeInv ==
  \A c \in Calls :
    /\ pc[c] = "body" => rec[c].flow = ShapeOf[c]
    /\ pc[c] \in Saving /\ save[c] = "shape_drive" => nxt[c].flow = ShapeOf[c]

(* What a step of c has to be shown to do. *)
ShapeOK(c) ==
  /\ pc'[c] = "body" => rec'[c].flow = ShapeOf[c]
  /\ pc'[c] \in Saving /\ save'[c] = "shape_drive" => nxt'[c].flow = ShapeOf[c]

LEMMA DriveOnceShape ==
  ASSUME LocalType, NEW c \in Calls, NEW r \in Record, DriveOnce(c, r), rec'[c] = r
  PROVE  ShapeOK(c)
PROOF
  <1>1. CASE r.flow = ShapeOf[c] /\ GoBody(c)
    BY <1>1 DEF GoBody, Goto, LocalType, ShapeOK, Saving
  <1>2. CASE GoEnd(c, Thrown(lost[c], "flow_changed"))
    BY <1>2 DEF GoEnd, Goto, LocalType, ShapeOK, Saving
  <1>3. CASE GoSave(c, [r EXCEPT !.flow = ShapeOf[c]], "shape_drive")
    <2>1. pc'[c] = "sv_confirm" /\ nxt'[c] = [r EXCEPT !.flow = ShapeOf[c]]
      BY <1>3 DEF GoSave, Goto, LocalType
    <2> QED
      BY <2>1 DEF ShapeOK, Record
  <1> QED
    BY <1>1, <1>2, <1>3 DEF DriveOnce, CheckShape

LEMMA SettleShape ==
  ASSUME LocalType, NEW c \in Calls, NEW r \in Record, Settle(c, r)
  PROVE  ShapeOK(c)
PROOF
  <1>1. rec'[c] = r
    BY DEF Settle, LocalType
  <1>2. CASE DriveOnce(c, r)
    BY <1>1, <1>2, DriveOnceShape
  <1>3. CASE pc'[c] \in {"end", "tk_inbox"}
    BY <1>3 DEF ShapeOK, Saving
  <1> QED
    BY <1>2, <1>3 DEF Settle, GoEnd, Goto, LocalType

LEMMA ShapeMoves ==
  ASSUME TypeInv, ShapeInv, NEW c \in Calls, Moves(c)
  PROVE  ShapeInv'
PROOF
  <1>0. /\ LocalType /\ StoreType /\ OthersStay(c) /\ CallInv(c)
        /\ pc[c] = "body" => rec[c].flow = ShapeOf[c]
        /\ pc[c] \in Saving /\ save[c] = "shape_drive" => nxt[c].flow = ShapeOf[c]
    BY MovesOK DEF ShapeInv
  <1>1. ShapeOK(c)
    <2>1. CASE \/ ResumeCall(c) \/ FindBusy(c) \/ Recheck(c) \/ DeliverClaim(c)
               \/ DeliverReadInbox(c) \/ DeliverReadRecord(c) \/ DeliverSet(c) \/ DeliverRelease(c)
               \/ Die(c) \/ TakeLease(c) \/ Create(c) \/ SaveFindsLost(c) \/ (SaveGet(c) /\ ~Fenced(c))
               \/ EndLease(c) \/ DeleteCall(c) \/ DeleteClear(c) \/ StoreThrows(c)
      <3>1. pc'[c] \notin Saving \cup {"body"}
        BY <1>0, <2>1
        DEF ResumeCall, FindBusy, Recheck, DeliverClaim, DeliverReadInbox, DeliverReadRecord,
            DeliverSet, DeliverRelease, Die, TakeLease, Create, SaveFindsLost, SaveGet, EndLease,
            DeleteCall, DeleteClear, StoreThrows, Lose, GoEnd, Return, Goto, LocalType, Saving
      <3> QED
        BY <3>1 DEF ShapeOK
    <2>2. CASE StartLoad(c) \/ Load(c)
      <3>1. CASE record # NoRecord /\ Settle(c, record)
        BY <1>0, <3>1, SettleShape DEF StoreType
      <3>2. CASE pc'[c] \in {"create", "end"}
        BY <3>2 DEF ShapeOK, Saving
      <3> QED
        BY <1>0, <2>2, <3>1, <3>2 DEF StartLoad, Load, GoEnd, Goto, LocalType
    <2>3. CASE TakeUpRead(c)
      <3>1. CASE pc'[c] = "end"
        BY <3>1 DEF ShapeOK, Saving
      <3>2. CASE pc'[c] = "sv_confirm" /\ save'[c] \in {"take_up", "shape_take_up"}
        BY <3>2 DEF ShapeOK
      <3> QED
        BY <1>0, <2>3, <3>1, <3>2 DEF TakeUpRead, CheckShape, GoEnd, GoSave, Goto, LocalType
    <2>4. CASE TakeUpDelete(c)
      <3>1. rec[c] \in Record /\ rec'[c] = rec[c] /\ DriveOnce(c, rec[c])
        BY <1>0, <2>4 DEF TakeUpDelete, CallInv, DriveInv, Driving
      <3> QED
        BY <1>0, <3>1, DriveOnceShape
    <2>5. CASE BodyRests(c) \/ BodyRefuses(c) \/ BodyThrows(c)
      <3>1. pc'[c] = "sv_confirm" /\ save'[c] \in {"rest", "failure"}
        BY <1>0, <2>5 DEF BodyRests, BodyRefuses, BodyThrows, GoSave, Goto, LocalType
      <3> QED
        BY <3>1 DEF ShapeOK
    <2>6. CASE SaveConfirm(c) \/ (SaveGet(c) /\ Fenced(c)) \/ Renew(c)
      <3>1. /\ UNCHANGED <<rec, nxt, save>>
            /\ pc'[c] = "body" => pc[c] = "body"
            /\ pc'[c] \in Saving => pc[c] \in Saving
        BY <1>0, <2>6 DEF SaveConfirm, SaveGet, Lose, GoEnd, Renew, Goto, LocalType, Saving
      <3> QED
        BY <1>0, <3>1 DEF ShapeOK
    <2>7. CASE SaveSet(c)
      <3>1. nxt[c] \in Record /\ Saved(c) \in Record /\ Saved(c).flow = nxt[c].flow
        BY <1>0, <2>7 DEF SaveSet, CallInv, SaveInv, Saving, Saved, Record
      <3>2. CASE Settle(c, Saved(c))
        BY <1>0, <3>1, <3>2, SettleShape
      <3>3. CASE pc'[c] \in {"end", "tk_delete"}
        BY <3>3 DEF ShapeOK, Saving
      <3>4. CASE pc'[c] = "body" /\ rec'[c] = Saved(c) /\ save[c] = "shape_drive"
        BY <1>0, <2>7, <3>1, <3>4 DEF ShapeOK, SaveSet, Saving
      <3>5. CASE pc'[c] = "sv_confirm" /\ save'[c] = "take_up"
        BY <3>5 DEF ShapeOK
      <3> QED
        BY <1>0, <2>7, <3>2, <3>3, <3>4, <3>5 DEF SaveSet, GoEnd, GoBody, GoSave, Goto, LocalType
    <2> QED
      BY <2>1, <2>2, <2>3, <2>4, <2>5, <2>6, <2>7 DEF Moves, Step
  <1>2. SUFFICES ASSUME NEW d \in Calls
                 PROVE  /\ pc'[d] = "body" => rec'[d].flow = ShapeOf[d]
                        /\ pc'[d] \in Saving /\ save'[d] = "shape_drive" => nxt'[d].flow = ShapeOf[d]
    BY DEF ShapeInv
  <1>3. CASE d # c
    BY <1>3, <1>0 DEF OthersStay, ShapeInv
  <1> QED
    BY <1>1, <1>3 DEF ShapeOK

(* Whatever fails, stalls or dies, and whichever shapes are deployed side  *)
(* by side: a flow is driven only on a record of its own shape.            *)
THEOREM ShapeIsDriven == Spec => []DrivesItsShape
PROOF
  <1>1. TypeInv /\ ShapeInv /\ [Next]_vars => (TypeInv /\ ShapeInv)'
    <2> SUFFICES ASSUME TypeInv, ShapeInv, [Next]_vars PROVE ShapeInv'
      BY TypeInvStep
    <2>1. CASE \E c \in Calls : Moves(c)
      BY <2>1, ShapeMoves
    <2>2. CASE UNCHANGED locals
      BY <2>2 DEF locals, ShapeInv
    <2> QED
      BY <2>1, <2>2 DEF Next, Moves, ExpireLease, ExpireGateClaim, vars, locals
  <1>2. Init => ShapeInv
    BY DEF Init, ShapeInv, Saving
  <1>3. ShapeInv => DrivesItsShape
    BY DEF ShapeInv, DrivesItsShape
  <1> QED
    BY <1>1, <1>2, <1>3, TypeInvInit, PTL DEF Spec

----------------------------------------------------------------------------
(* Resume data.  A datum goes into the inbox of a gate under the claim of  *)
(* that gate, when nothing is there, and is taken out of it by the call    *)
(* that has just written it into the record.                               *)

Depositing == {"dl_inbox", "dl_record", "dl_set"}

(* Nor does a live call outlast the claim of a gate while it puts a datum  *)
(* there, nor its lease before it deletes one.                             *)
DataInTime == Timely /\ StallAt \cap (Depositing \cup {"tk_delete"}) = {}

DepositInv ==
  \A r \in Resumes :
    /\ pc[r] \in Depositing => gclaim[GateFor[r]] = r
    /\ pc[r] \in {"dl_record", "dl_set"} => inbox[GateFor[r]] = NoDatum

(* What a call that takes a datum up knows of it. *)
TakesInv(c) ==
  /\ pc[c] = "tk_delete" =>
       /\ lease = c /\ record = rec[c] /\ record.status = "running"
       /\ inbox[rec[c].gate] = rec[c].resume[rec[c].gate]
       /\ inbox[rec[c].gate] # NoDatum
  /\ pc[c] \in Saving /\ save[c] = "take_up" =>
       /\ rec[c].status = "suspended" /\ nxt[c].status = "running"
       /\ nxt[c].resume[nxt[c].gate] # NoDatum
       /\ rec[c] = record => inbox[nxt[c].gate] = nxt[c].resume[nxt[c].gate]
  /\ pc[c] \in Saving /\ save[c] = "shape_take_up" =>
       /\ rec[c].status = "suspended"
       /\ rec[c] = record => inbox[nxt[c].gate] = entry[c]

DataInv == FenceInv /\ DepositInv /\ \A c \in Calls : TakesInv(c)

(* Only these steps touch an inbox. *)
LEMMA InboxMoves ==
  ASSUME NEW c \in Calls, Moves(c)
  PROVE  inbox' = inbox \/ DeliverSet(c) \/ TakeUpDelete(c) \/ DeleteClear(c)
PROOF
  BY DEF Moves, Step, Renew, Die, StoreThrows, store, ResumeCall, DeliverClaim, DeliverReadInbox,
         DeliverReadRecord, DeliverRelease, TakeLease, FindBusy, StartLoad, Create,
         Load, TakeUpRead, BodyRests, BodyRefuses, BodyThrows, SaveConfirm,
         SaveFindsLost, SaveGet, SaveSet, EndLease, Recheck, DeleteCall

LEMMA NoDeletes ==
  ASSUME Timely, TypeInv, NEW c \in Calls
  PROVE  ~DeleteCall(c) /\ ~DeleteClear(c)
PROOF
  BY DEF DeleteCall, DeleteClear, Timely, TypeInv, CallInv, KindInv

LEMMA DepositMoves ==
  ASSUME DataInTime, DataInv, NEW c \in Calls, Moves(c)
  PROVE  DepositInv'
PROOF
  <1>0. /\ LocalType /\ StoreType /\ OthersStay(c) /\ KindInv(c) /\ Timely /\ TypeInv /\ DepositInv
        /\ ~DeleteCall(c) /\ ~DeleteClear(c)
    BY MovesOK, NoDeletes DEF DataInv, FenceInv, DataInTime, CallInv
  <1>1. gclaim' = gclaim \/ DeliverClaim(c) \/ DeliverRelease(c)
    BY <1>0
    DEF Moves, Step, Renew, Die, StoreThrows, store, ResumeCall, DeliverReadInbox,
        DeliverReadRecord, DeliverSet, TakeLease, FindBusy, StartLoad, Create,
        Load, TakeUpRead, TakeUpDelete, BodyRests, BodyRefuses, BodyThrows, SaveConfirm,
        SaveFindsLost, SaveGet, SaveSet, EndLease, Recheck
  <1>2. SUFFICES ASSUME NEW r \in Resumes
                 PROVE  /\ pc'[r] \in Depositing => gclaim'[GateFor[r]] = r
                        /\ pc'[r] \in {"dl_record", "dl_set"} => inbox'[GateFor[r]] = NoDatum
    BY DEF DepositInv
  <1>3. r \in Calls /\ r # Free
    BY CallAssumption DEF Calls
  <1>4. CASE r # c
    <2>1. /\ pc'[r] = pc[r] /\ (pc[r] \in Depositing => gclaim[GateFor[r]] = r /\ GateFor[r] \in Gates)
          /\ pc[r] \in {"dl_record", "dl_set"} => inbox[GateFor[r]] = NoDatum
      BY <1>0, <1>3, <1>4
      DEF OthersStay, DepositInv, TypeInv, CallInv, KindInv, Depositing, Delivering
    <2>2. pc[r] \in Depositing => gclaim'[GateFor[r]] = r
      BY <1>0, <1>1, <1>3, <1>4, <2>1 DEF DeliverClaim, DeliverRelease, StoreType
    <2>3. pc[r] \in {"dl_record", "dl_set"} => inbox'[GateFor[r]] = NoDatum
      <3>1. CASE DeliverSet(c)
        <4>1. c \in Resumes /\ gclaim[GateFor[c]] = c
          BY <1>0, <3>1 DEF DeliverSet, KindInv, Delivering, DepositInv, Depositing
        <4>2. pc[r] \in Depositing => GateFor[r] # GateFor[c]
          BY <1>4, <2>1, <4>1
        <4> QED
          BY <1>0, <2>1, <3>1, <4>2 DEF DeliverSet, StoreType, Depositing
      <3>2. CASE TakeUpDelete(c)
        BY <1>0, <2>1, <3>2 DEF TakeUpDelete, StoreType, Depositing
      <3> QED
        BY <1>0, <2>1, <3>1, <3>2, InboxMoves
    <2> QED
      BY <2>1, <2>2, <2>3
  <1>5. CASE r = c
    <2>1. CASE DeliverClaim(c)
      <3>1. pc'[c] \in Depositing => gclaim'[GateFor[c]] = c /\ pc'[c] = "dl_inbox"
        BY <1>0, <2>1 DEF DeliverClaim, Goto, LocalType, StoreType, KindInv, Delivering, Depositing
      <3> QED
        BY <1>5, <3>1 DEF Depositing
    <2>2. CASE DeliverReadInbox(c) \/ DeliverReadRecord(c)
      <3>1. /\ UNCHANGED <<inbox, gclaim>> /\ gclaim[GateFor[c]] = c
            /\ pc'[c] \in {"dl_record", "dl_set"} => inbox[GateFor[c]] = NoDatum
        BY <1>0, <1>5, <2>2
        DEF DeliverReadInbox, DeliverReadRecord, store, Goto, LocalType, DepositInv, Depositing
      <3> QED
        BY <1>5, <3>1
    <2>3. CASE pc'[c] \notin Depositing
      BY <1>5, <2>3 DEF Depositing
    <2>4. pc'[c] \notin Depositing \/ DeliverClaim(c) \/ DeliverReadInbox(c) \/ DeliverReadRecord(c)
      BY <1>0
      DEF Moves, Step, Renew, Die, StoreThrows, store, ResumeCall, DeliverSet, DeliverRelease,
          TakeLease, FindBusy, StartLoad, Create, Load, TakeUpRead, TakeUpDelete, BodyRests,
          BodyRefuses, BodyThrows, SaveConfirm, SaveFindsLost, SaveGet, SaveSet, EndLease,
          Recheck, Settle, DriveOnce, CheckShape, Lose, GoEnd, GoSave, GoBody, Return, Goto,
          LocalType, Depositing, Holding
    <2> QED
      BY <2>1, <2>2, <2>3, <2>4
  <1> QED
    BY <1>4, <1>5

(* A step of another call leaves alone what a taker knows. *)
LEMMA OthersKeepTakes ==
  ASSUME DataInTime, DataInv, NEW c \in Calls, Moves(c), NEW d \in Calls \ {c},
         OthersStay(c), record' = record \/ SaveSet(c) \/ Create(c)
  PROVE  TakesInv(d)'
PROOF
  <1>0. /\ LocalType /\ StoreType /\ StoreType' /\ TypeInv /\ CallInv(d) /\ CallInv(c)
        /\ FenceInv /\ DepositInv /\ TakesInv(c) /\ TakesInv(d) /\ Timely
        /\ pc'[d] = pc[d] /\ rec'[d] = rec[d] /\ nxt'[d] = nxt[d] /\ save'[d] = save[d]
        /\ entry'[d] = entry[d]
        /\ ~DeleteClear(c)
    BY MovesOK, NoDeletes DEF DataInv, FenceInv, DataInTime, OthersStay, TypeInv
  (* A taker's record is a record: it is not the one that a creation makes. *)
  <1>1. pc[d] \in Driving => rec[d] \in Record /\ record # NoRecord /\ ~Create(c)
    <2>1. pc[d] \in Driving => rec[d] \in Record /\ rec[d] # NoRecord
      BY <1>0, NoRecordAssumption DEF CallInv, DriveInv
    <2>2. pc[d] \in Driving => record # NoRecord
      BY <2>1 DEF DataInv, FenceInv, PastInv
    <2> QED
      BY <2>1, <2>2 DEF Create, DataInv, FenceInv, NoLostUpdate
  <1>2. SaveSet(c) => record'.rev = record.rev + 1 /\ record \in Record /\ lease = c
    BY <1>0, SaveFollows DEF SaveSet, FenceInv, WindowInv, Window
  <1>3. pc[d] \in Driving /\ rec[d] = record' => rec[d] = record /\ record' = record
    <2>1. CASE SaveSet(c) /\ pc[d] \in Driving
      <3>1. rec[d].rev <= record.rev /\ rec[d].rev \in Nat /\ record.rev \in Nat
        BY <1>1, <1>2, <2>1, NoRecordAssumption DEF DataInv, FenceInv, PastInv, Record
      <3> QED
        BY <1>2, <2>1, <3>1
    <2> QED
      BY <1>1, <2>1
  (* What another call puts into an inbox or deletes is not this datum.     *)
  <1>4. ASSUME NEW g \in Gates, inbox[g] # NoDatum, pc[d] \in Driving, rec[d] = record,
               pc[d] = "tk_delete" \/ record.status = "suspended"
        PROVE  inbox'[g] = inbox[g]
    <2>1. CASE DeliverSet(c)
      <3>1. c \in Resumes /\ inbox[GateFor[c]] = NoDatum
        BY <1>0, <2>1 DEF DeliverSet, CallInv, KindInv, Delivering, DepositInv
      <3> QED
        BY <1>0, <1>4, <2>1, <3>1 DEF DeliverSet, StoreType
    <2>2. CASE TakeUpDelete(c)
      <3>1. lease = c /\ record.status = "running"
        BY <1>0, <2>2 DEF TakeUpDelete, TakesInv
      <3>2. pc[d] = "tk_delete" => lease = d
        BY <1>0 DEF TakesInv
      <3> QED
        BY <1>4, <3>1, <3>2
    <2> QED
      BY <1>0, <2>1, <2>2, InboxMoves
  <1>5. ASSUME pc[d] = "tk_delete"
        PROVE  /\ lease' = d /\ record' = rec[d] /\ record'.status = "running"
               /\ inbox'[rec[d].gate] = rec[d].resume[rec[d].gate]
               /\ inbox'[rec[d].gate] # NoDatum
    <2>1. /\ lease = d /\ record = rec[d] /\ record.status = "running"
          /\ inbox[rec[d].gate] = rec[d].resume[rec[d].gate]
          /\ inbox[rec[d].gate] # NoDatum /\ rec[d].gate \in Gates /\ pc[d] \in Driving
      BY <1>0, <1>5 DEF TakesInv, CallInv, DriveInv, Driving
    <2>2. record' = record
      BY <1>1, <1>2, <2>1
    <2>3. lease' = lease
      <3>1. lease' = lease \/ lease \in {Free, c}
        BY <1>0
        DEF Moves, Step, Renew, Die, StoreThrows, store, ResumeCall, DeliverClaim, DeliverReadInbox,
            DeliverReadRecord, DeliverSet, DeliverRelease, TakeLease, FindBusy, StartLoad, Create,
            Load, TakeUpRead, TakeUpDelete, BodyRests, BodyRefuses, BodyThrows, SaveConfirm,
            SaveFindsLost, SaveGet, SaveSet, EndLease, Recheck, DeleteCall, Claimable
      <3> QED
        BY <2>1, <3>1, CallAssumption
    <2>4. inbox'[rec[d].gate] = inbox[rec[d].gate]
      BY <1>4, <1>5, <2>1
    <2> QED
      BY <2>1, <2>2, <2>3, <2>4
  <1>6. ASSUME pc[d] \in Saving, save[d] \in {"take_up", "shape_take_up"}, rec[d] = record'
        PROVE  rec[d] = record /\ (inbox[nxt[d].gate] # NoDatum => inbox'[nxt[d].gate] = inbox[nxt[d].gate])
    <2>1. rec[d] = record /\ rec[d].status = "suspended" /\ pc[d] \in Driving
      BY <1>0, <1>3, <1>6 DEF TakesInv, Saving, Driving
    <2>2. nxt[d].gate \in Gates
      BY <1>0, <1>6 DEF CallInv, SaveInv, Suspendable
    <2> QED
      BY <1>4, <2>1, <2>2
  <1>7. pc[d] \in Saving /\ save[d] = "shape_take_up" => entry[d] # NoDatum
    BY <1>0, CallAssumption DEF CallInv, SaveInv
  <1> QED
    BY <1>0, <1>5, <1>6, <1>7 DEF TakesInv

(* What the call itself knows after its step. *)
LEMMA OwnTakes ==
  ASSUME DataInTime, DataInv, NEW c \in Calls, Moves(c)
  PROVE  TakesInv(c)'
PROOF
  <1>0. /\ LocalType /\ StoreType /\ OthersStay(c) /\ CallInv(c) /\ CallInv(c)' /\ FenceInv
        /\ TakesInv(c) /\ ~DeleteCall(c) /\ ~DeleteClear(c)
    BY MovesOK, NoDeletes DEF DataInv, FenceInv, DataInTime
  <1> DEFINE Out == pc'[c] \notin Saving \cup {"tk_delete"}
  <1>1. Out => TakesInv(c)'
    BY DEF TakesInv
  <1>2. CASE \/ ResumeCall(c) \/ FindBusy(c) \/ Recheck(c) \/ DeliverClaim(c)
             \/ DeliverReadInbox(c) \/ DeliverReadRecord(c) \/ DeliverSet(c) \/ DeliverRelease(c)
             \/ Die(c) \/ TakeLease(c) \/ Create(c) \/ SaveFindsLost(c) \/ (SaveGet(c) /\ ~Fenced(c))
             \/ EndLease(c) \/ StoreThrows(c)
    <2>1. Out
      BY <1>0, <1>2
      DEF ResumeCall, FindBusy, Recheck, DeliverClaim, DeliverReadInbox, DeliverReadRecord,
          DeliverSet, DeliverRelease, Die, TakeLease, Create, SaveFindsLost, SaveGet, EndLease,
          StoreThrows, Lose, GoEnd, Return, Goto, LocalType, Saving
    <2> QED
      BY <1>1, <2>1
  <1>3. CASE StartLoad(c) \/ Load(c) \/ TakeUpDelete(c) \/ BodyRests(c) \/ BodyRefuses(c) \/ BodyThrows(c)
    <2>1. Out \/ (pc'[c] = "sv_confirm" /\ save'[c] \in {"shape_drive", "rest", "failure"})
      BY <1>0, <1>3
      DEF StartLoad, Load, TakeUpDelete, BodyRests, BodyRefuses, BodyThrows, Settle, DriveOnce,
          CheckShape, GoEnd, GoSave, GoBody, Goto, LocalType, Saving
    <2> QED
      BY <1>1, <2>1 DEF TakesInv
  <1>4. CASE TakeUpRead(c)
    <2>1. /\ rec[c] \in Record /\ rec[c].gate \in Gates /\ rec[c].status = "suspended"
          /\ UNCHANGED <<record, inbox, lease, rec>> /\ pc'[c] # "tk_delete"
      BY <1>0, <1>4
      DEF TakeUpRead, CallInv, DriveInv, Driving, store, CheckShape, GoEnd, GoSave, Goto, LocalType
    <2> DEFINE d == inbox[rec[c].gate]
    <2>2. CASE Out
      BY <1>1, <2>2
    <2>3. CASE /\ save'[c] = "take_up" /\ nxt'[c] = TakingUp(c, rec[c], d) /\ d # NoDatum
      <3>1. d \in Resumes
        BY <1>0, <2>1, <2>3 DEF StoreType
      <3>2. /\ nxt'[c].gate = rec[c].gate /\ nxt'[c].status = "running"
            /\ nxt'[c].resume[rec[c].gate] = d
        BY <2>1, <2>3, <3>1 DEF TakingUp, Record, Resumed
      <3> QED
        BY <2>1, <2>3, <3>2 DEF TakesInv
    <2>4. CASE /\ save'[c] = "shape_take_up" /\ nxt'[c] = [rec[c] EXCEPT !.flow = ShapeOf[c]]
               /\ entry'[c] = d
      <3>1. nxt'[c].gate = rec[c].gate
        BY <2>1, <2>4 DEF Record
      <3> QED
        BY <2>1, <2>4, <3>1 DEF TakesInv
    <2> QED
      BY <1>0, <1>4, <2>2, <2>3, <2>4
      DEF TakeUpRead, CheckShape, GoEnd, GoSave, Goto, LocalType, Saving
  <1>5. CASE SaveConfirm(c) \/ (SaveGet(c) /\ Fenced(c)) \/ Renew(c)
    <2>1. /\ UNCHANGED <<record, inbox, rec, nxt, save, entry>>
          /\ pc'[c] \in Saving => pc[c] \in Saving
          /\ pc'[c] = "tk_delete" => Renew(c) /\ pc[c] = "tk_delete"
      BY <1>0, <1>5 DEF SaveConfirm, SaveGet, Lose, GoEnd, Renew, Goto, LocalType, Saving, store
    <2>2. Renew(c) => pc[c] # "tk_delete"
      BY <1>0 DEF Renew, TakesInv
    <2> QED
      BY <1>0, <2>1, <2>2 DEF TakesInv
  <1>6. CASE SaveSet(c)
    <2>1. /\ record = rec[c] /\ lease = c /\ nxt[c] \in Record /\ rec[c] \in Record
          /\ UNCHANGED <<inbox, lease>> /\ record' = Saved(c) /\ pc[c] \in Saving
      BY <1>0, <1>6
      DEF FenceInv, NoLostUpdate, WindowInv, Window, SaveSet, CallInv, DriveInv, SaveInv, Driving,
          Saving
    <2>2. /\ Saved(c) \in Record /\ Saved(c).gate = nxt[c].gate /\ Saved(c).status = nxt[c].status
          /\ Saved(c).resume = nxt[c].resume
      BY <2>1 DEF Saved, Record
    <2>3. CASE Out
      BY <1>1, <2>3
    <2>4. CASE pc'[c] = "tk_delete" /\ save[c] = "take_up" /\ rec'[c] = Saved(c)
      BY <1>0, <2>1, <2>2, <2>4 DEF TakesInv, Saving
    <2>5. CASE /\ save[c] = "shape_take_up" /\ save'[c] = "take_up" /\ rec'[c] = Saved(c)
               /\ nxt'[c] = TakingUp(c, Saved(c), entry[c]) /\ pc'[c] = "sv_confirm"
      <3>1. /\ inbox[nxt[c].gate] = entry[c] /\ nxt[c].gate \in Gates /\ entry[c] \in Resumes
            /\ Saved(c).status = "suspended"
        BY <1>0, <2>1, <2>2, <2>5 DEF TakesInv, CallInv, SaveInv, Suspendable
      <3>2. /\ nxt'[c].gate = nxt[c].gate /\ nxt'[c].status = "running"
            /\ nxt'[c].resume[nxt[c].gate] = entry[c]
        BY <2>2, <2>5, <3>1 DEF TakingUp, Record, Resumed
      <3> QED
        BY <2>1, <2>5, <3>1, <3>2, CallAssumption DEF TakesInv
    <2>6. CASE pc'[c] = "sv_confirm" /\ save'[c] = "shape_drive"
      BY <2>6 DEF TakesInv
    <2> QED
      BY <1>0, <1>6, <2>3, <2>4, <2>5, <2>6
      DEF SaveSet, Settle, DriveOnce, CheckShape, GoEnd, GoBody, GoSave, Goto, LocalType, Saving
  <1> QED
    BY <1>0, <1>2, <1>3, <1>4, <1>5, <1>6 DEF Moves, Step

LEMMA DataStep ==
  ASSUME DataInTime, DataInv, [Next]_vars
  PROVE  DataInv'
PROOF
  <1>1. FenceInv' /\ Timely
    BY FenceStep DEF DataInv, DataInTime
  <1>2. ASSUME NEW c \in Calls, Moves(c)
        PROVE  DepositInv' /\ \A d \in Calls : TakesInv(d)'
    <2>1. OthersStay(c) /\ DepositInv'
      BY <1>2, MovesOK, DepositMoves DEF DataInv, FenceInv
    <2>2. record' = record \/ SaveSet(c) \/ Create(c)
      <3>1. ~DeleteClear(c)
        BY <1>1, NoDeletes DEF DataInv, FenceInv
      <3> QED
        BY <1>2, <3>1
        DEF Moves, Step, Renew, Die, StoreThrows, store, ResumeCall, DeliverClaim, DeliverReadInbox,
            DeliverReadRecord, DeliverSet, DeliverRelease, TakeLease, FindBusy, StartLoad,
            Load, TakeUpRead, TakeUpDelete, BodyRests, BodyRefuses, BodyThrows, SaveConfirm,
            SaveFindsLost, SaveGet, EndLease, Recheck, DeleteCall
    <2>3. SUFFICES ASSUME NEW d \in Calls PROVE TakesInv(d)'
      BY <2>1
    <2>4. CASE d = c
      BY <1>2, <2>4, OwnTakes
    <2>5. CASE d # c
      BY <1>2, <2>1, <2>2, <2>5, OthersKeepTakes
    <2> QED
      BY <2>4, <2>5
  <1>3. ASSUME UNCHANGED <<record, inbox, locals>>,
               \A r \in Resumes : pc[r] \in Depositing => gclaim'[GateFor[r]] = gclaim[GateFor[r]],
               \A c \in Calls : pc[c] = "tk_delete" => lease' = lease
        PROVE  DepositInv' /\ \A d \in Calls : TakesInv(d)'
    <2>1. DepositInv'
      BY <1>3 DEF DataInv, DepositInv, locals, Depositing
    <2>2. \A d \in Calls : TakesInv(d)'
      BY <1>3 DEF DataInv, TakesInv, locals
    <2> QED
      BY <2>1, <2>2
  <1>4. CASE ExpireLease
    <2>1. UNCHANGED <<record, inbox, gclaim, locals>> /\ Expirable(lease)
      BY <1>4 DEF ExpireLease
    <2>2. \A c \in Calls : pc[c] # "tk_delete"
      BY <2>1 DEF DataInv, TakesInv, Expirable, DataInTime
    <2> QED
      BY <1>1, <1>3, <2>1, <2>2 DEF DataInv
  <1>5. ASSUME NEW g \in Gates, ExpireGateClaim(g) PROVE DataInv'
    <2>1. /\ UNCHANGED <<record, inbox, lease, locals>> /\ Expirable(gclaim[g])
          /\ gclaim' = [gclaim EXCEPT ![g] = Free] /\ StoreType
      BY <1>5 DEF ExpireGateClaim, DataInv, FenceInv, TypeInv, TypeOK, StoreType
    <2>2. ASSUME NEW r \in Resumes, pc[r] \in Depositing
          PROVE  gclaim'[GateFor[r]] = gclaim[GateFor[r]]
      <3>1. gclaim[GateFor[r]] = r /\ GateFor[r] \in Gates /\ ~Expirable(r)
        BY <2>2
        DEF DataInv, DepositInv, Expirable, DataInTime, Depositing, FenceInv, TypeInv, CallInv,
            KindInv, Delivering, Calls
      <3> QED
        BY <2>1, <3>1 DEF StoreType
    <2> QED
      BY <1>1, <1>3, <2>1, <2>2 DEF DataInv
  <1>6. CASE UNCHANGED vars
    BY <1>1, <1>3, <1>6 DEF DataInv, vars, locals
  <1> QED
    BY <1>1, <1>2, <1>4, <1>5, <1>6 DEF DataInv, Next, Moves

LEMMA DataInit == Init => DataInv
PROOF
  <1>1. Init => DepositInv
    BY DEF Init, DepositInv, Depositing, Calls
  <1>2. Init => \A c \in Calls : TakesInv(c)
    BY DEF Init, TakesInv, Saving
  <1> QED
    BY <1>1, <1>2, FenceInit DEF DataInv

LEMMA TakenIsSaved ==
  ASSUME DataInTime, DataInv, [Next]_vars, NEW g \in Gates, inbox'[g] # inbox[g],
         inbox[g] # NoDatum
  PROVE  record'.resume[g] = inbox[g]
PROOF
  <1>0. StoreType /\ Timely /\ TypeInv
    BY DEF DataInv, FenceInv, TypeInv, TypeOK, StoreType, DataInTime
  <1>1. PICK c \in Calls : Moves(c) /\ (DeliverSet(c) \/ TakeUpDelete(c))
    BY <1>0, InboxMoves, NoDeletes DEF Next, Moves, ExpireLease, ExpireGateClaim, vars
  <1>2. CallInv(c) /\ TakesInv(c) /\ DepositInv
    BY <1>0 DEF TypeInv, DataInv
  <1>3. CASE DeliverSet(c)
    <2>1. c \in Resumes /\ inbox[GateFor[c]] = NoDatum
      BY <1>2, <1>3 DEF DeliverSet, CallInv, KindInv, Delivering, DepositInv
    <2> QED
      BY <1>0, <1>3, <2>1 DEF DeliverSet, StoreType
  <1>4. CASE TakeUpDelete(c)
    BY <1>0, <1>2, <1>4 DEF TakeUpDelete, TakesInv, StoreType
  <1> QED
    BY <1>1, <1>3, <1>4

(* A datum goes from the inbox into the record, whoever takes over the run *)
(* meanwhile; and every drive is of the flow the record is of.             *)
THEOREM DataMeetsFlow == DataInTime => (Spec => DataMeetsItsFlow)
PROOF
  <1> SUFFICES ASSUME DataInTime PROVE Spec => DataMeetsItsFlow
    OBVIOUS
  <1>1. DataInv /\ [Next]_vars => DataInv'
    BY DataStep
  <1>2. DataInv /\ [Next]_vars =>
          [\A g \in Gates :
             (inbox[g] \notin Refused \cup {NoDatum} /\ inbox'[g] # inbox[g] /\ record' # NoRecord)
               => record'.resume[g] = inbox[g]]_vars
    BY TakenIsSaved
  <1>3. Spec => NeverInNeither
    BY <1>1, <1>2, DataInit, PTL DEF Spec, NeverInNeither
  <1> QED
    BY <1>3, ShapeIsDriven DEF DataMeetsItsFlow

----------------------------------------------------------------------------
(* The end of a run.  A datum that was handed over is in the record or in  *)
(* the inbox, a datum in the inbox of the gate the run waits at has a call *)
(* that will look there, and a run that is being driven has its driver: so *)
(* when no call is under way, a run whose gates all got a datum is done.   *)

(* No operation throws, no gate refuses, no call is held up beyond what it *)
(* claimed, and a process that may meet the record of another shape is set *)
(* to replay it.                                                           *)
Undisturbed ==
  /\ LeasesHold /\ StallAt \cap (Depositing \cup {"dl_release"}) = {}
  /\ Refused = {} /\ MayFail = {} /\ MayThrow = {}
  /\ \A c, d \in Starts \cup Resumes : ShapeOf[c] # ShapeOf[d] => OnFlowChange[c] = "replay"

(* Nobody has died, and nobody has begun to delete the run. *)
Clean ==
  /\ \A c \in Calls : pc[c] # "dead"
  /\ \A d \in Deletes : pc[d] = "new"

Known(s) == \E d \in Starts \cup Resumes : s = ShapeOf[d]

AtGate(r) == \E i \in DOMAIN FlowOf[r.flow] : r.gate = FlowOf[r.flow][i]

(* What a call that stands at a point knows of the record. *)
PlaceInv(c) ==
  /\ pc[c] \in {"new", "dl_claim", "dl_release"} \cup Depositing => out[c] = "none"
  /\ pc[c] # "returned" => out[c] # "not_found"
  /\ pc[c] \in Holding => ~lost[c]
  /\ c \in Resumes /\ pc[c] \notin {"new", "returned"} => record # NoRecord
  /\ pc[c] = "load" => record # NoRecord
  /\ pc[c] = "create" => record = NoRecord
  /\ pc[c] \in Driving \cup {"end"} => record # NoRecord /\ rec[c] = record
  /\ pc[c] \in {"tk_delete", "body"} => record.status = "running"
  /\ pc[c] = "tk_delete" => record.resume[record.gate] # NoDatum
  /\ pc[c] = "end" => out[c] = record.status /\ record.status \in {"done", "suspended"}

(* What a call that saves will write, and over what. *)
GoalInv(c) ==
  pc[c] \in Saving =>
    /\ Known(nxt[c].flow)
    /\ \/ /\ save[c] = "rest" /\ record.status = "running"
          /\ nxt[c].status \in {"suspended", "done"}
          /\ nxt[c].status = "suspended" => AtGate(nxt[c])
       \/ save[c] = "shape_drive" /\ record.status = "running" /\ nxt[c].status = "running"
       \/ save[c] = "shape_take_up" /\ record.status = "suspended"
       \/ /\ save[c] = "take_up" /\ record.status = "suspended"
          /\ nxt[c].status = "running" /\ nxt[c].resume[nxt[c].gate] # NoDatum

Runs(c) == pc[c] \in {"load", "tk_delete", "body"} \cup Saving

TakesUp(c) == pc[c] \in Saving /\ save[c] = "take_up"

(* A running record has a call that drives it, and a suspended one waits   *)
(* at a gate of its flow, or is being taken up.                            *)
RunInv ==
  record # NoRecord =>
    /\ Known(record.flow)
    /\ record.status # "failed"
    /\ record.status = "running" => \E c \in Calls : Runs(c)
    /\ record.status = "suspended" => AtGate(record) \/ \E c \in Calls : TakesUp(c)

(* A call that will look at the inbox of the gate the run waits at. *)
Looks(c) ==
  \/ pc[c] \in {"dl_release", "claim", "start_load", "load", "tk_inbox"} \cup Saving
  \/ pc[c] = "end" /\ out[c] = "suspended"
  \/ pc[c] = "recheck" /\ rec[c].gate = record.gate

(* No wake-up is lost: as long as a datum lies there, somebody will look. *)
LookInv ==
  record # NoRecord /\ record.status = "suspended" /\ inbox[record.gate] # NoDatum
    => \E c \in Calls : Looks(c)

Present(g) ==
  /\ record # NoRecord
  /\ record.status = "done" \/ record.resume[g] # NoDatum \/ inbox[g] # NoDatum

(* The claim of a gate is held by the one call that puts a datum there. *)
GateInv(g) ==
  gclaim[g] # Free =>
    /\ gclaim[g] \in Resumes /\ GateFor[gclaim[g]] = g
    /\ pc[gclaim[g]] \in Depositing \cup {"dl_release"}

HandInv(r) ==
  /\ pc[r] \in Depositing => gclaim[GateFor[r]] = r
  /\ pc[r] = "dl_release" /\ gclaim[GateFor[r]] = r => Present(GateFor[r])
  /\ /\ pc[r] \notin {"new", "dl_claim"} \cup Depositing
     /\ GateFor[r] \in Gates /\ out[r] # "not_found"
     => Present(GateFor[r]) \/ gclaim[GateFor[r]] # Free

LeaserInv == lease # Free => pc[lease] \in Holding

EndInv ==
  /\ LeaserInv /\ RunInv /\ LookInv
  /\ \A c \in Calls : PlaceInv(c) /\ GoalInv(c)
  /\ \A g \in Gates : GateInv(g)
  /\ \A r \in Resumes : HandInv(r)

AnsweredInv == TypeInv /\ LeaseInv /\ (Clean => EndInv)

(* What a step of c has to be shown to do: for its own part of EndInv, and *)
(* for the record.                                                         *)
WriteOK(c) ==
  /\ record' # record =>
       /\ pc[c] \in {"create", "sv_set"} /\ record' \in Record
       /\ Known(record'.flow) /\ record'.status # "failed"
       /\ record'.status = "running" => Runs(c)'
       /\ record'.status = "suspended" => Looks(c)' /\ (AtGate(record') \/ TakesUp(c)')
       /\ record # NoRecord =>
            /\ record.status # "done"
            /\ \A g \in Gates : record.resume[g] # NoDatum => record'.resume[g] # NoDatum
  /\ record' = record /\ record # NoRecord =>
       /\ record.status = "running" /\ Runs(c) => Runs(c)'
       /\ TakesUp(c) => TakesUp(c)'

OwnOK(c) == PlaceInv(c)' /\ GoalInv(c)' /\ WriteOK(c)

(* The steps that are left to a call of a clean and undisturbed run. *)
Delivers(c) ==
  \/ ResumeCall(c) \/ DeliverClaim(c) \/ DeliverReadInbox(c) \/ DeliverReadRecord(c)
  \/ DeliverSet(c) \/ DeliverRelease(c)

Drives(c) ==
  \/ TakeLease(c) \/ FindBusy(c) \/ StartLoad(c) \/ Create(c) \/ Load(c)
  \/ TakeUpRead(c) \/ TakeUpDelete(c) \/ BodyRests(c)
  \/ SaveConfirm(c) \/ (SaveGet(c) /\ Fenced(c)) \/ SaveSet(c) \/ EndLease(c) \/ Recheck(c)

LEMMA CleanBefore ==
  ASSUME TypeInv, NEW c \in Calls, Moves(c), Clean'
  PROVE  Clean /\ c \in Starts \cup Resumes /\ ~Die(c)
PROOF
  <1>0. LocalType /\ OthersStay(c) /\ KindInv(c)
    BY MovesOK DEF CallInv
  <1>1. pc[c] # "dead" /\ (pc'[c] = "new" => Renew(c)) /\ (Renew(c) => pc[c] \in Holding)
    BY <1>0
    DEF Moves, Step, Renew, Die, StoreThrows, ResumeCall, DeliverClaim, DeliverReadInbox,
        DeliverReadRecord, DeliverSet, DeliverRelease, TakeLease, WantsLease, FindBusy, StartLoad,
        Create, Load, TakeUpRead, TakeUpDelete, BodyRests, BodyRefuses, BodyThrows, SaveConfirm,
        SaveFindsLost, SaveGet, SaveSet, EndLease, Recheck, DeleteCall, DeleteClear, Settle,
        DriveOnce, CheckShape, Lose, GoEnd, GoSave, GoBody, Return, Goto, LocalType, Holding
  <1>2. c \in Starts \cup Resumes
    <2>1. c \in Deletes => pc'[c] = "new"
      BY DEF Clean
    <2> QED
      BY <1>0, <1>1, <2>1, CallAssumption DEF KindInv, Holding, Driving, Calls
  <1>3. \A d \in Calls : pc[d] # "dead"
    BY <1>0, <1>1 DEF Clean, OthersStay
  <1>4. \A d \in Deletes : pc[d] = "new"
    BY <1>0, <1>2, CallAssumption DEF Clean, OthersStay, Calls
  <1>5. ~Die(c)
    BY <1>0 DEF Die, Goto, LocalType, Clean
  <1> QED
    BY <1>2, <1>3, <1>4, <1>5 DEF Clean

LEMMA CleanMoves ==
  ASSUME Undisturbed, AnsweredInv, NEW c \in Calls, Moves(c), Clean'
  PROVE  /\ EndInv /\ c \in Starts \cup Resumes
         /\ Step(c) /\ (Delivers(c) \/ Drives(c))
         /\ UNCHANGED lost \/ TakeLease(c)
PROOF
  <1>0. /\ TypeInv /\ LeaseInv /\ EndInv /\ c \in Starts \cup Resumes /\ ~Die(c)
        /\ PlaceInv(c) /\ CallInv(c)
    BY CleanBefore DEF AnsweredInv, EndInv, TypeInv
  <1>1. ~StoreThrows(c) /\ ~Renew(c)
    BY <1>0 DEF StoreThrows, Renew, Undisturbed, LeaseInv
  <1>2. ~BodyRefuses(c) /\ ~BodyThrows(c) /\ ~SaveFindsLost(c)
    BY <1>0
    DEF BodyRefuses, BodyThrows, SaveFindsLost, Refuses, Undisturbed, PlaceInv, LeaseInv, Holding,
        Claimable
  <1>3. SaveGet(c) => Fenced(c)
    BY <1>0 DEF SaveGet, Fenced, PlaceInv, CallInv, SaveInv, Follows, Saving, Driving
  <1>4. ~DeleteCall(c) /\ ~DeleteClear(c)
    BY <1>0, CallAssumption DEF DeleteCall, DeleteClear, CallInv, KindInv
  <1>5. Step(c) /\ (Delivers(c) \/ Drives(c))
    BY <1>0, <1>1, <1>2, <1>3, <1>4 DEF Moves, Step, Delivers, Drives
  <1>6. UNCHANGED lost \/ TakeLease(c)
    BY <1>5
    DEF Delivers, Drives, ResumeCall, DeliverClaim, DeliverReadInbox, DeliverReadRecord,
        DeliverSet, DeliverRelease, FindBusy, StartLoad, Create, Load, TakeUpRead, TakeUpDelete,
        BodyRests, SaveConfirm, SaveGet, SaveSet, EndLease, Recheck, Return, Lose, Fenced
  <1> QED
    BY <1>0, <1>5, <1>6

(* No process meets a shape that it fails on. *)
LEMMA DrivesOn ==
  ASSUME Undisturbed, LocalType, NEW c \in Starts \cup Resumes, NEW r \in Record, Known(r.flow),
         DriveOnce(c, r)
  PROVE  \/ pc'[c] = "body" /\ UNCHANGED <<out, nxt, save>>
         \/ /\ pc'[c] = "sv_confirm" /\ save'[c] = "shape_drive" /\ UNCHANGED out
            /\ nxt'[c] = [r EXCEPT !.flow = ShapeOf[c]]
PROOF
  <1>0. c \in Calls
    BY DEF Calls
  <1>1. r.flow # ShapeOf[c] => OnFlowChange[c] = "replay"
    BY DEF Undisturbed, Known
  <1> QED
    BY <1>0, <1>1 DEF DriveOnce, CheckShape, GoBody, GoSave, Goto, LocalType

LEMMA Settles ==
  ASSUME Undisturbed, LocalType, NEW c \in Starts \cup Resumes, NEW r \in Record, Known(r.flow),
         r.status # "failed", Settle(c, r)
  PROVE  /\ rec'[c] = r
         /\ \/ r.status = "done" /\ pc'[c] = "end" /\ out'[c] = "done"
            \/ r.status = "suspended" /\ pc'[c] = "tk_inbox" /\ UNCHANGED out
            \/ r.status = "running" /\ pc'[c] = "body" /\ UNCHANGED out
            \/ /\ r.status = "running" /\ pc'[c] = "sv_confirm" /\ save'[c] = "shape_drive"
               /\ nxt'[c] = [r EXCEPT !.flow = ShapeOf[c]] /\ UNCHANGED out
PROOF
  <1>0. c \in Calls
    BY DEF Calls
  <1>1. rec'[c] = r
    BY <1>0 DEF Settle, LocalType
  <1>2. CASE r.status = "running" /\ DriveOnce(c, r)
    BY <1>1, <1>2, DrivesOn
  <1> QED
    BY <1>0, <1>1, <1>2 DEF Settle, GoEnd, Goto, LocalType

(* The record a call settles on is the one in the store. *)
LEMMA SettledOwn ==
  ASSUME Undisturbed, LocalType, NEW c \in Starts \cup Resumes, NEW r \in Record, Known(r.flow),
         r.status # "failed", Settle(c, r), record' = r, PlaceInv(c), pc[c] \in Holding,
         UNCHANGED lost
  PROVE  /\ PlaceInv(c)' /\ GoalInv(c)'
         /\ r.status = "running" => Runs(c)'
         /\ r.status = "suspended" => Looks(c)'
PROOF
  <1>0. /\ rec'[c] = r /\ r # NoRecord
        /\ \/ r.status = "done" /\ pc'[c] = "end" /\ out'[c] = "done"
           \/ r.status = "suspended" /\ pc'[c] = "tk_inbox" /\ UNCHANGED out
           \/ r.status = "running" /\ pc'[c] = "body" /\ UNCHANGED out
           \/ /\ r.status = "running" /\ pc'[c] = "sv_confirm" /\ save'[c] = "shape_drive"
              /\ nxt'[c] = [r EXCEPT !.flow = ShapeOf[c]] /\ UNCHANGED out
    BY Settles, NoRecordAssumption
  <1>1. ~lost[c] /\ ~lost'[c] /\ out[c] # "not_found"
    BY DEF PlaceInv, Holding
  <1>2. PlaceInv(c)'
    BY <1>0, <1>1 DEF PlaceInv, Driving, Depositing
  <1>3. GoalInv(c)'
    <2>1. CASE pc'[c] = "sv_confirm"
      <3>1. /\ nxt'[c].flow = ShapeOf[c] /\ nxt'[c].status = "running"
            /\ save'[c] = "shape_drive" /\ record'.status = "running"
        BY <1>0, <2>1 DEF Record
      <3> QED
        BY <3>1 DEF GoalInv, Known
    <2> QED
      BY <1>0, <2>1 DEF GoalInv, Saving
  <1> QED
    BY <1>0, <1>2, <1>3 DEF Runs, Looks, Saving

(* A step that leaves the record alone and goes to a point where nothing   *)
(* more is known of it.                                                    *)
LEMMA PlainOwn ==
  ASSUME NEW c \in Calls, record' = record, UNCHANGED lost \/ ~lost'[c],
         PlaceInv(c), pc'[c] \notin Driving \cup {"create", "end", "new"},
         ~Runs(c), pc'[c] # "returned" => out'[c] # "not_found",
         pc'[c] \in {"dl_claim", "dl_release"} \cup Depositing => out'[c] = "none",
         c \in Resumes /\ pc'[c] # "returned" => record # NoRecord,
         pc'[c] = "load" => record # NoRecord,
         pc'[c] \in Holding => ~lost'[c]
  PROVE  OwnOK(c)
PROOF
  <1>1. PlaceInv(c)'
    BY DEF PlaceInv, Driving, Depositing
  <1>2. GoalInv(c)' /\ WriteOK(c)
    BY DEF GoalInv, WriteOK, Runs, TakesUp, Saving, Driving
  <1> QED
    BY <1>1, <1>2 DEF OwnOK

LEMMA DeliversOwn ==
  ASSUME Undisturbed, AnsweredInv, EndInv, NEW c \in Calls, Delivers(c), UNCHANGED lost
  PROVE  OwnOK(c)
PROOF
  <1>0. LocalType /\ PlaceInv(c) /\ KindInv(c) /\ record' = record
    BY DEF AnsweredInv, TypeInv, TypeOK, LocalType, EndInv, CallInv, Delivers, ResumeCall,
           DeliverClaim, DeliverReadInbox, DeliverReadRecord, DeliverSet, DeliverRelease, store
  <1>1. CASE ResumeCall(c)
    <2>1. /\ pc[c] = "new" /\ (pc'[c] # "returned" => record # NoRecord /\ out'[c] = out[c])
          /\ pc'[c] \in {"returned", "claim", "dl_claim"}
      BY <1>0, <1>1 DEF ResumeCall, Return, Goto, LocalType
    <2> QED
      BY <1>0, <2>1, PlainOwn DEF PlaceInv, Driving, Saving, Runs, Holding, Depositing
  <1>2. CASE DeliverClaim(c) \/ DeliverReadInbox(c) \/ DeliverReadRecord(c) \/ DeliverSet(c)
    <2>1. /\ pc[c] \in {"dl_claim"} \cup Depositing /\ out'[c] = out[c] /\ out[c] = "none"
          /\ pc'[c] \in {"claim", "dl_release"} \cup Depositing
      BY <1>0, <1>2
      DEF DeliverClaim, DeliverReadInbox, DeliverReadRecord, DeliverSet, Goto, LocalType,
          PlaceInv, Depositing
    <2> QED
      BY <1>0, <2>1, PlainOwn DEF PlaceInv, Driving, Saving, Runs, Holding, Depositing
  <1>3. CASE DeliverRelease(c)
    <2>1. /\ pc[c] = "dl_release" /\ out[c] = "none"
          /\ pc'[c] = "claim" /\ out'[c] = "none"
      BY <1>0, <1>3 DEF DeliverRelease, Goto, LocalType, PlaceInv
    <2> QED
      BY <1>0, <2>1, PlainOwn DEF PlaceInv, Driving, Saving, Runs, Holding, Depositing
  <1> QED
    BY <1>1, <1>2, <1>3 DEF Delivers

LEMMA LeaseOwn ==
  ASSUME Undisturbed, AnsweredInv, EndInv, NEW c \in Starts \cup Resumes,
         TakeLease(c) \/ FindBusy(c) \/ Recheck(c)
  PROVE  OwnOK(c)
PROOF
  <1>0. /\ LocalType /\ PlaceInv(c) /\ KindInv(c) /\ c \in Calls /\ record' = record
        /\ c \notin Starts => c \in Resumes
    BY DEF AnsweredInv, TypeInv, TypeOK, LocalType, EndInv, CallInv, TakeLease, FindBusy, Recheck,
           store, Calls
  <1>1. pc[c] = "claim" \/ pc[c] = "recheck" \/ (c \in Starts /\ pc[c] = "new")
    BY DEF TakeLease, FindBusy, Recheck, WantsLease
  <1>2. CASE TakeLease(c)
    <2>1. /\ pc'[c] = IF c \in Starts THEN "start_load" ELSE "load"
          /\ ~lost'[c] /\ out' = out
      BY <1>0, <1>2 DEF TakeLease, Goto, LocalType
    <2> QED
      BY <1>0, <1>1, <2>1, PlainOwn, CallAssumption
      DEF PlaceInv, Driving, Saving, Runs, Holding, Depositing
  <1>3. CASE FindBusy(c) \/ Recheck(c)
    <2>1. UNCHANGED lost /\ (pc'[c] = "returned" \/ (pc'[c] = "claim" /\ pc[c] = "recheck" /\ out' = out))
      BY <1>0, <1>3 DEF FindBusy, Recheck, Return, Goto, LocalType
    <2> QED
      BY <1>0, <1>1, <2>1, PlainOwn DEF PlaceInv, Driving, Saving, Runs, Holding, Depositing
  <1> QED
    BY <1>2, <1>3

LEMMA LoadOwn ==
  ASSUME Undisturbed, AnsweredInv, EndInv, NEW c \in Starts \cup Resumes, UNCHANGED lost,
         StartLoad(c) \/ Load(c)
  PROVE  OwnOK(c)
PROOF
  <1>0. /\ LocalType /\ PlaceInv(c) /\ KindInv(c) /\ c \in Calls /\ record' = record
        /\ pc[c] \in {"start_load", "load"}
        /\ record \in Record \cup {NoRecord}
        /\ record # NoRecord => Known(record.flow) /\ record.status # "failed"
    BY DEF AnsweredInv, TypeInv, TypeOK, LocalType, EndInv, CallInv, StartLoad, Load, store, Calls,
           RunInv
  <1>1. CASE record # NoRecord /\ Settle(c, record)
    <2>1. /\ PlaceInv(c)' /\ GoalInv(c)'
          /\ record.status = "running" => Runs(c)'
      BY <1>0, <1>1, SettledOwn DEF Holding
    <2> QED
      BY <1>0, <2>1 DEF OwnOK, WriteOK, TakesUp, Saving
  <1>2. CASE pc[c] = "start_load" /\ record = NoRecord /\ Goto(c, "create") /\ UNCHANGED out
    <2>1. pc'[c] = "create" /\ c \notin Resumes
      BY <1>0, <1>2, CallAssumption DEF Goto, LocalType, KindInv
    <2>2. PlaceInv(c)'
      BY <1>0, <1>2, <2>1 DEF PlaceInv, Driving, Saving, Depositing, Holding
    <2> QED
      BY <1>0, <1>2, <2>1, <2>2 DEF OwnOK, GoalInv, WriteOK, Saving
  <1>3. pc[c] = "load" => record # NoRecord
    BY <1>0 DEF PlaceInv
  <1> QED
    BY <1>0, <1>1, <1>2, <1>3 DEF StartLoad, Load

LEMMA CreateOwn ==
  ASSUME Undisturbed, AnsweredInv, EndInv, NEW c \in Starts \cup Resumes, UNCHANGED lost, Create(c)
  PROVE  OwnOK(c)
PROOF
  <1>0. /\ LocalType /\ StoreType' /\ PlaceInv(c) /\ c \in Calls
        /\ pc[c] = "create" /\ pc'[c] = "load" /\ record = NoRecord /\ UNCHANGED out
        /\ record' # NoRecord
    <2>1. LocalType /\ StoreType' /\ PlaceInv(c) /\ c \in Calls /\ KindInv(c)
      BY MovesOK DEF AnsweredInv, EndInv, Calls, Moves, Step, CallInv
    <2>2. c \in Starts /\ ShapeOf[c] \in Shapes
      BY <2>1, CallAssumption DEF KindInv, Create
    <2>3. record' \in Record
      BY <2>2 DEF Create, Record, Resumed, Statuses
    <2> QED
      BY <2>1, <2>3, NoRecordAssumption DEF Create, Goto, LocalType, PlaceInv
  <1>1. record' \in Record /\ record'.status = "running" /\ record'.flow = ShapeOf[c]
    BY <1>0 DEF Create, StoreType
  <1>2. PlaceInv(c)'
    BY <1>0 DEF PlaceInv, Driving, Saving, Depositing, Holding
  <1>3. GoalInv(c)' /\ WriteOK(c)
    BY <1>0, <1>1 DEF GoalInv, WriteOK, Saving, Runs, Known
  <1> QED
    BY <1>2, <1>3 DEF OwnOK

LEMMA TakeUpOwn ==
  ASSUME Undisturbed, AnsweredInv, EndInv, NEW c \in Starts \cup Resumes, UNCHANGED lost, TakeUpRead(c)
  PROVE  OwnOK(c)
PROOF
  <1>0. /\ LocalType /\ StoreType /\ PlaceInv(c) /\ c \in Calls /\ pc[c] = "tk_inbox"
        /\ record' = record /\ rec' = rec /\ rec[c] = record /\ record # NoRecord
        /\ record \in Record /\ record.gate \in Gates /\ record.status = "suspended"
        /\ Known(record.flow)
    BY DEF AnsweredInv, TypeInv, TypeOK, LocalType, StoreType, EndInv, CallInv, DriveInv, PlaceInv,
           Driving, TakeUpRead, Calls, store, RunInv
  <1>1. record.flow # ShapeOf[c] => OnFlowChange[c] = "replay"
    BY <1>0 DEF Undisturbed, Known
  <1>2. ~lost[c] /\ out[c] # "not_found"
    BY <1>0 DEF PlaceInv, Holding
  <1>3. WriteOK(c)
    BY <1>0 DEF WriteOK, Runs, TakesUp, Saving
  <1> DEFINE d == inbox[record.gate]
  <1>4. CASE pc'[c] = "end" /\ out'[c] = "suspended"
    <2>1. PlaceInv(c)'
      BY <1>0, <1>2, <1>4 DEF PlaceInv, Driving, Saving, Depositing
    <2> QED
      BY <1>3, <1>4, <2>1 DEF OwnOK, GoalInv, Saving
  <1>5. CASE pc'[c] = "sv_confirm" /\ UNCHANGED out
    <2>1. PlaceInv(c)'
      BY <1>0, <1>2, <1>5 DEF PlaceInv, Driving, Saving, Depositing
    <2>2. CASE save'[c] = "take_up" /\ nxt'[c] = TakingUp(c, record, d) /\ d # NoDatum
      <3>1. d \in Resumes
        BY <1>0, <2>2 DEF StoreType
      <3>2. /\ nxt'[c].gate = record.gate /\ nxt'[c].status = "running"
            /\ nxt'[c].resume[record.gate] = d /\ nxt'[c].flow = record.flow
        BY <1>0, <2>2, <3>1 DEF TakingUp, Record, Resumed
      <3>3. GoalInv(c)'
        BY <1>0, <2>2, <3>2 DEF GoalInv
      <3> QED
        BY <1>3, <2>1, <3>3 DEF OwnOK
    <2>3. CASE save'[c] = "shape_take_up" /\ nxt'[c] = [record EXCEPT !.flow = ShapeOf[c]]
      <3>1. nxt'[c].flow = ShapeOf[c]
        BY <1>0, <2>3 DEF Record
      <3>2. GoalInv(c)'
        BY <1>0, <2>3, <3>1 DEF GoalInv, Known
      <3> QED
        BY <1>3, <2>1, <3>2 DEF OwnOK
    <2> QED
      BY <1>0, <1>1, <1>5, <2>2, <2>3 DEF TakeUpRead, CheckShape, GoEnd, GoSave, Goto, LocalType
  <1> QED
    BY <1>0, <1>1, <1>4, <1>5 DEF TakeUpRead, CheckShape, GoEnd, GoSave, Goto, LocalType

LEMMA BodyOwn ==
  ASSUME Undisturbed, AnsweredInv, EndInv, NEW c \in Starts \cup Resumes, UNCHANGED lost,
         TakeUpDelete(c) \/ BodyRests(c)
  PROVE  OwnOK(c)
PROOF
  <1>0. /\ LocalType /\ PlaceInv(c) /\ c \in Calls /\ pc[c] \in {"tk_delete", "body"}
        /\ record' = record /\ rec' = rec /\ rec[c] = record /\ record # NoRecord
        /\ record \in Record /\ record.status = "running" /\ Known(record.flow)
    BY DEF AnsweredInv, TypeInv, TypeOK, LocalType, EndInv, CallInv, DriveInv, PlaceInv,
           Driving, TakeUpDelete, BodyRests, Calls, store, RunInv
  <1>1. ~lost[c] /\ out[c] # "not_found" /\ ~TakesUp(c)
    BY <1>0 DEF PlaceInv, Holding, TakesUp, Saving
  <1>2. CASE TakeUpDelete(c) /\ pc'[c] = "body" /\ UNCHANGED out
    <2>1. PlaceInv(c)'
      BY <1>0, <1>1, <1>2 DEF PlaceInv, Driving, Saving, Depositing
    <2> QED
      BY <1>0, <1>1, <1>2, <2>1 DEF OwnOK, GoalInv, WriteOK, Runs, Saving
  <1>3. ASSUME pc'[c] = "sv_confirm", UNCHANGED out, GoalInv(c)'
        PROVE  OwnOK(c)
    <2>1. PlaceInv(c)'
      BY <1>0, <1>1, <1>3 DEF PlaceInv, Driving, Saving, Depositing
    <2> QED
      BY <1>0, <1>1, <1>3, <2>1 DEF OwnOK, WriteOK, Runs, Saving
  <1>4. CASE TakeUpDelete(c) /\ pc'[c] # "body"
    <2>1. /\ pc'[c] = "sv_confirm" /\ save'[c] = "shape_drive" /\ UNCHANGED out
          /\ nxt'[c] = [record EXCEPT !.flow = ShapeOf[c]]
      BY <1>0, <1>4, DrivesOn DEF TakeUpDelete
    <2>2. nxt'[c].flow = ShapeOf[c] /\ nxt'[c].status = "running"
      BY <1>0, <2>1 DEF Record
    <2>3. GoalInv(c)'
      BY <1>0, <2>1, <2>2 DEF GoalInv, Known
    <2> QED
      BY <1>3, <2>1, <2>3
  <1>5. CASE BodyRests(c)
    <2>1. /\ pc'[c] = "sv_confirm" /\ save'[c] = "rest" /\ nxt'[c] = AtRest(record)
          /\ UNCHANGED out
      BY <1>0, <1>5 DEF BodyRests, GoSave, Goto, LocalType
    <2>2. CASE StopsAt(record) = {}
      <3>1. nxt'[c].flow = record.flow /\ nxt'[c].status = "done"
        BY <1>0, <2>1, <2>2 DEF AtRest, Record
      <3>2. GoalInv(c)'
        BY <1>0, <2>1, <3>1 DEF GoalInv
      <3> QED
        BY <1>3, <2>1, <3>2
    <2>3. CASE StopsAt(record) # {}
      <3>1. \E i \in DOMAIN FlowOf[record.flow] : FirstStop(record) = FlowOf[record.flow][i]
        BY <1>0, <2>3, FirstStopIsGate
      <3>2. /\ nxt'[c].flow = record.flow /\ nxt'[c].status = "suspended"
            /\ nxt'[c].gate = FirstStop(record)
        BY <1>0, <2>1, <2>3 DEF AtRest, Record
      <3>3. AtGate(nxt'[c])
        BY <3>1, <3>2 DEF AtGate
      <3>4. GoalInv(c)'
        BY <1>0, <2>1, <3>2, <3>3 DEF GoalInv
      <3> QED
        BY <1>3, <2>1, <3>4
    <2> QED
      BY <2>2, <2>3
  <1> QED
    BY <1>0, <1>2, <1>4, <1>5, DrivesOn DEF TakeUpDelete

LEMMA FenceOwn ==
  ASSUME Undisturbed, AnsweredInv, EndInv, NEW c \in Starts \cup Resumes, UNCHANGED lost,
         SaveConfirm(c) \/ (SaveGet(c) /\ Fenced(c)) \/ EndLease(c)
  PROVE  OwnOK(c)
PROOF
  <1>0. /\ LocalType /\ PlaceInv(c) /\ GoalInv(c) /\ c \in Calls /\ record' = record
    BY DEF AnsweredInv, TypeInv, TypeOK, LocalType, EndInv, SaveConfirm, SaveGet, EndLease, Calls,
           store
  <1>1. CASE SaveConfirm(c) \/ (SaveGet(c) /\ Fenced(c))
    <2>1. pc[c] \in Saving /\ pc'[c] \in Saving /\ UNCHANGED <<rec, nxt, save, out>>
      BY <1>0, <1>1 DEF SaveConfirm, SaveGet, Lose, Goto, LocalType, Saving
    <2>2. PlaceInv(c)'
      BY <1>0, <2>1 DEF PlaceInv, Driving, Saving, Depositing, Holding
    <2>3. GoalInv(c)' /\ WriteOK(c)
      BY <1>0, <2>1 DEF GoalInv, WriteOK, Runs, TakesUp
    <2> QED
      BY <2>2, <2>3 DEF OwnOK
  <1>2. CASE EndLease(c)
    <2>1. pc[c] = "end" /\ (pc'[c] = "returned" \/ (pc'[c] = "recheck" /\ UNCHANGED out))
      BY <1>0, <1>2 DEF EndLease, Return, Goto, LocalType
    <2>2. c \in Resumes => record # NoRecord
      BY <1>0, <2>1 DEF PlaceInv
    <2> QED
      BY <1>0, <2>1, <2>2, PlainOwn DEF PlaceInv, Driving, Saving, Runs, Holding, Depositing
  <1> QED
    BY <1>1, <1>2

LEMMA SaveOwn ==
  ASSUME Undisturbed, AnsweredInv, EndInv, NEW c \in Starts \cup Resumes, UNCHANGED lost, SaveSet(c)
  PROVE  OwnOK(c)
PROOF
  <1>0. /\ LocalType /\ StoreType' /\ PlaceInv(c) /\ GoalInv(c) /\ SaveInv(c) /\ DriveInv(c) /\ c \in Calls
        /\ pc[c] = "sv_set" /\ record' = Saved(c)
    BY MovesOK DEF AnsweredInv, EndInv, Calls, Moves, Step, CallInv, SaveSet
  <1>1. /\ rec[c] = record /\ record \in Record /\ nxt[c] \in Record /\ Follows(record, nxt[c])
        /\ ~lost[c] /\ ~lost'[c] /\ out[c] # "not_found" /\ record # NoRecord
    BY <1>0 DEF PlaceInv, DriveInv, SaveInv, Driving, Saving, Holding
  <1>2. /\ Saved(c) \in Record /\ Saved(c).gate = nxt[c].gate /\ Saved(c).status = nxt[c].status
        /\ Saved(c).resume = nxt[c].resume /\ Saved(c).flow = nxt[c].flow
        /\ record' \in Record /\ record' # NoRecord
    BY <1>0, <1>1, NoRecordAssumption DEF Saved, Record
  <1>3. Known(record'.flow) /\ nxt[c].status # "failed"
        /\ save[c] \in {"rest", "shape_drive", "shape_take_up", "take_up"}
    <2>1. save[c] = "shape_take_up" => nxt[c].status = "suspended"
      BY <1>0 DEF SaveInv, Saving
    <2> QED
      BY <1>0, <1>2, <2>1 DEF GoalInv, Saving
  <1>4. /\ record.status # "done"
        /\ \A g \in Gates : record.resume[g] # NoDatum => record'.resume[g] # NoDatum
    BY <1>0, <1>1, <1>2 DEF Follows, Accepted, Undisturbed
  <1>5. ASSUME PlaceInv(c)', GoalInv(c)', record'.status = "running" => Runs(c)',
               record'.status = "suspended" => Looks(c)' /\ (AtGate(record') \/ TakesUp(c)')
        PROVE  OwnOK(c)
    <2>1. record'.rev = record.rev + 1
      BY <1>0, <1>1 DEF Saved, Follows, Record
    <2>2. record' # record
      BY <1>1, <2>1 DEF Record
    <2> QED
      BY <1>0, <1>2, <1>3, <1>4, <1>5, <2>2 DEF OwnOK, WriteOK
  <1>6. CASE save[c] = "rest"
    <2>1. Settle(c, Saved(c)) /\ (Saved(c).status = "suspended" => AtGate(Saved(c)))
          /\ Saved(c).status \in {"suspended", "done"}
      BY <1>0, <1>2, <1>6 DEF SaveSet, GoalInv, Saving, AtGate
    <2>2. /\ PlaceInv(c)' /\ GoalInv(c)'
          /\ Saved(c).status = "running" => Runs(c)'
          /\ Saved(c).status = "suspended" => Looks(c)'
      BY <1>0, <1>2, <1>3, <2>1, SettledOwn DEF Holding
    <2> QED
      BY <1>0, <1>5, <2>1, <2>2
  <1>7. CASE save[c] = "shape_drive"
    <2>1. pc'[c] = "body" /\ rec'[c] = record' /\ UNCHANGED out /\ record'.status = "running"
      BY <1>0, <1>2, <1>7 DEF SaveSet, GoBody, Goto, LocalType, GoalInv, Saving
    <2>2. PlaceInv(c)'
      BY <1>1, <1>2, <2>1 DEF PlaceInv, Driving, Saving, Depositing
    <2> QED
      BY <1>5, <2>1, <2>2 DEF GoalInv, Runs, Saving
  <1>8. CASE save[c] = "take_up"
    <2>1. /\ pc'[c] = "tk_delete" /\ rec'[c] = record' /\ UNCHANGED out /\ record'.status = "running"
          /\ record'.resume[record'.gate] # NoDatum
      BY <1>0, <1>2, <1>8 DEF SaveSet, Goto, LocalType, GoalInv, Saving
    <2>2. PlaceInv(c)'
      BY <1>1, <1>2, <2>1 DEF PlaceInv, Driving, Saving, Depositing
    <2> QED
      BY <1>5, <2>1, <2>2 DEF GoalInv, Runs, Saving
  <1>9. CASE save[c] = "shape_take_up"
    <2>1. /\ pc'[c] = "sv_confirm" /\ rec'[c] = record' /\ UNCHANGED out /\ save'[c] = "take_up"
          /\ nxt'[c] = TakingUp(c, record', entry[c])
          /\ record'.status = "suspended" /\ entry[c] \in Resumes /\ record'.gate \in Gates
      BY <1>0, <1>2, <1>9 DEF SaveSet, GoSave, Goto, LocalType, SaveInv, Saving, Suspendable
    <2>2. PlaceInv(c)'
      BY <1>1, <1>2, <2>1 DEF PlaceInv, Driving, Saving, Depositing
    <2>3. /\ nxt'[c].gate = record'.gate /\ nxt'[c].status = "running"
          /\ nxt'[c].resume[record'.gate] = entry[c] /\ nxt'[c].flow = record'.flow
      BY <1>2, <2>1 DEF TakingUp, Record, Resumed
    <2>4. GoalInv(c)'
      BY <1>3, <2>1, <2>3, CallAssumption DEF GoalInv
    <2> QED
      BY <1>5, <2>1, <2>2, <2>4 DEF Looks, TakesUp, Saving
  <1> QED
    BY <1>3, <1>6, <1>7, <1>8, <1>9

LEMMA OwnMoves ==
  ASSUME Undisturbed, AnsweredInv, NEW c \in Calls, Moves(c), Clean'
  PROVE  OwnOK(c)
PROOF
  <1>1. /\ EndInv /\ c \in Starts \cup Resumes /\ (Delivers(c) \/ Drives(c))
        /\ UNCHANGED lost \/ TakeLease(c)
    BY CleanMoves
  <1>2. TakeLease(c) \/ FindBusy(c) \/ Recheck(c) => OwnOK(c)
    BY <1>1, LeaseOwn
  <1>3. UNCHANGED lost /\ Delivers(c) => OwnOK(c)
    BY <1>1, DeliversOwn
  <1> QED
    BY <1>1, <1>2, <1>3, LoadOwn, CreateOwn, TakeUpOwn, BodyOwn, FenceOwn, SaveOwn DEF Drives

(* What a step of c leaves alone. *)
LEMMA OthersKeepEnd ==
  ASSUME Undisturbed, AnsweredInv, NEW c \in Calls, Moves(c), Clean', NEW d \in Calls \ {c}
  PROVE  PlaceInv(d)' /\ GoalInv(d)'
PROOF
  <1>0. /\ EndInv /\ OwnOK(c) /\ PlaceInv(d) /\ GoalInv(d) /\ LeaseInv /\ OthersStay(c)
        /\ lost'[d] = lost[d]
    BY CleanMoves, OwnMoves, MovesOK DEF AnsweredInv, EndInv
  <1>1. /\ pc'[d] = pc[d] /\ rec'[d] = rec[d] /\ nxt'[d] = nxt[d] /\ save'[d] = save[d]
        /\ out'[d] = out[d]
    BY <1>0 DEF OthersStay
  <1>2. record' = record \/ (pc[d] \notin Holding /\ record' # NoRecord)
    <2>1. CASE pc[c] \in {"create", "sv_set"}
      <3>1. lease = c
        BY <1>0, <2>1 DEF LeaseInv, EndInv, PlaceInv, Holding
      <3>2. pc[d] \notin Holding
        BY <1>0, <3>1 DEF LeaseInv, PlaceInv
      <3> QED
        BY <1>0, <3>2, NoRecordAssumption DEF OwnOK, WriteOK
    <2> QED
      BY <1>0, <2>1 DEF OwnOK, WriteOK
  <1>3. PlaceInv(d)'
    BY <1>0, <1>1, <1>2 DEF PlaceInv, Driving, Saving, Holding
  <1>4. GoalInv(d)'
    BY <1>0, <1>1, <1>2 DEF GoalInv, Saving, Holding
  <1> QED
    BY <1>3, <1>4

LEMMA LeaserMoves ==
  ASSUME Undisturbed, AnsweredInv, NEW c \in Calls, Moves(c), Clean'
  PROVE  LeaserInv'
PROOF
  <1>0. /\ EndInv /\ LocalType /\ OthersStay(c) /\ LeaserInv /\ Free \notin Calls
        /\ lease \in Calls \cup {Free} /\ (Delivers(c) \/ Drives(c))
    BY CleanMoves, MovesOK, CallAssumption DEF AnsweredInv, EndInv, StoreType
  <1>1. CASE lease' = c /\ pc'[c] \in Holding
    BY <1>1 DEF LeaserInv
  <1>2. CASE lease' = Free
    BY <1>2 DEF LeaserInv
  <1>3. CASE lease' = lease /\ (pc[c] \in Holding => pc'[c] \in Holding)
    <2>1. CASE lease \in Calls \ {c}
      BY <1>0, <1>3, <2>1 DEF LeaserInv, OthersStay
    <2>2. CASE lease = c
      BY <1>0, <1>3, <2>2 DEF LeaserInv
    <2>3. CASE lease = Free
      BY <1>2, <1>3, <2>3
    <2> QED
      BY <1>0, <2>1, <2>2, <2>3
  <1>4. CASE EndLease(c)
    <2>1. lease' = IF lease = c THEN Free ELSE lease
      BY <1>4 DEF EndLease
    <2>2. CASE lease \in Calls \ {c}
      <3>1. lease' = lease /\ pc'[lease] = pc[lease] /\ lease # Free
        BY <1>0, <2>1, <2>2 DEF OthersStay
      <3> QED
        BY <1>0, <3>1 DEF LeaserInv
    <2>3. CASE lease \in {c, Free}
      BY <1>2, <2>1, <2>3
    <2> QED
      BY <1>0, <2>2, <2>3
  <1>5. CASE Delivers(c)
    BY <1>0, <1>3, <1>5
    DEF Delivers, ResumeCall, DeliverClaim, DeliverReadInbox, DeliverReadRecord, DeliverSet,
        DeliverRelease, store, Holding
  <1>6. CASE FindBusy(c) \/ Recheck(c)
    BY <1>3, <1>6 DEF FindBusy, Recheck, WantsLease, store, Holding
  <1>7. CASE TakeLease(c) \/ SaveConfirm(c)
    BY <1>0, <1>1, <1>7 DEF TakeLease, SaveConfirm, Goto, LocalType, Holding
  <1>8. CASE StartLoad(c) \/ Create(c) \/ Load(c) \/ TakeUpRead(c) \/ TakeUpDelete(c) \/ BodyRests(c)
             \/ (SaveGet(c) /\ Fenced(c)) \/ SaveSet(c)
    <2>1. lease' = lease /\ pc'[c] \in Holding
      BY <1>0, <1>8
      DEF StartLoad, Create, Load, TakeUpRead, TakeUpDelete, BodyRests, SaveGet, SaveSet, Settle,
          DriveOnce, CheckShape, Lose, GoEnd, GoSave, GoBody, Goto, LocalType, store, Holding
    <2> QED
      BY <1>3, <2>1
  <1> QED
    BY <1>0, <1>4, <1>5, <1>6, <1>7, <1>8 DEF Drives

LEMMA RunMoves ==
  ASSUME Undisturbed, AnsweredInv, NEW c \in Calls, Moves(c), Clean'
  PROVE  RunInv'
PROOF
  <1>0. EndInv /\ RunInv /\ WriteOK(c) /\ OthersStay(c)
    BY CleanMoves, OwnMoves, MovesOK DEF AnsweredInv, EndInv, OwnOK
  <1>1. CASE record' # record
    BY <1>0, <1>1 DEF WriteOK, RunInv
  <1>2. CASE record' = record /\ record # NoRecord
    <2>1. Known(record.flow) /\ record.status # "failed"
      BY <1>0, <1>2 DEF RunInv
    <2>2. ASSUME record.status = "running" PROVE \E d \in Calls : Runs(d)'
      <3>1. PICK d \in Calls : Runs(d)
        BY <1>0, <1>2, <2>2 DEF RunInv
      <3>2. CASE d = c
        BY <1>0, <1>2, <2>2, <3>1, <3>2 DEF WriteOK
      <3>3. CASE d # c
        BY <1>0, <3>1, <3>3 DEF OthersStay, Runs
      <3> QED
        BY <3>2, <3>3
    <2>3. ASSUME NEW d \in Calls, TakesUp(d) PROVE TakesUp(d)'
      <3>1. CASE d = c
        BY <1>0, <1>2, <2>3, <3>1 DEF WriteOK
      <3>2. CASE d # c
        BY <1>0, <2>3, <3>2 DEF OthersStay, TakesUp
      <3> QED
        BY <3>1, <3>2
    <2>4. ASSUME record.status = "suspended" PROVE AtGate(record) \/ \E d \in Calls : TakesUp(d)'
      BY <1>0, <1>2, <2>3, <2>4 DEF RunInv
    <2> QED
      BY <1>2, <2>1, <2>2, <2>4 DEF RunInv
  <1>3. CASE record' = record /\ record = NoRecord
    BY <1>3 DEF RunInv
  <1> QED
    BY <1>1, <1>2, <1>3

(* A datum that has reached its gate stays in the inbox or in the record. *)
LEMMA PresentStays ==
  ASSUME Undisturbed, AnsweredInv, NEW c \in Calls, Moves(c), Clean', NEW g \in Gates, Present(g)
  PROVE  Present(g)'
PROOF
  <1>0. EndInv /\ WriteOK(c) /\ StoreType /\ PlaceInv(c) /\ c \in Starts \cup Resumes /\ Step(c)
        /\ (Delivers(c) \/ Drives(c))
    BY CleanMoves, OwnMoves, MovesOK DEF AnsweredInv, EndInv, OwnOK
  <1>1. record # NoRecord
    BY DEF Present
  <1>2. CASE record' # record
    <2>1. /\ record' # NoRecord /\ record.status # "done"
          /\ record.resume[g] # NoDatum => record'.resume[g] # NoDatum
          /\ pc[c] = "sv_set"
      BY <1>0, <1>1, <1>2, NoRecordAssumption DEF WriteOK, PlaceInv
    <2>2. inbox' = inbox
      BY <1>0, <2>1, InboxMoves DEF DeliverSet, TakeUpDelete, DeleteClear
    <2> QED
      BY <2>1, <2>2 DEF Present
  <1>3. CASE record' = record
    <2>1. CASE DeliverSet(c)
      <3>1. c \in Resumes /\ inbox' = [inbox EXCEPT ![GateFor[c]] = c]
        BY <1>0, <2>1, MovesOK DEF DeliverSet, AnsweredInv, CallInv, KindInv, Delivering
      <3>2. inbox[g] # NoDatum => inbox'[g] # NoDatum
        BY <1>0, <3>1, CallAssumption DEF StoreType
      <3> QED
        BY <1>3, <3>2 DEF Present
    <2>2. CASE TakeUpDelete(c)
      <3>1. record.resume[record.gate] # NoDatum /\ rec[c] = record
        BY <1>0, <2>2 DEF TakeUpDelete, PlaceInv, Driving
      <3>2. g # record.gate => inbox'[g] = inbox[g]
        BY <1>0, <2>2, <3>1 DEF TakeUpDelete, StoreType
      <3> QED
        BY <1>3, <3>1, <3>2 DEF Present
    <2>3. ~DeleteClear(c)
      BY <1>0 DEF Delivers, Drives, DeleteClear, ResumeCall, DeliverClaim, DeliverReadInbox,
        DeliverReadRecord, DeliverSet, DeliverRelease, TakeLease, WantsLease, FindBusy, StartLoad,
        Create, Load, TakeUpRead, TakeUpDelete, BodyRests, SaveConfirm, SaveGet, SaveSet, EndLease,
        Recheck
    <2> QED
      BY <1>3, <2>1, <2>2, <2>3, InboxMoves DEF Present
  <1> QED
    BY <1>2, <1>3

(* The step of a looker looks again, finds nothing, or leaves the lease to *)
(* one that will look: the run of a clean store that has a datum in the    *)
(* inbox of its gate always has a call that comes by.                      *)
LEMMA LookMoves ==
  ASSUME Undisturbed, AnsweredInv, NEW c \in Calls, Moves(c), Clean'
  PROVE  LookInv'
PROOF
  <1>0. /\ EndInv /\ LookInv /\ LeaserInv /\ WriteOK(c) /\ OthersStay(c) /\ LocalType /\ StoreType
        /\ PlaceInv(c) /\ c \in Starts \cup Resumes /\ (Delivers(c) \/ Drives(c)) /\ CallInv(c)
        /\ PlaceInv(c)'
    BY CleanMoves, OwnMoves, MovesOK DEF AnsweredInv, EndInv, OwnOK
  <1>1. CASE record' # record
    BY <1>0, <1>1 DEF WriteOK, LookInv
  <1>2. SUFFICES ASSUME record' = record, record # NoRecord, record.status = "suspended",
                        inbox'[record.gate] # NoDatum
                 PROVE  \E d \in Calls : Looks(d)'
    BY <1>1 DEF LookInv
  <1>3. CASE DeliverSet(c)
    <2>1. pc'[c] = "dl_release"
      BY <1>0, <1>3 DEF DeliverSet, Goto, LocalType
    <2> QED
      BY <2>1 DEF Looks
  <1>4. CASE ~DeliverSet(c)
    <2>1. inbox' = inbox
      <3>1. ~TakeUpDelete(c)
        BY <1>0, <1>2 DEF TakeUpDelete, PlaceInv
      <3>2. ~DeleteClear(c)
        BY <1>0, CallAssumption DEF DeleteClear, CallInv, KindInv
      <3> QED
        BY <1>4, <3>1, <3>2, InboxMoves
    <2>2. PICK d \in Calls : Looks(d)
      BY <1>0, <1>2, <2>1 DEF LookInv
    <2>3. CASE d # c
      <3>1. pc'[d] = pc[d] /\ rec'[d] = rec[d] /\ out'[d] = out[d]
        BY <1>0, <2>3 DEF OthersStay
      <3> QED
        BY <1>2, <2>2, <3>1 DEF Looks
    <2>4. CASE d = c
      <3>1. CASE FindBusy(c)
        (* The holder of the lease looks. *)
        <4>1. lease \in Calls \ {c} /\ pc[lease] \in Holding
          BY <1>0, <3>1 DEF FindBusy, Claimable, LeaserInv, StoreType
        <4>2. PICK h \in Calls : h = lease /\ h # c
          BY <4>1
        <4>3. PlaceInv(h) /\ pc'[h] = pc[h] /\ out'[h] = out[h] /\ pc[h] \in Holding
          BY <1>0, <4>1, <4>2 DEF EndInv, OthersStay
        <4>4. pc[h] \in {"start_load", "load", "tk_inbox"} \cup Saving \/ (pc[h] = "end" /\ out[h] = "suspended")
          BY <1>2, <4>3 DEF PlaceInv, Holding, Saving
        <4>5. Looks(h)'
          BY <4>3, <4>4 DEF Looks
        <4> QED
          BY <4>5
      <3>2. CASE StartLoad(c) \/ Load(c)
        <4>1. Settle(c, record) /\ record \in Record
          BY <1>0, <1>2, <3>2 DEF StartLoad, Load, StoreType
        <4>2. pc'[c] = "tk_inbox"
          BY <1>0, <1>2, <4>1 DEF Settle, Goto, LocalType
        <4> QED
          BY <4>2 DEF Looks
      <3>3. CASE TakeUpRead(c)
        <4>1. rec[c] = record
          BY <1>0, <3>3 DEF TakeUpRead, PlaceInv, Driving
        <4>2. pc'[c] = "sv_confirm"
          <5>1. record.flow # ShapeOf[c] => OnFlowChange[c] = "replay"
            BY <1>0, <1>2 DEF EndInv, RunInv, Known, Undisturbed
          <5> QED
            BY <1>0, <1>2, <2>1, <3>3, <4>1, <5>1 DEF TakeUpRead, CheckShape, GoSave, Goto, LocalType
        <4> QED
          BY <4>2 DEF Looks, Saving
      <3>4. CASE Recheck(c)
        <4>1. rec[c].gate = record.gate
          BY <2>2, <2>4, <3>4 DEF Recheck, Looks, Saving
        <4>2. pc'[c] = "claim"
          BY <1>0, <1>2, <2>1, <3>4, <4>1 DEF Recheck, Goto, LocalType
        <4> QED
          BY <4>2 DEF Looks
      <3>5. CASE EndLease(c)
        <4>1. rec[c] = record /\ out[c] = "suspended"
          BY <1>0, <1>2, <3>5 DEF EndLease, PlaceInv
        <4>2. pc'[c] = "recheck" /\ rec' = rec
          BY <1>0, <3>5, <4>1 DEF EndLease, Goto, LocalType
        <4> QED
          BY <1>2, <4>1, <4>2 DEF Looks
      <3>6. CASE SaveSet(c)
        <4>1. nxt[c].rev = record.rev /\ record' = Saved(c) /\ nxt[c] \in Record
          BY <1>0, <3>6 DEF SaveSet, PlaceInv, Driving, Saving, CallInv, SaveInv, Follows
        <4> QED
          BY <1>2, <4>1 DEF Saved, Record
      <3>7. CASE DeliverRelease(c) \/ TakeLease(c) \/ SaveConfirm(c) \/ (SaveGet(c) /\ Fenced(c))
        <4>1. pc'[c] \in {"claim", "start_load", "load"} \cup Saving
          BY <1>0, <3>7
          DEF DeliverRelease, TakeLease, SaveConfirm, SaveGet, Lose, Goto, LocalType, Saving, PlaceInv
        <4> QED
          BY <4>1 DEF Looks
      <3>8. ~(\/ ResumeCall(c) \/ DeliverClaim(c) \/ DeliverReadInbox(c) \/ DeliverReadRecord(c)
              \/ DeliverSet(c) \/ Create(c) \/ TakeUpDelete(c) \/ BodyRests(c))
        BY <2>2, <2>4
        DEF Looks, ResumeCall, DeliverClaim, DeliverReadInbox, DeliverReadRecord, DeliverSet,
            Create, TakeUpDelete, BodyRests, Saving
      <3> QED
        BY <1>0, <3>1, <3>2, <3>3, <3>4, <3>5, <3>6, <3>7, <3>8 DEF Delivers, Drives
    <2> QED
      BY <2>3, <2>4
  <1> QED
    BY <1>3, <1>4

(* Only deliver touches the claim of a gate. *)
LEMMA GateClaimMoves ==
  ASSUME NEW c \in Calls, Delivers(c) \/ Drives(c)
  PROVE  gclaim' = gclaim \/ DeliverClaim(c) \/ DeliverRelease(c)
PROOF
  BY DEF Delivers, Drives, ResumeCall, DeliverReadInbox, DeliverReadRecord, DeliverSet, TakeLease,
         FindBusy, StartLoad, Create, Load, TakeUpRead, TakeUpDelete, BodyRests, SaveConfirm,
         SaveGet, SaveSet, EndLease, Recheck, store

LEMMA GateMoves ==
  ASSUME Undisturbed, AnsweredInv, NEW c \in Calls, Moves(c), Clean', NEW g \in Gates
  PROVE  GateInv(g)'
PROOF
  <1>0. /\ GateInv(g) /\ OthersStay(c) /\ LocalType /\ StoreType /\ PlaceInv(c) /\ KindInv(c)
        /\ (Delivers(c) \/ Drives(c))
    BY CleanMoves, MovesOK DEF AnsweredInv, EndInv, CallInv
  <1>1. CASE gclaim'[g] = gclaim[g] /\ gclaim[g] # Free
    <2>1. PICK h \in Resumes : h = gclaim[g] /\ GateFor[h] = g /\ pc[h] \in Depositing \cup {"dl_release"}
      BY <1>0, <1>1 DEF GateInv
    <2>2. pc'[h] \in Depositing \cup {"dl_release"}
      <3>1. CASE h # c
        BY <1>0, <2>1, <3>1 DEF OthersStay, Calls
      <3>2. CASE h = c
        <4>1. CASE DeliverClaim(c) \/ DeliverReadInbox(c) \/ DeliverReadRecord(c) \/ DeliverSet(c)
          BY <1>0, <2>1, <3>2, <4>1
          DEF DeliverClaim, DeliverReadInbox, DeliverReadRecord, DeliverSet, Goto, LocalType,
              Depositing
        <4>2. CASE DeliverRelease(c)
          <5>1. gclaim'[g] = Free
            BY <1>0, <2>1, <3>2, <4>2 DEF DeliverRelease, StoreType
          <5> QED
            BY <1>1, <5>1
        <4>3. ~ResumeCall(c) /\ ~Drives(c)
          BY <2>1, <3>2
          DEF Drives, ResumeCall, TakeLease, WantsLease, FindBusy, StartLoad, Create, Load,
              TakeUpRead, TakeUpDelete, BodyRests, SaveConfirm, SaveGet, SaveSet, EndLease,
              Recheck, Depositing
        <4> QED
          BY <1>0, <4>1, <4>2, <4>3 DEF Delivers
      <3> QED
        BY <3>1, <3>2
    <2> QED
      BY <1>1, <2>1, <2>2 DEF GateInv
  <1>2. CASE gclaim'[g] = Free
    BY <1>2 DEF GateInv
  <1>3. CASE gclaim'[g] # gclaim[g] /\ gclaim'[g] # Free
    <2>1. DeliverClaim(c) /\ c \in Resumes /\ GateFor[c] = g /\ gclaim'[g] = c
      <3>1. DeliverClaim(c) \/ DeliverRelease(c)
        BY <1>0, <1>3, GateClaimMoves
      <3>2. ~DeliverRelease(c)
        BY <1>0, <1>3 DEF DeliverRelease, StoreType
      <3> QED
        BY <1>0, <1>3, <3>1, <3>2 DEF DeliverClaim, StoreType, KindInv, Delivering
    <2>2. pc'[c] = "dl_inbox"
      <3>1. gclaim' # gclaim
        BY <1>3
      <3> QED
        BY <1>0, <2>1, <3>1 DEF DeliverClaim, Goto, LocalType
    <2> QED
      BY <2>1, <2>2 DEF GateInv, Depositing
  <1> QED
    BY <1>1, <1>2, <1>3

(* A claimed gate is left with a datum, and stays claimed till then. *)
LEMMA ClaimedStays ==
  ASSUME Undisturbed, AnsweredInv, NEW c \in Calls, Moves(c), Clean', NEW g \in Gates,
         Present(g) \/ gclaim[g] # Free
  PROVE  Present(g)' \/ gclaim'[g] # Free
PROOF
  <1>0. /\ EndInv /\ LocalType /\ StoreType /\ KindInv(c) /\ GateInv(g) /\ c # Free
        /\ (Delivers(c) \/ Drives(c))
    BY CleanMoves, MovesOK, CallAssumption DEF AnsweredInv, EndInv, CallInv
  <1>1. CASE Present(g)
    BY <1>1, PresentStays
  <1>2. CASE gclaim[g] # Free /\ ~Present(g)
    <2>1. CASE DeliverRelease(c) /\ gclaim'[g] = Free
      <3>1. gclaim[g] = c /\ pc[c] = "dl_release" /\ GateFor[c] \in Gates
        BY <1>0, <1>2, <2>1 DEF DeliverRelease, StoreType, KindInv, Delivering
      <3>2. c \in Resumes /\ GateFor[c] = g
        BY <1>0, <1>2, <3>1 DEF GateInv
      <3>3. Present(g)
        BY <1>0, <3>1, <3>2 DEF EndInv, HandInv
      <3> QED
        BY <1>2, <3>3
    <2>2. CASE DeliverClaim(c)
      BY <1>0, <1>2, <2>2 DEF DeliverClaim, StoreType, KindInv, Delivering
    <2> QED
      BY <1>0, <1>2, <2>1, <2>2, GateClaimMoves
  <1> QED
    BY <1>1, <1>2

LEMMA HandMoves ==
  ASSUME Undisturbed, AnsweredInv, NEW c \in Calls, Moves(c), Clean', NEW r \in Resumes
  PROVE  HandInv(r)'
PROOF
  <1> DEFINE g == GateFor[r]
  <1>0. /\ EndInv /\ HandInv(r) /\ OthersStay(c) /\ LocalType /\ StoreType /\ PlaceInv(c) /\ KindInv(c)
        /\ r \in Calls /\ r # Free /\ c # Free /\ KindInv(r)
        /\ (Delivers(c) \/ Drives(c))
    BY CleanMoves, MovesOK, CallAssumption DEF AnsweredInv, TypeInv, EndInv, CallInv, Calls
  <1>1. gclaim' = gclaim \/ DeliverClaim(c) \/ DeliverRelease(c)
    BY <1>0, GateClaimMoves
  <1>2. CASE r # c
    <2>1. pc'[r] = pc[r] /\ out'[r] = out[r]
      BY <1>0, <1>2 DEF OthersStay
    <2>2. ASSUME g \in Gates PROVE gclaim'[g] = r <=> gclaim[g] = r
      BY <1>0, <1>1, <1>2, <2>2 DEF DeliverClaim, DeliverRelease, StoreType, KindInv, Delivering
    <2>3. pc[r] \in Depositing \cup {"dl_release"} => g \in Gates
      BY <1>0 DEF KindInv, Delivering, Depositing
    <2>4. pc[r] \in Depositing => gclaim'[g] = r
      BY <1>0, <2>2, <2>3 DEF HandInv
    <2>5. pc[r] = "dl_release" /\ gclaim'[g] = r => Present(g)'
      BY <1>0, <2>2, <2>3, PresentStays DEF HandInv
    <2>6. ASSUME pc[r] \notin {"new", "dl_claim"} \cup Depositing, g \in Gates, out[r] # "not_found"
          PROVE  Present(g)' \/ gclaim'[g] # Free
      BY <1>0, <2>6, ClaimedStays DEF HandInv
    <2> QED
      BY <2>1, <2>4, <2>5, <2>6 DEF HandInv
  <1>3. CASE r = c /\ Drives(c)
    <2>1. pc[c] \notin {"new", "dl_claim", "dl_release", "returned"} \cup Depositing
      BY <1>3, CallAssumption
      DEF Drives, TakeLease, WantsLease, FindBusy, StartLoad, Create, Load, TakeUpRead,
          TakeUpDelete, BodyRests, SaveConfirm, SaveGet, SaveSet, EndLease, Recheck, Depositing
    <2>2. g \in Gates => Present(g) \/ gclaim[g] # Free
      BY <1>0, <1>3, <2>1 DEF HandInv, PlaceInv
    <2>3. pc'[c] \notin Depositing \cup {"dl_release"}
      BY <1>0, <1>3
      DEF Drives, TakeLease, FindBusy, StartLoad, Create, Load, TakeUpRead, TakeUpDelete,
          BodyRests, SaveConfirm, SaveGet, SaveSet, EndLease, Recheck, Settle, DriveOnce,
          CheckShape, Lose, GoEnd, GoSave, GoBody, Return, Goto, LocalType, Depositing
    <2> QED
      BY <1>3, <2>2, <2>3, ClaimedStays DEF HandInv
  <1>4. CASE r = c /\ Delivers(c)
    <2>1. CASE ResumeCall(c)
      <3>1. /\ record' = record /\ inbox' = inbox
            /\ \/ pc'[c] = "returned" /\ out'[c] = "not_found"
               \/ pc'[c] = "returned" /\ record # NoRecord /\ record.status = "done"
               \/ pc'[c] = "claim" /\ g = NoGate
               \/ pc'[c] = "dl_claim"
        BY <1>0, <1>4, <2>1 DEF ResumeCall, Return, Goto, LocalType, store
      <3>2. NoGate \notin Gates
        BY CallAssumption
      <3> QED
        BY <1>4, <3>1, <3>2 DEF HandInv, Present, Depositing
    <2>2. CASE DeliverClaim(c)
      <3>1. g \in Gates
        BY <1>0, <1>4, <2>2 DEF DeliverClaim, KindInv, Delivering
      <3>2. \/ pc'[c] = "dl_inbox" /\ gclaim'[g] = c
            \/ pc'[c] = "claim" /\ gclaim'[g] # Free
        BY <1>0, <1>4, <2>2, <3>1 DEF DeliverClaim, Goto, LocalType, StoreType
      <3> QED
        BY <1>4, <3>2 DEF HandInv, Depositing
    <2>3. CASE DeliverReadInbox(c) \/ DeliverReadRecord(c)
      <3>1. /\ gclaim[g] = c /\ record # NoRecord /\ UNCHANGED store
        BY <1>0, <1>4, <2>3
        DEF DeliverReadInbox, DeliverReadRecord, HandInv, PlaceInv, Depositing
      <3>2. pc'[c] \in {"dl_record", "dl_set"} \/ (pc'[c] = "dl_release" /\ Present(g)')
        BY <1>0, <1>4, <2>3, <3>1
        DEF DeliverReadInbox, DeliverReadRecord, Goto, LocalType, store, Present
      <3> QED
        BY <1>4, <3>1, <3>2 DEF HandInv, Depositing, store
    <2>4. CASE DeliverSet(c)
      <3>1. g \in Gates /\ record # NoRecord /\ c # NoDatum
        BY <1>0, <1>4, <2>4, CallAssumption DEF DeliverSet, KindInv, Delivering, PlaceInv
      <3>2. pc'[c] = "dl_release" /\ inbox'[g] # NoDatum /\ record' = record
        BY <1>0, <1>4, <2>4, <3>1 DEF DeliverSet, Goto, LocalType, StoreType
      <3>3. Present(g)'
        BY <3>1, <3>2 DEF Present
      <3> QED
        BY <1>4, <3>2, <3>3 DEF HandInv, Depositing
    <2>5. CASE DeliverRelease(c)
      <3>1. pc'[c] \in {"claim", "returned"} /\ pc[c] = "dl_release" /\ g \in Gates
        BY <1>0, <1>4, <2>5 DEF DeliverRelease, Return, Goto, LocalType, KindInv, Delivering
      <3>2. Present(g) \/ gclaim[g] # Free
        BY <1>0, <1>4, <3>1 DEF HandInv, PlaceInv, Depositing
      <3> QED
        BY <1>4, <3>1, <3>2, ClaimedStays DEF HandInv, Depositing
    <2> QED
      BY <1>4, <2>1, <2>2, <2>3, <2>4, <2>5 DEF Delivers
  <1> QED
    BY <1>0, <1>2, <1>3, <1>4

LEMMA AnsweredStep ==
  ASSUME Undisturbed, AnsweredInv, [Next]_vars
  PROVE  AnsweredInv'
PROOF
  <1>1. TypeInv' /\ LeaseInv'
    BY TypeInvStep, LeaseStep DEF AnsweredInv, Undisturbed
  <1>2. ASSUME NEW c \in Calls, Moves(c), Clean' PROVE EndInv'
    <2>1. ASSUME NEW d \in Calls PROVE PlaceInv(d)' /\ GoalInv(d)'
      <3>1. CASE d = c
        BY <1>2, <3>1, OwnMoves DEF OwnOK
      <3>2. CASE d # c
        BY <1>2, <3>2, OthersKeepEnd
      <3> QED
        BY <3>1, <3>2
    <2> QED
      BY <1>2, <2>1, LeaserMoves, RunMoves, LookMoves, GateMoves, HandMoves DEF EndInv
  <1>3. ASSUME UNCHANGED vars PROVE Clean' => EndInv'
    BY <1>3
    DEF AnsweredInv, EndInv, Clean, vars, LeaserInv, RunInv, LookInv, PlaceInv, GoalInv, GateInv,
        HandInv, Runs, TakesUp, Looks, Present
  (* No claim runs out: its owner stands where a live call is in time. *)
  <1>4. CASE ExpireLease
    <2>1. UNCHANGED pc /\ lease \in Calls /\ Expirable(lease)
      BY <1>4 DEF ExpireLease, locals, AnsweredInv, TypeInv, TypeOK
    <2>2. ~Clean
      BY <2>1, CallAssumption
      DEF AnsweredInv, EndInv, LeaserInv, Expirable, Undisturbed, LeasesHold, Clean, Holding
    <2> QED
      BY <1>1, <2>1, <2>2 DEF AnsweredInv, Clean
  <1>5. ASSUME NEW g \in Gates, ExpireGateClaim(g) PROVE AnsweredInv'
    <2>1. UNCHANGED pc /\ gclaim[g] \in Calls /\ gclaim[g] # Free /\ Expirable(gclaim[g])
      BY <1>5 DEF ExpireGateClaim, locals, AnsweredInv, TypeInv, TypeOK
    <2>2. ~Clean
      BY <2>1
      DEF AnsweredInv, EndInv, GateInv, Expirable, Undisturbed, Clean, Depositing
    <2> QED
      BY <1>1, <2>1, <2>2 DEF AnsweredInv, Clean
  <1> QED
    BY <1>1, <1>2, <1>3, <1>4, <1>5 DEF AnsweredInv, Next, Moves

LEMMA AnsweredInit == Init => AnsweredInv
PROOF
  <1>1. ASSUME Init PROVE LeaseInv /\ EndInv
    <2>1. \A c \in Calls : pc[c] = "new" /\ out[c] = "none"
      BY <1>1 DEF Init
    <2>2. lease = Free /\ record = NoRecord /\ \A g \in Gates : gclaim[g] = Free
      BY <1>1 DEF Init
    <2>3. LeaseInv /\ LeaserInv /\ RunInv /\ LookInv /\ \A g \in Gates : GateInv(g)
      BY <2>1, <2>2 DEF LeaseInv, LeaserInv, RunInv, LookInv, GateInv, Holding
    <2>4. \A c \in Calls : PlaceInv(c) /\ GoalInv(c)
      BY <2>1, <2>2 DEF PlaceInv, GoalInv, Driving, Saving, Holding
    <2>5. \A r \in Resumes : HandInv(r)
      BY <2>1, <2>2 DEF HandInv, Depositing, Calls
    <2> QED
      BY <2>3, <2>4, <2>5 DEF EndInv
  <1> QED
    BY <1>1, TypeInvInit DEF AnsweredInv

LEMMA AnsweredEnds ==
  ASSUME Undisturbed, AnsweredInv
  PROVE  AnsweredRunIsDone
PROOF
  <1> SUFFICES ASSUME Quiet, record # NoRecord, \A d \in Deletes : pc[d] = "new",
                      \A i \in DOMAIN FlowOf[record.flow] : Handed(FlowOf[record.flow][i])
               PROVE  record.status = "done"
    BY DEF AnsweredRunIsDone
  <1>1. Clean
    BY DEF Clean, Quiet
  <1>2. EndInv /\ TypeOK /\ record \in Record /\ Suspendable(record)
    BY <1>1 DEF AnsweredInv, TypeInv, TypeOK
  <1>3. record.status \notin {"failed", "running"}
    BY <1>2 DEF EndInv, RunInv, Runs, Saving, Quiet
  <1>4. ASSUME record.status = "suspended" PROVE FALSE
    <2>1. \A c \in Calls : ~TakesUp(c) /\ ~Looks(c)
      BY DEF TakesUp, Looks, Saving, Quiet
    <2>2. PICK i \in DOMAIN FlowOf[record.flow] : record.gate = FlowOf[record.flow][i]
      BY <1>2, <1>4, <2>1 DEF EndInv, RunInv, AtGate
    <2>3. PICK r \in Resumes \ Refused :
            GateFor[r] = record.gate /\ out[r] \in {"done", "suspended", "busy"}
      BY <2>2 DEF Handed
    <2>4. r \in Calls /\ pc[r] = "returned"
      BY <1>2, <2>3 DEF Calls, Quiet, EndInv, PlaceInv
    <2>5. record.gate \in Gates /\ ~Accepted(record.resume[record.gate])
      BY <1>2, <1>4 DEF Suspendable
    <2>6. inbox[record.gate] = NoDatum
      BY <1>2, <1>4, <2>1 DEF EndInv, LookInv
    <2>7. gclaim[record.gate] = Free
      BY <1>2, <2>5 DEF EndInv, GateInv, Quiet, Depositing, Calls
    <2>8. Present(record.gate) \/ gclaim[record.gate] # Free
      BY <1>2, <2>3, <2>4, <2>5 DEF EndInv, HandInv, Depositing
    <2> QED
      BY <1>4, <2>5, <2>6, <2>7, <2>8 DEF Present, Accepted, Undisturbed
  <1> QED
    BY <1>2, <1>3, <1>4 DEF Record, Statuses

(* The whole of it: a record of the run's own gates, one drive at a time,  *)
(* and, when all is quiet, a run done whose every gate got a datum.        *)
THEOREM RunsAreWellDriven == Undisturbed => (Spec => []RunsAreDriven)
PROOF
  <1> SUFFICES ASSUME Undisturbed PROVE Spec => []RunsAreDriven
    OBVIOUS
  <1>1. AnsweredInv /\ [Next]_vars => AnsweredInv'
    BY AnsweredStep
  <1>2. AnsweredInv => RunsAreDriven
    <2>1. AnsweredInv => TypeOK /\ OneDriver
      BY DEF AnsweredInv, TypeInv, LeaseInv, OneDriver
    <2> QED
      BY <2>1, AnsweredEnds DEF RunsAreDriven
  <1> QED
    BY <1>1, <1>2, AnsweredInit, PTL DEF Spec
----------------------------------------------------------------------------
(* The gate a run waits at, and what becomes of the result that it shows   *)
(* (Gate), for any bound on the runs of its flow.                          *)
CONSTANTS GateHasStore, GateRuns, None

VARIABLES gt_store, gt_paid, gt_runs, gt_run, gt_shown, gt_approved, gt_passed, gt_unshown,
          gt_resold

TheGate == INSTANCE Gate WITH
  store <- gt_store, paid <- gt_paid, runs <- gt_runs, run <- gt_run, shown <- gt_shown,
  approved <- gt_approved, passed <- gt_passed, unshown <- gt_unshown, resold <- gt_resold,
  HasStore <- GateHasStore, MaxRuns <- GateRuns, None <- None

(* A resumed gate buys nothing, and passes what was shown and approved.    *)
ResumeServesTheKept == TheGate!ResumeServesTheKept

(* What a run of the gate is. *)
GateRunType ==
  [at : {"idle", "reaches", "reads", "buys", "writes", "suspends", "passes", "over"}, resumes : BOOLEAN,
   input : {None, 1, 2}, result : Nat \union {None}]

(* What each variable holds.                                               *)
GateTypes ==
  /\ gt_run \in GateRunType
  /\ gt_paid \in Nat /\ gt_runs \in Nat
  /\ gt_store \in Nat \union {None} /\ gt_shown \in Nat \union {None} /\ gt_approved \in Nat \union {None}

(* What the run has in hand, at each point: only a run that does not       *)
(* resume buys, and one that resumes has its answer as long as it lives.   *)
GateRunInv ==
  /\ gt_run.resumes /\ gt_run.at # "over" => gt_approved # None
  /\ gt_run.at \in {"buys", "writes", "suspends"} => ~gt_run.resumes
  /\ gt_run.at = "writes" => gt_run.result \in gt_unshown
  /\ gt_run.at = "suspends" => gt_store \in {None, gt_run.result}
  /\ gt_run.at = "passes" => gt_run.result = gt_approved \/ gt_run.result \in gt_unshown

(* What is approved was shown, and what is kept was shown last, or the     *)
(* run that bought it did not live to show it.                             *)
GateKeptInv ==
  /\ gt_approved # None => gt_approved = gt_shown
  /\ gt_store # None => GateHasStore /\ (gt_store = gt_shown \/ gt_store \in gt_unshown)

(* The whole of it. *)
GateStateInv == GateTypes /\ GateRunInv /\ GateKeptInv /\ TheGate!ResumeServesTheKept

(* A gate that nobody came to yet keeps what it should. *)
LEMMA GateStartsOK == TheGate!Init => GateStateInv
PROOF
  BY DEF TheGate!Init, TheGate!Idle, GateStateInv, GateTypes, GateRunType, GateRunInv, GateKeptInv, TheGate!ResumeServesTheKept

(* So does every step of its run, of its store and of its approver. *)
LEMMA GateStepOK == GateStateInv /\ [TheGate!Next]_(TheGate!vars) => GateStateInv'
PROOF
  <1> SUFFICES ASSUME GateStateInv, [TheGate!Next]_(TheGate!vars) PROVE GateStateInv'
    OBVIOUS
  <1> USE DEF GateStateInv, GateTypes, GateRunType, GateRunInv, GateKeptInv, TheGate!ResumeServesTheKept, TheGate!Become, TheGate!Idle
  <1>1. CASE TheGate!FlowRuns
    <2>1. gt_run'.at = "reaches" /\ gt_run'.input = None /\ gt_run'.result = None /\ gt_run' \in GateRunType
      BY <1>1 DEF TheGate!FlowRuns
    <2>2. gt_run'.resumes <=> gt_approved # None
      BY <1>1 DEF TheGate!FlowRuns
    <2>3. QED
      BY <1>1, <2>1, <2>2 DEF TheGate!FlowRuns
  <1>2. CASE TheGate!Reaches
    <2>1. PICK input \in {1, 2} : IF gt_run.input \in {None, input} THEN TheGate!Become([gt_run EXCEPT !.at = "reads", !.input = input])
                                  ELSE TheGate!Become([gt_run EXCEPT !.at = "over"])
      BY <1>2 DEF TheGate!Reaches
    <2>2. gt_run' = [gt_run EXCEPT !.at = "reads", !.input = input] \/ gt_run' = [gt_run EXCEPT !.at = "over"]
      BY <2>1
    <2>3. QED
      BY <1>2, <2>2 DEF TheGate!Reaches
  <1>3. CASE TheGate!ReadsForAResume
    BY <1>3 DEF TheGate!ReadsForAResume
  <1>4. CASE TheGate!ReadsFirst
    BY <1>4 DEF TheGate!ReadsFirst
  <1>5. CASE TheGate!Buys
    <2>1. CASE /\ gt_paid' = gt_paid + 1
               /\ gt_unshown' = gt_unshown \union {gt_paid + 1}
               /\ gt_resold' = IF gt_run.resumes THEN gt_resold \union {gt_paid + 1} ELSE gt_resold
               /\ gt_run' = [gt_run EXCEPT !.at = "writes", !.result = gt_paid + 1]
      <3>1. ~gt_run.resumes /\ gt_resold' = {}
        BY <1>5, <2>1 DEF TheGate!Buys
      <3>2. /\ gt_run'.at = "writes" /\ gt_run'.result = gt_paid + 1 /\ ~gt_run'.resumes
            /\ gt_run'.input = gt_run.input /\ gt_run' \in GateRunType
        <4>1. gt_run \in GateRunType /\ gt_paid + 1 \in Nat
          OBVIOUS
        <4>2. gt_run' = [at |-> "writes", resumes |-> gt_run.resumes, input |-> gt_run.input, result |-> gt_paid + 1]
          BY <2>1, <4>1
        <4>3. QED
          BY <3>1, <4>1, <4>2
      <3>3. QED
        BY <1>5, <2>1, <3>1, <3>2 DEF TheGate!Buys
    <2>2. CASE gt_run' = [gt_run EXCEPT !.at = "over"] /\ UNCHANGED <<gt_paid, gt_unshown, gt_resold>>
      BY <1>5, <2>2 DEF TheGate!Buys
    <2>3. QED
      BY <1>5, <2>1, <2>2 DEF TheGate!Buys
  <1>6. CASE TheGate!Writes
    <2>1. CASE /\ gt_store' = IF GateHasStore THEN gt_run.result ELSE gt_store
               /\ gt_run' = [gt_run EXCEPT !.at = IF gt_run.resumes THEN "passes" ELSE "suspends"]
      BY <1>6, <2>1 DEF TheGate!Writes
    <2>2. CASE gt_run' = [gt_run EXCEPT !.at = "over"] /\ UNCHANGED gt_store
      BY <1>6, <2>2 DEF TheGate!Writes
    <2>3. QED
      BY <1>6, <2>1, <2>2 DEF TheGate!Writes
  <1>7. CASE TheGate!Suspends
    BY <1>7 DEF TheGate!Suspends
  <1>8. CASE TheGate!Passes
    <2>1. GateTypes' /\ GateRunInv' /\ GateKeptInv'
      <3>1. CASE gt_run' = [gt_run EXCEPT !.at = "reaches"]
        BY <1>8, <3>1 DEF TheGate!Passes
      <3>2. CASE gt_run' = [gt_run EXCEPT !.at = "over"]
        BY <1>8, <3>2 DEF TheGate!Passes
      <3>3. QED
        BY <1>8, <3>1, <3>2 DEF TheGate!Passes
    <2>2. \A p \in gt_passed' : p[1] = p[2] \/ p[3]
      <3>1. \A p \in gt_passed' : p \in gt_passed \/ p = <<gt_run.result, gt_approved, gt_run.result \in gt_unshown>>
        BY <1>8 DEF TheGate!Passes
      <3>2. gt_run.result = gt_approved \/ gt_run.result \in gt_unshown
        BY <1>8 DEF TheGate!Passes
      <3>3. ASSUME NEW p, p = <<gt_run.result, gt_approved, gt_run.result \in gt_unshown>> PROVE p[1] = p[2] \/ p[3]
        <4>1. CASE gt_run.result = gt_approved
          BY <3>3, <4>1
        <4>2. CASE gt_run.result \in gt_unshown
          BY <3>3, <4>2, Zenon
        <4>3. QED
          BY <3>2, <4>1, <4>2
      <3>4. QED
        BY <3>1, <3>3
    <2>3. QED
      BY <1>8, <2>1, <2>2 DEF TheGate!Passes
  <1>9. CASE TheGate!Approves
    BY <1>9 DEF TheGate!Approves
  <1>10. CASE TheGate!Dies
    BY <1>10 DEF TheGate!Dies
  <1>11. CASE TheGate!LosesTheAnswer
    BY <1>11 DEF TheGate!LosesTheAnswer
  <1>12. CASE TheGate!EntryIsDropped
    BY <1>12 DEF TheGate!EntryIsDropped
  <1>13. CASE UNCHANGED TheGate!vars
    BY <1>13 DEF TheGate!vars
  <1> QED
    BY <1>1, <1>2, <1>3, <1>4, <1>5, <1>6, <1>7, <1>8, <1>9, <1>10, <1>11, <1>12, <1>13 DEF TheGate!Next

(* A resumed run buys nothing at a gate, and what passes is what was shown *)
(* and approved, whatever the store, the process and the approver lose.    *)
THEOREM ResumesServeTheKept == TheGate!Spec => []ResumeServesTheKept
PROOF
  BY GateStartsOK, GateStepOK, PTL DEF TheGate!Spec, GateStateInv, ResumeServesTheKept

----------------------------------------------------------------------------
(* The flow run again from its checkpoints, and what the analysis of its   *)
(* replays tells beforehand (Replays), for any flow.                       *)
CONSTANTS FlowNodes, FlowRoots, KindAt, KidsAt, MarkedAt, IdAt, FailingAt, MostPasses

VARIABLES rp_root, rp_arm, rp_pass, rp_status, rp_resumed, rp_unreached, rp_store, rp_started,
          rp_again, rp_replayed, rp_mishap, rp_outcome

TheReplays == INSTANCE Replays WITH
  root <- rp_root, arm <- rp_arm, pass <- rp_pass, status <- rp_status, resumed <- rp_resumed,
  unreached <- rp_unreached, store <- rp_store, started <- rp_started, again <- rp_again,
  replayed <- rp_replayed, mishap <- rp_mishap, outcome <- rp_outcome, Nodes <- FlowNodes,
  Roots <- FlowRoots, Kind <- KindAt, Kids <- KidsAt, Marked <- MarkedAt, SuspendId <- IdAt,
  Failing <- FailingAt, MaxPasses <- MostPasses

(* describe.replays foretells every side effect a resumed run repeats.     *)
ReplaysAreForetold == TheReplays!ReplaysAreForetold

StepKinds == {"step", "sequence", "parallel", "branch", "checkpoint", "suspend"}

(* The flows are trees whose nodes are numbered downward; steps and gates  *)
(* are their leaves.                                                       *)
StepsAssumption ==
  /\ FlowNodes \subseteq Nat /\ \E last \in FlowNodes : \A n \in FlowNodes : n <= last
  /\ FlowRoots \subseteq FlowNodes
  /\ KidsAt \in [FlowNodes -> Seq(FlowNodes)]
  /\ KindAt \in [FlowNodes -> StepKinds]
  /\ \A p \in FlowNodes : \A i \in DOMAIN KidsAt[p] : p < KidsAt[p][i] /\ KidsAt[p][i] \notin FlowRoots
  /\ \A p, q \in FlowNodes : \A i \in DOMAIN KidsAt[p], j \in DOMAIN KidsAt[q] :
       KidsAt[p][i] = KidsAt[q][j] => p = q /\ i = j
  /\ \A n \in FlowNodes :
       /\ KindAt[n] \in {"step", "suspend"} => KidsAt[n] = <<>>
       /\ KindAt[n] = "checkpoint" => Len(KidsAt[n]) = 1
       /\ KindAt[n] = "branch" => Len(KidsAt[n]) = 2

ASSUME StepsFit == StepsAssumption

----------------------------------------------------------------------------
(* The shape of a flow. *)

LEMMA FirstOf == ASSUME NEW S \in SUBSET Nat, S # {} PROVE \E m \in S : \A k \in S : m <= k
<1>1. PICK m \in S : \A k \in S : <<k, m>> \notin OpToRel(<, Nat)
  BY WFMin, NatLessThanWellFounded, Zenon
<1>2. \A k \in S : ~(k < m)
  BY <1>1, Zenon DEF OpToRel
<1> QED BY <1>2

LEMMA LastOfThem == ASSUME NEW S \in SUBSET FlowNodes, S # {} PROVE \E m \in S : \A k \in S : k <= m
<1>1. PICK most \in Nat : FlowNodes \subseteq 0 .. most
  <2>1. FlowNodes \subseteq Nat /\ \E last \in FlowNodes : \A n \in FlowNodes : n <= last
    BY StepsFit DEF StepsAssumption
  <2>2. PICK last \in FlowNodes : \A n \in FlowNodes : n <= last
    BY <2>1
  <2>3. last \in Nat /\ \A n \in FlowNodes : n \in Nat /\ n <= last
    BY <2>1, <2>2
  <2>4. FlowNodes \subseteq 0 .. last
    BY <2>3
  <2> QED BY <2>3, <2>4
<1>2. {most - k : k \in S} \in SUBSET Nat /\ {most - k : k \in S} # {}
  <2>1. \A k \in S : k \in 0 .. most
    BY <1>1
  <2>2. \A k \in S : most - k \in Nat
    BY <2>1
  <2> QED BY <2>2
<1>3. PICK d \in {most - k : k \in S} : \A e \in {most - k : k \in S} : d <= e
  BY <1>2, FirstOf
<1>4. PICK m \in S : d = most - m
  BY <1>3
<1>5. \A k \in S : most - m <= most - k /\ k \in Nat /\ k <= most
  BY <1>1, <1>3, <1>4
<1> QED BY <1>1, <1>5

LEMMA Tree ==
  /\ FlowNodes \subseteq Nat /\ FlowRoots \subseteq FlowNodes
  /\ \A n \in FlowNodes : TheReplays!Children(n) \subseteq FlowNodes \ FlowRoots
       /\ \A k \in TheReplays!Children(n) : n < k
  /\ \A p, q \in FlowNodes : TheReplays!Children(p) \cap TheReplays!Children(q) # {} => p = q
<1>1. \A n \in FlowNodes : KidsAt[n] \in Seq(FlowNodes)
  BY StepsFit DEF StepsAssumption
<1>2. \A n \in FlowNodes : \A k \in TheReplays!Children(n) : \E i \in DOMAIN KidsAt[n] : k = KidsAt[n][i]
        /\ k \in FlowNodes
  BY <1>1 DEF TheReplays!Children, TheReplays!Range
<1>3. \A n \in FlowNodes : \A k \in TheReplays!Children(n) : k \in FlowNodes \ FlowRoots /\ n < k
  BY <1>2, StepsFit DEF StepsAssumption
<1>4. ASSUME NEW p \in FlowNodes, NEW q \in FlowNodes, NEW k \in TheReplays!Children(p),
               k \in TheReplays!Children(q) PROVE p = q
  <2>1. PICK i \in DOMAIN KidsAt[p] : k = KidsAt[p][i]
    BY <1>2
  <2>2. PICK j \in DOMAIN KidsAt[q] : k = KidsAt[q][j]
    BY <1>2, <1>4
  <2>3. \A m, n \in FlowNodes : \A e \in DOMAIN KidsAt[m], f \in DOMAIN KidsAt[n] : KidsAt[m][e] = KidsAt[n][f]
          => m = n
    BY StepsFit DEF StepsAssumption
  <2> QED BY <2>1, <2>2, <2>3
<1>5. FlowNodes \subseteq Nat /\ FlowRoots \subseteq FlowNodes
  BY StepsFit DEF StepsAssumption
<1> QED BY <1>3, <1>4, <1>5

(* The nodes that every set closed under children has if it has n. *)
Reach(n) == {m \in FlowNodes : \A S \in SUBSET FlowNodes : n \in S
  /\ (\A x \in S : TheReplays!Children(x) \subseteq S) => m \in S}

LEMMA ReachIs ==
  ASSUME NEW n \in FlowNodes
  PROVE  /\ n \in Reach(n) /\ Reach(n) \subseteq FlowNodes
         /\ \A x \in Reach(n) : TheReplays!Children(x) \subseteq Reach(n)
         /\ Reach(n) = {n} \union UNION {Reach(k) : k \in TheReplays!Children(n)}
<1>1. n \in Reach(n) /\ Reach(n) \subseteq FlowNodes
  BY DEF Reach
<1>2. ASSUME NEW m \in FlowNodes, NEW x \in Reach(m), NEW k \in TheReplays!Children(x) PROVE k \in Reach(m)
  BY <1>2, Tree DEF Reach
<1>3. ASSUME NEW k \in TheReplays!Children(n), NEW m \in Reach(k) PROVE m \in Reach(n)
  <2>1. k \in FlowNodes
    BY Tree
  <2>2. ASSUME NEW S \in SUBSET FlowNodes, n \in S, \A x \in S : TheReplays!Children(x) \subseteq S PROVE m \in S
    BY <2>2, <1>3 DEF Reach
  <2> QED BY <2>1, <2>2 DEF Reach
<1>4. ASSUME NEW m \in Reach(n), m # n PROVE m \in UNION {Reach(k) : k \in TheReplays!Children(n)}
  <2> DEFINE S == {n} \union UNION {Reach(k) : k \in TheReplays!Children(n)}
  <2>1. S \in SUBSET FlowNodes /\ n \in S
    BY Tree DEF Reach
  <2>2. ASSUME NEW x \in S PROVE TheReplays!Children(x) \subseteq S
    <3>1. CASE x = n
      BY <3>1, Tree DEF Reach
    <3>2. CASE \E k \in TheReplays!Children(n) : x \in Reach(k)
      BY <3>2, <1>2, Tree
    <3> QED BY <3>1, <3>2
  <2>3. m \in S
    BY <2>1, <2>2 DEF Reach
  <2> QED BY <1>4, <2>3
<1> QED BY <1>1, <1>2, <1>3, <1>4

LEMMA BelowIs == TheReplays!Below \in [FlowNodes -> SUBSET FlowNodes]
  /\ \A n \in FlowNodes : TheReplays!Below[n] = Reach(n)
<1> DEFINE Fits(f) == f = [n \in FlowNodes |-> {n} \union UNION {f[k] : k \in TheReplays!Children(n)}]
<1>1. PICK it : it = CHOOSE f : Fits(f)
  OBVIOUS
<1>2. Fits([n \in FlowNodes |-> Reach(n)])
  <2>1. \A n \in FlowNodes : TheReplays!Children(n) \subseteq FlowNodes
    BY Tree
  <2>2. PICK f : f = [n \in FlowNodes |-> Reach(n)]
    OBVIOUS
  <2>3. \A n \in FlowNodes : {f[k] : k \in TheReplays!Children(n)} = {Reach(k) : k \in TheReplays!Children(n)}
    BY <2>1, <2>2
  <2>4. \A n \in FlowNodes : f[n] = {n} \union UNION {f[k] : k \in TheReplays!Children(n)}
    BY <2>2, <2>3, ReachIs
  <2> QED BY <2>2, <2>4
<1>3. Fits(it)
  <2> HIDE DEF Fits
  <2> QED BY <1>1, <1>2, Zenon
<1>4. TheReplays!Below = [n \in FlowNodes |-> it[n]]
  BY <1>1 DEF TheReplays!Below
<1>5. \A n \in FlowNodes : TheReplays!Below[n] = {n} \union UNION {TheReplays!Below[k] : k \in TheReplays!Children(n)}
  <2>1. ASSUME NEW n \in FlowNodes PROVE it[n] = {n} \union UNION {it[k] : k \in TheReplays!Children(n)}
    BY <1>3
  <2>2. ASSUME NEW n \in FlowNodes PROVE {it[k] : k \in TheReplays!Children(n)} = {TheReplays!Below[k] : k \in TheReplays!Children(n)}
    BY <1>4, Tree
  <2> QED BY <1>4, <2>1, <2>2
<1>6. ASSUME NEW n \in FlowNodes, TheReplays!Below[n] # Reach(n) PROVE FALSE
  <2>1. PICK m \in {x \in FlowNodes : TheReplays!Below[x] # Reach(x)} : \A k \in {x \in FlowNodes : TheReplays!Below[x] # Reach(x)} : k <= m
    BY <1>6, LastOfThem
  <2>2. \A k \in TheReplays!Children(m) : TheReplays!Below[k] = Reach(k)
    <3>1. m \in Nat /\ \A k \in TheReplays!Children(m) : k \in FlowNodes /\ k \in Nat /\ m < k
      BY <2>1, Tree
    <3> QED BY <2>1, <3>1
  <2>3. {TheReplays!Below[k] : k \in TheReplays!Children(m)} = {Reach(k) : k \in TheReplays!Children(m)}
    BY <2>2
  <2> QED BY <1>5, <2>1, <2>3, ReachIs
<1> QED BY <1>4, <1>6, ReachIs

LEMMA Subtree ==
  ASSUME NEW n \in FlowNodes
  PROVE  /\ n \in TheReplays!Below[n] /\ TheReplays!Below[n] \subseteq FlowNodes
         /\ \A m \in TheReplays!Below[n] : n <= m /\ TheReplays!Children(m) \subseteq TheReplays!Below[n]
              /\ TheReplays!Below[m] \subseteq TheReplays!Below[n]
         /\ \A m \in TheReplays!Below[n] \ {n} : \E p \in TheReplays!Below[n] : m \in TheReplays!Children(p)
         /\ \A m \in TheReplays!Below[n] \ {n} : \E k \in TheReplays!Children(n) : m \in TheReplays!Below[k]
<1>1. n \in TheReplays!Below[n] /\ TheReplays!Below[n] \subseteq FlowNodes
        /\ \A m \in TheReplays!Below[n] : TheReplays!Children(m) \subseteq TheReplays!Below[n]
  BY BelowIs, ReachIs
<1>2. ASSUME NEW m \in TheReplays!Below[n] PROVE TheReplays!Below[m] \subseteq TheReplays!Below[n]
  <2>1. m \in FlowNodes /\ TheReplays!Below[m] = Reach(m) /\ TheReplays!Below[n] \in SUBSET FlowNodes
    BY <1>1, BelowIs
  <2> QED BY <1>1, <2>1 DEF Reach
<1>3. ASSUME NEW S \in SUBSET FlowNodes, n \in S, \A x \in S : TheReplays!Children(x) \subseteq S
               PROVE TheReplays!Below[n] \subseteq S
  BY <1>3, BelowIs DEF Reach
<1>4. TheReplays!Below[n] \subseteq {m \in FlowNodes : n <= m}
  <2>1. \A m \in FlowNodes : m \in Nat /\ \A k \in TheReplays!Children(m) : k \in FlowNodes /\ k \in Nat /\ m < k
    BY Tree
  <2>2. PICK S : S = {m \in FlowNodes : n <= m}
    OBVIOUS
  <2>3. \A x \in S : TheReplays!Children(x) \subseteq S
    BY <2>1, <2>2
  <2> QED BY <1>3, <2>1, <2>2, <2>3
<1>5. ASSUME NEW m \in TheReplays!Below[n] \ {n}, \A p \in TheReplays!Below[n] : m \notin TheReplays!Children(p)
               PROVE FALSE
  <2>1. PICK S : S = TheReplays!Below[n] \ {m}
    OBVIOUS
  <2>2. S \in SUBSET FlowNodes /\ n \in S /\ \A x \in S : TheReplays!Children(x) \subseteq S
    BY <1>1, <1>5, <2>1
  <2> QED BY <1>3, <1>5, <2>1, <2>2
<1>6. TheReplays!Below[n] = {n} \union UNION {TheReplays!Below[k] : k \in TheReplays!Children(n)}
  <2>1. {TheReplays!Below[k] : k \in TheReplays!Children(n)} = {Reach(k) : k \in TheReplays!Children(n)}
    BY BelowIs, Tree
  <2> QED BY <2>1, BelowIs, ReachIs
<1> QED BY <1>1, <1>2, <1>4, <1>5, <1>6

(* Of two nodes that hold a third, the later lies below the earlier. *)
LEMMA Chain ==
  ASSUME NEW a \in FlowNodes, NEW b \in FlowNodes, NEW s \in FlowNodes, TheReplays!Holds(a, s),
           TheReplays!Holds(b, s), a <= b
  PROVE  TheReplays!Holds(a, b)
<1> DEFINE Bad == {n \in FlowNodes : n \in TheReplays!Below[a] /\ n \in TheReplays!Below[b]}
<1>1. Bad \in SUBSET Nat /\ s \in Bad
  BY Tree DEF TheReplays!Holds
<1>2. PICK m \in Bad : \A k \in Bad : m <= k
  BY <1>1, FirstOf
<1>3. CASE m = b
  BY <1>2, <1>3 DEF TheReplays!Holds
<1>4. CASE m # b
  <2>1. m # a
    BY <1>2, <1>4, Subtree, Tree
  <2>2. PICK p \in TheReplays!Below[a] : m \in TheReplays!Children(p)
    BY <1>2, <2>1, Subtree
  <2>3. PICK q \in TheReplays!Below[b] : m \in TheReplays!Children(q)
    BY <1>2, <1>4, Subtree
  <2>4. p \in FlowNodes /\ q \in FlowNodes
    BY <2>2, <2>3, Subtree
  <2>5. p = q /\ p < m
    BY <2>2, <2>3, <2>4, Tree
  <2> QED BY <1>2, <2>2, <2>3, <2>4, <2>5, Tree
<1> QED BY <1>3, <1>4

LEMMA OneChild ==
  ASSUME NEW p \in FlowNodes, NEW k \in TheReplays!Children(p), NEW l \in TheReplays!Children(p),
           NEW s \in FlowNodes,
         TheReplays!Holds(k, s), TheReplays!Holds(l, s)
  PROVE  k = l
<1>1. k \in FlowNodes /\ l \in FlowNodes /\ p < k /\ p < l /\ FlowNodes \subseteq Nat
  BY Tree
<1>2. ASSUME NEW x \in TheReplays!Children(p), NEW y \in TheReplays!Children(p), x < y, TheReplays!Holds(x, y)
               PROVE FALSE
  <2>1. x \in FlowNodes /\ y \in FlowNodes /\ p < x
    BY Tree
  <2>2. PICK q \in TheReplays!Below[x] : y \in TheReplays!Children(q)
    BY <1>2, <2>1, <1>1, Subtree DEF TheReplays!Holds
  <2>3. q \in FlowNodes /\ x <= q
    BY <2>1, <2>2, Subtree
  <2>4. q = p
    BY <2>2, <2>3, Tree
  <2> QED BY <1>1, <2>1, <2>3, <2>4
<1>3. CASE k < l
  BY <1>1, <1>2, <1>3, Chain
<1>4. CASE l < k
  BY <1>1, <1>2, <1>4, Chain
<1> QED BY <1>1, <1>3, <1>4

LEMMA SplitIs ==
  ASSUME NEW p \in FlowNodes, NEW s \in FlowNodes, NEW g \in FlowNodes, TheReplays!Holds(p, s),
           TheReplays!Holds(p, g),
         \A k \in TheReplays!Children(p) : ~(TheReplays!Holds(k, s) /\ TheReplays!Holds(k, g))
  PROVE  TheReplays!Split(s, g) = p
<1>1. PICK q : q = TheReplays!Split(s, g)
  OBVIOUS
<1>2. /\ q \in FlowNodes /\ TheReplays!Holds(q, s) /\ TheReplays!Holds(q, g)
      /\ \A k \in TheReplays!Children(q) : ~(TheReplays!Holds(k, s) /\ TheReplays!Holds(k, g))
  BY <1>1 DEF TheReplays!Split
<1>3. ASSUME NEW x \in FlowNodes, NEW y \in FlowNodes, x < y, TheReplays!Holds(x, s), TheReplays!Holds(y, s),
               TheReplays!Holds(y, g)
      PROVE  \E k \in TheReplays!Children(x) : TheReplays!Holds(k, s) /\ TheReplays!Holds(k, g)
  <2>0. x \in Nat /\ y \in Nat /\ x <= y /\ x # y
    BY <1>3, Tree
  <2>1. y \in TheReplays!Below[x] \ {x}
    BY <1>3, <2>0, Chain DEF TheReplays!Holds
  <2>2. PICK k \in TheReplays!Children(x) : y \in TheReplays!Below[k]
    BY <2>1, Subtree
  <2> QED BY <1>3, <2>2, Subtree, Tree DEF TheReplays!Holds
<1>4. ~(p < q)
  BY <1>2, <1>3
<1>5. ~(q < p)
  BY <1>2, <1>3
<1> QED BY <1>1, <1>2, <1>4, <1>5, Tree

LEMMA IndexIs ==
  ASSUME NEW p \in FlowNodes, NEW i \in DOMAIN KidsAt[p], NEW s \in FlowNodes, TheReplays!Holds(KidsAt[p][i], s)
  PROVE  TheReplays!IndexOf(p, s) = i
<1>1. \A j \in DOMAIN KidsAt[p] : KidsAt[p][j] \in TheReplays!Children(p)
  BY DEF TheReplays!Children, TheReplays!Range
<1>2. ASSUME NEW j \in DOMAIN KidsAt[p], TheReplays!Holds(KidsAt[p][j], s) PROVE j = i
  <2>1. KidsAt[p][j] = KidsAt[p][i]
    BY <1>1, <1>2, OneChild
  <2> QED BY <2>1, StepsFit DEF StepsAssumption
<1> QED BY <1>2, Zenon DEF TheReplays!IndexOf

LEMMA ParentIs ==
  ASSUME NEW p \in FlowNodes, NEW k \in TheReplays!Children(p)
  PROVE  k \in FlowNodes \ FlowRoots /\ TheReplays!Parent[k] = p
<1>1. k \in FlowNodes \ FlowRoots /\ \A q \in FlowNodes : k \in TheReplays!Children(q) => q = p
  BY Tree
<1> QED BY <1>1, Zenon DEF TheReplays!Parent

----------------------------------------------------------------------------
(* What a run in which nothing failed has come to. *)

Foretold(s) == TheReplays!replay_gates(s) # {}

(* A checkpoint around s has its result. *)
Kept(s) == \E c \in TheReplays!Below[rp_root] \ {s} : KindAt[c] = "checkpoint" /\ c \in rp_store
  /\ TheReplays!Holds(c, s)

PassTypes ==
  /\ rp_root \in FlowRoots
  /\ rp_arm \in [{n \in FlowNodes : KindAt[n] = "branch" /\ TheReplays!Holds(rp_root, n)} -> {1, 2}]
  /\ rp_pass \in Nat \ {0}
  /\ rp_status \in [TheReplays!Below[rp_root] -> {"idle", "running", "ok", "suspended"}]
  /\ rp_outcome = "suspended" => rp_status[rp_root] = "suspended"

(* How far a node is, against its children. *)
NodeInv(p) ==
  /\ \A k \in TheReplays!Children(p) :
       /\ rp_status[k] # "idle" => rp_status[p] # "idle"
       /\ rp_status[k] = "running" => rp_status[p] = "running"
       /\ rp_status[p] = "ok" => rp_status[k] \in {"idle", "ok"}
       /\ KindAt[p] = "branch" /\ rp_status[k] # "idle" => k = KidsAt[p][rp_arm[p]]
  /\ KindAt[p] = "sequence" =>
       \A i, j \in DOMAIN KidsAt[p] : i < j /\ rp_status[KidsAt[p][j]] # "idle" => rp_status[KidsAt[p][i]] = "ok"
  /\ rp_status[p] = "suspended" /\ KindAt[p] # "suspend"
       => \E k \in TheReplays!Children(p) : rp_status[k] = "suspended"
  /\ KindAt[p] = "checkpoint" => (rp_status[p] = "running" => p \notin rp_store)
       /\ (rp_status[p] = "ok" => p \in rp_store)

Dispatched == {"step", "sequence", "parallel", "branch"}

(* What started in an earlier pass is foretold, or it will not start again. *)
StartInv ==
  /\ rp_started \subseteq TheReplays!Below[rp_root] \X (1 .. rp_pass)
  /\ rp_again \subseteq TheReplays!Below[rp_root]
  /\ \A s \in TheReplays!Below[rp_root], q \in 1 .. rp_pass : <<s, q>> \in rp_started =>
       /\ KindAt[s] \in Dispatched
       /\ IF q = rp_pass THEN rp_status[s] # "idle" ELSE Foretold(s) \/ Kept(s)
  /\ \A s \in rp_again : Foretold(s)

RunsOn == PassTypes /\ (\A p \in TheReplays!Below[rp_root] : NodeInv(p)) /\ StartInv

PassInv == rp_mishap \in BOOLEAN /\ (~rp_mishap => RunsOn)

(* The nodes around one that started have started, those around one that   *)
(* runs run, and below one that returned everything that started returned. *)
LEMMA Upward ==
  ASSUME RunsOn, NEW a \in TheReplays!Below[rp_root], NEW s \in TheReplays!Below[a]
  PROVE  /\ s \in TheReplays!Below[rp_root]
         /\ rp_status[s] # "idle" => rp_status[a] # "idle"
         /\ rp_status[s] = "running" => rp_status[a] = "running"
         /\ rp_status[a] = "ok" => rp_status[s] \in {"idle", "ok"}
<1> DEFINE Fine(m) == /\ rp_status[m] # "idle" => rp_status[a] # "idle"
                      /\ rp_status[m] = "running" => rp_status[a] = "running"
                      /\ rp_status[a] = "ok" => rp_status[m] \in {"idle", "ok"}
           Bad == {m \in TheReplays!Below[a] : ~Fine(m)}
<1>1. rp_root \in FlowNodes /\ a \in FlowNodes /\ TheReplays!Below[a] \subseteq TheReplays!Below[rp_root]
        /\ TheReplays!Below[a] \subseteq FlowNodes
  BY Tree, Subtree DEF RunsOn, PassTypes
<1>2. SUFFICES ASSUME Bad # {} PROVE FALSE
  BY <1>1
<1>3. Bad \in SUBSET Nat
  BY <1>1, Tree
<1>4. PICK m \in Bad : \A k \in Bad : m <= k
  BY <1>2, <1>3, FirstOf
<1>5. m \in TheReplays!Below[a] \ {a}
  BY <1>4
<1>6. PICK p \in TheReplays!Below[a] : m \in TheReplays!Children(p)
  BY <1>1, <1>5, Subtree
<1>7. p \in Nat /\ m \in Nat /\ p < m
  BY <1>1, <1>6, Tree
<1>8. Fine(p)
  BY <1>4, <1>6, <1>7
<1>9. /\ rp_status[m] # "idle" => rp_status[p] # "idle"
      /\ rp_status[m] = "running" => rp_status[p] = "running"
      /\ rp_status[p] = "ok" => rp_status[m] \in {"idle", "ok"}
  BY <1>1, <1>6 DEF RunsOn, NodeInv
<1>10. rp_status[p] \in {"idle", "running", "ok", "suspended"} /\ rp_status[m] \in {"idle", "running", "ok",
         "suspended"}
  BY <1>1, <1>4, <1>6 DEF RunsOn, PassTypes
<1> QED BY <1>4, <1>8, <1>9, <1>10

(* Below a node that is suspended there is a gate.                         *)
LEMMA GateBelow ==
  ASSUME RunsOn, NEW a \in TheReplays!Below[rp_root], rp_status[a] = "suspended"
  PROVE  \E g \in TheReplays!Below[a] : KindAt[g] = "suspend"
<1> DEFINE Stops == {d \in TheReplays!Below[a] : rp_status[d] = "suspended"}
<1>1. rp_root \in FlowNodes /\ a \in FlowNodes /\ a \in TheReplays!Below[a]
        /\ TheReplays!Below[a] \subseteq TheReplays!Below[rp_root] /\ TheReplays!Below[a] \subseteq FlowNodes
  BY Tree, Subtree DEF RunsOn, PassTypes
<1>2. PICK g \in Stops : \A d \in Stops : d <= g
  BY <1>1, LastOfThem
<1>3. ASSUME KindAt[g] # "suspend" PROVE FALSE
  <2>1. PICK k \in TheReplays!Children(g) : rp_status[k] = "suspended"
    BY <1>1, <1>2, <1>3 DEF RunsOn, NodeInv
  <2>2. k \in Stops
    BY <1>1, <1>2, <2>1, Subtree
  <2>3. g < k /\ g \in Nat /\ k \in Nat
    BY <1>1, <1>2, <2>1, Tree
  <2> QED BY <1>2, <2>2, <2>3
<1> QED BY <1>2, <1>3

(* A gate at which s can run before is one the analysis tells of.          *)
LEMMA Tells ==
  ASSUME NEW s, NEW g \in TheReplays!Below[rp_root], KindAt[g] = "suspend", TheReplays!runs_before(s, g)
  PROVE  Foretold(s)
BY DEF Foretold, TheReplays!replay_gates

(* When a run waits, each marked step that started is told of, or a        *)
(* checkpoint has its result.                                              *)
LEMMA Stopped ==
  ASSUME RunsOn, rp_status[rp_root] = "suspended",
         NEW s \in TheReplays!Below[rp_root], rp_status[s] # "idle", KindAt[s] \in Dispatched
  PROVE  Foretold(s) \/ Kept(s)
<1> DEFINE Stops == {a \in TheReplays!Below[rp_root] : TheReplays!Holds(a, s) /\ rp_status[a] = "suspended"}
<1>1. rp_root \in FlowNodes /\ rp_root \in TheReplays!Below[rp_root]
        /\ TheReplays!Below[rp_root] \subseteq FlowNodes /\ s \in FlowNodes
  BY Tree, Subtree DEF RunsOn, PassTypes
<1>2. PICK a \in Stops : \A b \in Stops : b <= a
  <2>1. rp_root \in Stops
    BY <1>1 DEF TheReplays!Holds
  <2> QED BY <1>1, <2>1, LastOfThem
<1>3. a \in FlowNodes /\ s \in TheReplays!Below[a] /\ a <= s /\ a \in Nat /\ s \in Nat
        /\ TheReplays!Below[a] \subseteq TheReplays!Below[rp_root]
  BY <1>1, <1>2, Subtree, Tree DEF TheReplays!Holds
<1>4. CASE a = s
  <2>1. PICK g \in TheReplays!Below[s] : KindAt[g] = "suspend"
    BY <1>2, <1>4, GateBelow
  <2>2. g # s
    BY <2>1 DEF Dispatched
  <2>3. \A k \in TheReplays!Children(s) : ~TheReplays!Holds(k, s)
    <3>1. ASSUME NEW k \in TheReplays!Children(s), s \in TheReplays!Below[k] PROVE FALSE
      <4>1. k \in FlowNodes /\ k \in Nat /\ s < k
        BY <1>1, <1>3, Tree
      <4>2. k <= s
        BY <4>1, <3>1, Subtree
      <4> QED BY <1>3, <4>1, <4>2
    <3> QED BY <3>1 DEF TheReplays!Holds
  <2>4. TheReplays!Split(s, g) = s
    <3>1. g \in FlowNodes /\ TheReplays!Holds(s, s) /\ TheReplays!Holds(s, g)
      BY <1>1, <2>1, Subtree DEF TheReplays!Holds
    <3> QED BY <1>1, <2>3, <3>1, SplitIs
  <2>5. TheReplays!runs_before(s, g)
    BY <2>2, <2>4 DEF TheReplays!runs_before
  <2> QED BY <1>3, <1>4, <2>1, <2>5, Tells
<1>5. CASE a # s
  <2>1. PICK k \in TheReplays!Children(a) : s \in TheReplays!Below[k]
    BY <1>3, <1>5, Subtree
  <2>2. k \in FlowNodes /\ k \in TheReplays!Below[rp_root] /\ k \in Nat /\ a < k
    BY <1>1, <1>2, <1>3, <2>1, Subtree, Tree
  <2>3. rp_status[k] # "suspended"
    BY <1>2, <1>3, <2>1, <2>2 DEF TheReplays!Holds
  <2>4. rp_status[k] # "idle"
    BY <2>1, <2>2, Upward
  <2>5. rp_status[k] = "ok"
    BY <1>2, <2>1, <2>2, <2>3, <2>4 DEF RunsOn, PassTypes, NodeInv
  <2>6. CASE \E c \in TheReplays!Below[k] : KindAt[c] = "checkpoint" /\ TheReplays!Holds(c, s)
    <3>1. PICK c \in TheReplays!Below[k] : KindAt[c] = "checkpoint" /\ TheReplays!Holds(c, s)
      BY <2>6
    <3>2. c \in TheReplays!Below[rp_root] /\ rp_status[c] \in {"idle", "ok"}
      BY <2>2, <2>5, <3>1, Upward
    <3>3. rp_status[c] # "idle"
      BY <3>1, <3>2, Upward DEF TheReplays!Holds
    <3>4. c \in rp_store
      BY <3>1, <3>2, <3>3 DEF RunsOn, NodeInv
    <3>5. c # s
      BY <3>1 DEF Dispatched
    <3> QED BY <3>1, <3>2, <3>4, <3>5 DEF Kept
  <2>7. CASE ~ \E c \in TheReplays!Below[k] : KindAt[c] = "checkpoint" /\ TheReplays!Holds(c, s)
    <3>1. KindAt[a] # "suspend" /\ KindAt[a] # "step" /\ KindAt[a] \in StepKinds
      <4>1. KidsAt[a] # <<>>
        BY <2>1 DEF TheReplays!Children, TheReplays!Range
      <4> QED BY <1>3, <4>1, StepsFit DEF StepsAssumption
    <3>2. PICK d \in TheReplays!Children(a) : rp_status[d] = "suspended"
      BY <1>2, <3>1 DEF RunsOn, NodeInv
    <3>3. d # k /\ d \in TheReplays!Below[rp_root] /\ d \in FlowNodes
            /\ TheReplays!Below[d] \subseteq TheReplays!Below[rp_root]
      BY <1>1, <1>2, <1>3, <2>5, <3>2, Subtree
    <3>4. PICK g \in TheReplays!Below[d] : KindAt[g] = "suspend"
      BY <3>2, <3>3, GateBelow
    <3>5. g \in TheReplays!Below[rp_root] /\ g \in FlowNodes
      BY <1>1, <3>3, <3>4
    <3>6. PICK i \in DOMAIN KidsAt[a] : k = KidsAt[a][i]
      BY <2>1 DEF TheReplays!Children, TheReplays!Range
    <3>7. PICK j \in DOMAIN KidsAt[a] : d = KidsAt[a][j]
      BY <3>2 DEF TheReplays!Children, TheReplays!Range
    <3>8. TheReplays!Holds(a, s) /\ TheReplays!Holds(a, g)
      BY <1>3, <3>2, <3>4, Subtree DEF TheReplays!Holds
    <3>9. ASSUME NEW l \in TheReplays!Children(a), TheReplays!Holds(l, s), TheReplays!Holds(l, g) PROVE FALSE
      <4>1. l = k
        BY <1>1, <1>3, <2>1, <3>9, OneChild DEF TheReplays!Holds
      <4>2. l = d
        BY <1>3, <3>2, <3>4, <3>5, <3>9, OneChild DEF TheReplays!Holds
      <4> QED BY <3>3, <4>1, <4>2
    <3>10. TheReplays!Split(s, g) = a
      BY <1>1, <1>3, <3>5, <3>8, <3>9, SplitIs
    <3>11. TheReplays!IndexOf(a, s) = i /\ TheReplays!IndexOf(a, g) = j
      BY <1>1, <1>3, <2>1, <3>4, <3>5, <3>6, <3>7, IndexIs DEF TheReplays!Holds
    <3>12. i \in Nat /\ j \in Nat /\ i # j
      BY <1>3, <3>3, <3>6, <3>7, StepsFit DEF StepsAssumption
    <3>13. KindAt[a] # "branch"
      BY <1>2, <2>1, <2>4, <3>2, <3>3 DEF RunsOn, NodeInv
    <3>14. KindAt[a] # "checkpoint"
      <4> SUFFICES ASSUME KindAt[a] = "checkpoint" PROVE FALSE
        OBVIOUS
      <4>1. Len(KidsAt[a]) = 1 /\ KidsAt[a] \in Seq(FlowNodes)
        BY <1>3, StepsFit DEF StepsAssumption
      <4>2. DOMAIN KidsAt[a] = 1 .. 1
        BY <4>1
      <4> QED BY <3>6, <3>7, <3>12, <4>2
    <3>15. KindAt[a] = "sequence" => i < j
      <4> SUFFICES ASSUME KindAt[a] = "sequence", j < i PROVE FALSE
        BY <3>12
      <4>1. rp_status[d] = "ok"
        BY <1>2, <2>4, <3>6, <3>7 DEF RunsOn, NodeInv
      <4> QED BY <3>2, <4>1
    <3>16. TheReplays!comes_first(KindAt[a], TheReplays!IndexOf(a, s), TheReplays!IndexOf(a, g))
      BY <3>1, <3>11, <3>13, <3>14, <3>15 DEF TheReplays!comes_first, StepKinds
    <3>17. ASSUME NEW c \in TheReplays!Below[a] \ {a, s}, KindAt[c] = "checkpoint", TheReplays!Holds(c, s)
                    PROVE FALSE
      <4>1. PICK l \in TheReplays!Children(a) : c \in TheReplays!Below[l]
        BY <1>3, <3>17, Subtree
      <4>2. l \in FlowNodes /\ TheReplays!Holds(l, s)
        BY <1>3, <3>17, <4>1, Subtree, Tree DEF TheReplays!Holds
      <4>3. l = k
        BY <1>1, <1>3, <2>1, <4>1, <4>2, OneChild DEF TheReplays!Holds
      <4> QED BY <2>7, <3>17, <4>1, <4>3
    <3>18. TheReplays!runs_before(s, g)
      BY <3>1, <3>4, <3>10, <3>16, <3>17 DEF TheReplays!runs_before
    <3> QED BY <3>4, <3>5, <3>18, Tells
  <2> QED BY <2>6, <2>7
<1> QED BY <1>4, <1>5

----------------------------------------------------------------------------
(* Each step keeps what a run has come to. *)

LEMMA MayStartIs ==
  ASSUME rp_root \in FlowRoots, NEW p \in FlowNodes, NEW k \in TheReplays!Children(p), TheReplays!MayStart(k)
  PROVE  /\ rp_status[p] = "running"
         /\ KindAt[p] = "sequence" =>
              \A i, j \in DOMAIN KidsAt[p] : i < j /\ KidsAt[p][j] = k => rp_status[KidsAt[p][i]] = "ok"
         /\ KindAt[p] = "branch" => k = KidsAt[p][rp_arm[p]]
<1>1. k \in FlowNodes /\ k # rp_root /\ TheReplays!Parent[k] = p
  BY ParentIs
<1>2. /\ rp_status[p] = "running"
      /\ KindAt[p] = "sequence" => \A i \in 1 .. TheReplays!IndexOf(p, k) - 1 : rp_status[KidsAt[p][i]] = "ok"
      /\ KindAt[p] = "branch" => k = KidsAt[p][rp_arm[p]]
  BY <1>1 DEF TheReplays!MayStart
<1>3. ASSUME NEW i \in DOMAIN KidsAt[p], NEW j \in DOMAIN KidsAt[p], i < j, KidsAt[p][j] = k
      PROVE  i \in 1 .. TheReplays!IndexOf(p, k) - 1
  <2>1. TheReplays!Holds(KidsAt[p][j], k)
    BY <1>1, <1>3, Subtree DEF TheReplays!Holds
  <2>2. TheReplays!IndexOf(p, k) = j
    BY <1>1, <2>1, IndexIs
  <2>3. KidsAt[p] \in Seq(FlowNodes)
    BY StepsFit DEF StepsAssumption
  <2>4. i \in Nat /\ j \in Nat /\ i >= 1
    BY <2>3
  <2> QED BY <1>3, <2>2, <2>4
<1> QED BY <1>2, <1>3

LEMMA NodeStarts ==
  ASSUME RunsOn, NEW n \in TheReplays!Below[rp_root], rp_status[n] = "idle", TheReplays!MayStart(n),
           NEW v \in {"running", "ok", "suspended"},
         rp_status' = [rp_status EXCEPT ![n] = v], UNCHANGED <<rp_root, rp_arm, rp_store>>,
         v = "suspended" => KindAt[n] = "suspend",
         KindAt[n] = "checkpoint" => (v = "running" => n \notin rp_store) /\ (v = "ok" => n \in rp_store)
  PROVE  rp_status' \in [TheReplays!Below[rp_root] -> {"idle", "running", "ok", "suspended"}]
           /\ \A p \in TheReplays!Below[rp_root] : NodeInv(p)'
<1>1. rp_root \in FlowNodes /\ TheReplays!Below[rp_root] \subseteq FlowNodes
        /\ rp_status \in [TheReplays!Below[rp_root] -> {"idle", "running", "ok", "suspended"}]
  BY Tree, Subtree DEF RunsOn, PassTypes
<1>2. ASSUME NEW p \in TheReplays!Below[rp_root] PROVE NodeInv(p)'
  <2>1. p \in FlowNodes /\ TheReplays!Children(p) \subseteq TheReplays!Below[rp_root]
          /\ p \notin TheReplays!Children(p) /\ NodeInv(p)
    <3>1. \A k \in TheReplays!Children(p) : p < k /\ p \in Nat
      BY <1>1, <1>2, Tree
    <3> QED BY <1>1, <1>2, <3>1, Subtree DEF RunsOn
  <2>2. \A m \in TheReplays!Below[rp_root] : rp_status'[m] = IF m = n THEN v ELSE rp_status[m]
    BY <1>1
  <2>3. \A i \in DOMAIN KidsAt[p] : KidsAt[p][i] \in TheReplays!Children(p)
    BY DEF TheReplays!Children, TheReplays!Range
  <2>4. ASSUME NEW k \in TheReplays!Children(p)
        PROVE  /\ rp_status'[k] # "idle" => rp_status'[p] # "idle"
               /\ rp_status'[k] = "running" => rp_status'[p] = "running"
               /\ rp_status'[p] = "ok" => rp_status'[k] \in {"idle", "ok"}
               /\ KindAt[p] = "branch" /\ rp_status'[k] # "idle" => k = KidsAt[p][rp_arm[p]]
    <3>1. CASE k = n
      <4>1. rp_status[p] = "running" /\ KindAt[p] = "branch" => k = KidsAt[p][rp_arm[p]]
        BY <2>1, <2>4, <3>1, MayStartIs DEF RunsOn, PassTypes
      <4>2. rp_status[p] = "running"
        BY <2>1, <2>4, <3>1, MayStartIs DEF RunsOn, PassTypes
      <4> QED BY <1>1, <2>1, <2>2, <2>4, <3>1, <4>1, <4>2
    <3>2. CASE p = n
      BY <1>1, <2>1, <2>2, <2>4, <3>2 DEF NodeInv
    <3>3. CASE k # n /\ p # n
      BY <1>1, <2>1, <2>2, <2>4, <3>3 DEF NodeInv
    <3> QED BY <3>1, <3>2, <3>3
  <2>5. ASSUME KindAt[p] = "sequence", NEW i \in DOMAIN KidsAt[p], NEW j \in DOMAIN KidsAt[p], i < j,
               rp_status'[KidsAt[p][j]] # "idle"
        PROVE  rp_status'[KidsAt[p][i]] = "ok"
    <3>1. CASE KidsAt[p][j] = n
      <4>1. rp_status[KidsAt[p][i]] = "ok"
        BY <2>1, <2>3, <2>5, <3>1, MayStartIs DEF RunsOn, PassTypes
      <4> QED BY <2>1, <2>2, <2>3, <4>1
    <3>2. CASE KidsAt[p][j] # n
      <4>1. rp_status[KidsAt[p][i]] = "ok"
        BY <2>1, <2>2, <2>3, <2>5, <3>2 DEF NodeInv
      <4> QED BY <2>1, <2>2, <2>3, <4>1
    <3> QED BY <3>1, <3>2
  <2>6. rp_status'[p] = "suspended" /\ KindAt[p] # "suspend"
          => \E k \in TheReplays!Children(p) : rp_status'[k] = "suspended"
    <3> SUFFICES ASSUME rp_status'[p] = "suspended", KindAt[p] # "suspend"
      PROVE \E k \in TheReplays!Children(p) : rp_status'[k] = "suspended"
      OBVIOUS
    <3>1. p # n /\ rp_status[p] = "suspended"
      BY <2>2
    <3>2. PICK k \in TheReplays!Children(p) : rp_status[k] = "suspended"
      BY <2>1, <3>1 DEF NodeInv
    <3> QED BY <2>1, <2>2, <3>2
  <2>7. KindAt[p] = "checkpoint" => (rp_status'[p] = "running" => p \notin rp_store)
          /\ (rp_status'[p] = "ok" => p \in rp_store)
    BY <2>1, <2>2 DEF NodeInv
  <2> QED BY <2>4, <2>5, <2>6, <2>7 DEF NodeInv
<1> QED BY <1>1, <1>2

LEMMA NodeEnds ==
  ASSUME RunsOn, NEW n \in TheReplays!Below[rp_root], rp_status[n] = "running", NEW v \in {"ok", "suspended"},
         rp_status' = [rp_status EXCEPT ![n] = v], UNCHANGED <<rp_root, rp_arm>>,
         rp_store' \in {rp_store, rp_store \union {n}},
         \A k \in TheReplays!Children(n) : rp_status[k] # "running"
           /\ (v = "ok" => rp_status[k] \in {"idle", "ok"}),
         v = "suspended" => \E k \in TheReplays!Children(n) : rp_status[k] = "suspended",
         KindAt[n] = "checkpoint" /\ v = "ok" => n \in rp_store'
  PROVE  rp_status' \in [TheReplays!Below[rp_root] -> {"idle", "running", "ok", "suspended"}]
           /\ \A p \in TheReplays!Below[rp_root] : NodeInv(p)'
<1>1. rp_root \in FlowNodes /\ TheReplays!Below[rp_root] \subseteq FlowNodes
        /\ rp_status \in [TheReplays!Below[rp_root] -> {"idle", "running", "ok", "suspended"}]
  BY Tree, Subtree DEF RunsOn, PassTypes
<1>2. ASSUME NEW p \in TheReplays!Below[rp_root] PROVE NodeInv(p)'
  <2>1. p \in FlowNodes /\ TheReplays!Children(p) \subseteq TheReplays!Below[rp_root]
          /\ p \notin TheReplays!Children(p) /\ NodeInv(p)
    <3>1. \A k \in TheReplays!Children(p) : p < k /\ p \in Nat
      BY <1>1, <1>2, Tree
    <3> QED BY <1>1, <1>2, <3>1, Subtree DEF RunsOn
  <2>2. \A m \in TheReplays!Below[rp_root] : rp_status'[m] = IF m = n THEN v ELSE rp_status[m]
    BY <1>1
  <2>3. \A i \in DOMAIN KidsAt[p] : KidsAt[p][i] \in TheReplays!Children(p)
    BY DEF TheReplays!Children, TheReplays!Range
  <2>4. ASSUME NEW k \in TheReplays!Children(p)
        PROVE  /\ rp_status'[k] # "idle" => rp_status'[p] # "idle"
               /\ rp_status'[k] = "running" => rp_status'[p] = "running"
               /\ rp_status'[p] = "ok" => rp_status'[k] \in {"idle", "ok"}
               /\ KindAt[p] = "branch" /\ rp_status'[k] # "idle" => k = KidsAt[p][rp_arm[p]]
    <3>1. CASE k = n
      BY <1>1, <2>1, <2>2, <2>4, <3>1 DEF NodeInv
    <3>2. CASE p = n
      BY <1>1, <2>1, <2>2, <2>4, <3>2 DEF NodeInv
    <3>3. CASE k # n /\ p # n
      BY <1>1, <2>1, <2>2, <2>4, <3>3 DEF NodeInv
    <3> QED BY <3>1, <3>2, <3>3
  <2>5. ASSUME KindAt[p] = "sequence", NEW i \in DOMAIN KidsAt[p], NEW j \in DOMAIN KidsAt[p], i < j,
               rp_status'[KidsAt[p][j]] # "idle"
        PROVE  rp_status'[KidsAt[p][i]] = "ok"
    <3>1. rp_status[KidsAt[p][j]] # "idle"
      BY <2>1, <2>2, <2>3, <2>5
    <3>2. rp_status[KidsAt[p][i]] = "ok"
      BY <2>1, <2>5, <3>1 DEF NodeInv
    <3> QED BY <2>1, <2>2, <2>3, <3>2
  <2>6. rp_status'[p] = "suspended" /\ KindAt[p] # "suspend"
          => \E k \in TheReplays!Children(p) : rp_status'[k] = "suspended"
    <3> SUFFICES ASSUME rp_status'[p] = "suspended", KindAt[p] # "suspend"
      PROVE \E k \in TheReplays!Children(p) : rp_status'[k] = "suspended"
      OBVIOUS
    <3>1. \E k \in TheReplays!Children(p) : rp_status[k] = "suspended"
      BY <2>1, <2>2 DEF NodeInv
    <3>2. PICK k \in TheReplays!Children(p) : rp_status[k] = "suspended"
      BY <3>1
    <3> QED BY <2>1, <2>2, <3>2
  <2>7. KindAt[p] = "checkpoint" => (rp_status'[p] = "running" => p \notin rp_store')
          /\ (rp_status'[p] = "ok" => p \in rp_store')
    BY <2>1, <2>2 DEF NodeInv
  <2> QED BY <2>4, <2>5, <2>6, <2>7 DEF NodeInv
<1> QED BY <1>1, <1>2

(* A step within a pass that starts no marked one leaves the history.      *)
LEMMA HistoryStays ==
  ASSUME RunsOn, UNCHANGED <<rp_root, rp_pass, rp_started, rp_again>>, rp_store \subseteq rp_store',
         \A m \in TheReplays!Below[rp_root] : rp_status[m] # "idle" => rp_status'[m] # "idle"
  PROVE  StartInv'
<1>1. \A s \in TheReplays!Below[rp_root] : (Foretold(s) => Foretold(s)') /\ (Kept(s) => Kept(s)')
  BY DEF Foretold, Kept, TheReplays!replay_gates
<1>2. rp_again' \subseteq TheReplays!Below[rp_root]
        /\ rp_started' \subseteq TheReplays!Below[rp_root'] \X (1 .. rp_pass') /\ rp_root' = rp_root
             /\ rp_pass' = rp_pass
  BY DEF RunsOn, StartInv
<1>3. \A s \in rp_again' : Foretold(s)'
  BY <1>1, <1>2 DEF RunsOn, StartInv
<1>4. ASSUME NEW s \in TheReplays!Below[rp_root], NEW q \in 1 .. rp_pass, <<s, q>> \in rp_started'
      PROVE  KindAt[s] \in Dispatched /\ IF q = rp_pass' THEN rp_status'[s] # "idle" ELSE (Foretold(s) \/ Kept(s))'
  BY <1>1, <1>4 DEF RunsOn, StartInv
<1> QED BY <1>2, <1>3, <1>4 DEF StartInv

(* What a step within a pass keeps besides. *)
Passing ==
  /\ rp_root' = rp_root /\ rp_arm' = rp_arm /\ rp_pass' = rp_pass
  /\ rp_status' \in [TheReplays!Below[rp_root] -> {"idle", "running", "ok", "suspended"}]
  /\ \A p \in TheReplays!Below[rp_root] : NodeInv(p)'
  /\ rp_outcome' = "suspended" => rp_status'[rp_root] = "suspended"

LEMMA PassingRuns == RunsOn /\ Passing /\ StartInv' => RunsOn'
BY DEF RunsOn, PassTypes, Passing

(* A step starts; what started in an earlier pass is foretold, for no      *)
(* checkpoint around it has its result.                                    *)
LEMMA Dispatches ==
  ASSUME RunsOn, rp_mishap = FALSE, NEW n \in TheReplays!Below[rp_root], TheReplays!dispatch_step(n)
  PROVE  RunsOn'
<1>1. TheReplays!CanStart(n) /\ KindAt[n] \in Dispatched /\ rp_status' = [rp_status EXCEPT ![n] = "running"]
      /\ UNCHANGED <<rp_root, rp_arm, rp_pass, rp_store, rp_outcome>> /\ rp_outcome = "none"
  BY DEF TheReplays!dispatch_step, Dispatched, TheReplays!Become, TheReplays!CanStart, TheReplays!flow
<1>2. rp_status' \in [TheReplays!Below[rp_root] -> {"idle", "running", "ok", "suspended"}]
        /\ \A p \in TheReplays!Below[rp_root] : NodeInv(p)'
  BY <1>1, NodeStarts DEF TheReplays!CanStart, Dispatched
<1>3. \A m \in TheReplays!Below[rp_root] : rp_status'[m] = IF m = n THEN "running" ELSE rp_status[m]
  BY <1>1 DEF RunsOn, PassTypes
<1>4. Passing
  BY <1>1, <1>2 DEF Passing
<1>5. CASE n \notin MarkedAt
  BY <1>1, <1>3, <1>4, <1>5, HistoryStays, PassingRuns DEF TheReplays!dispatch_step, TheReplays!history
<1>6. CASE n \in MarkedAt
  <2>1. /\ rp_started' = rp_started \union {<<n, rp_pass>>}
        /\ rp_again' = IF \E q \in 1 .. rp_pass - 1 : <<n, q>> \in rp_started THEN rp_again \union {n} ELSE rp_again
    BY <1>6 DEF TheReplays!dispatch_step
  <2>2. rp_pass \in 1 .. rp_pass /\ rp_pass \in Nat
    BY DEF RunsOn, PassTypes
  <2>3. ~Kept(n)
    <3> SUFFICES ASSUME Kept(n) PROVE FALSE
      OBVIOUS
    <3>1. PICK c \in TheReplays!Below[rp_root] \ {n} : KindAt[c] = "checkpoint" /\ c \in rp_store
                 /\ TheReplays!Holds(c, n)
      BY DEF Kept
    <3>2. c \in FlowNodes /\ n \in TheReplays!Below[c] \ {c}
      BY <3>1, Tree, Subtree DEF RunsOn, PassTypes, TheReplays!Holds
    <3>3. PICK p \in TheReplays!Below[c] : n \in TheReplays!Children(p)
      BY <3>2, Subtree
    <3>4. p \in FlowNodes
      BY <3>2, <3>3, Subtree
    <3>5. rp_status[p] = "running"
      BY <1>1, <3>3, <3>4, MayStartIs DEF TheReplays!CanStart, RunsOn, PassTypes
    <3>6. rp_status[c] = "running"
      BY <3>1, <3>3, <3>5, Upward
    <3> QED BY <3>1, <3>6 DEF RunsOn, NodeInv
  <2>4. \A s \in TheReplays!Below[rp_root] : (Foretold(s) => Foretold(s)') /\ (Kept(s) => Kept(s)')
    BY <1>1 DEF Foretold, Kept, TheReplays!replay_gates
  <2>5. ASSUME NEW s \in rp_again' PROVE s \in TheReplays!Below[rp_root] /\ Foretold(s)'
    <3>1. CASE s \in rp_again
      BY <2>4, <3>1 DEF RunsOn, StartInv
    <3>2. CASE s \notin rp_again
      <4>1. s = n /\ \E q \in 1 .. rp_pass - 1 : <<n, q>> \in rp_started
        BY <2>1, <2>5, <3>2
      <4>2. PICK q \in 1 .. rp_pass - 1 : <<n, q>> \in rp_started
        BY <4>1
      <4>3. q \in 1 .. rp_pass /\ q # rp_pass
        BY <2>2
      <4>4. Foretold(n) \/ Kept(n)
        BY <4>2, <4>3 DEF RunsOn, StartInv
      <4> QED BY <2>3, <2>4, <4>1, <4>4
    <3> QED BY <3>1, <3>2
  <2>6. rp_started' \subseteq TheReplays!Below[rp_root] \X (1 .. rp_pass)
    BY <2>1, <2>2 DEF RunsOn, StartInv
  <2>7. ASSUME NEW s \in TheReplays!Below[rp_root], NEW q \in 1 .. rp_pass, <<s, q>> \in rp_started'
        PROVE  KindAt[s] \in Dispatched /\ IF q = rp_pass THEN rp_status'[s] # "idle" ELSE (Foretold(s) \/ Kept(s))'
    <3>1. CASE <<s, q>> \in rp_started
      BY <1>3, <2>4, <2>7, <3>1 DEF RunsOn, StartInv
    <3>2. CASE <<s, q>> \notin rp_started
      <4>1. s = n /\ q = rp_pass
        BY <2>1, <2>7, <3>2
      <4> QED BY <1>1, <1>3, <4>1
    <3> QED BY <3>1, <3>2
  <2>8. StartInv'
    BY <1>1, <2>5, <2>6, <2>7 DEF StartInv
  <2> QED BY <1>4, <2>8, PassingRuns
<1> QED BY <1>5, <1>6

(* A node that does not start a marked step starts or ends.                *)
LEMMA NodeMoves ==
  ASSUME RunsOn, NEW n \in TheReplays!Below[rp_root], NEW v \in {"running", "ok", "suspended"},
         rp_status' = [rp_status EXCEPT ![n] = v],
           UNCHANGED <<rp_root, rp_arm, rp_pass, rp_started, rp_again, rp_outcome>>, rp_outcome = "none",
         rp_store \subseteq rp_store', \A p \in TheReplays!Below[rp_root] : NodeInv(p)'
  PROVE  RunsOn'
<1>1. rp_status' \in [TheReplays!Below[rp_root] -> {"idle", "running", "ok", "suspended"}]
      /\ \A m \in TheReplays!Below[rp_root] : rp_status[m] # "idle" => rp_status'[m] # "idle"
  BY DEF RunsOn, PassTypes
<1>2. Passing
  BY <1>1 DEF Passing
<1> QED BY <1>1, <1>2, HistoryStays, PassingRuns

LEMMA NodeSetsOut ==
  ASSUME RunsOn, NEW n \in TheReplays!Below[rp_root], TheReplays!CanStart(n), NEW v \in {"running", "ok",
           "suspended"},
         rp_status' = [rp_status EXCEPT ![n] = v],
           UNCHANGED <<rp_root, rp_arm, rp_pass, rp_started, rp_again, rp_outcome, rp_store>>,
         v = "suspended" => KindAt[n] = "suspend",
         KindAt[n] = "checkpoint" => (v = "running" => n \notin rp_store) /\ (v = "ok" => n \in rp_store)
  PROVE  RunsOn'
<1>1. rp_outcome = "none" /\ rp_status[n] = "idle" /\ TheReplays!MayStart(n)
  BY DEF TheReplays!CanStart
<1>2. \A p \in TheReplays!Below[rp_root] : NodeInv(p)'
  BY <1>1, NodeStarts
<1> QED BY <1>1, <1>2, NodeMoves

LEMMA Ends ==
  ASSUME RunsOn, NEW n \in TheReplays!Below[rp_root], rp_status[n] = "running", NEW v \in {"ok", "suspended"},
         rp_status' = [rp_status EXCEPT ![n] = v],
           UNCHANGED <<rp_root, rp_arm, rp_pass, rp_started, rp_again, rp_outcome>>, rp_outcome = "none",
         rp_store' \in {rp_store, rp_store \union {n}},
         \A k \in TheReplays!Children(n) : rp_status[k] # "running"
           /\ (v = "ok" => rp_status[k] \in {"idle", "ok"}),
         v = "suspended" => \E k \in TheReplays!Children(n) : rp_status[k] = "suspended",
         KindAt[n] = "checkpoint" /\ v = "ok" => n \in rp_store'
  PROVE  RunsOn'
<1>1. \A p \in TheReplays!Below[rp_root] : NodeInv(p)'
  BY NodeEnds
<1> QED BY <1>1, NodeMoves

LEMMA NoChildren == ASSUME NEW n \in FlowNodes, KindAt[n] \in {"step", "suspend"} PROVE TheReplays!Children(n) = {}
BY StepsFit DEF StepsAssumption, TheReplays!Children, TheReplays!Range

(* How a composer ends.                                                    *)
LEMMA Composes ==
  ASSUME RunsOn, NEW n \in TheReplays!Below[rp_root], TheReplays!ComposerEnds(n)
  PROVE  RunsOn'
<1>1. /\ rp_outcome = "none" /\ rp_status[n] = "running" /\ KindAt[n] \in {"sequence", "parallel", "branch"}
      /\ UNCHANGED <<rp_root, rp_arm, rp_pass, rp_started, rp_again, rp_outcome, rp_store>>
  BY DEF TheReplays!ComposerEnds, TheReplays!flow, TheReplays!history
<1>2. PICK ends : ends = {rp_status[k] : k \in TheReplays!Due(n)}
  OBVIOUS
<1>3. \/ ends = {"ok"} /\ rp_status' = [rp_status EXCEPT ![n] = "ok"]
      \/ /\ \E what \in {"suspended", "failed"} : what \in ends /\ rp_status' = [rp_status EXCEPT ![n] = what]
         /\ KindAt[n] = "parallel" => ends \subseteq TheReplays!Settled
  BY <1>2 DEF TheReplays!ComposerEnds, TheReplays!Become
<1>4. n \in FlowNodes /\ NodeInv(n) /\ TheReplays!Children(n) \subseteq TheReplays!Below[rp_root]
        /\ TheReplays!Holds(rp_root, n)
  BY Tree, Subtree DEF RunsOn, PassTypes, TheReplays!Holds
<1>5. TheReplays!Due(n) \subseteq TheReplays!Children(n)
        /\ (KindAt[n] # "branch" => TheReplays!Due(n) = TheReplays!Children(n))
  <2> SUFFICES ASSUME KindAt[n] = "branch" PROVE KidsAt[n][rp_arm[n]] \in TheReplays!Children(n)
    BY DEF TheReplays!Due
  <2>1. rp_arm[n] \in {1, 2}
    BY <1>4 DEF RunsOn, PassTypes
  <2>2. Len(KidsAt[n]) = 2 /\ KidsAt[n] \in Seq(FlowNodes)
    BY <1>4, StepsFit DEF StepsAssumption
  <2>3. rp_arm[n] \in DOMAIN KidsAt[n]
    BY <2>1, <2>2
  <2> QED BY <2>3 DEF TheReplays!Children, TheReplays!Range
<1>6. \A k \in TheReplays!Children(n) : rp_status[k] \in {"idle", "running", "ok", "suspended"}
  BY <1>4 DEF RunsOn, PassTypes
<1>7. ASSUME NEW k \in TheReplays!Children(n) \ TheReplays!Due(n) PROVE rp_status[k] = "idle"
  <2>1. KindAt[n] = "branch" /\ k # KidsAt[n][rp_arm[n]]
    BY <1>5, <1>7 DEF TheReplays!Due
  <2> QED BY <1>4, <2>1 DEF NodeInv
<1>8. CASE ends = {"ok"} /\ rp_status' = [rp_status EXCEPT ![n] = "ok"]
  <2>1. \A k \in TheReplays!Children(n) : rp_status[k] # "running" /\ rp_status[k] \in {"idle", "ok"}
    BY <1>2, <1>7, <1>8
  <2> QED BY <1>1, <1>8, <2>1, Ends
<1>9. CASE \E what \in {"suspended", "failed"} : what \in ends /\ rp_status' = [rp_status EXCEPT ![n] = what]
  <2>1. "suspended" \in ends /\ rp_status' = [rp_status EXCEPT ![n] = "suspended"]
    BY <1>2, <1>5, <1>6, <1>9
  <2>2. PICK d \in TheReplays!Due(n) : rp_status[d] = "suspended"
    BY <1>2, <2>1
  <2>3. ASSUME NEW k \in TheReplays!Children(n), rp_status[k] = "running" PROVE FALSE
    <3>1. k \in TheReplays!Due(n) /\ k # d
      BY <1>7, <2>2, <2>3
    <3>2. CASE KindAt[n] = "branch"
      BY <2>2, <3>1, <3>2 DEF TheReplays!Due
    <3>3. CASE KindAt[n] = "parallel"
      <4>1. ends \subseteq TheReplays!Settled
        BY <1>3, <2>1, <3>3
      <4> QED BY <1>2, <2>3, <3>1, <4>1 DEF TheReplays!Settled
    <3>4. CASE KindAt[n] = "sequence"
      <4>1. PICK i \in DOMAIN KidsAt[n] : k = KidsAt[n][i]
        BY <2>3 DEF TheReplays!Children, TheReplays!Range
      <4>2. PICK j \in DOMAIN KidsAt[n] : d = KidsAt[n][j]
        BY <1>5, <2>2 DEF TheReplays!Children, TheReplays!Range
      <4>3. i \in Nat /\ j \in Nat /\ i # j
        BY <1>4, <3>1, <4>1, <4>2, StepsFit DEF StepsAssumption
      <4>4. CASE i < j
        BY <1>4, <2>2, <2>3, <3>4, <4>1, <4>2, <4>4 DEF NodeInv
      <4>5. CASE j < i
        BY <1>4, <2>2, <2>3, <3>4, <4>1, <4>2, <4>5 DEF NodeInv
      <4> QED BY <4>3, <4>4, <4>5
    <3> QED BY <1>1, <3>2, <3>3, <3>4
  <2> QED BY <1>1, <1>5, <2>1, <2>2, <2>3, Ends
<1> QED BY <1>3, <1>8, <1>9

(* How a checkpoint ends, if nothing fails.                                *)
LEMMA Keeps ==
  ASSUME RunsOn, NEW n \in TheReplays!Below[rp_root], TheReplays!keep(n), rp_mishap' = FALSE
  PROVE  RunsOn'
<1>1. /\ rp_outcome = "none" /\ rp_status[n] = "running" /\ KindAt[n] = "checkpoint"
      /\ UNCHANGED <<rp_root, rp_arm, rp_pass, rp_started, rp_again, rp_outcome>>
  BY DEF TheReplays!keep, TheReplays!flow, TheReplays!history
<1>2. n \in FlowNodes /\ TheReplays!Children(n) \subseteq TheReplays!Below[rp_root]
  BY Tree, Subtree DEF RunsOn, PassTypes
<1>3. PICK k : k = KidsAt[n][1]
  OBVIOUS
<1>4. TheReplays!Children(n) = {k} /\ rp_status[k] \in {"idle", "running", "ok", "suspended"}
  <2>1. Len(KidsAt[n]) = 1 /\ KidsAt[n] \in Seq(FlowNodes)
    BY <1>1, <1>2, StepsFit DEF StepsAssumption
  <2>2. DOMAIN KidsAt[n] = {1}
    BY <2>1
  <2>3. TheReplays!Children(n) = {k}
    BY <1>3, <2>2 DEF TheReplays!Children, TheReplays!Range
  <2> QED BY <1>2, <2>3 DEF RunsOn, PassTypes
<1>5. \/ rp_status[k] = "ok" /\ rp_store' = rp_store \union {n} /\ rp_status' = [rp_status EXCEPT ![n] = "ok"]
      \/ rp_status[k] = "suspended" /\ rp_status' = [rp_status EXCEPT ![n] = "suspended"] /\ rp_store' = rp_store
  <2>1. CASE rp_status[k] = "ok" /\ rp_store' = rp_store \union {n} /\ TheReplays!Become(n, "ok")
    BY <2>1 DEF TheReplays!Become
  <2>2. CASE rp_status[k] \in {"failed", "suspended"} /\ TheReplays!Become(n, rp_status[k])
               /\ UNCHANGED <<rp_store, rp_mishap>>
    BY <1>4, <2>2 DEF TheReplays!Become
  <2> QED BY <1>3, <2>1, <2>2 DEF TheReplays!keep
<1>6. CASE rp_status[k] = "ok" /\ rp_store' = rp_store \union {n} /\ rp_status' = [rp_status EXCEPT ![n] = "ok"]
  BY <1>1, <1>4, <1>6, Ends
<1>7. CASE rp_status[k] = "suspended" /\ rp_status' = [rp_status EXCEPT ![n] = "suspended"] /\ rp_store' = rp_store
  BY <1>1, <1>4, <1>7, Ends
<1> QED BY <1>5, <1>6, <1>7

(* A run that waits goes on with a new pass.                               *)
LEMMA WaitGoesOn ==
  ASSUME RunsOn, TheReplays!Resume
  PROVE  RunsOn'
<1>1. /\ rp_outcome = "suspended" /\ rp_outcome' = "none" /\ rp_pass' = rp_pass + 1
      /\ rp_status' = [n \in TheReplays!Below[rp_root] |-> "idle"]
      /\ UNCHANGED <<rp_root, rp_arm, rp_store, rp_started, rp_again>>
  BY DEF TheReplays!Resume, TheReplays!NewPass, TheReplays!flow, TheReplays!history
<1>2. PassTypes'
  BY <1>1 DEF RunsOn, PassTypes
<1>3. ASSUME NEW p \in TheReplays!Below[rp_root] PROVE NodeInv(p)'
  <2>1. p \in FlowNodes /\ TheReplays!Children(p) \subseteq TheReplays!Below[rp_root]
    BY Tree, Subtree DEF RunsOn, PassTypes
  <2>2. \A m \in TheReplays!Below[rp_root] : rp_status'[m] = "idle"
    BY <1>1
  <2>3. \A i \in DOMAIN KidsAt[p] : KidsAt[p][i] \in TheReplays!Children(p)
    BY DEF TheReplays!Children, TheReplays!Range
  <2> QED BY <2>1, <2>2, <2>3 DEF NodeInv
<1>4. StartInv'
  <2>1. \A s \in TheReplays!Below[rp_root] : (Foretold(s) => Foretold(s)') /\ (Kept(s) => Kept(s)')
    BY <1>1 DEF Foretold, Kept, TheReplays!replay_gates
  <2>2. rp_pass \in Nat /\ rp_started' \subseteq TheReplays!Below[rp_root] \X (1 .. rp_pass)
          /\ rp_again' \subseteq TheReplays!Below[rp_root] /\ rp_status[rp_root] = "suspended"
    BY <1>1 DEF RunsOn, PassTypes, StartInv
  <2>3. rp_started' \subseteq TheReplays!Below[rp_root] \X (1 .. rp_pass')
    BY <1>1, <2>2
  <2>4. ASSUME NEW s \in TheReplays!Below[rp_root], NEW q \in 1 .. rp_pass', <<s, q>> \in rp_started'
        PROVE  KindAt[s] \in Dispatched /\ q # rp_pass' /\ (Foretold(s) \/ Kept(s))'
    <3>1. q \in 1 .. rp_pass /\ <<s, q>> \in rp_started /\ q # rp_pass'
      BY <1>1, <2>2, <2>4
    <3>2. KindAt[s] \in Dispatched /\ IF q = rp_pass THEN rp_status[s] # "idle" ELSE Foretold(s) \/ Kept(s)
      BY <2>4, <3>1 DEF RunsOn, StartInv
    <3>3. Foretold(s) \/ Kept(s)
      BY <2>2, <2>4, <3>2, Stopped
    <3> QED BY <2>1, <2>4, <3>1, <3>2, <3>3
  <2>5. \A s \in rp_again' : Foretold(s)'
    BY <1>1, <2>1, <2>2 DEF RunsOn, StartInv
  <2> QED BY <1>1, <2>2, <2>3, <2>4, <2>5 DEF StartInv
<1> QED BY <1>1, <1>2, <1>3, <1>4 DEF RunsOn

LEMMA PassStarts == TheReplays!Init => PassInv
<1> SUFFICES ASSUME TheReplays!Init PROVE PassInv
  OBVIOUS
<1>1. PassTypes /\ rp_mishap = FALSE
  BY Tree, Subtree DEF TheReplays!Init, PassTypes
<1>2. ASSUME NEW p \in TheReplays!Below[rp_root] PROVE NodeInv(p)
  <2>1. p \in FlowNodes /\ TheReplays!Children(p) \subseteq TheReplays!Below[rp_root]
    BY <1>1, Tree, Subtree DEF PassTypes
  <2>2. \A m \in TheReplays!Below[rp_root] : rp_status[m] = "idle"
    BY DEF TheReplays!Init
  <2>3. \A i \in DOMAIN KidsAt[p] : KidsAt[p][i] \in TheReplays!Children(p)
    BY DEF TheReplays!Children, TheReplays!Range
  <2> QED BY <2>1, <2>2, <2>3 DEF NodeInv
<1>3. StartInv
  BY DEF TheReplays!Init, StartInv
<1> QED BY <1>1, <1>2, <1>3 DEF PassInv, RunsOn

LEMMA PassSteps == PassInv /\ [TheReplays!Next]_(TheReplays!vars) => PassInv'
<1> SUFFICES ASSUME PassInv, [TheReplays!Next]_(TheReplays!vars) PROVE PassInv'
  OBVIOUS
<1>1. rp_mishap' \in BOOLEAN /\ (rp_mishap = TRUE => rp_mishap' = TRUE)
  BY DEF PassInv, TheReplays!Next, TheReplays!Step, TheReplays!vars, TheReplays!check_suspend_ids,
       TheReplays!RunEnds, TheReplays!Resume, TheReplays!Dies, TheReplays!dispatch_step, TheReplays!look_up,
         TheReplays!suspend,
     TheReplays!take_datum, TheReplays!Returns, TheReplays!ComposerEnds, TheReplays!keep
<1> SUFFICES ASSUME rp_mishap = FALSE, rp_mishap' = FALSE, RunsOn PROVE RunsOn'
  BY <1>1 DEF PassInv
<1>2. CASE UNCHANGED TheReplays!vars
  <2>1. StartInv'
    BY <1>2, HistoryStays DEF TheReplays!vars
  <2>2. \A p \in TheReplays!Below[rp_root] : NodeInv(p)'
    BY <1>2 DEF TheReplays!vars, RunsOn, NodeInv
  <2> QED BY <1>2, <2>1, <2>2 DEF TheReplays!vars, RunsOn, PassTypes
<1>3. CASE TheReplays!check_suspend_ids \/ TheReplays!RunEnds
  <2>1. UNCHANGED <<rp_root, rp_arm, rp_pass, rp_status, rp_store, rp_started, rp_again>>
          /\ (rp_outcome' = "suspended" => rp_status[rp_root] = "suspended")
    BY <1>3 DEF TheReplays!check_suspend_ids, TheReplays!RunEnds, TheReplays!flow, TheReplays!history
  <2>2. StartInv'
    BY <2>1, HistoryStays
  <2>3. \A p \in TheReplays!Below[rp_root] : NodeInv(p)'
    BY <2>1 DEF RunsOn, NodeInv
  <2> QED BY <2>1, <2>2, <2>3 DEF RunsOn, PassTypes
<1>4. CASE TheReplays!Resume
  BY <1>4, WaitGoesOn
<1>5. CASE TheReplays!Dies
  BY <1>5 DEF TheReplays!Dies
<1>6. ASSUME NEW n \in TheReplays!Below[rp_root], TheReplays!dispatch_step(n) PROVE RunsOn'
  BY <1>6, Dispatches
<1>7. ASSUME NEW n \in TheReplays!Below[rp_root], TheReplays!look_up(n) PROVE RunsOn'
  <2>1. /\ TheReplays!CanStart(n) /\ KindAt[n] = "checkpoint"
             /\ UNCHANGED <<rp_root, rp_arm, rp_pass, rp_started, rp_again, rp_outcome, rp_store>>
        /\ \/ n \in rp_store /\ rp_status' = [rp_status EXCEPT ![n] = "ok"]
           \/ n \notin rp_store /\ rp_status' = [rp_status EXCEPT ![n] = "running"]
    BY <1>7 DEF TheReplays!look_up, TheReplays!Become, TheReplays!flow, TheReplays!history
  <2> QED BY <2>1, NodeSetsOut
<1>8. ASSUME NEW n \in TheReplays!Below[rp_root], TheReplays!suspend(n) PROVE RunsOn'
  <2>1. /\ TheReplays!CanStart(n) /\ KindAt[n] = "suspend"
             /\ UNCHANGED <<rp_root, rp_arm, rp_pass, rp_started, rp_again, rp_outcome, rp_store>>
        /\ rp_status' = [rp_status EXCEPT ![n] = "suspended"]
    BY <1>8 DEF TheReplays!suspend, TheReplays!Become, TheReplays!flow, TheReplays!history
  <2> QED BY <2>1, NodeSetsOut
<1>9. ASSUME NEW n \in TheReplays!Below[rp_root], TheReplays!take_datum(n) PROVE RunsOn'
  <2>1. /\ TheReplays!CanStart(n) /\ KindAt[n] = "suspend"
             /\ UNCHANGED <<rp_root, rp_arm, rp_pass, rp_started, rp_again, rp_outcome, rp_store>>
        /\ rp_status' = [rp_status EXCEPT ![n] = "running"]
    BY <1>9 DEF TheReplays!take_datum, TheReplays!Become, TheReplays!flow, TheReplays!history
  <2> QED BY <2>1, NodeSetsOut
<1>10. ASSUME NEW n \in TheReplays!Below[rp_root], TheReplays!Returns(n) PROVE RunsOn'
  <2>1. /\ rp_status[n] = "running" /\ KindAt[n] \in {"step", "suspend"} /\ rp_outcome = "none"
        /\ UNCHANGED <<rp_root, rp_arm, rp_pass, rp_started, rp_again, rp_outcome, rp_store>>
             /\ rp_status' = [rp_status EXCEPT ![n] = "ok"]
    BY <1>10 DEF TheReplays!Returns, TheReplays!Become, TheReplays!flow, TheReplays!history
  <2>2. n \in FlowNodes
    BY Tree, Subtree DEF RunsOn, PassTypes
  <2>3. TheReplays!Children(n) = {}
    BY <2>1, <2>2, NoChildren
  <2> QED BY <2>1, <2>3, Ends
<1>11. ASSUME NEW n \in TheReplays!Below[rp_root], TheReplays!ComposerEnds(n) PROVE RunsOn'
  BY <1>11, Composes
<1>12. ASSUME NEW n \in TheReplays!Below[rp_root], TheReplays!keep(n) PROVE RunsOn'
  BY <1>12, Keeps
<1> QED BY <1>2, <1>3, <1>4, <1>5, <1>6, <1>7, <1>8, <1>9, <1>10, <1>11, <1>12 DEF TheReplays!Next, TheReplays!Step

(* The analysis of replays (src/src/core/replays.ts) is sound, for every   *)
(* flow: as long as no step, store or process fails, a step marked         *)
(* side_effect that starts in two passes of a run, because the run was     *)
(* resumed, is one that describe.replays lists with a gate it can run      *)
(* before.                                                                 *)
THEOREM RepeatsAreForetold == TheReplays!Spec => []ReplaysAreForetold
<1>1. PassInv => ReplaysAreForetold
  BY DEF PassInv, RunsOn, StartInv, Foretold, ReplaysAreForetold, TheReplays!ReplaysAreForetold
<1> QED BY <1>1, PassStarts, PassSteps, PTL DEF TheReplays!Spec
=============================================================================
