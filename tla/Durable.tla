------------------------------ MODULE Durable ------------------------------
(***************************************************************************)
(* One durable run of src/src/core/durable.ts, and the calls that share    *)
(* it: `start`, `resume` and `delete`, each made by a process of its own   *)
(* against one store.  Every await on the store is one step here, so the   *)
(* calls interleave wherever the code lets them.                           *)
(*                                                                         *)
(* The store is the contract of CheckpointStore (src/src/core/types.ts):   *)
(* get, set, delete, claim, release and clear each take effect at once.    *)
(* A claim that expired and a claim that was released are the same thing   *)
(* to every later caller, so a claim is its owner, or Free.                *)
(*                                                                         *)
(* Time is not a number.  A claim expires when its owner died, or while    *)
(* its owner stands at a program point of StallAt, the points at which a   *)
(* live call may be held up for longer than lease_ms.                      *)
(***************************************************************************)
EXTENDS Integers, FiniteSets, Sequences

CONSTANTS
  Starts,        \* the calls of start(run_id, flow, input); the input is the call
  Resumes,       \* the calls of resume(run_id, flow, data); the datum is the call
  Deletes,       \* the calls of delete(run_id)
  Gates,         \* the suspend ids of the flows
  Shapes,        \* the flow shapes that are deployed
  FlowOf,        \* the gates of a shape, in the order its flow reaches them
  ShapeOf,       \* the shape of the flow a call brings
  GateFor,       \* the gate a resume's datum is for, NoGate when it brings none
  Refused,       \* the data that the gate's resume_schema refuses
  OnFlowChange,  \* the on_flow_change of the call's process, "fail" or "replay"
  MayFail,       \* the calls whose drive of the flow may throw
  MayDie,        \* the calls whose process may die
  MayThrow,      \* the calls whose operations on the store may throw
  StallAt,       \* the program points at which a live call may outlast its lease
  NoRecord, NoDatum, NoGate, Free

Calls == Starts \cup Resumes \cup Deletes

Statuses == {"running", "suspended", "done", "failed"}

(* Where a call stands: the store operation it makes next, or the drive of *)
(* the flow ("body"), or its end.                                          *)
Points ==
  {"new", "dl_claim", "dl_inbox", "dl_record", "dl_set", "dl_release", "claim",
   "start_load", "create", "load", "tk_inbox", "tk_delete", "body", "sv_confirm",
   "sv_get", "sv_set", "end", "recheck", "d_clear", "returned", "dead"}

Outcomes ==
  {"none", "done", "suspended", "busy", "error", "flow_changed", "not_found",
   "deleted", "not_deleted"}

(* What a save was asked for, which says where the call goes on after it.  *)
Saves == {"none", "shape_drive", "shape_take_up", "take_up", "rest", "failure"}

ASSUME CallAssumption ==
  /\ Starts \cap Resumes = {} /\ Starts \cap Deletes = {} /\ Resumes \cap Deletes = {}
  /\ Free \notin Calls /\ NoDatum \notin Resumes
  /\ ShapeOf \in [Starts \cup Resumes -> Shapes]
  /\ GateFor \in [Resumes -> Gates \cup {NoGate}]
  /\ NoGate \notin Gates
  /\ Refused \subseteq Resumes
  /\ OnFlowChange \in [Starts \cup Resumes -> {"fail", "replay"}]
  /\ StallAt \subseteq Points

ASSUME FlowAssumption == FlowOf \in [Shapes -> Seq(Gates)]

Resumed == [Gates -> Resumes \cup {NoDatum}]

Record ==
  [rev : Nat, input : Starts, flow : Shapes, resume : Resumed,
   status : Statuses, gate : Gates \cup {NoGate}]

ASSUME NoRecordAssumption == NoRecord \notin Record

VARIABLES
  record,   \* the value under `record`
  inbox,    \* the datum in the `inbox` scope under each gate id
  lease,    \* the owner of the claim on `lease`
  gclaim,   \* the owner of the claim on `inbox/<gate>`
  pc,       \* where each call stands
  rec,      \* the record a call last read or wrote
  nxt,      \* the record a call is saving
  save,     \* what it is saving it for
  entry,    \* the datum it read from the inbox
  lost,     \* the `lost` flag of its lease
  out       \* what it will resolve with

store == <<record, inbox, lease, gclaim>>
locals == <<pc, rec, nxt, save, entry, lost, out>>
vars == <<record, inbox, lease, gclaim, pc, rec, nxt, save, entry, lost, out>>

Init ==
  /\ record = NoRecord
  /\ inbox = [g \in Gates |-> NoDatum]
  /\ lease = Free
  /\ gclaim = [g \in Gates |-> Free]
  /\ pc = [c \in Calls |-> "new"]
  /\ rec = [c \in Calls |-> NoRecord]
  /\ nxt = [c \in Calls |-> NoRecord]
  /\ save = [c \in Calls |-> "none"]
  /\ entry = [c \in Calls |-> NoDatum]
  /\ lost = [c \in Calls |-> FALSE]
  /\ out = [c \in Calls |-> "none"]

----------------------------------------------------------------------------
(* The flow, seen from the driver.  run.until_suspended replays it from    *)
(* its input, each gate takes the datum the record holds for it, and the   *)
(* run stops at the first gate that has none or refuses the one it has.    *)

StopsAt(r) ==
  {i \in DOMAIN FlowOf[r.flow] :
     \/ r.resume[FlowOf[r.flow][i]] = NoDatum
     \/ r.resume[FlowOf[r.flow][i]] \in Refused}

FirstStop(r) ==
  FlowOf[r.flow][CHOOSE i \in StopsAt(r) : \A j \in StopsAt(r) : i <= j]

(* Mutant: a failed run forgets its resume data. *)
FailedForgetting(r) == [r EXCEPT !.status = "failed", !.resume = [g \in Gates |-> NoDatum]]

Failed(r) == [r EXCEPT !.status = "failed"]

(* The record after a drive came to rest (after_outcome), or threw because *)
(* a gate refused its datum (after_failure): that datum is dropped when    *)
(* the run was last waiting at that gate, and else the run has failed.     *)
AtRest(r) ==
  IF StopsAt(r) = {}
  THEN [r EXCEPT !.status = "done", !.gate = NoGate]
  ELSE [r EXCEPT !.status = "suspended", !.gate = FirstStop(r)]

Refusal(r) ==
  IF r.gate = FirstStop(r)
  THEN [r EXCEPT !.status = "suspended", !.resume[r.gate] = NoDatum]
  ELSE Failed(r)

Refuses(r) == StopsAt(r) # {} /\ r.resume[FirstStop(r)] \in Refused

----------------------------------------------------------------------------
(* How a call moves on.                                                    *)

Goto(c, point) == pc' = [pc EXCEPT ![c] = point]

(* The call resolves or rejects, and its locals are gone. *)
Return(c, outcome) ==
  /\ Goto(c, "returned")
  /\ out' = [out EXCEPT ![c] = outcome]
  /\ rec' = [rec EXCEPT ![c] = NoRecord]
  /\ nxt' = [nxt EXCEPT ![c] = NoRecord]
  /\ save' = [save EXCEPT ![c] = "none"]
  /\ entry' = [entry EXCEPT ![c] = NoDatum]
  /\ UNCHANGED lost

(* settle came to an end inside bring_to_rest: the lease goes next. *)
GoEnd(c, outcome) ==
  /\ Goto(c, "end")
  /\ out' = [out EXCEPT ![c] = outcome]
  /\ UNCHANGED <<nxt, save>>

(* bring_to_rest's catch: a call that lost its lease reports busy. *)
Thrown(l, outcome) == IF l THEN "busy" ELSE outcome

GoSave(c, r, why) ==
  /\ Goto(c, "sv_confirm")
  /\ nxt' = [nxt EXCEPT ![c] = r]
  /\ save' = [save EXCEPT ![c] = why]
  /\ UNCHANGED out

(* check_shape, then go on: with `same` when the record has the call's     *)
(* shape, and else throw, or adopt the shape first and come back as `why`. *)
CheckShape(c, r, same, why) ==
  \/ /\ r.flow = ShapeOf[c]
     /\ same
  \/ /\ r.flow # ShapeOf[c]
     /\ OnFlowChange[c] = "fail"
     /\ GoEnd(c, Thrown(lost[c], "flow_changed"))
  \/ /\ r.flow # ShapeOf[c]
     /\ OnFlowChange[c] = "replay"
     /\ GoSave(c, [r EXCEPT !.flow = ShapeOf[c]], why)

GoBody(c) == Goto(c, "body") /\ UNCHANGED <<nxt, save, out>>

DriveOnce(c, r) == CheckShape(c, r, GoBody(c), "shape_drive") /\ UNCHANGED entry

(* One turn of settle's loop on record r, up to its next await. *)
Settle(c, r) ==
  /\ rec' = [rec EXCEPT ![c] = r]
  /\ \/ r.status = "done" /\ GoEnd(c, "done") /\ UNCHANGED entry
     \/ r.status = "suspended" /\ Goto(c, "tk_inbox") /\ UNCHANGED <<nxt, save, entry, out>>
     \/ r.status \in {"running", "failed"} /\ DriveOnce(c, r)

TakingUp(c, r, d) == [r EXCEPT !.status = "running", !.resume[r.gate] = d]

----------------------------------------------------------------------------
(* resume_run, up to the lease: read the record, then deliver the datum.   *)

ResumeCall(c) ==
  /\ c \in Resumes /\ pc[c] = "new"
  /\ \/ /\ record = NoRecord
        /\ Return(c, "not_found")
     \/ /\ record # NoRecord /\ record.status = "done"
        /\ Return(c, "done")
     \/ /\ record # NoRecord /\ record.status # "done"
        /\ Goto(c, IF GateFor[c] = NoGate THEN "claim" ELSE "dl_claim")
        /\ UNCHANGED <<rec, nxt, save, entry, lost, out>>
  /\ UNCHANGED store

DeliverClaim(c) ==
  /\ pc[c] = "dl_claim"
  /\ \/ /\ gclaim[GateFor[c]] \in {Free, c}
        /\ gclaim' = [gclaim EXCEPT ![GateFor[c]] = c]
        /\ Goto(c, "dl_inbox")
     \/ /\ gclaim[GateFor[c]] \notin {Free, c}
        /\ Goto(c, "claim")
        /\ UNCHANGED gclaim
  /\ UNCHANGED <<record, inbox, lease, rec, nxt, save, entry, lost, out>>

DeliverReadInbox(c) ==
  /\ pc[c] = "dl_inbox"
  /\ Goto(c, IF inbox[GateFor[c]] = NoDatum THEN "dl_record" ELSE "dl_release")
  /\ UNCHANGED <<store, rec, nxt, save, entry, lost, out>>

DeliverReadRecord(c) ==
  /\ pc[c] = "dl_record"
  /\ LET passed == record = NoRecord \/ record.resume[GateFor[c]] # NoDatum
     IN  Goto(c, IF passed THEN "dl_release" ELSE "dl_set")
  /\ UNCHANGED <<store, rec, nxt, save, entry, lost, out>>

DeliverSet(c) ==
  /\ pc[c] = "dl_set"
  /\ inbox' = [inbox EXCEPT ![GateFor[c]] = c]
  /\ Goto(c, "dl_release")
  /\ UNCHANGED <<record, lease, gclaim, rec, nxt, save, entry, lost, out>>

(* The finally of deliver.  A call that got here by a throw rejects. *)
DeliverRelease(c) ==
  /\ pc[c] = "dl_release"
  /\ gclaim' = [gclaim EXCEPT ![GateFor[c]] = IF @ = c THEN Free ELSE @]
  /\ \/ /\ out[c] = "none"
        /\ Goto(c, "claim")
        /\ UNCHANGED <<rec, nxt, save, entry, lost, out>>
     \/ /\ out[c] = "error"
        /\ Return(c, "error")
  /\ UNCHANGED <<record, inbox, lease>>

----------------------------------------------------------------------------
(* bring_to_rest: take the lease, load the record, settle, let it go.      *)

Claimable(c) == lease \in {Free, c}

WantsLease(c) == pc[c] = "claim" \/ (c \in Starts /\ pc[c] = "new")

TakeLease(c) ==
  /\ WantsLease(c) /\ Claimable(c)
  /\ lease' = c
  /\ lost' = [lost EXCEPT ![c] = FALSE]
  /\ Goto(c, IF c \in Starts THEN "start_load" ELSE "load")
  /\ UNCHANGED <<record, inbox, gclaim, rec, nxt, save, entry, out>>

FindBusy(c) ==
  /\ WantsLease(c) /\ ~Claimable(c)
  /\ Return(c, "busy")
  /\ UNCHANGED store

StartLoad(c) ==
  /\ pc[c] = "start_load"
  /\ \/ record # NoRecord /\ Settle(c, record)
     \/ record = NoRecord /\ Goto(c, "create") /\ UNCHANGED <<rec, nxt, save, entry, out>>
  /\ UNCHANGED <<store, lost>>

Create(c) ==
  /\ pc[c] = "create"
  /\ record' = [rev |-> 0, input |-> c, flow |-> ShapeOf[c],
                resume |-> [g \in Gates |-> NoDatum], status |-> "running", gate |-> NoGate]
  /\ Goto(c, "load")
  /\ UNCHANGED <<inbox, lease, gclaim, rec, nxt, save, entry, lost, out>>

Load(c) ==
  /\ pc[c] = "load"
  /\ \/ record # NoRecord /\ Settle(c, record)
     \/ record = NoRecord /\ GoEnd(c, Thrown(lost[c], "not_found")) /\ UNCHANGED <<rec, entry>>
  /\ UNCHANGED <<store, lost>>

(* take_up: read the inbox of the gate the run waits at, save the datum    *)
(* into the record, and only then delete it from the inbox.                *)
(* Mutant: the inbox entry goes before the record is saved. *)
TakeUpReadDeleting(c) ==
  /\ pc[c] = "tk_inbox"
  /\ LET d == inbox[rec[c].gate]
     IN  \/ d = NoDatum /\ GoEnd(c, "suspended") /\ UNCHANGED <<inbox, entry>>
         \/ /\ d # NoDatum
            /\ inbox' = [inbox EXCEPT ![rec[c].gate] = NoDatum]
            /\ entry' = [entry EXCEPT ![c] = d]
            /\ CheckShape(c, rec[c], GoSave(c, TakingUp(c, rec[c], d), "take_up"),
                          "shape_take_up")
  /\ UNCHANGED <<record, lease, gclaim, rec, lost>>

TakeUpRead(c) ==
  /\ pc[c] = "tk_inbox"
  /\ LET d == inbox[rec[c].gate]
     IN  \/ d = NoDatum /\ GoEnd(c, "suspended") /\ UNCHANGED entry
         \/ /\ d # NoDatum
            /\ entry' = [entry EXCEPT ![c] = d]
            /\ CheckShape(c, rec[c], GoSave(c, TakingUp(c, rec[c], d), "take_up"),
                          "shape_take_up")
  /\ UNCHANGED <<store, rec, lost>>

TakeUpDelete(c) ==
  /\ pc[c] = "tk_delete"
  /\ inbox' = [inbox EXCEPT ![rec[c].gate] = NoDatum]
  /\ DriveOnce(c, rec[c])
  /\ UNCHANGED <<record, lease, gclaim, rec, lost>>

(* drive_once: the flow runs to rest, or throws. *)
BodyRests(c) ==
  /\ pc[c] = "body"
  /\ ~Refuses(rec[c])
  /\ GoSave(c, AtRest(rec[c]), "rest")
  /\ UNCHANGED <<store, rec, entry, lost>>

BodyRefuses(c) ==
  /\ pc[c] = "body"
  /\ Refuses(rec[c])
  /\ GoSave(c, Refusal(rec[c]), "failure")
  /\ UNCHANGED <<store, rec, entry, lost>>

BodyThrows(c) ==
  /\ pc[c] = "body"
  /\ c \in MayFail \/ lost[c]
  /\ GoSave(c, Failed(rec[c]), "failure")
  /\ UNCHANGED <<store, rec, entry, lost>>

(* save: renew the lease, read the record back, and write only over the    *)
(* revision the new record was built from.                                 *)
SaveConfirm(c) ==
  /\ pc[c] = "sv_confirm"
  /\ ~lost[c] /\ Claimable(c)
  /\ lease' = c
  /\ Goto(c, "sv_get")
  /\ UNCHANGED <<record, inbox, gclaim, rec, nxt, save, entry, lost, out>>

Lose(c) ==
  /\ lost' = [lost EXCEPT ![c] = TRUE]
  /\ GoEnd(c, "busy")
  /\ UNCHANGED entry

SaveFindsLost(c) ==
  /\ pc[c] = "sv_confirm"
  /\ lost[c] \/ ~Claimable(c)
  /\ Lose(c)
  /\ UNCHANGED <<store, rec>>

(* Mutant: a save that does not compare revisions. *)
FencedByNothing(c) == record # NoRecord

Fenced(c) == record # NoRecord /\ record.rev = nxt[c].rev

SaveGet(c) ==
  /\ pc[c] = "sv_get"
  /\ \/ Fenced(c) /\ Goto(c, "sv_set") /\ UNCHANGED <<nxt, save, entry, lost, out>>
     \/ ~Fenced(c) /\ Lose(c)
  /\ UNCHANGED <<store, rec>>

Saved(c) == [nxt[c] EXCEPT !.rev = @ + 1]

SaveSet(c) ==
  /\ pc[c] = "sv_set"
  /\ record' = Saved(c)
  /\ \/ save[c] = "rest" /\ Settle(c, Saved(c))
     \/ /\ save[c] # "rest"
        /\ rec' = [rec EXCEPT ![c] = Saved(c)]
        /\ \/ save[c] = "failure" /\ GoEnd(c, Thrown(lost[c], "error")) /\ UNCHANGED entry
           \/ save[c] = "shape_drive" /\ GoBody(c) /\ UNCHANGED entry
           \/ /\ save[c] = "shape_take_up"
              /\ GoSave(c, TakingUp(c, Saved(c), entry[c]), "take_up")
              /\ UNCHANGED entry
           \/ save[c] = "take_up" /\ Goto(c, "tk_delete") /\ UNCHANGED <<nxt, save, entry, out>>
  /\ UNCHANGED <<inbox, lease, gclaim, lost>>

(* lease.end, and the second look at the inbox once the lease is gone. *)
EndLease(c) ==
  /\ pc[c] = "end"
  /\ lease' = IF lease = c THEN Free ELSE lease
  /\ \/ out[c] = "suspended" /\ Goto(c, "recheck") /\ UNCHANGED <<rec, nxt, save, entry, lost, out>>
     \/ out[c] # "suspended" /\ Return(c, out[c])
  /\ UNCHANGED <<record, inbox, gclaim>>

(* Mutants of Recheck: no second look, and a second drive in any case. *)
RecheckNever(c) == pc[c] = "recheck" /\ Return(c, "suspended") /\ UNCHANGED store

RecheckAlways(c) ==
  /\ pc[c] = "recheck"
  /\ Goto(c, "claim")
  /\ UNCHANGED <<store, rec, nxt, save, entry, lost, out>>

Recheck(c) ==
  /\ pc[c] = "recheck"
  /\ \/ inbox[rec[c].gate] = NoDatum /\ Return(c, "suspended")
     \/ /\ inbox[rec[c].gate] # NoDatum
        /\ Goto(c, "claim")
        /\ UNCHANGED <<rec, nxt, save, entry, lost, out>>
  /\ UNCHANGED store

(* The renewal timer, while a call holds a lease.  A renewal that finds    *)
(* another owner marks the lease lost and aborts the drive.                *)
Holding ==
  {"start_load", "create", "load", "tk_inbox", "tk_delete", "body",
   "sv_confirm", "sv_get", "sv_set", "end"}

Renew(c) ==
  /\ pc[c] \in Holding
  /\ ~lost[c]
  /\ lease # c
  /\ \/ lease = Free /\ lease' = c /\ UNCHANGED lost
     \/ lease # Free /\ lost' = [lost EXCEPT ![c] = TRUE] /\ UNCHANGED lease
  /\ UNCHANGED <<record, inbox, gclaim, pc, rec, nxt, save, entry, out>>

----------------------------------------------------------------------------
(* delete_run: claim the lease, then clear the whole scope, claims too.    *)

(* Mutant: delete does not ask for the lease. *)
DeleteCallUnclaimed(c) ==
  /\ c \in Deletes /\ pc[c] = "new"
  /\ Goto(c, "d_clear")
  /\ UNCHANGED <<store, rec, nxt, save, entry, lost, out>>

DeleteCall(c) ==
  /\ c \in Deletes /\ pc[c] = "new"
  /\ \/ Claimable(c) /\ lease' = c /\ Goto(c, "d_clear")
        /\ UNCHANGED <<rec, nxt, save, entry, lost, out>>
     \/ ~Claimable(c) /\ Return(c, "not_deleted") /\ UNCHANGED lease
  /\ UNCHANGED <<record, inbox, gclaim>>

DeleteClear(c) ==
  /\ pc[c] = "d_clear"
  /\ record' = NoRecord
  /\ inbox' = [g \in Gates |-> NoDatum]
  /\ lease' = Free
  /\ gclaim' = [g \in Gates |-> Free]
  /\ Return(c, "deleted")

----------------------------------------------------------------------------
(* What goes wrong around the calls.                                       *)

(* A call's process dies between two steps. *)
Die(c) ==
  /\ c \in MayDie
  /\ pc[c] \notin {"new", "returned", "dead"}
  /\ Goto(c, "dead")
  /\ rec' = [rec EXCEPT ![c] = NoRecord]
  /\ nxt' = [nxt EXCEPT ![c] = NoRecord]
  /\ save' = [save EXCEPT ![c] = "none"]
  /\ entry' = [entry EXCEPT ![c] = NoDatum]
  /\ UNCHANGED <<store, lost, out>>

(* The store operation a call is making throws and has no effect.  Inside  *)
(* settle that ends the drive, inside deliver it still releases the gate's *)
(* claim, and everywhere else the call rejects at once.                    *)
StoreThrows(c) ==
  /\ c \in MayThrow
  /\ \/ /\ pc[c] \in Holding \ {"body", "end"}
        /\ GoEnd(c, Thrown(lost[c], "error"))
        /\ UNCHANGED <<rec, entry, lost>>
     \/ /\ pc[c] \in {"dl_inbox", "dl_record", "dl_set"}
        /\ Goto(c, "dl_release")
        /\ out' = [out EXCEPT ![c] = "error"]
        /\ UNCHANGED <<rec, nxt, save, entry, lost>>
     \/ /\ pc[c] \in {"new", "dl_claim", "dl_release", "claim", "end", "recheck", "d_clear"}
        /\ Return(c, "error")
  /\ UNCHANGED store

Expirable(c) == pc[c] = "dead" \/ pc[c] = "returned" \/ pc[c] \in StallAt

ExpireLease ==
  /\ lease # Free /\ Expirable(lease)
  /\ lease' = Free
  /\ UNCHANGED <<record, inbox, gclaim, locals>>

ExpireGateClaim(g) ==
  /\ gclaim[g] # Free /\ Expirable(gclaim[g])
  /\ gclaim' = [gclaim EXCEPT ![g] = Free]
  /\ UNCHANGED <<record, inbox, lease, locals>>

----------------------------------------------------------------------------

(* The steps a live call takes. *)
Step(c) ==
  \/ ResumeCall(c) \/ DeliverClaim(c) \/ DeliverReadInbox(c) \/ DeliverReadRecord(c)
  \/ DeliverSet(c) \/ DeliverRelease(c)
  \/ TakeLease(c) \/ FindBusy(c) \/ StartLoad(c) \/ Create(c) \/ Load(c)
  \/ TakeUpRead(c) \/ TakeUpDelete(c)
  \/ BodyRests(c) \/ BodyRefuses(c) \/ BodyThrows(c)
  \/ SaveConfirm(c) \/ SaveFindsLost(c) \/ SaveGet(c) \/ SaveSet(c)
  \/ EndLease(c) \/ Recheck(c)
  \/ DeleteCall(c) \/ DeleteClear(c)

Next ==
  \/ \E c \in Calls : Step(c)
  \/ \E c \in Calls : Renew(c)
  \/ \E c \in Calls : Die(c)
  \/ \E c \in Calls : StoreThrows(c)
  \/ ExpireLease
  \/ \E g \in Gates : ExpireGateClaim(g)

Spec == Init /\ [][Next]_vars

(* A live process keeps running: a call that was made goes on with its     *)
(* next step, and a claim whose owner is gone runs out.                    *)
Fairness ==
  /\ \A c \in Calls : WF_vars(pc[c] # "new" /\ Step(c))
  /\ WF_vars(ExpireLease)
  /\ \A g \in Gates : WF_vars(ExpireGateClaim(g))

FairSpec == Spec /\ Fairness

----------------------------------------------------------------------------
(* Properties.                                                             *)

(* Every variable has its type, and a record belongs to its run's gates.   *)
TypeOK ==
  /\ record \in Record \cup {NoRecord}
  /\ inbox \in [Gates -> Resumes \cup {NoDatum}]
  /\ lease \in Calls \cup {Free}
  /\ gclaim \in [Gates -> Calls \cup {Free}]
  /\ pc \in [Calls -> Points]
  /\ rec \in [Calls -> Record \cup {NoRecord}]
  /\ nxt \in [Calls -> Record \cup {NoRecord}]
  /\ save \in [Calls -> Saves]
  /\ entry \in [Calls -> Resumes \cup {NoDatum}]
  /\ lost \in [Calls -> BOOLEAN]
  /\ out \in [Calls -> Outcomes]

(* The revision fences every write (durable.ts, the head comment): a call  *)
(* about to write the record writes over the very record it last read, so  *)
(* a drive that stalled past its lease never writes over the drive that    *)
(* took the run from it, and a start never writes over a run that exists.  *)
NoLostUpdate ==
  \A c \in Calls :
    /\ pc[c] = "sv_set" => record = rec[c]
    /\ pc[c] = "create" => record = NoRecord

(* The revision counts the writes of a record: no write starts the count   *)
(* again, or goes over a record that somebody else wrote in between.       *)
RevisionCounts ==
  [][(record # NoRecord /\ record' \notin {record, NoRecord}) => record'.rev = record.rev + 1]_vars

(* One drive at a time: of the calls that stand between taking the lease   *)
(* and letting it go, and have not lost it, there is at most one.          *)
OneDriver ==
  \A c, d \in Calls :
    (c # d /\ pc[c] \in Holding \cup {"d_clear"} /\ pc[d] \in Holding \cup {"d_clear"})
      => lost[c] \/ lost[d]

(* A drive replays the record's checkpoints only with a flow of the        *)
(* record's shape: a changed flow fails loudly, or is adopted first.       *)
DrivesItsShape == \A c \in Calls : pc[c] = "body" => rec[c].flow = ShapeOf[c]

(* A repeated start changes nothing: the input of a run is that of the     *)
(* call that created it, for as long as the run exists.                    *)
InputIsFixed ==
  [][record # NoRecord /\ record' # NoRecord => record'.input = record.input]_vars

(* A finished run is never driven again, and its record never written.     *)
DoneIsFinal ==
  [][record # NoRecord /\ record.status = "done" => record' \in {record, NoRecord}]_vars

(* The first datum to reach a gate is the one it gets: once the record     *)
(* holds a datum its gate accepts, no other takes its place.               *)
TakenDatumIsKept ==
  [][\A g \in Gates :
       (record # NoRecord /\ record' # NoRecord /\ record.resume[g] \notin Refused \cup {NoDatum})
         => record'.resume[g] = record.resume[g]]_vars

(* Resume data is in the inbox or in the record, never in neither: a datum *)
(* its gate accepts leaves the inbox of a run that stays only once it is   *)
(* in the record.                                                          *)
NeverInNeither ==
  [][\A g \in Gates :
       (inbox[g] \notin Refused \cup {NoDatum} /\ inbox'[g] # inbox[g] /\ record' # NoRecord)
         => record'.resume[g] = inbox[g]]_vars

Quiet == \A c \in Calls : pc[c] \in {"new", "returned"}

(* A resume that reported on the run, busy or not, has handed its datum    *)
(* over: once every gate of the flow got such a resume, the run is done,   *)
(* unless it was deleted.                                                  *)
Handed(g) ==
  \E r \in Resumes \ Refused : GateFor[r] = g /\ out[r] \in {"done", "suspended", "busy"}

AnsweredRunIsDone ==
  ( /\ Quiet
    /\ record # NoRecord
    /\ \A d \in Deletes : pc[d] = "new"
    /\ \A i \in DOMAIN FlowOf[record.flow] : Handed(FlowOf[record.flow][i]) )
  => record.status = "done"

(* Every call comes to an end, however the others interleave with it: no   *)
(* call drives, or looks at the inbox and drives again, for ever.          *)
EveryCallReturns == \A c \in Calls : pc[c] # "new" ~> pc[c] \in {"returned", "dead"}

(* A datum that waits at the gate the run waits at is taken up.            *)
WaitingDatum(g) ==
  record # NoRecord /\ record.status = "suspended" /\ record.gate = g /\ inbox[g] # NoDatum

WaitingDatumIsTakenUp == \A g \in Gates : WaitingDatum(g) ~> ~WaitingDatum(g)

(* A drive runs the shape its record has, and resume data is in the inbox  *)
(* or in the record, never in neither (durable.ts: check_shape, take_up).  *)
DataMeetsItsFlow == []DrivesItsShape /\ NeverInNeither

(* One drive at a time, over a record of the run's own gates; and when all *)
(* is quiet, a run whose gates each got a datum is done.                   *)
RunsAreDriven == TypeOK /\ OneDriver /\ AnsweredRunIsDone
=============================================================================
