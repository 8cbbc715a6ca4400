------------------------------ MODULE FsClaim ------------------------------
(* One claim of src/src/adapters/filesystem_store.ts: a directory of       *)
(* numbered generations whose newest file is the claim, and the owners     *)
(* that take, renew and release it, or hold it to clear the scope.  Every  *)
(* call of the file system is one step.                                    *)
(*                                                                         *)
(* An owner is used the way durable uses one: it claims a key once, renews *)
(* that claim while it holds, and ends by releasing it or by clearing the  *)
(* scope; an owner that lost its claim never asks again.                   *)
(*                                                                         *)
(* Time is not a number.  Each call of claim draws a stamp, its owner and  *)
(* the count of that owner's claims, and the set `expired` holds the       *)
(* stamps whose expires_at has passed.                                     *)
EXTENDS Integers, FiniteSets

CONSTANTS
  Owners,
  Clearers,   \* the owners that claim in order to clear the scope
  Casts,      \* the sets of owners that may take part together
  MaxClaims,  \* bound of the model: how often each owner calls claim
  Punctual,   \* whether a renewal writes, and a clear deletes, before the claim expires
  Free        \* the key has no live claim

ASSUME ClaimAssumption ==
  /\ IsFiniteSet(Owners)
  /\ MaxClaims \in [Owners -> Nat \ {0}]
  /\ Clearers \subseteq Owners
  /\ Casts \subseteq SUBSET Owners
  /\ Punctual \in BOOLEAN
  /\ Free \notin Owners

(* The stamp with n = 0 is that of a release, with expires_at 0. *)
Stamps == UNION {[owner : {p}, n : 0 .. MaxClaims[p]] : p \in Owners}
NoFile == [owner |-> Free, n |-> 0]

(* A generation is created for a stamp, and no stamp creates two. *)
Generations == 1 .. Cardinality({s \in Stamps : s.n > 0})

Points ==
  {"new", "list", "read", "renew", "renewed", "link", "linked", "prune_list", "prune",
   "idle", "r_list", "r_read", "r_write", "clear", "gone"}

VARIABLES
  dir,      \* whether the claim's directory exists
  file,     \* the content of each generation's file
  expired,  \* the stamps whose time has passed
  pc,       \* the next call of the file system an owner makes
  gen,      \* the generation it found, or is creating
  drawn,    \* how many stamps it has drawn
  granted,  \* the stamp of its last claim that resolved true, 0 when there is none
  stale     \* the generations its prune is still to delete

vars == <<dir, file, expired, pc, gen, drawn, granted, stale>>

Init ==
  /\ dir = FALSE
  /\ file = [g \in Generations |-> NoFile]
  /\ expired = {s \in Stamps : s.n = 0}
  /\ \E cast \in Casts : pc = [p \in Owners |-> IF p \in cast THEN "new" ELSE "gone"]
  /\ gen = [p \in Owners |-> 0]
  /\ drawn = [p \in Owners |-> 0]
  /\ granted = [p \in Owners |-> 0]
  /\ stale = [p \in Owners |-> {}]

----------------------------------------------------------------------------

Present == {g \in Generations : file[g] # NoFile}

(* latest_generation: 0 when the directory is empty or missing. *)
Latest == IF Present = {} THEN 0 ELSE CHOOSE g \in Present : \A h \in Present : h <= g

Stamp(p) == [owner |-> p, n |-> drawn[p]]

Content(g) == IF g = 0 THEN NoFile ELSE file[g]

(* The claim a file holds is live until its stamp expires. *)
Live(f) == f # NoFile /\ f \notin expired

(* An owner counts on the key from the claim that resolved true until the  *)
(* time of that claim is up.                                               *)
Counts(p) == granted[p] # 0 /\ [owner |-> p, n |-> granted[p]] \notin expired

Goto(p, point) == pc' = [pc EXCEPT ![p] = point]

(* claim resolves: true leaves the owner with its stamp, false with none.  *)
Resolve(p, ok) ==
  /\ Goto(p, IF ok THEN "idle" ELSE "gone")
  /\ granted' = [granted EXCEPT ![p] = IF ok THEN drawn[p] ELSE 0]

----------------------------------------------------------------------------
(* claim_in.                                                               *)

(* An owner claims for the first time, or renews: mkdir. *)
Claim(p) ==
  /\ pc[p] \in {"new", "idle"}
  /\ drawn[p] < MaxClaims[p]
  /\ dir' = TRUE
  /\ Goto(p, "list")
  /\ UNCHANGED <<file, expired, gen, drawn, granted, stale>>

List(p) ==
  /\ pc[p] = "list"
  /\ gen' = [gen EXCEPT ![p] = Latest]
  /\ Goto(p, "read")
  /\ UNCHANGED <<dir, file, expired, drawn, granted, stale>>

(* Read the newest generation and the clock, and decide.  A file that was  *)
(* pruned since reads as no claim at all.                                  *)
Read(p) ==
  /\ pc[p] = "read"
  /\ drawn' = [drawn EXCEPT ![p] = @ + 1]
  /\ LET current == Content(gen[p])
     IN  \/ /\ Live(current) /\ current.owner # p
            /\ Resolve(p, FALSE)
            /\ UNCHANGED gen
         \/ /\ Live(current) /\ current.owner = p
            /\ Goto(p, "renew")
            /\ UNCHANGED <<gen, granted>>
         \/ /\ ~Live(current)
            /\ Goto(p, "link")
            /\ gen' = [gen EXCEPT ![p] = @ + 1]
            /\ UNCHANGED granted
  /\ UNCHANGED <<dir, file, expired, stale>>

(* write_atomic: the rename puts the file there whatever was there before, *)
(* and throws when the directory is gone.                                  *)
Throw(p) ==
  /\ ~dir
  /\ Goto(p, "gone")
  /\ granted' = [granted EXCEPT ![p] = 0]
  /\ UNCHANGED <<dir, file, expired, gen, drawn, stale>>

Renew(p) ==
  /\ pc[p] = "renew"
  /\ \/ Throw(p)
     \/ /\ dir
        /\ file' = [file EXCEPT ![gen[p]] = Stamp(p)]
        /\ Goto(p, "renewed")
        /\ UNCHANGED <<dir, expired, gen, drawn, granted, stale>>

ConfirmRenewal(p) ==
  /\ pc[p] = "renewed"
  /\ Resolve(p, Latest = gen[p])
  /\ UNCHANGED <<dir, file, expired, gen, drawn, stale>>

Link(p) ==
  /\ pc[p] = "link"
  /\ \/ Throw(p)
     \/ /\ dir /\ file[gen[p]] # NoFile
        /\ Resolve(p, FALSE)
        /\ UNCHANGED <<dir, file, expired, gen, drawn, stale>>
     \/ /\ dir /\ file[gen[p]] = NoFile
        /\ file' = [file EXCEPT ![gen[p]] = Stamp(p)]
        /\ Goto(p, "linked")
        /\ UNCHANGED <<dir, expired, gen, drawn, granted, stale>>

ConfirmCreation(p) ==
  /\ pc[p] = "linked"
  /\ \/ Latest # gen[p] /\ Resolve(p, FALSE)
     \/ Latest = gen[p] /\ Goto(p, "prune_list") /\ UNCHANGED granted
  /\ UNCHANGED <<dir, file, expired, gen, drawn, stale>>

(* Mutant: prune counts the generation it just created among the old ones. *)
PruneListAll(p) ==
  /\ pc[p] = "prune_list"
  /\ stale' = [stale EXCEPT ![p] = {g \in Present : g <= gen[p]}]
  /\ Goto(p, "prune")
  /\ UNCHANGED <<dir, file, expired, gen, drawn, granted>>

PruneList(p) ==
  /\ pc[p] = "prune_list"
  /\ stale' = [stale EXCEPT ![p] = {g \in Present : g < gen[p]}]
  /\ Goto(p, "prune")
  /\ UNCHANGED <<dir, file, expired, gen, drawn, granted>>

Prune(p) ==
  /\ pc[p] = "prune"
  /\ \/ /\ \E g \in stale[p] :
             /\ file' = [file EXCEPT ![g] = NoFile]
             /\ stale' = [stale EXCEPT ![p] = @ \ {g}]
        /\ UNCHANGED <<pc, granted>>
     \/ /\ stale[p] = {}
        /\ Resolve(p, TRUE)
        /\ UNCHANGED <<file, stale>>
  /\ UNCHANGED <<dir, expired, gen, drawn>>

----------------------------------------------------------------------------
(* release_in.  The owner counts on nothing once it has called it.         *)

Release(p) ==
  /\ pc[p] = "idle" /\ p \notin Clearers
  /\ granted' = [granted EXCEPT ![p] = 0]
  /\ Goto(p, "r_list")
  /\ UNCHANGED <<dir, file, expired, gen, drawn, stale>>

ReleaseList(p) ==
  /\ pc[p] = "r_list"
  /\ gen' = [gen EXCEPT ![p] = Latest]
  /\ Goto(p, "r_read")
  /\ UNCHANGED <<dir, file, expired, drawn, granted, stale>>

ReleaseRead(p) ==
  /\ pc[p] = "r_read"
  /\ Goto(p, IF Content(gen[p]).owner = p THEN "r_write" ELSE "gone")
  /\ UNCHANGED <<dir, file, expired, gen, drawn, granted, stale>>

ReleaseWrite(p) ==
  /\ pc[p] = "r_write"
  /\ Goto(p, "gone")
  /\ file' = IF dir THEN [file EXCEPT ![gen[p]] = [owner |-> p, n |-> 0]] ELSE file
  /\ UNCHANGED <<dir, expired, gen, drawn, granted, stale>>

----------------------------------------------------------------------------

(* clear, by delete_run, which holds the claim: the directory goes. *)
Clear(p) ==
  /\ pc[p] = "idle" /\ p \in Clearers
  /\ Punctual => Counts(p)
  /\ dir' = FALSE
  /\ file' = [g \in Generations |-> NoFile]
  /\ granted' = [granted EXCEPT ![p] = 0]
  /\ Goto(p, "gone")
  /\ UNCHANGED <<expired, gen, drawn, stale>>

(* An owner's process dies. *)
Die(p) ==
  /\ pc[p] \notin {"new", "gone"}
  /\ Goto(p, "gone")
  /\ granted' = [granted EXCEPT ![p] = 0]
  /\ UNCHANGED <<dir, file, expired, gen, drawn, stale>>

(* A stamp's time passes, no later one of its owner's before it.  With     *)
(* Punctual it does not pass between a renewal's read of it and its write. *)
Renewing(s) == pc[s.owner] = "renew" /\ s.n < drawn[s.owner]

Expire(s) ==
  /\ s.n \in 1 .. drawn[s.owner] /\ s \notin expired
  /\ \A m \in 1 .. s.n - 1 : [owner |-> s.owner, n |-> m] \in expired
  /\ ~(Punctual /\ Renewing(s))
  /\ expired' = expired \cup {s}
  /\ UNCHANGED <<dir, file, pc, gen, drawn, granted, stale>>

----------------------------------------------------------------------------

Call(p) ==
  \/ Claim(p) \/ List(p) \/ Read(p) \/ Renew(p) \/ ConfirmRenewal(p)
  \/ Link(p) \/ ConfirmCreation(p) \/ PruneList(p) \/ Prune(p)
  \/ Release(p) \/ ReleaseList(p) \/ ReleaseRead(p) \/ ReleaseWrite(p)
  \/ Clear(p)

Next ==
  \/ \E p \in Owners : Call(p) \/ Die(p)
  \/ \E s \in Stamps : Expire(s)

Spec == Init /\ [][Next]_vars

----------------------------------------------------------------------------
(* Properties.                                                             *)

TypeOK ==
  /\ dir \in BOOLEAN
  /\ file \in [Generations -> Stamps \cup {NoFile}]
  /\ expired \subseteq Stamps
  /\ pc \in [Owners -> Points]
  /\ gen \in [Owners -> Generations \cup {0}]
  /\ drawn \in [Owners -> Nat] /\ granted \in [Owners -> Nat]
  /\ \A p \in Owners : granted[p] <= drawn[p] /\ drawn[p] <= MaxClaims[p]
  /\ stale \in [Owners -> SUBSET Generations]

LiveOwner == IF Live(Content(Latest)) THEN Content(Latest).owner ELSE Free

(* claim resolves false while another owner holds the key (types.ts): two  *)
(* owners never count on it at once.                                       *)
OneHolder == \A p, q \in Owners : Counts(p) /\ Counts(q) => p = q

(* A renewal written in time resolves true: no takeover, and no file of an *)
(* older generation that somebody writes late, takes the key from an owner *)
(* that renews it.                                                         *)
RenewalHolds ==
  \A p \in Owners : pc[p] = "renewed" /\ Stamp(p) \notin expired => Latest = gen[p]

(* The directory of generations is a claim: the owner of its newest live   *)
(* file owns the key, and changes only through nobody.                     *)
Contract == INSTANCE Claim WITH owner <- LiveOwner, held <- {p \in Owners : Counts(p)}

IsClaim == Contract!Spec

(* A claim is held by one owner at a time, who can renew it until it       *)
(* expires, and is otherwise a claim as Claim has it (filesystem_store.ts).*)
ClaimIsAsPromised == [](OneHolder /\ RenewalHolds) /\ IsClaim
=============================================================================
