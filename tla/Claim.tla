------------------------------- MODULE Claim -------------------------------
(* What CheckpointStore promises of `claim` and `release` on one key       *)
(* (src/src/core/types.ts): the key belongs to one owner at a time, it is  *)
(* taken only when it is free, and a claim resolves true only for the      *)
(* owner of the key.  Durable rests on this module, and FsClaim            *)
(* implements it.                                                          *)

CONSTANTS Owners, Free

VARIABLES
  owner,  \* whose the key is, or Free
  held    \* the owners whose last claim resolved true and has not expired

vars == <<owner, held>>

Init == owner = Free /\ held = {}

(* A free key is taken. *)
Take(p) == owner = Free /\ owner' = p /\ UNCHANGED held

(* The claim of the key's owner resolves true. *)
Grant(p) == owner = p /\ held' = held \cup {p} /\ UNCHANGED owner

(* The owner stops counting on the key: it releases it, a renewal resolves *)
(* false or throws, or the time of its last claim is up.                   *)
GiveUp(p) == held' = held \ {p} /\ UNCHANGED owner

(* The key comes free once nobody counts on it any more. *)
Lapse == owner' = Free /\ held' = held \ {owner}

Next == Lapse \/ \E p \in Owners : Take(p) \/ Grant(p) \/ GiveUp(p)

Spec == Init /\ [][Next]_vars

=============================================================================
