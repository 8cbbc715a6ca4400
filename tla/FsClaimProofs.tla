--------------------------- MODULE FsClaimProofs ---------------------------
(* Proofs about FsClaim: the newest generation of a claim's directory is   *)
(* the claim, whoever creates, renews, prunes, releases or clears one when.*)
EXTENDS FsClaim, FiniteSetTheorems, FunctionTheorems, WellFoundedInduction, TLAPS

----------------------------------------------------------------------------
(* There are finitely many stamps, and so finitely many generations.       *)

LEMMA StampsFinite == IsFiniteSet(Stamps)
<1> DEFINE Of(p) == [owner : {p}, n : 0 .. MaxClaims[p]]
<1>1. ASSUME NEW p \in Owners
      PROVE  IsFiniteSet(Of(p))
  <2> DEFINE f == [i \in 0 .. MaxClaims[p] |-> [owner |-> p, n |-> i]]
  <2>1. IsFiniteSet(0 .. MaxClaims[p])
    BY FS_Interval, ClaimAssumption
  <2>2. f \in [0 .. MaxClaims[p] -> Of(p)]
    OBVIOUS
  <2>3. \A s \in Of(p) : s.n \in 0 .. MaxClaims[p] /\ f[s.n] = s
    OBVIOUS
  <2>4. f \in Surjection(0 .. MaxClaims[p], Of(p))
    BY <2>2, <2>3 DEF Surjection
  <2> QED BY <2>1, <2>4, FS_Surjection
<1> DEFINE all == {Of(p) : p \in Owners}
           g == [p \in Owners |-> Of(p)]
<1>2. g \in Surjection(Owners, all)
  BY DEF Surjection
<1>3. IsFiniteSet(all)
  BY <1>2, FS_Surjection, ClaimAssumption
<1>4. \A T \in all : IsFiniteSet(T)
  BY <1>1
<1>5. IsFiniteSet(UNION all)
  BY <1>3, <1>4, FS_UNION
<1> QED BY <1>5 DEF Stamps

(* What a stamp is made of. *)
LEMMA StampsAre ==
  /\ \A p \in Owners : \A n \in 0 .. MaxClaims[p] : [owner |-> p, n |-> n] \in Stamps
  /\ \A s \in Stamps : s.owner \in Owners /\ s.n \in 0 .. MaxClaims[s.owner] /\ s = [owner |-> s.owner, n |-> s.n]
  /\ NoFile \notin Stamps
BY ClaimAssumption DEF Stamps, NoFile

(* A generation is numbered below how many stamps claim draws. *)
Claimed == {s \in Stamps : s.n > 0}

LEMMA GenerationsAre == /\ IsFiniteSet(Claimed)
                        /\ Cardinality(Claimed) \in Nat
                        /\ Generations = 1 .. Cardinality(Claimed)
                        /\ Generations \subseteq Nat \ {0}
<1>1. Claimed \in SUBSET Stamps
  BY DEF Claimed
<1>2. IsFiniteSet(Claimed)
  BY <1>1, StampsFinite, FS_Subset
<1> QED BY <1>2, FS_CardinalityType DEF Generations, Claimed

----------------------------------------------------------------------------
(* The newest generation, and what a write or a deletion makes of it.      *)

Newest(T) == IF T = {} THEN 0 ELSE CHOOSE g \in T : \A h \in T : h <= g

(* A set of generations has a newest one. *)
LEMMA NewestExists ==
  ASSUME NEW T, T \subseteq Generations, T # {}
  PROVE  \E g \in T : \A h \in T : h <= g
<1> DEFINE N == Cardinality(Claimed)
           U == {i \in Nat : \E g \in T : i = N - g}
<1>1. N \in Nat /\ Generations = 1 .. N
  BY GenerationsAre
<1>2. PICK g0 \in T : TRUE
  OBVIOUS
<1>3. N - g0 \in U
  BY <1>1, <1>2
<1>4. U \subseteq Nat /\ U # {}
  BY <1>3
<1>5. PICK i \in U : \A j \in U : ~(<<j, i>> \in OpToRel(<, Nat))
  BY <1>4, WFMin, NatLessThanWellFounded
<1>6. \A j \in U : ~(j < i)
  BY <1>4, <1>5 DEF OpToRel
<1>7. PICK g \in T : i = N - g
  BY <1>5
<1>8. \A h \in T : N - h \in U
  BY <1>1
<1>9. \A h \in T : ~(N - h < N - g)
  BY <1>6, <1>7, <1>8
<1> HIDE DEF N, U
<1>10. \A h \in T : h \in Nat /\ g \in Nat
  BY <1>1
<1> QED BY <1>1, <1>9, <1>10

LEMMA NewestIs ==
  ASSUME NEW T, T \subseteq Generations
  PROVE  /\ T = {} => Newest(T) = 0
         /\ T # {} => Newest(T) \in T
         /\ \A h \in T : h <= Newest(T) /\ h >= 1
         /\ Newest(T) \in Nat
         /\ Newest(T) \in Generations \cup {0}
         /\ Newest(T) # 0 <=> T # {}
<1>1. T \subseteq Nat \ {0}
  BY GenerationsAre
<1>2. CASE T = {}
  BY <1>2 DEF Newest
<1>3. CASE T # {}
  <2>1. Newest(T) \in T /\ \A h \in T : h <= Newest(T)
    BY <1>3, NewestExists DEF Newest
  <2>2. Newest(T) \in Nat \ {0} /\ \A h \in T : h \in Nat \ {0}
    BY <1>1, <2>1
  <2>3. \A h \in T : h >= 1
    BY <2>2
  <2> QED BY <1>3, <2>1, <2>2, <2>3
<1> QED BY <1>2, <1>3

LEMMA NewestUnique ==
  ASSUME NEW T, T \subseteq Generations, NEW g \in T, \A h \in T : h <= g
  PROVE  Newest(T) = g
<1>1. Newest(T) \in T /\ g <= Newest(T) /\ Newest(T) <= g
  BY NewestIs
<1>2. g \in Nat /\ Newest(T) \in Nat
  BY <1>1, GenerationsAre
<1> HIDE DEF Newest
<1> QED BY <1>1, <1>2

LEMMA LatestIs ==
  /\ Present \subseteq Generations
  /\ Present = {} => Latest = 0
  /\ \A h \in Present : h <= Latest /\ h >= 1
  /\ Latest \in Nat
  /\ Latest \in Generations \cup {0}
  /\ Latest # 0 => Latest \in Present
  /\ Present # {} => Latest # 0
<1>1. Present \subseteq Generations /\ Latest = Newest(Present)
  BY DEF Present, Latest, Newest
<1> QED BY <1>1, NewestIs

(* A step that touches no file leaves the newest where it is. *)
LEMMA FilesStay ==
  ASSUME UNCHANGED file
  PROVE  Present' = Present /\ Latest' = Latest
BY DEF Present, Latest

(* So does one that touches none but older files than the newest. *)
LEMMA OlderFiles ==
  ASSUME Latest # 0, Latest \in Present', \A h \in Present' : h \in Present \/ h < Latest
  PROVE  Latest' = Latest
<1>1. Present' \subseteq Generations /\ Latest' = Newest(Present')
  BY DEF Present, Latest, Newest
<1>2. \A h \in Present' : h <= Latest
  BY LatestIs, GenerationsAre, <1>1
<1> QED BY <1>1, <1>2, NewestUnique

(* A file past the newest becomes the newest. *)
LEMMA NewerFile ==
  ASSUME NEW g \in Present', g > Latest, \A h \in Present' : h \in Present \/ h = g
  PROVE  Latest' = g
<1>1. Present' \subseteq Generations /\ Latest' = Newest(Present')
  BY DEF Present, Latest, Newest
<1>2. \A h \in Present' : h <= g
  BY LatestIs, GenerationsAre, <1>1
<1> QED BY <1>1, <1>2, NewestUnique

(* A set of owners, or of stamps, counts for no less than its part. *)
LEMMA Parts ==
  /\ \A T \in SUBSET Owners : IsFiniteSet(T) /\ Cardinality(T) \in Nat
  /\ \A T \in SUBSET Owners : \A S \in SUBSET T : Cardinality(S) <= Cardinality(T)
  /\ \A T \in SUBSET Claimed : IsFiniteSet(T) /\ Cardinality(T) \in Nat
  /\ \A T \in SUBSET Claimed : Cardinality(T) <= Cardinality(Claimed)
<1>1. IsFiniteSet(Owners) /\ IsFiniteSet(Claimed)
  BY ClaimAssumption, GenerationsAre
<1>2. \A T \in SUBSET Owners : IsFiniteSet(T)
  BY <1>1, FS_Subset
<1> QED BY <1>1, <1>2, FS_Subset, FS_CardinalityType

----------------------------------------------------------------------------
(* The inductive invariant. *)

At(p, n) == [owner |-> p, n |-> n]

(* A renewal is written, and a clear deletes, before the claim expires,    *)
(* and whoever clears the scope meets one other owner at most.             *)
Benign ==
  /\ Punctual
  /\ \A cast \in Casts : cast \cap Clearers = {} \/ \E p, q \in Owners : cast \subseteq {p, q}

(* The points at which an owner goes by a generation that it listed. *)
Looking == {"read", "renew", "renewed", "linked", "prune_list", "prune", "r_read", "r_write"}
Creating == {"renew", "renewed", "link", "linked", "prune_list", "prune", "r_write"}
Confirming == {"renewed", "prune_list", "prune"}
Past == {"new", "gone"}

Linkers == {p \in Owners : pc[p] = "link"}
Drawn == {s \in Claimed : s.n <= drawn[s.owner]}

(* An owner's stamps expire in their order, a release's at once.  *)
ExpiryInv ==
  \A p \in Owners :
    /\ At(p, 0) \in expired
    /\ \A n \in 1 .. MaxClaims[p] : \A m \in 1 .. n : At(p, n) \in expired => At(p, m) \in expired

OwnersInv ==
  /\ \E cast \in Casts : \A p \in Owners \ cast : pc[p] = "gone"
  /\ \A p \in Owners :
       /\ pc[p] \in Creating => gen[p] >= 1
       /\ pc[p] \in {"r_list", "r_read", "r_write"} => granted[p] = 0
       /\ pc[p] = "prune" => \A g \in stale[p] : g < gen[p]
       /\ pc[p] \in {"list", "read"} => drawn[p] < MaxClaims[p]

FilesInv ==
  /\ ~dir => Present = {}
  /\ ~dir => \/ \A p \in Owners : pc[p] \in Past
             \/ \E p \in Owners : \A q \in Owners \ {p} : pc[q] = "gone"
  /\ \A g \in Generations : file[g] # NoFile => file[g].n <= drawn[file[g].owner]

(* Generations are created for stamps that are drawn. *)
BoundInv ==
  /\ Latest + Cardinality(Linkers) <= Cardinality(Drawn)
  /\ \A p \in Owners :
       /\ pc[p] = "read" => gen[p] + Cardinality(Linkers) <= Cardinality(Drawn)
       /\ pc[p] = "link" => gen[p] <= Cardinality(Drawn)

NewestInv ==
  /\ dir => \A p \in Owners : pc[p] \in Looking => gen[p] <= Latest
  /\ dir => \A p \in Owners : pc[p] = "link" =>
       gen[p] <= Latest + 1 /\ (gen[p] = Latest + 1 => ~Live(Content(Latest)))
  /\ \A g \in Generations : Live(file[g]) =>
       \/ g = Latest
       \/ pc[file[g].owner] = "gone"
       \/ pc[file[g].owner] = "linked" /\ g = gen[file[g].owner]

HolderOf(p) ==
  /\ pc[p] = "renew" =>
       gen[p] = Latest /\ file[Latest].owner = p /\ Live(file[Latest]) /\ file[Latest].n < drawn[p]
  /\ pc[p] = "r_write" /\ gen[p] = Latest => file[Latest].owner = p
  /\ pc[p] \in Confirming \cup {"linked"} /\ gen[p] = Latest => file[Latest] = Stamp(p)
  /\ pc[p] \in Confirming /\ Stamp(p) \notin expired => gen[p] = Latest
  /\ Counts(p) => Latest # 0 /\ file[Latest].owner = p /\ file[Latest].n >= granted[p]

HolderInv == \A p \in Owners : HolderOf(p)

ClaimInv == TypeOK /\ ExpiryInv /\ OwnersInv /\ FilesInv /\ BoundInv /\ NewestInv /\ HolderInv

----------------------------------------------------------------------------
(* The steps that touch no file. *)

LEMMA InitHolds == Init => ClaimInv
<1> SUFFICES ASSUME Init PROVE ClaimInv
  OBVIOUS
<1>1. Present = {} /\ Latest = 0
  BY GenerationsAre DEF Init, Present, Latest
<1>2. Linkers = {} /\ Drawn = {}
  BY StampsAre, ClaimAssumption DEF Init, Linkers, Drawn, Claimed
<1>3. PICK cast \in Casts : pc = [p \in Owners |-> IF p \in cast THEN "new" ELSE "gone"]
  BY DEF Init
<1>4. TypeOK
  <2>1. expired \subseteq Stamps /\ file \in [Generations -> Stamps \cup {NoFile}]
    BY DEF Init
  <2>2. gen \in [Owners -> Generations \cup {0}] /\ drawn \in [Owners -> Nat] /\ granted \in [Owners -> Nat]
    BY DEF Init
  <2>3. \A p \in Owners : granted[p] <= drawn[p] /\ drawn[p] <= MaxClaims[p]
    BY ClaimAssumption DEF Init
  <2>4. pc \in [Owners -> Points] /\ dir \in BOOLEAN /\ stale \in [Owners -> SUBSET Generations]
    BY <1>3 DEF Init, Points
  <2> QED BY <2>1, <2>2, <2>3, <2>4 DEF TypeOK
<1>5. ExpiryInv
  BY StampsAre, ClaimAssumption DEF Init, ExpiryInv, At
<1>6. OwnersInv
  BY <1>3 DEF Init, OwnersInv, Creating, Confirming
<1>7. FilesInv
  BY <1>1, <1>3 DEF Init, FilesInv, Past
<1>8. BoundInv
  BY <1>1, <1>2, <1>3, FS_EmptySet DEF BoundInv
<1>9. NewestInv
  BY <1>3 DEF Init, NewestInv, Looking, Live
<1>10. HolderInv
  BY <1>3 DEF Init, HolderInv, HolderOf, Confirming, Counts
<1> QED BY <1>4, <1>5, <1>6, <1>7, <1>8, <1>9, <1>10 DEF ClaimInv

LEMMA ClaimStep ==
  ASSUME ClaimInv, Benign, NEW p \in Owners, Claim(p)
  PROVE  ClaimInv'
<1> USE DEF ClaimInv, Claim, Goto
<1>1. Present' = Present /\ Latest' = Latest
  BY FilesStay
<1>2. Linkers' = Linkers /\ Drawn' = Drawn
  BY DEF Linkers, Drawn, Claimed, TypeOK
<1>3. TypeOK'
  BY DEF TypeOK, Points
<1>4. ExpiryInv'
  BY DEF ExpiryInv, At
<1>5. OwnersInv'
  BY DEF OwnersInv, Creating, Confirming, TypeOK
<1>6. FilesInv'
  BY <1>1 DEF FilesInv, Past, TypeOK
<1>7. BoundInv'
  BY <1>1, <1>2 DEF BoundInv, TypeOK
<1>8. NewestInv'
  BY <1>1, LatestIs DEF NewestInv, Looking, Live, Content, TypeOK, FilesInv, Past
<1>9. HolderInv'
  BY <1>1 DEF HolderInv, HolderOf, Confirming, Counts, Stamp, TypeOK, Live
<1> QED BY <1>3, <1>4, <1>5, <1>6, <1>7, <1>8, <1>9

LEMMA ListStep ==
  ASSUME ClaimInv, Benign, NEW p \in Owners, List(p)
  PROVE  ClaimInv'
<1> USE DEF ClaimInv, List, Goto
<1>1. Present' = Present /\ Latest' = Latest
  BY FilesStay
<1>2. Linkers' = Linkers /\ Drawn' = Drawn
  BY DEF Linkers, Drawn, Claimed, TypeOK
<1>3. TypeOK'
  BY LatestIs DEF TypeOK, Points
<1>4. ExpiryInv'
  BY DEF ExpiryInv, At
<1>5. OwnersInv'
  BY DEF OwnersInv, Creating, Confirming, TypeOK
<1>6. FilesInv'
  BY <1>1 DEF FilesInv, Past, TypeOK
<1>7. BoundInv'
  BY <1>1, <1>2 DEF BoundInv, TypeOK
<1>8. NewestInv'
  <2>1. /\ \A q \in Owners : q # p => pc'[q] = pc[q] /\ gen'[q] = gen[q]
        /\ pc'[p] = "read" /\ gen'[p] = Latest
    BY DEF TypeOK
  <2>2. \A g \in Generations : Live(file[g]) => file[g].owner \in Owners
    BY StampsAre DEF TypeOK, Live
  <2>3. Content(Latest)' = Content(Latest)
    BY <1>1 DEF Content
  <2> QED BY <1>1, <2>1, <2>2, <2>3, LatestIs DEF NewestInv, Looking, Live
<1>9. HolderInv'
  BY <1>1, LatestIs DEF HolderInv, HolderOf, Confirming, Counts, Stamp, TypeOK, Live
<1> QED BY <1>3, <1>4, <1>5, <1>6, <1>7, <1>8, <1>9

LEMMA ConfirmRenewalStep ==
  ASSUME ClaimInv, Benign, NEW p \in Owners, ConfirmRenewal(p)
  PROVE  ClaimInv'
<1> USE DEF ClaimInv, ConfirmRenewal, Goto, Resolve
<1>1. Present' = Present /\ Latest' = Latest
  BY FilesStay
<1>2. Linkers' = Linkers /\ Drawn' = Drawn
  BY DEF Linkers, Drawn, Claimed, TypeOK
<1>3. TypeOK'
  BY LatestIs DEF TypeOK, Points
<1>4. ExpiryInv'
  BY DEF ExpiryInv, At
<1>5. OwnersInv'
  BY DEF OwnersInv, Creating, Confirming, TypeOK
<1>6. FilesInv'
  BY <1>1 DEF FilesInv, Past, TypeOK
<1>7. BoundInv'
  BY <1>1, <1>2 DEF BoundInv, TypeOK
<1>8. NewestInv'
  BY <1>1, LatestIs DEF NewestInv, Looking, Live, Content, TypeOK, FilesInv, Past
<1>9. HolderInv'
  <2>1. CASE Latest = gen[p]
    <3>1. pc'[p] = "idle" /\ granted'[p] = drawn[p] /\ \A q \in Owners : q # p => pc'[q] = pc[q] /\ granted'[q] = granted[q]
      BY <2>1 DEF TypeOK
    <3>2. Latest # 0 /\ file[Latest] = Stamp(p)
      BY <2>1, GenerationsAre DEF HolderInv, HolderOf, Confirming, OwnersInv, Creating, TypeOK
    <3>3. file[Latest].owner = p /\ file[Latest].n >= granted'[p]
      BY <3>1, <3>2 DEF Stamp, TypeOK
    <3> QED BY <1>1, <3>1, <3>2, <3>3, LatestIs DEF HolderInv, HolderOf, Confirming, Counts, Stamp, Live
  <2>2. CASE Latest # gen[p]
    BY <1>1, <2>2, LatestIs DEF HolderInv, HolderOf, Confirming, Counts, Stamp, TypeOK, Live
  <2> QED BY <2>1, <2>2
<1> QED BY <1>3, <1>4, <1>5, <1>6, <1>7, <1>8, <1>9

LEMMA ConfirmCreationStep ==
  ASSUME ClaimInv, Benign, NEW p \in Owners, ConfirmCreation(p)
  PROVE  ClaimInv'
<1> USE DEF ClaimInv, ConfirmCreation, Goto, Resolve
<1>1. Present' = Present /\ Latest' = Latest
  BY FilesStay
<1>2. Linkers' = Linkers /\ Drawn' = Drawn
  BY DEF Linkers, Drawn, Claimed, TypeOK
<1>3. TypeOK'
  BY LatestIs DEF TypeOK, Points
<1>4. ExpiryInv'
  BY DEF ExpiryInv, At
<1>5. OwnersInv'
  BY DEF OwnersInv, Creating, Confirming, TypeOK
<1>6. FilesInv'
  BY <1>1 DEF FilesInv, Past, TypeOK
<1>7. BoundInv'
  BY <1>1, <1>2 DEF BoundInv, TypeOK
<1>8. NewestInv'
  <2>1. \A q \in Owners : q # p => pc'[q] = pc[q]
    BY DEF TypeOK
  <2>2. \/ pc'[p] = "gone"
        \/ pc'[p] = "prune_list" /\ gen[p] = Latest
    BY DEF TypeOK
  <2>3. \A g \in Generations : Live(file[g]) => file[g].owner \in Owners
    BY StampsAre DEF TypeOK, Live
  <2> QED BY <1>1, <2>1, <2>2, <2>3, LatestIs DEF NewestInv, Looking, Live, Content
<1>9. HolderInv'
  <2>1. \A q \in Owners : q # p => pc'[q] = pc[q] /\ granted'[q] = granted[q]
    BY DEF TypeOK
  <2>2. \/ pc'[p] = "gone" /\ granted'[p] = 0
        \/ pc'[p] = "prune_list" /\ gen[p] = Latest /\ granted'[p] = granted[p]
    BY DEF TypeOK
  <2> QED BY <1>1, <2>1, <2>2, LatestIs DEF HolderInv, HolderOf, Confirming, Counts, Stamp, Live
<1> QED BY <1>3, <1>4, <1>5, <1>6, <1>7, <1>8, <1>9

LEMMA PruneListStep ==
  ASSUME ClaimInv, Benign, NEW p \in Owners, PruneList(p)
  PROVE  ClaimInv'
<1> USE DEF ClaimInv, PruneList, Goto
<1>1. Present' = Present /\ Latest' = Latest
  BY FilesStay
<1>2. Linkers' = Linkers /\ Drawn' = Drawn
  BY DEF Linkers, Drawn, Claimed, TypeOK
<1>3. TypeOK'
  BY LatestIs DEF TypeOK, Points
<1>4. ExpiryInv'
  BY DEF ExpiryInv, At
<1>5. OwnersInv'
  BY DEF OwnersInv, Creating, Confirming, TypeOK
<1>6. FilesInv'
  BY <1>1 DEF FilesInv, Past, TypeOK
<1>7. BoundInv'
  BY <1>1, <1>2 DEF BoundInv, TypeOK
<1>8. NewestInv'
  BY <1>1, LatestIs DEF NewestInv, Looking, Live, Content, TypeOK, FilesInv, Past
<1>9. HolderInv'
  BY <1>1, LatestIs DEF HolderInv, HolderOf, Confirming, Counts, Stamp, TypeOK, Live
<1> QED BY <1>3, <1>4, <1>5, <1>6, <1>7, <1>8, <1>9

LEMMA ReleaseStep ==
  ASSUME ClaimInv, Benign, NEW p \in Owners, Release(p)
  PROVE  ClaimInv'
<1> USE DEF ClaimInv, Release, Goto
<1>1. Present' = Present /\ Latest' = Latest
  BY FilesStay
<1>2. Linkers' = Linkers /\ Drawn' = Drawn
  BY DEF Linkers, Drawn, Claimed, TypeOK
<1>3. TypeOK'
  BY LatestIs DEF TypeOK, Points
<1>4. ExpiryInv'
  BY DEF ExpiryInv, At
<1>5. OwnersInv'
  BY DEF OwnersInv, Creating, Confirming, TypeOK
<1>6. FilesInv'
  BY <1>1 DEF FilesInv, Past, TypeOK
<1>7. BoundInv'
  BY <1>1, <1>2 DEF BoundInv, TypeOK
<1>8. NewestInv'
  BY <1>1, LatestIs DEF NewestInv, Looking, Live, Content, TypeOK, FilesInv, Past
<1>9. HolderInv'
  BY <1>1, LatestIs, ZenonT(40) DEF HolderInv, HolderOf, Confirming, Counts, Stamp, TypeOK, Live
<1> QED BY <1>3, <1>4, <1>5, <1>6, <1>7, <1>8, <1>9

LEMMA ReleaseListStep ==
  ASSUME ClaimInv, Benign, NEW p \in Owners, ReleaseList(p)
  PROVE  ClaimInv'
<1> USE DEF ClaimInv, ReleaseList, Goto
<1>1. Present' = Present /\ Latest' = Latest
  BY FilesStay
<1>2. Linkers' = Linkers /\ Drawn' = Drawn
  BY DEF Linkers, Drawn, Claimed, TypeOK
<1>3. TypeOK'
  BY LatestIs DEF TypeOK, Points
<1>4. ExpiryInv'
  BY DEF ExpiryInv, At
<1>5. OwnersInv'
  BY DEF OwnersInv, Creating, Confirming, TypeOK
<1>6. FilesInv'
  BY <1>1 DEF FilesInv, Past, TypeOK
<1>7. BoundInv'
  BY <1>1, <1>2 DEF BoundInv, TypeOK
<1>8. NewestInv'
  BY <1>1, LatestIs DEF NewestInv, Looking, Live, Content, TypeOK, FilesInv, Past
<1>9. HolderInv'
  BY <1>1, LatestIs DEF HolderInv, HolderOf, Confirming, Counts, Stamp, TypeOK, Live
<1> QED BY <1>3, <1>4, <1>5, <1>6, <1>7, <1>8, <1>9

LEMMA ReleaseReadStep ==
  ASSUME ClaimInv, Benign, NEW p \in Owners, ReleaseRead(p)
  PROVE  ClaimInv'
<1> USE DEF ClaimInv, ReleaseRead, Goto
<1>1. Present' = Present /\ Latest' = Latest
  BY FilesStay
<1>2. Linkers' = Linkers /\ Drawn' = Drawn
  BY DEF Linkers, Drawn, Claimed, TypeOK
<1>3. TypeOK'
  BY LatestIs DEF TypeOK, Points
<1>4. ExpiryInv'
  BY DEF ExpiryInv, At
<1>5. OwnersInv'
  <2>1. pc'[p] = "r_write" => gen[p] >= 1
    BY GenerationsAre, ClaimAssumption DEF TypeOK, Content, NoFile
  <2> QED BY <2>1 DEF OwnersInv, Creating, Confirming, TypeOK
<1>6. FilesInv'
  BY <1>1 DEF FilesInv, Past, TypeOK
<1>7. BoundInv'
  BY <1>1, <1>2 DEF BoundInv, TypeOK
<1>8. NewestInv'
  BY <1>1, LatestIs DEF NewestInv, Looking, Live, Content, TypeOK, FilesInv, Past
<1>9. HolderInv'
  <2>1. pc'[p] = "r_write" => file[gen[p]].owner = p
    BY GenerationsAre, ClaimAssumption DEF TypeOK, Content, NoFile
  <2>2. \A q \in Owners : q # p => pc'[q] = pc[q]
    BY DEF TypeOK
  <2>3. pc'[p] \in {"r_write", "gone"}
    BY DEF TypeOK
  <2> QED BY <1>1, <2>1, <2>2, <2>3, LatestIs DEF HolderInv, HolderOf, Confirming, Counts, Stamp, TypeOK, Live
<1> QED BY <1>3, <1>4, <1>5, <1>6, <1>7, <1>8, <1>9

(* An owner leaves what it was at, with nothing granted. *)
LEMMA LeaveStep ==
  ASSUME ClaimInv, Benign, NEW p \in Owners, Goto(p, "gone"), pc[p] # "new",
         granted' = [granted EXCEPT ![p] = 0],
         UNCHANGED <<dir, file, expired, gen, drawn, stale>>
  PROVE  ClaimInv'
<1> USE DEF ClaimInv, Goto
<1>1. Present' = Present /\ Latest' = Latest
  BY FilesStay
<1>2. Linkers' \subseteq Linkers /\ Drawn' = Drawn
  BY DEF Linkers, Drawn, Claimed, TypeOK
<1>3. TypeOK'
  BY LatestIs DEF TypeOK, Points
<1>4. ExpiryInv'
  BY DEF ExpiryInv, At
<1>5. OwnersInv'
  BY DEF OwnersInv, Creating, Confirming, TypeOK
<1>6. FilesInv'
  BY <1>1 DEF FilesInv, Past, TypeOK
<1>7. BoundInv'
  <2>1. Cardinality(Linkers') <= Cardinality(Linkers) /\ Cardinality(Linkers) \in Nat /\ Cardinality(Linkers') \in Nat
    BY <1>2, Parts DEF Linkers
  <2>2. Drawn \in SUBSET Claimed
    BY DEF Drawn
  <2>3. Cardinality(Drawn) \in Nat
    BY <2>2, Parts
  <2>4. \A q \in Owners : gen[q] \in Nat
    BY GenerationsAre DEF TypeOK
  <2>5. \A q \in Owners : q # p => pc'[q] = pc[q]
    BY DEF TypeOK
  <2>6. pc'[p] = "gone"
    BY DEF TypeOK
  <2> QED BY <1>1, <1>2, <2>1, <2>3, <2>4, <2>5, <2>6, LatestIs DEF BoundInv
<1>8. NewestInv'
  BY <1>1, LatestIs DEF NewestInv, Looking, Live, Content, TypeOK, FilesInv, Past
<1>9. HolderInv'
  BY <1>1, LatestIs DEF HolderInv, HolderOf, Confirming, Counts, Stamp, TypeOK, Live
<1> QED BY <1>3, <1>4, <1>5, <1>6, <1>7, <1>8, <1>9

LEMMA DieStep ==
  ASSUME ClaimInv, Benign, NEW p \in Owners, Die(p)
  PROVE  ClaimInv'
BY LeaveStep DEF Die

LEMMA ThrowStep ==
  ASSUME ClaimInv, Benign, NEW p \in Owners, Throw(p), pc[p] # "new"
  PROVE  ClaimInv'
BY LeaveStep DEF Throw

(* A stamp is drawn, and may be the one of a generation to create. *)
LEMMA DrawnGrows ==
  ASSUME TypeOK, NEW p \in Owners, drawn[p] < MaxClaims[p], drawn' = [drawn EXCEPT ![p] = @ + 1]
  PROVE  /\ Cardinality(Drawn') = Cardinality(Drawn) + 1
         /\ Drawn' \in SUBSET Claimed /\ Drawn \in SUBSET Claimed
<1> USE DEF TypeOK
<1> DEFINE s == At(p, drawn[p] + 1)
<1>0. drawn[p] + 1 \in 0 .. MaxClaims[p] /\ drawn[p] + 1 > 0 /\ ~(drawn[p] + 1 <= drawn[p])
  <2>1. drawn[p] \in Nat /\ MaxClaims[p] \in Nat
    BY ClaimAssumption
  <2> QED BY <2>1
<1>1. s \in Claimed /\ s \notin Drawn
  <2>1. s \in Stamps
    BY <1>0, StampsAre DEF At
  <2>2. s.owner = p /\ s.n = drawn[p] + 1
    BY DEF At
  <2> QED BY <1>0, <2>1, <2>2 DEF Claimed, Drawn
<1>2. \A t \in Claimed : t.owner \in Owners /\ t.n \in Nat /\ t = At(t.owner, t.n)
  BY StampsAre, ClaimAssumption DEF At, Claimed
<1>3. \A t \in Claimed : t.n <= drawn'[t.owner] <=> (t.n <= drawn[t.owner] \/ t = s)
  BY <1>2 DEF At
<1>4. Drawn' = Drawn \cup {s}
  BY <1>1, <1>3 DEF Drawn, Claimed
<1>5. Drawn' \in SUBSET Claimed /\ Drawn \in SUBSET Claimed
  BY DEF Drawn, Claimed
<1>6. IsFiniteSet(Drawn)
  BY <1>5, Parts
<1> QED BY <1>1, <1>4, <1>5, <1>6, FS_AddElement

LEMMA ReadStep ==
  ASSUME ClaimInv, Benign, NEW p \in Owners, Read(p)
  PROVE  ClaimInv'
<1> USE DEF ClaimInv, Read, Goto, Resolve
<1> DEFINE current == Content(gen[p])
<1>1. Present' = Present /\ Latest' = Latest
  BY FilesStay
<1>2. /\ \A q \in Owners : q # p => pc'[q] = pc[q] /\ granted'[q] = granted[q] /\ gen'[q] = gen[q] /\ drawn'[q] = drawn[q]
      /\ drawn'[p] = drawn[p] + 1
      /\ drawn[p] < MaxClaims[p]
      /\ pc[p] = "read"
  BY DEF TypeOK, OwnersInv
<1>3. \/ pc'[p] = "gone" /\ granted'[p] = 0 /\ gen'[p] = gen[p]
      \/ pc'[p] = "renew" /\ granted'[p] = granted[p] /\ gen'[p] = gen[p] /\ Live(current) /\ current.owner = p
      \/ pc'[p] = "link" /\ granted'[p] = granted[p] /\ gen'[p] = gen[p] + 1 /\ ~Live(current)
  BY DEF TypeOK
<1>4. /\ Cardinality(Drawn') = Cardinality(Drawn) + 1
      /\ Cardinality(Drawn) \in Nat
      /\ Cardinality(Drawn') <= Cardinality(Claimed)
  BY <1>2, DrawnGrows, Parts
<1>5. /\ Cardinality(Linkers) \in Nat /\ Cardinality(Linkers') \in Nat
      /\ Cardinality(Linkers') <= Cardinality(Linkers) + 1
  <2>1. Linkers' \in SUBSET (Linkers \cup {p}) /\ Linkers \cup {p} \in SUBSET Owners /\ Linkers \in SUBSET Owners
    BY <1>2 DEF Linkers
  <2>2. IsFiniteSet(Linkers)
    BY <2>1, Parts
  <2>3. p \notin Linkers
    BY <1>2 DEF Linkers
  <2>4. Cardinality(Linkers \cup {p}) = Cardinality(Linkers) + 1
    BY <2>2, <2>3, FS_AddElement
  <2>5. Cardinality(Linkers') <= Cardinality(Linkers \cup {p})
    BY <2>1, Parts
  <2>6. Cardinality(Linkers) \in Nat /\ Cardinality(Linkers') \in Nat
    BY <2>1, Parts
  <2> QED BY <2>4, <2>5, <2>6
<1>6. \A q \in Owners : gen[q] \in Nat
  BY GenerationsAre DEF TypeOK
<1>7. BoundInv'
  BY <1>1, <1>2, <1>3, <1>4, <1>5, <1>6, LatestIs DEF BoundInv
<1>8. gen[p] + 1 \in Generations
  BY <1>2, <1>4, <1>5, <1>6, GenerationsAre DEF BoundInv
<1>9. TypeOK'
  <2>1. gen' \in [Owners -> Generations \cup {0}]
    BY <1>8 DEF TypeOK
  <2>2. drawn' \in [Owners -> Nat] /\ granted' \in [Owners -> Nat]
    BY DEF TypeOK
  <2>3. granted'[p] <= drawn'[p] /\ drawn'[p] <= MaxClaims[p]
    <3>1. drawn[p] \in Nat /\ MaxClaims[p] \in Nat /\ granted[p] \in Nat /\ granted[p] <= drawn[p]
      BY ClaimAssumption DEF TypeOK
    <3>2. granted'[p] \in {0, granted[p]} /\ drawn'[p] = drawn[p] + 1 /\ drawn[p] < MaxClaims[p]
      BY <1>2, <1>3
    <3> HIDE DEF Read, ClaimInv
    <3> QED BY <3>1, <3>2
  <2>4. \A q \in Owners : granted'[q] <= drawn'[q] /\ drawn'[q] <= MaxClaims[q]
    BY <1>2, <2>3 DEF TypeOK
  <2>5. pc' \in [Owners -> Points]
    BY DEF TypeOK, Points
  <2> QED BY <2>1, <2>2, <2>4, <2>5 DEF TypeOK
<1>10. ExpiryInv'
  BY DEF ExpiryInv, At
<1>11. OwnersInv'
  <2>1. pc'[p] \in Creating => gen'[p] >= 1
    BY <1>3, <1>6, GenerationsAre, ClaimAssumption DEF Content, NoFile, Live, TypeOK, Creating
  <2> QED BY <1>2, <1>3, <2>1 DEF OwnersInv, Creating, TypeOK
<1>12. FilesInv'
  <2>1. \A g \in Generations : file[g] # NoFile => file[g].owner \in Owners /\ file[g].n \in Nat
    BY StampsAre, ClaimAssumption DEF TypeOK
  <2> QED BY <1>1, <1>2, <1>3, <2>1 DEF FilesInv, Past, TypeOK
<1>13. NewestInv'
  <2>1. \A g \in Generations : Live(file[g]) => file[g].owner \in Owners
    BY StampsAre DEF TypeOK, Live
  <2> QED BY <1>1, <1>2, <1>3, <1>6, <2>1, LatestIs DEF NewestInv, Looking, Live, Content
<1>14. HolderInv'
  <2>1. pc'[p] = "renew" => gen[p] = Latest /\ file[Latest].owner = p /\ Live(file[Latest]) /\ file[Latest].n < drawn'[p]
    <3> SUFFICES ASSUME pc'[p] = "renew" PROVE gen[p] = Latest /\ file[Latest].owner = p /\ Live(file[Latest]) /\ file[Latest].n < drawn'[p]
      OBVIOUS
    <3>1. gen[p] \in Generations /\ Live(file[gen[p]]) /\ file[gen[p]].owner = p
      BY <1>3, ClaimAssumption DEF Content, NoFile, Live, TypeOK
    <3>2. gen[p] = Latest
      BY <1>2, <3>1 DEF NewestInv
    <3>3. file[gen[p]].n <= drawn[p] /\ file[gen[p]].n \in Nat
      BY <3>1, StampsAre, ClaimAssumption DEF FilesInv, Live, TypeOK
    <3> QED BY <1>2, <3>1, <3>2, <3>3 DEF TypeOK
  <2>2. file' = file /\ expired' = expired
    OBVIOUS
  <2>3. pc'[p] \in {"gone", "renew", "link"} /\ granted'[p] \in {0, granted[p]} /\ (pc'[p] = "renew" => gen'[p] = gen[p])
    BY <1>3
  <2> HIDE DEF Read
  <2> QED BY <1>1, <1>2, <2>1, <2>2, <2>3 DEF HolderInv, HolderOf, Confirming, Counts, Stamp, Live
<1> QED BY <1>7, <1>9, <1>10, <1>11, <1>12, <1>13, <1>14

----------------------------------------------------------------------------
(* The steps that touch a file. *)

(* A renewal that is written puts its stamp into the newest file. *)
LEMMA RenewWrites ==
  ASSUME ClaimInv, NEW p \in Owners, Renew(p), ~Throw(p)
  PROVE  /\ pc[p] = "renew" /\ pc' = [pc EXCEPT ![p] = "renewed"]
         /\ dir /\ UNCHANGED <<dir, expired, gen, drawn, granted, stale>>
         /\ gen[p] = Latest /\ Latest \in Generations /\ Latest # 0
         /\ file[Latest].owner = p /\ Live(file[Latest]) /\ file[Latest].n < drawn[p]
         /\ Stamp(p) \in Stamps /\ Stamp(p) # NoFile /\ Stamp(p).owner = p /\ Stamp(p).n = drawn[p]
         /\ file' = [file EXCEPT ![Latest] = Stamp(p)] /\ Present' = Present /\ Latest' = Latest
         /\ file'[Latest] = Stamp(p) /\ \A g \in Generations : g # Latest => file'[g] = file[g]
<1> USE DEF ClaimInv
<1>0. /\ pc[p] = "renew" /\ dir
      /\ file' = [file EXCEPT ![gen[p]] = Stamp(p)]
      /\ pc' = [pc EXCEPT ![p] = "renewed"]
      /\ UNCHANGED <<dir, expired, gen, drawn, granted, stale>>
  BY DEF Renew, Goto
<1>1. /\ gen[p] = Latest /\ gen[p] \in Generations /\ Latest \in Present
      /\ file[Latest].owner = p /\ Live(file[Latest]) /\ file[Latest].n < drawn[p]
  BY <1>0, GenerationsAre, LatestIs DEF HolderInv, HolderOf, OwnersInv, Creating, TypeOK
<1>2. Stamp(p) \in Stamps /\ Stamp(p) # NoFile /\ Stamp(p).owner = p /\ Stamp(p).n = drawn[p]
  BY StampsAre, ClaimAssumption DEF Stamp, TypeOK
<1>3. Present' = Present
  BY <1>0, <1>1, <1>2 DEF Present, TypeOK
<1>4. Latest' = Latest
  BY <1>1, <1>3, OlderFiles, LatestIs
<1>5. /\ file'[Latest] = Stamp(p)
      /\ \A g \in Generations : g # Latest => file'[g] = file[g]
  BY <1>0, <1>1 DEF TypeOK
<1> QED BY <1>0, <1>1, <1>2, <1>3, <1>4, <1>5, GenerationsAre

LEMMA RenewStep ==
  ASSUME ClaimInv, Benign, NEW p \in Owners, Renew(p)
  PROVE  ClaimInv'
<1> USE DEF ClaimInv
<1>1. CASE Throw(p)
  BY <1>1, ThrowStep DEF Renew
<1>2. CASE ~Throw(p)
  <2>0. /\ pc[p] = "renew" /\ dir
        /\ file' = [file EXCEPT ![Latest] = Stamp(p)]
        /\ pc' = [pc EXCEPT ![p] = "renewed"]
        /\ UNCHANGED <<dir, expired, gen, drawn, granted, stale>>
    BY <1>2, RenewWrites
  <2>1. /\ gen[p] = Latest /\ Latest \in Generations
        /\ file[Latest].owner = p /\ Live(file[Latest]) /\ file[Latest].n < drawn[p]
    BY <1>2, RenewWrites
  <2>2. Stamp(p) \in Stamps /\ Stamp(p) # NoFile /\ Stamp(p).owner = p /\ Stamp(p).n = drawn[p]
    BY <1>2, RenewWrites
  <2>3. Present' = Present
    BY <1>2, RenewWrites
  <2>4. Latest' = Latest
    BY <1>2, RenewWrites
  <2>5. /\ file'[Latest] = Stamp(p)
        /\ \A g \in Generations : g # Latest => file'[g] = file[g]
    BY <1>2, RenewWrites
  <2>6. /\ \A q \in Owners : q # p => pc'[q] = pc[q]
        /\ pc'[p] = "renewed"
    BY <2>0 DEF TypeOK
  <2>7. Linkers' = Linkers /\ Drawn' = Drawn
    BY <2>0, <2>6 DEF Linkers, Drawn, Claimed
  <2>8. TypeOK'
    BY <2>0, <2>2 DEF TypeOK, Points
  <2>9. ExpiryInv'
    BY <2>0 DEF ExpiryInv, At
  <2>10. OwnersInv'
    BY <2>0, <2>6 DEF OwnersInv, Creating
  <2>11. FilesInv'
    BY <2>0, <2>2, <2>3, <2>5, <2>6 DEF FilesInv, Past, TypeOK
  <2>12. BoundInv'
    BY <2>0, <2>4, <2>6, <2>7 DEF BoundInv
  <2>13. NewestInv'
    <3>1. \A g \in Generations : Live(file[g]) => file[g].owner \in Owners
      BY StampsAre DEF TypeOK, Live
    <3>2. Live(Content(Latest))
      BY <2>1, GenerationsAre DEF Content
    <3> QED BY <2>0, <2>1, <2>2, <2>4, <2>5, <2>6, <3>1, <3>2, LatestIs DEF NewestInv, Looking, Live
  <2>14. HolderInv'
    <3>1. HolderOf(p)'
      <4>1. granted[p] <= drawn[p] /\ Latest # 0
        BY <2>1, GenerationsAre DEF TypeOK
      <4>2. file'[Latest'] = Stamp(p)' /\ gen'[p] = Latest'
        BY <2>0, <2>1, <2>4, <2>5 DEF Stamp
      <4>3. granted'[p] = granted[p] /\ file'[Latest'].owner = p /\ file'[Latest'].n = drawn[p]
        BY <2>0, <2>2, <2>4, <2>5
      <4> QED BY <2>4, <2>6, <4>1, <4>2, <4>3 DEF HolderOf, Confirming
    <3>2. ASSUME NEW q \in Owners, q # p
          PROVE  HolderOf(q)'
      <4>1. HolderOf(q)
        BY DEF HolderInv
      <4>2. pc'[q] = pc[q] /\ gen'[q] = gen[q] /\ Counts(q)' = Counts(q) /\ Stamp(q)' = Stamp(q) /\ expired' = expired
        BY <2>0, <2>6, <3>2 DEF Counts, Stamp
      <4>3. Stamp(q).owner = q
        BY DEF Stamp
      <4>4. file[Latest].owner # q
        BY <2>1, <3>2
      <4> QED BY <2>4, <3>2, <4>1, <4>2, <4>3, <4>4 DEF HolderOf
    <3> QED BY <3>1, <3>2 DEF HolderInv
  <2> QED BY <2>8, <2>9, <2>10, <2>11, <2>12, <2>13, <2>14
<1> QED BY <1>1, <1>2

(* A generation that is created is older than the newest, or follows it    *)
(* when that has expired.                                                  *)
LEMMA LinkWrites ==
  ASSUME ClaimInv, NEW p \in Owners, Link(p), ~Throw(p), file[gen[p]] = NoFile
  PROVE  /\ pc[p] = "link" /\ pc' = [pc EXCEPT ![p] = "linked"]
         /\ dir /\ UNCHANGED <<dir, expired, gen, drawn, granted, stale>>
         /\ gen[p] \in Generations /\ gen[p] \in Nat \ {0} /\ gen[p] # Latest /\ Latest \in Nat
         /\ Stamp(p) \in Stamps /\ Stamp(p) # NoFile /\ Stamp(p).owner = p /\ Stamp(p).n = drawn[p]
         /\ file' = [file EXCEPT ![gen[p]] = Stamp(p)]
         /\ \/ gen[p] < Latest /\ Latest' = Latest
            \/ gen[p] = Latest + 1 /\ ~Live(Content(Latest)) /\ Latest' = gen[p]
         /\ file'[gen[p]] = Stamp(p) /\ \A g \in Generations : g # gen[p] => file'[g] = file[g]
<1> USE DEF ClaimInv
<1>0. /\ pc[p] = "link" /\ dir
      /\ file' = [file EXCEPT ![gen[p]] = Stamp(p)]
      /\ pc' = [pc EXCEPT ![p] = "linked"]
      /\ UNCHANGED <<dir, expired, gen, drawn, granted, stale>>
  BY DEF Link, Goto
<1>1. gen[p] \in Generations /\ gen[p] \in Nat \ {0} /\ gen[p] # Latest /\ Latest \in Nat
  BY <1>0, GenerationsAre, LatestIs DEF OwnersInv, Creating, TypeOK, Present
<1>2. Stamp(p) \in Stamps /\ Stamp(p) # NoFile /\ Stamp(p).owner = p /\ Stamp(p).n = drawn[p]
  BY StampsAre, ClaimAssumption DEF Stamp, TypeOK
<1>3. Present' = Present \cup {gen[p]}
  BY <1>0, <1>1, <1>2 DEF Present, TypeOK
<1>4. \/ gen[p] < Latest
      \/ gen[p] = Latest + 1 /\ ~Live(Content(Latest))
  BY <1>0, <1>1 DEF NewestInv
<1>5. \/ gen[p] < Latest /\ Latest' = Latest
      \/ gen[p] = Latest + 1 /\ ~Live(Content(Latest)) /\ Latest' = gen[p]
  <2>1. CASE gen[p] < Latest
    BY <1>1, <1>3, <2>1, OlderFiles, LatestIs
  <2>2. CASE gen[p] = Latest + 1
    <3>1. gen[p] > Latest /\ ~(gen[p] < Latest) /\ gen[p] \in Present'
      BY <1>1, <1>3, <2>2
    <3>2. Latest' = gen[p]
      BY <1>3, <3>1, NewerFile
    <3> QED BY <1>4, <3>1, <3>2
  <2> HIDE DEF ClaimInv
  <2> QED BY <1>4, <2>1, <2>2
<1>6. /\ file'[gen[p]] = Stamp(p)
      /\ \A g \in Generations : g # gen[p] => file'[g] = file[g]
  BY <1>0, <1>1 DEF TypeOK
<1> QED BY <1>0, <1>1, <1>2, <1>5, <1>6

LEMMA LinkStep ==
  ASSUME ClaimInv, Benign, NEW p \in Owners, Link(p)
  PROVE  ClaimInv'
<1> USE DEF ClaimInv
<1>1. CASE Throw(p)
  BY <1>1, ThrowStep DEF Link
<1>2. CASE ~Throw(p) /\ file[gen[p]] # NoFile
  BY <1>2, LeaveStep DEF Link, Resolve, Goto
<1>3. CASE ~Throw(p) /\ file[gen[p]] = NoFile
  <2>0. /\ pc[p] = "link" /\ dir
        /\ file' = [file EXCEPT ![gen[p]] = Stamp(p)]
        /\ pc' = [pc EXCEPT ![p] = "linked"]
        /\ UNCHANGED <<dir, expired, gen, drawn, granted, stale>>
    BY <1>3, LinkWrites
  <2>1. gen[p] \in Generations /\ gen[p] \in Nat \ {0} /\ gen[p] # Latest /\ Latest \in Nat
    BY <1>3, LinkWrites
  <2>2. Stamp(p) \in Stamps /\ Stamp(p) # NoFile /\ Stamp(p).owner = p /\ Stamp(p).n = drawn[p]
    BY <1>3, LinkWrites
  <2>5. \/ gen[p] < Latest /\ Latest' = Latest
        \/ gen[p] = Latest + 1 /\ ~Live(Content(Latest)) /\ Latest' = gen[p]
    BY <1>3, LinkWrites
  <2>6. /\ file'[gen[p]] = Stamp(p)
        /\ \A g \in Generations : g # gen[p] => file'[g] = file[g]
    BY <1>3, LinkWrites
  <2>7. /\ \A q \in Owners : q # p => pc'[q] = pc[q]
        /\ pc'[p] = "linked"
    BY <2>0 DEF TypeOK
  <2>8. TypeOK'
    BY <2>0, <2>2 DEF TypeOK, Points
  <2>9. ExpiryInv'
    BY <2>0 DEF ExpiryInv, At
  <2>10. OwnersInv'
    BY <2>0, <2>7 DEF OwnersInv, Creating
  <2>11. FilesInv'
    BY <2>0, <2>2, <2>6, <2>7 DEF FilesInv, Past, TypeOK
  <2>12. BoundInv'
    <3>1. Drawn' = Drawn /\ Linkers' = Linkers \ {p} /\ p \in Linkers /\ Linkers \in SUBSET Owners
      BY <2>0, <2>7 DEF Linkers, Drawn, Claimed
    <3>2. Cardinality(Linkers') = Cardinality(Linkers) - 1 /\ Cardinality(Linkers) \in Nat
      BY <3>1, Parts, FS_RemoveElement
    <3>3. Cardinality(Drawn) \in Nat
      BY Parts DEF Drawn
    <3>4. \A q \in Owners : gen[q] \in Nat
      BY GenerationsAre DEF TypeOK
    <3>5. Latest' + Cardinality(Linkers') <= Cardinality(Drawn')
      BY <2>0, <2>1, <2>5, <3>1, <3>2, <3>3 DEF BoundInv
    <3>6. \A q \in Owners : pc'[q] = "read" => gen'[q] + Cardinality(Linkers') <= Cardinality(Drawn')
      BY <2>0, <2>7, <3>1, <3>2, <3>3, <3>4 DEF BoundInv
    <3>7. \A q \in Owners : pc'[q] = "link" => gen'[q] <= Cardinality(Drawn')
      BY <2>0, <2>7, <3>1 DEF BoundInv
    <3> QED BY <3>5, <3>6, <3>7 DEF BoundInv
  <2>13. NewestInv'
    <3>1. \A g \in Generations : Live(file[g]) => file[g].owner \in Owners
      BY StampsAre DEF TypeOK, Live
    <3>2. \A q \in Owners : gen[q] \in Nat
      BY GenerationsAre DEF TypeOK
    <3>3. \A q \in Owners : pc'[q] \in Looking => gen[q] <= Latest'
      BY <2>0, <2>1, <2>5, <2>7, <3>2 DEF NewestInv, Looking
    <3>4. \A q \in Owners : pc'[q] = "link" =>
             gen[q] <= Latest' + 1 /\ (gen[q] = Latest' + 1 => ~Live(Content(Latest))')
      <4>1. CASE Latest' = Latest
        <5>1. Content(Latest)' = Content(Latest)
          BY <2>1, <2>6, <4>1, LatestIs DEF Content
        <5> QED BY <2>0, <2>7, <4>1, <5>1 DEF NewestInv, Live
      <4>2. CASE gen[p] = Latest + 1 /\ Latest' = gen[p]
        BY <2>0, <2>1, <2>7, <3>2, <4>2 DEF NewestInv
      <4> QED BY <2>5, <4>1, <4>2
    <3>5. \A g \in Generations : Live(file[g])' =>
            \/ g = Latest'
            \/ pc'[file'[g].owner] = "gone"
            \/ pc'[file'[g].owner] = "linked" /\ g = gen'[file'[g].owner]
      <4> SUFFICES ASSUME NEW g \in Generations, Live(file[g])'
                   PROVE \/ g = Latest'
                         \/ pc'[file'[g].owner] = "gone"
                         \/ pc'[file'[g].owner] = "linked" /\ g = gen'[file'[g].owner]
        OBVIOUS
      <4>1. CASE g = gen[p]
        BY <2>0, <2>2, <2>6, <2>7, <4>1
      <4>2. CASE g # gen[p]
        <5>1. file'[g] = file[g] /\ Live(file[g]) /\ file[g].owner \in Owners
          BY <2>0, <2>6, <3>1, <4>2 DEF Live
        <5>2. g = Latest => Live(Content(Latest))
          BY <5>1, LatestIs, GenerationsAre DEF Content
        <5> QED BY <2>0, <2>5, <2>7, <5>1, <5>2 DEF NewestInv
      <4> QED BY <4>1, <4>2
    <3> QED BY <2>0, <3>3, <3>4, <3>5 DEF NewestInv, Live
  <2>14. HolderInv'
    <3>1. \A q \in Owners : gen[q] \in Nat
      BY GenerationsAre DEF TypeOK
    <3>2. CASE Latest' = Latest /\ gen[p] < Latest
      <4>1. Latest \in Generations /\ file'[Latest] = file[Latest]
        BY <2>1, <2>6, <3>2, LatestIs
      <4>2. HolderOf(p)'
        BY <2>0, <2>1, <2>7, <3>2, <4>1 DEF HolderInv, HolderOf, Confirming, Stamp, Counts
      <4>3. ASSUME NEW q \in Owners, q # p
            PROVE  HolderOf(q)'
        <5>1. pc'[q] = pc[q] /\ gen'[q] = gen[q] /\ Counts(q)' = Counts(q) /\ Stamp(q)' = Stamp(q) /\ expired' = expired
          BY <2>0, <2>7, <4>3 DEF Counts, Stamp
        <5>2. HolderOf(q) /\ drawn' = drawn /\ granted' = granted
          BY <2>0 DEF HolderInv
        <5> QED BY <3>2, <4>1, <5>1, <5>2 DEF HolderOf, Live
      <4> QED BY <4>2, <4>3 DEF HolderInv
    <3>3. CASE gen[p] = Latest + 1 /\ ~Live(Content(Latest)) /\ Latest' = gen[p]
      <4>1. \A q \in Owners : q # p /\ pc[q] \in Looking => gen[q] # Latest' /\ gen[q] <= Latest
        BY <2>0, <2>1, <3>1, <3>3 DEF NewestInv
      <4>2. \A q \in Owners : ~(pc[q] = "renew")
        BY <3>3, <3>1 DEF HolderInv, HolderOf, Content, OwnersInv, Creating
      <4>3. \A q \in Owners : ~Counts(q)
        <5> SUFFICES ASSUME NEW q \in Owners, Counts(q) PROVE FALSE
          OBVIOUS
        <5>1. Latest \in Generations /\ file[Latest].owner = q /\ file[Latest].n >= granted[q] /\ Latest # 0 /\ file[Latest] # NoFile
          BY LatestIs DEF HolderInv, HolderOf, Present
        <5>2. file[Latest] \in expired
          BY <3>3, <5>1 DEF Content, Live
        <5>3. file[Latest] = At(q, file[Latest].n) /\ file[Latest].n \in 0 .. MaxClaims[q]
          BY <5>1, StampsAre DEF TypeOK, At
        <5>4. granted[q] \in 1 .. file[Latest].n
          BY <5>1, <5>3, ClaimAssumption DEF Counts, TypeOK
        <5>5. file[Latest].n \in 1 .. MaxClaims[q]
          BY <5>3, <5>4, ClaimAssumption
        <5>6. At(q, granted[q]) \in expired
          BY <5>2, <5>3, <5>4, <5>5 DEF ExpiryInv
        <5> QED BY <5>6 DEF Counts, At
      <4>4. \A q \in Owners : pc[q] \in Confirming => Stamp(q) \in expired
        <5> SUFFICES ASSUME NEW q \in Owners, pc[q] \in Confirming, Stamp(q) \notin expired PROVE FALSE
          OBVIOUS
        <5>1. gen[q] = Latest /\ file[Latest] = Stamp(q) /\ gen[q] >= 1
          BY DEF HolderInv, HolderOf, OwnersInv, Creating, Confirming
        <5>2. Stamp(q) # NoFile
          BY ClaimAssumption DEF Stamp, NoFile
        <5> QED BY <3>3, <5>1, <5>2 DEF Content, Live
      <4>5. \A q \in Owners : q # p /\ pc[q] \in Confirming \cup {"linked", "r_write", "renew"} => gen[q] # Latest'
        BY <4>1 DEF Looking, Confirming
      <4>6. HolderOf(p)'
        BY <2>0, <2>2, <2>6, <2>7, <3>3, <4>3 DEF HolderOf, Confirming, Stamp, Counts
      <4>7. ASSUME NEW q \in Owners, q # p
            PROVE  HolderOf(q)'
        <5>1. pc'[q] = pc[q] /\ gen'[q] = gen[q] /\ Counts(q)' = Counts(q) /\ Stamp(q)' = Stamp(q) /\ expired' = expired
          BY <2>0, <2>7, <4>7 DEF Counts, Stamp
        <5> QED BY <4>2, <4>3, <4>4, <4>5, <4>7, <5>1 DEF HolderOf
      <4> QED BY <4>6, <4>7 DEF HolderInv
    <3> QED BY <2>5, <3>2, <3>3
  <2> QED BY <2>8, <2>9, <2>10, <2>11, <2>12, <2>13, <2>14
<1> QED BY <1>1, <1>2, <1>3

(* What a prune deletes is older than the newest, even when it comes late. *)
LEMMA PruneDeletes ==
  ASSUME ClaimInv, NEW p \in Owners, pc[p] = "prune", NEW old \in stale[p],
         file' = [file EXCEPT ![old] = NoFile]
  PROVE  /\ old \in Generations
         /\ file'[old] = NoFile /\ \A g \in Generations : g # old => file'[g] = file[g]
         /\ Present' = Present \ {old}
         /\ Latest' = Latest /\ (Latest # 0 => file'[Latest] = file[Latest])
<1> USE DEF ClaimInv
<1>1. old \in Generations /\ old \in Nat \ {0} /\ old < gen[p]
  BY GenerationsAre DEF OwnersInv, TypeOK
<1>2. /\ file'[old] = NoFile
      /\ \A g \in Generations : g # old => file'[g] = file[g]
  BY <1>1 DEF TypeOK
<1>3. Present' = Present \ {old}
  BY <1>1, <1>2 DEF Present
<1>4. Latest' = Latest /\ (Latest # 0 => old < Latest)
  <2>1. CASE Latest = 0
    <3>1. Present = {} /\ Present' = {}
      BY <1>3, <2>1, LatestIs
    <3> QED BY <2>1, <3>1 DEF Latest
  <2>2. CASE Latest # 0
    <3>1. dir
      BY <2>2, LatestIs DEF FilesInv
    <3>2. gen[p] <= Latest /\ gen[p] \in Nat /\ Latest \in Nat
      BY <3>1, LatestIs, GenerationsAre DEF NewestInv, Looking, TypeOK
    <3>3. old < Latest
      BY <1>1, <3>2
    <3>4. Latest \in Present'
      BY <1>1, <1>3, <2>2, <3>3, LatestIs
    <3> QED BY <1>3, <2>2, <3>3, <3>4, OlderFiles
  <2> QED BY <2>1, <2>2
<1>5. Latest # 0 => file'[Latest] = file[Latest]
  BY <1>1, <1>2, <1>4, LatestIs
<1> QED BY <1>1, <1>2, <1>3, <1>4, <1>5

LEMMA PruneStep ==
  ASSUME ClaimInv, Benign, NEW p \in Owners, Prune(p)
  PROVE  ClaimInv'
<1> USE DEF ClaimInv
<1>1. CASE stale[p] = {} /\ Resolve(p, TRUE) /\ UNCHANGED <<file, stale>>
  <2>0. /\ pc[p] = "prune"
        /\ pc' = [pc EXCEPT ![p] = "idle"]
        /\ granted' = [granted EXCEPT ![p] = drawn[p]]
        /\ UNCHANGED <<dir, file, expired, gen, drawn, stale>>
    BY <1>1 DEF Prune, Resolve, Goto
  <2>1. Present' = Present /\ Latest' = Latest
    BY <2>0, FilesStay
  <2>2. /\ \A q \in Owners : q # p => pc'[q] = pc[q] /\ granted'[q] = granted[q]
        /\ pc'[p] = "idle" /\ granted'[p] = drawn[p]
    BY <2>0 DEF TypeOK
  <2>3. Linkers' = Linkers /\ Drawn' = Drawn
    BY <2>0, <2>2 DEF Linkers, Drawn, Claimed
  <2>4. TypeOK'
    BY <2>0 DEF TypeOK, Points
  <2>5. ExpiryInv'
    BY <2>0 DEF ExpiryInv, At
  <2>6. OwnersInv'
    BY <2>0, <2>2 DEF OwnersInv, Creating
  <2>7. FilesInv'
    BY <2>0, <2>1, <2>2 DEF FilesInv, Past
  <2>8. BoundInv'
    BY <2>0, <2>1, <2>2, <2>3 DEF BoundInv
  <2>9. NewestInv'
    <3>1. \A g \in Generations : Live(file[g]) => file[g].owner \in Owners
      BY StampsAre DEF TypeOK, Live
    <3> QED BY <2>0, <2>1, <2>2, <3>1, LatestIs DEF NewestInv, Looking, Live, Content
  <2>10. HolderInv'
    <3>1. HolderOf(p)'
      <4>1. HolderOf(p) /\ gen[p] # 0 /\ drawn[p] \in Nat
        BY <2>0, GenerationsAre DEF HolderInv, OwnersInv, Creating, TypeOK
      <4>2. Stamp(p).owner = p /\ Stamp(p).n = drawn[p]
        BY DEF Stamp
      <4> QED BY <2>0, <2>1, <2>2, <4>1, <4>2 DEF HolderOf, Confirming, Counts, Stamp
    <3>2. ASSUME NEW q \in Owners, q # p
          PROVE  HolderOf(q)'
      <4>1. HolderOf(q)
        BY DEF HolderInv
      <4> QED BY <2>0, <2>1, <2>2, <3>2, <4>1 DEF HolderOf, Counts, Stamp, Live
    <3> QED BY <3>1, <3>2 DEF HolderInv
  <2> QED BY <2>4, <2>5, <2>6, <2>7, <2>8, <2>9, <2>10
<1>2. ASSUME NEW old \in stale[p],
             file' = [file EXCEPT ![old] = NoFile], stale' = [stale EXCEPT ![p] = @ \ {old}],
             UNCHANGED <<pc, granted>>
      PROVE  ClaimInv'
  <2>0. /\ pc[p] = "prune"
        /\ UNCHANGED <<dir, pc, expired, gen, drawn, granted>>
    BY <1>2 DEF Prune
  <2>2. /\ file'[old] = NoFile
        /\ \A g \in Generations : g # old => file'[g] = file[g]
    BY <1>2, <2>0, PruneDeletes
  <2>3. Present' = Present \ {old}
    BY <1>2, <2>0, PruneDeletes
  <2>4. Latest' = Latest
    BY <1>2, <2>0, PruneDeletes
  <2>5. Latest # 0 => file'[Latest] = file[Latest]
    BY <1>2, <2>0, PruneDeletes
  <2>6. Linkers' = Linkers /\ Drawn' = Drawn
    BY <2>0 DEF Linkers, Drawn, Claimed
  <2>7. TypeOK'
    BY <1>2, <2>0 DEF TypeOK
  <2>8. ExpiryInv'
    BY <2>0 DEF ExpiryInv, At
  <2>9. OwnersInv'
    BY <1>2, <2>0 DEF OwnersInv, TypeOK
  <2>10. FilesInv'
    BY <2>0, <2>2, <2>3 DEF FilesInv
  <2>11. BoundInv'
    BY <2>0, <2>4, <2>6 DEF BoundInv
  <2>12. NewestInv'
    <3>1. Content(Latest)' = Content(Latest)
      BY <2>4, <2>5 DEF Content
    <3>2. \A g \in Generations : Live(file[g])' => Live(file[g]) /\ file'[g] = file[g]
      BY <2>0, <2>2 DEF Live
    <3> QED BY <2>0, <2>4, <3>1, <3>2 DEF NewestInv, Live
  <2>13. HolderInv'
    <3> SUFFICES ASSUME NEW q \in Owners PROVE HolderOf(q)'
      BY DEF HolderInv
    <3>1. HolderOf(q) /\ (pc[q] \in Creating => gen[q] # 0)
      BY GenerationsAre DEF HolderInv, OwnersInv, TypeOK
    <3>2. Counts(q)' = Counts(q) /\ Stamp(q)' = Stamp(q)
      BY <2>0 DEF Counts, Stamp
    <3> QED BY <2>0, <2>4, <2>5, <3>1, <3>2 DEF HolderOf, Creating, Confirming, Live
  <2> QED BY <2>7, <2>8, <2>9, <2>10, <2>11, <2>12, <2>13
<1> QED BY <1>1, <1>2 DEF Prune

(* A release leaves the newest file alone unless it is the owner's own.    *)
LEMMA ReleaseWrites ==
  ASSUME ClaimInv, NEW p \in Owners, ReleaseWrite(p), dir
  PROVE  /\ gen[p] \in Generations /\ Latest \in Generations /\ Latest # 0
         /\ At(p, 0) \in Stamps /\ At(p, 0) # NoFile /\ At(p, 0).owner = p /\ At(p, 0).n = 0 /\ At(p, 0) \in expired
         /\ file' = [file EXCEPT ![gen[p]] = At(p, 0)] /\ file'[gen[p]] = At(p, 0)
         /\ \A g \in Generations : g # gen[p] => file'[g] = file[g]
         /\ Present' = Present \cup {gen[p]} /\ Latest' = Latest
         /\ \/ file'[Latest] = file[Latest]
            \/ file[Latest].owner = p /\ file'[Latest] = At(p, 0)
<1> USE DEF ClaimInv
<1> DEFINE released == At(p, 0)
<1>0. pc[p] = "r_write"
  BY DEF ReleaseWrite
<1>1. gen[p] \in Generations /\ gen[p] \in Nat \ {0} /\ Latest \in Nat /\ gen[p] <= Latest /\ Latest \in Present
  BY <1>0, GenerationsAre, LatestIs DEF OwnersInv, Creating, TypeOK, NewestInv, Looking
<1>2. released \in Stamps /\ released # NoFile /\ released.owner = p /\ released.n = 0 /\ released \in expired
  BY StampsAre, ClaimAssumption DEF At, ExpiryInv
<1>3. /\ file' = [file EXCEPT ![gen[p]] = released]
      /\ file'[gen[p]] = released
      /\ \A g \in Generations : g # gen[p] => file'[g] = file[g]
  BY <1>1 DEF ReleaseWrite, TypeOK, At
<1>4. Present' = Present \cup {gen[p]}
  BY <1>1, <1>2, <1>3 DEF Present
<1>5. Latest' = Latest
  BY <1>1, <1>4, OlderFiles
<1>6. \/ file'[Latest] = file[Latest]
      \/ file[Latest].owner = p /\ file'[Latest] = released
  BY <1>0, <1>1, <1>3, LatestIs DEF HolderInv, HolderOf
<1> QED BY <1>1, <1>2, <1>3, <1>4, <1>5, <1>6, LatestIs

LEMMA ReleaseWriteStep ==
  ASSUME ClaimInv, Benign, NEW p \in Owners, ReleaseWrite(p)
  PROVE  ClaimInv'
<1> USE DEF ClaimInv
<1> DEFINE released == At(p, 0)
<1>0. /\ pc[p] = "r_write" /\ granted[p] = 0
      /\ pc' = [pc EXCEPT ![p] = "gone"]
      /\ UNCHANGED <<dir, expired, gen, drawn, granted, stale>>
  BY DEF ReleaseWrite, Goto, OwnersInv
<1>1. CASE ~dir
  <2>1. granted' = [granted EXCEPT ![p] = 0] /\ UNCHANGED file
    BY <1>0, <1>1 DEF ReleaseWrite, TypeOK
  <2> QED BY <1>0, <2>1, LeaveStep DEF Goto
<1>2. CASE dir
  <2>1. gen[p] \in Generations /\ Latest \in Generations /\ Latest # 0
    BY <1>2, ReleaseWrites
  <2>2. released \in Stamps /\ released # NoFile /\ released.owner = p /\ released.n = 0 /\ released \in expired
    BY <1>2, ReleaseWrites
  <2>3. /\ file' = [file EXCEPT ![gen[p]] = released]
        /\ file'[gen[p]] = released
        /\ \A g \in Generations : g # gen[p] => file'[g] = file[g]
    BY <1>2, ReleaseWrites
  <2>5. Latest' = Latest
    BY <1>2, ReleaseWrites
  <2>6. \/ file'[Latest] = file[Latest]
        \/ file[Latest].owner = p /\ file'[Latest] = released
    BY <1>2, ReleaseWrites
  <2>7. /\ \A q \in Owners : q # p => pc'[q] = pc[q]
        /\ pc'[p] = "gone"
    BY <1>0 DEF TypeOK
  <2>8. Linkers' = Linkers /\ Drawn' = Drawn
    BY <1>0, <2>7 DEF Linkers, Drawn, Claimed
  <2>9. TypeOK'
    BY <1>0, <2>2, <2>3 DEF TypeOK, Points
  <2>10. ExpiryInv'
    BY <1>0 DEF ExpiryInv, At
  <2>11. OwnersInv'
    BY <1>0, <2>7 DEF OwnersInv, Creating
  <2>12. FilesInv'
    <3>1. 0 <= drawn[p]
      BY DEF TypeOK
    <3> QED BY <1>0, <1>2, <2>2, <2>3, <3>1 DEF FilesInv
  <2>13. BoundInv'
    BY <1>0, <2>5, <2>7, <2>8 DEF BoundInv
  <2>14. NewestInv'
    <3>1. \A g \in Generations : Live(file[g])' => Live(file[g]) /\ file'[g] = file[g] /\ file[g].owner \in Owners
      BY <1>0, <2>2, <2>3, StampsAre DEF Live, TypeOK
    <3>2. Live(Content(Latest))' => Live(Content(Latest))
      BY <2>1, <2>5, <3>1, LatestIs DEF Content
    <3> QED BY <1>0, <2>5, <2>7, <3>1, <3>2 DEF NewestInv, Live, Looking
  <2>15. HolderInv'
    <3>1. HolderOf(p)'
      BY <1>0, <2>7 DEF HolderOf, Counts, Confirming
    <3>2. ASSUME NEW q \in Owners, q # p
          PROVE  HolderOf(q)'
      <4>1. HolderOf(q)
        BY DEF HolderInv
      <4>2. Counts(q)' = Counts(q) /\ Stamp(q)' = Stamp(q) /\ Stamp(q).owner = q
        BY <1>0 DEF Counts, Stamp
      <4> QED BY <1>0, <2>5, <2>6, <2>7, <3>2, <4>1, <4>2 DEF HolderOf, Live
    <3> QED BY <3>1, <3>2 DEF HolderInv
  <2> QED BY <2>9, <2>10, <2>11, <2>12, <2>13, <2>14, <2>15
<1> QED BY <1>1, <1>2 DEF TypeOK

(* At most one owner counts on the key. *)
LEMMA OneCounts == ClaimInv => OneHolder
BY DEF ClaimInv, HolderInv, HolderOf, OneHolder

(* The claim that an owner counts on has not expired. *)
LEMMA CountedIsLive ==
  ASSUME ClaimInv, NEW p \in Owners, Counts(p)
  PROVE  /\ Latest \in Generations /\ file[Latest].owner = p /\ file[Latest].n >= granted[p]
         /\ Live(file[Latest]) /\ Content(Latest) = file[Latest]
<1> USE DEF ClaimInv
<1>1. Latest \in Generations /\ file[Latest].owner = p /\ file[Latest].n >= granted[p] /\ Latest # 0 /\ file[Latest] # NoFile
  BY LatestIs DEF HolderInv, HolderOf, Present
<1>2. file[Latest] = At(p, file[Latest].n) /\ file[Latest].n \in 0 .. MaxClaims[p]
  BY <1>1, StampsAre DEF TypeOK, At
<1>3. granted[p] \in 1 .. file[Latest].n
  BY <1>1, <1>2, ClaimAssumption DEF Counts, TypeOK
<1>4. file[Latest].n \in 1 .. MaxClaims[p]
  BY <1>2, <1>3, ClaimAssumption
<1>5. file[Latest] \in expired => At(p, granted[p]) \in expired
  BY <1>2, <1>3, <1>4 DEF ExpiryInv
<1> QED BY <1>1, <1>5 DEF Counts, Content, Live, At

LEMMA ClearStep ==
  ASSUME ClaimInv, Benign, NEW p \in Owners, Clear(p)
  PROVE  ClaimInv'
<1> USE DEF ClaimInv
<1>0. /\ pc[p] = "idle" /\ p \in Clearers /\ Counts(p)
      /\ dir' = FALSE
      /\ file' = [g \in Generations |-> NoFile]
      /\ granted' = [granted EXCEPT ![p] = 0]
      /\ pc' = [pc EXCEPT ![p] = "gone"]
      /\ UNCHANGED <<expired, gen, drawn, stale>>
  BY DEF Clear, Goto, Benign
<1>1. Present' = {} /\ Latest' = 0
  BY <1>0 DEF Present, Latest
<1>2. /\ \A q \in Owners : q # p => pc'[q] = pc[q] /\ granted'[q] = granted[q]
      /\ pc'[p] = "gone" /\ granted'[p] = 0
  BY <1>0 DEF TypeOK
<1>3. Linkers' = Linkers /\ Drawn' = Drawn
  BY <1>0, <1>2 DEF Linkers, Drawn, Claimed
<1>4. \A q \in Owners : ~Counts(q)'
  BY <1>0, <1>2, OneCounts DEF OneHolder, Counts
<1>5. TypeOK'
  <2>1. \A q \in Owners : granted'[q] <= drawn[q]
    BY <1>2 DEF TypeOK
  <2> QED BY <1>0, <2>1 DEF TypeOK, Points
<1>6. ExpiryInv'
  BY <1>0 DEF ExpiryInv, At
<1>7. OwnersInv'
  BY <1>0, <1>2 DEF OwnersInv, Creating
<1>8. FilesInv'
  <2>1. PICK cast \in Casts : \A q \in Owners \ cast : pc[q] = "gone"
    BY DEF OwnersInv
  <2>2. p \in cast
    BY <1>0, <2>1
  <2>3. PICK a, b \in Owners : cast \subseteq {a, b}
    BY <1>0, <2>2 DEF Benign
  <2>4. \E q \in Owners : cast \subseteq {p, q}
    BY <2>2, <2>3
  <2>5. \E q \in Owners : \A r \in Owners \ {q} : pc'[r] = "gone"
    BY <1>2, <2>1, <2>4
  <2> QED BY <1>0, <1>1, <2>5 DEF FilesInv
<1>9. BoundInv'
  <2>1. Latest \in Nat /\ Cardinality(Linkers) \in Nat /\ Cardinality(Drawn) \in Nat
    BY Parts, LatestIs DEF Linkers, Drawn
  <2> QED BY <1>0, <1>1, <1>2, <1>3, <2>1 DEF BoundInv
<1>10. NewestInv'
  BY <1>0 DEF NewestInv, Live
<1>11. HolderInv'
  <2> SUFFICES ASSUME NEW q \in Owners PROVE HolderOf(q)'
    BY DEF HolderInv
  <2>1. HolderOf(q) /\ (pc[q] \in Creating => gen[q] # 0)
    BY GenerationsAre DEF HolderInv, OwnersInv, TypeOK
  <2>2. CASE q = p
    BY <1>2, <1>4, <2>2 DEF HolderOf, Confirming
  <2>3. CASE q # p
    <3>1. file[Latest].owner # q
      BY <1>0, <2>3, CountedIsLive
    <3>2. Stamp(q)' = Stamp(q) /\ Stamp(q).owner = q
      BY <1>0 DEF Stamp
    <3> QED BY <1>0, <1>1, <1>2, <1>4, <2>1, <2>3, <3>1, <3>2 DEF HolderOf, Creating, Confirming
  <2> QED BY <2>2, <2>3
<1> QED BY <1>5, <1>6, <1>7, <1>8, <1>9, <1>10, <1>11

LEMMA ExpireStep ==
  ASSUME ClaimInv, Benign, NEW s \in Stamps, Expire(s)
  PROVE  ClaimInv'
<1> USE DEF ClaimInv
<1>0. /\ s.n \in 1 .. drawn[s.owner]
      /\ \A m \in 1 .. s.n - 1 : At(s.owner, m) \in expired
      /\ ~(pc[s.owner] = "renew" /\ s.n < drawn[s.owner])
      /\ expired' = expired \cup {s}
      /\ UNCHANGED <<dir, file, pc, gen, drawn, granted, stale>>
  BY DEF Expire, Benign, Renewing, At
<1>1. Present' = Present /\ Latest' = Latest
  BY <1>0, FilesStay
<1>2. Linkers' = Linkers /\ Drawn' = Drawn
  BY <1>0 DEF Linkers, Drawn, Claimed
<1>3. TypeOK'
  BY <1>0 DEF TypeOK
<1>4. ExpiryInv'
  <2> SUFFICES ASSUME NEW q \in Owners, NEW n \in 1 .. MaxClaims[q], NEW m \in 1 .. n, At(q, n) \in expired'
               PROVE  At(q, m) \in expired'
    BY <1>0 DEF ExpiryInv
  <2>1. CASE At(q, n) \in expired
    BY <1>0, <2>1 DEF ExpiryInv
  <2>2. CASE At(q, n) = s
    <3>1. s.owner = q /\ s.n = n
      BY <2>2 DEF At
    <3>2. m = n \/ m \in 1 .. n - 1
      BY ClaimAssumption
    <3> QED BY <1>0, <2>2, <3>1, <3>2
  <2> QED BY <1>0, <2>1, <2>2
<1>5. OwnersInv'
  BY <1>0 DEF OwnersInv
<1>6. FilesInv'
  BY <1>0, <1>1 DEF FilesInv
<1>7. BoundInv'
  BY <1>0, <1>1, <1>2 DEF BoundInv
<1>8. NewestInv'
  <2>1. Content(Latest)' = Content(Latest)
    BY <1>0, <1>1 DEF Content
  <2> QED BY <1>0, <1>1, <2>1 DEF NewestInv, Live
<1>9. HolderInv'
  <2> SUFFICES ASSUME NEW q \in Owners PROVE HolderOf(q)'
    BY DEF HolderInv
  <2>1. HolderOf(q)
    BY DEF HolderInv
  <2>2. Counts(q)' => Counts(q)
    BY <1>0 DEF Counts
  <2>3. Stamp(q)' = Stamp(q)
    BY <1>0 DEF Stamp
  <2>4. pc[q] = "renew" => file[Latest] # s
    BY <1>0, <2>1 DEF HolderOf
  <2> QED BY <1>0, <1>1, <2>1, <2>2, <2>3, <2>4 DEF HolderOf, Live
<1> QED BY <1>3, <1>4, <1>5, <1>6, <1>7, <1>8, <1>9

LEMMA StandStill == ASSUME ClaimInv, UNCHANGED vars PROVE ClaimInv'
<1> USE DEF vars
<1>1. Present' = Present /\ Latest' = Latest
  BY FilesStay
<1>2. Linkers' = Linkers /\ Drawn' = Drawn
  BY DEF Linkers, Drawn, Claimed
<1>3. Content(Latest)' = Content(Latest)
  BY <1>1 DEF Content
<1> QED BY <1>1, <1>2, <1>3 DEF ClaimInv, TypeOK, ExpiryInv, OwnersInv, FilesInv, BoundInv, NewestInv, HolderInv, HolderOf,
                                Counts, Stamp, Live

(* Nothing that an owner, a dying process or the clock does breaks it. *)
LEMMA StepHolds == Benign /\ ClaimInv /\ [Next]_vars => ClaimInv'
<1> SUFFICES ASSUME Benign, ClaimInv, [Next]_vars PROVE ClaimInv'
  OBVIOUS
<1>1. ASSUME NEW p \in Owners, Call(p) PROVE ClaimInv'
  BY <1>1, ClaimStep, ListStep, ReadStep, RenewStep, ConfirmRenewalStep, LinkStep, ConfirmCreationStep, PruneListStep,
     PruneStep, ReleaseStep, ReleaseListStep, ReleaseReadStep, ReleaseWriteStep, ClearStep DEF Call
<1> QED BY <1>1, DieStep, ExpireStep, StandStill DEF Next

LEMMA ClaimInvHolds == Benign => (Spec => []ClaimInv)
<1> SUFFICES ASSUME Benign PROVE Spec => []ClaimInv
  OBVIOUS
<1>1. ClaimInv /\ [Next]_vars => ClaimInv'
  BY StepHolds
<1> QED BY <1>1, InitHolds, PTL DEF Spec

----------------------------------------------------------------------------
(* The types, of every cast and of renewals and clears however late: a     *)
(* generation is one past a file that was there or past none, and so never *)
(* past the stamps that are drawn.                                         *)

Numbered ==
  /\ \A p \in Owners :
       /\ gen[p] <= Cardinality(Drawn)
       /\ pc[p] \in {"list", "read"} => drawn[p] < MaxClaims[p]
  /\ \A g \in Present : g <= Cardinality(Drawn)

TypeInv == TypeOK /\ Numbered

LEMMA DrawnIs == Cardinality(Drawn) \in Nat /\ Cardinality(Drawn) <= Cardinality(Claimed)
<1>1. Drawn \in SUBSET Claimed
  BY DEF Drawn
<1> QED BY <1>1, Parts

LEMMA LatestIsDrawn == ASSUME TypeInv PROVE Latest <= Cardinality(Drawn)
<1>1. CASE Latest = 0
  BY <1>1, DrawnIs
<1>2. CASE Latest # 0
  BY <1>2, LatestIs DEF TypeInv, Numbered
<1> QED BY <1>1, <1>2

LEMMA TypeStarts == Init => TypeInv
<1> SUFFICES ASSUME Init PROVE TypeInv
  OBVIOUS
<1>1. Present = {}
  BY GenerationsAre DEF Init, Present
<1>2. TypeOK
  BY InitHolds DEF ClaimInv
<1>3. \A p \in Owners : gen[p] = 0 /\ pc[p] \in {"new", "gone"}
  BY DEF Init
<1>4. Numbered
  BY <1>1, <1>3, DrawnIs DEF Numbered
<1> QED BY <1>2, <1>4 DEF TypeInv

(* A step that draws no stamp. *)
LEMMA NumberedStays ==
  ASSUME TypeInv, UNCHANGED drawn,
         \A p \in Owners : gen'[p] <= Cardinality(Drawn),
         \A p \in Owners : pc'[p] \in {"list", "read"} => pc[p] \in {"list", "read"} \/ drawn[p] < MaxClaims[p],
         \A g \in Present' : g \in Present \/ g <= Cardinality(Drawn)
  PROVE  Numbered'
<1>1. Drawn' = Drawn
  BY DEF Drawn, Claimed
<1> QED BY <1>1 DEF TypeInv, Numbered

(* The steps that touch neither a file nor a generation. *)
LEMMA TypeOfPoint ==
  ASSUME TypeInv, NEW p \in Owners, NEW point \in Points, Goto(p, point),
         point \in {"list", "read"} => drawn[p] < MaxClaims[p],
         granted' = granted \/ granted' = [granted EXCEPT ![p] = 0]
           \/ granted' = [granted EXCEPT ![p] = drawn[p]],
         UNCHANGED <<file, expired, gen, drawn>>, dir' \in BOOLEAN, stale' \in [Owners -> SUBSET Generations]
  PROVE  TypeInv'
<1> USE DEF TypeInv, Goto
<1>1. pc' \in [Owners -> Points] /\ \A q \in Owners : q # p => pc'[q] = pc[q]
  BY DEF TypeOK
<1>2. granted' \in [Owners -> Nat] /\ \A q \in Owners : granted'[q] <= drawn'[q]
  BY DEF TypeOK
<1>3. TypeOK'
  BY <1>1, <1>2 DEF TypeOK
<1>4. Present' = Present
  BY DEF Present
<1>5. pc'[p] = point
  BY DEF TypeOK
<1>6. Numbered'
  BY <1>1, <1>4, <1>5, NumberedStays DEF Numbered
<1> QED BY <1>3, <1>6

(* The steps that write a file, or delete some. *)
LEMMA TypeOfFile ==
  ASSUME TypeInv, NEW p \in Owners, NEW point \in Points, point \notin {"list", "read"},
         pc' = pc \/ Goto(p, point),
         granted' = granted \/ granted' = [granted EXCEPT ![p] = 0],
         UNCHANGED <<expired, gen, drawn>>, dir' \in BOOLEAN, stale' \in [Owners -> SUBSET Generations],
         file' \in [Generations -> Stamps \cup {NoFile}],
         \A g \in Generations : file'[g] # NoFile => file[g] # NoFile \/ g = gen[p]
  PROVE  TypeInv'
<1> USE DEF TypeInv, Goto
<1>1. pc' \in [Owners -> Points] /\ \A q \in Owners : pc'[q] = pc[q] \/ pc'[q] = point
  BY DEF TypeOK
<1>2. granted' \in [Owners -> Nat] /\ \A q \in Owners : granted'[q] <= drawn'[q]
  BY DEF TypeOK
<1>3. TypeOK'
  BY <1>1, <1>2 DEF TypeOK
<1>4. \A g \in Present' : g \in Present \/ g = gen[p]
  BY DEF Present
<1>5. \A q \in Owners : gen[q] <= Cardinality(Drawn)
  BY DEF Numbered
<1>6. Numbered'
  BY <1>1, <1>4, <1>5, NumberedStays
<1> QED BY <1>3, <1>6

LEMMA TypeOfList ==
  ASSUME TypeInv, NEW p \in Owners, NEW point \in Points, Goto(p, point), point = "read" => pc[p] = "list",
         point # "list", gen' = [gen EXCEPT ![p] = Latest], UNCHANGED <<dir, file, expired, drawn, granted, stale>>
  PROVE  TypeInv'
<1> USE DEF TypeInv, Goto
<1>1. pc' \in [Owners -> Points] /\ \A q \in Owners : pc'[q] = IF q = p THEN point ELSE pc[q]
  BY DEF TypeOK
<1>2. gen' \in [Owners -> Generations \cup {0}] /\ \A q \in Owners : gen'[q] = IF q = p THEN Latest ELSE gen[q]
  BY LatestIs DEF TypeOK
<1>3. TypeOK'
  BY <1>1, <1>2 DEF TypeOK
<1>4. Present' = Present
  BY DEF Present
<1>5. \A q \in Owners : gen'[q] <= Cardinality(Drawn)
  BY <1>2, LatestIsDrawn DEF Numbered
<1>6. Numbered'
  BY <1>1, <1>4, <1>5, NumberedStays
<1> QED BY <1>3, <1>6

(* The generation that a claim goes on to create is within the bound: a    *)
(* stamp is drawn for it.                                                  *)
LEMMA TypeOfRead == ASSUME TypeInv, NEW p \in Owners, Read(p) PROVE TypeInv'
<1> USE DEF TypeInv, Read, Goto, Resolve
<1>1. /\ pc[p] = "read" /\ drawn[p] < MaxClaims[p] /\ drawn' = [drawn EXCEPT ![p] = drawn[p] + 1]
      /\ UNCHANGED <<dir, file, expired, stale>>
      /\ gen' = gen \/ gen' = [gen EXCEPT ![p] = gen[p] + 1]
      /\ granted' = granted \/ granted' = [granted EXCEPT ![p] = 0]
      /\ \E point \in {"gone", "renew", "link"} : pc' = [pc EXCEPT ![p] = point]
  BY DEF Numbered
<1> HIDE DEF Read, Goto, Resolve
<1>2. /\ Cardinality(Drawn') = Cardinality(Drawn) + 1
      /\ Cardinality(Drawn) \in Nat
      /\ Cardinality(Drawn') <= Cardinality(Claimed)
      /\ Cardinality(Claimed) \in Nat /\ Generations = 1 .. Cardinality(Claimed)
  BY <1>1, DrawnGrows, Parts, GenerationsAre DEF TypeOK
<1>3. \A q \in Owners : gen[q] \in Nat /\ gen[q] <= Cardinality(Drawn)
  BY GenerationsAre DEF TypeOK, Numbered
<1>4. gen[p] + 1 \in Generations
  BY <1>2, <1>3
<1>5. gen' \in [Owners -> Generations \cup {0}] /\ \A q \in Owners : gen'[q] <= Cardinality(Drawn')
  <2>1. gen' \in [Owners -> Generations \cup {0}] /\ \A q \in Owners : gen'[q] \in {gen[q], gen[q] + 1}
    BY <1>1, <1>3, <1>4 DEF TypeOK
  <2> QED BY <1>2, <1>3, <2>1
<1>6. /\ drawn' \in [Owners -> Nat] /\ \A q \in Owners : drawn[q] <= drawn'[q] /\ drawn'[q] <= MaxClaims[q]
      /\ \A q \in Owners : q # p => drawn'[q] = drawn[q]
  <2>1. drawn[p] \in Nat /\ MaxClaims[p] \in Nat /\ drawn[p] < MaxClaims[p]
    BY <1>1, ClaimAssumption DEF TypeOK
  <2>2. drawn[p] + 1 \in Nat /\ drawn[p] <= drawn[p] + 1 /\ drawn[p] + 1 <= MaxClaims[p]
    BY <2>1
  <2>3. \A q \in Owners : drawn[q] \in Nat /\ drawn[q] <= drawn[q] /\ drawn[q] <= MaxClaims[q]
    BY DEF TypeOK
  <2>4. \A q \in Owners : drawn'[q] = IF q = p THEN drawn[p] + 1 ELSE drawn[q]
    BY <1>1 DEF TypeOK
  <2>5. drawn' \in [Owners -> Nat]
    BY <1>1, <2>2 DEF TypeOK
  <2> QED BY <2>2, <2>3, <2>4, <2>5
<1>7. granted' \in [Owners -> Nat] /\ \A q \in Owners : granted'[q] <= drawn[q]
  BY <1>1 DEF TypeOK
<1>8. \A q \in Owners : granted'[q] <= drawn'[q]
  <2>1. \A q \in Owners : granted'[q] \in Nat /\ drawn[q] \in Nat /\ drawn'[q] \in Nat
    BY <1>6, <1>7 DEF TypeOK
  <2> QED BY <1>6, <1>7, <2>1
<1>9. pc' \in [Owners -> Points] /\ pc'[p] \notin {"list", "read"} /\ \A q \in Owners : q # p => pc'[q] = pc[q]
  BY <1>1 DEF TypeOK, Points
<1>10. TypeOK'
  BY <1>1, <1>5, <1>6, <1>7, <1>8, <1>9 DEF TypeOK
<1>11. Present' = Present /\ \A g \in Present : g \in Nat /\ g <= Cardinality(Drawn)
  BY <1>1, GenerationsAre, LatestIs DEF Present, Numbered
<1>12. Numbered'
  BY <1>2, <1>5, <1>6, <1>9, <1>11 DEF Numbered
<1> QED BY <1>10, <1>12

(* The stamp that an owner writes, or its release's. *)
LEMMA TypeOfStamp == ASSUME TypeInv, NEW p \in Owners PROVE Stamp(p) \in Stamps /\ [owner |-> p, n |-> 0] \in Stamps
BY StampsAre, ClaimAssumption DEF TypeInv, TypeOK, Stamp

LEMMA TypeOfThrow == ASSUME TypeInv, NEW p \in Owners, Throw(p) PROVE TypeInv'
<1>1. "gone" \in Points
  BY DEF Points
<1> QED BY <1>1, TypeOfPoint DEF Throw, TypeInv, TypeOK

LEMMA TypeOfCall == ASSUME TypeInv, NEW p \in Owners, Call(p) PROVE TypeInv'
<1>1. CASE Claim(p)
  BY <1>1, TypeOfPoint DEF Claim, Points, TypeInv, TypeOK
<1>2. CASE List(p)
  BY <1>2, TypeOfList DEF List, Points
<1>3. CASE Read(p)
  BY <1>3, TypeOfRead
<1>4. CASE Renew(p)
  <2>1. CASE Throw(p)
    BY <2>1, TypeOfThrow
  <2>2. CASE ~Throw(p)
    <3>1. /\ file' = [file EXCEPT ![gen[p]] = Stamp(p)] /\ Goto(p, "renewed")
          /\ UNCHANGED <<dir, expired, gen, drawn, granted, stale>>
      BY <1>4, <2>2 DEF Renew
    <3>2. file' \in [Generations -> Stamps \cup {NoFile}] /\ \A g \in Generations : g # gen[p] => file'[g] = file[g]
      BY <3>1, TypeOfStamp DEF TypeInv, TypeOK
    <3> QED BY <3>1, <3>2, TypeOfFile DEF Points, TypeInv, TypeOK
  <2> QED BY <2>1, <2>2
<1>5. CASE ConfirmRenewal(p)
  BY <1>5, TypeOfPoint DEF ConfirmRenewal, Resolve, Points, TypeInv, TypeOK
<1>6. CASE Link(p)
  <2>1. CASE Throw(p)
    BY <2>1, TypeOfThrow
  <2>2. CASE Resolve(p, FALSE) /\ UNCHANGED <<dir, file, expired, gen, drawn, stale>>
    BY <2>2, TypeOfPoint DEF Resolve, Points, TypeInv, TypeOK
  <2>3. CASE /\ file' = [file EXCEPT ![gen[p]] = Stamp(p)] /\ Goto(p, "linked")
             /\ UNCHANGED <<dir, expired, gen, drawn, granted, stale>>
    <3>1. file' \in [Generations -> Stamps \cup {NoFile}] /\ \A g \in Generations : g # gen[p] => file'[g] = file[g]
      BY <2>3, TypeOfStamp DEF TypeInv, TypeOK
    <3> QED BY <2>3, <3>1, TypeOfFile DEF Points, TypeInv, TypeOK
  <2> QED BY <1>6, <2>1, <2>2, <2>3 DEF Link
<1>7. CASE ConfirmCreation(p)
  BY <1>7, TypeOfPoint DEF ConfirmCreation, Resolve, Points, TypeInv, TypeOK
<1>8. CASE PruneList(p)
  <2>1. stale' \in [Owners -> SUBSET Generations]
    BY <1>8 DEF PruneList, Present, TypeInv, TypeOK
  <2> QED BY <1>8, <2>1, TypeOfPoint DEF PruneList, Points, TypeInv, TypeOK
<1>9. CASE Prune(p)
  <2>1. ASSUME NEW g \in stale[p], file' = [file EXCEPT ![g] = NoFile], stale' = [stale EXCEPT ![p] = @ \ {g}],
               UNCHANGED <<pc, granted, dir, expired, gen, drawn>>
        PROVE  TypeInv'
    <3>1. /\ file' \in [Generations -> Stamps \cup {NoFile}]
          /\ \A h \in Generations : file'[h] # NoFile => file[h] # NoFile
          /\ stale' \in [Owners -> SUBSET Generations]
      BY <2>1 DEF TypeInv, TypeOK
    <3>2. "gone" \in Points
      BY DEF Points
    <3> QED BY <2>1, <3>1, <3>2, TypeOfFile DEF TypeInv, TypeOK
  <2>2. CASE Resolve(p, TRUE) /\ UNCHANGED <<file, stale, dir, expired, gen, drawn>>
    BY <2>2, TypeOfPoint DEF Resolve, Points, TypeInv, TypeOK
  <2> QED BY <1>9, <2>1, <2>2 DEF Prune
<1>10. CASE Release(p)
  BY <1>10, TypeOfPoint DEF Release, Points, TypeInv, TypeOK
<1>11. CASE ReleaseList(p)
  BY <1>11, TypeOfList DEF ReleaseList, Points
<1>12. CASE ReleaseRead(p)
  BY <1>12, TypeOfPoint DEF ReleaseRead, Points, TypeInv, TypeOK
<1>13. CASE ReleaseWrite(p)
  <2>1. /\ file' \in [Generations -> Stamps \cup {NoFile}]
        /\ \A g \in Generations : g # gen[p] => file'[g] = file[g]
    BY <1>13, TypeOfStamp DEF ReleaseWrite, TypeInv, TypeOK
  <2> QED BY <1>13, <2>1, TypeOfFile DEF ReleaseWrite, Points, TypeInv, TypeOK
<1>14. CASE Clear(p)
  <2>1. file' \in [Generations -> Stamps \cup {NoFile}] /\ \A g \in Generations : file'[g] = NoFile
    BY <1>14 DEF Clear
  <2> QED BY <1>14, <2>1, TypeOfFile DEF Clear, Points, TypeInv, TypeOK
<1> QED BY <1>1, <1>2, <1>3, <1>4, <1>5, <1>6, <1>7, <1>8, <1>9, <1>10, <1>11, <1>12, <1>13, <1>14 DEF Call

LEMMA TypeStays == TypeInv /\ [Next]_vars => TypeInv'
<1> SUFFICES ASSUME TypeInv, [Next]_vars PROVE TypeInv'
  OBVIOUS
<1>1. ASSUME NEW p \in Owners, Call(p) PROVE TypeInv'
  BY <1>1, TypeOfCall
<1>2. ASSUME NEW p \in Owners, Die(p) PROVE TypeInv'
  BY <1>2, TypeOfPoint DEF Die, Points, TypeInv, TypeOK
<1>3. ASSUME NEW s \in Stamps, Expire(s) PROVE TypeInv'
  <2>1. expired' = expired \cup {s} /\ UNCHANGED <<dir, file, pc, gen, drawn, granted, stale>>
    BY <1>3 DEF Expire
  <2>2. TypeOK'
    BY <2>1 DEF TypeInv, TypeOK
  <2>3. Present' = Present /\ Drawn' = Drawn
    BY <2>1 DEF Present, Drawn, Claimed
  <2> QED BY <2>1, <2>2, <2>3 DEF TypeInv, Numbered
<1>4. CASE UNCHANGED vars
  <2>1. Present' = Present /\ Drawn' = Drawn
    BY <1>4 DEF vars, Present, Drawn, Claimed
  <2> QED BY <1>4, <2>1 DEF vars, TypeInv, TypeOK, Numbered
<1> QED BY <1>1, <1>2, <1>3, <1>4 DEF Next

----------------------------------------------------------------------------
(* Theorems.                                                               *)

(* The variables keep their types, whoever takes part and however late a   *)
(* renewal or a clear is (filesystem_store.ts): nothing is asked of the    *)
(* casts or of the clock.  No generation is created past the last.         *)
THEOREM TypeCorrect == Spec => []TypeOK
<1>1. TypeInv => TypeOK
  BY DEF TypeInv
<1> QED BY <1>1, TypeStarts, TypeStays, PTL DEF Spec

(* Two owners never count on the key at once, however many there are, and  *)
(* whenever one of them claims, renews, releases, clears or dies.          *)
THEOREM OneOwnerHolds == Benign => (Spec => []OneHolder)
<1> QED BY OneCounts, ClaimInvHolds, PTL

(* A renewal written in time is not overtaken by a takeover, nor by a file *)
(* that somebody writes late.                                              *)
THEOREM RenewalIsHeld == Benign => (Spec => []RenewalHolds)
<1>1. ClaimInv => RenewalHolds
  BY DEF ClaimInv, HolderInv, HolderOf, RenewalHolds, Confirming
<1> QED BY <1>1, ClaimInvHolds, PTL

----------------------------------------------------------------------------
(* The directory of generations implements Claim. *)

Held == {p \in Owners : Counts(p)}

LEMMA InitIsClaim == Init => Contract!Init
<1> SUFFICES ASSUME Init PROVE LiveOwner = Free /\ Held = {}
  BY DEF Contract!Init, Held
<1>1. Present = {} /\ Latest = 0
  BY DEF Init, Present, Latest
<1> QED BY <1>1 DEF Init, LiveOwner, Live, Content, Held, Counts

(* What the mapping shows depends on the files, the clock and the grants. *)
LEMMA SameClaim ==
  ASSUME UNCHANGED <<file, expired, granted>>
  PROVE  LiveOwner' = LiveOwner /\ Held' = Held
<1>1. Latest' = Latest
  BY FilesStay
<1> QED BY <1>1 DEF LiveOwner, Live, Content, Held, Counts

LEMMA StutterIsClaim ==
  ASSUME LiveOwner' = LiveOwner, Held' = Held
  PROVE  [Contract!Next]_(Contract!vars)
BY DEF Contract!vars, Held

(* An owner that ends with nothing granted gives up. *)
LEMMA LeaveIsClaim ==
  ASSUME ClaimInv, NEW p \in Owners, granted' = [granted EXCEPT ![p] = 0], UNCHANGED <<file, expired>>
  PROVE  [Contract!Next]_(Contract!vars)
<1>1. Latest' = Latest
  BY FilesStay
<1>2. LiveOwner' = LiveOwner
  BY <1>1 DEF LiveOwner, Live, Content
<1>3. Held' = Held \ {p}
  BY DEF Held, Counts, ClaimInv, TypeOK
<1>4. Contract!GiveUp(p)
  BY <1>2, <1>3 DEF Contract!GiveUp, Held
<1> QED BY <1>4 DEF Contract!Next

(* One that resolves true is granted the key that it owns, unless the time *)
(* of its claim is up already.                                             *)
LEMMA GrantIsClaim ==
  ASSUME ClaimInv, NEW p \in Owners, pc[p] \in Confirming, gen[p] = Latest \/ pc[p] = "prune",
         granted' = [granted EXCEPT ![p] = drawn[p]], UNCHANGED <<file, expired>>
  PROVE  [Contract!Next]_(Contract!vars)
<1> USE DEF ClaimInv
<1>1. Latest' = Latest
  BY FilesStay
<1>2. LiveOwner' = LiveOwner
  BY <1>1 DEF LiveOwner, Live, Content
<1>3. CASE Stamp(p) \in expired
  <2>1. Held' = Held \ {p}
    BY <1>3 DEF Held, Counts, TypeOK, Stamp
  <2>2. Contract!GiveUp(p)
    BY <1>2, <2>1 DEF Contract!GiveUp, Held
  <2> QED BY <2>2 DEF Contract!Next
<1>4. CASE Stamp(p) \notin expired
  <2>1. gen[p] = Latest /\ file[Latest] = Stamp(p) /\ Latest # 0
    BY <1>4, GenerationsAre DEF HolderInv, HolderOf, OwnersInv, Creating, Confirming, TypeOK
  <2>2. Stamp(p) # NoFile /\ Stamp(p).owner = p
    BY ClaimAssumption DEF Stamp, NoFile
  <2>3. LiveOwner = p
    BY <1>4, <2>1, <2>2 DEF LiveOwner, Live, Content
  <2>4. drawn[p] # 0
    BY <1>4 DEF ExpiryInv, Stamp, At
  <2>5. Held' = Held \cup {p}
    BY <1>4, <2>4 DEF Held, Counts, TypeOK, Stamp
  <2>6. Contract!Grant(p)
    BY <1>2, <2>3, <2>5 DEF Contract!Grant, Held
  <2> QED BY <2>6 DEF Contract!Next
<1> QED BY <1>3, <1>4

(* A renewal's write leaves the key with its owner. *)
LEMMA RenewIsClaim ==
  ASSUME ClaimInv, NEW p \in Owners, Renew(p)
  PROVE  [Contract!Next]_(Contract!vars)
<1> USE DEF ClaimInv
<1>1. CASE Throw(p)
  BY <1>1, LeaveIsClaim DEF Throw
<1>2. CASE ~Throw(p)
  <2>0. UNCHANGED <<expired, granted>> /\ Latest' = Latest /\ Latest \in Generations /\ Latest # 0
    BY <1>2, RenewWrites
  <2>1. file[Latest].owner = p /\ Live(file[Latest]) /\ file[Latest].n < drawn[p]
    BY <1>2, RenewWrites
  <2>2. Stamp(p) # NoFile /\ Stamp(p).owner = p /\ Stamp(p) = At(p, drawn[p]) /\ file'[Latest] = Stamp(p)
    BY <1>2, RenewWrites DEF Stamp, At
  <2>6. Stamp(p) \notin expired
    <3>1. file[Latest] = At(p, file[Latest].n) /\ file[Latest].n \in 0 .. MaxClaims[p]
      BY <2>0, <2>1, StampsAre DEF TypeOK, At, Live
    <3>2. file[Latest].n # 0
      BY <2>1, <3>1 DEF ExpiryInv, Live
    <3>3. drawn[p] \in Nat /\ MaxClaims[p] \in Nat /\ drawn[p] <= MaxClaims[p]
      BY ClaimAssumption DEF TypeOK
    <3>4. drawn[p] \in 1 .. MaxClaims[p] /\ file[Latest].n \in 1 .. drawn[p]
      BY <2>1, <3>1, <3>2, <3>3
    <3> QED BY <2>1, <2>2, <3>1, <3>4 DEF ExpiryInv, Live
  <2>7. LiveOwner = p /\ LiveOwner' = p
    BY <2>0, <2>1, <2>2, <2>6 DEF LiveOwner, Live, Content
  <2>8. Held' = Held
    BY <2>0 DEF Held, Counts
  <2> QED BY <2>7, <2>8, StutterIsClaim
<1> QED BY <1>1, <1>2

(* A generation past the newest is created when nobody owns the key. *)
LEMMA LinkIsClaim ==
  ASSUME ClaimInv, NEW p \in Owners, Link(p)
  PROVE  [Contract!Next]_(Contract!vars)
<1> USE DEF ClaimInv
<1>1. CASE Throw(p) \/ file[gen[p]] # NoFile
  BY <1>1, LeaveIsClaim DEF Link, Throw, Resolve
<1>2. CASE ~Throw(p) /\ file[gen[p]] = NoFile
  <2>0. UNCHANGED <<expired, granted>> /\ gen[p] # 0 /\ gen[p] \in Nat /\ Latest \in Nat
    BY <1>2, LinkWrites
  <2>1. Stamp(p) # NoFile /\ Stamp(p).owner = p /\ file'[gen[p]] = Stamp(p)
    BY <1>2, LinkWrites
  <2>2. Held' = Held
    BY <2>0 DEF Held, Counts
  <2>3. CASE gen[p] < Latest /\ Latest' = Latest
    <3>1. Content(Latest)' = Content(Latest)
      BY <1>2, <2>0, <2>3, LinkWrites, LatestIs DEF Content
    <3>2. LiveOwner' = LiveOwner
      BY <2>0, <3>1 DEF LiveOwner, Live
    <3> QED BY <2>2, <3>2, StutterIsClaim
  <2>4. CASE ~Live(Content(Latest)) /\ Latest' = gen[p]
    <3>1. LiveOwner = Free
      BY <2>4 DEF LiveOwner
    <3>2. LiveOwner' = p \/ LiveOwner' = Free
      BY <2>0, <2>1, <2>4 DEF LiveOwner, Content
    <3>3. CASE LiveOwner' = p
      <4>1. Contract!Take(p)
        BY <2>2, <3>1, <3>3 DEF Contract!Take, Held
      <4> QED BY <4>1 DEF Contract!Next
    <3> QED BY <2>2, <3>1, <3>2, <3>3, StutterIsClaim
  <2> QED BY <1>2, <2>3, <2>4, LinkWrites
<1> QED BY <1>1, <1>2

LEMMA PruneIsClaim ==
  ASSUME ClaimInv, NEW p \in Owners, Prune(p)
  PROVE  [Contract!Next]_(Contract!vars)
<1>1. CASE stale[p] = {} /\ Resolve(p, TRUE) /\ UNCHANGED <<file, stale>>
  BY <1>1, GrantIsClaim DEF Prune, Resolve, Confirming
<1>2. ASSUME NEW old \in stale[p], file' = [file EXCEPT ![old] = NoFile], UNCHANGED <<pc, granted>>
      PROVE  [Contract!Next]_(Contract!vars)
  <2>1. Latest' = Latest /\ (Latest # 0 => file'[Latest] = file[Latest])
    BY <1>2, PruneDeletes DEF Prune
  <2>2. LiveOwner' = LiveOwner
    BY <2>1 DEF LiveOwner, Live, Content, Prune
  <2>3. Held' = Held
    BY <1>2 DEF Held, Counts, Prune
  <2> QED BY <2>2, <2>3, StutterIsClaim
<1> QED BY <1>1, <1>2 DEF Prune

(* A release frees the key, if it was the owner's still. *)
LEMMA ReleaseIsClaim ==
  ASSUME ClaimInv, NEW p \in Owners, ReleaseWrite(p)
  PROVE  [Contract!Next]_(Contract!vars)
<1>1. UNCHANGED <<expired, granted>> /\ p \notin Held /\ Held' = Held
  BY DEF ReleaseWrite, Held, Counts, ClaimInv, OwnersInv
<1>2. CASE ~dir
  BY <1>1, <1>2, SameClaim, StutterIsClaim DEF ReleaseWrite
<1>3. CASE dir
  <2>1. Latest' = Latest /\ Latest # 0
    BY <1>3, ReleaseWrites
  <2>2. CASE file'[Latest] = file[Latest]
    <3>1. LiveOwner' = LiveOwner
      BY <1>1, <2>1, <2>2 DEF LiveOwner, Live, Content
    <3> QED BY <1>1, <3>1, StutterIsClaim
  <2>3. CASE file[Latest].owner = p /\ file'[Latest] \in expired
    <3>1. LiveOwner' = Free
      BY <1>1, <2>1, <2>3 DEF LiveOwner, Live, Content
    <3>2. LiveOwner = p \/ LiveOwner = Free
      BY <2>1, <2>3 DEF LiveOwner, Content
    <3>3. Held' = Held \ {LiveOwner}
      BY <1>1, <3>2, ClaimAssumption DEF Held
    <3>4. Contract!Lapse
      BY <3>1, <3>3 DEF Contract!Lapse, Held
    <3> QED BY <3>4 DEF Contract!Next
  <2> QED BY <1>3, <2>2, <2>3, ReleaseWrites
<1> QED BY <1>2, <1>3 DEF ClaimInv, TypeOK

(* The scope is cleared by the owner of the key, which comes free. *)
LEMMA ClearIsClaim ==
  ASSUME ClaimInv, Benign, NEW p \in Owners, Clear(p)
  PROVE  [Contract!Next]_(Contract!vars)
<1>1. Counts(p) /\ UNCHANGED expired /\ granted' = [granted EXCEPT ![p] = 0] /\ file' = [g \in Generations |-> NoFile]
  BY DEF Clear, Benign
<1>2. LiveOwner = p
  BY <1>1, CountedIsLive DEF LiveOwner
<1>3. Present' = {} /\ Latest' = 0
  BY <1>1 DEF Present, Latest
<1>4. LiveOwner' = Free
  BY <1>3 DEF LiveOwner, Live, Content
<1>5. Held' = Held \ {p}
  BY <1>1 DEF Held, Counts, ClaimInv, TypeOK
<1>6. Contract!Lapse
  BY <1>2, <1>4, <1>5 DEF Contract!Lapse, Held
<1> QED BY <1>6 DEF Contract!Next

(* A stamp's time passes: the key comes free, with whoever counted on it,  *)
(* or an owner that counted on an older claim of its own does no more.     *)
LEMMA ExpireIsClaim ==
  ASSUME ClaimInv, NEW s \in Stamps, Expire(s)
  PROVE  [Contract!Next]_(Contract!vars)
<1> USE DEF ClaimInv
<1>1. /\ expired' = expired \cup {s} /\ UNCHANGED <<file, granted>>
      /\ \A m \in 1 .. s.n - 1 : At(s.owner, m) \in expired
      /\ s.owner \in Owners /\ s = At(s.owner, s.n) /\ s.n \in Nat
  BY StampsAre, ClaimAssumption DEF Expire, At
<1>2. Latest' = Latest
  BY <1>1, FilesStay
<1>3. Held' = Held \/ Held' = Held \ {s.owner}
  <2>1. \A p \in Owners : At(p, granted[p]) = s => p = s.owner
    BY DEF At
  <2>2. Held' = {p \in Held : At(p, granted[p]) # s}
    BY <1>1 DEF Held, Counts, At
  <2> QED BY <2>1, <2>2 DEF Held
<1>4. CASE Content(Latest) = s /\ Live(s)
  <2>1. LiveOwner = s.owner /\ LiveOwner' = Free
    BY <1>1, <1>2, <1>4 DEF LiveOwner, Live, Content
  <2>2. ASSUME NEW p \in Owners, Counts(p)
        PROVE  p = s.owner /\ granted[p] = s.n
    <3>1. s.owner = p /\ s.n >= granted[p]
      BY <1>4, <2>2, CountedIsLive
    <3>2. granted[p] \in Nat /\ granted[p] # 0 /\ At(p, granted[p]) \notin expired
      BY <2>2 DEF Counts, TypeOK, At
    <3>3. ~(granted[p] \in 1 .. s.n - 1)
      BY <1>1, <3>1, <3>2
    <3> QED BY <1>1, <3>1, <3>2, <3>3
  <2>3. \A p \in Owners : ~Counts(p)'
    BY <1>1, <2>2 DEF Counts, At
  <2>4. Held' = Held \ {s.owner}
    BY <2>2, <2>3 DEF Held
  <2>5. Contract!Lapse
    BY <2>1, <2>4 DEF Contract!Lapse, Held
  <2> QED BY <2>5 DEF Contract!Next
<1>5. CASE ~(Content(Latest) = s /\ Live(s))
  <2>1. Content(Latest)' = Content(Latest)
    BY <1>1, <1>2 DEF Content
  <2>2. Live(Content(Latest))' <=> Live(Content(Latest))
    BY <1>1, <1>5, <2>1 DEF Live
  <2>3. LiveOwner' = LiveOwner
    BY <2>1, <2>2 DEF LiveOwner
  <2>4. CASE Held' = Held
    BY <2>3, <2>4, StutterIsClaim
  <2>5. CASE Held' = Held \ {s.owner}
    <3>1. Contract!GiveUp(s.owner)
      BY <2>3, <2>5 DEF Contract!GiveUp, Held
    <3> QED BY <1>1, <3>1 DEF Contract!Next
  <2> QED BY <1>3, <2>4, <2>5
<1> QED BY <1>4, <1>5

LEMMA StepIsClaim == Benign /\ ClaimInv /\ [Next]_vars => [Contract!Next]_(Contract!vars)
<1> SUFFICES ASSUME Benign, ClaimInv, [Next]_vars PROVE [Contract!Next]_(Contract!vars)
  OBVIOUS
<1>1. ASSUME UNCHANGED <<file, expired, granted>>
      PROVE  [Contract!Next]_(Contract!vars)
  BY <1>1, SameClaim, StutterIsClaim
<1>2. ASSUME NEW p \in Owners, Call(p)
      PROVE  [Contract!Next]_(Contract!vars)
  <2>1. CASE Claim(p) \/ List(p) \/ PruneList(p) \/ ReleaseList(p) \/ ReleaseRead(p)
    BY <1>1, <2>1 DEF Claim, List, PruneList, ReleaseList, ReleaseRead
  <2>2. CASE Read(p)
    BY <1>1, <2>2, LeaveIsClaim DEF Read, Resolve
  <2>3. CASE ConfirmCreation(p)
    BY <1>1, <2>3, LeaveIsClaim DEF ConfirmCreation, Resolve
  <2>4. CASE ConfirmRenewal(p)
    <3>1. CASE Latest = gen[p]
      BY <2>4, <3>1, GrantIsClaim DEF ConfirmRenewal, Resolve, Confirming
    <3>2. CASE Latest # gen[p]
      BY <2>4, <3>2, LeaveIsClaim DEF ConfirmRenewal, Resolve
    <3> QED BY <3>1, <3>2
  <2>5. CASE Release(p)
    BY <2>5, LeaveIsClaim DEF Release
  <2> QED BY <1>2, <2>1, <2>2, <2>3, <2>4, <2>5, RenewIsClaim, LinkIsClaim, PruneIsClaim, ReleaseIsClaim, ClearIsClaim DEF Call
<1>3. ASSUME NEW p \in Owners, Die(p)
      PROVE  [Contract!Next]_(Contract!vars)
  BY <1>3, LeaveIsClaim DEF Die
<1>4. CASE UNCHANGED vars
  BY <1>1, <1>4 DEF vars
<1> QED BY <1>2, <1>3, <1>4, ExpireIsClaim DEF Next

(* The directory of generations is the claim that CheckpointStore          *)
(* promises: one owner at a time, taken only when it is free, and granted  *)
(* only to its owner.                                                      *)
THEOREM DirectoryIsClaim == Benign => (Spec => IsClaim)
<1> SUFFICES ASSUME Benign PROVE Spec => IsClaim
  OBVIOUS
<1>1. ClaimInv /\ [Next]_vars => [Contract!Next]_(Contract!vars)
  BY StepIsClaim
<1> QED BY <1>1, InitIsClaim, ClaimInvHolds, PTL DEF Spec, IsClaim, Contract!Spec

(* All that the run shows on a small instance, for every number of owners, *)
(* claims and interleavings.                                               *)
THEOREM ClaimIsKept == Benign => (Spec => ClaimIsAsPromised)
<1>1. [](OneHolder /\ RenewalHolds) <=> []OneHolder /\ []RenewalHolds
  BY PTL
<1> QED BY <1>1, OneOwnerHolds, RenewalIsHeld, DirectoryIsClaim DEF ClaimIsAsPromised
=============================================================================
