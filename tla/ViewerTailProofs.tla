-------------------------- MODULE ViewerTailProofs --------------------------
(* Proofs about ViewerTail: what the tail hands on, and when it may sleep, *)
(* for any number of files, lines and directories.                         *)
EXTENDS ViewerTail, FiniteSetTheorems, SequenceTheorems, WellFoundedInduction, TLAPS

----------------------------------------------------------------------------
(* The inductive invariant. *)

Half == 1 .. MaxHalves

ShapeInv ==
  /\ follow_links \in BOOLEAN /\ pending \in BOOLEAN /\ closed \in BOOLEAN /\ spoilt \in BOOLEAN
  /\ overtaken \in BOOLEAN
  /\ files \in Seq(Seq(Half)) /\ Len(files) <= MaxFiles
  /\ dir \in 0 .. dirs /\ dirs \in 0 .. MaxDirs
  /\ written \in 0 .. MaxHalves + 1 /\ truncations \in 0 .. MaxTruncations
  /\ notices \subseteq {"file", "dir"}
  /\ inode \in 0 .. Len(files) /\ offset \in 0 .. MaxHalves
  /\ buffer \in Seq(Half)
  /\ pc \in {"idle", "stat", "track", "open", "read"}
  /\ found \in [ino : 0 .. Len(files), size : 0 .. MaxHalves]
  /\ at_path \in {0, Len(files)}
  /\ fh \in 0 .. Len(files) /\ file_watch \in 0 .. Len(files)
  /\ dir_watch \in NoWatch .. dirs
  /\ events \in Seq(Half) /\ due \subseteq Half

(* The writer: files grow at the path only, by consecutive halves.         *)
FilesInv ==
  /\ dir = 0 => at_path = 0
  /\ written % 2 = 1 => written <= MaxHalves
  /\ \A f \in 1 .. Len(files) : \A i \in 1 .. Len(files[f]) :
       /\ files[f][i] = files[f][1] + i - 1 /\ files[f][1] % 2 = 1 /\ files[f][i] <= written
       /\ \A g \in 1 .. Len(files) : g < f => \A j \in 1 .. Len(files[g]) : files[g][j] < files[f][i]
  /\ at_path # 0 =>
       IF files[at_path] = <<>> THEN written % 2 = 0 ELSE files[at_path][Len(files[at_path])] = written

StartsAgain == pc = "stat" \/ (pc = "open" /\ ~follow_links)
Alarm == notices # {} \/ pending \/ StartsAgain
InPass == pc \in {"open", "read"} /\ ~StartsAgain

PassInv ==
  /\ pc = "idle" /\ ~closed => ~pending
  /\ pc = "stat" => follow_links
  /\ pc = "track" /\ found.ino # 0 => found.ino >= inode
  /\ pc = "track" /\ found.ino = 0 => found.size = 0
  /\ pc = "track" /\ ~follow_links => fh = found.ino
  /\ InPass => inode = found.ino /\ inode # 0 /\ offset <= found.size
  /\ pc = "read" => fh # 0 
  /\ pc = "read" /\ (~follow_links \/ at_path = inode) => fh = inode

Fresh == IF at_path = 0 THEN found.ino = 0 ELSE found.ino = at_path /\ found.size = FileSize(at_path)

(* no wake up is lost *)
WatchInv ==
  ~closed /\ ~overtaken =>
    /\ inode # 0 => file_watch = inode
    /\ inode # 0 /\ at_path = inode => dir_watch = dir
    /\ pc = "idle" /\ ~Alarm =>
         inode = at_path /\ (inode # 0 => offset = FileSize(inode)) /\ dir_watch = dir
    /\ pc = "track" /\ found.ino \notin {0, inode} => Fresh
    /\ pc = "track" /\ ~Alarm => Fresh \/ (found.ino = 0 /\ dir_watch # dir)
    /\ InPass /\ ~Alarm => Fresh /\ (pc = "read" => fh = at_path)

Ahead(h, lines, halves) ==
  /\ \A k \in 1 .. Len(lines) : 2 * lines[k] < h
  /\ \A k \in 1 .. Len(halves) : halves[k] < h
Unseen(file, lines, halves) == \A i \in 1 .. Len(file) : Ahead(file[i], lines, halves)

OrderInv ==
  ~follow_links =>
    /\ \A k \in 1 .. Len(events) : 2 * events[k] <= written
    /\ \A k \in 1 .. Len(buffer) : buffer[k] <= written
    /\ \A i, j \in 1 .. Len(events) : i < j => events[i] < events[j]
    /\ \A i, j \in 1 .. Len(buffer) : i < j => buffer[i] < buffer[j]
    /\ \A i \in 1 .. Len(events) : \A j \in 1 .. Len(buffer) : 2 * events[i] < buffer[j]
    /\ \A f \in 1 .. Len(files) : inode # 0 /\ f > inode => Unseen(files[f], events, buffer)
    /\ inode # 0 =>
         /\ \A i \in 1 .. Len(files[inode]) : i > offset => Ahead(files[inode][i], events, buffer)
         /\ Len(files[inode]) < offset => Unseen(files[inode], events, buffer)
    /\ inode = 0 /\ at_path # 0 => Unseen(files[at_path], events, buffer)
    /\ pc = "track" /\ found.ino # 0 /\ (found.ino # inode \/ found.size < offset) => Unseen(files[found.ino], events, buffer)
    /\ pc = "track" /\ found.ino = 0 /\ at_path # 0 => Unseen(files[at_path], events, buffer)
    /\ pc = "track" /\ found.ino # 0 =>
         \A f \in 1 .. Len(files) : f > found.ino => Unseen(files[f], events, buffer)

Odd(n) == n % 2 = 1

(* without truncations: all of the file up to the offset has been read *)
Caught ==
  /\ offset <= Len(files[inode])
  /\ buffer = IF Odd(offset) THEN <<files[inode][offset]>> ELSE <<>>
  /\ \A i \in 1 .. offset : ~Odd(i) => \E k \in 1 .. Len(events) : 2 * events[k] = files[inode][i]

ReadInv ==
  truncations = 0 =>
    /\ ~follow_links /\ ~SplitChars => ~spoilt
    /\ inode # 0 /\ (~follow_links \/ at_path = inode) => Caught
    /\ pc \in {"track", "read"} \/ InPass =>
         /\ found.ino # 0 => found.size <= Len(files[found.ino])
         /\ found.ino = inode /\ inode # 0 /\ (~follow_links \/ at_path = inode) => offset <= found.size

InHand(line) ==
  /\ pc = "track" \/ InPass
  /\ found.ino = at_path /\ at_path # 0
  /\ \E i \in 1 .. found.size : i <= Len(files[at_path]) /\ files[at_path][i] = 2 * line

DueInv ==
  truncations = 0 /\ ~closed =>
    /\ \A line \in due : 2 * line <= written
    /\ at_path # 0 => \A line \in due :
          (\E i \in 1 .. Len(files[at_path]) : files[at_path][i] = 2 * line) =>
             (\E k \in 1 .. Len(events) : events[k] = line) \/ pending \/ StartsAgain \/ InHand(line)

TailInv ==
  /\ ShapeInv /\ FilesInv /\ PassInv /\ WatchInv /\ OrderInv /\ ReadInv /\ DueInv

----------------------------------------------------------------------------
(* The last of a set of positions, and a set of positions in order. *)

LEMMA LastOf ==
  ASSUME NEW n \in Nat, NEW S \in SUBSET (1 .. n), S # {}
  PROVE  Max(S) \in S /\ \A i \in S : i <= Max(S)
<1> DEFINE U == {n - i : i \in S}
<1>0. \A i \in S : i \in Nat /\ n - i \in Nat
  OBVIOUS
<1>1. U \subseteq Nat /\ U # {}
  BY <1>0
<1>2. PICK u \in U : \A v \in U : ~(<<v, u>> \in OpToRel(<, Nat))
  BY <1>1, WFMin, NatLessThanWellFounded
<1>3. \A v \in U : ~(v < u)
  BY <1>1, <1>2 DEF OpToRel
<1>4. PICK i \in S : u = n - i
  BY <1>2
<1>5. \A j \in S : n - j \in U
  OBVIOUS
<1>6. \A j \in S : ~(n - j < n - i)
  BY <1>3, <1>4, <1>5
<1> HIDE DEF U
<1>7. \A j \in S : i >= j
  BY <1>0, <1>6
<1> QED BY <1>0, <1>4, <1>7 DEF Max

(* The rank of a position among those of a set. *)
LEMMA OrderExists ==
  ASSUME NEW n \in Nat, NEW S \in SUBSET (1 .. n)
  PROVE  /\ IsFiniteSet(S) /\ Cardinality(S) \in Nat
         /\ \E s \in [1 .. Cardinality(S) -> S] : \A i, j \in DOMAIN s : i < j => s[i] < s[j]
<1> DEFINE Upto(x) == {y \in S : y <= x}
           rank == [x \in S |-> Cardinality(Upto(x))]
           c == Cardinality(S)
<1>0. \A x \in S : x \in Int
  OBVIOUS
<1>1. IsFiniteSet(1 .. n)
  BY FS_Interval
<1>2. IsFiniteSet(S) /\ c \in Nat
  BY <1>1, FS_Subset, FS_CardinalityType
<1>3. ASSUME NEW x \in S
      PROVE  IsFiniteSet(Upto(x)) /\ Cardinality(Upto(x)) \in 1 .. c
  <2>1. IsFiniteSet(Upto(x)) /\ Cardinality(Upto(x)) <= c
    BY <1>2, FS_Subset
  <2>2. Cardinality(Upto(x)) \in Nat /\ Upto(x) # {}
    BY <2>1, FS_CardinalityType
  <2>3. Cardinality(Upto(x)) # 0
    BY <2>1, <2>2, FS_EmptySet
  <2> QED BY <2>1, <2>2, <2>3, <1>2
<1>4. ASSUME NEW x \in S, NEW y \in S, x < y
      PROVE  Cardinality(Upto(x)) < Cardinality(Upto(y))
  <2>0. x \in Int /\ y \in Int /\ (\A z \in S : z <= x => z <= y) /\ y <= y /\ ~(y <= x)
    BY <1>0, <1>4
  <2>1. Upto(x) \in SUBSET Upto(y) /\ y \in Upto(y) /\ y \notin Upto(x)
    BY <2>0
  <2>2. Cardinality(Upto(x)) <= Cardinality(Upto(y)) /\ Cardinality(Upto(x)) # Cardinality(Upto(y))
    BY <2>1, <1>3, FS_Subset
  <2> QED BY <2>2, <1>3
<1>5. rank \in [S -> 1 .. c] /\ \A x \in S : rank[x] = Cardinality(Upto(x))
  BY <1>3
<1> HIDE DEF rank, Upto, c
<1>6. \A x, y \in S : x < y => rank[x] < rank[y]
  BY <1>4, <1>5
<1>7. rank \in Injection(S, 1 .. c)
  <2>1. \A x, y \in S : rank[x] = rank[y] => x = y
    BY <1>5, <1>6
  <2> QED BY <2>1, <1>5 DEF Injection, IsInjective
<1>8. IsFiniteSet(1 .. c) /\ Cardinality(1 .. c) = c
  BY <1>2, FS_Interval
<1>9. rank \in Surjection(S, 1 .. c)
  BY <1>7, <1>8, FS_Injection DEF c
<1>10. \A k \in 1 .. c : \E x \in S : rank[x] = k
  BY <1>9, <1>5 DEF Surjection
<1> DEFINE s == [k \in 1 .. c |-> CHOOSE x \in S : rank[x] = k]
<1>11. \A k \in 1 .. c : s[k] \in S /\ rank[s[k]] = k
  BY <1>10
<1>12. s \in [1 .. c -> S]
  BY <1>11
<1> HIDE DEF s
<1>13. \A i, j \in DOMAIN s : i < j => s[i] < s[j]
  <2> SUFFICES ASSUME NEW i \in 1 .. c, NEW j \in 1 .. c, i < j PROVE s[i] < s[j]
    BY <1>12
  <2>1. s[i] \in S /\ s[j] \in S /\ rank[s[i]] = i /\ rank[s[j]] = j
    BY <1>11
  <2>2. s[i] \in Int /\ s[j] \in Int
    BY <2>1, <1>0
  <2>3. s[j] < s[i] => j < i
    BY <2>1, <1>6
  <2>4. s[i] # s[j]
    BY <2>1, <1>2
  <2> QED BY <2>2, <2>3, <2>4, <1>2
<1> QED BY <1>2, <1>12, <1>13 DEF c

LEMMA InOrderOf ==
  ASSUME NEW n \in Nat, NEW S \in SUBSET (1 .. n)
  PROVE  /\ Cardinality(S) \in Nat
         /\ InOrder(S) \in [1 .. Cardinality(S) -> S]
         /\ \A i, j \in 1 .. Cardinality(S) : i < j => InOrder(S)[i] < InOrder(S)[j]
         /\ \A x \in S : \E i \in 1 .. Cardinality(S) : InOrder(S)[i] = x
<1> DEFINE c == Cardinality(S)
           s == InOrder(S)
<1>0. \A x \in S : x \in Int
  OBVIOUS
<1>1. IsFiniteSet(S) /\ c \in Nat
  BY OrderExists
<1>2. s \in [1 .. c -> S] /\ \A i, j \in DOMAIN s : i < j => s[i] < s[j]
  BY OrderExists DEF InOrder
<1> HIDE DEF s
<1>3. \A i, j \in 1 .. c : i < j => s[i] < s[j]
  BY <1>2
<1>4. s \in Injection(1 .. c, S)
  <2>1. \A i, j \in 1 .. c : s[i] = s[j] => i = j
    <3> SUFFICES ASSUME NEW i \in 1 .. c, NEW j \in 1 .. c, s[i] = s[j], i # j PROVE FALSE
      OBVIOUS
    <3>1. s[i] \in S /\ s[j] \in S
      BY <1>2
    <3>2. s[i] \in Int /\ s[j] \in Int
      BY <3>1, <1>0
    <3> QED BY <3>2, <1>3, <1>1
  <2> QED BY <2>1, <1>2 DEF Injection, IsInjective
<1>5. s \in Surjection(1 .. c, S)
  <2>1. Cardinality(1 .. c) = c
    BY <1>1, FS_Interval
  <2> QED BY <2>1, <1>4, <1>1, FS_Injection
<1>6. \A x \in S : \E i \in 1 .. c : s[i] = x
  BY <1>5, <1>2 DEF Surjection
<1> QED BY <1>1, <1>2, <1>3, <1>6 DEF s

----------------------------------------------------------------------------
(* What the writer does to the files. *)

LEMMA FileFits ==
  ASSUME ShapeInv, FilesInv, NEW f \in 1 .. Len(files)
  PROVE  /\ files[f] \in Seq(Half) /\ Len(files[f]) \in 0 .. MaxHalves
         /\ \A i \in 1 .. Len(files[f]) : files[f][i] \in Half /\ files[f][i] \in Nat
<1>1. files[f] \in Seq(Half)
  BY DEF ShapeInv
<1>2. Len(files[f]) \in Nat /\ \A i \in 1 .. Len(files[f]) : files[f][i] \in Half /\ files[f][i] \in Nat
  BY <1>1, TailAssumption DEF Half
<1>3. CASE Len(files[f]) = 0
  BY <1>1, <1>2, <1>3, TailAssumption
<1>4. CASE Len(files[f]) # 0
  <2>1. Len(files[f]) \in 1 .. Len(files[f]) /\ 1 \in 1 .. Len(files[f])
    BY <1>2, <1>4
  <2>2. files[f][Len(files[f])] = files[f][1] + Len(files[f]) - 1
    BY <2>1 DEF FilesInv
  <2>3. files[f][Len(files[f])] \in Half /\ files[f][1] \in Half
    BY <1>2, <2>1
  <2>4. files[f][Len(files[f])] <= MaxHalves /\ files[f][1] >= 1 /\ files[f][1] \in Int /\ MaxHalves \in Nat
    BY <2>3, TailAssumption DEF Half
  <2> QED BY <1>1, <1>2, <2>2, <2>4
<1> QED BY <1>3, <1>4

LEMMA Numbers ==
  ASSUME ShapeInv
  PROVE  /\ MaxHalves \in Nat /\ MaxHalves >= 2 /\ MaxFiles \in Nat /\ MaxDirs \in Nat /\ MaxTruncations \in Nat
         /\ Len(files) \in Nat /\ at_path \in 0 .. Len(files)
         /\ dir \in Nat /\ dirs \in Nat /\ written \in Nat /\ truncations \in Nat
         /\ inode \in Nat /\ offset \in Nat /\ found.ino \in 0 .. Len(files) /\ found.size \in 0 .. MaxHalves
<1>1. MaxHalves \in Nat /\ MaxHalves >= 2 /\ MaxFiles \in Nat /\ MaxDirs \in Nat /\ MaxTruncations \in Nat
  BY TailAssumption
<1>2. Len(files) \in Nat /\ at_path \in 0 .. Len(files)
  BY DEF ShapeInv
<1>3. dir \in Nat /\ dirs \in Nat /\ written \in Nat /\ truncations \in Nat /\ inode \in Nat /\ offset \in Nat
  BY <1>1, <1>2 DEF ShapeInv
<1>4. found.ino \in 0 .. Len(files) /\ found.size \in 0 .. MaxHalves
  BY DEF ShapeInv
<1> QED BY <1>1, <1>2, <1>3, <1>4

LEMMA ReadNumbers ==
  ASSUME ShapeInv
  PROVE  /\ buffer \in Seq(Half) /\ events \in Seq(Half) /\ Len(buffer) \in Nat /\ Len(events) \in Nat
         /\ \A k \in 1 .. Len(buffer) : buffer[k] \in Half /\ buffer[k] \in Nat
         /\ \A k \in 1 .. Len(events) : events[k] \in Half /\ events[k] \in Nat
<1>1. Half \subseteq Nat
  BY TailAssumption DEF Half
<1>2. buffer \in Seq(Half) /\ Len(buffer) \in Nat /\ \A k \in 1 .. Len(buffer) : buffer[k] \in Half
  BY SMTT(20) DEF ShapeInv
<1>3. events \in Seq(Half) /\ Len(events) \in Nat /\ \A k \in 1 .. Len(events) : events[k] \in Half
  BY SMTT(20) DEF ShapeInv
<1> QED BY <1>1, <1>2, <1>3

Frame == UNCHANGED <<follow_links, state, pending, closed, pc, found, fh, told, due>>

(* What was in a file stays where it was, unless it was truncated, and     *)
(* what is new in it is new to all.  A tail that watches what is there     *)
(* hears of any act of the writer.                                         *)
Grown ==
  /\ Frame /\ overtaken' = (overtaken \/ Adopting) /\ notices \subseteq notices'
  /\ Len(files') \in {Len(files), Len(files) + 1}
  /\ written <= written'
  /\ \A f \in 1 .. Len(files') : \A i \in 1 .. Len(files'[f]) :
       /\ f <= Len(files)
       /\ IF i <= Len(files[f]) THEN files'[f][i] = files[f][i] ELSE written < files'[f][i]
  /\ \A f \in 1 .. Len(files) :
       Len(files[f]) <= Len(files'[f]) \/ (truncations' # 0 /\ Len(files'[f]) = 0)
  /\ truncations' = 0 => truncations = 0
  /\ at_path' \in {0, at_path} \/ (at_path' = Len(files') /\ Len(files') = Len(files) + 1)
  /\ at_path' # 0 => dir' = dir
  /\ dir_watch = dir /\ (at_path = 0 \/ file_watch = at_path) => notices' # {}

LEMMA Appends ==
  ASSUME ShapeInv, FilesInv, NEW k \in 1 .. 2, AppendHalves(k)
  PROVE  /\ at_path \in 1 .. Len(files) /\ at_path = Len(files)
         /\ files' \in Seq(Seq(Half)) /\ Len(files') = Len(files)
         /\ \A f \in 1 .. Len(files) : f # at_path => files'[f] = files[f]
         /\ Len(files'[at_path]) = Len(files[at_path]) + k
         /\ \A i \in 1 .. Len(files[at_path]) : files'[at_path][i] = files[at_path][i]
         /\ \A i \in 1 .. Len(files[at_path]) + k : i > Len(files[at_path]) =>
              files'[at_path][i] = written + i - Len(files[at_path])
         /\ written' = written + k /\ written' <= MaxHalves
<1>1. at_path \in 1 .. Len(files) /\ at_path = Len(files) /\ written' = written + k /\ written + k <= MaxHalves
  BY Numbers DEF AppendHalves, ShapeInv
<1> DEFINE added == [i \in 1 .. k |-> written + i]
           new == files[at_path] \o added
<1>2. \A i \in 1 .. k : written + i \in Half
  <2>1. written \in Nat /\ MaxHalves \in Nat
    BY Numbers
  <2> QED BY <1>1, <2>1 DEF Half
<1>3. added \in Seq(Half) /\ Len(added) = k /\ \A i \in 1 .. k : added[i] = written + i
  <2>1. k \in Nat
    OBVIOUS
  <2>2. added \in [1 .. k -> Half] /\ \A i \in 1 .. k : added[i] = written + i
    BY <1>2
  <2> HIDE DEF added
  <2> QED BY <2>1, <2>2
<1>4. files[at_path] \in Seq(Half)
  BY <1>1, FileFits
<1> HIDE DEF added
<1>5. /\ new \in Seq(Half) /\ Len(new) = Len(files[at_path]) + k
      /\ \A i \in 1 .. Len(files[at_path]) : new[i] = files[at_path][i]
      /\ \A i \in 1 .. Len(files[at_path]) + k : i > Len(files[at_path]) =>
           new[i] = added[i - Len(files[at_path])]
  BY <1>3, <1>4
<1>6. \A i \in 1 .. Len(files[at_path]) + k : i > Len(files[at_path]) => new[i] = written + i - Len(files[at_path])
  <2> SUFFICES ASSUME NEW i \in 1 .. Len(files[at_path]) + k, i > Len(files[at_path])
               PROVE  new[i] = written + i - Len(files[at_path])
    OBVIOUS
  <2>1. Len(files[at_path]) \in Nat
    BY <1>4
  <2>2. i - Len(files[at_path]) \in 1 .. k
    BY <2>1
  <2> QED BY <2>1, <2>2, <1>3, <1>5, Numbers
<1>7. files' = [files EXCEPT ![at_path] = new]
  BY DEF AppendHalves, added
<1> HIDE DEF new
<1>8. files' \in Seq(Seq(Half)) /\ Len(files') = Len(files) /\ files'[at_path] = new
      /\ \A f \in 1 .. Len(files) : f # at_path => files'[f] = files[f]
  BY SMTT(20), <1>1, <1>5, <1>7 DEF ShapeInv
<1> QED BY <1>1, <1>5, <1>6, <1>8

LEMMA Truncates ==
  ASSUME ShapeInv, Truncate
  PROVE  /\ at_path \in 1 .. Len(files) /\ at_path = Len(files)
         /\ files' \in Seq(Seq(Half)) /\ Len(files') = Len(files)
         /\ \A f \in 1 .. Len(files) : f # at_path => files'[f] = files[f]
         /\ files'[at_path] = <<>> /\ Len(files'[at_path]) = 0
<1>1. at_path \in 1 .. Len(files) /\ at_path = Len(files)
  BY Numbers DEF Truncate, ShapeInv
<1>2. <<>> \in Seq(Half) /\ Len(<<>>) = 0
  OBVIOUS
<1>3. files' = [files EXCEPT ![at_path] = <<>>]
  BY DEF Truncate
<1> QED BY <1>1, <1>2, <1>3 DEF ShapeInv

LEMMA Creates ==
  ASSUME ShapeInv, Create
  PROVE  /\ files' \in Seq(Seq(Half)) /\ Len(files') = Len(files) + 1
         /\ \A f \in 1 .. Len(files) : files'[f] = files[f]
         /\ files'[Len(files) + 1] = <<>> /\ Len(files'[Len(files) + 1]) = 0
         /\ at_path' = Len(files')
<1>1. <<>> \in Seq(Half) /\ Len(<<>>) = 0
  OBVIOUS
<1>2. files' = Append(files, <<>>) /\ at_path' = Len(files) + 1
  BY DEF Create
<1> QED BY <1>1, <1>2 DEF ShapeInv

LEMMA NextLineIs ==
  ASSUME ShapeInv, FilesInv
  PROVE  /\ NextLine \in 0 .. MaxHalves + 1 /\ NextLine % 2 = 0
         /\ written <= NextLine /\ NextLine <= written + 1
<1>1. written \in Nat /\ MaxHalves \in Nat /\ written <= MaxHalves + 1
  BY Numbers DEF ShapeInv
<1>2. written % 2 = 1 => written <= MaxHalves
  BY DEF FilesInv
<1>3. written % 2 \in {0, 1} /\ (written % 2 = 1 => (written + 1) % 2 = 0)
  BY <1>1
<1> QED BY <1>1, <1>2, <1>3 DEF NextLine

LEMMA AppendGrows ==
  ASSUME TailInv, NEW k \in 1 .. 2, AppendHalves(k)
  PROVE  ShapeInv' /\ FilesInv' /\ Grown
<1> USE DEF TailInv
<1>1. /\ at_path \in 1 .. Len(files) /\ at_path = Len(files)
      /\ files' \in Seq(Seq(Half)) /\ Len(files') = Len(files)
      /\ \A f \in 1 .. Len(files) : f # at_path => files'[f] = files[f]
      /\ written' = written + k /\ written' <= MaxHalves
  BY Appends
<1>2. /\ Len(files'[at_path]) = Len(files[at_path]) + k
      /\ \A i \in 1 .. Len(files[at_path]) : files'[at_path][i] = files[at_path][i]
      /\ \A i \in 1 .. Len(files[at_path]) + k : i > Len(files[at_path]) =>
              files'[at_path][i] = written + i - Len(files[at_path])
  BY Appends
<1>3. /\ Frame /\ UNCHANGED <<at_path, dir, dirs, truncations>> /\ overtaken' = (overtaken \/ Adopting)
      /\ notices' = notices \cup WriteNotice
  BY DEF AppendHalves, WriterActs, Frame
<1>0. written \in Nat /\ MaxHalves \in Nat /\ k \in Nat
  BY Numbers
<1>4. written \in Nat /\ written' \in 0 .. MaxHalves + 1 /\ MaxHalves \in Nat
  BY <1>0, <1>1
<1>5. ShapeInv'
  BY <1>1, <1>3, <1>4 DEF ShapeInv, Frame, state, told, WriteNotice, FileNotice, DirNotice, Adopting
<1>6. \A f \in 1 .. Len(files) : Len(files[f]) \in Nat /\ \A i \in 1 .. Len(files[f]) : files[f][i] \in Half /\ files[f][i] \in Nat
  BY FileFits
<1>7. Grown
  <2>1. ASSUME NEW f \in 1 .. Len(files'), NEW i \in 1 .. Len(files'[f])
        PROVE  /\ f <= Len(files)
               /\ IF i <= Len(files[f]) THEN files'[f][i] = files[f][i] ELSE written < files'[f][i]
    <3>1. CASE f # at_path
      BY <1>1, <1>6, <3>1
    <3>2. CASE f = at_path
      <4>1. Len(files[f]) \in Nat /\ i \in 1 .. Len(files[at_path]) + k /\ f <= Len(files)
        BY <3>2, <1>1, <1>2, <1>6
      <4>2. i <= Len(files[f]) => files'[f][i] = files[f][i]
        BY <4>1, <3>2, <1>2
      <4>3. i > Len(files[f]) => files'[f][i] = written + i - Len(files[f])
        BY <4>1, <3>2, <1>2
      <4> QED BY <4>1, <4>2, <4>3, <1>0
    <3> QED BY <3>1, <3>2
  <2>2. ASSUME NEW f \in 1 .. Len(files) PROVE Len(files[f]) <= Len(files'[f])
    <3>1. CASE f = at_path
      BY <3>1, <1>0, <1>2, <1>6
    <3>2. CASE f # at_path
      <4>1. files'[f] = files[f] /\ Len(files[f]) \in Nat
        BY <3>2, <1>1, <1>6
      <4> QED BY <4>1
    <3> QED BY <3>1, <3>2
  <2>3. dir_watch = dir /\ (at_path = 0 \/ file_watch = at_path) => notices' # {}
    BY <1>1, <1>3 DEF WriteNotice, FileNotice
  <2> QED BY <1>1, <1>3, <1>4, <2>1, <2>2, <2>3 DEF Grown
<1>8. FilesInv'
  <2>1. IF files[at_path] = <<>> THEN written % 2 = 0 ELSE files[at_path][Len(files[at_path])] = written
    BY <1>1, Numbers DEF FilesInv
  <2>2. files[at_path] = <<>> <=> Len(files[at_path]) = 0
    BY <1>1, FileFits
  <2>3. ASSUME NEW i \in 1 .. Len(files'[at_path])
        PROVE  /\ files'[at_path][i] = files'[at_path][1] + i - 1 /\ files'[at_path][1] % 2 = 1
               /\ files'[at_path][i] <= written'
    <3>1. Len(files[at_path]) \in Nat /\ 1 \in 1 .. Len(files'[at_path])
      BY <1>1, <1>2, <1>6
    <3>2. CASE Len(files[at_path]) = 0
      <4>1. files'[at_path][1] = written + 1 /\ files'[at_path][i] = written + i /\ i <= k
        BY <1>2, <1>4, <3>1, <3>2
      <4> QED BY <4>1, <2>1, <2>2, <3>2, <1>1, <1>4
    <3>3. CASE Len(files[at_path]) # 0
      <4> DEFINE n == Len(files[at_path])
      <4>1. n \in 1 .. n /\ 1 \in 1 .. n /\ files[at_path][n] = written
        BY <2>1, <2>2, <3>1, <3>3
      <4>2. files[at_path][n] = files[at_path][1] + n - 1 /\ files[at_path][1] % 2 = 1 /\ files[at_path][1] \in Int
        <5>1. n \in 1 .. Len(files[at_path])
          BY <4>1
        <5>2. files[at_path][n] = files[at_path][1] + n - 1 /\ files[at_path][1] % 2 = 1
          BY <5>1, <1>1 DEF FilesInv
        <5> QED BY <5>2, <4>1, <1>1, <1>6
      <4>3. files'[at_path][1] = files[at_path][1]
        BY <4>1, <1>2
      <4>4. CASE i <= n
        <5>1. files'[at_path][i] = files[at_path][i] /\ files[at_path][i] = files[at_path][1] + i - 1
              /\ files[at_path][i] <= written
          <6>1. i \in 1 .. Len(files[at_path])
            BY <4>4, <3>1
          <6> QED BY <6>1, <1>1, <1>2 DEF FilesInv
        <5>2. files[at_path][i] \in Nat /\ written' = written + k
          BY <4>4, <3>1, <1>1, <1>6
        <5> QED BY <5>1, <5>2, <4>2, <4>3, <1>0
      <4>5. CASE i > n
        <5>1. files'[at_path][i] = written + i - n /\ i <= n + k
          BY <4>5, <3>1, <1>2
        <5>2. written' = written + k /\ n \in Nat /\ i \in Nat
          BY <3>1, <1>1
        <5>3. written = files[at_path][1] + n - 1 /\ files[at_path][1] \in Int
          BY <4>1, <4>2
        <5> HIDE DEF n
        <5>4. files'[at_path][i] = files[at_path][1] + i - 1 /\ files'[at_path][i] <= written + k
          BY SMTT(20), <5>1, <5>2, <5>3, <1>0
        <5> QED BY <5>2, <5>4, <4>2, <4>3
      <4> QED BY <4>4, <4>5, <3>1
    <3> QED BY <3>2, <3>3
  <2>4. ASSUME NEW f \in 1 .. Len(files'), NEW i \in 1 .. Len(files'[f])
        PROVE  files'[f][i] = files'[f][1] + i - 1 /\ files'[f][1] % 2 = 1 /\ files'[f][i] <= written'
    <3>1. CASE f = at_path
      BY <2>3, <3>1
    <3>2. CASE f # at_path
      <4>1. files[f][i] = files[f][1] + i - 1 /\ files[f][1] % 2 = 1 /\ files[f][i] <= written /\ files[f][i] \in Half
        BY <3>2, <1>1, <1>6 DEF FilesInv
      <4>2. files[f][i] \in Nat /\ written' = written + k /\ files'[f] = files[f]
        BY <3>2, <1>1, <1>6
      <4> QED BY <4>1, <4>2, <1>0
    <3> QED BY <3>1, <3>2
  <2>5. ASSUME NEW f \in 1 .. Len(files'), NEW i \in 1 .. Len(files'[f]),
               NEW g \in 1 .. Len(files'), g < f, NEW j \in 1 .. Len(files'[g])
        PROVE  files'[g][j] < files'[f][i]
    <3>1. g # at_path /\ files'[g] = files[g] /\ files[g][j] \in Half /\ files[g][j] <= written
      BY SMTT(20), <2>5, <1>1, <1>6 DEF FilesInv
    <3>2. CASE i <= Len(files[f])
      <4>1. i \in 1 .. Len(files[f]) /\ files'[f][i] = files[f][i]
        BY SMTT(20), <3>2, <1>1, <1>2, <1>6
      <4> QED BY <4>1, <2>5, <3>1, <1>1 DEF FilesInv
    <3>3. CASE i > Len(files[f])
      <4>1. written < files'[f][i] /\ files'[f][i] \in Half
        BY <3>3, <1>1, <1>6, <1>7, SMTT(20) DEF Grown
      <4> QED BY SMTT(20), <4>1, <3>1, <1>4 DEF Half
    <3> QED BY <3>2, <3>3, <1>1, <1>6
  <2>6. files'[at_path] # <<>> /\ files'[at_path][Len(files'[at_path])] = written'
    <3>1. Len(files'[at_path]) = Len(files[at_path]) + k /\ Len(files[at_path]) \in Nat
      BY <1>1, <1>2, <1>6
    <3>2. files'[at_path][Len(files[at_path]) + k] = written + (Len(files[at_path]) + k) - Len(files[at_path])
      BY <3>1, <1>2
    <3>3. Len(files'[at_path]) # 0
      BY <3>1
    <3> QED BY <3>1, <3>2, <3>3, <1>1, <1>4
  <2>7. (dir' = 0 => at_path' = 0) /\ (written' % 2 = 1 => written' <= MaxHalves)
    BY <1>1, <1>3 DEF FilesInv
  <2> QED BY <2>4, <2>5, <2>6, <2>7, <1>3 DEF FilesInv
<1> QED BY <1>5, <1>7, <1>8

LEMMA TruncateGrows ==
  ASSUME TailInv, Truncate
  PROVE  ShapeInv' /\ FilesInv' /\ Grown
<1> USE DEF TailInv
<1>1. /\ at_path \in 1 .. Len(files) /\ at_path = Len(files)
      /\ files' \in Seq(Seq(Half)) /\ Len(files') = Len(files)
      /\ \A f \in 1 .. Len(files) : f # at_path => files'[f] = files[f]
      /\ files'[at_path] = <<>> /\ Len(files'[at_path]) = 0
  BY Truncates
<1>2. /\ Frame /\ UNCHANGED <<at_path, dir, dirs>> /\ overtaken' = (overtaken \/ Adopting)
      /\ notices' = notices \cup WriteNotice /\ truncations' = truncations + 1 /\ truncations < MaxTruncations
      /\ written' = NextLine
  BY DEF Truncate, WriterActs, Frame
<1>0. written \in Nat /\ truncations \in Nat /\ MaxTruncations \in Nat /\ MaxHalves \in Nat
  BY Numbers
<1>3. written \in Nat /\ truncations \in Nat /\ MaxTruncations \in Nat /\ written' \in 0 .. MaxHalves + 1 /\ written' % 2 = 0
      /\ written <= written' /\ truncations' \in 0 .. MaxTruncations /\ truncations' # 0 /\ MaxHalves \in Nat
  <2>1. written' \in 0 .. MaxHalves + 1 /\ written' % 2 = 0 /\ written <= written'
    BY <1>2, NextLineIs
  <2>2. truncations' \in 0 .. MaxTruncations /\ truncations' # 0
    BY <1>0, <1>2
  <2> QED BY <1>0, <2>1, <2>2
<1>4. ShapeInv'
  BY <1>1, <1>2, <1>3 DEF ShapeInv, Frame, state, told, WriteNotice, FileNotice, DirNotice, Adopting
<1>5. \A f \in 1 .. Len(files) : Len(files[f]) \in Nat /\ \A i \in 1 .. Len(files[f]) : files[f][i] \in Half /\ files[f][i] \in Nat
  BY FileFits
<1>6. Grown
  <2>1. ASSUME NEW f \in 1 .. Len(files'), NEW i \in 1 .. Len(files'[f])
        PROVE  f <= Len(files) /\ f # at_path /\ i <= Len(files[f]) /\ files'[f][i] = files[f][i]
    BY SMTT(20), <1>1, <1>5
  <2>2. \A f \in 1 .. Len(files) : Len(files[f]) <= Len(files'[f]) \/ (truncations' # 0 /\ Len(files'[f]) = 0)
    <3> SUFFICES ASSUME NEW f \in 1 .. Len(files), f # at_path PROVE Len(files[f]) <= Len(files'[f])
      BY <1>1, <1>3
    <3> QED BY <1>1, <1>5
  <2>3. dir_watch = dir /\ (at_path = 0 \/ file_watch = at_path) => notices' # {}
    <3>1. at_path # 0
      BY <1>1
    <3> QED BY <3>1, <1>2 DEF WriteNotice, FileNotice
  <2> QED BY <1>1, <1>2, <1>3, <2>1, <2>2, <2>3 DEF Grown
<1>7. FilesInv'
  <2>1. ASSUME NEW f \in 1 .. Len(files'), NEW i \in 1 .. Len(files'[f])
        PROVE  f # at_path /\ files'[f] = files[f] /\ i \in 1 .. Len(files[f]) /\ files[f][i] \in Half
    BY <1>1, <1>5
  <2>2. ASSUME NEW f \in 1 .. Len(files'), NEW i \in 1 .. Len(files'[f])
        PROVE  /\ files'[f][i] = files'[f][1] + i - 1 /\ files'[f][1] % 2 = 1 /\ files'[f][i] <= written'
               /\ \A g \in 1 .. Len(files') : g < f => \A j \in 1 .. Len(files'[g]) : files'[g][j] < files'[f][i]
    <3>1. /\ files[f][i] = files[f][1] + i - 1 /\ files[f][1] % 2 = 1 /\ files[f][i] <= written
          /\ \A g \in 1 .. Len(files) : g < f => \A j \in 1 .. Len(files[g]) : files[g][j] < files[f][i]
      BY <2>1, <1>1 DEF FilesInv
    <3>2. files'[f][i] <= written'
      <4>1. files[f][i] \in Nat
        BY <2>1, <1>1, <1>5
      <4> QED BY SMTT(20), <4>1, <3>1, <2>1, <1>3
    <3>3. ASSUME NEW g \in 1 .. Len(files'), g < f, NEW j \in 1 .. Len(files'[g]) PROVE files'[g][j] < files'[f][i]
      <4>1. g \in 1 .. Len(files) /\ files'[g] = files[g] /\ j \in 1 .. Len(files[g])
        BY <2>1, <1>1
      <4> QED BY <4>1, <3>1, <3>3, <2>1
    <3> QED BY <3>1, <3>2, <3>3, <2>1
  <2>3. (dir' = 0 => at_path' = 0) /\ (written' % 2 = 1 => written' <= MaxHalves)
    BY <1>1, <1>2, <1>3 DEF FilesInv
  <2>4. at_path' # 0 => IF files'[at_path'] = <<>> THEN written' % 2 = 0 ELSE files'[at_path'][Len(files'[at_path'])] = written'
    BY <1>1, <1>2, <1>3
  <2> QED BY <2>2, <2>3, <2>4 DEF FilesInv
<1> QED BY <1>4, <1>6, <1>7

LEMMA CreateGrows ==
  ASSUME TailInv, Create
  PROVE  ShapeInv' /\ FilesInv' /\ Grown
<1> USE DEF TailInv
<1>1. /\ files' \in Seq(Seq(Half)) /\ Len(files') = Len(files) + 1
      /\ \A f \in 1 .. Len(files) : files'[f] = files[f]
      /\ files'[Len(files) + 1] = <<>> /\ Len(files'[Len(files) + 1]) = 0
      /\ at_path' = Len(files')
  BY Creates
<1>2. /\ Frame /\ UNCHANGED <<dir, dirs, truncations>> /\ overtaken' = (overtaken \/ Adopting)
      /\ notices' = notices \cup FileNotice \cup DirNotice /\ dir # 0 /\ Len(files) < MaxFiles
      /\ written' = NextLine
  BY DEF Create, WriterActs, Frame
<1>3. written \in Nat /\ written' \in 0 .. MaxHalves + 1 /\ written' % 2 = 0 /\ written <= written' /\ MaxHalves \in Nat
      /\ at_path \in 0 .. Len(files) + 1 /\ Len(files) + 1 \in Nat /\ Len(files) + 1 <= MaxFiles
      /\ Len(files) \in Nat /\ MaxFiles \in Nat /\ at_path \in 0 .. Len(files)
  <2>1. written' \in 0 .. MaxHalves + 1 /\ written' % 2 = 0 /\ written <= written'
    BY <1>2, NextLineIs
  <2>2. written \in Nat /\ MaxHalves \in Nat /\ Len(files) \in Nat /\ MaxFiles \in Nat /\ at_path \in 0 .. Len(files)
    BY Numbers
  <2>3. at_path \in 0 .. Len(files) + 1 /\ Len(files) + 1 \in Nat /\ Len(files) + 1 <= MaxFiles
    BY <2>2, <1>2
  <2> QED BY <2>1, <2>2, <2>3
<1>4. ShapeInv'
  <2>1. 0 .. Len(files) \subseteq 0 .. Len(files')
    BY <1>1, <1>3
  <2>2. /\ inode' \in 0 .. Len(files') /\ found' \in [ino : 0 .. Len(files'), size : 0 .. MaxHalves]
        /\ fh' \in 0 .. Len(files') /\ file_watch' \in 0 .. Len(files')
    <3>1. /\ inode' \in 0 .. Len(files) /\ found' \in [ino : 0 .. Len(files), size : 0 .. MaxHalves]
          /\ fh' \in 0 .. Len(files) /\ file_watch' \in 0 .. Len(files)
      BY <1>2 DEF Frame, state, ShapeInv
    <3> QED BY <3>1, <2>1
  <2>3. notices' \subseteq {"file", "dir"} /\ overtaken' \in BOOLEAN
    BY <1>2 DEF ShapeInv, FileNotice, DirNotice, Adopting
  <2>4. at_path' \in {0, Len(files')} /\ Len(files') <= MaxFiles
    BY <1>1, <1>3
  <2> QED BY <1>1, <1>2, <1>3, <2>2, <2>3, <2>4 DEF ShapeInv, Frame, state, told
<1>5. \A f \in 1 .. Len(files) : Len(files[f]) \in Nat /\ \A i \in 1 .. Len(files[f]) : files[f][i] \in Half /\ files[f][i] \in Nat
  BY FileFits
<1>6. ASSUME NEW f \in 1 .. Len(files'), NEW i \in 1 .. Len(files'[f])
      PROVE  f \in 1 .. Len(files) /\ files'[f] = files[f] /\ i \in 1 .. Len(files[f]) /\ files[f][i] \in Half
  <2>1. f # Len(files) + 1
    BY <1>1
  <2>2. f \in 1 .. Len(files)
    BY SMTT(20), <2>1, <1>1, <1>3
  <2> QED BY <2>2, <1>1, <1>5
<1>7. Grown
  <2>1. \A f \in 1 .. Len(files) : Len(files[f]) <= Len(files'[f])
    BY <1>1, <1>5
  <2>2. dir_watch = dir /\ (at_path = 0 \/ file_watch = at_path) => notices' # {}
    BY <1>2 DEF DirNotice
  <2>3. ASSUME NEW f \in 1 .. Len(files'), NEW i \in 1 .. Len(files'[f])
        PROVE  f <= Len(files) /\ i <= Len(files[f]) /\ files'[f][i] = files[f][i]
    BY <1>6, <1>5
  <2> QED BY <1>1, <1>2, <1>3, <2>1, <2>2, <2>3 DEF Grown
<1>8. FilesInv'
  <2>1. ASSUME NEW f \in 1 .. Len(files'), NEW i \in 1 .. Len(files'[f])
        PROVE  /\ files'[f][i] = files'[f][1] + i - 1 /\ files'[f][1] % 2 = 1 /\ files'[f][i] <= written'
               /\ \A g \in 1 .. Len(files') : g < f => \A j \in 1 .. Len(files'[g]) : files'[g][j] < files'[f][i]
    <3>1. /\ files[f][i] = files[f][1] + i - 1 /\ files[f][1] % 2 = 1 /\ files[f][i] <= written
          /\ \A g \in 1 .. Len(files) : g < f => \A j \in 1 .. Len(files[g]) : files[g][j] < files[f][i]
      BY <1>6 DEF FilesInv
    <3>2. files'[f][i] <= written'
      <4>1. files[f][i] \in Nat
        BY <1>6, <1>5
      <4> QED BY SMTT(20), <4>1, <3>1, <1>6, <1>3
    <3>3. ASSUME NEW g \in 1 .. Len(files'), g < f, NEW j \in 1 .. Len(files'[g]) PROVE files'[g][j] < files'[f][i]
      <4>1. g \in 1 .. Len(files) /\ files'[g] = files[g] /\ j \in 1 .. Len(files[g])
        BY <1>6
      <4> QED BY <4>1, <3>1, <3>3, <1>6
    <3> QED BY <3>1, <3>2, <3>3, <1>6
  <2>2. (dir' = 0 => at_path' = 0) /\ (written' % 2 = 1 => written' <= MaxHalves)
    BY <1>2, <1>3
  <2>3. at_path' # 0 => IF files'[at_path'] = <<>> THEN written' % 2 = 0 ELSE files'[at_path'][Len(files'[at_path'])] = written'
    BY <1>1, <1>3
  <2> QED BY <2>1, <2>2, <2>3 DEF FilesInv
<1> QED BY <1>4, <1>7, <1>8

(* The file or its directory goes away, or a directory comes. *)
LEMMA PathGrows ==
  ASSUME TailInv, Unlink \/ MoveDir \/ MakeDir
  PROVE  ShapeInv' /\ FilesInv' /\ Grown
<1> USE DEF TailInv
<1>1. /\ Frame /\ UNCHANGED <<files, truncations>> /\ overtaken' = (overtaken \/ Adopting)
      /\ notices \subseteq notices' /\ notices' \subseteq {"file", "dir"}
  BY DEF Unlink, MoveDir, MakeDir, WriterActs, Frame, FileNotice, DirNotice, ShapeInv
<1>2. written' \in {written, NextLine} /\ at_path' \in {0, at_path} /\ (at_path' # 0 => written' = written /\ dir = 0)
  BY DEF Unlink, MoveDir, MakeDir
<1>3. dir' \in 0 .. dirs' /\ dirs' \in 0 .. MaxDirs /\ dirs <= dirs'
  <2>1. dir \in 0 .. dirs /\ dirs \in 0 .. MaxDirs /\ MaxDirs \in Nat
    BY TailAssumption DEF ShapeInv
  <2>2. \/ dir' \in {0, dir} /\ dirs' = dirs
        \/ dirs < MaxDirs /\ dirs' = dirs + 1 /\ dir' = dirs + 1
    BY DEF Unlink, MoveDir, MakeDir
  <2> QED BY <2>1, <2>2
<1>4. /\ written \in Nat /\ written' \in 0 .. MaxHalves + 1 /\ written <= written' /\ MaxHalves \in Nat
      /\ (written' % 2 = 1 => written' <= MaxHalves)
      /\ dirs \in Nat /\ MaxDirs \in Nat
  <2>1. written \in Nat /\ MaxHalves \in Nat /\ dirs \in Nat /\ MaxDirs \in Nat
    BY Numbers
  <2>2. /\ written \in 0 .. MaxHalves + 1 /\ (written % 2 = 1 => written <= MaxHalves)
        /\ NextLine \in 0 .. MaxHalves + 1 /\ NextLine % 2 = 0 /\ written <= NextLine
    BY NextLineIs DEF ShapeInv, FilesInv
  <2>3. CASE written' = written
    BY <2>1, <2>2, <2>3
  <2>4. CASE written' = NextLine
    <3>1. ~(written' % 2 = 1)
      BY <2>2, <2>4
    <3> QED BY <3>1, <2>1, <2>2, <2>4
  <2> QED BY <1>2, <2>3, <2>4
<1>5. at_path' = 0
  BY <1>2 DEF FilesInv
<1>6. dir_watch' \in NoWatch .. dirs'
  BY <1>1, <1>3, <1>4 DEF ShapeInv, Frame, state, NoWatch
<1>7. ShapeInv'
  BY <1>1, <1>3, <1>4, <1>5, <1>6 DEF ShapeInv, Frame, state, told, Adopting
<1>8. \A f \in 1 .. Len(files) : Len(files[f]) \in Nat /\ \A i \in 1 .. Len(files[f]) : files[f][i] \in Half /\ files[f][i] \in Nat
  BY FileFits
<1>9. Grown
  <2>1. dir_watch = dir /\ (at_path = 0 \/ file_watch = at_path) => notices' # {}
    BY DEF Unlink, MoveDir, MakeDir, FileNotice, DirNotice
  <2>2. \A f \in 1 .. Len(files) : Len(files[f]) <= Len(files'[f])
    BY <1>1, <1>8
  <2> QED BY <1>1, <1>4, <1>5, <1>8, <2>1, <2>2, Numbers DEF Grown
<1>10. FilesInv'
  <2>1. \A f \in 1 .. Len(files') : \A i \in 1 .. Len(files'[f]) : files'[f][i] <= written'
    BY <1>1, <1>4, <1>8 DEF FilesInv, Half
  <2> QED BY <2>1, <1>1, <1>4, <1>5 DEF FilesInv
<1> QED BY <1>7, <1>9, <1>10

LEMMA WriterGrows == TailInv /\ Writer => ShapeInv' /\ FilesInv' /\ Grown
BY AppendGrows, TruncateGrows, CreateGrows, PathGrows DEF Writer

(* What a step of the writer keeps: the places of a pass, and what is      *)
(* known of what was read and of what is to come.                          *)

LEMMA GrownFacts ==
  ASSUME TailInv, ShapeInv', Grown
  PROVE  /\ UNCHANGED <<follow_links, inode, offset, buffer, file_watch, dir_watch, pending, closed, pc, found, fh, events, spoilt, due>>
         /\ StartsAgain' = StartsAgain /\ InPass' = InPass
         /\ inode \in 0 .. Len(files) /\ Len(files) \in Nat /\ found.ino \in 0 .. Len(files) /\ at_path \in 0 .. Len(files)
         /\ Len(files') \in Nat
         /\ at_path' # 0 /\ at_path' \in 0 .. Len(files) => at_path' = at_path
         /\ \A f \in 1 .. Len(files) : Len(files[f]) \in Nat
         /\ \A f \in 1 .. Len(files') : Len(files'[f]) \in Nat /\ \A i \in 1 .. Len(files'[f]) : files'[f][i] \in Nat
         /\ written \in Nat /\ written' \in Nat /\ offset \in Nat
<1>1. Len(files) \in Nat /\ at_path \in 0 .. Len(files) /\ found.ino \in 0 .. Len(files)
  BY Numbers DEF TailInv
<1>2. UNCHANGED <<follow_links, inode, offset, buffer, file_watch, dir_watch, pending, closed, pc, found, fh, events, spoilt, due>>
  BY DEF Grown, Frame, state, told
<1>3. Len(files') \in Nat /\ inode \in 0 .. Len(files)
  BY <1>1 DEF Grown, TailInv, ShapeInv
<1>4. at_path' # 0 /\ at_path' \in 0 .. Len(files) => at_path' = at_path
  BY <1>1 DEF Grown
<1>5. \A f \in 1 .. Len(files) : Len(files[f]) \in Nat
  BY FileFits DEF TailInv
<1>6. \A f \in 1 .. Len(files') : Len(files'[f]) \in Nat /\ \A i \in 1 .. Len(files'[f]) : files'[f][i] \in Nat
  <2>1. Half \subseteq Nat
    BY TailAssumption DEF Half
  <2>2. files' \in Seq(Seq(Half))
    BY DEF ShapeInv
  <2>3. ASSUME NEW f \in 1 .. Len(files')
        PROVE  Len(files'[f]) \in Nat /\ \A i \in 1 .. Len(files'[f]) : files'[f][i] \in Nat
    <3>1. files'[f] \in Seq(Half)
      BY <2>2
    <3>2. Len(files'[f]) \in Nat /\ \A i \in 1 .. Len(files'[f]) : files'[f][i] \in Half
      BY <3>1
    <3> QED BY <3>2, <2>1
  <2> QED BY <2>3
<1>7. written \in Nat /\ written' \in Nat /\ offset \in Nat
  <2>1. written \in Nat /\ offset \in Nat
    BY Numbers DEF TailInv
  <2>2. written' \in Nat
    BY TailAssumption DEF ShapeInv
  <2> QED BY <2>1, <2>2
<1> QED BY <1>1, <1>2, <1>3, <1>4, <1>5, <1>6, <1>7 DEF StartsAgain, InPass

LEMMA GrownPass == TailInv /\ ShapeInv' /\ Grown => PassInv'
<1> SUFFICES ASSUME TailInv, ShapeInv', Grown PROVE PassInv'
  OBVIOUS
<1>1. at_path' = inode /\ inode # 0 => at_path = inode
  BY GrownFacts
<1>2. InPass => inode # 0
  BY DEF TailInv, PassInv
<1>3. pc = "read" => InPass
  BY DEF InPass, StartsAgain
<1> QED BY <1>1, <1>2, <1>3, GrownFacts DEF TailInv, PassInv

LEMMA GrownWatch == TailInv /\ ShapeInv' /\ Grown => WatchInv'
<1> SUFFICES ASSUME TailInv, ShapeInv', Grown, ~closed', ~overtaken' PROVE
      /\ inode # 0 => file_watch = inode
      /\ inode # 0 /\ at_path' = inode => dir_watch = dir'
      /\ pc = "idle" => Alarm'
      /\ pc = "track" => found.ino \in {0, inode}
      /\ pc = "track" /\ ~Alarm' => Fresh' \/ (found.ino = 0 /\ dir_watch # dir')
      /\ InPass => Alarm'
  BY GrownFacts DEF WatchInv
<1>1. WatchInv /\ PassInv /\ FilesInv
  BY DEF TailInv
<1>2. ~closed /\ ~overtaken /\ (pc = "track" => found.ino \in {0, inode})
  <2>1. closed' = closed /\ overtaken' = (overtaken \/ Adopting)
    BY GrownFacts DEF Grown
  <2> QED BY <2>1 DEF Adopting
<1>3. notices \subseteq notices' /\ (Alarm => Alarm') /\ (notices' # {} => Alarm')
  BY GrownFacts DEF Grown, Alarm
<1>4. inode # 0 /\ at_path = inode => Alarm'
  BY <1>1, <1>2, <1>3, GrownFacts DEF WatchInv, Grown
<1>5. inode # 0 => file_watch = inode
  BY <1>1, <1>2 DEF WatchInv
<1>6. inode # 0 /\ at_path' = inode => dir_watch = dir'
  <2>1. inode # 0 /\ at_path' = inode => at_path = inode /\ dir' = dir
    BY GrownFacts DEF Grown
  <2> QED BY <2>1, <1>1, <1>2 DEF WatchInv
<1>7. pc = "idle" => Alarm'
  <2>1. pc = "idle" /\ ~Alarm => inode = at_path /\ dir_watch = dir
    BY <1>1, <1>2 DEF WatchInv
  <2>2. pc = "idle" /\ ~Alarm /\ at_path = 0 => notices' # {}
    BY <2>1 DEF Grown
  <2> QED BY <2>1, <2>2, <1>1, <1>2, <1>3, <1>4 DEF WatchInv
<1>8. pc = "track" /\ ~Alarm' => Fresh' \/ (found.ino = 0 /\ dir_watch # dir')
  <2> SUFFICES ASSUME pc = "track", ~Alarm' PROVE Fresh' \/ (found.ino = 0 /\ dir_watch # dir')
    OBVIOUS
  <2>1. Fresh \/ (found.ino = 0 /\ dir_watch # dir)
    BY <1>1, <1>2, <1>3 DEF WatchInv
  <2>2. found.ino = 0
    BY <2>1, <1>2, <1>3, <1>4 DEF Fresh
  <2>3. CASE at_path' = 0
    BY <2>2, <2>3, GrownFacts DEF Fresh
  <2>4. CASE at_path' # 0
    <3>1. dir' = dir
      BY <2>4 DEF Grown
    <3>2. dir_watch = dir => at_path # 0
      BY <1>3 DEF Grown
    <3>3. dir_watch = dir => at_path = 0
      BY <2>1, <2>2 DEF Fresh
    <3> QED BY <2>2, <3>1, <3>2, <3>3
  <2> QED BY <2>3, <2>4
<1>9. InPass => Alarm'
  <2>1. InPass /\ ~Alarm => Fresh /\ inode = found.ino /\ inode # 0
    BY <1>1, <1>2 DEF WatchInv, PassInv
  <2> QED BY <2>1, <1>3, <1>4 DEF Fresh
<1> QED BY <1>2, <1>5, <1>6, <1>7, <1>8, <1>9

LEMMA AheadOfAll ==
  ASSUME TailInv, ~follow_links, NEW h \in Nat, written < h
  PROVE  Ahead(h, events, buffer)
<1>1. /\ written \in Nat
      /\ \A k \in 1 .. Len(buffer) : buffer[k] \in Nat
      /\ \A k \in 1 .. Len(events) : events[k] \in Nat
  BY Numbers, ReadNumbers DEF TailInv
<1>2. \A k \in 1 .. Len(events) : 2 * events[k] <= written
  BY DEF TailInv, OrderInv
<1>3. \A k \in 1 .. Len(buffer) : buffer[k] <= written
  BY DEF TailInv, OrderInv
<1>4. ASSUME NEW k \in 1 .. Len(events) PROVE 2 * events[k] < h
  <2>1. 2 * events[k] <= written
    BY <1>2
  <2>2. events[k] \in Nat /\ written \in Nat
    BY <1>1
  <2> QED BY <2>1, <2>2
<1>5. \A k \in 1 .. Len(buffer) : buffer[k] < h
  BY <1>1, <1>3
<1> QED BY <1>4, <1>5 DEF Ahead

LEMMA GrownOrder == TailInv /\ ShapeInv' /\ Grown => OrderInv'
<1> SUFFICES ASSUME TailInv, ShapeInv', Grown, ~follow_links' PROVE OrderInv'
  BY DEF OrderInv
<1>0. OrderInv /\ ~follow_links
  BY GrownFacts DEF TailInv
<1>1. /\ events' = events /\ buffer' = buffer /\ inode' = inode /\ offset' = offset /\ pc' = pc /\ found' = found
      /\ written \in Nat /\ written' \in Nat /\ written <= written' /\ offset \in Nat
      /\ inode \in 0 .. Len(files) /\ Len(files) \in Nat /\ found.ino \in 0 .. Len(files)
  BY GrownFacts DEF Grown
<1>2. ASSUME NEW f \in 1 .. Len(files'), NEW i \in 1 .. Len(files'[f])
      PROVE  /\ f \in 1 .. Len(files)
             /\ \/ i \in 1 .. Len(files[f]) /\ files'[f][i] = files[f][i]
                \/ Ahead(files'[f][i], events, buffer)
  <2>1. /\ f \in 1 .. Len(files) /\ files'[f][i] \in Nat /\ Len(files[f]) \in Nat
        /\ IF i <= Len(files[f]) THEN files'[f][i] = files[f][i] ELSE written < files'[f][i]
    BY GrownFacts DEF Grown
  <2> QED BY <2>1, AheadOfAll, <1>0
<1>3. ASSUME NEW f \in 1 .. Len(files), Unseen(files[f], events, buffer)
      PROVE  Unseen(files'[f], events, buffer)
  <2> SUFFICES ASSUME NEW i \in 1 .. Len(files'[f]) PROVE Ahead(files'[f][i], events, buffer)
    BY DEF Unseen
  <2>1. f \in 1 .. Len(files')
    BY <1>1 DEF Grown
  <2> QED BY <2>1, <1>2, <1>3 DEF Unseen
<1>4. ASSUME NEW f \in 1 .. Len(files'), f \notin 1 .. Len(files)
      PROVE  Unseen(files'[f], events, buffer)
  BY <1>2, <1>4 DEF Unseen
<1>5. \A f \in 1 .. Len(files') : inode # 0 /\ f > inode => Unseen(files'[f], events, buffer)
  BY <1>0, <1>3, <1>4 DEF OrderInv
<1>6. ASSUME inode # 0
      PROVE  /\ \A i \in 1 .. Len(files'[inode]) : i > offset => Ahead(files'[inode][i], events, buffer)
             /\ Len(files'[inode]) < offset => Unseen(files'[inode], events, buffer)
  <2>1. inode \in 1 .. Len(files) /\ inode \in 1 .. Len(files') /\ Len(files[inode]) \in Nat /\ Len(files'[inode]) \in Nat
    <3>1. inode \in 1 .. Len(files) /\ inode \in 1 .. Len(files')
      BY <1>1, <1>6 DEF Grown
    <3> QED BY <3>1, GrownFacts
  <2>2. \A i \in 1 .. Len(files'[inode]) : i > offset => Ahead(files'[inode][i], events, buffer)
    <3>1. \A i \in 1 .. Len(files[inode]) : i > offset => Ahead(files[inode][i], events, buffer)
      BY <1>0, <1>6 DEF OrderInv
    <3> QED BY <2>1, <3>1, <1>2
  <2>3. CASE Len(files'[inode]) = 0
    BY <2>2, <2>3, <1>1 DEF Unseen
  <2>4. CASE Len(files[inode]) <= Len(files'[inode])
    <3>1. Len(files'[inode]) < offset => Len(files[inode]) < offset
      BY <2>1, <2>4, <1>1
    <3>2. Len(files[inode]) < offset => Unseen(files[inode], events, buffer)
      BY <1>0, <1>6 DEF OrderInv
    <3> QED BY <3>1, <3>2, <2>1, <2>2, <1>3
  <2> QED BY <2>1, <2>2, <2>3, <2>4 DEF Grown
<1>7. ASSUME at_path # 0 => Unseen(files[at_path], events, buffer), at_path' # 0
      PROVE  Unseen(files'[at_path'], events, buffer)
  <2>1. CASE at_path' = at_path
    <3>1. at_path \in 1 .. Len(files)
      BY <1>7, <2>1, GrownFacts
    <3> QED BY <3>1, <1>3, <1>7, <2>1
  <2>2. CASE at_path' = Len(files') /\ Len(files') = Len(files) + 1
    <3>1. at_path' \in 1 .. Len(files') /\ at_path' \notin 1 .. Len(files)
      BY <2>2, <1>1
    <3> QED BY <3>1, <1>4
  <2> QED BY <1>7, <2>1, <2>2 DEF Grown
<1>8. ASSUME found.ino # 0, Unseen(files[found.ino], events, buffer)
      PROVE  Unseen(files'[found.ino], events, buffer)
  BY <1>1, <1>3, <1>8
<1>9. /\ inode = 0 /\ at_path # 0 => Unseen(files[at_path], events, buffer)
      /\ pc = "track" /\ found.ino # 0 /\ (found.ino # inode \/ found.size < offset) => Unseen(files[found.ino], events, buffer)
      /\ pc = "track" /\ found.ino = 0 /\ at_path # 0 => Unseen(files[at_path], events, buffer)
  BY <1>0 DEF OrderInv
<1>10. /\ \A k \in 1 .. Len(events) : 2 * events[k] <= written'
       /\ \A k \in 1 .. Len(buffer) : buffer[k] <= written'
  <2>1. /\ \A k \in 1 .. Len(events) : 2 * events[k] <= written /\ events[k] \in Nat
        /\ \A k \in 1 .. Len(buffer) : buffer[k] <= written /\ buffer[k] \in Nat
    BY <1>0, ReadNumbers DEF OrderInv, TailInv
  <2> QED BY SMTT(20), <2>1, <1>1
<1>11. /\ \A i, j \in 1 .. Len(events) : i < j => events[i] < events[j]
       /\ \A i, j \in 1 .. Len(buffer) : i < j => buffer[i] < buffer[j]
       /\ \A i \in 1 .. Len(events) : \A j \in 1 .. Len(buffer) : 2 * events[i] < buffer[j]
  BY <1>0 DEF OrderInv
<1>12. pc = "track" /\ found.ino # 0 =>
         \A f \in 1 .. Len(files') : f > found.ino => Unseen(files'[f], events, buffer)
  BY <1>0, <1>3, <1>4 DEF OrderInv
<1> QED BY <1>1, <1>5, <1>6, <1>7, <1>8, <1>9, <1>10, <1>11, <1>12 DEF OrderInv

LEMMA GrownRead == TailInv /\ ShapeInv' /\ Grown => ReadInv'
<1> SUFFICES ASSUME TailInv, ShapeInv', Grown, truncations' = 0 PROVE
      /\ ~follow_links /\ ~SplitChars => ~spoilt
      /\ inode # 0 /\ (~follow_links \/ at_path' = inode) => Caught'
      /\ pc \in {"track", "read"} \/ InPass =>
           /\ found.ino # 0 => found.size <= Len(files'[found.ino])
           /\ found.ino = inode /\ inode # 0 /\ (~follow_links \/ at_path' = inode) => offset <= found.size
  BY GrownFacts DEF ReadInv
<1>1. ReadInv /\ truncations = 0
  BY DEF TailInv, Grown
<1>2. \A f \in 1 .. Len(files) : /\ f \in 1 .. Len(files') /\ Len(files[f]) \in Nat /\ Len(files'[f]) \in Nat
                                 /\ Len(files[f]) <= Len(files'[f])
  <2>1. \A f \in 1 .. Len(files) : Len(files[f]) <= Len(files'[f]) /\ f \in 1 .. Len(files')
    BY GrownFacts DEF Grown
  <2> QED BY <2>1, GrownFacts
<1>3. \A f \in 1 .. Len(files) : \A i \in 1 .. Len(files[f]) : files'[f][i] = files[f][i]
  <2> SUFFICES ASSUME NEW f \in 1 .. Len(files), NEW i \in 1 .. Len(files[f]) PROVE files'[f][i] = files[f][i]
    OBVIOUS
  <2>1. i \in 1 .. Len(files'[f]) /\ i <= Len(files[f]) /\ f \in 1 .. Len(files')
    BY <1>2
  <2> QED BY <2>1 DEF Grown
<1>4. inode # 0 /\ at_path' = inode => at_path = inode
  BY GrownFacts
<1>5. ASSUME inode # 0, ~follow_links \/ at_path' = inode
      PROVE  Caught'
  <2>1. Caught /\ inode \in 1 .. Len(files)
    BY <1>1, <1>4, <1>5, GrownFacts DEF ReadInv
  <2>2. offset \in Nat /\ offset <= Len(files[inode]) /\ Len(files[inode]) \in Nat /\ Len(files'[inode]) \in Nat
        /\ Len(files[inode]) <= Len(files'[inode])
    BY <2>1, <1>2, GrownFacts DEF Caught
  <2>3. \A i \in 1 .. offset : files'[inode][i] = files[inode][i]
    BY <2>1, <2>2, <1>3
  <2>4. Odd(offset) => offset \in 1 .. offset
    BY <2>2 DEF Odd
  <2>5. buffer = IF Odd(offset) THEN <<files'[inode][offset]>> ELSE <<>>
    BY <2>1, <2>3, <2>4 DEF Caught
  <2>6. \A i \in 1 .. offset : ~Odd(i) => \E k \in 1 .. Len(events) : 2 * events[k] = files'[inode][i]
    BY <2>1, <2>3 DEF Caught
  <2>7. offset <= Len(files'[inode])
    BY <2>2
  <2>8. offset' = offset /\ buffer' = buffer /\ inode' = inode /\ events' = events
    BY GrownFacts
  <2> QED BY <2>5, <2>6, <2>7, <2>8 DEF Caught
<1>6. ASSUME pc \in {"track", "read"} \/ InPass
      PROVE  /\ found.ino # 0 => found.size <= Len(files'[found.ino])
             /\ found.ino = inode /\ inode # 0 /\ (~follow_links \/ at_path' = inode) => offset <= found.size
  <2>1. found.ino # 0 => found.size <= Len(files[found.ino]) /\ found.size \in Nat
    BY <1>1, <1>6, Numbers, TailAssumption DEF ReadInv, TailInv
  <2>2. found.ino # 0 => /\ Len(files[found.ino]) \in Nat /\ Len(files'[found.ino]) \in Nat
                         /\ Len(files[found.ino]) <= Len(files'[found.ino])
    BY SMTT(20), <1>2, GrownFacts
  <2> QED BY <2>1, <2>2, <1>1, <1>4, <1>6 DEF ReadInv
<1> QED BY <1>1, <1>5, <1>6 DEF ReadInv

(* What is there is all there was, but for lines that are due to nobody. *)
LEMMA GrownDue == TailInv /\ ShapeInv' /\ Grown => DueInv'
<1> SUFFICES ASSUME TailInv, ShapeInv', Grown PROVE DueInv'
  OBVIOUS
<1> SUFFICES ASSUME truncations' = 0, ~closed' PROVE
      /\ \A line \in due : 2 * line <= written'
      /\ at_path' # 0 => \A line \in due :
           (\E i \in 1 .. Len(files'[at_path']) : files'[at_path'][i] = 2 * line) =>
              (\E k \in 1 .. Len(events) : events[k] = line) \/ pending \/ StartsAgain \/ InHand(line)'
  <2>1. due' = due /\ events' = events /\ pending' = pending /\ StartsAgain' = StartsAgain
    BY GrownFacts
  <2> QED BY <2>1 DEF DueInv
<1>1. DueInv /\ truncations = 0 /\ ~closed
  BY GrownFacts DEF TailInv, Grown
<1>2. \A line \in due : line \in Nat /\ 2 * line <= written
  <2>1. due \subseteq Nat
    BY TailAssumption DEF TailInv, ShapeInv, Half
  <2> QED BY <2>1, <1>1 DEF DueInv
<1>3. \A line \in due : 2 * line <= written'
  <2> SUFFICES ASSUME NEW line \in due PROVE 2 * line <= written'
    OBVIOUS
  <2>1. line \in Nat /\ 2 * line <= written /\ written \in Nat /\ written' \in Nat /\ written <= written'
    BY <1>2, GrownFacts DEF Grown
  <2> QED BY <2>1
<1>4. ASSUME at_path' # 0, NEW line \in due, NEW i \in 1 .. Len(files'[at_path']), files'[at_path'][i] = 2 * line
      PROVE  (\E k \in 1 .. Len(events) : events[k] = line) \/ pending \/ StartsAgain \/ InHand(line)'
  <2>1. at_path' \in 1 .. Len(files')
    BY SMTT(20), <1>4, GrownFacts DEF Grown
  <2>2. /\ at_path' \in 1 .. Len(files) /\ files'[at_path'][i] \in Nat /\ Len(files[at_path']) \in Nat
        /\ IF i <= Len(files[at_path']) THEN files'[at_path'][i] = files[at_path'][i] ELSE written < files'[at_path'][i]
    BY SMTT(20), <2>1, <1>4, GrownFacts DEF Grown
  <2>3. i \in 1 .. Len(files[at_path']) /\ files[at_path'][i] = 2 * line
    <3>1. line \in Nat /\ 2 * line <= written /\ written \in Nat
      BY <1>2, GrownFacts
    <3> QED BY <3>1, <2>2, <1>4
  <2>4. at_path' = at_path
    BY <2>2, <1>4, GrownFacts
  <2>5. (\E k \in 1 .. Len(events) : events[k] = line) \/ pending \/ StartsAgain \/ InHand(line)
    BY <1>1, <1>4, <2>3, <2>4 DEF DueInv
  <2>6. ASSUME InHand(line) PROVE InHand(line)'
    <3>1. PICK j \in 1 .. found.size : j <= Len(files[at_path]) /\ files[at_path][j] = 2 * line
      BY <2>6 DEF InHand
    <3>2. found.size \in Nat /\ Len(files[at_path]) \in Nat /\ Len(files'[at_path]) \in Nat /\ Len(files[at_path]) <= Len(files'[at_path])
      <4>1. found.size \in Nat
        BY Numbers, TailAssumption DEF TailInv
      <4> QED BY <4>1, <2>1, <2>2, <2>4, GrownFacts DEF Grown
    <3>3. j \in 1 .. Len(files'[at_path]) /\ j <= Len(files'[at_path]) /\ files'[at_path][j] = 2 * line
      BY <3>1, <3>2, <2>1, <2>4 DEF Grown
    <3>4. found' = found /\ pc' = pc /\ InPass' = InPass
      BY GrownFacts
    <3> QED BY <2>4, <2>6, <3>1, <3>3, <3>4, <1>4 DEF InHand
  <2> QED BY <2>5, <2>6
<1> QED BY <1>3, <1>4

LEMMA WriterOK == TailInv /\ Writer => TailInv'
BY WriterGrows, GrownPass, GrownWatch, GrownOrder, GrownRead, GrownDue DEF TailInv

----------------------------------------------------------------------------
(* A pass looks at the path. *)

LEMMA LooksOK == TailInv /\ (Stat \/ OpenUnfollowed) => TailInv'
<1> SUFFICES ASSUME TailInv, Stat \/ OpenUnfollowed PROVE TailInv'
  OBVIOUS
<1> USE DEF TailInv
<1>1. /\ StartsAgain /\ pc' = "track"
      /\ found' = IF at_path = 0 THEN Nothing ELSE [ino |-> at_path, size |-> FileSize(at_path)]
      /\ UNCHANGED <<follow_links, files, at_path, dir, dirs, written, truncations, overtaken, notices>>
      /\ UNCHANGED <<inode, offset, buffer, file_watch, dir_watch, pending, closed, events, spoilt, due>>
      /\ fh' \in {fh, at_path} /\ (~follow_links => fh' = at_path)
  BY DEF Stat, OpenUnfollowed, StartsAgain, disk, state, told, PassInv
<1>2. Len(files) \in Nat /\ at_path \in 0 .. Len(files) /\ inode \in 0 .. Len(files) /\ MaxHalves \in Nat
  BY Numbers DEF ShapeInv
<1>3. at_path # 0 => /\ at_path = Len(files) /\ at_path \in 1 .. Len(files)
                     /\ found'.ino = at_path /\ found'.size = Len(files[at_path])
                     /\ Len(files[at_path]) \in 0 .. MaxHalves
  BY <1>1, <1>2, FileFits DEF ShapeInv, FileSize
<1>4. at_path = 0 => found'.ino = 0 /\ found'.size = 0
  BY <1>1 DEF Nothing
<1>5. ShapeInv'
  <2>1. found' \in [ino : 0 .. Len(files), size : 0 .. MaxHalves]
    BY <1>1, <1>2, <1>3 DEF Nothing, FileSize
  <2>2. fh' \in 0 .. Len(files)
    BY <1>1, <1>2 DEF ShapeInv
  <2> QED BY <1>1, <2>1, <2>2 DEF ShapeInv
<1>6. FilesInv'
  BY <1>1 DEF FilesInv
<1>7. ~InPass'
  BY <1>1 DEF InPass
<1>8. PassInv'
  BY <1>1, <1>2, <1>3, <1>4, <1>7 DEF PassInv
<1>9. WatchInv'
  <2>1. Fresh'
    BY <1>1, <1>3, <1>4 DEF Fresh, FileSize
  <2> QED BY <1>1, <1>7, <2>1 DEF WatchInv
<1>10. OrderInv'
  <2> SUFFICES ASSUME ~follow_links PROVE OrderInv'
    BY <1>1 DEF OrderInv
  <2>1. at_path # 0 /\ (at_path # inode \/ Len(files[at_path]) < offset) => Unseen(files[at_path], events, buffer)
    <3>1. inode = 0 /\ at_path # 0 => Unseen(files[at_path], events, buffer)
      BY DEF OrderInv
    <3>2. inode # 0 /\ at_path # 0 /\ at_path # inode => Unseen(files[at_path], events, buffer)
      BY <1>2, <1>3 DEF OrderInv
    <3>3. inode # 0 /\ at_path = inode /\ Len(files[at_path]) < offset => Unseen(files[at_path], events, buffer)
      BY DEF OrderInv
    <3> QED BY <3>1, <3>2, <3>3
  <2>2. at_path # 0 => \A f \in 1 .. Len(files) : ~(f > at_path)
    BY <1>2, <1>3
  <2> QED BY <1>1, <1>3, <1>4, <2>1, <2>2 DEF OrderInv
<1>11. ReadInv'
  <2> SUFFICES ASSUME truncations = 0 PROVE ReadInv'
    BY <1>1 DEF ReadInv
  <2>1. Caught' = Caught
    BY <1>1 DEF Caught
  <2>2. at_path # 0 /\ at_path = inode => offset <= Len(files[at_path])
    BY DEF ReadInv, Caught
  <2> QED BY <1>1, <1>3, <1>4, <1>7, <2>1, <2>2 DEF ReadInv
<1>12. DueInv'
  <2> SUFFICES ASSUME at_path # 0, NEW line, NEW i \in 1 .. Len(files[at_path]), files[at_path][i] = 2 * line
               PROVE  InHand(line)'
    BY <1>1 DEF DueInv
  <2> QED BY <1>1, <1>3 DEF InHand
<1> QED BY <1>5, <1>6, <1>8, <1>9, <1>10, <1>11, <1>12

----------------------------------------------------------------------------
(* The end of a pass. *)

LEMMA PassEnded ==
  ASSUME NEW again \in BOOLEAN, PassEnds(again), UNCHANGED <<follow_links, closed>>
  PROVE  /\ ~InPass' /\ pc' \in {"idle", "stat", "open"} /\ pending' \in BOOLEAN
         /\ pc' = "stat" => follow_links
         /\ pc' = "open" => StartsAgain'
         /\ ~closed => (again <=> StartsAgain') /\ (pc' = "idle" <=> ~again) /\ (pc' = "idle" => ~pending')
BY DEF PassEnds, FirstStep, InPass, StartsAgain

LEMMA ForgetOK == TailInv /\ Found /\ found = Nothing => TailInv'
<1> SUFFICES ASSUME TailInv, Found, found = Nothing PROVE TailInv'
  OBVIOUS
<1> USE DEF TailInv
<1> DEFINE again == pending \/ (Rearms /\ ~closed)
<1>1. /\ pc = "track" /\ inode' = 0 /\ found.ino = 0 /\ again \in BOOLEAN /\ PassEnds(again)
      /\ dir_watch' = (IF closed THEN NoWatch ELSE dir)
      /\ notices' = IF dir_watch # dir THEN notices \ {"dir"} ELSE notices
      /\ UNCHANGED <<follow_links, files, at_path, dir, dirs, written, truncations, overtaken>>
      /\ UNCHANGED <<offset, buffer, file_watch, closed, found, fh, events, spoilt, due>>
  BY DEF Found, Forget, WatchNearest, Watches, Rearms, disk, told, Nothing, ShapeInv
<1>2. /\ ~InPass' /\ pc' \in {"idle", "stat", "open"} /\ pending' \in BOOLEAN
      /\ pc' = "stat" => follow_links
      /\ ~closed => (again <=> StartsAgain') /\ (pc' = "idle" <=> ~again) /\ (pc' = "idle" => ~pending')
  BY <1>1, PassEnded
<1>3. ShapeInv'
  <2>1. dir_watch' \in NoWatch .. dirs /\ 0 \in 0 .. Len(files)
    BY <1>1, Numbers DEF ShapeInv, NoWatch
  <2> QED BY <1>1, <1>2, <2>1 DEF ShapeInv
<1>4. FilesInv'
  BY <1>1 DEF FilesInv
<1>5. PassInv'
  BY <1>1, <1>2 DEF PassInv
<1>6. WatchInv'
  <2> SUFFICES ASSUME ~closed, ~overtaken, pc' = "idle", ~Alarm'
               PROVE  at_path = 0 /\ dir_watch' = dir
    BY <1>1, <1>2 DEF WatchInv
  <2>1. ~pending /\ dir_watch = dir
    BY <1>2 DEF Rearms
  <2>2. notices = {} /\ ~Alarm
    BY <1>1, <2>1 DEF Alarm, StartsAgain
  <2>3. Fresh
    BY <1>1, <2>1, <2>2 DEF WatchInv
  <2> QED BY <1>1, <2>3 DEF Fresh, ShapeInv
<1>7. OrderInv'
  BY <1>1, <1>2 DEF OrderInv
<1>8. ReadInv'
  BY <1>1, <1>2 DEF ReadInv
<1>9. DueInv'
  <2> SUFFICES ASSUME truncations = 0, ~closed PROVE DueInv'
    BY <1>1 DEF DueInv
  <2>1. ~StartsAgain /\ (pending => StartsAgain')
    BY <1>1, <1>2 DEF StartsAgain
  <2>2. \A line : ~(at_path # 0 /\ InHand(line))
    BY <1>1 DEF InHand
  <2> QED BY <1>1, <2>1, <2>2 DEF DueInv
<1> QED BY <1>3, <1>4, <1>5, <1>6, <1>7, <1>8, <1>9


----------------------------------------------------------------------------
(* track. *)

LEMMA FoundIs == TailInv /\ pc = "track" /\ found # Nothing => found.ino \in 1 .. Len(files)
<1> SUFFICES ASSUME TailInv, pc = "track", found # Nothing PROVE found.ino \in 1 .. Len(files)
  OBVIOUS
<1>1. found.ino \in 0 .. Len(files) /\ Len(files) \in Nat
  BY Numbers DEF TailInv
<1>2. CASE found.ino = 0
  <2>1. found.size = 0
    BY <1>2 DEF TailInv, PassInv
  <2>2. found = [ino |-> 0, size |-> 0]
    BY <2>1, <1>2 DEF TailInv, ShapeInv
  <2> QED BY <2>2 DEF Nothing
<1> QED BY <1>1, <1>2

LEMMA Parity == ASSUME NEW a \in Nat, NEW i \in Nat, a % 2 = 1 PROVE (a + i - 1) % 2 = 0 <=> i % 2 = 0
OBVIOUS

(* The halves of a file that end a line are at its even positions. *)
LEMMA EndsAreEven ==
  ASSUME ShapeInv, FilesInv, NEW f \in 1 .. Len(files), NEW i \in 1 .. Len(files[f])
  PROVE  files[f][i] % 2 = 0 <=> ~Odd(i)
<1>1. files[f][i] = files[f][1] + i - 1 /\ files[f][1] % 2 = 1
  BY DEF FilesInv
<1>2. 1 \in 1 .. Len(files[f]) /\ i \in Nat
  BY FileFits
<1>3. files[f][1] \in Nat /\ i \in Nat
  BY <1>2, FileFits
<1>4. i % 2 \in {0, 1}
  BY <1>3
<1>5. (files[f][1] + i - 1) % 2 = 0 <=> i % 2 = 0
  BY <1>1, <1>3, Parity
<1>6. files[f][i] % 2 = 0 <=> i % 2 = 0
  BY <1>1, <1>5
<1> QED BY <1>4, <1>6 DEF Odd

(* A pass over what was found to be read already. *)
LEMMA AllIsRead ==
  ASSUME TailInv, Caught, inode \in 1 .. Len(files), NEW line \in Nat,
         NEW i \in 1 .. offset, files[inode][i] = 2 * line
  PROVE  \E k \in 1 .. Len(events) : events[k] = line
<1>1. i \in 1 .. Len(files[inode])
  <2>1. offset <= Len(files[inode]) /\ offset \in Nat /\ Len(files[inode]) \in Nat
    BY SMTT(20), Numbers, FileFits DEF Caught, TailInv
  <2> QED BY <2>1
<1>2. ~Odd(i)
  <2>1. (2 * line) % 2 = 0
    OBVIOUS
  <2> QED BY <1>1, <2>1, EndsAreEven DEF TailInv
<1>3. PICK k \in 1 .. Len(events) : 2 * events[k] = files[inode][i]
  BY <1>2 DEF Caught
<1>4. events[k] \in Nat
  BY ReadNumbers DEF TailInv
<1> QED BY <1>3, <1>4

(* A file that nothing of has been seen is read from its start.            *)
LEMMA StartsOver ==
  ASSUME TailInv, ~follow_links, NEW ino \in 1 .. Len(files),
         \A f \in 1 .. Len(files) : f >= ino => Unseen(files[f], events, buffer),
         inode' = ino, offset' = 0, buffer' = <<>>, pc' # "track",
         UNCHANGED <<files, events, written, follow_links, at_path>>
  PROVE  OrderInv'
<1> DEFINE blank == <<>>
<1>1. Len(blank) = 0 /\ Len(files[ino]) \in Nat /\ ino \in Nat
  BY SMTT(20), FileFits, Numbers DEF TailInv
<1>2. \A h : Ahead(h, events, buffer) => Ahead(h, events, blank)
  BY <1>1 DEF Ahead
<1>3. \A f \in 1 .. Len(files) : f >= ino => Unseen(files[f], events, blank)
  BY <1>2 DEF Unseen
<1>4. /\ \A k \in 1 .. Len(events) : 2 * events[k] <= written
      /\ \A i, j \in 1 .. Len(events) : i < j => events[i] < events[j]
  BY DEF TailInv, OrderInv
<1>5. \A k \in 1 .. Len(blank) : FALSE
  BY <1>1
<1>6. Unseen(files[ino], events, blank)
  BY <1>1, <1>3
<1>7. buffer' = blank
  OBVIOUS
<1> HIDE DEF blank
<1>8. \A f \in 1 .. Len(files) : f > ino => Unseen(files[f], events, blank)
  BY <1>1, <1>3
<1>9. \A i \in 1 .. Len(files[ino]) : Ahead(files[ino][i], events, blank)
  BY <1>6 DEF Unseen
<1> QED BY <1>1, <1>4, <1>5, <1>6, <1>7, <1>8, <1>9 DEF OrderInv

LEMMA AdoptOK == TailInv /\ Found /\ found # Nothing /\ found.ino # inode => TailInv'
<1> SUFFICES ASSUME TailInv, Found, found # Nothing, found.ino # inode PROVE TailInv'
  OBVIOUS
<1> USE DEF TailInv
<1>1. /\ pc = "track" /\ inode' = found.ino /\ offset' = 0 /\ buffer' = <<>>
      /\ file_watch' = (IF closed THEN 0 ELSE at_path)
      /\ dir_watch' = (IF closed THEN NoWatch ELSE dir)
      /\ notices' \subseteq notices
      /\ UNCHANGED <<follow_links, files, at_path, dir, dirs, written, truncations, overtaken>>
      /\ UNCHANGED <<closed, found, fh, events, spoilt, due>>
  BY DEF Found, Track, Adopt, WatchNearest, Watches, disk, told, Nothing
<1>2. \/ follow_links /\ found.size = 0 /\ PassEnds(pending)
      \/ pc' = (IF follow_links THEN "open" ELSE "read") /\ pending' = pending
  BY <1>1 DEF Found, Nothing
<1>3. PassEnds(pending) => /\ ~InPass' /\ pc' \in {"idle", "stat", "open"} /\ pending' \in BOOLEAN
                           /\ pc' = "stat" => follow_links
                           /\ ~closed => (pending <=> StartsAgain') /\ (pc' = "idle" => ~pending')
  BY <1>1, PassEnded DEF ShapeInv
<1>4. found.ino \in 1 .. Len(files) /\ found.size \in Nat
  BY <1>1, FoundIs, Numbers, TailAssumption
<1>5. /\ pc' \in {"idle", "stat", "open", "read"} /\ pending' \in BOOLEAN
      /\ pc' = "stat" => follow_links
      /\ pc' = "read" => ~follow_links
      /\ pc' = "idle" /\ ~closed => ~pending'
  BY <1>1, <1>2, <1>3 DEF ShapeInv
<1>6. ShapeInv'
  <2>1. /\ dir_watch' \in NoWatch .. dirs /\ file_watch' \in 0 .. Len(files)
        /\ offset' \in 0 .. MaxHalves /\ buffer' \in Seq(Half) /\ inode' \in 0 .. Len(files)
    BY <1>1, <1>4, Numbers, SMTT(20) DEF ShapeInv, NoWatch
  <2>2. notices' \subseteq {"file", "dir"}
    BY <1>1 DEF ShapeInv
  <2> QED BY <1>1, <1>5, <2>1, <2>2 DEF ShapeInv
<1>7. FilesInv'
  BY <1>1 DEF FilesInv
<1>8. PassInv'
  <2>1. ~follow_links => fh = found.ino
    BY <1>1 DEF PassInv
  <2> QED BY <1>1, <1>4, <1>5, <2>1 DEF PassInv
<1>9. WatchInv'
  <2> SUFFICES ASSUME ~closed, ~overtaken
               PROVE  /\ inode' # 0 => file_watch' = inode'
                      /\ inode' # 0 /\ at_path' = inode' => dir_watch' = dir'
                      /\ pc' = "idle" => ~pending'
                      /\ pc' = "idle" /\ ~Alarm' => 
                           inode' = at_path' /\ (inode' # 0 => offset' = FileSize(inode)') /\ dir_watch' = dir'
                      /\ InPass' => Fresh' /\ (pc' = "read" => fh' = at_path')
    BY <1>1, <1>5 DEF WatchInv
  <2>1. Fresh /\ found.ino = at_path /\ found.size = Len(files[at_path])
    BY <1>1, <1>4 DEF WatchInv, Fresh, FileSize
  <2>2. Fresh'
    BY <2>1, <1>1 DEF Fresh, FileSize
  <2>3. pc' = "idle" => found.size = 0 /\ ~pending'
    BY <1>2, <1>3
  <2>4. pc' = "read" => fh = at_path
    BY <2>1, <1>1, <1>5 DEF PassInv
  <2> QED BY <1>1, <2>1, <2>2, <2>3, <2>4 DEF FileSize
<1>10. OrderInv'
  <2> SUFFICES ASSUME ~follow_links PROVE OrderInv'
    BY <1>1 DEF OrderInv
  <2>1. \A f \in 1 .. Len(files) : f >= found.ino => Unseen(files[f], events, buffer)
    BY <1>1, <1>4 DEF OrderInv
  <2>2. pc' # "track"
    BY <1>5
  <2> QED BY <1>1, <1>4, <2>1, <2>2, StartsOver
<1>11. ReadInv'
  <2> SUFFICES ASSUME truncations = 0 PROVE ReadInv'
    BY <1>1 DEF ReadInv
  <2>1. Len(files[found.ino]) \in Nat
    BY <1>4, FileFits
  <2>2. Caught'
    BY <1>1, <2>1 DEF Caught, Odd
  <2>3. found.size <= Len(files[found.ino])
    BY <1>1, <1>4 DEF ReadInv
  <2> QED BY <1>1, <1>4, <2>2, <2>3 DEF ReadInv
<1>12. DueInv'
  <2> SUFFICES ASSUME truncations = 0, ~closed, at_path # 0, NEW line \in due,
                      NEW i \in 1 .. Len(files[at_path]), files[at_path][i] = 2 * line
               PROVE  (\E k \in 1 .. Len(events) : events[k] = line) \/ pending' \/ StartsAgain' \/ InHand(line)'
    BY <1>1 DEF DueInv
  <2>1. (\E k \in 1 .. Len(events) : events[k] = line) \/ pending \/ InHand(line)
    BY <1>1 DEF DueInv, StartsAgain
  <2>2. CASE pending
    BY <2>2, <1>2, <1>3
  <2>3. CASE InHand(line)
    <3>1. found.size # 0
      BY <2>3 DEF InHand
    <3>2. pc' = (IF follow_links THEN "open" ELSE "read")
      BY <3>1, <1>2
    <3>3. InPass'
      BY <3>2, <1>1 DEF InPass, StartsAgain
    <3> QED BY <2>3, <3>3, <1>1 DEF InHand
  <2> QED BY <2>1, <2>2, <2>3
<1> QED BY <1>6, <1>7, <1>8, <1>9, <1>10, <1>11, <1>12

LEMMA SameFileOK == TailInv /\ Found /\ found # Nothing /\ found.ino = inode => TailInv'
<1> SUFFICES ASSUME TailInv, Found, found # Nothing, found.ino = inode PROVE TailInv'
  OBVIOUS
<1> USE DEF TailInv
<1>1. /\ pc = "track"
      /\ IF found.size < offset THEN offset' = 0 /\ buffer' = <<>> ELSE offset' = offset /\ buffer' = buffer
      /\ UNCHANGED <<follow_links, files, at_path, dir, dirs, written, truncations, overtaken>>
      /\ UNCHANGED <<notices, inode, file_watch, dir_watch, closed, found, fh, events, spoilt, due>>
  BY DEF Found, Track, disk, told, Nothing
<1>2. \/ follow_links /\ found.size = offset' /\ PassEnds(pending)
      \/ pc' = (IF follow_links THEN "open" ELSE "read") /\ pending' = pending
  BY <1>1 DEF Found, Nothing
<1>3. PassEnds(pending) => /\ ~InPass' /\ pc' \in {"idle", "stat", "open"} /\ pending' \in BOOLEAN
                           /\ pc' = "stat" => follow_links
                           /\ ~closed => (pending <=> StartsAgain') /\ (pc' = "idle" => ~pending')
  BY <1>1, PassEnded DEF ShapeInv
<1>4. inode \in 1 .. Len(files) /\ found.size \in Nat /\ offset \in Nat /\ MaxHalves \in Nat
  BY <1>1, FoundIs, Numbers, TailAssumption
<1>5. /\ pc' \in {"idle", "stat", "open", "read"} /\ pending' \in BOOLEAN
      /\ pc' = "stat" => follow_links
      /\ pc' = "read" => ~follow_links
      /\ pc' = "idle" /\ ~closed => ~pending'
  BY <1>1, <1>2, <1>3 DEF ShapeInv
<1>6. ShapeInv'
  <2>1. 0 \in 0 .. MaxHalves /\ offset \in 0 .. MaxHalves /\ buffer \in Seq(Half) /\ <<>> \in Seq(Half)
    BY <1>4 DEF ShapeInv
  <2>2. offset' \in 0 .. MaxHalves /\ buffer' \in Seq(Half)
    BY <1>1, <2>1
  <2> QED BY <1>1, <1>5, <2>2 DEF ShapeInv
<1>7. FilesInv'
  BY <1>1 DEF FilesInv
<1>8. PassInv'
  <2>1. ~follow_links => fh = found.ino
    BY <1>1 DEF PassInv
  <2>2. offset' <= found.size
    BY <1>1, <1>4
  <2> QED BY <1>1, <1>4, <1>5, <2>1, <2>2 DEF PassInv
<1>9. WatchInv'
  <2> SUFFICES ASSUME ~closed, ~overtaken
               PROVE  /\ inode' # 0 => file_watch' = inode'
                      /\ inode' # 0 /\ at_path' = inode' => dir_watch' = dir'
                      /\ pc' = "idle" => ~pending'
                      /\ pc' = "idle" /\ ~Alarm' => 
                           inode' = at_path' /\ (inode' # 0 => offset' = FileSize(inode)') /\ dir_watch' = dir'
                      /\ InPass' /\ ~Alarm' => Fresh' /\ (pc' = "read" => fh' = at_path')
    BY <1>1, <1>5 DEF WatchInv
  <2>1. inode' # 0 => file_watch' = inode'
    BY <1>1 DEF WatchInv
  <2>2. at_path = inode => dir_watch = dir
    BY <1>4 DEF WatchInv
  <2>3. pc' = "idle" => found.size = offset' /\ ~pending' /\ ~pending
    BY <1>2, <1>3 DEF StartsAgain
  <2>4. ~Alarm /\ pc' \in {"idle", "open", "read"} => 
           at_path = inode /\ found.size = Len(files[inode]) /\ Fresh'
    <3>1. ~Alarm => Fresh
      BY <1>1, <1>4 DEF WatchInv
    <3> QED BY <3>1, <1>1, <1>4 DEF Fresh, FileSize
  <2>5. ~pending /\ ~Alarm' => ~Alarm
    BY <1>1 DEF Alarm, StartsAgain
  <2>6. InPass' => pending' = pending
    BY <1>2, <1>3
  <2>7. InPass' /\ ~Alarm' => ~Alarm
    BY <2>5, <2>6 DEF Alarm
  <2>8. pc' = "read" => fh = inode
    BY <1>1, <1>5 DEF PassInv
  <2>9. InPass' => pc' \in {"open", "read"}
    BY DEF InPass
  <2> QED BY <1>1, <2>1, <2>2, <2>3, <2>4, <2>5, <2>7, <2>8, <2>9 DEF FileSize
<1>10. OrderInv'
  <2> SUFFICES ASSUME ~follow_links PROVE OrderInv'
    BY <1>1 DEF OrderInv
  <2>1. CASE found.size < offset
    <3>1. \A f \in 1 .. Len(files) : f >= inode => Unseen(files[f], events, buffer)
      BY <1>1, <1>4, <2>1 DEF OrderInv
    <3>2. pc' # "track"
      BY <1>5
    <3> QED BY <1>1, <1>4, <2>1, <3>1, <3>2, StartsOver
  <2>2. CASE ~(found.size < offset)
    <3>1. offset' = offset /\ buffer' = buffer /\ inode' = inode /\ events' = events /\ pc' # "track" /\ inode # 0
      BY <2>2, <1>1, <1>4, <1>5
    <3>2. /\ \A k \in 1 .. Len(events) : 2 * events[k] <= written
          /\ \A k \in 1 .. Len(buffer) : buffer[k] <= written
          /\ \A i, j \in 1 .. Len(events) : i < j => events[i] < events[j]
          /\ \A i, j \in 1 .. Len(buffer) : i < j => buffer[i] < buffer[j]
          /\ \A i \in 1 .. Len(events) : \A j \in 1 .. Len(buffer) : 2 * events[i] < buffer[j]
      BY DEF OrderInv
    <3>3. /\ \A f \in 1 .. Len(files) : f > inode => Unseen(files[f], events, buffer)
          /\ \A i \in 1 .. Len(files[inode]) : i > offset => Ahead(files[inode][i], events, buffer)
          /\ Len(files[inode]) < offset => Unseen(files[inode], events, buffer)
      BY <3>1 DEF OrderInv
    <3> QED BY <3>1, <3>2, <3>3, <1>1 DEF OrderInv
  <2> QED BY <2>1, <2>2
<1>11. ReadInv'
  <2> SUFFICES ASSUME truncations = 0 PROVE ReadInv'
    BY <1>1 DEF ReadInv
  <2>1. found.size <= Len(files[inode]) /\ (~follow_links \/ at_path = inode => offset <= found.size /\ Caught)
    BY <1>1, <1>4 DEF ReadInv
  <2>2. ~follow_links \/ at_path = inode => Caught' /\ offset' = offset
    BY <2>1, <1>1, <1>4 DEF Caught
  <2> QED BY <1>1, <1>4, <2>1, <2>2 DEF ReadInv
<1>12. DueInv'
  <2> SUFFICES ASSUME truncations = 0, ~closed, at_path # 0, NEW line \in due,
                      NEW i \in 1 .. Len(files[at_path]), files[at_path][i] = 2 * line
               PROVE  (\E k \in 1 .. Len(events) : events[k] = line) \/ pending' \/ StartsAgain' \/ InHand(line)'
    BY <1>1 DEF DueInv
  <2>1. (\E k \in 1 .. Len(events) : events[k] = line) \/ pending \/ InHand(line)
    BY <1>1 DEF DueInv, StartsAgain
  <2>2. CASE pending
    BY <2>2, <1>2, <1>3
  <2>3. CASE InHand(line) /\ InPass'
    BY <2>3, <1>1 DEF InHand
  <2>4. CASE InHand(line) /\ found.size = offset'
    <3>1. at_path = inode
      BY <2>4 DEF InHand
    <3>2. Caught /\ offset <= found.size
      BY <1>1, <1>4, <3>1 DEF ReadInv
    <3>3. offset = found.size
      BY <3>2, <2>4, <1>1, <1>4
    <3>4. line \in Nat
      BY TailAssumption DEF ShapeInv, Half
    <3>5. PICK j \in 1 .. offset : files[inode][j] = 2 * line
      BY <2>4, <3>1, <3>3 DEF InHand
    <3> QED BY <3>2, <3>4, <3>5, <1>4, AllIsRead
  <2>5. InPass' \/ found.size = offset'
    BY <1>1, <1>2 DEF InPass, StartsAgain
  <2> QED BY <2>1, <2>2, <2>3, <2>4, <2>5
<1> QED BY <1>6, <1>7, <1>8, <1>9, <1>10, <1>11, <1>12

LEMMA FoundOK == TailInv /\ Found => TailInv'
BY ForgetOK, AdoptOK, SameFileOK

(* open_followed. *)
LEMMA OpenOK == TailInv /\ Open => TailInv'
<1> SUFFICES ASSUME TailInv, Open PROVE TailInv'
  OBVIOUS
<1> USE DEF TailInv
<1>1. /\ pc = "open" /\ follow_links /\ fh' = at_path
      /\ UNCHANGED <<follow_links, files, at_path, dir, dirs, written, truncations, overtaken, notices>>
      /\ UNCHANGED <<inode, offset, buffer, file_watch, dir_watch, closed, found, events, spoilt, due>>
      /\ IF at_path = 0 THEN PassEnds(pending) ELSE pc' = "read" /\ pending' = pending
  BY DEF Open, disk, state, told
<1>2. PassEnds(pending) => /\ ~InPass' /\ pc' \in {"idle", "stat", "open"} /\ pending' \in BOOLEAN
                           /\ pc' = "stat" => follow_links
                           /\ ~closed => (pending <=> StartsAgain') /\ (pc' = "idle" => ~pending')
  BY <1>1, PassEnded DEF ShapeInv
<1>3. InPass /\ ~StartsAgain
  BY <1>1 DEF InPass, StartsAgain
<1>4. /\ pc' \in {"idle", "stat", "open", "read"} /\ pending' \in BOOLEAN
      /\ pc' = "stat" => follow_links
      /\ pc' = "read" => at_path # 0
      /\ pc' = "idle" /\ ~closed => ~pending'
  BY <1>1, <1>2 DEF ShapeInv
<1>5. ShapeInv'
  BY <1>1, <1>4, Numbers DEF ShapeInv
<1>6. FilesInv'
  BY <1>1 DEF FilesInv
<1>7. PassInv'
  BY <1>1, <1>3, <1>4 DEF PassInv
<1>8. WatchInv'
  <2> SUFFICES ASSUME ~closed, ~overtaken
               PROVE  /\ pc' = "idle" => ~pending' /\ Alarm'
                      /\ InPass' /\ ~Alarm' => Fresh' /\ (pc' = "read" => fh' = at_path')
    BY <1>1, <1>4 DEF WatchInv
  <2>1. Alarm = (notices # {} \/ pending)
    BY <1>3 DEF Alarm
  <2>2. ~Alarm => Fresh /\ found.ino # 0
    BY <1>3 DEF WatchInv, PassInv
  <2>3. at_path = 0 => Alarm
    BY <2>2 DEF Fresh
  <2>4. Alarm => Alarm'
    BY <1>1, <1>2, <2>1 DEF Alarm
  <2>5. pc' = "idle" => ~pending' /\ at_path = 0
    BY <1>1, <1>2
  <2>6. Fresh' = Fresh
    BY <1>1 DEF Fresh, FileSize
  <2> QED BY <1>1, <2>2, <2>3, <2>4, <2>5, <2>6
<1>9. OrderInv'
  BY <1>1 DEF OrderInv
<1>10. ReadInv'
  <2>1. Caught' = Caught
    BY <1>1 DEF Caught
  <2>2. pc' # "track"
    BY <1>4
  <2> QED BY <1>1, <1>3, <2>1, <2>2 DEF ReadInv
<1>11. DueInv'
  <2> SUFFICES ASSUME truncations = 0, ~closed, at_path # 0, NEW line \in due,
                      NEW i \in 1 .. Len(files[at_path]), files[at_path][i] = 2 * line
               PROVE  (\E k \in 1 .. Len(events) : events[k] = line) \/ pending' \/ StartsAgain' \/ InHand(line)'
    BY <1>1 DEF DueInv
  <2>1. (\E k \in 1 .. Len(events) : events[k] = line) \/ pending \/ InHand(line)
    BY <1>3 DEF DueInv
  <2>2. pc' = "read" /\ pending' = pending /\ InPass'
    BY <1>1 DEF InPass, StartsAgain
  <2> QED BY <1>1, <2>1, <2>2 DEF InHand
<1> QED BY <1>5, <1>6, <1>7, <1>8, <1>9, <1>10, <1>11

----------------------------------------------------------------------------
(* What is read. *)

NewLines(text) ==
  LET whole == InOrder({i \in Ends(text) : Whole(text, i)})
  IN [k \in DOMAIN whole |-> text[whole[k]] \div 2]

LEMMA HalfNumbers == MaxHalves \in Nat /\ Half \subseteq Nat /\ \A h \in Half : h >= 1 /\ h <= MaxHalves
BY TailAssumption DEF Half

LEMMA Halved ==
  ASSUME NEW h \in Half, h % 2 = 0
  PROVE  2 * (h \div 2) = h /\ h \div 2 \in Half
<1>1. h \in Nat /\ h >= 1 /\ h <= MaxHalves /\ MaxHalves \in Nat
  BY HalfNumbers
<1>2. 2 * (h \div 2) = h /\ h \div 2 \in Nat
  BY <1>1
<1>3. h \div 2 >= 1 /\ h \div 2 <= MaxHalves
  BY <1>1, <1>2
<1> QED BY <1>2, <1>3 DEF Half

(* The lines of a text are those that were whole in it, in its order. *)
LEMMA LinesOf ==
  ASSUME NEW text \in Seq(Half)
  PROVE  /\ NewLines(text) \in Seq(Half)
         /\ \A k \in 1 .. Len(NewLines(text)) : \E i \in Ends(text) : 2 * NewLines(text)[k] = text[i]
         /\ \A i \in Ends(text) : Whole(text, i) => \E k \in 1 .. Len(NewLines(text)) : 2 * NewLines(text)[k] = text[i]
         /\ (\A i, j \in 1 .. Len(text) : i < j => text[i] < text[j]) =>
              \A k, l \in 1 .. Len(NewLines(text)) : k < l => NewLines(text)[k] < NewLines(text)[l]
<1> DEFINE S == {i \in Ends(text) : Whole(text, i)}
           c == Cardinality(S)
           whole == InOrder(S)
           lines == NewLines(text)
<1>1. Len(text) \in Nat /\ S \in SUBSET (1 .. Len(text)) /\ Ends(text) \subseteq 1 .. Len(text)
  BY DEF Ends
<1>2. /\ c \in Nat /\ whole \in [1 .. c -> S]
      /\ \A i, j \in 1 .. c : i < j => whole[i] < whole[j]
      /\ \A x \in S : \E i \in 1 .. c : whole[i] = x
  BY <1>1, InOrderOf
<1>3. \A i \in Ends(text) : text[i] \in Half /\ text[i] % 2 = 0
  BY <1>1 DEF Ends
<1>4. \A i \in Ends(text) : 2 * (text[i] \div 2) = text[i] /\ text[i] \div 2 \in Half
  BY <1>3, Halved
<1>5. lines = [k \in 1 .. c |-> text[whole[k]] \div 2]
  BY <1>2 DEF NewLines
<1>6. S \subseteq Ends(text) /\ \A i \in Ends(text) : Whole(text, i) => i \in S
  OBVIOUS
<1> HIDE DEF S, whole, c, lines
<1>7. \A k \in 1 .. c : whole[k] \in S /\ whole[k] \in Ends(text)
  BY <1>2, <1>6
<1>8. \A k \in 1 .. c : lines[k] = text[whole[k]] \div 2 /\ lines[k] \in Half /\ 2 * lines[k] = text[whole[k]]
  BY <1>4, <1>5, <1>7
<1>9. lines \in Seq(Half) /\ Len(lines) = c
  BY <1>2, <1>5, <1>8
<1>10. \A k \in 1 .. Len(lines) : \E i \in Ends(text) : 2 * lines[k] = text[i]
  BY <1>7, <1>8, <1>9
<1>11. \A i \in Ends(text) : Whole(text, i) => \E k \in 1 .. Len(lines) : 2 * lines[k] = text[i]
  <2> SUFFICES ASSUME NEW i \in Ends(text), Whole(text, i) PROVE \E k \in 1 .. Len(lines) : 2 * lines[k] = text[i]
    OBVIOUS
  <2>1. PICK k \in 1 .. c : whole[k] = i
    BY <1>2, <1>6
  <2> QED BY <2>1, <1>8, <1>9
<1>12. ASSUME \A i, j \in 1 .. Len(text) : i < j => text[i] < text[j],
              NEW k \in 1 .. c, NEW l \in 1 .. c, k < l
       PROVE  lines[k] < lines[l]
  <2>1. whole[k] \in 1 .. Len(text) /\ whole[l] \in 1 .. Len(text) /\ whole[k] < whole[l]
    BY <1>12, <1>1, <1>2, <1>7
  <2>2. 2 * lines[k] < 2 * lines[l]
    BY <2>1, <1>8, <1>12
  <2>3. lines[k] \in Nat /\ lines[l] \in Nat
    BY <1>8, HalfNumbers
  <2> QED BY <2>2, <2>3
<1> QED BY <1>9, <1>10, <1>11, <1>12 DEF lines

(* What is left of a text is what comes after its last end of a line. *)
LEMMA RestOf ==
  ASSUME NEW text \in Seq(Half)
  PROVE  \E m \in 0 .. Len(text) :
           /\ m # 0 => m \in Ends(text)
           /\ \A i \in Ends(text) : i <= m
           /\ Rest(text) \in Seq(Half) /\ Len(Rest(text)) = Len(text) - m
           /\ \A k \in 1 .. Len(text) - m : Rest(text)[k] = text[m + k]
<1> DEFINE m == IF Ends(text) = {} THEN 0 ELSE Max(Ends(text))
<1>1. Len(text) \in Nat /\ Ends(text) \in SUBSET (1 .. Len(text))
  BY DEF Ends
<1>2. m \in 0 .. Len(text) /\ (m # 0 => m \in Ends(text)) /\ \A i \in Ends(text) : i <= m
  <2>1. CASE Ends(text) = {}
    BY <1>1, <2>1
  <2>2. CASE Ends(text) # {}
    <3>1. m \in Ends(text) /\ \A i \in Ends(text) : i <= m
      BY <1>1, <2>2, LastOf
    <3> QED BY <3>1, <1>1
  <2> QED BY <2>1, <2>2
<1>3. Rest(text) = SubSeq(text, 1 + m, Len(text))
  BY DEF Rest
<1> HIDE DEF m
<1>4. /\ SubSeq(text, 1 + m, Len(text)) \in Seq(Half)
      /\ Len(SubSeq(text, 1 + m, Len(text))) = Len(text) - m
      /\ \A k \in 1 .. Len(text) - m : SubSeq(text, 1 + m, Len(text))[k] = text[m + k]
  BY <1>1, <1>2, SubSeqProperties
<1> QED BY <1>2, <1>3, <1>4

(* What can be told to have been read from a file. *)
LEMMA TextIs ==
  ASSUME NEW file \in Seq(Half), NEW kept \in Seq(Half), NEW from \in Nat, NEW to \in Nat, to <= Len(file),
         NEW n \in Nat, n = IF to > from THEN to - from ELSE 0,
         NEW text, text = kept \o SubSeq(file, from + 1, to)
  PROVE  /\ text \in Seq(Half) /\ Len(text) = Len(kept) + n
         /\ \A k \in 1 .. Len(kept) : text[k] = kept[k]
         /\ \A k \in 1 .. n : text[Len(kept) + k] = file[from + k]
         /\ from + n <= Len(file) \/ n = 0
<1> DEFINE part == SubSeq(file, from + 1, to)
<1>1. part \in Seq(Half) /\ Len(part) = n /\ \A k \in 1 .. n : part[k] = file[from + k]
  BY SubSeqProperties
<1>2. from + n <= Len(file) \/ n = 0
  OBVIOUS
<1> HIDE DEF part
<1>3. /\ kept \o part \in Seq(Half) /\ Len(kept \o part) = Len(kept) + Len(part)
      /\ \A i \in 1 .. Len(kept) + Len(part) :
           (kept \o part)[i] = IF i <= Len(kept) THEN kept[i] ELSE part[i - Len(kept)]
  <2>1. kept \in Seq(Half) /\ part \in Seq(Half)
    BY <1>1
  <2> QED BY <2>1, ConcatProperties
<1>4. Len(kept) \in Nat
  OBVIOUS
<1>5. \A k \in 1 .. Len(kept) : (kept \o part)[k] = kept[k]
  BY <1>1, <1>3, <1>4
<1>6. ASSUME NEW k \in 1 .. n PROVE (kept \o part)[Len(kept) + k] = part[k]
  <2>1. Len(kept) + k \in 1 .. Len(kept) + Len(part) /\ ~(Len(kept) + k <= Len(kept)) /\ (Len(kept) + k) - Len(kept) = k
    BY <1>1, <1>4
  <2> QED BY <2>1, <1>3
<1> QED BY <1>1, <1>2, <1>3, <1>5, <1>6 DEF part

(* What a read takes: up to the size that was found, if the file has it.   *)
ReadTo == IF FileSize(fh) < found.size THEN FileSize(fh) ELSE found.size
Text == buffer \o SubSeq(files[fh], offset + 1, ReadTo)
New == IF ReadTo > offset THEN ReadTo - offset ELSE 0

LEMMA ReadIs ==
  ASSUME TailInv, Read
  PROVE  /\ pc = "read" /\ InPass /\ ~StartsAgain /\ fh \in 1 .. Len(files) /\ inode \in 1 .. Len(files)
         /\ found.ino = inode /\ found.size \in Nat /\ offset <= found.size
         /\ offset' = offset + New /\ buffer' = Rest(Text) /\ events' = events \o NewLines(Text)
         /\ spoilt' = ( \/ spoilt
                        \/ \E i \in Ends(Text) : ~Whole(Text, i)
                        \/ SplitChars /\ buffer # <<>> /\ Len(Text) > Len(buffer) )
         /\ PassEnds(pending)
         /\ UNCHANGED <<follow_links, files, at_path, dir, dirs, written, truncations, overtaken>>
         /\ UNCHANGED <<notices, inode, file_watch, dir_watch, closed, found, fh, due>>
<1> USE DEF TailInv
<1>1. /\ pc = "read" /\ PassEnds(pending)
      /\ offset' = (IF ReadTo > offset THEN ReadTo ELSE offset)
      /\ buffer' = Rest(Text)
      /\ events' = events \o NewLines(Text)
      /\ spoilt' = ( \/ spoilt
                     \/ \E i \in Ends(Text) : ~Whole(Text, i)
                     \/ SplitChars /\ buffer # <<>> /\ Len(Text) > Len(buffer) )
      /\ UNCHANGED <<follow_links, files, at_path, dir, dirs, written, truncations, overtaken>>
      /\ UNCHANGED <<notices, inode, file_watch, dir_watch, closed, found, fh, due>>
  BY DEF Read, ReadTo, Text, NewLines, disk
<1>2. InPass /\ ~StartsAgain
  BY <1>1 DEF InPass, StartsAgain
<1>3. fh \in 1 .. Len(files) /\ inode \in 1 .. Len(files) /\ found.ino = inode /\ offset <= found.size
  BY <1>1, <1>2, Numbers DEF PassInv, ShapeInv
<1>4. found.size \in Nat /\ offset \in Nat
  BY Numbers
<1>5. ReadTo \in Nat
  BY <1>3, <1>4, FileFits DEF ReadTo, FileSize
<1>6. offset' = offset + New
  BY <1>1, <1>4, <1>5 DEF New
<1> QED BY SMTT(20), <1>1, <1>2, <1>3, <1>4, <1>6

LEMMA TextFacts ==
  ASSUME TailInv, Read
  PROVE  /\ Text \in Seq(Half) /\ Len(Text) = Len(buffer) + New /\ New \in Nat /\ Len(buffer) \in Nat /\ Len(Text) \in Nat
         /\ \A k \in 1 .. Len(buffer) : Text[k] = buffer[k]
         /\ \A k \in 1 .. New : Text[Len(buffer) + k] = files[fh][offset + k]
         /\ (offset + New <= Len(files[fh])) \/ New = 0
         /\ \A k \in 1 .. Len(Text) : Text[k] \in Nat
         /\ ReadTo \in Nat /\ ReadTo <= Len(files[fh])
<1>1. /\ files[fh] \in Seq(Half) /\ buffer \in Seq(Half) /\ offset \in Nat /\ found.size \in Nat
      /\ Len(files[fh]) \in Nat
  BY SMTT(20), ReadIs, ReadNumbers, Numbers, FileFits DEF TailInv
<1>2. ReadTo \in Nat /\ ReadTo <= Len(files[fh])
  BY <1>1 DEF ReadTo, FileSize
<1>3. New \in Nat /\ New = IF ReadTo > offset THEN ReadTo - offset ELSE 0
  BY <1>1, <1>2 DEF New
<1>6. Text = buffer \o SubSeq(files[fh], offset + 1, ReadTo)
  BY DEF Text
<1>4. /\ Text \in Seq(Half) /\ Len(Text) = Len(buffer) + New
      /\ \A k \in 1 .. Len(buffer) : Text[k] = buffer[k]
      /\ \A k \in 1 .. New : Text[Len(buffer) + k] = files[fh][offset + k]
      /\ (offset + New <= Len(files[fh])) \/ New = 0
  BY SMTT(20), <1>1, <1>2, <1>3, <1>6, TextIs
<1>5. \A k \in 1 .. Len(Text) : Text[k] \in Nat
  <2>1. \A k \in 1 .. Len(Text) : Text[k] \in Half
    BY <1>4
  <2> QED BY <2>1, HalfNumbers
<1> QED BY <1>1, <1>2, <1>3, <1>4, <1>5

LEMMA ReadShape == TailInv /\ Read => ShapeInv'
<1> SUFFICES ASSUME TailInv, Read PROVE ShapeInv'
  OBVIOUS
<1>1. PassEnds(pending) => pc' \in {"idle", "stat", "open"} /\ pending' \in BOOLEAN
  BY ReadIs, PassEnded DEF TailInv, ShapeInv
<1>2. buffer' \in Seq(Half)
  BY TextFacts, RestOf, ReadIs
<1>3. events' \in Seq(Half)
  <2>1. NewLines(Text) \in Seq(Half) /\ events \in Seq(Half)
    BY TextFacts, LinesOf, ReadNumbers DEF TailInv
  <2> QED BY <2>1, ReadIs, ConcatProperties
<1>4. offset' \in 0 .. MaxHalves
  <2>1. Len(files[fh]) \in 0 .. MaxHalves /\ offset \in 0 .. MaxHalves /\ MaxHalves \in Nat
    BY ReadIs, FileFits, Numbers DEF TailInv, ShapeInv
  <2> QED BY SMTT(20), <2>1, ReadIs, TextFacts
<1>5. spoilt' \in BOOLEAN
  BY ReadIs
<1> QED BY <1>1, <1>2, <1>3, <1>4, <1>5, ReadIs DEF TailInv, ShapeInv

(* A tail that does not follow links reads on where it was: all of the     *)
(* text comes after what was handed on, and before what is still to come.  *)
LEMMA TextInOrder ==
  ASSUME TailInv, Read, ~follow_links
  PROVE  /\ \A i, j \in 1 .. Len(Text) : i < j => Text[i] < Text[j]
         /\ \A e \in 1 .. Len(events) : \A i \in 1 .. Len(Text) : 2 * events[e] < Text[i]
         /\ \A i \in 1 .. Len(Text) : Text[i] <= written
<1> USE DEF TailInv
<1>1. /\ fh = inode /\ inode \in 1 .. Len(files) /\ inode # 0 /\ offset \in Nat
      /\ Len(buffer) \in Nat /\ New \in Nat /\ Len(Text) = Len(buffer) + New
  BY ReadIs, TextFacts, Numbers DEF PassInv
<1>2. \A k \in 1 .. New : /\ offset + k \in 1 .. Len(files[inode]) /\ offset + k > offset
                          /\ Text[Len(buffer) + k] = files[inode][offset + k]
  <2>1. Len(files[inode]) \in Nat
    BY <1>1, FileFits
  <2> QED BY SMTT(20), <2>1, <1>1, TextFacts
<1>3. ASSUME NEW i \in 1 .. Len(Text)
      PROVE  \/ i \in 1 .. Len(buffer) /\ Text[i] = buffer[i]
             \/ /\ i - Len(buffer) \in 1 .. New
                /\ offset + (i - Len(buffer)) \in 1 .. Len(files[inode]) /\ offset + (i - Len(buffer)) > offset
                /\ Text[i] = files[inode][offset + (i - Len(buffer))]
  <2>1. CASE i <= Len(buffer)
    BY SMTT(20), <2>1, <1>1, TextFacts
  <2>2. CASE i > Len(buffer)
    <3>1. i - Len(buffer) \in 1 .. New /\ Len(buffer) + (i - Len(buffer)) = i
      BY <2>2, <1>1
    <3> QED BY <3>1, <1>2
  <2> QED BY <2>1, <2>2, <1>1
<1>4. \A j \in 1 .. Len(files[inode]) : j > offset => Ahead(files[inode][j], events, buffer)
  BY <1>1 DEF OrderInv
<1>5. ASSUME NEW i \in 1 .. Len(Text), NEW j \in 1 .. Len(Text), i < j PROVE Text[i] < Text[j]
  <2>1. CASE i \in 1 .. Len(buffer) /\ j \in 1 .. Len(buffer)
    <3>1. Text[i] = buffer[i] /\ Text[j] = buffer[j]
      BY <2>1, TextFacts
    <3> QED BY <2>1, <3>1, <1>5 DEF OrderInv
  <2>2. CASE i \in 1 .. Len(buffer) /\ j \notin 1 .. Len(buffer)
    <3>1. Text[i] = buffer[i] /\ Ahead(Text[j], events, buffer)
      BY <2>2, <1>3, <1>4, TextFacts
    <3> QED BY <3>1, <2>2 DEF Ahead
  <2>3. CASE i \notin 1 .. Len(buffer)
    <3>1. j \notin 1 .. Len(buffer)
      BY <2>3, <1>1, <1>5
    <3>2. /\ i - Len(buffer) \in 1 .. New /\ offset + (i - Len(buffer)) \in 1 .. Len(files[inode])
          /\ Text[i] = files[inode][offset + (i - Len(buffer))]
          /\ j - Len(buffer) \in 1 .. New /\ offset + (j - Len(buffer)) \in 1 .. Len(files[inode])
          /\ Text[j] = files[inode][offset + (j - Len(buffer))]
      BY <2>3, <3>1, <1>3
    <3>3. /\ Text[i] = files[inode][1] + (offset + (i - Len(buffer))) - 1
          /\ Text[j] = files[inode][1] + (offset + (j - Len(buffer))) - 1
      BY <3>2, <1>1 DEF FilesInv
    <3>4. files[inode][1] \in Int
      <4>1. 1 \in 1 .. Len(files[inode])
        BY <3>2
      <4> QED BY <4>1, <1>1, FileFits
    <3> QED BY <3>3, <3>4, <1>1, <1>5
  <2> QED BY <2>1, <2>2, <2>3
<1>6. ASSUME NEW e \in 1 .. Len(events), NEW i \in 1 .. Len(Text) PROVE 2 * events[e] < Text[i]
  <2>1. CASE i \in 1 .. Len(buffer) /\ Text[i] = buffer[i]
    BY <2>1 DEF OrderInv
  <2>2. CASE Ahead(Text[i], events, buffer)
    BY <2>2 DEF Ahead
  <2> QED BY <2>1, <2>2, <1>3, <1>4
<1>7. ASSUME NEW i \in 1 .. Len(Text) PROVE Text[i] <= written
  <2>1. CASE i \in 1 .. Len(buffer) /\ Text[i] = buffer[i]
    BY <2>1 DEF OrderInv
  <2>2. CASE offset + (i - Len(buffer)) \in 1 .. Len(files[inode]) /\ Text[i] = files[inode][offset + (i - Len(buffer))]
    BY <2>2, <1>1 DEF FilesInv
  <2> QED BY <2>1, <2>2, <1>3
<1> QED BY <1>5, <1>6, <1>7

(* What is ahead of the text is ahead of all that a read makes of it.      *)
LEMMA AheadOfText ==
  ASSUME TailInv, Read, NEW h \in Nat, Ahead(h, events, buffer), \A i \in 1 .. Len(Text) : Text[i] < h
  PROVE  Ahead(h, events', buffer')
<1>1. /\ NewLines(Text) \in Seq(Half) /\ events \in Seq(Half)
      /\ \A k \in 1 .. Len(NewLines(Text)) : \E i \in Ends(Text) : 2 * NewLines(Text)[k] = Text[i]
  BY TextFacts, LinesOf, ReadNumbers DEF TailInv
<1>2. \A i \in Ends(Text) : i \in 1 .. Len(Text)
  BY TextFacts DEF Ends
<1>3. ASSUME NEW k \in 1 .. Len(events') PROVE 2 * events'[k] < h
  <2>1. /\ k \in 1 .. Len(events) + Len(NewLines(Text))
        /\ events'[k] = IF k <= Len(events) THEN events[k] ELSE NewLines(Text)[k - Len(events)]
    BY <1>1, ReadIs, ConcatProperties
  <2>2. Len(events) \in Nat /\ Len(NewLines(Text)) \in Nat
    BY <1>1
  <2>3. CASE k <= Len(events)
    BY <2>1, <2>2, <2>3 DEF Ahead
  <2>4. CASE k > Len(events)
    <3>1. k - Len(events) \in 1 .. Len(NewLines(Text)) /\ events'[k] = NewLines(Text)[k - Len(events)]
      BY <2>1, <2>2, <2>4
    <3> QED BY <3>1, <1>1, <1>2
  <2> QED BY <2>1, <2>2, <2>3, <2>4
<1>4. ASSUME NEW k \in 1 .. Len(buffer') PROVE buffer'[k] < h
  <2>1. PICK m \in 0 .. Len(Text) : /\ Len(Rest(Text)) = Len(Text) - m
                                    /\ \A j \in 1 .. Len(Text) - m : Rest(Text)[j] = Text[m + j]
    BY TextFacts, RestOf
  <2>2. m + k \in 1 .. Len(Text) /\ buffer'[k] = Text[m + k]
    BY SMTT(20), <2>1, TextFacts, ReadIs
  <2> QED BY <2>2
<1> QED BY <1>3, <1>4 DEF Ahead

LEMMA ReadOrder == TailInv /\ Read => OrderInv'
<1> SUFFICES ASSUME TailInv, Read, ~follow_links PROVE OrderInv'
  BY ReadIs DEF OrderInv
<1> USE DEF TailInv
<1>1. /\ fh = inode /\ inode \in 1 .. Len(files) /\ inode # 0 /\ offset \in Nat
      /\ written \in Nat /\ written + 1 \in Nat /\ Len(files) \in Nat
  <2>1. fh = inode /\ inode \in 1 .. Len(files)
    BY ReadIs DEF PassInv
  <2>2. offset \in Nat /\ written \in Nat /\ Len(files) \in Nat
    BY Numbers
  <2> QED BY <2>1, <2>2
<1>2. /\ \A i, j \in 1 .. Len(Text) : i < j => Text[i] < Text[j]
      /\ \A e \in 1 .. Len(events) : \A i \in 1 .. Len(Text) : 2 * events[e] < Text[i]
      /\ \A i \in 1 .. Len(Text) : Text[i] <= written /\ Text[i] \in Nat
  BY TextInOrder, TextFacts
<1>3. /\ New \in Nat /\ Len(Text) \in Nat /\ Ends(Text) \subseteq 1 .. Len(Text)
      /\ events' = events \o NewLines(Text) /\ buffer' = Rest(Text) /\ offset' = offset + New /\ inode' = inode
      /\ UNCHANGED <<follow_links, files, at_path, written>>
  BY ReadIs, TextFacts DEF Ends
<1>4. /\ NewLines(Text) \in Seq(Half) /\ events \in Seq(Half)
      /\ \A k \in 1 .. Len(NewLines(Text)) : \E i \in Ends(Text) : 2 * NewLines(Text)[k] = Text[i]
      /\ \A k, l \in 1 .. Len(NewLines(Text)) : k < l => NewLines(Text)[k] < NewLines(Text)[l]
  BY TextFacts, LinesOf, ReadNumbers, <1>2
<1>5. /\ Len(events') = Len(events) + Len(NewLines(Text)) /\ Len(events) \in Nat /\ Len(NewLines(Text)) \in Nat
      /\ \A k \in 1 .. Len(events) + Len(NewLines(Text)) :
           events'[k] = IF k <= Len(events) THEN events[k] ELSE NewLines(Text)[k - Len(events)]
  BY <1>3, <1>4, ConcatProperties
<1>6. PICK m \in 0 .. Len(Text) :
           /\ \A i \in Ends(Text) : i <= m
           /\ Len(buffer') = Len(Text) - m
           /\ \A k \in 1 .. Len(Text) - m : buffer'[k] = Text[m + k]
  BY <1>3, TextFacts, RestOf
<1>7. ASSUME NEW k \in 1 .. Len(events')
      PROVE  \/ k \in 1 .. Len(events) /\ events'[k] = events[k]
             \/ /\ k > Len(events) /\ k - Len(events) \in 1 .. Len(NewLines(Text))
                /\ events'[k] = NewLines(Text)[k - Len(events)]
                /\ \E i \in 1 .. Len(Text) : i \in Ends(Text) /\ 2 * events'[k] = Text[i]
  <2>1. CASE k <= Len(events)
    BY <2>1, <1>5
  <2>2. CASE k > Len(events)
    <3>1. k - Len(events) \in 1 .. Len(NewLines(Text)) /\ events'[k] = NewLines(Text)[k - Len(events)]
      BY <2>2, <1>5
    <3> QED BY <3>1, <2>2, <1>3, <1>4
  <2> QED BY <2>1, <2>2, <1>5
<1>8. ASSUME NEW k \in 1 .. Len(buffer')
      PROVE  m + k \in 1 .. Len(Text) /\ m + k > m /\ buffer'[k] = Text[m + k]
  BY <1>3, <1>6
<1>9. \A k \in 1 .. Len(events) : events[k] \in Nat
  BY ReadNumbers
<1>10. \A k \in 1 .. Len(NewLines(Text)) : NewLines(Text)[k] \in Nat
  <2>1. \A k \in 1 .. Len(NewLines(Text)) : NewLines(Text)[k] \in Half
    BY <1>4
  <2> QED BY <2>1, HalfNumbers
<1>11. \A k \in 1 .. Len(events') : 2 * events'[k] <= written
  <2>1. \A k \in 1 .. Len(events) : 2 * events[k] <= written
    BY DEF OrderInv
  <2> QED BY <2>1, <1>2, <1>7
<1>12. \A k \in 1 .. Len(buffer') : buffer'[k] <= written
  BY <1>2, <1>8
<1>13. ASSUME NEW i \in 1 .. Len(events'), NEW j \in 1 .. Len(events'), i < j
       PROVE  events'[i] < events'[j]
  <2>1. CASE j \in 1 .. Len(events)
    <3>1. i \in 1 .. Len(events) /\ events'[i] = events[i] /\ events'[j] = events[j]
      BY <2>1, <1>5, <1>7, <1>13
    <3> QED BY <3>1, <2>1, <1>13 DEF OrderInv
  <2>2. CASE i \in 1 .. Len(events) /\ j \notin 1 .. Len(events)
    <3>1. PICK l \in 1 .. Len(Text) : 2 * events'[j] = Text[l]
      BY <2>2, <1>7
    <3>2. events'[i] = events[i] /\ 2 * events[i] < 2 * events'[j]
      BY <3>1, <2>2, <1>2, <1>5, <1>7
    <3>3. events[i] \in Nat /\ events'[j] \in Nat
      BY <2>2, <1>7, <1>9, <1>10
    <3> QED BY <3>2, <3>3
  <2>3. CASE i \notin 1 .. Len(events) /\ j \notin 1 .. Len(events)
    <3>1. /\ i - Len(events) \in 1 .. Len(NewLines(Text)) /\ events'[i] = NewLines(Text)[i - Len(events)]
          /\ j - Len(events) \in 1 .. Len(NewLines(Text)) /\ events'[j] = NewLines(Text)[j - Len(events)]
      BY <2>3, <1>7
    <3>2. i - Len(events) < j - Len(events)
      BY <1>5, <1>13
    <3> QED BY <3>1, <3>2, <1>4
  <2> QED BY <2>1, <2>2, <2>3
<1>14. ASSUME NEW i \in 1 .. Len(buffer'), NEW j \in 1 .. Len(buffer'), i < j
       PROVE  buffer'[i] < buffer'[j]
  <2>1. m + i < m + j
    BY <1>6, <1>14
  <2> QED BY <2>1, <1>2, <1>8
<1>15. ASSUME NEW i \in 1 .. Len(events'), NEW j \in 1 .. Len(buffer')
       PROVE  2 * events'[i] < buffer'[j]
  <2>1. m + j \in 1 .. Len(Text) /\ m + j > m /\ buffer'[j] = Text[m + j]
    BY <1>8
  <2>2. CASE i \in 1 .. Len(events) /\ events'[i] = events[i]
    BY <2>1, <2>2, <1>2
  <2>3. CASE \E l \in 1 .. Len(Text) : l \in Ends(Text) /\ 2 * events'[i] = Text[l]
    <3>1. PICK l \in 1 .. Len(Text) : l \in Ends(Text) /\ 2 * events'[i] = Text[l]
      BY <2>3
    <3>2. l < m + j
      BY <3>1, <2>1, <1>6
    <3> QED BY <3>1, <3>2, <2>1, <1>2
  <2> QED BY <2>2, <2>3, <1>7
<1>16. ASSUME NEW k \in 1 .. Len(Text)
       PROVE  \/ k \in 1 .. Len(buffer) /\ Text[k] = buffer[k]
              \/ \E j \in 1 .. Len(files[inode]) : j > offset /\ j <= offset + New /\ Text[k] = files[inode][j]
  <2>1. Len(buffer) \in Nat /\ Len(Text) = Len(buffer) + New /\ Len(files[inode]) \in Nat
    BY TextFacts, <1>1, FileFits
  <2>2. CASE k <= Len(buffer)
    BY <2>1, <2>2, TextFacts
  <2>3. CASE k > Len(buffer)
    <3>1. k - Len(buffer) \in 1 .. New /\ Len(buffer) + (k - Len(buffer)) = k /\ New # 0
      BY <2>1, <2>3, <1>3
    <3>2. Text[k] = files[inode][offset + (k - Len(buffer))] /\ offset + New <= Len(files[inode])
      BY <3>1, <1>1, TextFacts
    <3>3. offset + (k - Len(buffer)) \in 1 .. Len(files[inode])
      BY <3>1, <3>2, <2>1, <1>1, <1>3, SMTT(20)
    <3> QED BY <3>1, <3>2, <3>3, <1>1, <1>3
  <2> QED BY <2>1, <2>2, <2>3
<1>17. ASSUME NEW f \in 1 .. Len(files), f > inode
       PROVE  Unseen(files[f], events', buffer')
  <2> SUFFICES ASSUME NEW i \in 1 .. Len(files[f]) PROVE Ahead(files[f][i], events', buffer')
    BY DEF Unseen
  <2>1. Ahead(files[f][i], events, buffer)
    BY <1>1, <1>17 DEF OrderInv, Unseen
  <2>2. \A k \in 1 .. Len(Text) : Text[k] < files[f][i]
    <3>1. \A k \in 1 .. Len(buffer) : buffer[k] < files[f][i]
      BY <2>1 DEF Ahead
    <3>2. \A j \in 1 .. Len(files[inode]) : files[inode][j] < files[f][i]
      BY <1>1, <1>17 DEF FilesInv
    <3> QED BY <3>1, <3>2, <1>16
  <2>3. files[f][i] \in Nat
    BY FileFits
  <2> QED BY <2>1, <2>2, <2>3, AheadOfText
<1>18. ASSUME NEW i \in 1 .. Len(files[inode]), i > offset'
       PROVE  Ahead(files[inode][i], events', buffer')
  <2>1. i > offset /\ i > offset + New
    BY <1>1, <1>3, <1>18
  <2>2. Ahead(files[inode][i], events, buffer)
    BY <2>1, <1>1 DEF OrderInv
  <2>3. ASSUME NEW j \in 1 .. Len(files[inode]), j <= offset + New PROVE files[inode][j] < files[inode][i]
    <3>1. files[inode][j] = files[inode][1] + j - 1 /\ files[inode][i] = files[inode][1] + i - 1
      BY <1>1 DEF FilesInv
    <3>2. 1 \in 1 .. Len(files[inode]) /\ Len(files[inode]) \in Nat
      BY <1>1, FileFits
    <3>3. files[inode][1] \in Nat
      BY <3>2, <1>1, FileFits
    <3>4. j < i
      BY <2>1, <2>3, <1>1, <1>3
    <3> QED BY <3>1, <3>2, <3>3, <3>4
  <2>4. \A k \in 1 .. Len(Text) : Text[k] < files[inode][i]
    <3>1. \A k \in 1 .. Len(buffer) : buffer[k] < files[inode][i]
      BY <2>2 DEF Ahead
    <3> QED BY <3>1, <2>3, <1>16
  <2>5. files[inode][i] \in Nat
    BY <1>1, FileFits
  <2> QED BY <2>2, <2>4, <2>5, AheadOfText
<1>19. ASSUME Len(files[inode]) < offset'
       PROVE  Unseen(files[inode], events', buffer')
  <2> SUFFICES ASSUME NEW i \in 1 .. Len(files[inode]) PROVE Ahead(files[inode][i], events', buffer')
    BY DEF Unseen
  <2>1. Len(files[inode]) \in Nat
    BY <1>1, FileFits
  <2>2. New = 0 /\ Len(files[inode]) < offset
    BY <2>1, <1>1, <1>3, <1>19, TextFacts
  <2>3. Ahead(files[inode][i], events, buffer)
    BY <2>2, <1>1 DEF OrderInv, Unseen
  <2>4. \A k \in 1 .. Len(Text) : Text[k] < files[inode][i]
    <3>1. \A k \in 1 .. Len(buffer) : buffer[k] < files[inode][i]
      BY <2>3 DEF Ahead
    <3>2. \A k \in 1 .. Len(Text) : k \in 1 .. Len(buffer) /\ Text[k] = buffer[k]
      BY <2>2, <1>16, <1>1
    <3> QED BY <3>1, <3>2
  <2>5. files[inode][i] \in Nat
    BY <1>1, FileFits
  <2> QED BY <2>3, <2>4, <2>5, AheadOfText
<1>20. pc' # "track"
  BY ReadIs, PassEnded DEF ShapeInv
<1> QED BY <1>1, <1>3, <1>11, <1>12, <1>13, <1>14, <1>15, <1>17, <1>18, <1>19, <1>20 DEF OrderInv

(* A read of the file at the path, when none was truncated: what was kept  *)
(* is at most the half before the offset, so that the text starts at the   *)
(* start of a line, and all that ends in it is whole.                      *)
LEMMA TextIsAligned ==
  ASSUME TailInv, Read, truncations = 0, ~follow_links \/ at_path = inode
  PROVE  /\ Caught /\ fh = inode /\ offset + New = found.size /\ found.size <= Len(files[inode])
         /\ \E e \in 0 .. offset :
              /\ ~Odd(e) /\ e + Len(Text) = found.size
              /\ \A k \in 1 .. Len(Text) : Text[k] = files[inode][e + k]
              /\ offset <= e + 1
<1> USE DEF TailInv
<1>1. fh = inode /\ inode \in 1 .. Len(files) /\ Caught /\ found.size <= Len(files[inode]) /\ found.size \in Nat
      /\ offset <= found.size /\ found.ino = inode
  BY ReadIs DEF PassInv, ReadInv
<1>2. offset \in Nat /\ Len(files[inode]) \in Nat
  BY <1>1, Numbers, FileFits
<1>3. ReadTo = found.size
  BY <1>1, <1>2 DEF ReadTo, FileSize
<1>4. offset + New = found.size
  BY <1>1, <1>2, <1>3 DEF New
<1>5. /\ New \in Nat /\ Len(Text) = Len(buffer) + New /\ Len(buffer) \in Nat
      /\ \A k \in 1 .. Len(buffer) : Text[k] = buffer[k]
      /\ \A k \in 1 .. New : Text[Len(buffer) + k] = files[inode][offset + k]
  BY <1>1, TextFacts
<1>6. CASE Odd(offset)
  <2>1. buffer = <<files[inode][offset]>>
    BY <1>1, <1>6 DEF Caught
  <2>2. Len(buffer) = 1 /\ buffer[1] = files[inode][offset]
    BY <2>1
  <2>3. offset # 0 /\ ~Odd(offset - 1) /\ offset - 1 \in 0 .. offset
    BY <1>2, <1>6 DEF Odd
  <2>4. ASSUME NEW k \in 1 .. Len(Text) PROVE Text[k] = files[inode][(offset - 1) + k]
    <3>1. CASE k = 1
      <4>1. (offset - 1) + k = offset
        BY <3>1, <1>2
      <4> QED BY <4>1, <3>1, <2>2, <1>5
    <3>2. CASE k # 1
      <4>1. k - 1 \in 1 .. New /\ Len(buffer) + (k - 1) = k /\ offset + (k - 1) = (offset - 1) + k
        BY <3>2, <2>2, <1>2, <1>5
      <4> QED BY <4>1, <1>5
    <3> QED BY <3>1, <3>2
  <2>5. (offset - 1) + Len(Text) = found.size /\ offset <= (offset - 1) + 1
    BY <2>2, <1>2, <1>4, <1>5
  <2> QED BY <2>3, <2>4, <2>5, <1>1, <1>4
<1>7. CASE ~Odd(offset)
  <2>1. Len(buffer) = 0
    BY <1>1, <1>7 DEF Caught
  <2>2. \A k \in 1 .. Len(Text) : Text[k] = files[inode][offset + k]
    <3>1. \A k \in 1 .. Len(Text) : k \in 1 .. New /\ Len(buffer) + k = k
      BY <2>1, <1>5
    <3> QED BY <3>1, <1>5
  <2>3. offset + Len(Text) = found.size /\ offset <= offset + 1 /\ offset \in 0 .. offset
    BY <2>1, <1>2, <1>4, <1>5
  <2> QED BY <2>2, <2>3, <1>1, <1>4, <1>7
<1> QED BY <1>6, <1>7

LEMMA Odds ==
  /\ \A n \in Nat : Odd(n) => n # 0 /\ ~Odd(n - 1)
  /\ \A n \in Nat : n # 0 /\ ~Odd(n) => Odd(n - 1)
  /\ \A m, n \in Nat : ~Odd(m) => (Odd(m + n) <=> Odd(n))
  /\ \A m, n \in Nat : ~Odd(m) /\ n >= m => (Odd(n - m) <=> Odd(n))
BY DEF Odd

LEMMA ReadCaught ==
  ASSUME TailInv, Read, truncations = 0, ~follow_links \/ at_path = inode
  PROVE  Caught' /\ offset' = found.size /\ \A i \in Ends(Text) : Whole(Text, i)
<1> USE DEF TailInv
<1>1. /\ inode \in 1 .. Len(files) /\ inode' = inode /\ files' = files /\ offset \in Nat
      /\ offset' = found.size /\ found.size \in Nat /\ found.size <= Len(files[inode]) /\ Len(files[inode]) \in Nat
      /\ Caught
  BY SMTT(20), ReadIs, TextIsAligned, Numbers, FileFits
<1>2. PICK e \in 0 .. offset :
              /\ ~Odd(e) /\ e + Len(Text) = found.size
              /\ \A k \in 1 .. Len(Text) : Text[k] = files[inode][e + k]
              /\ offset <= e + 1
  BY TextIsAligned
<1>3. e \in Nat /\ Len(Text) \in Nat /\ Text \in Seq(Half)
  BY <1>1, <1>2, TextFacts
<1>4. ASSUME NEW k \in 1 .. Len(Text)
      PROVE  /\ e + k \in 1 .. Len(files[inode]) /\ Text[k] = files[inode][e + k] /\ Text[k] \in Nat
             /\ Text[k] % 2 = 0 <=> ~Odd(k)
             /\ Text[k] = files[inode][1] + (e + k) - 1 /\ files[inode][1] \in Nat
  <2>1. e + k \in 1 .. Len(files[inode]) /\ Text[k] = files[inode][e + k] /\ 1 \in 1 .. Len(files[inode])
    BY <1>1, <1>2, <1>3, SMTT(20)
  <2>2. Text[k] % 2 = 0 <=> ~Odd(e + k)
    BY <2>1, <1>1, EndsAreEven
  <2>3. Odd(e + k) <=> Odd(k)
    BY <1>2, <1>3, Odds
  <2>4. files[inode][e + k] = files[inode][1] + (e + k) - 1
    BY <2>1, <1>1 DEF FilesInv
  <2> QED BY <2>1, <2>2, <2>3, <2>4, <1>1, FileFits
<1>5. \A k : k \in Ends(Text) <=> k \in 1 .. Len(Text) /\ ~Odd(k)
  BY <1>3, <1>4 DEF Ends
<1>6. ASSUME NEW k \in Ends(Text) PROVE Whole(Text, k)
  <2>1. k \in 1 .. Len(Text) /\ ~Odd(k) /\ k # 1
    <3>1. Odd(1)
      BY DEF Odd
    <3> QED BY <3>1, <1>5
  <2>2. k > 1 /\ k - 1 \in 1 .. Len(Text)
    BY <2>1, <1>3
  <2>3. Text[k - 1] = Text[k] - 1
    <3>1. Text[k - 1] = files[inode][1] + (e + (k - 1)) - 1 /\ Text[k] = files[inode][1] + (e + k) - 1
      BY <2>1, <2>2, <1>4
    <3>2. files[inode][1] \in Nat /\ k \in Nat
      BY <2>1, <1>4
    <3> QED BY <3>1, <3>2, <1>3
  <2>4. k > 2 => Text[k - 2] % 2 = 0
    <3> SUFFICES ASSUME k > 2 PROVE Text[k - 2] % 2 = 0
      OBVIOUS
    <3>1. k - 2 \in 1 .. Len(Text) /\ k \in Nat /\ k - 1 \in Nat /\ k - 1 # 0 /\ (k - 1) - 1 = k - 2
      BY <2>1, <1>3
    <3>2. ~Odd(k - 2)
      BY <3>1, <2>1, Odds
    <3> QED BY <3>1, <3>2, <1>4
  <2> QED BY <2>2, <2>3, <2>4 DEF Whole
<1>7. buffer' = IF Odd(found.size) THEN <<files[inode][found.size]>> ELSE <<>>
  <2>1. PICK m \in 0 .. Len(Text) :
           /\ m # 0 => m \in Ends(Text)
           /\ \A i \in Ends(Text) : i <= m
           /\ buffer' \in Seq(Half) /\ Len(buffer') = Len(Text) - m
           /\ \A k \in 1 .. Len(Text) - m : buffer'[k] = Text[m + k]
    BY <1>3, RestOf, ReadIs
  <2>2. ~Odd(m) /\ m \in Nat
    BY <2>1, <1>3, <1>5 DEF Odd
  <2>3. Odd(found.size) <=> Odd(Len(Text))
    BY <1>2, <1>3, Odds
  <2>4. CASE ~Odd(Len(Text))
    <3>1. m = Len(Text)
      BY <2>1, <2>2, <2>4, <1>3, <1>5
    <3>2. Len(buffer') = 0
      BY <3>1, <2>1, <1>3
    <3>3. buffer' = <<>>
      BY <3>2, <2>1
    <3> QED BY <3>3, <2>3, <2>4
  <2>5. CASE Odd(Len(Text))
    <3>1. Len(Text) # 0 /\ ~Odd(Len(Text) - 1) /\ Len(Text) - 1 \in Nat
      <4>1. Len(Text) # 0 /\ ~Odd(Len(Text) - 1)
        BY <2>5, <1>3, Odds
      <4> QED BY <4>1, <1>3
    <3>2. m # Len(Text)
      BY <2>2, <2>5
    <3>3. Len(Text) - 1 # 0 => Len(Text) - 1 \in Ends(Text)
      <4>1. \A n \in Nat : n # 0 /\ n - 1 # 0 => n - 1 \in 1 .. n
        OBVIOUS
      <4>2. Len(Text) - 1 # 0 => Len(Text) - 1 \in 1 .. Len(Text)
        BY <3>1, <4>1, <1>3
      <4> QED BY <4>2, <3>1, <1>5
    <3>4. m = Len(Text) - 1
      <4>1. Len(Text) - 1 <= m
        BY <3>3, <2>1, <2>2
      <4>2. m <= Len(Text)
        BY <2>1, <1>3
      <4> QED BY <4>1, <4>2, <3>2, <2>2, <1>3
    <3>5. Len(buffer') = 1 /\ buffer'[1] = Text[Len(Text)]
      <4>1. Len(Text) - m = 1 /\ m + 1 = Len(Text)
        BY <3>4, <1>3
      <4> QED BY <4>1, <2>1
    <3>6. Text[Len(Text)] = files[inode][found.size]
      <4>1. Len(Text) \in 1 .. Len(Text)
        BY <3>1, <1>3
      <4> QED BY <4>1, <1>2, <1>4
    <3>7. buffer' = <<files[inode][found.size]>>
      BY <3>5, <3>6, <2>1
    <3> QED BY <3>7, <2>3, <2>5
  <2> QED BY <2>4, <2>5
<1>8. ASSUME NEW i \in 1 .. found.size, ~Odd(i)
      PROVE  \E k \in 1 .. Len(events') : 2 * events'[k] = files[inode][i]
  <2>1. /\ NewLines(Text) \in Seq(Half) /\ events \in Seq(Half)
        /\ \A j \in Ends(Text) : Whole(Text, j) => \E k \in 1 .. Len(NewLines(Text)) : 2 * NewLines(Text)[k] = Text[j]
    BY <1>3, LinesOf, ReadNumbers
  <2>2. /\ Len(events') = Len(events) + Len(NewLines(Text)) /\ Len(events) \in Nat /\ Len(NewLines(Text)) \in Nat
        /\ \A k \in 1 .. Len(events) + Len(NewLines(Text)) :
             events'[k] = IF k <= Len(events) THEN events[k] ELSE NewLines(Text)[k - Len(events)]
    BY <2>1, ReadIs, ConcatProperties
  <2>3. CASE i <= offset
    <3>1. PICK k \in 1 .. Len(events) : 2 * events[k] = files[inode][i]
      BY <2>3, <1>1, <1>8 DEF Caught
    <3>2. k \in 1 .. Len(events') /\ events'[k] = events[k]
      BY <2>2
    <3> QED BY <3>1, <3>2
  <2>4. CASE i > offset
    <3>1. i - e \in 1 .. Len(Text) /\ i \in Nat /\ i >= e /\ e + (i - e) = i
      BY <2>4, <1>1, <1>2, <1>3
    <3>2. ~Odd(i - e)
      BY <3>1, <1>2, <1>3, <1>8, Odds
    <3>3. PICK l \in 1 .. Len(NewLines(Text)) : 2 * NewLines(Text)[l] = Text[i - e]
      BY <3>1, <3>2, <2>1, <1>5, <1>6
    <3>4. Len(events) + l \in 1 .. Len(events') /\ events'[Len(events) + l] = NewLines(Text)[l]
      <4>1. /\ Len(events) + l \in 1 .. Len(events) + Len(NewLines(Text)) /\ ~(Len(events) + l <= Len(events))
            /\ (Len(events) + l) - Len(events) = l
        BY <2>2
      <4> QED BY <4>1, <2>2
    <3>5. Text[i - e] = files[inode][i]
      BY <3>1, <1>4
    <3> QED BY <3>3, <3>4, <3>5
  <2> QED BY <2>3, <2>4, <1>1
<1> QED BY <1>1, <1>6, <1>7, <1>8 DEF Caught

LEMMA ReadOK == TailInv /\ Read => TailInv'
<1> SUFFICES ASSUME TailInv, Read PROVE TailInv'
  OBVIOUS
<1> USE DEF TailInv
<1>1. /\ ~InPass' /\ pc' \in {"idle", "stat", "open"} /\ pending' \in BOOLEAN
      /\ pc' = "stat" => follow_links
      /\ ~closed => (pending <=> StartsAgain') /\ (pc' = "idle" <=> ~pending) /\ (pc' = "idle" => ~pending')
  BY ReadIs, PassEnded DEF ShapeInv
<1>2. ShapeInv' /\ OrderInv'
  BY ReadShape, ReadOrder
<1>3. FilesInv'
  BY ReadIs DEF FilesInv
<1>4. PassInv'
  BY <1>1, ReadIs DEF PassInv
<1>5. WatchInv'
  <2> SUFFICES ASSUME ~closed, ~overtaken
               PROVE  /\ inode' # 0 => file_watch' = inode'
                      /\ inode' # 0 /\ at_path' = inode' => dir_watch' = dir'
                      /\ pc' = "idle" => ~pending'
                      /\ pc' = "idle" /\ ~Alarm' => 
                           inode' = at_path' /\ (inode' # 0 => offset' = FileSize(inode)') /\ dir_watch' = dir'
    BY <1>1, ReadIs DEF WatchInv
  <2>1. (inode # 0 => file_watch = inode) /\ (inode # 0 /\ at_path = inode => dir_watch = dir)
    BY DEF WatchInv
  <2>2. ASSUME pc' = "idle", ~Alarm'
        PROVE  inode = at_path /\ offset' = Len(files[inode]) 
    <3>1. ~Alarm
      BY <2>2, <1>1, ReadIs DEF Alarm
    <3>2. Fresh /\ fh = at_path
      BY <3>1, ReadIs DEF WatchInv
    <3>3. inode = at_path /\ found.size = Len(files[inode]) /\ inode \in 1 .. Len(files)
      BY <3>2, ReadIs DEF Fresh, FileSize
    <3>4. offset \in Nat /\ Len(files[inode]) \in Nat
      BY <3>3, Numbers, FileFits
    <3>5. ReadTo = Len(files[inode])
      BY <3>2, <3>3, <3>4 DEF ReadTo, FileSize
    <3>6. offset' = Len(files[inode])
      BY <3>3, <3>4, <3>5, ReadIs DEF New
    <3> QED BY <3>3, <3>6
  <2> QED BY <2>1, <2>2, <1>1, ReadIs DEF FileSize
<1>6. ReadInv'
  <2> SUFFICES ASSUME truncations = 0 PROVE ReadInv'
    BY ReadIs DEF ReadInv
  <2>1. inode' # 0 /\ (~follow_links' \/ at_path' = inode') => Caught'
    BY ReadIs, ReadCaught
  <2>2. ~follow_links /\ ~SplitChars => ~spoilt'
    BY ReadIs, ReadCaught DEF ReadInv
  <2> QED BY <2>1, <2>2, <1>1, ReadIs DEF ReadInv
<1>7. DueInv'
  <2> SUFFICES ASSUME truncations = 0, ~closed, at_path # 0, NEW line \in due,
                      NEW i \in 1 .. Len(files[at_path]), files[at_path][i] = 2 * line
               PROVE  (\E k \in 1 .. Len(events') : events'[k] = line) \/ pending' \/ StartsAgain' \/ InHand(line)'
    BY ReadIs DEF DueInv
  <2>1. (\E k \in 1 .. Len(events) : events[k] = line) \/ pending \/ InHand(line)
    BY ReadIs DEF DueInv
  <2>2. CASE \E k \in 1 .. Len(events) : events[k] = line
    <3>1. PICK k \in 1 .. Len(events) : events[k] = line
      BY <2>2
    <3>2. NewLines(Text) \in Seq(Half) /\ events \in Seq(Half)
      BY TextFacts, LinesOf, ReadNumbers
    <3>3. k \in 1 .. Len(events') /\ events'[k] = events[k]
      BY <3>2, ReadIs, ConcatProperties
    <3> QED BY <3>1, <3>3
  <2>3. CASE pending
    BY <2>3, <1>1
  <2>4. CASE InHand(line)
    <3>1. at_path = inode /\ inode \in 1 .. Len(files)
      BY <2>4, ReadIs DEF InHand
    <3>2. PICK j \in 1 .. found.size : j <= Len(files[inode]) /\ files[inode][j] = 2 * line
      BY <2>4, <3>1 DEF InHand
    <3>3. Caught' /\ offset' = found.size /\ inode' = inode /\ files' = files
      BY <3>1, ReadCaught, ReadIs
    <3>4. line \in Nat /\ (2 * line) % 2 = 0
      <4>1. line \in Nat
        BY HalfNumbers DEF ShapeInv
      <4> QED BY <4>1
    <3>5. ~Odd(j)
      <4>1. j \in 1 .. Len(files[inode])
        BY <3>2, ReadIs, <3>1, FileFits
      <4> QED BY <4>1, <3>1, <3>2, <3>4, EndsAreEven
    <3>6. PICK k \in 1 .. Len(events') : 2 * events'[k] = files[inode][j]
      BY <3>3, <3>5 DEF Caught
    <3>7. events'[k] \in Nat
      <4>1. events' \in Seq(Half)
        BY <1>2 DEF ShapeInv
      <4>2. events'[k] \in Half
        BY <4>1
      <4> QED BY <4>2, HalfNumbers
    <3> QED BY <3>2, <3>4, <3>6, <3>7
  <2> QED BY <2>1, <2>2, <2>3, <2>4
<1> QED BY <1>2, <1>3, <1>4, <1>5, <1>6, <1>7

----------------------------------------------------------------------------
(* A wake up, a drain and a stop. *)

LEMMA Scheduled ==
  ASSUME ShapeInv, Schedule, UNCHANGED <<follow_links, closed>>
  PROVE  /\ pc' \in {"idle", "stat", "track", "open", "read"} /\ pending' \in BOOLEAN
         /\ pending => pending' \/ StartsAgain'
         /\ ~closed => StartsAgain' \/ (pending' /\ pc' # "idle")
         /\ pc' # pc => StartsAgain'
         /\ StartsAgain => StartsAgain'
         /\ pc' = "stat" => follow_links \/ pc = "stat"
         /\ pc' = "read" \/ pc' = "track" \/ InPass' => pc' = pc
         /\ InPass \/ pc = "track" => pc' = pc
BY DEF ShapeInv, Schedule, StartsAgain, InPass, FirstStep

(* A step that schedules a pass, and touches nothing that a pass reads.    *)
LEMMA ScheduleOK ==
  ASSUME TailInv, Schedule, notices' \subseteq notices, due' \subseteq Half,
         \A line \in due' : line \notin due => 2 * line <= written,
         UNCHANGED <<follow_links, files, at_path, dir, dirs, written, truncations, overtaken>>,
         UNCHANGED <<inode, offset, buffer, file_watch, dir_watch, closed, found, fh, events, spoilt>>
  PROVE  TailInv'
<1> USE DEF TailInv
<1>1. /\ pc' \in {"idle", "stat", "track", "open", "read"} /\ pending' \in BOOLEAN
      /\ pending => pending' \/ StartsAgain'
      /\ ~closed => StartsAgain' \/ (pending' /\ pc' # "idle")
      /\ pc' # pc => StartsAgain'
      /\ StartsAgain => StartsAgain'
      /\ pc' = "stat" => follow_links
  BY Scheduled DEF PassInv
<1>2. /\ pc' = "read" \/ pc' = "track" \/ InPass' => pc' = pc
      /\ InPass \/ pc = "track" => pc' = pc
      /\ InPass' => InPass
  <2>1. InPass' /\ pc' = pc => InPass
    BY DEF InPass, StartsAgain
  <2> QED BY <2>1, Scheduled
<1>3. ShapeInv'
  BY <1>1 DEF ShapeInv
<1>4. FilesInv'
  BY DEF FilesInv
<1>5. PassInv'
  <2>1. ~closed => pc' # "idle"
    BY <1>1 DEF StartsAgain
  <2> QED BY <2>1, <1>1, <1>2 DEF PassInv
<1>6. WatchInv'
  <2> SUFFICES ASSUME ~closed, ~overtaken
               PROVE  /\ Alarm' /\ (pc' = "idle" => FALSE)
                      /\ pc' = "track" /\ found.ino \notin {0, inode} => Fresh'
    BY DEF WatchInv
  <2>1. Fresh' = Fresh
    BY DEF Fresh, FileSize
  <2>2. Alarm' /\ pc' # "idle"
    <3>1. StartsAgain' => pc' # "idle"
      BY DEF StartsAgain
    <3> QED BY <3>1, <1>1 DEF Alarm
  <2> QED BY <2>1, <2>2, <1>2 DEF WatchInv
<1>7. OrderInv'
  BY <1>2 DEF OrderInv
<1>8. ReadInv'
  <2>1. Caught' = Caught
    BY DEF Caught
  <2> QED BY <2>1, <1>2 DEF ReadInv
<1>9. DueInv'
  <2> SUFFICES ASSUME truncations = 0, ~closed PROVE DueInv'
    BY DEF DueInv
  <2>1. \A line \in due' : 2 * line <= written
    BY DEF DueInv
  <2>2. pending' \/ StartsAgain'
    BY <1>1
  <2> QED BY <2>1, <2>2 DEF DueInv
<1> QED BY <1>3, <1>4, <1>5, <1>6, <1>7, <1>8, <1>9

LEMMA NoticeOK == TailInv /\ (\E w \in {"file", "dir"} : Notice(w)) => TailInv'
<1> SUFFICES ASSUME TailInv, NEW w \in {"file", "dir"}, Notice(w) PROVE TailInv'
  OBVIOUS
<1>1. /\ Schedule /\ notices' \subseteq notices /\ due' = due
      /\ UNCHANGED <<follow_links, files, at_path, dir, dirs, written, truncations, overtaken>>
      /\ UNCHANGED <<inode, offset, buffer, file_watch, dir_watch, closed, found, fh, events, spoilt>>
  BY DEF Notice, disk, state, told
<1>2. due \subseteq Half
  BY DEF TailInv, ShapeInv
<1> QED BY <1>1, <1>2, ScheduleOK

LEMMA DrainOK == TailInv /\ Drain => TailInv'
<1> SUFFICES ASSUME TailInv, Drain PROVE TailInv'
  OBVIOUS
<1>1. /\ Schedule /\ notices' = notices /\ due' = LinesThere
      /\ UNCHANGED <<follow_links, files, at_path, dir, dirs, written, truncations, overtaken>>
      /\ UNCHANGED <<inode, offset, buffer, file_watch, dir_watch, closed, found, fh, events, spoilt>>
  BY DEF Drain, disk, state, told
<1>2. ASSUME NEW line \in LinesThere PROVE line \in Half /\ 2 * line <= written
  <2>1. at_path # 0 /\ at_path \in 1 .. Len(files)
    BY <1>2, Numbers DEF LinesThere, TailInv
  <2>2. PICK i \in Ends(files[at_path]) : line = files[at_path][i] \div 2
    BY <1>2, <2>1 DEF LinesThere
  <2>3. i \in 1 .. Len(files[at_path]) /\ files[at_path][i] % 2 = 0
    BY <2>1, <2>2, FileFits DEF Ends, TailInv
  <2>4. files[at_path][i] \in Half /\ files[at_path][i] <= written
    BY <2>1, <2>3, FileFits DEF FilesInv, TailInv
  <2> QED BY <2>2, <2>3, <2>4, Halved
<1> QED BY <1>1, <1>2, ScheduleOK

LEMMA StopOK == TailInv /\ Stop => TailInv'
<1> SUFFICES ASSUME TailInv, Stop PROVE TailInv'
  OBVIOUS
<1> USE DEF TailInv
<1>1. /\ closed' /\ closed' \in BOOLEAN /\ file_watch' = 0 /\ dir_watch' = NoWatch /\ notices' = {}
      /\ UNCHANGED <<follow_links, files, at_path, dir, dirs, written, truncations, overtaken>>
      /\ UNCHANGED <<inode, offset, buffer, pending, pc, found, fh, events, spoilt, due>>
  BY DEF Stop, disk, told
<1>2. ShapeInv'
  <2>1. file_watch' \in 0 .. Len(files) /\ dir_watch' \in NoWatch .. dirs
    BY <1>1, Numbers DEF NoWatch
  <2> QED BY <2>1, <1>1 DEF ShapeInv
<1>3. FilesInv' /\ PassInv' /\ OrderInv'
  BY <1>1 DEF FilesInv, PassInv, OrderInv, InPass, StartsAgain
<1>4. WatchInv' /\ DueInv'
  BY <1>1 DEF WatchInv, DueInv
<1>5. ReadInv'
  <2>1. Caught' = Caught
    BY <1>1 DEF Caught
  <2> QED BY <2>1, <1>1 DEF ReadInv, InPass, StartsAgain
<1> QED BY <1>2, <1>3, <1>4, <1>5

LEMMA StutterOK == TailInv /\ UNCHANGED vars => TailInv'
<1> SUFFICES ASSUME TailInv, UNCHANGED vars PROVE TailInv'
  OBVIOUS
<1>1. /\ UNCHANGED <<follow_links, files, at_path, dir, dirs, written, truncations, overtaken, notices>>
      /\ UNCHANGED <<inode, offset, buffer, file_watch, dir_watch, pending, closed, pc, found, fh, events, spoilt, due>>
  BY DEF vars, disk, state, told
<1>2. Caught' = Caught /\ Fresh' = Fresh /\ StartsAgain' = StartsAgain /\ InPass' = InPass /\ Alarm' = Alarm
  BY <1>1 DEF Caught, Fresh, StartsAgain, InPass, Alarm, FileSize
<1>3. \A line : InHand(line)' = InHand(line)
  BY <1>1, <1>2 DEF InHand
<1>4. ShapeInv' /\ FilesInv' /\ PassInv' /\ OrderInv'
  BY <1>1, <1>2 DEF TailInv, ShapeInv, FilesInv, PassInv, OrderInv
<1>5. WatchInv' /\ ReadInv' /\ DueInv'
  BY <1>1, <1>2, <1>3 DEF TailInv, WatchInv, ReadInv, DueInv, FileSize
<1> QED BY <1>4, <1>5 DEF TailInv

LEMMA InitOK == Init => TailInv
<1> SUFFICES ASSUME Init PROVE TailInv
  OBVIOUS
<1>1. MaxHalves \in Nat /\ MaxHalves >= 2 /\ MaxFiles \in Nat /\ MaxFiles >= 1 /\ MaxDirs \in Nat /\ MaxDirs >= 1
      /\ MaxTruncations \in Nat /\ FollowLinks \subseteq BOOLEAN
  BY TailAssumption
<1>2. /\ follow_links \in BOOLEAN /\ truncations = 0 /\ ~overtaken /\ overtaken \in BOOLEAN /\ notices = {}
      /\ inode = 0 /\ offset = 0 /\ buffer = <<>> /\ pending = FALSE /\ closed = FALSE
      /\ pc = FirstStep /\ found = Nothing /\ fh = 0 /\ file_watch = 0 /\ dir_watch = NoWatch
      /\ events = <<>> /\ spoilt = FALSE /\ due = {}
  BY <1>1 DEF Init
<1>3. \/ files = <<>> /\ at_path = 0 /\ dir = 0 /\ dirs = 0 /\ written = 0
      \/ files = <<>> /\ at_path = 0 /\ dir = 1 /\ dirs = 1 /\ written = 0
      \/ files = <<<<1, 2>>>> /\ at_path = 1 /\ dir = 1 /\ dirs = 1 /\ written = 2
  BY DEF Init
<1>4. <<1, 2>> \in Seq(Half) /\ <<>> \in Seq(Half)
  <2>1. 1 \in Half /\ 2 \in Half
    BY <1>1 DEF Half
  <2> QED BY <2>1
<1>5. /\ files \in Seq(Seq(Half)) /\ Len(files) <= MaxFiles /\ Len(files) \in Nat
      /\ dir \in 0 .. dirs /\ dirs \in 0 .. MaxDirs /\ written \in 0 .. MaxHalves + 1
      /\ at_path \in {0, Len(files)} /\ NoWatch \in NoWatch .. dirs
  <2>1. files \in Seq(Seq(Half))
    <3>1. <<>> \in Seq(Seq(Half)) /\ <<<<1, 2>>>> \in Seq(Seq(Half))
      BY <1>4
    <3> QED BY <3>1, <1>3
  <2>2. Len(files) \in {0, 1} /\ at_path = Len(files)
    BY <1>3
  <2>3. dir \in {0, 1} /\ dirs = dir /\ written \in {0, 2}
    BY <1>3
  <2> QED BY <2>1, <2>2, <2>3, <1>1 DEF NoWatch
<1>6. StartsAgain /\ ~InPass /\ pc # "idle" /\ pc # "track" /\ pc # "read" /\ pc \in {"stat", "open"} /\ (pc = "stat" => follow_links)
  BY <1>2 DEF StartsAgain, InPass, FirstStep
<1>7. ShapeInv
  <2>1. found \in [ino : 0 .. Len(files), size : 0 .. MaxHalves] /\ 0 \in 0 .. Len(files) /\ 0 \in 0 .. MaxHalves
        /\ 0 \in 0 .. MaxTruncations
    BY <1>1, <1>2, <1>5 DEF Nothing
  <2> QED BY <2>1, <1>2, <1>4, <1>5, <1>6 DEF ShapeInv
<1>8. FilesInv
  <2>1. CASE files = <<>>
    <3>1. at_path = 0 /\ written = 0 /\ Len(files) = 0
      BY <2>1, <1>3
    <3> QED BY <3>1 DEF FilesInv
  <2>2. CASE files = <<<<1, 2>>>> /\ at_path = 1 /\ dir = 1 /\ written = 2
    <3>1. Len(files) = 1 /\ files[1] = <<1, 2>> /\ Len(files[1]) = 2 /\ files[1][1] = 1 /\ files[1][2] = 2
      BY <2>2
    <3>2. \A f \in 1 .. Len(files) : f = 1
      BY <3>1
    <3>3. \A i \in 1 .. 2 : files[1][i] = files[1][1] + i - 1 /\ files[1][i] <= 2
      BY <3>1
    <3>4. files[1] # <<>> /\ files[1][Len(files[1])] = written /\ files[1][1] % 2 = 1
      BY <3>1, <2>2
    <3>5. written % 2 # 1
      BY <2>2
    <3> QED BY <3>1, <3>2, <3>3, <3>4, <3>5, <2>2 DEF FilesInv
  <2> QED BY <2>1, <2>2, <1>3
<1>9. PassInv
  BY <1>2, <1>6 DEF PassInv
<1>10. WatchInv
  BY <1>2, <1>6 DEF WatchInv
<1>11. OrderInv
  <2>1. Len(events) = 0 /\ Len(buffer) = 0
    BY <1>2
  <2>2. \A f \in 1 .. Len(files) : Unseen(files[f], events, buffer)
    BY <2>1 DEF Unseen, Ahead
  <2>3. at_path # 0 => at_path \in 1 .. Len(files)
    BY <1>5
  <2> QED BY <2>1, <2>2, <2>3, <1>2, <1>6 DEF OrderInv
<1>12. ReadInv
  BY <1>2, <1>6 DEF ReadInv
<1>13. DueInv
  BY <1>2 DEF DueInv
<1> QED BY <1>7, <1>8, <1>9, <1>10, <1>11, <1>12, <1>13 DEF TailInv

LEMMA StepOK == TailInv /\ [Next]_vars => TailInv'
BY WriterOK, LooksOK, FoundOK, OpenOK, ReadOK, NoticeOK, DrainOK, StopOK, StutterOK DEF Next, Pass

LEMMA TailInvHolds == Spec => []TailInv
BY InitOK, StepOK, PTL DEF Spec

----------------------------------------------------------------------------

(* Every variable of the tail has values of its type, for any numbers of   *)
(* lines, of files and of directories.                                     *)
THEOREM TypeCorrect == Spec => []TypeOK
<1>1. TailInv => TypeOK
  <2> SUFFICES ASSUME ShapeInv PROVE TypeOK
    BY DEF TailInv
  <2>1. NoWatch .. dirs \subseteq NoWatch .. MaxDirs
    BY SMTT(20), Numbers DEF ShapeInv, NoWatch
  <2>2. at_path \in 0 .. Len(files)
    BY Numbers
  <2> QED BY <2>1, <2>2 DEF ShapeInv, TypeOK, Half
<1> QED BY <1>1, TailInvHolds, PTL

(* The tail of src/src/viewer/tail.ts hands on what was written, sleeps    *)
(* only when it has read all there is, and drains to the end, for any      *)
(* numbers of lines, of files and of directories.                          *)
THEOREM TailServesAll == Spec => []TailServes
<1>1. TailInv => LinesAsWritten
  <2> SUFFICES ASSUME TailInv, ~follow_links
               PROVE  /\ \A i, j \in DOMAIN events : i < j => events[i] < events[j]
                      /\ truncations = 0 /\ ~SplitChars => ~spoilt
    BY DEF LinesAsWritten
  <2>1. DOMAIN events = 1 .. Len(events)
    BY ReadNumbers DEF TailInv
  <2> QED BY <2>1 DEF TailInv, OrderInv, ReadInv
<1>2. TailInv => SleepsCaughtUp
  <2> SUFFICES ASSUME TailInv, Asleep, ~overtaken
               PROVE  inode = at_path /\ (inode # 0 => offset = FileSize(inode))
    BY DEF SleepsCaughtUp
  <2> QED BY DEF TailInv, PassInv, WatchInv, Asleep, Alarm, StartsAgain
<1>3. TailInv => DrainCatchesUp
  <2> SUFFICES ASSUME TailInv, pc = "idle", ~closed, truncations = 0, NEW line \in due \cap LinesThere
               PROVE  \E i \in DOMAIN events : events[i] = line
    BY DEF DrainCatchesUp
  <2>1. at_path # 0 /\ at_path \in 1 .. Len(files)
    BY Numbers DEF LinesThere, TailInv
  <2>2. PICK i \in Ends(files[at_path]) : line = files[at_path][i] \div 2
    BY <2>1 DEF LinesThere
  <2>3. i \in 1 .. Len(files[at_path]) /\ files[at_path][i] % 2 = 0 /\ files[at_path][i] \in Half
    BY <2>1, <2>2, FileFits DEF Ends, TailInv
  <2>4. files[at_path][i] = 2 * line
    BY <2>2, <2>3, Halved
  <2>5. ~StartsAgain /\ ~InHand(line)
    BY DEF StartsAgain, InHand, InPass
  <2>6. ~pending
    BY DEF TailInv, PassInv
  <2>7. \E k \in 1 .. Len(events) : events[k] = line
    BY <2>1, <2>3, <2>4, <2>5, <2>6 DEF TailInv, DueInv
  <2>8. DOMAIN events = 1 .. Len(events)
    BY ReadNumbers DEF TailInv
  <2> QED BY <2>7, <2>8
<1>4. TailInv => TailServes
  BY <1>1, <1>2, <1>3 DEF TailServes
<1> QED BY <1>4, TailInvHolds, PTL

----------------------------------------------------------------------------
(* ViewerFeed: the events of the page, from the file and from posts.       *)

CONSTANTS FeedModes, FeedBuffer, FeedEvents, FeedBodies, FeedLimit, FeedRotations, FeedRestarts, FeedDrops
VARIABLES vf_mode, vf_file, vf_ending, vf_tailed, vf_issued, vf_post, vf_page, vf_wire, vf_missed,
          vf_written, vf_rotations, vf_restarts, vf_drops

TheFeed == INSTANCE ViewerFeed WITH
  mode <- vf_mode, file <- vf_file, ending <- vf_ending, tailed <- vf_tailed, issued <- vf_issued,
  post <- vf_post, page <- vf_page, wire <- vf_wire, missed <- vf_missed, written <- vf_written,
  rotations <- vf_rotations, restarts <- vf_restarts, drops <- vf_drops,
  Modes <- FeedModes, N <- FeedBuffer, MaxEvents <- FeedEvents, Bodies <- FeedBodies, Limit <- FeedLimit,
  MaxRotations <- FeedRotations, MaxRestarts <- FeedRestarts, MaxDrops <- FeedDrops

(* A set of numbers that has any has a least. *)
LEMMA NatMin ==
  ASSUME NEW S \in SUBSET Nat, S # {}
  PROVE  \E m \in S : \A k \in S : m <= k
<1> DEFINE R == {ss \in Nat \X Nat : ss[1] < ss[2]}
<1>1. IsWellFoundedOn(R, Nat)
  BY NatLessThanWellFounded DEF OpToRel
<1> HIDE DEF R
<1>2. PICK m \in S : \A k \in S : ~(<<k, m>> \in R)
  BY <1>1, WFMin
<1>3. \A k \in S : ~(k < m)
  BY <1>2 DEF R
<1>4. QED
  BY <1>3

(* What is kept of the first i members, out of what was kept before. *)
KeptAt(seq, S, f, i) ==
  IF i = 0 THEN <<>> ELSE IF seq[i] \in S THEN Append(f[i - 1], seq[i]) ELSE f[i - 1]

Kept(seq, S, n, f) == f = [i \in 0..n |-> KeptAt(seq, S, f, i)]

LEMMA WhereChosen ==
  ASSUME NEW seq, NEW S
  PROVE  TheFeed!Where(seq, S) = (CHOOSE f : Kept(seq, S, Len(seq), f))[Len(seq)]
BY DEF TheFeed!Where, Kept, KeptAt

LEMMA KeptExists ==
  ASSUME NEW seq, NEW S, NEW n \in Nat
  PROVE  \E f : Kept(seq, S, n, f)
<1> DEFINE Has(m) == \E f : Kept(seq, S, m, f)
           Bad == {m \in Nat : ~Has(m)}
<1>1. Has(0)
  <2>1. PICK f : f = [i \in 0..0 |-> <<>>]
    OBVIOUS
  <2>2. Kept(seq, S, 0, f)
    BY <2>1 DEF Kept, KeptAt
  <2> QED BY <2>2
<1>2. ASSUME NEW m \in Nat, m > 0, Has(m - 1) PROVE Has(m)
  <2>1. PICK f : Kept(seq, S, m - 1, f)
    BY <1>2
  <2>2. PICK g : g = [i \in 0..m |-> IF i = m THEN KeptAt(seq, S, f, m) ELSE f[i]]
    OBVIOUS
  <2>3. ASSUME NEW i \in 0..m PROVE g[i] = KeptAt(seq, S, g, i)
    <3>1. CASE i = m
      <4>1. g[m - 1] = f[m - 1]
        BY <1>2, <2>2
      <4> QED BY <1>2, <2>2, <3>1, <4>1 DEF KeptAt
    <3>2. CASE i # m
      <4>1. g[i] = f[i] /\ f[i] = KeptAt(seq, S, f, i)
        BY <2>1, <2>2, <3>2 DEF Kept
      <4>2. i # 0 => g[i - 1] = f[i - 1]
        BY <2>2, <3>2
      <4> QED BY <4>1, <4>2 DEF KeptAt
    <3> QED BY <3>1, <3>2
  <2>4. Kept(seq, S, m, g)
    BY <2>2, <2>3 DEF Kept
  <2> QED BY <2>4
<1> HIDE DEF Has
<1>3. Bad = {}
  <2> SUFFICES ASSUME Bad # {} PROVE FALSE
    OBVIOUS
  <2>1. PICK m \in Bad : \A k \in Bad : m <= k
    BY NatMin
  <2>2. m \in Nat /\ ~Has(m) /\ m # 0
    BY <1>1
  <2>3. m - 1 \in Nat /\ m > 0 /\ ~(m <= m - 1)
    BY <2>2
  <2>4. Has(m - 1)
    BY <2>1, <2>3
  <2> QED BY <1>2, <2>2, <2>3, <2>4
<1>4. Has(n)
  BY <1>3
<1> QED BY <1>4 DEF Has

(* There is one such function only. *)
LEMMA KeptOnce ==
  ASSUME NEW seq, NEW S, NEW n \in Nat, NEW f, NEW g, Kept(seq, S, n, f), Kept(seq, S, n, g)
  PROVE  f = g
<1> DEFINE Bad == {i \in 0..n : f[i] # g[i]}
<1>1. Bad = {}
  <2> SUFFICES ASSUME Bad # {} PROVE FALSE
    OBVIOUS
  <2>1. PICK i \in Bad : \A k \in Bad : i <= k
    <3>1. Bad \in SUBSET Nat
      OBVIOUS
    <3> QED BY <3>1, NatMin
  <2>2. i \in 0..n /\ f[i] = KeptAt(seq, S, f, i) /\ g[i] = KeptAt(seq, S, g, i) /\ f[i] # g[i]
    BY <2>1 DEF Kept
  <2>3. i # 0
    BY <2>2 DEF KeptAt
  <2>4. f[i - 1] = g[i - 1]
    <3>1. i - 1 \in 0..n /\ ~(i <= i - 1)
      BY <2>2, <2>3
    <3> QED BY <2>1, <3>1
  <2> QED BY <2>2, <2>3, <2>4 DEF KeptAt
<1>2. \A i \in 0..n : f[i] = g[i]
  BY <1>1
<1>3. f = [i \in 0..n |-> f[i]] /\ g = [i \in 0..n |-> g[i]]
  <2>1. f = [i \in 0..n |-> KeptAt(seq, S, f, i)] /\ g = [i \in 0..n |-> KeptAt(seq, S, g, i)]
    BY DEF Kept
  <2> QED BY <2>1
<1> QED BY <1>2, <1>3

LEMMA WhereIs ==
  ASSUME NEW seq, NEW S, Len(seq) \in Nat, NEW f, Kept(seq, S, Len(seq), f)
  PROVE  TheFeed!Where(seq, S) = f[Len(seq)]
<1>1. PICK g : g = CHOOSE h : Kept(seq, S, Len(seq), h)
  OBVIOUS
<1>2. Kept(seq, S, Len(seq), g)
  BY <1>1
<1>3. f = g
  BY <1>2, KeptOnce
<1> QED BY <1>1, <1>3, WhereChosen

(* The members of a run of numbers that are above another number. *)
Run(low, high) == [i \in 1..high - low |-> low + i]

LEMMA WhereOfRun ==
  ASSUME NEW a \in Nat, NEW n \in Nat, NEW c \in Nat, NEW top \in Nat, a + n <= top
  PROVE  TheFeed!Where([i \in 1..n |-> a + i], c + 1..top) = Run(TheFeed!Bound(a, c), TheFeed!Bound(TheFeed!Bound(a, c), a + n))
<1> DEFINE seq == [i \in 1..n |-> a + i]
           low == TheFeed!Bound(a, c)
           f == [i \in 0..n |-> Run(low, TheFeed!Bound(low, a + i))]
<1>0. low \in Nat /\ a <= low /\ c <= low /\ low \in {a, c}
  BY DEF TheFeed!Bound
<1>1. Len(seq) = n
  OBVIOUS
<1>2. ASSUME NEW i \in 0..n PROVE f[i] = KeptAt(seq, c + 1..top, f, i)
  <2>1. CASE i = 0
    <3>1. TheFeed!Bound(low, a) = low
      BY <1>0 DEF TheFeed!Bound
    <3>2. f[i] = Run(low, low)
      BY <2>1, <3>1
    <3>3. low - low = 0
      BY <1>0
    <3>4. Run(low, low) = <<>>
      BY <3>3 DEF Run
    <3> QED BY <2>1, <3>2, <3>4 DEF KeptAt
  <2>2. CASE i # 0
    <3>1. seq[i] = a + i /\ i - 1 \in 0..n /\ a + i <= top
      BY <2>2
    <3>2. CASE a + i <= c
      <4>1. seq[i] \notin c + 1..top
        BY <3>1, <3>2
      <4>2. TheFeed!Bound(low, a + i) = low /\ TheFeed!Bound(low, a + (i - 1)) = low
        BY <1>0, <3>2 DEF TheFeed!Bound
      <4> QED BY <2>2, <3>1, <4>1, <4>2 DEF KeptAt
    <3>3. CASE a + i > c
      <4>1. seq[i] \in c + 1..top
        BY <3>1, <3>3
      <4>2. TheFeed!Bound(low, a + i) = a + i /\ TheFeed!Bound(low, a + (i - 1)) = a + (i - 1) /\ low <= a + (i - 1)
        BY <1>0, <2>2, <3>1, <3>3 DEF TheFeed!Bound
      <4>3. Run(low, a + i) = Append(Run(low, a + (i - 1)), a + i)
        <5>1. PICK h : h = (a + (i - 1)) - low
          OBVIOUS
        <5>2. h \in Nat /\ (a + i) - low = h + 1 /\ low + (h + 1) = a + i
          BY <1>0, <4>2, <5>1
        <5>3. Run(low, a + (i - 1)) = [j \in 1..h |-> low + j] /\ Run(low, a + i) = [j \in 1..h + 1 |-> low + j]
          BY <5>1, <5>2 DEF Run
        <5>4. Append([j \in 1..h |-> low + j], low + (h + 1)) = [j \in 1..h + 1 |-> low + j]
          BY <1>0, <5>2
        <5> QED BY <5>2, <5>3, <5>4
      <4> QED BY <2>2, <3>1, <4>1, <4>2, <4>3 DEF KeptAt
    <3> QED BY <1>0, <3>2, <3>3
  <2> QED BY <2>1, <2>2
<1>3. Kept(seq, c + 1..top, n, f)
  BY <1>2 DEF Kept
<1>4. TheFeed!Where(seq, c + 1..top) = f[n]
  BY <1>1, <1>3, WhereIs
<1> QED BY <1>4

(* What is kept of a sequence is a sequence, no longer than it. *)
LEMMA KeptIsSeq ==
  ASSUME NEW X, NEW seq \in Seq(X), NEW S, NEW f, Kept(seq, S, Len(seq), f), NEW n \in 0..Len(seq)
  PROVE  f[n] \in Seq(X) /\ Len(f[n]) \in 0..n
<1> DEFINE Bad == {i \in 0..Len(seq) : ~(f[i] \in Seq(X) /\ Len(f[i]) \in 0..i)}
<1>1. Bad = {}
  <2> SUFFICES ASSUME Bad # {} PROVE FALSE
    OBVIOUS
  <2>1. PICK i \in Bad : \A k \in Bad : i <= k
    <3>1. Bad \in SUBSET Nat
      OBVIOUS
    <3> QED BY <3>1, NatMin
  <2>2. i \in 0..Len(seq) /\ f[i] = KeptAt(seq, S, f, i) /\ ~(f[i] \in Seq(X) /\ Len(f[i]) \in 0..i)
    BY <2>1 DEF Kept
  <2>3. i # 0
    BY <2>2 DEF KeptAt
  <2>4. i - 1 \in 0..Len(seq) /\ ~(i <= i - 1) /\ seq[i] \in X
    BY <2>2, <2>3
  <2>5. f[i - 1] \in Seq(X) /\ Len(f[i - 1]) \in 0..i - 1
    BY <2>1, <2>4
  <2>6. Append(f[i - 1], seq[i]) \in Seq(X) /\ Len(Append(f[i - 1], seq[i])) = Len(f[i - 1]) + 1
    BY <2>4, <2>5
  <2> QED BY <2>2, <2>3, <2>5, <2>6 DEF KeptAt
<1> QED BY <1>1

(* What is kept of two parts is kept of the whole. *)
Splits(seq, S, m, d) ==
  /\ Len(TheFeed!Where(SubSeq(seq, 1, m), S)) \in 0..m
  /\ Len(TheFeed!Where(SubSeq(seq, m + 1, m + d), S)) \in 0..d
  /\ Len(TheFeed!Where(SubSeq(seq, 1, m + d), S)) = Len(TheFeed!Where(SubSeq(seq, 1, m), S)) + Len(TheFeed!Where(SubSeq(seq, m + 1, m + d), S))

LEMMA WhereAdds ==
  ASSUME NEW X, NEW seq \in Seq(X), NEW S, NEW m \in Nat, NEW d \in Nat, m + d <= Len(seq)
  PROVE  Splits(seq, S, m, d)
<1>0. PICK n : n = m + d
  OBVIOUS
<1> n \in Nat /\ m <= n /\ n <= Len(seq) /\ Len(seq) \in Nat /\ n - m = d
  BY <1>0
<1>1. PICK left : left = SubSeq(seq, 1, m)
  OBVIOUS
<1>2. PICK right : right = SubSeq(seq, m + 1, m + d)
  OBVIOUS
<1>3. PICK both : both = SubSeq(seq, 1, m + d)
  OBVIOUS
<1>4. /\ left \in Seq(X) /\ Len(left) = m /\ \A i \in 1..m : left[i] = both[i]
      /\ right \in Seq(X) /\ Len(right) = d /\ \A i \in 1..d : right[i] = both[m + i]
      /\ both \in Seq(X) /\ Len(both) = n
  <2>1. left \in Seq(X) /\ Len(left) = m /\ \A i \in 1..m : left[i] = seq[i]
    BY <1>0, <1>1
  <2>2. right \in Seq(X) /\ Len(right) = d /\ \A i \in 1..d : right[i] = seq[m + i]
    BY <1>0, <1>2
  <2>3. both \in Seq(X) /\ Len(both) = n /\ \A i \in 1..n : both[i] = seq[i]
    BY <1>0, <1>3
  <2>4. \A i \in 1..d : m + i \in 1..n
    BY <1>0
  <2>5. \A i \in 1..m : i \in 1..n
    BY <1>0
  <2> QED BY <2>5, <2>1, <2>2, <2>3, <2>4
<1>5. PICK f : Kept(both, S, n, f)
  BY <1>0, KeptExists
<1>6. PICK g : Kept(left, S, m, g)
  BY <1>0, KeptExists
<1>7. PICK h : Kept(right, S, d, h)
  BY <1>0, KeptExists
<1>8. \A i \in 0..n : Len(f[i]) \in 0..i /\ f[i] \in Seq(X)
  BY <1>4, <1>5, KeptIsSeq
<1>9. \A i \in 0..d : Len(h[i]) \in 0..i /\ h[i] \in Seq(X)
  BY <1>4, <1>7, KeptIsSeq
<1>10. g[m] = f[m] /\ m \in 0..n
  <2>1. PICK k : k = [i \in 0..m |-> f[i]]
    OBVIOUS
  <2>2. ASSUME NEW i \in 0..m PROVE k[i] = KeptAt(left, S, k, i)
    <3>1. k[i] = f[i] /\ f[i] = KeptAt(both, S, f, i)
      <4>1. i \in 0..n
        OBVIOUS
      <4>2. f[i] = KeptAt(both, S, f, i)
        BY <1>5, <4>1 DEF Kept
      <4> QED BY <2>1, <4>2
    <3>2. i # 0 => k[i - 1] = f[i - 1] /\ left[i] = both[i]
      BY <1>4, <2>1
    <3> QED BY <3>1, <3>2 DEF KeptAt
  <2>3. Kept(left, S, m, k)
    BY <2>1, <2>2 DEF Kept
  <2>4. k = g
    BY <1>6, <2>3, KeptOnce
  <2> QED BY <2>1, <2>4
<1>11. ASSUME NEW j \in 0..d PROVE Len(f[m + j]) = Len(f[m]) + Len(h[j])
  <2>1. PICK long : long = [i \in 0..d |-> Len(f[m + i])]
    OBVIOUS
  <2>2. PICK part : part = [i \in 0..d |-> Len(h[i])]
    OBVIOUS
  <2>3. \A i \in 0..d : m + i \in 0..n
    OBVIOUS
  <2>4. \A i \in 0..d : long[i] \in Nat /\ part[i] \in Nat /\ long[i] = Len(f[m + i]) /\ part[i] = Len(h[i])
    BY <1>8, <1>9, <2>1, <2>2, <2>3
  <2>5. 0 \in 0..d /\ part[0] = 0
    <3>1. 0 \in 0..d
      OBVIOUS
    <3>2. h[0] = <<>>
      BY <1>7, <3>1 DEF Kept, KeptAt
    <3> QED BY <2>4, <3>1, <3>2
  <2>6. ASSUME NEW i \in 1..d PROVE long[i] - long[i - 1] = part[i] - part[i - 1]
    <3>1. i \in 0..d /\ i - 1 \in 0..d /\ m + i \in 0..n /\ m + (i - 1) \in 0..n /\ (m + i) - 1 = m + (i - 1)
            /\ m + i # 0 /\ i # 0
      BY <2>3
    <3>2. h[i] = KeptAt(right, S, h, i) /\ f[m + i] = KeptAt(both, S, f, m + i)
      BY <1>5, <1>7, <3>1 DEF Kept
    <3>3. right[i] = both[m + i] /\ right[i] \in X
      BY <1>4
    <3>4. f[m + (i - 1)] \in Seq(X) /\ h[i - 1] \in Seq(X)
      BY <1>8, <1>9, <3>1
    <3>5. CASE right[i] \in S
      <4>1. h[i] = Append(h[i - 1], right[i]) /\ f[m + i] = Append(f[m + (i - 1)], right[i])
        BY <3>1, <3>2, <3>3, <3>5 DEF KeptAt
      <4>2. Len(h[i]) = Len(h[i - 1]) + 1 /\ Len(f[m + i]) = Len(f[m + (i - 1)]) + 1
        BY <3>3, <3>4, <4>1
      <4>3. part[i] = part[i - 1] + 1 /\ long[i] = long[i - 1] + 1
        BY <2>4, <3>1, <4>2
      <4>4. part[i - 1] \in Nat /\ long[i - 1] \in Nat
        BY <2>4, <3>1
      <4> QED BY <4>3, <4>4
    <3>6. CASE right[i] \notin S
      <4>1. h[i] = h[i - 1] /\ f[m + i] = f[m + (i - 1)]
        BY <3>1, <3>2, <3>3, <3>6 DEF KeptAt
      <4>2. part[i] = part[i - 1] /\ long[i] = long[i - 1]
        BY <2>4, <3>1, <4>1
      <4>3. part[i - 1] \in Nat /\ long[i - 1] \in Nat
        BY <2>4, <3>1
      <4> QED BY <4>2, <4>3
    <3> QED BY <3>5, <3>6
  <2>7. PICK Bad : Bad = {i \in 0..d : long[i] # long[0] + part[i]}
    OBVIOUS
  <2>8. Bad = {}
    <3> SUFFICES ASSUME Bad # {} PROVE FALSE
      OBVIOUS
    <3>1. PICK i \in Bad : \A k \in Bad : i <= k
      <4>1. Bad \in SUBSET Nat
        BY <2>7
      <4> QED BY <4>1, NatMin
    <3>2. i \in 0..d /\ long[i] # long[0] + part[i]
      BY <2>7
    <3>3. i # 0
      BY <2>4, <2>5, <3>2
    <3>4. i \in 1..d /\ i - 1 \in 0..d /\ ~(i <= i - 1)
      BY <3>2, <3>3
    <3>5. long[i - 1] = long[0] + part[i - 1]
      BY <2>7, <3>1, <3>4
    <3>6. long[i] - long[i - 1] = part[i] - part[i - 1]
      BY <2>6, <3>4
    <3>7. long[i] \in Nat /\ long[i - 1] \in Nat /\ part[i] \in Nat /\ part[i - 1] \in Nat /\ long[0] \in Nat
      BY <2>4, <2>5, <3>4
    <3>8. long[i] = long[0] + part[i]
      BY <3>5, <3>6, <3>7
    <3> QED BY <3>2, <3>8
  <2>9. long[j] = long[0] + part[j]
    BY <2>7, <2>8
  <2>10. m + 0 = m
    OBVIOUS
  <2>11. long[0] = Len(f[m])
    BY <2>4, <2>5, <2>10
  <2> QED BY <2>4, <2>9, <2>11
<1>12. TheFeed!Where(left, S) = g[m] /\ TheFeed!Where(right, S) = h[d] /\ TheFeed!Where(both, S) = f[n]
  <2>1. TheFeed!Where(left, S) = g[m]
    BY <1>4, <1>6, WhereIs
  <2>2. TheFeed!Where(right, S) = h[d]
    BY <1>4, <1>7, WhereIs
  <2>3. TheFeed!Where(both, S) = f[n]
    BY <1>4, <1>5, WhereIs
  <2> QED BY <2>1, <2>2, <2>3
<1>13. d \in 0..d /\ m + d = n
  BY <1>0
<1>14. Len(f[n]) = Len(f[m]) + Len(h[d])
  BY <1>11, <1>13
<1>15. Len(f[m]) \in 0..m /\ Len(h[d]) \in 0..d
  BY <1>8, <1>9, <1>10, <1>13
<1> QED BY <1>0, <1>1, <1>2, <1>3, <1>10, <1>12, <1>14, <1>15 DEF Splits
(* How many events are in the first n lines of a file, which has one line  *)
(* at most that is none.                                                   *)
Before(lines, n) == IF \E k \in 1..n : lines[k] = 0 THEN n - 1 ELSE n

EventsInOrder(lines) ==
  /\ \A i, j \in DOMAIN lines : lines[i] = 0 /\ lines[j] = 0 => i = j
  /\ \A n \in DOMAIN lines : lines[n] # 0 => lines[n] = Before(lines, n)

PageSet ==
  [at : {"out", "takes_ring", "takes_file", "loaded", "dropped", "following"}, head : Nat, cursor : Nat, last : Nat,
   guard : Nat, history : Seq(Nat), folded : Seq(Nat)]
PostSet ==
  [at : {"reading", "ok", "too_large", "bad_request"}, body : FeedBodies, ended : BOOLEAN, got : Nat, lines : Nat,
   accepted : Nat, rejected : Nat]

Counters == vf_mode \in FeedModes /\ vf_rotations \in Nat /\ vf_restarts \in Nat

(* What a request has been counted for. *)
Counted(p) ==
  /\ p \in PostSet
  /\ p.lines <= Len(p.body)
  /\ p.accepted = Len(TheFeed!Where(SubSeq(p.body, 1, p.lines), {"good"}))
  /\ p.rejected = p.lines - p.accepted
  /\ p.at = "ok" => p.lines = Len(p.body)
  /\ p.at = "reading" => p.lines = p.got \div 2

PostInv == vf_post = TheFeed!NoPost \/ Counted(vf_post)

Alone == vf_mode # "both" /\ vf_rotations = 0 /\ (vf_mode = "ingest" => vf_restarts = 0)

FeedTypes ==
  /\ vf_file \in Seq(Nat) /\ vf_ending \in {"half", "whole", "done"}
  /\ vf_tailed \in Nat /\ vf_written \in Nat /\ vf_missed \subseteq Nat
  /\ vf_issued \in Seq(Nat) /\ vf_wire \in Seq([id : Nat, event : Nat])
  /\ vf_page \in PageSet

(* The one producer, and how far what it made has been emitted. *)
FileInv ==
  /\ vf_mode = "tail" =>
       /\ vf_post = TheFeed!NoPost /\ EventsInOrder(vf_file)
       /\ vf_ending # "done" => vf_file # <<>>
       /\ vf_tailed <= TheFeed!Ended
       /\ vf_written = Before(vf_file, Len(vf_file)) /\ vf_written <= FeedEvents
       /\ Len(vf_issued) = Before(vf_file, vf_tailed)
  /\ vf_mode = "ingest" => vf_file = <<>> /\ vf_ending = "done" /\ vf_tailed = 0 /\ Len(vf_issued) = vf_written

(* What was emitted under an id is the event of that number. *)
IdsInv == vf_issued = Run(0, Len(vf_issued))

(* What the ring no longer has. *)
Gone(head) == TheFeed!Bound(head - FeedBuffer, 0)

Behind == TheFeed!Bound(vf_page.last, vf_page.cursor)

(* What the page has folded is all there was up to where it has come. *)
Folds ==
  /\ \A i \in DOMAIN vf_page.folded : vf_page.folded[i] \in 1..Behind
  /\ \A i, j \in DOMAIN vf_page.folded : i < j => vf_page.folded[i] < vf_page.folded[j]
  /\ \A id \in 1..Behind : id \in vf_missed \/ \E i \in DOMAIN vf_page.folded : vf_page.folded[i] = id

PageInv ==
  /\ vf_page.at \in {"out", "takes_ring", "takes_file"} =>
       vf_page.folded = <<>> /\ vf_page.last = 0 /\ vf_page.cursor = 0 /\ vf_page.head <= Len(vf_issued)
  /\ vf_page.at = "out" => vf_page.head = 0
  /\ vf_page.at = "takes_file" => vf_mode = "tail" /\ vf_missed = {} /\ vf_file # <<>>
  /\ vf_page.at = "takes_ring" => vf_page.history = Run(Gone(vf_page.head), vf_page.head)
       /\ vf_missed = 1..Gone(vf_page.head)
  /\ vf_page.at \in {"loaded", "dropped", "following"} => Folds

(* What is under way to the page is all that it lacks. *)
Sends ==
  /\ vf_page.guard <= Behind /\ Behind <= TheFeed!Bound(vf_page.guard, Len(vf_issued))
  /\ \A i \in DOMAIN vf_wire : vf_wire[i].id = vf_wire[i].event /\ vf_wire[i].id \in Behind + 1..Len(vf_issued)
  /\ \A i, j \in DOMAIN vf_wire : i < j => vf_wire[i].id < vf_wire[j].id
  /\ \A id \in Behind + 1..Len(vf_issued) : id \in vf_missed \/ \E i \in DOMAIN vf_wire : vf_wire[i].id = id

WireInv == IF vf_page.at = "following" THEN Sends ELSE vf_wire = <<>>

AloneInv == FeedTypes /\ FileInv /\ IdsInv /\ PageInv /\ WireInv

FeedInv == Counters /\ PostInv /\ (Alone => AloneInv)

FeedAssumption ==
  /\ FeedModes \subseteq {"tail", "ingest", "both"}
  /\ FeedBuffer \in Nat /\ FeedEvents \in Nat
  /\ FeedBodies \subseteq Seq({"good", "bad"})

LEMMA BoundIs ==
  ASSUME NEW n \in Int, NEW m \in Int
  PROVE  TheFeed!Bound(n, m) \in {n, m} /\ TheFeed!Bound(n, m) \in Int /\ n <= TheFeed!Bound(n, m)
           /\ m <= TheFeed!Bound(n, m)
BY DEF TheFeed!Bound

LEMMA RunIs ==
  ASSUME NEW a \in Nat, NEW b \in Nat, a <= b
  PROVE  /\ Run(a, b) \in Seq(Nat) /\ Len(Run(a, b)) = b - a /\ DOMAIN Run(a, b) = 1..b - a
         /\ \A i \in 1..b - a : Run(a, b)[i] = a + i
<1>1. b - a \in Nat
  OBVIOUS
<1>2. \A i \in 1..b - a : a + i \in Nat
  OBVIOUS
<1> QED BY <1>1, <1>2 DEF Run

(* Both parts of what is emitted in a row are one. *)
LEMMA RunJoins ==
  ASSUME NEW n \in Nat, NEW k \in Nat
  PROVE  Run(0, n) \o Run(n, n + k) = Run(0, n + k)
<1>1. Run(0, n) \in Seq(Nat) /\ Len(Run(0, n)) = n /\ \A i \in 1..n : Run(0, n)[i] = i
  <2>1. 0 \in Nat /\ 0 <= n /\ n - 0 = n /\ \A i \in 1..n : 0 + i = i
    OBVIOUS
  <2> QED BY <2>1, RunIs
<1>2. Run(n, n + k) \in Seq(Nat) /\ Len(Run(n, n + k)) = k /\ \A i \in 1..k : Run(n, n + k)[i] = n + i
  <2>1. n + k \in Nat /\ n <= n + k /\ (n + k) - n = k
    OBVIOUS
  <2> QED BY <2>1, RunIs
<1>3. Run(0, n + k) \in Seq(Nat) /\ Len(Run(0, n + k)) = n + k /\ \A i \in 1..n + k : Run(0, n + k)[i] = i
  <2>1. 0 \in Nat /\ n + k \in Nat /\ 0 <= n + k /\ (n + k) - 0 = n + k /\ \A i \in 1..n + k : 0 + i = i
    OBVIOUS
  <2> QED BY <2>1, RunIs
<1>4. PICK both : both = Run(0, n) \o Run(n, n + k)
  OBVIOUS
<1>5. both \in Seq(Nat) /\ Len(both) = n + k /\ \A i \in 1..n + k : both[i] = i
  <2>1. both \in Seq(Nat) /\ Len(both) = n + k
    <3>1. Run(0, n) \in Seq(Nat) /\ Run(n, n + k) \in Seq(Nat)
      BY <1>1, <1>2
    <3>2. both \in Seq(Nat) /\ Len(both) = Len(Run(0, n)) + Len(Run(n, n + k))
      BY <1>4, <3>1, ConcatProperties
    <3> QED BY <1>1, <1>2, <3>2
  <2>2. ASSUME NEW i \in 1..n + k PROVE both[i] = i
    <3>1. both[i] = IF i <= n THEN Run(0, n)[i] ELSE Run(n, n + k)[i - n]
      BY <1>1, <1>2, <1>4, ConcatProperties
    <3>2. CASE i <= n
      BY <1>1, <3>1, <3>2
    <3>3. CASE ~(i <= n)
      <4>1. i - n \in 1..k /\ n + (i - n) = i
        BY <3>3
      <4> QED BY <1>2, <3>1, <3>3, <4>1
    <3> QED BY <3>2, <3>3
  <2> QED BY <2>1, <2>2
<1>6. both = Run(0, n + k)
  BY <1>3, <1>5, SeqEqual
<1> QED BY <1>4, <1>6

(* What a stream writes that has no more to leave out. *)
Owed(low, top) == [i \in 1..top - low |-> [id |-> low + i, event |-> low + i]]

(* What the page's stream writes of a run of new events. *)
LEMMA LiveIs ==
  ASSUME vf_page.at = "following", vf_page.guard \in Nat, NEW n \in Nat, TheFeed!newest = n, NEW k \in Nat,
         NEW low, low = TheFeed!Bound(n, vf_page.guard), NEW top, top = TheFeed!Bound(low, n + k)
  PROVE  TheFeed!live(Run(n, n + k)) = Owed(low, top)
<1>1. low \in Nat /\ top \in Nat /\ n <= low /\ low <= top /\ top - low \in Nat
        /\ (top > low => top = n + k) /\ vf_page.guard <= low
  BY DEF TheFeed!Bound
<1>2. PICK emitted : emitted = Run(n, n + k)
  OBVIOUS
<1>3. DOMAIN emitted = 1..k /\ \A i \in 1..k : emitted[i] = n + i
  <2>1. n + k \in Nat /\ n <= n + k /\ (n + k) - n = k
    OBVIOUS
  <2> QED BY <1>2, <2>1, RunIs
<1>4. [i \in DOMAIN emitted |-> TheFeed!newest + i] = [i \in 1..k |-> n + i]
  BY <1>3
<1>5. Len(emitted) = k
  <2>1. n + k \in Nat /\ n <= n + k /\ (n + k) - n = k
    OBVIOUS
  <2> QED BY <1>2, <2>1, RunIs
<1>6. TheFeed!Where([i \in DOMAIN emitted |-> TheFeed!newest + i], vf_page.guard + 1..TheFeed!newest + Len(emitted)) = Run(low, top)
  <2>1. n + k \in Nat /\ n + k <= n + k
    OBVIOUS
  <2>2. TheFeed!Where([i \in 1..k |-> n + i], vf_page.guard + 1..n + k) = Run(low, top)
    BY <2>1, WhereOfRun
  <2> QED BY <1>4, <1>5, <2>2
<1>7. PICK ids : ids = Run(low, top)
  OBVIOUS
<1>8. DOMAIN ids = 1..top - low /\ \A i \in 1..top - low : ids[i] = low + i
  <2>1. low \in Nat /\ top \in Nat /\ low <= top
    BY <1>1
  <2> QED BY <1>7, <2>1, RunIs
<1>9. \A i \in 1..top - low : emitted[ids[i] - TheFeed!newest] = low + i
  <2> SUFFICES ASSUME NEW i \in 1..top - low PROVE emitted[ids[i] - TheFeed!newest] = low + i
    OBVIOUS
  <2>1. top = n + k /\ (low + i) - n \in 1..k /\ n + ((low + i) - n) = low + i
    BY <1>1
  <2>2. emitted[(low + i) - n] = low + i
    BY <1>3, <2>1
  <2> QED BY <1>8, <2>2
<1>10. TheFeed!live(emitted) = [i \in DOMAIN ids |-> [id |-> ids[i], event |-> emitted[ids[i] - TheFeed!newest]]]
  BY <1>6, <1>7 DEF TheFeed!live
<1>11. TheFeed!live(emitted) = [i \in 1..top - low |-> [id |-> low + i, event |-> low + i]]
  BY <1>8, <1>9, <1>10
<1> QED BY <1>2, <1>11 DEF Owed

(* The producer emits the next events. *)
LEMMA Emits ==
  ASSUME AloneInv, NEW k \in Nat, TheFeed!emit(Run(TheFeed!newest, TheFeed!newest + k)),
           UNCHANGED <<vf_page, vf_missed>>
  PROVE  /\ vf_issued' \in Seq(Nat) /\ Len(vf_issued') = Len(vf_issued) + k /\ IdsInv'
         /\ vf_wire' \in Seq([id : Nat, event : Nat]) /\ WireInv'
<1>0. FeedTypes /\ IdsInv /\ WireInv /\ PageInv
  BY DEF AloneInv
<1>1. PICK n : n = TheFeed!newest
  OBVIOUS
<1>2. n \in Nat /\ Len(vf_issued) = n /\ vf_issued = Run(0, n)
  BY <1>0, <1>1 DEF TheFeed!newest, FeedTypes, IdsInv
<1>3. vf_issued' = Run(0, n + k)
  BY <1>1, <1>2, RunJoins DEF TheFeed!emit
<1>4. vf_issued' \in Seq(Nat) /\ Len(vf_issued') = n + k
  <2>1. 0 \in Nat /\ n + k \in Nat /\ 0 <= n + k /\ (n + k) - 0 = n + k
    BY <1>2
  <2> QED BY <1>3, <2>1, RunIs
<1>5. IdsInv'
  BY <1>3, <1>4 DEF IdsInv
<1>6. vf_page' = vf_page /\ Behind' = Behind /\ vf_page.at = vf_page.at /\ vf_missed' = vf_missed
  BY DEF Behind
<1>7. CASE vf_page.at # "following"
  <2>1. TheFeed!live(Run(TheFeed!newest, TheFeed!newest + k)) = <<>> /\ vf_wire = <<>>
    BY <1>0, <1>7 DEF TheFeed!live, WireInv
  <2>2. vf_wire' = <<>> \o <<>>
    BY <2>1 DEF TheFeed!emit
  <2>3. vf_wire' = <<>>
    BY <2>2
  <2> QED BY <1>2, <1>4, <1>5, <1>6, <1>7, <2>3 DEF WireInv
<1>8. CASE vf_page.at = "following"
  <2>1. vf_page.guard \in Nat /\ vf_page.last \in Nat /\ vf_page.cursor \in Nat
    BY <1>0 DEF FeedTypes, PageSet
  <2>2. PICK low : low = TheFeed!Bound(n, vf_page.guard)
    OBVIOUS
  <2>3. PICK top : top = TheFeed!Bound(low, n + k)
    OBVIOUS
  <2>4. PICK more : more = [i \in 1..top - low |-> [id |-> low + i, event |-> low + i]]
    OBVIOUS
  <2>5. vf_wire' = vf_wire \o more
    <3>1. TheFeed!live(Run(n, n + k)) = more
      <4>1. n \in Nat /\ TheFeed!newest = n /\ vf_page.guard \in Nat
        BY <1>1, <1>2, <2>1
      <4>2. TheFeed!live(Run(n, n + k)) = Owed(low, top)
        BY <1>8, <2>2, <2>3, <4>1, LiveIs
      <4> QED BY <2>4, <4>2 DEF Owed
    <3> QED BY <1>1, <3>1 DEF TheFeed!emit
  <2>6. low \in Nat /\ top \in Nat /\ n <= low /\ low <= top /\ top - low \in Nat /\ vf_page.guard <= low
          /\ n + k <= top
          /\ (top > low => top = n + k)
    BY <1>2, <2>1, <2>2, <2>3 DEF TheFeed!Bound
  <2>7. \A i \in 1..top - low : low + i \in Nat
    BY <2>6
  <2>8. more \in Seq([id : Nat, event : Nat]) /\ Len(more) = top - low
          /\ \A i \in 1..top - low : more[i].id = low + i /\ more[i].event = low + i
    BY <2>4, <2>6, <2>7
  <2>9. vf_wire \in Seq([id : Nat, event : Nat]) /\ Len(vf_wire) \in Nat
    BY <1>0 DEF FeedTypes
  <2>10. vf_wire' \in Seq([id : Nat, event : Nat]) /\ Len(vf_wire') = Len(vf_wire) + (top - low)
    <3>1. vf_wire' \in Seq([id : Nat, event : Nat]) /\ Len(vf_wire') = Len(vf_wire) + Len(more)
      BY <2>5, <2>8, <2>9, ConcatProperties
    <3> QED BY <2>8, <3>1
  <2>11. \A i \in 1..Len(vf_wire) : vf_wire'[i] = vf_wire[i]
    BY <2>5, <2>6, <2>8, <2>9, ConcatProperties
  <2>12. ASSUME NEW j \in 1..top - low
         PROVE  Len(vf_wire) + j \in 1..Len(vf_wire') /\ vf_wire'[Len(vf_wire) + j].id = low + j
                /\ vf_wire'[Len(vf_wire) + j].event = low + j
    <3>1. Len(vf_wire) + j \in 1..Len(vf_wire') /\ ~(Len(vf_wire) + j <= Len(vf_wire))
            /\ (Len(vf_wire) + j) - Len(vf_wire) = j
      BY <2>6, <2>9, <2>10
    <3>2. vf_wire'[Len(vf_wire) + j] = more[(Len(vf_wire) + j) - Len(vf_wire)]
      <4>1. PICK S : S = [id : Nat, event : Nat]
        OBVIOUS
      <4>2. vf_wire \in Seq(S) /\ more \in Seq(S)
        BY <2>8, <2>9, <4>1
      <4>3. PICK l : l = Len(vf_wire) + j
        OBVIOUS
      <4>4. l \in 1..Len(vf_wire) + Len(more) /\ ~(l <= Len(vf_wire))
        BY <2>8, <2>9, <2>10, <3>1, <4>3
      <4>5. (vf_wire \o more)[l] = more[l - Len(vf_wire)]
        BY <4>2, <4>4, ConcatProperties
      <4> QED BY <2>5, <4>3, <4>5
    <3> QED BY <2>8, <3>1, <3>2
  <2>13. Sends
    BY <1>0, <1>8 DEF WireInv
  <2>14. Behind \in Nat /\ Behind <= low /\ vf_page.guard <= Behind
    <3>1. Behind \in Nat
      BY <2>1 DEF Behind, TheFeed!Bound
    <3>2. vf_page.guard <= Behind /\ Behind <= TheFeed!Bound(vf_page.guard, n)
      BY <1>2, <2>13 DEF Sends
    <3>3. TheFeed!Bound(vf_page.guard, n) = low
      BY <1>2, <2>1, <2>2 DEF TheFeed!Bound
    <3> QED BY <3>1, <3>2, <3>3
  <2>15. vf_page.guard <= Behind /\ Behind <= TheFeed!Bound(vf_page.guard, n + k)
    BY <1>2, <2>1, <2>2, <2>14 DEF TheFeed!Bound
  <2>16. ASSUME NEW i \in 1..Len(vf_wire')
         PROVE  vf_wire'[i].id = vf_wire'[i].event /\ vf_wire'[i].id \in Behind + 1..n + k
                /\ IF i <= Len(vf_wire) THEN vf_wire'[i] = vf_wire[i] /\ vf_wire'[i].id <= n
                     /\ i \in 1..Len(vf_wire)
                   ELSE vf_wire'[i].id = low + (i - Len(vf_wire)) /\ i - Len(vf_wire) \in 1..top - low
    <3>1. CASE i <= Len(vf_wire)
      <4>1. i \in DOMAIN vf_wire /\ vf_wire'[i] = vf_wire[i] /\ i \in 1..Len(vf_wire)
        BY <2>9, <2>11, <3>1
      <4>2. vf_wire[i].id = vf_wire[i].event /\ vf_wire[i].id \in Behind + 1..n
        BY <1>2, <2>13, <4>1 DEF Sends
      <4> QED BY <1>2, <2>14, <3>1, <4>1, <4>2
    <3>2. CASE ~(i <= Len(vf_wire))
      <4>1. i - Len(vf_wire) \in 1..top - low /\ Len(vf_wire) + (i - Len(vf_wire)) = i
        BY <2>6, <2>9, <2>10, <3>2
      <4>2. vf_wire'[i].id = low + (i - Len(vf_wire)) /\ vf_wire'[i].event = low + (i - Len(vf_wire))
        BY <2>12, <4>1
      <4>3. low + (i - Len(vf_wire)) \in Behind + 1..n + k
        BY <1>2, <2>6, <2>14, <4>1
      <4> QED BY <3>2, <4>1, <4>2, <4>3
    <3> QED BY <3>1, <3>2
  <2>17. ASSUME NEW i \in 1..Len(vf_wire'), NEW j \in 1..Len(vf_wire'), i < j PROVE vf_wire'[i].id < vf_wire'[j].id
    <3>1. CASE j <= Len(vf_wire)
      <4>1. i <= Len(vf_wire)
        BY <2>9, <2>10, <2>17, <3>1
      <4>2. vf_wire'[i] = vf_wire[i] /\ vf_wire'[j] = vf_wire[j] /\ i \in DOMAIN vf_wire /\ j \in DOMAIN vf_wire
        BY <2>9, <2>16, <3>1, <4>1
      <4> QED BY <2>13, <4>2, <2>17 DEF Sends
    <3>2. CASE i <= Len(vf_wire) /\ ~(j <= Len(vf_wire))
      <4>1. vf_wire'[i].id <= n /\ vf_wire'[i].id \in Behind + 1..n + k
        BY <2>16, <3>2
      <4>2. vf_wire'[j].id = low + (j - Len(vf_wire)) /\ j - Len(vf_wire) \in 1..top - low
        BY <2>16, <3>2
      <4> QED BY <1>2, <2>6, <2>14, <4>1, <4>2
    <3>3. CASE ~(i <= Len(vf_wire)) /\ ~(j <= Len(vf_wire))
      <4>1. vf_wire'[i].id = low + (i - Len(vf_wire)) /\ vf_wire'[j].id = low + (j - Len(vf_wire))
        BY <2>16, <3>3
      <4> QED BY <2>6, <2>9, <2>17, <4>1
    <3> QED BY <2>9, <3>1, <3>2, <3>3
  <2>18. ASSUME NEW id \in Behind + 1..n + k
         PROVE  id \in vf_missed \/ \E i \in 1..Len(vf_wire') : vf_wire'[i].id = id
    <3>1. CASE id <= n
      <4>1. id \in vf_missed \/ \E i \in DOMAIN vf_wire : vf_wire[i].id = id
        BY <1>2, <2>13, <2>14, <3>1 DEF Sends
      <4>2. ASSUME NEW i \in DOMAIN vf_wire PROVE i \in 1..Len(vf_wire') /\ vf_wire'[i] = vf_wire[i]
        <5>1. i \in 1..Len(vf_wire)
          BY <2>9
        <5>2. Len(vf_wire') \in Nat /\ Len(vf_wire) <= Len(vf_wire')
          BY <2>6, <2>9, <2>10
        <5> QED BY <2>9, <2>11, <5>1, <5>2
      <4> QED BY <4>1, <4>2
    <3>2. CASE id > n
      <4>1. id > low /\ id - low \in 1..top - low /\ low + (id - low) = id
        BY SMTT(20), <1>2, <2>1, <2>2, <2>6, <2>14, <3>2 DEF TheFeed!Bound
      <4> QED BY <2>12, <4>1
    <3> QED BY <1>2, <2>14, <3>1, <3>2
  <2>19. DOMAIN vf_wire' = 1..Len(vf_wire')
    BY <2>10
  <2>20. Sends'
    BY <1>4, <1>6, <2>15, <2>16, <2>17, <2>18, <2>19 DEF Sends
  <2> QED BY <1>2, <1>4, <1>5, <1>6, <1>8, <2>10, <2>20 DEF WireInv
<1> QED BY <1>7, <1>8

LEMMA BeforeIs ==
  ASSUME NEW lines, NEW n \in Nat
  PROVE  Before(lines, n) \in 0..n
<1>1. CASE \E k \in 1..n : lines[k] = 0
  <2>1. n >= 1
    BY <1>1
  <2> QED BY <1>1, <2>1 DEF Before
<1>2. CASE ~\E k \in 1..n : lines[k] = 0
  BY <1>2 DEF Before
<1> QED BY <1>1, <1>2

LEMMA BeforeNext ==
  ASSUME NEW lines, EventsInOrder(lines), NEW n \in Nat, n + 1 \in DOMAIN lines, 1..n \subseteq DOMAIN lines
  PROVE  /\ lines[n + 1] = 0 => Before(lines, n + 1) = Before(lines, n)
         /\ lines[n + 1] # 0 => Before(lines, n + 1) = Before(lines, n) + 1 /\ lines[n + 1] = Before(lines, n) + 1
<1>1. CASE lines[n + 1] = 0
  <2>1. \A k \in 1..n : lines[k] # 0
    <3> SUFFICES ASSUME NEW k \in 1..n, lines[k] = 0 PROVE FALSE
      OBVIOUS
    <3>1. k = n + 1
      BY <1>1 DEF EventsInOrder
    <3> QED BY <3>1
  <2>2. n + 1 \in 1..n + 1
    OBVIOUS
  <2>3. Before(lines, n + 1) = (n + 1) - 1
    BY <1>1, <2>2 DEF Before
  <2>4. Before(lines, n) = n
    BY <2>1 DEF Before
  <2> QED BY <1>1, <2>3, <2>4
<1>2. CASE lines[n + 1] # 0
  <2>1. (\E k \in 1..n + 1 : lines[k] = 0) <=> (\E k \in 1..n : lines[k] = 0)
    <3>1. ASSUME NEW k \in 1..n + 1, lines[k] = 0 PROVE k \in 1..n
      <4>1. k # n + 1
        BY <1>2, <3>1
      <4> QED BY <4>1
    <3>2. \A k \in 1..n : k \in 1..n + 1
      OBVIOUS
    <3> QED BY <3>1, <3>2
  <2>2. Before(lines, n + 1) = Before(lines, n) + 1
    <3>1. CASE \E k \in 1..n : lines[k] = 0
      <4>1. Before(lines, n + 1) = (n + 1) - 1 /\ Before(lines, n) = n - 1
        BY <2>1, <3>1 DEF Before
      <4> QED BY <4>1
    <3>2. CASE ~\E k \in 1..n : lines[k] = 0
      BY <2>1, <3>2 DEF Before
    <3> QED BY <3>1, <3>2
  <2>3. lines[n + 1] = Before(lines, n + 1)
    BY <1>2 DEF EventsInOrder
  <2> QED BY <1>2, <2>2, <2>3
<1> QED BY <1>1, <1>2

LEMMA BeforeRises ==
  ASSUME NEW lines, NEW m \in Nat, NEW n \in Nat, m <= n
  PROVE  Before(lines, m) <= Before(lines, n)
<1>1. CASE \E k \in 1..m : lines[k] = 0
  <2>1. \E k \in 1..n : lines[k] = 0
    BY <1>1
  <2>2. Before(lines, m) = m - 1 /\ Before(lines, n) = n - 1
    BY <1>1, <2>1 DEF Before
  <2> QED BY <2>2
<1>2. CASE ~\E k \in 1..m : lines[k] = 0
  <2>1. Before(lines, m) = m
    BY <1>2 DEF Before
  <2>2. CASE \E k \in 1..n : lines[k] = 0
    <3>1. PICK k \in 1..n : lines[k] = 0
      BY <2>2
    <3>2. ~(k \in 1..m)
      BY <1>2, <3>1
    <3>3. m <= n - 1
      BY <3>2
    <3> QED BY <2>1, <2>2, <3>3 DEF Before
  <2>3. CASE ~\E k \in 1..n : lines[k] = 0
    BY <2>1, <2>3 DEF Before
  <2> QED BY <2>2, <2>3
<1> QED BY <1>1, <1>2

(* The first lines of a file are in their order too. *)
LEMMA PrefixInOrder ==
  ASSUME NEW lines \in Seq(Nat), EventsInOrder(lines), NEW first \in Seq(Nat), Len(first) <= Len(lines),
         \A i \in 1..Len(first) : first[i] = lines[i]
  PROVE  EventsInOrder(first) /\ \A n \in 0..Len(first) : Before(first, n) = Before(lines, n)
<1>1. DOMAIN first = 1..Len(first) /\ DOMAIN lines = 1..Len(lines) /\ DOMAIN first \subseteq DOMAIN lines
  OBVIOUS
<1>2. ASSUME NEW n \in 0..Len(first) PROVE Before(first, n) = Before(lines, n)
  <2>1. \A k \in 1..n : first[k] = lines[k]
    OBVIOUS
  <2> QED BY <2>1 DEF Before
<1>3. \A i, j \in DOMAIN first : first[i] = 0 /\ first[j] = 0 => i = j
  BY <1>1 DEF EventsInOrder
<1>4. ASSUME NEW n \in DOMAIN first, first[n] # 0 PROVE first[n] = Before(first, n)
  <2>1. first[n] = lines[n] /\ n \in DOMAIN lines /\ n \in 0..Len(first)
    BY <1>1
  <2>2. lines[n] = Before(lines, n)
    BY <1>4, <2>1 DEF EventsInOrder
  <2> QED BY <1>2, <2>1, <2>2
<1> QED BY <1>2, <1>3, <1>4 DEF EventsInOrder

(* What the page makes of a file. *)
LEMMA FramesAre ==
  ASSUME NEW lines \in Seq(Nat), EventsInOrder(lines), FeedEvents \in Nat, Before(lines, Len(lines)) <= FeedEvents
  PROVE  TheFeed!Frames(lines) = Run(0, Before(lines, Len(lines)))
<1> DEFINE f == [n \in 0..Len(lines) |-> Run(0, Before(lines, n))]
<1>1. ASSUME NEW n \in 0..Len(lines) PROVE f[n] = KeptAt(lines, 1..FeedEvents, f, n)
  <2>1. CASE n = 0
    <3>1. Before(lines, 0) = 0
      <4>1. Before(lines, 0) \in 0..0
        BY BeforeIs
      <4> QED BY <4>1
    <3>2. Run(0, 0) = <<>>
      BY DEF Run
    <3> QED BY <2>1, <3>1, <3>2 DEF KeptAt
  <2>2. CASE n # 0
    <3>1. n - 1 \in Nat /\ n - 1 \in 0..Len(lines) /\ (n - 1) + 1 = n /\ n \in DOMAIN lines
            /\ 1..n - 1 \subseteq DOMAIN lines
      BY <2>2
    <3>2. PICK b : b = Before(lines, n - 1)
      OBVIOUS
    <3>3. b \in Nat
      BY <3>1, <3>2, BeforeIs
    <3>4. /\ lines[n] = 0 => Before(lines, n) = b
          /\ lines[n] # 0 => Before(lines, n) = b + 1 /\ lines[n] = b + 1
      BY <3>1, <3>2, BeforeNext
    <3>5. f[n - 1] = Run(0, b)
      BY <3>1, <3>2
    <3>6. CASE lines[n] = 0
      <4>1. lines[n] \notin 1..FeedEvents
        BY <3>6
      <4> QED BY <2>2, <3>4, <3>5, <3>6, <4>1 DEF KeptAt
    <3>7. CASE lines[n] # 0
      <4>1. Before(lines, n) <= Before(lines, Len(lines)) /\ Before(lines, Len(lines)) \in Nat
        BY BeforeRises, BeforeIs
      <4>2. lines[n] \in 1..FeedEvents
        BY <3>3, <3>4, <3>7, <4>1
      <4>3. Run(0, b + 1) = Append(Run(0, b), b + 1)
        <5>1. Run(0, b + 1) = [i \in 1..b + 1 |-> 0 + i] /\ Run(0, b) = [i \in 1..b |-> 0 + i]
          BY <3>3 DEF Run
        <5> QED BY <3>3, <5>1
      <4> QED BY <2>2, <3>4, <3>5, <3>7, <4>2, <4>3 DEF KeptAt
    <3> QED BY <3>6, <3>7
  <2> QED BY <2>1, <2>2
<1>2. Kept(lines, 1..FeedEvents, Len(lines), f)
  BY <1>1 DEF Kept
<1>3. TheFeed!Where(lines, 1..FeedEvents) = f[Len(lines)]
  BY <1>2, WhereIs
<1> QED BY <1>3 DEF TheFeed!Frames

(* Steps that leave the page and what it missed alone. *)
LEMMA PageStays ==
  ASSUME AloneInv, UNCHANGED <<vf_mode, vf_page, vf_missed>>, vf_issued' \in Seq(Nat),
           Len(vf_issued) <= Len(vf_issued'),
         vf_file # <<>> => vf_file' # <<>>
  PROVE  PageInv'
<1>1. vf_page.head \in Nat /\ Len(vf_issued) \in Nat /\ Len(vf_issued') \in Nat
  BY DEF AloneInv, FeedTypes, PageSet
<1>2. PageInv /\ Behind' = Behind
  BY DEF AloneInv, Behind
<1>3. Folds => Folds'
  BY <1>2 DEF Folds
<1>4. vf_page.head <= Len(vf_issued) => vf_page.head <= Len(vf_issued')
  BY <1>1
<1> QED BY <1>2, <1>3, <1>4 DEF PageInv, Gone

(* Steps that leave alone what is emitted too. *)
LEMMA WireStays ==
  ASSUME AloneInv, UNCHANGED <<vf_page, vf_missed, vf_issued, vf_wire>>
  PROVE  WireInv' /\ IdsInv'
<1>1. WireInv /\ IdsInv /\ Behind' = Behind
  BY DEF AloneInv, Behind
<1>2. Sends => Sends'
  BY <1>1 DEF Sends
<1> QED BY <1>1, <1>2 DEF WireInv, IdsInv

(* A line is added to the file. *)
LEMMA WritesKeeps ==
  ASSUME FeedAssumption, Counters, Alone, AloneInv, TheFeed!Writes
  PROVE  AloneInv'
<1>1. FeedTypes /\ FileInv /\ vf_mode = "tail" /\ vf_mode' = vf_mode
  BY DEF AloneInv, TheFeed!Writes, Counters, FeedAssumption, Alone
<1>2. UNCHANGED <<vf_page, vf_missed, vf_issued, vf_wire, vf_tailed, vf_post>>
  BY DEF TheFeed!Writes
<1>3. PICK line \in Nat : /\ vf_file' = Append(vf_file, line)
                          /\ line = 0 => 0 \notin TheFeed!ToSet(vf_file) /\ vf_written' = vf_written
                               /\ vf_ending' = vf_ending
                          /\ line # 0 => line = vf_written + 1 /\ vf_written' = vf_written + 1
                               /\ vf_ending' = "half"
  <2>1. vf_written \in Nat
    BY <1>1 DEF FeedTypes
  <2>2. CASE vf_file' = Append(vf_file, vf_written + 1) /\ vf_written' = vf_written + 1 /\ vf_ending' = "half"
    <3>1. vf_written + 1 \in Nat /\ vf_written + 1 # 0
      BY <2>1
    <3> QED BY <2>2, <3>1
  <2>3. CASE vf_file' = Append(vf_file, 0) /\ 0 \notin TheFeed!ToSet(vf_file) /\ UNCHANGED <<vf_written, vf_ending>>
    <3>1. 0 \in Nat
      OBVIOUS
    <3> QED BY <2>3, <3>1
  <2> QED BY <2>2, <2>3 DEF TheFeed!Writes
<1>4. PICK n : n = Len(vf_file)
  OBVIOUS
<1>5. /\ vf_file \in Seq(Nat) /\ n \in Nat /\ vf_file' \in Seq(Nat) /\ Len(vf_file') = n + 1
           /\ DOMAIN vf_file = 1..n
      /\ DOMAIN vf_file' = 1..n + 1 /\ vf_file' # <<>> /\ vf_file'[n + 1] = line
           /\ \A i \in 1..n : vf_file'[i] = vf_file[i]
  BY <1>1, <1>3, <1>4 DEF FeedTypes
<1>6. /\ EventsInOrder(vf_file) /\ vf_ending = "done" /\ vf_tailed \in Nat /\ vf_tailed <= n
           /\ vf_written = Before(vf_file, n)
      /\ vf_written \in Nat /\ vf_written < FeedEvents /\ Len(vf_issued) = Before(vf_file, vf_tailed)
  BY <1>1, <1>4 DEF FileInv, FeedTypes, TheFeed!Writes, TheFeed!Ended
<1>7. \A m \in 0..n : Before(vf_file', m) = Before(vf_file, m)
  <2> SUFFICES ASSUME NEW m \in 0..n PROVE Before(vf_file', m) = Before(vf_file, m)
    OBVIOUS
  <2>1. \A k \in 1..m : vf_file'[k] = vf_file[k]
    BY <1>5
  <2> QED BY <2>1 DEF Before
<1>8. line = 0 => \A k \in 1..n : vf_file[k] # 0
  <2> SUFFICES ASSUME line = 0, NEW k \in 1..n, vf_file[k] = 0 PROVE FALSE
    OBVIOUS
  <2>1. 0 \in TheFeed!ToSet(vf_file)
    BY <1>5 DEF TheFeed!ToSet
  <2> QED BY <1>3, <2>1
<1>9. Before(vf_file', n + 1) = vf_written'
  <2>1. CASE line = 0
    <3>1. n + 1 \in 1..n + 1 /\ vf_file'[n + 1] = 0
      BY <1>5, <2>1
    <3>2. Before(vf_file', n + 1) = (n + 1) - 1
      BY <3>1 DEF Before
    <3>3. Before(vf_file, n) = n
      BY <1>8, <2>1 DEF Before
    <3> QED BY <1>3, <1>5, <1>6, <2>1, <3>2, <3>3
  <2>2. CASE line # 0
    <3>1. (\E k \in 1..n + 1 : vf_file'[k] = 0) <=> (\E k \in 1..n : vf_file[k] = 0)
      <4>1. ASSUME NEW k \in 1..n + 1, vf_file'[k] = 0 PROVE k \in 1..n /\ vf_file[k] = 0
        <5>1. k # n + 1
          BY <1>5, <2>2, <4>1
        <5>2. k \in 1..n
          BY <1>5, <5>1
        <5> QED BY <1>5, <4>1, <5>2
      <4>2. ASSUME NEW k \in 1..n, vf_file[k] = 0 PROVE k \in 1..n + 1 /\ vf_file'[k] = 0
        BY <1>5, <4>2
      <4> QED BY <4>1, <4>2
    <3>2. Before(vf_file', n + 1) = Before(vf_file, n) + 1
      <4>1. CASE \E k \in 1..n : vf_file[k] = 0
        <5>1. Before(vf_file', n + 1) = (n + 1) - 1 /\ Before(vf_file, n) = n - 1
          BY <3>1, <4>1 DEF Before
        <5> QED BY <1>5, <5>1
      <4>2. CASE ~\E k \in 1..n : vf_file[k] = 0
        BY <3>1, <4>2 DEF Before
      <4> QED BY <4>1, <4>2
    <3> QED BY <1>3, <1>6, <2>2, <3>2
  <2> QED BY <2>1, <2>2
<1>10. EventsInOrder(vf_file')
  <2>1. ASSUME NEW i \in 1..n + 1, NEW j \in 1..n + 1, vf_file'[i] = 0, vf_file'[j] = 0 PROVE i = j
    <3>1. CASE line = 0
      <4>1. \A k \in 1..n : vf_file'[k] # 0
        BY <1>5, <1>8, <3>1
      <4>2. i \notin 1..n /\ j \notin 1..n
        BY <2>1, <4>1
      <4> QED BY <1>5, <4>2
    <3>2. CASE line # 0
      <4>1. i # n + 1 /\ j # n + 1
        BY <1>5, <2>1, <3>2
      <4>2. i \in 1..n /\ j \in 1..n
        BY <1>5, <4>1
      <4>3. vf_file[i] = 0 /\ vf_file[j] = 0
        BY <1>5, <2>1, <4>2
      <4> QED BY <1>5, <1>6, <4>2, <4>3 DEF EventsInOrder
    <3> QED BY <3>1, <3>2
  <2>2. ASSUME NEW m \in 1..n + 1, vf_file'[m] # 0 PROVE vf_file'[m] = Before(vf_file', m)
    <3>1. CASE m = n + 1
      BY <1>3, <1>5, <1>9, <2>2, <3>1
    <3>2. CASE m # n + 1
      <4>1. m \in 1..n /\ m \in 0..n
        BY <1>5, <3>2
      <4>2. vf_file[m] = Before(vf_file, m)
        BY <1>5, <1>6, <2>2, <4>1 DEF EventsInOrder
      <4> QED BY <1>5, <1>7, <4>1, <4>2
    <3> QED BY <3>1, <3>2
  <2> QED BY <1>5, <2>1, <2>2 DEF EventsInOrder
<1>11. FileInv'
  <2>1. vf_tailed <= TheFeed!Ended'
    <3>1. TheFeed!Ended' = IF vf_ending' = "done" THEN n + 1 ELSE (n + 1) - 1
      BY <1>5 DEF TheFeed!Ended
    <3> QED BY <1>5, <1>6, <3>1
  <2>2. vf_written' <= FeedEvents
    BY <1>3, <1>6, FeedAssumption DEF FeedAssumption
  <2>3. Len(vf_issued) = Before(vf_file', vf_tailed)
    BY <1>5, <1>6, <1>7
  <2>4. vf_post' = TheFeed!NoPost
    BY <1>1, <1>2 DEF FileInv
  <2> QED BY <1>1, <1>2, <1>5, <1>9, <1>10, <2>1, <2>2, <2>3, <2>4 DEF FileInv
<1>12. FeedTypes'
  <2>1. vf_written' \in Nat /\ vf_ending' \in {"half", "whole", "done"}
    BY <1>3, <1>6
  <2> QED BY <1>1, <1>2, <1>5, <2>1 DEF FeedTypes
<1>13. vf_issued' \in Seq(Nat) /\ Len(vf_issued) <= Len(vf_issued')
  BY <1>1, <1>2 DEF FeedTypes
<1>14. PageInv' /\ WireInv' /\ IdsInv'
  BY <1>1, <1>2, <1>5, <1>13, PageStays, WireStays
<1> QED BY <1>11, <1>12, <1>14 DEF AloneInv

(* More of the last line is there. *)
LEMMA WritesOnKeeps ==
  ASSUME AloneInv, TheFeed!WritesOn
  PROVE  AloneInv'
<1>1. FeedTypes /\ FileInv
  BY DEF AloneInv
<1>2. UNCHANGED <<vf_mode, vf_file, vf_tailed, vf_issued, vf_post, vf_page, vf_wire, vf_missed, vf_written>>
        /\ vf_ending # "done"
        /\ vf_ending' \in {"whole", "done"}
  BY DEF TheFeed!WritesOn
<1>3. TheFeed!Ended <= TheFeed!Ended' /\ TheFeed!Ended \in Int /\ TheFeed!Ended' \in Int
  <2>1. Len(vf_file) \in Nat
    BY <1>1 DEF FeedTypes
  <2> QED BY <1>2, <2>1 DEF TheFeed!Ended
<1>4. vf_tailed \in Nat
  BY <1>1 DEF FeedTypes
<1>5. FileInv'
  <2>1. CASE vf_mode = "tail"
    <3>1. vf_tailed <= TheFeed!Ended' /\ vf_file # <<>>
      BY <1>1, <1>2, <1>3, <1>4, <2>1 DEF FileInv
    <3> QED BY <1>1, <1>2, <2>1, <3>1 DEF FileInv
  <2>2. CASE vf_mode # "tail"
    BY <1>1, <1>2, <2>2 DEF FileInv
  <2> QED BY <2>1, <2>2
<1>6. FeedTypes'
  BY <1>1, <1>2 DEF FeedTypes
<1>7. vf_issued' \in Seq(Nat) /\ Len(vf_issued) <= Len(vf_issued')
  BY <1>1, <1>2 DEF FeedTypes
<1>8. PageInv' /\ WireInv' /\ IdsInv'
  BY <1>2, <1>7, PageStays, WireStays
<1> QED BY <1>5, <1>6, <1>8 DEF AloneInv

(* The tail hands on the next line. *)
LEMMA TailKeeps ==
  ASSUME FeedAssumption, Counters, Alone, AloneInv, TheFeed!TailEmits
  PROVE  AloneInv'
<1>1. FeedTypes /\ FileInv
  BY DEF AloneInv
<1>2. UNCHANGED <<vf_mode, vf_file, vf_ending, vf_post, vf_page, vf_missed, vf_written>>
        /\ vf_tailed < TheFeed!Ended /\ vf_tailed' = vf_tailed + 1
        /\ TheFeed!emit(IF vf_file[vf_tailed + 1] = 0 THEN <<>> ELSE <<vf_file[vf_tailed + 1]>>)
  BY DEF TheFeed!TailEmits
<1>3. vf_tailed \in Nat /\ Len(vf_file) \in Nat /\ DOMAIN vf_file = 1..Len(vf_file) /\ vf_file \in Seq(Nat)
  BY <1>1 DEF FeedTypes
<1>4. vf_mode = "tail"
  <2>1. vf_mode # "ingest"
    <3> SUFFICES ASSUME vf_mode = "ingest" PROVE FALSE
      OBVIOUS
    <3>1. vf_file = <<>> /\ vf_ending = "done"
      BY <1>1 DEF FileInv
    <3>2. TheFeed!Ended = 0
      BY <3>1 DEF TheFeed!Ended
    <3> QED BY <1>2, <1>3, <3>2
  <2> QED BY <2>1 DEF Counters, FeedAssumption, Alone
<1>5. EventsInOrder(vf_file) /\ Len(vf_issued) = Before(vf_file, vf_tailed) /\ TheFeed!Ended \in Int
        /\ TheFeed!Ended <= Len(vf_file)
  BY <1>1, <1>3, <1>4 DEF FileInv, TheFeed!Ended
<1>6. vf_tailed + 1 \in DOMAIN vf_file /\ 1..vf_tailed \subseteq DOMAIN vf_file
  BY <1>2, <1>3, <1>5
<1>7. PICK n : n = TheFeed!newest
  OBVIOUS
<1>8. n = Len(vf_issued) /\ n = Before(vf_file, vf_tailed) /\ n \in Nat
  BY <1>3, <1>5, <1>7, BeforeIs DEF TheFeed!newest
<1>9. PICK k \in Nat : /\ k = IF vf_file[vf_tailed + 1] = 0 THEN 0 ELSE 1
                       /\ Before(vf_file, vf_tailed + 1) = n + k
                       /\ (IF vf_file[vf_tailed + 1] = 0 THEN <<>> ELSE <<vf_file[vf_tailed + 1]>>) = Run(n, n + k)
  <2>1. CASE vf_file[vf_tailed + 1] = 0
    <3>1. Before(vf_file, vf_tailed + 1) = n + 0
      BY <1>3, <1>5, <1>6, <1>8, <2>1, BeforeNext
    <3>2. (n + 0) - n = 0
      BY <1>8
    <3>3. Run(n, n + 0) = <<>>
      BY <3>2 DEF Run
    <3>4. 0 \in Nat
      OBVIOUS
    <3> QED BY <2>1, <3>1, <3>3, <3>4
  <2>2. CASE vf_file[vf_tailed + 1] # 0
    <3>1. Before(vf_file, vf_tailed + 1) = n + 1 /\ vf_file[vf_tailed + 1] = n + 1
      BY <1>3, <1>5, <1>6, <1>8, <2>2, BeforeNext
    <3>2. (n + 1) - n = 1
      BY <1>8
    <3>3. Run(n, n + 1) = [i \in 1..1 |-> n + i]
      BY <3>2 DEF Run
    <3>4. [i \in 1..1 |-> n + i] = <<n + 1>>
      <4>1. 1..1 = {1} /\ DOMAIN <<n + 1>> = {1}
        OBVIOUS
      <4>2. [i \in 1..1 |-> n + i] \in Seq(Nat) /\ Len([i \in 1..1 |-> n + i]) = 1 /\ <<n + 1>> \in Seq(Nat)
        BY <1>8
      <4>3. \A i \in 1..1 : [j \in 1..1 |-> n + j][i] = <<n + 1>>[i]
        BY <4>1
      <4> QED BY <4>2, <4>3, SeqEqual
    <3> QED BY <2>2, <3>1, <3>3, <3>4
  <2> QED BY <2>1, <2>2
<1>10. TheFeed!emit(Run(TheFeed!newest, TheFeed!newest + k))
  BY <1>2, <1>7, <1>9
<1>11. /\ vf_issued' \in Seq(Nat) /\ Len(vf_issued') = Len(vf_issued) + k /\ IdsInv'
       /\ vf_wire' \in Seq([id : Nat, event : Nat]) /\ WireInv'
  BY <1>2, <1>10, Emits
<1>12. FileInv'
  <2>1. Len(vf_issued') = Before(vf_file, vf_tailed + 1) /\ vf_tailed + 1 <= TheFeed!Ended
    BY <1>2, <1>3, <1>5, <1>8, <1>9, <1>11
  <2>2. TheFeed!Ended' = TheFeed!Ended
    BY <1>2 DEF TheFeed!Ended
  <2> QED BY <1>1, <1>2, <1>4, <2>1, <2>2 DEF FileInv
<1>13. FeedTypes'
  <2>1. vf_tailed' \in Nat
    BY <1>2, <1>3
  <2> QED BY <1>1, <1>2, <1>11, <2>1 DEF FeedTypes
<1>14. PageInv'
  <2>1. Len(vf_issued) <= Len(vf_issued')
    <3>1. n <= n + k
      BY <1>8
    <3> QED BY <1>8, <1>11, <3>1
  <2> QED BY <1>2, <1>11, <2>1, PageStays
<1> QED BY <1>11, <1>12, <1>13, <1>14 DEF AloneInv

(* A request of which more is counted. *)
LEMMA ConsumesMore ==
  ASSUME FeedAssumption, Counted(vf_post), NEW next \in PostSet, NEW upto \in Nat,
         vf_post.lines <= upto, upto <= Len(vf_post.body), TheFeed!Consumes(upto, next),
         next.body = vf_post.body, next.ended = vf_post.ended, next.lines = vf_post.lines,
           next.accepted = vf_post.accepted,
         next.rejected = vf_post.rejected, next.at # "ok" \/ upto = Len(vf_post.body),
         next.at = "reading" => upto = next.got \div 2
  PROVE  /\ Counted(vf_post')
         /\ \E good \in Nat : TheFeed!emit([i \in 1..good |-> vf_written + i]) /\ vf_written' = vf_written + good
<1>1. /\ vf_post.body \in Seq({"good", "bad"}) /\ vf_post.lines \in Nat /\ vf_post.accepted \in Nat
      /\ vf_post.accepted = Len(TheFeed!Where(SubSeq(vf_post.body, 1, vf_post.lines), {"good"}))
      /\ vf_post.rejected = vf_post.lines - vf_post.accepted /\ vf_post.body \in FeedBodies
  BY DEF Counted, PostSet, FeedAssumption
<1>2. PICK lines : lines = SubSeq(vf_post.body, vf_post.lines + 1, upto)
  OBVIOUS
<1>3. PICK good : good = Len(TheFeed!Where(lines, {"good"}))
  OBVIOUS
<1>4. /\ TheFeed!emit([i \in 1..good |-> vf_written + i]) /\ vf_written' = vf_written + good
      /\ vf_post' = [next EXCEPT !.lines = upto, !.accepted = @ + good, !.rejected = @ + Len(lines) - good]
  BY <1>2, <1>3 DEF TheFeed!Consumes
<1>5. PICK d \in Nat : d = upto - vf_post.lines
  BY <1>1
<1>6. vf_post.lines + d = upto /\ Len(lines) = d
  BY <1>1, <1>2, <1>5
<1>7. /\ good \in 0..d /\ Len(TheFeed!Where(SubSeq(vf_post.body, 1, vf_post.lines), {"good"})) \in 0..vf_post.lines
      /\ Len(TheFeed!Where(SubSeq(vf_post.body, 1, upto), {"good"}))
           = Len(TheFeed!Where(SubSeq(vf_post.body, 1, vf_post.lines), {"good"})) + good
  <2>1. vf_post.lines + d <= Len(vf_post.body)
    BY <1>6
  <2>2. PICK body : body = vf_post.body
    OBVIOUS
  <2>3. PICK m : m = vf_post.lines
    OBVIOUS
  <2>4. body \in Seq({"good", "bad"}) /\ m \in Nat /\ m + d <= Len(body)
    BY <1>1, <2>1, <2>2, <2>3
  <2>5. /\ Len(TheFeed!Where(SubSeq(body, 1, m), {"good"})) \in 0..m
        /\ Len(TheFeed!Where(SubSeq(body, m + 1, m + d), {"good"})) \in 0..d
        /\ Len(TheFeed!Where(SubSeq(body, 1, m + d), {"good"}))
             = Len(TheFeed!Where(SubSeq(body, 1, m), {"good"})) + Len(TheFeed!Where(SubSeq(body, m + 1, m + d), {"good"}))
    <3>1. PICK X : X = {"good", "bad"}
      OBVIOUS
    <3>2. PICK S : S = {"good"}
      OBVIOUS
    <3>3. body \in Seq(X)
      BY <2>4, <3>1
    <3>4. Splits(body, S, m, d)
      BY <2>4, <3>3, WhereAdds
    <3> QED BY <3>2, <3>4 DEF Splits
  <2> QED BY <1>2, <1>3, <1>6, <2>2, <2>3, <2>5
<1>8. /\ vf_post'.at = next.at /\ vf_post'.body = vf_post.body /\ vf_post'.ended = vf_post.ended
           /\ vf_post'.got = next.got
      /\ vf_post'.lines = upto /\ vf_post'.accepted = vf_post.accepted + good
      /\ vf_post'.rejected = vf_post.rejected + d - good
  BY <1>4, <1>6 DEF PostSet
<1>9. vf_post.accepted + good \in Nat /\ vf_post.accepted <= vf_post.lines /\ vf_post.rejected + d - good \in Nat
        /\ vf_post.rejected + d - good = upto - (vf_post.accepted + good)
  <2>1. PICK a : a = vf_post.accepted
    OBVIOUS
  <2>2. PICK m : m = vf_post.lines
    OBVIOUS
  <2>3. PICK n : n = vf_post.rejected
    OBVIOUS
  <2>4. a \in Nat /\ m \in Nat /\ n = m - a /\ m + d = upto
    BY <1>1, <1>6, <2>1, <2>2, <2>3
  <2>5. a <= m /\ good \in 0..d
    BY <1>1, <1>7, <2>1, <2>2
  <2>6. a + good \in Nat /\ n + d - good \in Nat /\ n + d - good = upto - (a + good)
    BY <2>4, <2>5
  <2> QED BY <2>1, <2>2, <2>3, <2>5, <2>6
<1>10. vf_post' \in PostSet
  <2>1. vf_post.accepted + good \in Nat /\ vf_post.rejected + Len(lines) - good \in Nat
    BY <1>6, <1>9
  <2>2. vf_post' = [[[next EXCEPT !.lines = upto] EXCEPT !.accepted = vf_post.accepted + good]
                    EXCEPT !.rejected = vf_post.rejected + Len(lines) - good]
    BY <1>4 DEF PostSet
  <2>3. [next EXCEPT !.lines = upto] \in PostSet
    BY DEF PostSet
  <2>4. [[next EXCEPT !.lines = upto] EXCEPT !.accepted = vf_post.accepted + good] \in PostSet
    BY <2>1, <2>3 DEF PostSet
  <2> QED BY <2>1, <2>2, <2>4 DEF PostSet
<1>11. TheFeed!Total(vf_post') = TheFeed!Total(vf_post)
  BY <1>8 DEF TheFeed!Total
<1>12. Counted(vf_post')
  BY <1>1, <1>7, <1>8, <1>9, <1>10, <1>11 DEF Counted
<1>13. good \in Nat
  BY <1>7
<1> QED BY <1>4, <1>12, <1>13

(* How many lines a chunk has ended. *)
LEMMA Halves ==
  ASSUME NEW m \in Nat, NEW n \in Nat, m <= n
  PROVE  m \div 2 \in Nat /\ n \div 2 \in Nat /\ m \div 2 <= n \div 2
         /\ \A k \in Nat : n <= 2 * k => n \div 2 <= k
OBVIOUS

(* A step of a request counts it, and emits the next events if any. *)
LEMMA RequestKeeps ==
  ASSUME FeedAssumption, PostInv, TheFeed!Posts \/ TheFeed!IngestReads \/ TheFeed!IngestEnds \/ TheFeed!IsAnswered
  PROVE  /\ PostInv'
         /\ \/ UNCHANGED <<vf_issued, vf_wire, vf_written>>
            \/ vf_post # TheFeed!NoPost /\ \E good \in Nat : TheFeed!emit([i \in 1..good |-> vf_written + i])
                 /\ vf_written' = vf_written + good
<1>1. CASE TheFeed!Posts
  <2>1. PICK body \in FeedBodies, ended \in BOOLEAN, at \in {"reading", "too_large"} :
          vf_post' = [at |-> at, body |-> body, ended |-> ended, got |-> 0, lines |-> 0, accepted |-> 0, rejected |-> 0]
    <3>1. PICK body \in FeedBodies, ended \in BOOLEAN, declared \in BOOLEAN :
            LET p == [at |-> "reading", body |-> body, ended |-> ended, got |-> 0, lines |-> 0,
                      accepted |-> 0, rejected |-> 0]
            IN  vf_post' = IF declared /\ TheFeed!Total(p) > FeedLimit THEN [p EXCEPT !.at = "too_large"] ELSE p
      BY <1>1 DEF TheFeed!Posts
    <3> QED BY <3>1
  <2>2. vf_post' \in PostSet
    BY <2>1 DEF PostSet
  <2>3. body \in Seq({"good", "bad"}) /\ SubSeq(body, 1, 0) = <<>>
    BY DEF FeedAssumption
  <2>4. TheFeed!Where(<<>>, {"good"}) = <<>>
    <3>1. PICK f : Kept(<<>>, {"good"}, 0, f)
      <4>1. 0 \in Nat
        OBVIOUS
      <4> QED BY <4>1, KeptExists
    <3>2. f[0] = <<>>
      <4>1. 0 \in 0..0
        OBVIOUS
      <4> QED BY <3>1, <4>1 DEF Kept, KeptAt
    <3>3. Len(<<>>) = 0
      OBVIOUS
    <3> QED BY <3>1, <3>2, <3>3, WhereIs
  <2>5. /\ vf_post'.at = at /\ vf_post'.body = body /\ vf_post'.got = 0 /\ vf_post'.lines = 0
             /\ vf_post'.accepted = 0 /\ vf_post'.rejected = 0
        /\ vf_post'.ended = ended
    BY <2>1
  <2>7. Counted(vf_post')
    <3>1. Len(body) \in Nat
      BY <2>3
    <3>2. 0 = 0 \div 2
      OBVIOUS
    <3>3. Len(TheFeed!Where(SubSeq(body, 1, 0), {"good"})) = 0
      <4>1. TheFeed!Where(SubSeq(body, 1, 0), {"good"}) = <<>>
        BY <2>3, <2>4, Zenon
      <4>2. Len(<<>>) = 0
        OBVIOUS
      <4> QED BY <4>1, <4>2, Zenon
    <3> QED BY <2>2, <2>5, <3>1, <3>2, <3>3 DEF Counted
  <2> QED BY <1>1, <2>7 DEF PostInv, TheFeed!Posts
<1>2. CASE TheFeed!IngestReads
  <2>1. vf_post # TheFeed!NoPost /\ Counted(vf_post) /\ vf_post.at = "reading" /\ vf_post \in PostSet
    BY <1>2 DEF TheFeed!IngestReads, TheFeed!NoPost, PostInv, Counted
  <2>2. PICK got \in vf_post.got + 1..TheFeed!Total(vf_post) :
          \/ vf_post' = [vf_post EXCEPT !.at = "too_large"] /\ UNCHANGED <<vf_issued, vf_wire, vf_written>>
          \/ TheFeed!Consumes(got \div 2, [vf_post EXCEPT !.got = got])
    BY <1>2 DEF TheFeed!IngestReads
  <2>3. CASE vf_post' = [vf_post EXCEPT !.at = "too_large"] /\ UNCHANGED <<vf_issued, vf_wire, vf_written>>
    <3>1. vf_post' \in PostSet /\ vf_post'.at = "too_large" /\ vf_post'.lines = vf_post.lines
            /\ vf_post'.body = vf_post.body
            /\ vf_post'.accepted = vf_post.accepted /\ vf_post'.rejected = vf_post.rejected
      BY <2>1, <2>3 DEF PostSet
    <3>2. Counted(vf_post')
      BY <2>1, <3>1 DEF Counted
    <3> QED BY <2>3, <3>2 DEF PostInv
  <2>4. CASE TheFeed!Consumes(got \div 2, [vf_post EXCEPT !.got = got])
    <3>1. /\ vf_post.body \in Seq({"good", "bad"}) /\ Len(vf_post.body) \in Nat /\ vf_post.got \in Nat
               /\ TheFeed!Total(vf_post) \in Int
          /\ TheFeed!Total(vf_post) <= 2 * Len(vf_post.body) /\ vf_post.lines = vf_post.got \div 2
      BY <2>1 DEF Counted, PostSet, FeedAssumption, TheFeed!Total
    <3>2. got \in Nat /\ vf_post.got <= got /\ got <= 2 * Len(vf_post.body) /\ got <= TheFeed!Total(vf_post)
      BY <2>2, <3>1
    <3>3. got \div 2 \in Nat /\ vf_post.lines <= got \div 2 /\ got \div 2 <= Len(vf_post.body)
      BY <3>1, <3>2, Halves
    <3>4. PICK next : next = [vf_post EXCEPT !.got = got]
      OBVIOUS
    <3>5. next \in PostSet /\ next.body = vf_post.body /\ next.ended = vf_post.ended /\ next.lines = vf_post.lines
            /\ next.accepted = vf_post.accepted /\ next.rejected = vf_post.rejected /\ next.at = "reading"
                 /\ next.got = got
      BY <2>1, <3>2, <3>4 DEF PostSet
    <3> QED BY <2>1, <2>4, <3>2, <3>3, <3>4, <3>5, ConsumesMore DEF PostInv
  <2> QED BY <2>2, <2>3, <2>4
<1>3. CASE TheFeed!IngestEnds
  <2>1. vf_post # TheFeed!NoPost /\ Counted(vf_post) /\ vf_post.at = "reading" /\ vf_post \in PostSet
    BY <1>3 DEF TheFeed!IngestEnds, TheFeed!NoPost, PostInv, Counted
  <2>2. CASE vf_post' = [vf_post EXCEPT !.at = "bad_request"] /\ UNCHANGED <<vf_issued, vf_wire, vf_written>>
    <3>1. vf_post' \in PostSet /\ vf_post'.at = "bad_request" /\ vf_post'.lines = vf_post.lines
            /\ vf_post'.body = vf_post.body
            /\ vf_post'.accepted = vf_post.accepted /\ vf_post'.rejected = vf_post.rejected
      BY <2>1, <2>2 DEF PostSet
    <3>2. Counted(vf_post')
      BY <2>1, <3>1 DEF Counted
    <3> QED BY <2>2, <3>2 DEF PostInv
  <2>3. CASE TheFeed!Consumes(Len(vf_post.body), [vf_post EXCEPT !.at = "ok"])
    <3>1. vf_post.body \in Seq({"good", "bad"}) /\ Len(vf_post.body) \in Nat /\ vf_post.lines <= Len(vf_post.body)
      BY <2>1 DEF Counted, PostSet, FeedAssumption
    <3>2. PICK next : next = [vf_post EXCEPT !.at = "ok"]
      OBVIOUS
    <3>3. next \in PostSet /\ next.body = vf_post.body /\ next.ended = vf_post.ended /\ next.lines = vf_post.lines
            /\ next.accepted = vf_post.accepted /\ next.rejected = vf_post.rejected /\ next.at = "ok"
      BY <2>1, <3>2 DEF PostSet
    <3>4. TheFeed!Consumes(Len(vf_post.body), next)
      BY <2>3, <3>2
    <3>5. next.at # "reading" /\ Len(vf_post.body) <= Len(vf_post.body)
      BY <3>1, <3>3
    <3>6. /\ Counted(vf_post')
          /\ \E good \in Nat : TheFeed!emit([i \in 1..good |-> vf_written + i]) /\ vf_written' = vf_written + good
      BY <2>1, <3>1, <3>3, <3>4, <3>5, ConsumesMore
    <3> QED BY <2>1, <3>6 DEF PostInv
  <2> QED BY <1>3, <2>2, <2>3 DEF TheFeed!IngestEnds
<1>4. CASE TheFeed!IsAnswered
  BY <1>4 DEF TheFeed!IsAnswered, PostInv
<1> QED BY <1>1, <1>2, <1>3, <1>4

LEMMA RequestKeepsAlone ==
  ASSUME FeedAssumption, Counters, PostInv, Alone, AloneInv, TheFeed!Posts \/ TheFeed!IngestReads
           \/ TheFeed!IngestEnds \/ TheFeed!IsAnswered
  PROVE  AloneInv'
<1>1. FeedTypes /\ FileInv
  BY DEF AloneInv
<1>2. UNCHANGED <<vf_mode, vf_file, vf_ending, vf_tailed, vf_page, vf_missed>>
  BY DEF TheFeed!Posts, TheFeed!IngestReads, TheFeed!IngestEnds, TheFeed!IsAnswered
<1>3. vf_mode = "ingest"
  <2>1. vf_mode # "tail"
    <3> SUFFICES ASSUME vf_mode = "tail" PROVE FALSE
      OBVIOUS
    <3>1. vf_post = TheFeed!NoPost
      BY <1>1 DEF FileInv
    <3> QED BY <3>1 DEF TheFeed!Posts, TheFeed!IngestReads, TheFeed!IngestEnds, TheFeed!IsAnswered, TheFeed!NoPost
  <2> QED BY <2>1 DEF Counters, FeedAssumption, Alone
<1>4. Len(vf_issued) = vf_written /\ vf_written \in Nat /\ vf_issued \in Seq(Nat)
  BY <1>1, <1>3 DEF FileInv, FeedTypes
<1>5. PICK k \in Nat : /\ vf_issued' \in Seq(Nat) /\ Len(vf_issued') = Len(vf_issued) + k /\ IdsInv'
                       /\ vf_wire' \in Seq([id : Nat, event : Nat]) /\ WireInv' /\ vf_written' = vf_written + k
  <2>1. CASE UNCHANGED <<vf_issued, vf_wire, vf_written>>
    <3>1. WireInv' /\ IdsInv'
      BY <1>2, <2>1, WireStays
    <3>2. 0 \in Nat /\ Len(vf_issued) = Len(vf_issued) + 0 /\ vf_written = vf_written + 0
      BY <1>4
    <3> QED BY <1>1, <2>1, <3>1, <3>2 DEF FeedTypes
  <2>2. ASSUME NEW good \in Nat, TheFeed!emit([i \in 1..good |-> vf_written + i]), vf_written' = vf_written + good
        PROVE  /\ vf_issued' \in Seq(Nat) /\ Len(vf_issued') = Len(vf_issued) + good /\ IdsInv'
               /\ vf_wire' \in Seq([id : Nat, event : Nat]) /\ WireInv'
    <3>1. TheFeed!newest = vf_written /\ (vf_written + good) - vf_written = good
      BY <1>4 DEF TheFeed!newest
    <3>2. Run(TheFeed!newest, TheFeed!newest + good) = [i \in 1..good |-> vf_written + i]
      BY <3>1 DEF Run
    <3> QED BY <1>2, <2>2, <3>2, Emits
  <2> QED BY <2>1, <2>2, RequestKeeps
<1>6. FeedTypes'
  <2>1. vf_written' \in Nat
    BY <1>4, <1>5
  <2> QED BY <1>1, <1>2, <1>5, <2>1 DEF FeedTypes
<1>7. FileInv'
  <2>1. Len(vf_issued') = vf_written'
    BY <1>4, <1>5
  <2> QED BY <1>1, <1>2, <1>3, <2>1 DEF FileInv
<1>8. PageInv'
  <2>1. Len(vf_issued) <= Len(vf_issued')
    BY <1>4, <1>5
  <2> QED BY <1>2, <1>5, <2>1, PageStays
<1> QED BY <1>5, <1>6, <1>7, <1>8 DEF AloneInv

(* The numbers that the ring holds. *)
LEMMA RingIs ==
  ASSUME FeedAssumption, NEW n \in Nat, TheFeed!newest = n
  PROVE  /\ Gone(n) \in Nat /\ Gone(n) <= n
         /\ TheFeed!ring = [i \in 1..n - Gone(n) |-> Gone(n) + i] /\ DOMAIN TheFeed!ring = 1..n - Gone(n)
              /\ Len(TheFeed!ring) = n - Gone(n)
<1>1. FeedBuffer \in Nat
  BY DEF FeedAssumption
<1>2. Gone(n) \in Nat /\ Gone(n) <= n /\ n - Gone(n) = (IF n < FeedBuffer THEN n ELSE FeedBuffer)
  BY <1>1 DEF Gone, TheFeed!Bound
<1>3. TheFeed!ring = [i \in 1..n - Gone(n) |-> Gone(n) + i]
  BY <1>2 DEF TheFeed!ring, TheFeed!newest, Gone
<1>4. n - Gone(n) \in Nat
  BY <1>2
<1> QED BY <1>2, <1>3, <1>4

LEMMA FetchesKeeps ==
  ASSUME FeedAssumption, Counters, Alone, AloneInv, TheFeed!Fetches
  PROVE  AloneInv'
<1>1. FeedTypes /\ FileInv /\ IdsInv /\ PageInv /\ WireInv
  BY DEF AloneInv
<1>2. /\ UNCHANGED <<vf_mode, vf_file, vf_ending, vf_tailed, vf_issued, vf_post, vf_wire, vf_written>>
           /\ vf_page.at = "out"
      /\ vf_page' = [vf_page EXCEPT !.at = IF vf_file = <<>> THEN "takes_ring" ELSE "takes_file", !.head = TheFeed!newest,
                           !.history = IF vf_file = <<>> THEN [i \in DOMAIN TheFeed!ring |-> vf_issued[TheFeed!ring[i]]]
                             ELSE <<>>]
      /\ vf_missed' = IF vf_file = <<>> THEN 1..(TheFeed!newest - Len(TheFeed!ring)) ELSE {}
  BY DEF TheFeed!Fetches
<1>3. PICK n : n = TheFeed!newest
  OBVIOUS
<1>4. n \in Nat /\ n = Len(vf_issued) /\ vf_issued = Run(0, n)
  BY <1>1, <1>3 DEF TheFeed!newest, FeedTypes, IdsInv
<1>5. /\ Gone(n) \in Nat /\ Gone(n) <= n
      /\ TheFeed!ring = [i \in 1..n - Gone(n) |-> Gone(n) + i] /\ DOMAIN TheFeed!ring = 1..n - Gone(n)
           /\ Len(TheFeed!ring) = n - Gone(n)
  BY <1>3, <1>4, RingIs
<1>6. [i \in DOMAIN TheFeed!ring |-> vf_issued[TheFeed!ring[i]]] = Run(Gone(n), n)
  <2>1. \A i \in 1..n : vf_issued[i] = i
    <3>1. 0 \in Nat /\ 0 <= n /\ n - 0 = n /\ \A i \in 1..n : 0 + i = i
      BY <1>4
    <3>2. \A i \in 1..n - 0 : Run(0, n)[i] = 0 + i
      BY <1>4, <3>1, RunIs
    <3> QED BY <1>4, <3>1, <3>2
  <2>2. \A i \in 1..n - Gone(n) : Gone(n) + i \in 1..n
    BY <1>4, <1>5
  <2>3. \A i \in 1..n - Gone(n) : vf_issued[TheFeed!ring[i]] = Gone(n) + i
    BY <1>5, <2>1, <2>2
  <2> QED BY <1>5, <2>3 DEF Run
<1>7. n - Len(TheFeed!ring) = Gone(n)
  <2>1. \A g \in Nat : n - (n - g) = g
    BY <1>4
  <2>2. Gone(n) \in Nat /\ Len(TheFeed!ring) = n - Gone(n)
    BY <1>5
  <2>3. n - (n - Gone(n)) = Gone(n)
    BY <2>1, <2>2
  <2> QED BY <2>2, <2>3
<1>8. Run(Gone(n), n) \in Seq(Nat)
  BY <1>4, <1>5, RunIs
<1>9. /\ vf_page'.at = IF vf_file = <<>> THEN "takes_ring" ELSE "takes_file"
      /\ vf_page'.head = n /\ vf_page'.cursor = vf_page.cursor /\ vf_page'.last = vf_page.last
           /\ vf_page'.guard = vf_page.guard
      /\ vf_page'.history = IF vf_file = <<>> THEN Run(Gone(n), n) ELSE <<>>
      /\ vf_page'.folded = vf_page.folded
  BY <1>1, <1>2, <1>3, <1>6 DEF FeedTypes, PageSet
<1>10. vf_page' \in PageSet
  <2>1. PICK h \in Seq(Nat) : h = IF vf_file = <<>> THEN Run(Gone(n), n) ELSE <<>>
    <3>1. <<>> \in Seq(Nat)
      OBVIOUS
    <3> QED BY <1>8, <3>1
  <2>2. vf_page' = [[[vf_page EXCEPT !.at = IF vf_file = <<>> THEN "takes_ring" ELSE "takes_file"] EXCEPT !.head = n] EXCEPT !.history = h]
    BY <1>1, <1>2, <1>3, <1>6, <2>1 DEF FeedTypes, PageSet
  <2>3. [vf_page EXCEPT !.at = IF vf_file = <<>> THEN "takes_ring" ELSE "takes_file"] \in PageSet
    BY <1>1 DEF FeedTypes, PageSet
  <2>4. [[vf_page EXCEPT !.at = IF vf_file = <<>> THEN "takes_ring" ELSE "takes_file"] EXCEPT !.head = n] \in PageSet
    BY <1>4, <2>3 DEF PageSet
  <2> QED BY <2>1, <2>2, <2>4 DEF PageSet
<1>11. vf_missed' = IF vf_file = <<>> THEN 1..Gone(n) ELSE {}
  BY <1>2, <1>3, <1>7
<1>12. FeedTypes'
  <2>1. vf_missed' \subseteq Nat
    BY <1>5, <1>11
  <2> QED BY <1>1, <1>2, <1>10, <2>1 DEF FeedTypes
<1>13. FileInv' /\ IdsInv'
  BY <1>1, <1>2 DEF FileInv, IdsInv, TheFeed!Ended
<1>14. WireInv'
  BY <1>1, <1>2, <1>9 DEF WireInv
<1>15. PageInv'
  <2>1. vf_page.folded = <<>> /\ vf_page.last = 0 /\ vf_page.cursor = 0
    BY <1>1, <1>2 DEF PageInv
  <2>2. n <= Len(vf_issued)
    BY <1>4
  <2>3. vf_file # <<>> => vf_mode = "tail"
    BY <1>1 DEF FileInv, Alone, Counters, FeedAssumption
  <2> QED BY <1>2, <1>9, <1>11, <2>1, <2>2, <2>3 DEF PageInv, Gone
<1> QED BY <1>12, <1>13, <1>14, <1>15 DEF AloneInv

LEMMA FoldsKeeps ==
  ASSUME FeedAssumption, Alone, AloneInv, TheFeed!FoldsHistory
  PROVE  AloneInv'
<1>1. FeedTypes /\ FileInv /\ IdsInv /\ PageInv /\ WireInv
  BY DEF AloneInv
<1>2. UNCHANGED <<vf_mode, vf_file, vf_ending, vf_tailed, vf_issued, vf_post, vf_wire, vf_missed, vf_written>>
        /\ vf_page.at \in {"takes_ring", "takes_file"} /\ vf_page \in PageSet
  BY <1>1 DEF TheFeed!FoldsHistory, FeedTypes
<1>3. PICK emitted : emitted = IF vf_page.at = "takes_ring" THEN vf_page.history
                             ELSE TheFeed!Frames(IF vf_ending = "half" THEN TheFeed!Front(vf_file) ELSE vf_file)
  OBVIOUS
<1>4. vf_page' = [vf_page EXCEPT !.at = "loaded", !.folded = emitted, !.history = <<>>, !.cursor = TheFeed!Bound(Len(emitted), vf_page.head)]
  BY <1>3 DEF TheFeed!FoldsHistory
<1>5. vf_page.head \in Nat /\ vf_page.head <= Len(vf_issued) /\ vf_page.last = 0 /\ Len(vf_issued) \in Nat
  BY <1>1, <1>2 DEF PageInv, FeedTypes, PageSet
<1>6. PICK low \in Nat, top \in Nat : /\ low <= top /\ emitted = Run(low, top) /\ 1..low \subseteq vf_missed
                                      /\ TheFeed!Bound(top - low, vf_page.head) = top
  <2>1. CASE vf_page.at = "takes_ring"
    <3>1. emitted = Run(Gone(vf_page.head), vf_page.head) /\ vf_missed = 1..Gone(vf_page.head)
      BY <1>1, <1>3, <2>1 DEF PageInv
    <3>2. Gone(vf_page.head) \in Nat /\ Gone(vf_page.head) <= vf_page.head
      BY <1>5 DEF Gone, TheFeed!Bound, FeedAssumption
    <3>3. TheFeed!Bound(vf_page.head - Gone(vf_page.head), vf_page.head) = vf_page.head
      BY <1>5, <3>2 DEF TheFeed!Bound
    <3> QED BY <1>5, <3>1, <3>2, <3>3
  <2>2. CASE vf_page.at = "takes_file"
    <3>1. vf_mode = "tail" /\ vf_file # <<>>
            /\ emitted = TheFeed!Frames(IF vf_ending = "half" THEN TheFeed!Front(vf_file) ELSE vf_file)
      BY <1>1, <1>3, <2>2 DEF PageInv
    <3>2. /\ vf_file \in Seq(Nat) /\ Len(vf_file) \in Nat /\ Len(vf_file) > 0 /\ vf_tailed \in Nat
          /\ EventsInOrder(vf_file) /\ vf_tailed <= TheFeed!Ended /\ Before(vf_file, Len(vf_file)) <= FeedEvents
               /\ Len(vf_issued) = Before(vf_file, vf_tailed)
      BY <1>1, <3>1 DEF FileInv, FeedTypes
    <3>3. PICK lines : lines = IF vf_ending = "half" THEN TheFeed!Front(vf_file) ELSE vf_file
      OBVIOUS
    <3>4. /\ lines \in Seq(Nat) /\ Len(lines) \in Nat /\ Len(lines) <= Len(vf_file) /\ vf_tailed <= Len(lines)
          /\ \A i \in 1..Len(lines) : lines[i] = vf_file[i]
      <4>1. CASE vf_ending = "half"
        <5>1. lines = SubSeq(vf_file, 1, Len(vf_file) - 1) /\ TheFeed!Ended = Len(vf_file) - 1
          BY <3>3, <4>1 DEF TheFeed!Front, TheFeed!Ended
        <5> QED BY <3>2, <5>1
      <4>2. CASE vf_ending # "half"
        <5>1. TheFeed!Ended <= Len(vf_file) /\ TheFeed!Ended \in Int
          BY <3>2 DEF TheFeed!Ended
        <5> QED BY <3>2, <3>3, <4>2, <5>1
      <4> QED BY <4>1, <4>2
    <3>5. EventsInOrder(lines) /\ \A n \in 0..Len(lines) : Before(lines, n) = Before(vf_file, n)
      BY <3>2, <3>4, PrefixInOrder
    <3>6. PICK top : top = Before(lines, Len(lines))
      OBVIOUS
    <3>7. top = Before(vf_file, Len(lines)) /\ top \in Nat
      <4>1. Len(lines) \in 0..Len(lines)
        BY <3>4
      <4>2. Before(lines, Len(lines)) \in 0..Len(lines)
        BY <3>4, BeforeIs
      <4> QED BY <3>4, <3>5, <3>6, <4>1, <4>2
    <3>8. Len(vf_issued) <= top /\ top <= Before(vf_file, Len(vf_file))
      BY <3>2, <3>4, <3>7, BeforeRises
    <3>9. Before(vf_file, Len(vf_file)) \in Nat
      <4>1. Before(vf_file, Len(vf_file)) \in 0..Len(vf_file)
        BY <3>2, BeforeIs
      <4> QED BY <4>1
    <3>10. emitted = Run(0, top)
      <4>1. FeedEvents \in Nat /\ Before(lines, Len(lines)) <= FeedEvents
        BY <3>2, <3>6, <3>7, <3>8, <3>9 DEF FeedAssumption
      <4> QED BY <3>1, <3>3, <3>4, <3>5, <3>6, <4>1, FramesAre
    <3>11. TheFeed!Bound(top - 0, vf_page.head) = top
      BY <1>5, <3>7, <3>8 DEF TheFeed!Bound
    <3>12. 1..0 \subseteq vf_missed /\ 0 \in Nat /\ 0 <= top
      BY <3>7
    <3> QED BY <3>7, <3>10, <3>11, <3>12
  <2> QED BY <1>2, <2>1, <2>2
<1>7. /\ emitted \in Seq(Nat) /\ Len(emitted) = top - low /\ DOMAIN emitted = 1..top - low
      /\ \A i \in 1..top - low : emitted[i] = low + i
  BY <1>6, RunIs
<1>8. /\ vf_page'.at = "loaded" /\ vf_page'.folded = emitted /\ vf_page'.cursor = top /\ vf_page'.last = 0
      /\ vf_page'.head = vf_page.head
  BY <1>2, <1>4, <1>5, <1>6, <1>7 DEF PageSet
<1>9. vf_page' \in PageSet
  <2>1. vf_page' = [[[[vf_page EXCEPT !.at = "loaded"] EXCEPT !.folded = emitted] EXCEPT !.history = <<>>] EXCEPT !.cursor = top]
    BY <1>2, <1>4, <1>6, <1>7 DEF PageSet
  <2>2. [vf_page EXCEPT !.at = "loaded"] \in PageSet
    BY <1>2 DEF PageSet
  <2>3. [[vf_page EXCEPT !.at = "loaded"] EXCEPT !.folded = emitted] \in PageSet
    BY <1>7, <2>2 DEF PageSet
  <2>4. [[[vf_page EXCEPT !.at = "loaded"] EXCEPT !.folded = emitted] EXCEPT !.history = <<>>] \in PageSet
    <3>1. <<>> \in Seq(Nat)
      OBVIOUS
    <3> QED BY <2>3, <3>1 DEF PageSet
  <2> QED BY <1>6, <2>1, <2>4 DEF PageSet
<1>10. Behind' = top
  BY <1>6, <1>8 DEF Behind, TheFeed!Bound
<1>11. Folds'
  <2>1. \A i \in 1..top - low : emitted[i] \in 1..top
    BY <1>6, <1>7
  <2>2. \A i, j \in 1..top - low : i < j => emitted[i] < emitted[j]
    BY <1>6, <1>7
  <2>3. ASSUME NEW id \in 1..top PROVE id \in vf_missed \/ \E i \in 1..top - low : emitted[i] = id
    <3>1. CASE id <= low
      BY <1>6, <3>1
    <3>2. CASE id > low
      <4>1. id - low \in 1..top - low /\ low + (id - low) = id
        BY <1>6, <3>2
      <4> QED BY <1>7, <4>1
    <3> QED BY <1>6, <3>1, <3>2
  <2> QED BY <1>2, <1>7, <1>8, <1>10, <2>1, <2>2, <2>3 DEF Folds
<1>12. PageInv'
  BY <1>8, <1>11 DEF PageInv
<1>13. FeedTypes'
  BY <1>1, <1>2, <1>9 DEF FeedTypes
<1>14. FileInv' /\ IdsInv' /\ WireInv'
  BY <1>1, <1>2, <1>8 DEF FileInv, IdsInv, WireInv, TheFeed!Ended
<1> QED BY <1>12, <1>13, <1>14 DEF AloneInv

LEMMA FetchFailsKeeps ==
  ASSUME AloneInv, TheFeed!FetchFails
  PROVE  AloneInv'
<1>1. FeedTypes /\ FileInv /\ IdsInv /\ PageInv /\ WireInv
  BY DEF AloneInv
<1>2. /\ UNCHANGED <<vf_mode, vf_file, vf_ending, vf_tailed, vf_issued, vf_post, vf_wire, vf_written>>
      /\ vf_page.at \in {"takes_ring", "takes_file"} /\ vf_page \in PageSet /\ vf_missed' = {}
      /\ vf_page' = [[vf_page EXCEPT !.at = "loaded"] EXCEPT !.history = <<>>]
  BY <1>1 DEF TheFeed!FetchFails, FeedTypes
<1>3. [vf_page EXCEPT !.at = "loaded"] \in PageSet
  BY <1>2 DEF PageSet
<1>4. vf_page' \in PageSet /\ vf_page'.at = "loaded" /\ vf_page'.folded = <<>> /\ vf_page'.last = 0
        /\ vf_page'.cursor = 0
  BY <1>1, <1>2, <1>3 DEF PageSet, PageInv
<1>5. Behind' = 0
  BY <1>4 DEF Behind, TheFeed!Bound
<1>6. Folds'
  <2>1. DOMAIN vf_page'.folded = {} /\ 1..0 = {}
    BY <1>4
  <2> QED BY <1>5, <2>1 DEF Folds
<1>7. PageInv'
  BY <1>4, <1>6 DEF PageInv
<1>8. FeedTypes'
  BY <1>1, <1>2, <1>4 DEF FeedTypes
<1>9. FileInv' /\ IdsInv' /\ WireInv'
  BY <1>1, <1>2, <1>4 DEF FileInv, IdsInv, WireInv, TheFeed!Ended
<1> QED BY <1>7, <1>8, <1>9 DEF AloneInv

LEMMA ConnectsKeeps ==
  ASSUME FeedAssumption, Alone, AloneInv, TheFeed!Connects
  PROVE  AloneInv'
<1>1. FeedTypes /\ FileInv /\ IdsInv /\ PageInv /\ WireInv
  BY DEF AloneInv
<1>2. /\ UNCHANGED <<vf_mode, vf_file, vf_ending, vf_tailed, vf_issued, vf_post, vf_written>>
      /\ vf_page.at \in {"loaded", "dropped"} /\ vf_page \in PageSet
      /\ vf_page' = [[vf_page EXCEPT !.at = "following"] EXCEPT !.guard = Behind]
      /\ vf_wire' = [i \in DOMAIN TheFeed!snapshot_after(Behind) |-> TheFeed!Entry(TheFeed!snapshot_after(Behind)[i])]
      /\ vf_missed' = vf_missed \cup {id \in Behind + 1..TheFeed!newest : id \notin TheFeed!ToSet(TheFeed!ring)}
  BY <1>1 DEF TheFeed!Connects, FeedTypes, Behind
<1>3. PICK n : n = TheFeed!newest
  OBVIOUS
<1>4. n \in Nat /\ n = Len(vf_issued) /\ vf_issued = Run(0, n)
  BY <1>1, <1>3 DEF TheFeed!newest, FeedTypes, IdsInv
<1>5. PICK cursor \in Nat : cursor = Behind
  BY <1>2 DEF PageSet, Behind, TheFeed!Bound
<1>6. PICK a \in Nat : /\ a <= n /\ TheFeed!ring = [i \in 1..n - a |-> a + i] /\ DOMAIN TheFeed!ring = 1..n - a
  BY <1>3, <1>4, RingIs
<1>7. PICK low \in Nat : low = TheFeed!Bound(a, cursor)
  BY DEF TheFeed!Bound
<1>8. PICK top \in Nat : top = TheFeed!Bound(low, n)
  BY <1>4 DEF TheFeed!Bound
<1>9. /\ a <= low /\ cursor <= low /\ low <= top /\ n <= top /\ (top > low => top = n) /\ (low = a \/ low = cursor)
      /\ top - low \in Nat
  BY <1>4, <1>5, <1>6, <1>7, <1>8 DEF TheFeed!Bound
<1>10. TheFeed!snapshot_after(cursor) = Run(low, top)
  <2>1. n - a \in Nat /\ a + (n - a) = n /\ a + (n - a) <= n
    BY <1>4, <1>6
  <2>2. TheFeed!Where([i \in 1..n - a |-> a + i], cursor + 1..n) = Run(TheFeed!Bound(a, cursor), TheFeed!Bound(TheFeed!Bound(a, cursor), a + (n - a)))
    BY <1>4, <2>1, WhereOfRun
  <2> QED BY <1>3, <1>6, <1>7, <1>8, <2>1, <2>2 DEF TheFeed!snapshot_after
<1>11. /\ DOMAIN Run(low, top) = 1..top - low /\ \A i \in 1..top - low : Run(low, top)[i] = low + i
  BY <1>9, RunIs
<1>12. \A i \in 1..n : vf_issued[i] = i
  <2>1. 0 \in Nat /\ 0 <= n /\ n - 0 = n /\ \A i \in 1..n : 0 + i = i
    BY <1>4
  <2>2. \A i \in 1..n - 0 : Run(0, n)[i] = 0 + i
    BY <1>4, <2>1, RunIs
  <2> QED BY <1>4, <2>1, <2>2
<1>13. vf_wire' = [i \in 1..top - low |-> [id |-> low + i, event |-> low + i]]
  <2>1. vf_wire' = [i \in 1..top - low |-> TheFeed!Entry(low + i)]
    BY <1>2, <1>5, <1>10, <1>11
  <2>2. \A i \in 1..top - low : low + i \in 1..n
    BY <1>4, <1>9
  <2>3. \A i \in 1..top - low : TheFeed!Entry(low + i) = [id |-> low + i, event |-> low + i]
    BY <1>12, <2>2 DEF TheFeed!Entry
  <2> QED BY <2>1, <2>3
<1>14. /\ vf_wire' \in Seq([id : Nat, event : Nat]) /\ DOMAIN vf_wire' = 1..top - low
       /\ \A i \in 1..top - low : vf_wire'[i].id = low + i /\ vf_wire'[i].event = low + i
  <2>1. \A i \in 1..top - low : low + i \in Nat
    BY <1>9
  <2> QED BY <1>9, <1>13, <2>1
<1>15. [vf_page EXCEPT !.at = "following"] \in PageSet
  BY <1>2 DEF PageSet
<1>16. /\ vf_page' \in PageSet /\ vf_page'.at = "following" /\ vf_page'.guard = cursor
            /\ vf_page'.last = vf_page.last
       /\ vf_page'.cursor = vf_page.cursor /\ vf_page'.folded = vf_page.folded
  BY <1>2, <1>5, <1>15 DEF PageSet
<1>17. Behind' = cursor
  BY <1>5, <1>16 DEF Behind
<1>18. vf_missed \subseteq vf_missed' /\ vf_missed' \subseteq Nat
  <2>1. vf_missed \subseteq Nat
    BY <1>1 DEF FeedTypes
  <2>2. {id \in Behind + 1..TheFeed!newest : id \notin TheFeed!ToSet(TheFeed!ring)} \subseteq Nat
    BY <1>3, <1>4, <1>5
  <2> QED BY <1>2, <2>1, <2>2
<1>19. Folds'
  <2>1. Folds
    BY <1>1, <1>2 DEF PageInv
  <2> QED BY <1>5, <1>16, <1>17, <1>18, <2>1 DEF Folds
<1>20. Sends'
  <2>1. cursor <= cursor /\ cursor <= TheFeed!Bound(cursor, n)
    BY <1>4 DEF TheFeed!Bound
  <2>2. \A i \in 1..top - low : vf_wire'[i].id = vf_wire'[i].event /\ vf_wire'[i].id \in cursor + 1..n
    <3>1. \A i \in 1..top - low : low + i \in cursor + 1..n
      BY <1>4, <1>9
    <3> QED BY <1>14, <3>1
  <2>3. \A i, j \in 1..top - low : i < j => vf_wire'[i].id < vf_wire'[j].id
    BY <1>14
  <2>4. ASSUME NEW id \in cursor + 1..n PROVE id \in vf_missed' \/ \E i \in 1..top - low : vf_wire'[i].id = id
    <3>1. CASE id > low
      <4>1. id - low \in 1..top - low /\ low + (id - low) = id
        BY <1>4, <1>9, <3>1
      <4> QED BY <1>14, <4>1
    <3>2. CASE ~(id > low)
      <4>1. id <= a
        BY <1>9, <3>2
      <4>2. id \notin TheFeed!ToSet(TheFeed!ring)
        <5> SUFFICES ASSUME id \in TheFeed!ToSet(TheFeed!ring) PROVE FALSE
          OBVIOUS
        <5>1. PICK i \in 1..n - a : id = TheFeed!ring[i]
          BY <1>6 DEF TheFeed!ToSet
        <5>2. id = a + i
          BY <1>6, <5>1
        <5> QED BY <1>4, <1>6, <4>1, <5>2
      <4>3. id \in Behind + 1..TheFeed!newest
        BY <1>3, <1>5
      <4> QED BY <1>2, <4>2, <4>3
    <3> QED BY <3>1, <3>2
  <2>5. vf_issued' = vf_issued
    BY <1>2
  <2> QED BY <1>4, <1>14, <1>16, <1>17, <2>1, <2>2, <2>3, <2>4, <2>5 DEF Sends
<1>21. PageInv' /\ WireInv'
  BY <1>16, <1>19, <1>20 DEF PageInv, WireInv
<1>22. FeedTypes'
  BY <1>1, <1>2, <1>14, <1>16, <1>18 DEF FeedTypes
<1>23. FileInv' /\ IdsInv'
  BY <1>1, <1>2 DEF FileInv, IdsInv, TheFeed!Ended
<1> QED BY <1>21, <1>22, <1>23 DEF AloneInv

LEMMA ReceivesKeeps ==
  ASSUME AloneInv, TheFeed!Receives
  PROVE  AloneInv'
<1>1. FeedTypes /\ FileInv /\ IdsInv /\ PageInv /\ WireInv
  BY DEF AloneInv
<1>2. /\ UNCHANGED <<vf_mode, vf_file, vf_ending, vf_tailed, vf_issued, vf_post, vf_missed, vf_written>>
      /\ vf_wire # <<>> /\ vf_wire' = Tail(vf_wire) /\ vf_page \in PageSet
           /\ vf_wire \in Seq([id : Nat, event : Nat])
      /\ vf_page' = [[vf_page EXCEPT !.last = Head(vf_wire).id] EXCEPT !.folded = Append(vf_page.folded, Head(vf_wire).event)]
  BY <1>1 DEF TheFeed!Receives, FeedTypes, PageSet
<1>3. vf_page.at = "following" /\ Sends /\ Folds
  <2>1. vf_page.at = "following"
    BY <1>1, <1>2 DEF WireInv
  <2> QED BY <1>1, <2>1 DEF WireInv, PageInv
<1>4. PICK m : m = Len(vf_wire)
  OBVIOUS
<1>5. /\ m \in Nat /\ m >= 1 /\ Head(vf_wire) = vf_wire[1] /\ vf_wire[1] \in [id : Nat, event : Nat]
           /\ DOMAIN vf_wire = 1..m
      /\ vf_wire' \in Seq([id : Nat, event : Nat]) /\ Len(vf_wire') = m - 1 /\ DOMAIN vf_wire' = 1..m - 1
      /\ \A i \in 1..m - 1 : vf_wire'[i] = vf_wire[i + 1]
  <2>1. PICK Sent : Sent = [id : Nat, event : Nat]
    OBVIOUS
  <2>2. vf_wire \in Seq(Sent) /\ vf_wire # <<>> /\ vf_wire' = Tail(vf_wire)
    BY <1>2, <2>1
  <2>3. m \in Nat /\ m >= 1 /\ Head(vf_wire) = vf_wire[1] /\ vf_wire[1] \in Sent /\ DOMAIN vf_wire = 1..m
    BY <1>4, <2>2
  <2>4. vf_wire' \in Seq(Sent) /\ Len(vf_wire') = m - 1 /\ DOMAIN vf_wire' = 1..m - 1
    BY <1>4, <2>2
  <2>5. \A i \in 1..m - 1 : vf_wire'[i] = vf_wire[i + 1]
    BY <1>4, <2>2
  <2> QED BY <2>1, <2>3, <2>4, <2>5
<1>6. PICK h \in Nat : h = vf_wire[1].id /\ h = vf_wire[1].event
  <2>1. 1 \in DOMAIN vf_wire
    BY <1>5
  <2>2. vf_wire[1].id = vf_wire[1].event
    BY <1>3, <2>1 DEF Sends
  <2> QED BY <1>5, <2>2
<1>7. PICK before \in Nat : before = Behind
  BY <1>2 DEF PageSet, Behind, TheFeed!Bound
<1>8. PICK n \in Nat : n = Len(vf_issued)
  BY <1>1 DEF FeedTypes
<1>9. h \in before + 1..n /\ vf_page.guard \in Nat /\ vf_page.guard <= before /\ vf_page.cursor \in Nat
        /\ vf_page.cursor <= before
  <2>1. h \in before + 1..n
    <3>1. 1 \in DOMAIN vf_wire
      BY <1>5
    <3> QED BY <1>3, <1>6, <1>7, <1>8, <3>1 DEF Sends
  <2> QED BY <1>2, <1>3, <1>7, <2>1 DEF Sends, PageSet, Behind, TheFeed!Bound
<1>10. vf_page' = [[vf_page EXCEPT !.last = h] EXCEPT !.folded = Append(vf_page.folded, h)]
  BY <1>2, <1>5, <1>6
<1>11. vf_page.folded \in Seq(Nat) /\ Append(vf_page.folded, h) \in Seq(Nat)
  BY <1>2 DEF PageSet
<1>12. [vf_page EXCEPT !.last = h] \in PageSet
  BY <1>2 DEF PageSet
<1>13. vf_page' \in PageSet /\ vf_page'.at = "following" /\ vf_page'.last = h /\ vf_page'.cursor = vf_page.cursor
         /\ vf_page'.guard = vf_page.guard /\ vf_page'.folded = Append(vf_page.folded, h)
  BY <1>2, <1>3, <1>10, <1>11, <1>12 DEF PageSet
<1>14. Behind' = h
  BY <1>9, <1>13 DEF Behind, TheFeed!Bound
<1>15. \A i \in 2..m : vf_wire[i].id \in h + 1..n
  <2>1. ASSUME NEW i \in 2..m PROVE vf_wire[i].id \in h + 1..n
    <3>1. 1 \in DOMAIN vf_wire /\ i \in DOMAIN vf_wire /\ 1 < i
      BY <1>5
    <3>2. vf_wire[1].id < vf_wire[i].id /\ vf_wire[i].id \in before + 1..n
      BY <1>3, <1>7, <1>8, <3>1 DEF Sends
    <3> QED BY <1>6, <3>2
  <2> QED BY <2>1
<1>16. \A id \in before + 1..h - 1 : id \in vf_missed
  <2> SUFFICES ASSUME NEW id \in before + 1..h - 1, id \notin vf_missed PROVE FALSE
    OBVIOUS
  <2>1. id \in before + 1..n
    BY <1>9
  <2>2. PICK i \in 1..m : vf_wire[i].id = id
    BY <1>3, <1>5, <1>7, <1>8, <2>1 DEF Sends
  <2>3. CASE i = 1
    <3>1. h = id
      BY <1>6, <2>2, <2>3
    <3> QED BY <3>1
  <2>4. CASE i # 1
    <3>1. i \in 2..m
      BY <1>5, <2>4
    <3>2. id \in h + 1..n
      BY <1>15, <2>2, <3>1
    <3> QED BY <3>2
  <2> QED BY <2>3, <2>4
<1>17. Folds'
  <2>1. PICK k \in Nat : k = Len(vf_page.folded)
    BY <1>11
  <2>2. /\ DOMAIN vf_page.folded = 1..k /\ DOMAIN vf_page'.folded = 1..k + 1 /\ vf_page'.folded[k + 1] = h
        /\ \A i \in 1..k : vf_page'.folded[i] = vf_page.folded[i]
    BY <1>11, <1>13, <2>1
  <2>3. \A i \in 1..k : vf_page.folded[i] \in 1..before
    BY <1>3, <1>7, <2>2 DEF Folds
  <2>4. \A i \in 1..k + 1 : vf_page'.folded[i] \in 1..h
    <3>1. ASSUME NEW i \in 1..k + 1 PROVE vf_page'.folded[i] \in 1..h
      <4>1. CASE i = k + 1
        BY <1>9, <2>2, <4>1
      <4>2. CASE i # k + 1
        <5>1. i \in 1..k
          BY <4>2
        <5> QED BY <1>9, <2>2, <2>3, <5>1
      <4> QED BY <4>1, <4>2
    <3> QED BY <3>1
  <2>5. ASSUME NEW i \in 1..k + 1, NEW j \in 1..k + 1, i < j PROVE vf_page'.folded[i] < vf_page'.folded[j]
    <3>1. i \in 1..k
      BY <2>5
    <3>2. CASE j = k + 1
      BY <1>9, <2>2, <2>3, <3>1, <3>2
    <3>3. CASE j # k + 1
      <4>1. j \in 1..k
        BY <3>3
      <4> QED BY <1>3, <2>2, <2>5, <3>1, <4>1 DEF Folds
    <3> QED BY <3>2, <3>3
  <2>6. ASSUME NEW id \in 1..h PROVE id \in vf_missed \/ \E i \in 1..k + 1 : vf_page'.folded[i] = id
    <3>1. CASE id <= before
      <4>1. id \in 1..before
        BY <3>1
      <4>2. id \in vf_missed \/ \E i \in 1..k : vf_page.folded[i] = id
        BY <1>3, <1>7, <2>2, <4>1 DEF Folds
      <4>3. \A i \in 1..k : i \in 1..k + 1
        OBVIOUS
      <4> QED BY <2>2, <4>2, <4>3
    <3>2. CASE id = h
      <4>1. k + 1 \in 1..k + 1
        OBVIOUS
      <4> QED BY <2>2, <3>2, <4>1
    <3>3. CASE id > before /\ id # h
      <4>1. id \in before + 1..h - 1
        BY <3>3
      <4> QED BY <1>16, <4>1
    <3> QED BY <3>1, <3>2, <3>3
  <2> QED BY <1>2, <1>14, <2>2, <2>4, <2>5, <2>6 DEF Folds
<1>18. Sends'
  <2>1. vf_page.guard <= h /\ h <= TheFeed!Bound(vf_page.guard, n)
    BY <1>9 DEF TheFeed!Bound
  <2>2. \A i \in 1..m - 1 : vf_wire'[i].id = vf_wire'[i].event /\ vf_wire'[i].id \in h + 1..n
    <3>1. ASSUME NEW i \in 1..m - 1 PROVE vf_wire'[i].id = vf_wire'[i].event /\ vf_wire'[i].id \in h + 1..n
      <4>1. i + 1 \in 2..m /\ i + 1 \in DOMAIN vf_wire
        BY <1>5
      <4>2. vf_wire[i + 1].id = vf_wire[i + 1].event
        BY <1>3, <4>1 DEF Sends
      <4> QED BY <1>5, <1>15, <4>1, <4>2
    <3> QED BY <3>1
  <2>3. ASSUME NEW i \in 1..m - 1, NEW j \in 1..m - 1, i < j PROVE vf_wire'[i].id < vf_wire'[j].id
    <3>1. i + 1 \in DOMAIN vf_wire /\ j + 1 \in DOMAIN vf_wire /\ i + 1 < j + 1
      BY <1>5, <2>3
    <3> QED BY <1>3, <1>5, <3>1 DEF Sends
  <2>4. ASSUME NEW id \in h + 1..n PROVE id \in vf_missed \/ \E i \in 1..m - 1 : vf_wire'[i].id = id
    <3>1. id \in before + 1..n /\ id # h
      BY <1>9
    <3>2. CASE id \notin vf_missed
      <4>1. PICK i \in 1..m : vf_wire[i].id = id
        BY <1>3, <1>5, <1>7, <1>8, <3>1, <3>2 DEF Sends
      <4>2. i # 1
        BY <1>6, <3>1, <4>1
      <4>3. i - 1 \in 1..m - 1 /\ (i - 1) + 1 = i
        BY <1>5, <4>2
      <4>4. vf_wire'[i - 1] = vf_wire[i]
        BY <1>5, <4>3
      <4> QED BY <4>1, <4>3, <4>4
    <3> QED BY <3>2
  <2> QED BY <1>2, <1>5, <1>8, <1>13, <1>14, <2>1, <2>2, <2>3, <2>4 DEF Sends
<1>19. PageInv' /\ WireInv'
  BY <1>13, <1>17, <1>18 DEF PageInv, WireInv
<1>20. FeedTypes'
  BY <1>1, <1>2, <1>5, <1>13 DEF FeedTypes
<1>21. FileInv' /\ IdsInv'
  BY <1>1, <1>2 DEF FileInv, IdsInv, TheFeed!Ended
<1> QED BY <1>19, <1>20, <1>21 DEF AloneInv

(* The connection breaks. *)
LEMMA DropsKeeps ==
  ASSUME AloneInv, TheFeed!Drops
  PROVE  AloneInv'
<1>1. FeedTypes /\ FileInv /\ IdsInv /\ PageInv
  BY DEF AloneInv
<1>2. /\ UNCHANGED <<vf_mode, vf_file, vf_ending, vf_tailed, vf_issued, vf_post, vf_missed, vf_written>>
      /\ vf_page.at = "following" /\ vf_wire' = <<>> /\ vf_page \in PageSet
           /\ vf_page' = [vf_page EXCEPT !.at = "dropped"]
  BY <1>1 DEF TheFeed!Drops, TheFeed!Dropped, FeedTypes
<1>3. vf_page' \in PageSet /\ vf_page'.at = "dropped" /\ vf_page'.folded = vf_page.folded
        /\ vf_page'.last = vf_page.last
        /\ vf_page'.cursor = vf_page.cursor
  BY <1>2 DEF PageSet
<1>4. Behind' = Behind
  BY <1>3 DEF Behind
<1>5. Folds'
  <2>1. Folds
    BY <1>1, <1>2 DEF PageInv
  <2> QED BY <1>2, <1>3, <1>4, <2>1 DEF Folds
<1>6. PageInv' /\ WireInv'
  BY <1>2, <1>3, <1>5 DEF PageInv, WireInv
<1>7. <<>> \in Seq([id : Nat, event : Nat])
  OBVIOUS
<1>8. FeedTypes'
  BY <1>1, <1>2, <1>3, <1>7 DEF FeedTypes
<1>9. FileInv' /\ IdsInv'
  BY <1>1, <1>2 DEF FileInv, IdsInv, TheFeed!Ended
<1> QED BY <1>6, <1>8, <1>9 DEF AloneInv

(* The viewer is started again beside the same file. *)
LEMMA RestartsKeeps ==
  ASSUME FeedAssumption, Counters, Alone', AloneInv, TheFeed!Restarts
  PROVE  AloneInv'
<1>1. FeedTypes /\ FileInv /\ IdsInv /\ PageInv
  BY DEF AloneInv
<1>2. /\ UNCHANGED <<vf_mode, vf_file, vf_ending, vf_missed, vf_written>> /\ vf_issued' = <<>> /\ vf_tailed' = 0
           /\ vf_post' = TheFeed!NoPost
      /\ vf_wire' = <<>> /\ vf_page.at \notin {"takes_ring", "takes_file"} /\ vf_page \in PageSet
      /\ vf_page' = IF vf_page.at = "following" THEN [vf_page EXCEPT !.at = "dropped"] ELSE vf_page
  BY <1>1 DEF TheFeed!Restarts, TheFeed!Dropped, FeedTypes
<1>3. vf_mode = "tail"
  BY <1>2 DEF TheFeed!Restarts, Alone, Counters, FeedAssumption
<1>4. vf_page' \in PageSet /\ vf_page'.folded = vf_page.folded /\ vf_page'.last = vf_page.last
        /\ vf_page'.cursor = vf_page.cursor
        /\ vf_page'.head = vf_page.head /\ vf_page'.at = IF vf_page.at = "following" THEN "dropped" ELSE vf_page.at
  BY <1>2 DEF PageSet
<1>5. Behind' = Behind
  BY <1>4 DEF Behind
<1>6. Folds => Folds'
  BY <1>2, <1>4, <1>5 DEF Folds
<1>7. Len(vf_issued') = 0 /\ vf_issued' \in Seq(Nat)
  BY <1>2
<1>8. IdsInv'
  BY <1>2, <1>7 DEF IdsInv, Run
<1>9. PageInv'
  BY <1>1, <1>2, <1>4, <1>6, <1>7 DEF PageInv
<1>10. WireInv'
  BY <1>2, <1>4 DEF WireInv
<1>11. <<>> \in Seq([id : Nat, event : Nat]) /\ 0 \in Nat
  OBVIOUS
<1>12. FeedTypes'
  BY <1>1, <1>2, <1>4, <1>7, <1>11 DEF FeedTypes
<1>13. FileInv'
  <2>1. Before(vf_file, 0) = 0
    <3>1. Before(vf_file, 0) \in 0..0
      BY BeforeIs
    <3> QED BY <3>1
  <2>2. 0 <= TheFeed!Ended /\ TheFeed!Ended' = TheFeed!Ended
    <3>1. vf_tailed \in Nat /\ vf_tailed <= TheFeed!Ended /\ Len(vf_file) \in Nat
      BY <1>1, <1>3 DEF FeedTypes, FileInv
    <3>2. TheFeed!Ended \in Int
      BY <3>1 DEF TheFeed!Ended
    <3> QED BY <1>2, <3>1, <3>2 DEF TheFeed!Ended
  <2> QED BY <1>1, <1>2, <1>3, <1>7, <2>1, <2>2 DEF FileInv
<1> QED BY <1>8, <1>9, <1>10, <1>12, <1>13 DEF AloneInv

LEMMA FeedStarts ==
  ASSUME FeedAssumption, TheFeed!Init PROVE FeedInv
<1>1. Counters /\ PostInv
  BY DEF TheFeed!Init, Counters, PostInv
<1>2. FeedTypes
  <2>1. vf_page \in PageSet
    BY DEF TheFeed!Init, PageSet
  <2>2. <<>> \in Seq(Nat) /\ <<>> \in Seq([id : Nat, event : Nat])
    OBVIOUS
  <2> QED BY <2>1, <2>2 DEF TheFeed!Init, FeedTypes
<1>3. Len(<<>>) = 0 /\ Before(<<>>, 0) = 0 /\ EventsInOrder(<<>>) /\ FeedEvents \in Nat
  <2>1. Before(<<>>, 0) \in 0..0
    BY BeforeIs
  <2>2. DOMAIN <<>> = {}
    OBVIOUS
  <2> QED BY <2>1, <2>2 DEF EventsInOrder, FeedAssumption
<1>4. FileInv
  BY <1>3 DEF TheFeed!Init, FileInv, TheFeed!Ended, FeedAssumption
<1>5. IdsInv
  BY <1>3 DEF TheFeed!Init, IdsInv, Run
<1>6. PageInv /\ WireInv
  BY <1>3 DEF TheFeed!Init, PageInv, WireInv
<1> QED BY <1>1, <1>2, <1>4, <1>5, <1>6 DEF FeedInv, AloneInv

LEMMA FeedKeeps ==
  ASSUME FeedAssumption, FeedInv, [TheFeed!Next]_(TheFeed!vars) PROVE FeedInv'
<1>1. Counters /\ PostInv /\ (Alone => AloneInv)
  BY DEF FeedInv
<1>2. CASE UNCHANGED TheFeed!vars
  <2>1. Counters' /\ PostInv'
    BY <1>1, <1>2 DEF TheFeed!vars, Counters, PostInv, Counted, TheFeed!Total
  <2>2. ASSUME Alone' PROVE AloneInv'
    <3>1. AloneInv
      BY <1>1, <1>2, <2>2 DEF TheFeed!vars, Alone
    <3>2. WireInv' /\ IdsInv'
      BY <1>2, <3>1, WireStays DEF TheFeed!vars
    <3>3. FeedTypes' /\ FileInv'
      BY <1>2, <3>1 DEF TheFeed!vars, AloneInv, FeedTypes, FileInv, TheFeed!Ended
    <3>4. PageInv'
      BY <1>2, <3>1 DEF TheFeed!vars, AloneInv, PageInv, Folds, Behind
    <3> QED BY <3>2, <3>3, <3>4 DEF AloneInv
  <2> QED BY <2>1, <2>2 DEF FeedInv
<1>3. CASE TheFeed!Next
  <2>1. /\ vf_mode' = vf_mode /\ vf_rotations' \in {vf_rotations, vf_rotations + 1}
             /\ vf_restarts' \in {vf_restarts, vf_restarts + 1}
        /\ TheFeed!Rotates => vf_rotations' = vf_rotations + 1
    BY <1>3 DEF TheFeed!Next, TheFeed!Writes, TheFeed!WritesOn, TheFeed!Rotates, TheFeed!TailEmits, TheFeed!Posts,
         TheFeed!IngestReads, TheFeed!IngestEnds, TheFeed!IsAnswered, TheFeed!Fetches,
         TheFeed!FoldsHistory, TheFeed!FetchFails, TheFeed!Connects, TheFeed!Receives, TheFeed!Drops,
           TheFeed!Restarts
  <2>2. Counters' /\ (Alone' => Alone /\ ~TheFeed!Rotates)
    <3>1. Counters'
      BY <1>1, <2>1 DEF Counters
    <3>2. vf_rotations \in Nat /\ vf_restarts \in Nat
      BY <1>1 DEF Counters
    <3> QED BY <2>1, <3>1, <3>2 DEF Alone
  <2>3. PostInv'
    <3>1. CASE TheFeed!Posts \/ TheFeed!IngestReads \/ TheFeed!IngestEnds \/ TheFeed!IsAnswered
      BY <1>1, <3>1, RequestKeeps
    <3>2. CASE vf_post' = vf_post \/ vf_post' = TheFeed!NoPost
      BY <1>1, <3>2 DEF PostInv, Counted, TheFeed!Total
    <3> QED BY <1>3, <3>1, <3>2 DEF TheFeed!Next, TheFeed!Writes, TheFeed!WritesOn, TheFeed!Rotates,
      TheFeed!TailEmits, TheFeed!Fetches, TheFeed!FoldsHistory, TheFeed!FetchFails, TheFeed!Connects,
         TheFeed!Receives, TheFeed!Drops, TheFeed!Restarts
  <2>4. ASSUME Alone' PROVE AloneInv'
    <3>1. Alone /\ AloneInv /\ ~TheFeed!Rotates
      BY <1>1, <2>2, <2>4
    <3> QED BY <1>1, <1>3, <2>4, <3>1, WritesKeeps, WritesOnKeeps, TailKeeps, RequestKeepsAlone, FetchesKeeps,
      FoldsKeeps,
         FetchFailsKeeps, ConnectsKeeps, ReceivesKeeps, DropsKeeps, RestartsKeeps DEF TheFeed!Next
  <2> QED BY <2>2, <2>3, <2>4 DEF FeedInv
<1> QED BY <1>2, <1>3

(* What a feed that goes by the invariant shows. *)
LEMMA FeedShows ==
  ASSUME FeedAssumption, FeedInv PROVE TheFeed!FeedIsWhole
<1>1. Counters /\ PostInv /\ (Alone => AloneInv)
  BY DEF FeedInv
<1>2. TheFeed!AnswersCountTheLines
  <2> SUFFICES ASSUME vf_post.at = "ok"
               PROVE  vf_post.accepted = Len(TheFeed!Where(vf_post.body, {"good"}))
                        /\ vf_post.rejected = Len(vf_post.body) - vf_post.accepted
    BY DEF TheFeed!AnswersCountTheLines
  <2>1. Counted(vf_post)
    BY <1>1 DEF PostInv, TheFeed!NoPost
  <2>2. vf_post.body \in Seq({"good", "bad"})
    BY <2>1 DEF Counted, PostSet, FeedAssumption
  <2>3. SubSeq(vf_post.body, 1, Len(vf_post.body)) = vf_post.body
    BY <2>2
  <2> QED BY <2>1, <2>3 DEF Counted
<1>3. ASSUME Alone
      PROVE  /\ \A i, j \in DOMAIN vf_page.folded : i < j => vf_page.folded[i] < vf_page.folded[j]
             /\ vf_page.at = "following" /\ vf_wire = <<>>
                  => TheFeed!ToSet(vf_issued) \ TheFeed!Folded \subseteq vf_missed
             /\ \A id \in DOMAIN vf_issued : vf_page.folded # <<>> /\ vf_issued[id] < TheFeed!Last(vf_page.folded)
                                           => vf_issued[id] \in TheFeed!Folded \/ id \in vf_missed
  <2>1. FeedTypes /\ IdsInv /\ PageInv /\ WireInv
    BY <1>1, <1>3 DEF AloneInv
  <2>2. vf_page.folded = <<>> \/ Folds
    BY <2>1 DEF PageInv, FeedTypes, PageSet
  <2>3. PICK n \in Nat : n = Len(vf_issued)
    BY <2>1 DEF FeedTypes
  <2>4. DOMAIN vf_issued = 1..n /\ \A id \in 1..n : vf_issued[id] = id
    <3>1. 0 \in Nat /\ 0 <= n /\ n - 0 = n /\ \A i \in 1..n : 0 + i = i
      BY <2>3
    <3>2. DOMAIN Run(0, n) = 1..n - 0 /\ \A i \in 1..n - 0 : Run(0, n)[i] = 0 + i
      BY <3>1, RunIs
    <3> QED BY <2>1, <2>3, <3>1, <3>2 DEF IdsInv
  <2>5. PICK k \in Nat : k = Len(vf_page.folded) /\ DOMAIN vf_page.folded = 1..k
    BY <2>1 DEF FeedTypes, PageSet
  <2>6. PICK behind \in Nat : behind = Behind
    BY <2>1 DEF FeedTypes, PageSet, Behind, TheFeed!Bound
  <2>7. \A i, j \in DOMAIN vf_page.folded : i < j => vf_page.folded[i] < vf_page.folded[j]
    <3>1. CASE vf_page.folded = <<>>
      BY <3>1
    <3> QED BY <2>2, <3>1 DEF Folds
  <2>8. ASSUME vf_page.at = "following", vf_wire = <<>>, NEW id \in 1..n
                 PROVE id \in TheFeed!Folded \/ id \in vf_missed
    <3>1. Folds /\ Sends
      BY <2>1, <2>8 DEF PageInv, WireInv
    <3>2. CASE id <= behind
      <4>1. id \in 1..behind
        BY <3>2
      <4>2. id \in vf_missed \/ \E i \in DOMAIN vf_page.folded : vf_page.folded[i] = id
        BY <2>6, <3>1, <4>1 DEF Folds
      <4> QED BY <4>2 DEF TheFeed!Folded, TheFeed!ToSet
    <3>3. CASE id > behind
      <4>1. id \in behind + 1..n
        BY <3>3
      <4>2. id \in vf_missed \/ \E i \in DOMAIN vf_wire : vf_wire[i].id = id
        BY <2>3, <2>6, <3>1, <4>1 DEF Sends
      <4>3. DOMAIN vf_wire = {}
        BY <2>8
      <4> QED BY <4>2, <4>3
    <3> QED BY <3>2, <3>3
  <2>9. vf_page.at = "following" /\ vf_wire = <<>> => TheFeed!ToSet(vf_issued) \ TheFeed!Folded \subseteq vf_missed
    <3> SUFFICES ASSUME vf_page.at = "following", vf_wire = <<>>, NEW x \in TheFeed!ToSet(vf_issued),
      x \notin TheFeed!Folded PROVE x \in vf_missed
      OBVIOUS
    <3>1. PICK id \in 1..n : x = vf_issued[id]
      BY <2>4 DEF TheFeed!ToSet
    <3>2. x = id
      BY <2>4, <3>1
    <3> QED BY <2>8, <3>2
  <2>10. ASSUME NEW id \in 1..n, vf_page.folded # <<>>, vf_issued[id] < TheFeed!Last(vf_page.folded)
         PROVE  vf_issued[id] \in TheFeed!Folded \/ id \in vf_missed
    <3>1. Folds
      BY <2>2, <2>10
    <3>2. TheFeed!Last(vf_page.folded) \in 1..behind
      <4>1. vf_page.folded \in Seq(Nat)
        BY <2>1 DEF FeedTypes, PageSet
      <4>2. k \in 1..k /\ TheFeed!Last(vf_page.folded) = vf_page.folded[k]
        BY <2>5, <2>10, <4>1 DEF TheFeed!Last
      <4> QED BY <2>5, <2>6, <3>1, <4>2 DEF Folds
    <3>3. vf_issued[id] = id /\ id \in 1..behind
      BY <2>4, <2>6, <2>10, <3>2
    <3>4. id \in vf_missed \/ \E i \in DOMAIN vf_page.folded : vf_page.folded[i] = id
      BY <2>6, <3>1, <3>3 DEF Folds
    <3> QED BY <3>3, <3>4 DEF TheFeed!Folded, TheFeed!ToSet
  <2> QED BY <2>4, <2>7, <2>9, <2>10
<1>4. TheFeed!FoldsWhatWasFed
  <2>1. CASE Alone
    BY <1>3, <2>1 DEF TheFeed!FoldsWhatWasFed
  <2>2. CASE ~Alone
    <3>1. vf_mode = "both" \/ vf_rotations # 0 \/ (vf_mode = "ingest" /\ vf_restarts # 0)
      BY <2>2 DEF Alone
    <3>2. vf_rotations \in Nat /\ vf_restarts \in Nat
      BY <1>1 DEF Counters
    <3>3. vf_mode = "both" \/ vf_rotations > 0 \/ (vf_mode = "ingest" /\ vf_restarts > 0)
      BY <3>1, <3>2
    <3> QED BY <3>3 DEF TheFeed!FoldsWhatWasFed
  <2> QED BY <2>1, <2>2
<1> QED BY <1>2, <1>4 DEF TheFeed!FeedIsWhole

THEOREM FeedServes == ASSUME FeedAssumption PROVE TheFeed!Spec => []TheFeed!FeedIsWhole
<1>1. TheFeed!Init => FeedInv
  BY FeedStarts
<1>2. FeedInv /\ [TheFeed!Next]_(TheFeed!vars) => FeedInv'
  BY FeedKeeps
<1>3. FeedInv => TheFeed!FeedIsWhole
  BY FeedShows
<1> QED BY <1>1, <1>2, <1>3, PTL DEF TheFeed!Spec

----------------------------------------------------------------------------
(* Playback: the playhead of the page.                                     *)

CONSTANTS None, PlayEvents, PlayRuns, Gaps, Ticks, GAP_FLOOR, GAP_CAP, Second
VARIABLES pb_times, pb_runs, pb_held, pb_playback, pb_due

ThePlayback == INSTANCE Playback WITH
  times <- pb_times, runs <- pb_runs, held <- pb_held, playback <- pb_playback, due <- pb_due,
  MaxEvents <- PlayEvents, MaxRuns <- PlayRuns, Gaps <- Gaps, Ticks <- Ticks, GAP_FLOOR <- GAP_FLOOR,
  GAP_CAP <- GAP_CAP, Second <- Second, None <- None

(* A quotient of a number that is at most b times the divisor. *)
LEMMA Quotient ==
  ASSUME NEW x \in Nat, NEW w \in Nat, w > 0, NEW b \in Nat, x <= b * w
  PROVE x \div w \in Nat /\ x \div w <= b
<1>1. PICK q : q = x \div w
  OBVIOUS
<1>2. q \in Int /\ q * w <= x /\ x < (q + 1) * w
  BY <1>1
<1>3. q >= 0
  <2> SUFFICES ASSUME q <= -1 PROVE FALSE
    BY <1>2
  <2>1. (q + 1) * w <= 0
    BY <1>2
  <2> QED BY <1>2, <2>1
<1>4. q <= b
  <2> SUFFICES ASSUME b + 1 <= q PROVE FALSE
    BY <1>2
  <2>1. (b + 1) * w <= q * w
    BY <1>2
  <2>2. (b + 1) * w = b * w + w
    OBVIOUS
  <2> QED BY <1>2, <2>1, <2>2
<1> QED BY <1>1, <1>2, <1>3, <1>4
(* A share of a gap is within it. *)
LEMMA Share ==
  ASSUME NEW e \in Nat, NEW g \in Nat, NEW w \in Nat, w > 0, e <= w
  PROVE (e * 6 * g) \div w \in 0..6 * g
<1>1. e * 6 * g \in Nat /\ 6 * g \in Nat
  OBVIOUS
<1>2. e * 6 * g <= (6 * g) * w
  <2>1. e * (6 * g) <= w * (6 * g)
    OBVIOUS
  <2> QED BY <2>1
<1> QED BY <1>1, <1>2, Quotient

LEMMA MinIs ==
  ASSUME NEW S \in SUBSET Int, NEW x \in S, \A y \in S : x <= y
  PROVE  ThePlayback!Min(S) = x
<1>1. PICK m : m = CHOOSE z \in S : \A y \in S : z <= y
  OBVIOUS
<1>2. m \in S /\ \A y \in S : m <= y
  BY <1>1
<1>3. m <= x /\ x <= m /\ m \in Int /\ x \in Int
  BY <1>2
<1>4. m = x
  BY <1>3
<1> QED BY <1>1, <1>4 DEF ThePlayback!Min

LEMMA MaxIs ==
  ASSUME NEW S \in SUBSET Int, NEW x \in S, \A y \in S : x >= y
  PROVE  ThePlayback!Max(S) = x
<1>1. PICK m : m = CHOOSE z \in S : \A y \in S : z >= y
  OBVIOUS
<1>2. m \in S /\ \A y \in S : m >= y
  BY <1>1
<1>3. m <= x /\ x <= m /\ m \in Int /\ x \in Int
  BY <1>2
<1>4. m = x
  BY <1>3
<1> QED BY <1>1, <1>4 DEF ThePlayback!Max

LEMMA LeastIs ==
  ASSUME NEW S \in SUBSET Nat, S # {}
  PROVE  ThePlayback!Min(S) \in S /\ \A y \in S : ThePlayback!Min(S) <= y
<1>1. PICK x \in S : \A y \in S : x <= y
  BY NatMin
<1>2. ThePlayback!Min(S) = x
  BY <1>1, MinIs
<1> QED BY <1>1, <1>2

LEMMA GreatestIs ==
  ASSUME NEW n \in Nat, NEW S \in SUBSET (0..n), S # {}
  PROVE  ThePlayback!Max(S) \in S /\ \A y \in S : y <= ThePlayback!Max(S)
<1>1. PICK T : T = {n - x : x \in S}
  OBVIOUS
<1>2. T \in SUBSET Nat /\ T # {}
  <2>1. ASSUME NEW x \in S PROVE n - x \in Nat
    <3>1. x \in 0..n
      OBVIOUS
    <3> QED BY <3>1
  <2>2. PICK x : x \in S
    OBVIOUS
  <2>3. n - x \in T
    BY <1>1, <2>2
  <2> QED BY <1>1, <2>1, <2>3
<1>3. PICK t \in T : \A u \in T : t <= u
  BY <1>2, NatMin
<1>4. PICK x \in S : t = n - x
  BY <1>1, <1>3
<1>5. \A y \in S : x >= y
  <2> SUFFICES ASSUME NEW y \in S PROVE x >= y
    OBVIOUS
  <2>1. n - y \in T
    BY <1>1
  <2>2. n - x <= n - y
    BY <1>3, <1>4, <2>1
  <2>3. x \in Int /\ y \in Int
    OBVIOUS
  <2> QED BY <2>2, <2>3
<1>6. ThePlayback!Max(S) = x
  <2>1. S \in SUBSET Int
    OBVIOUS
  <2> QED BY <1>5, <2>1, MaxIs
<1> QED BY <1>5, <1>6

LEMMA OfTwo ==
  ASSUME NEW a \in Int, NEW b \in Int
  PROVE  /\ ThePlayback!Min({a, b}) = IF a <= b THEN a ELSE b
         /\ ThePlayback!Max({a, b}) = IF a >= b THEN a ELSE b
<1>1. {a, b} \in SUBSET Int /\ a \in {a, b} /\ b \in {a, b}
  OBVIOUS
<1>2. ThePlayback!Min({a, b}) = IF a <= b THEN a ELSE b
  <2>1. CASE a <= b
    <3>1. \A y \in {a, b} : a <= y
      BY <2>1
    <3> QED BY <1>1, <2>1, <3>1, MinIs
  <2>2. CASE ~(a <= b)
    <3>1. \A y \in {a, b} : b <= y
      BY <2>2
    <3> QED BY <1>1, <2>2, <3>1, MinIs
  <2> QED BY <2>1, <2>2
<1>3. ThePlayback!Max({a, b}) = IF a >= b THEN a ELSE b
  <2>1. CASE a >= b
    <3>1. \A y \in {a, b} : a >= y
      BY <2>1
    <3> QED BY <1>1, <2>1, <3>1, MaxIs
  <2>2. CASE ~(a >= b)
    <3>1. \A y \in {a, b} : b >= y
      BY <2>2
    <3> QED BY <1>1, <2>2, <3>1, MaxIs
  <2> QED BY <2>1, <2>2
<1> QED BY <1>2, <1>3

(* What never falls from one to the next never falls. *)
LEMMA Rises ==
  ASSUME NEW n \in Nat, NEW f, \A i \in 1..n : f[i] \in Nat, \A i \in 1..n : i # 1 => f[i - 1] <= f[i],
         NEW i \in 1..n, NEW j \in 1..n, i <= j
  PROVE  f[i] <= f[j]
<1>1. PICK Bad : Bad = {k \in 1..n : i <= k /\ ~(f[i] <= f[k])}
  OBVIOUS
<1>2. Bad = {}
  <2> SUFFICES ASSUME Bad # {} PROVE FALSE
    OBVIOUS
  <2>1. PICK k \in Bad : \A l \in Bad : k <= l
    <3>1. Bad \in SUBSET Nat
      BY <1>1
    <3> QED BY <3>1, NatMin
  <2>2. k \in 1..n /\ i <= k /\ ~(f[i] <= f[k])
    BY <1>1
  <2>3. k # i
    BY <2>2
  <2>4. k - 1 \in 1..n /\ i <= k - 1 /\ ~(k <= k - 1) /\ k # 1
    BY <2>2, <2>3
  <2>5. f[i] <= f[k - 1] /\ f[k - 1] <= f[k]
    BY <1>1, <2>1, <2>2, <2>4
  <2>6. f[i] \in Nat /\ f[k - 1] \in Nat /\ f[k] \in Nat
    BY <2>2, <2>4
  <2> QED BY <2>2, <2>5, <2>6
<1> QED BY <1>1, <1>2

----------------------------------------------------------------------------
PlaybackAssumption ==
  /\ Gaps \subseteq Int /\ Ticks \subseteq Nat
  /\ GAP_FLOOR \in Nat /\ GAP_CAP \in Nat \ {0} /\ Second \in Nat

(* The clock of the run starts at T+0 and never falls below it. *)
TimesInv ==
  /\ pb_times \in Seq(Nat)
  /\ ThePlayback!Count > 0 => pb_times[1] = 0

(* What the stamps of a run need not do. *)
NeverFalls == \A j \in 1..ThePlayback!Count - 1 : ThePlayback!At(j - 1) <= ThePlayback!At(j)

Dial ==
  [playing : BOOLEAN, stepping : BOOLEAN, speed : 1..3, compress : BOOLEAN, loop : BOOLEAN, anchor : Nat, since : Nat]

DialInv == pb_playback \in Dial

ClockInv == pb_playback.speed \in 1..3 /\ pb_playback.anchor \in Nat /\ pb_playback.since \in Nat

(* How long the i-th event waits in a performance. *)
Wait(i) ==
  LET gap == ThePlayback!paced(pb_times[i] - pb_times[i - 1])
  IN  IF pb_playback.compress THEN ThePlayback!Min({gap, 6 * GAP_CAP}) ELSE gap

Wall(n, wall) == wall = [i \in 1..n |-> IF i = 1 THEN 0 ELSE wall[i - 1] + Wait(i)]

LEMMA PlanChosen == ThePlayback!plan = CHOOSE wall : Wall(ThePlayback!Count, wall)
BY DEF ThePlayback!plan, Wall, Wait

LEMMA WallExists ==
  ASSUME NEW n \in Nat
  PROVE  \E wall : Wall(n, wall)
<1> DEFINE Has(m) == \E wall : Wall(m, wall)
           Bad == {m \in Nat : ~Has(m)}
<1>1. Has(0)
  <2>1. PICK wall : wall = [i \in 1..0 |-> 0]
    OBVIOUS
  <2>2. Wall(0, wall)
    BY <2>1 DEF Wall
  <2> QED BY <2>2
<1>2. ASSUME NEW m \in Nat, m > 0, Has(m - 1) PROVE Has(m)
  <2>1. PICK wall : Wall(m - 1, wall)
    BY <1>2
  <2>2. PICK more : more = [i \in 1..m |-> IF i < m THEN wall[i] ELSE IF m = 1 THEN 0 ELSE wall[m - 1] + Wait(m)]
    OBVIOUS
  <2>3. ASSUME NEW i \in 1..m PROVE more[i] = IF i = 1 THEN 0 ELSE more[i - 1] + Wait(i)
    <3>1. i # 1 => more[i - 1] = wall[i - 1]
      BY <2>2
    <3>2. CASE i = m
      BY <2>2, <3>1, <3>2
    <3>3. CASE i # m
      <4>1. i \in 1..m - 1 /\ more[i] = wall[i]
        BY <2>2, <3>3
      <4>2. wall[i] = IF i = 1 THEN 0 ELSE wall[i - 1] + Wait(i)
        BY <2>1, <4>1 DEF Wall
      <4> QED BY <3>1, <4>1, <4>2
    <3> QED BY <3>2, <3>3
  <2>4. Wall(m, more)
    BY <2>2, <2>3 DEF Wall
  <2> QED BY <2>4
<1> HIDE DEF Has
<1>3. Bad = {}
  <2> SUFFICES ASSUME Bad # {} PROVE FALSE
    OBVIOUS
  <2>1. PICK m \in Bad : \A k \in Bad : m <= k
    BY NatMin
  <2>2. m \in Nat /\ ~Has(m) /\ m # 0
    BY <1>1
  <2>3. m - 1 \in Nat /\ m > 0 /\ ~(m <= m - 1)
    BY <2>2
  <2>4. Has(m - 1)
    BY <2>1, <2>3
  <2> QED BY <1>2, <2>2, <2>3, <2>4
<1>4. Has(n)
  BY <1>3
<1> QED BY <1>4 DEF Has

(* An event waits if and only if it comes later than the one before it. *)
LEMMA WaitIs ==
  ASSUME PlaybackAssumption, TimesInv, ClockInv, NEW i \in 1..ThePlayback!Count, i # 1
  PROVE  Wait(i) \in Nat /\ (Wait(i) > 0 <=> pb_times[i] > pb_times[i - 1])
<1>1. PICK gap : gap = pb_times[i] - pb_times[i - 1]
  OBVIOUS
<1>2. pb_times[i] \in Nat /\ pb_times[i - 1] \in Nat /\ gap \in Int
        /\ (gap > 0 <=> pb_times[i] > pb_times[i - 1])
  <2>1. i \in DOMAIN pb_times /\ i - 1 \in DOMAIN pb_times /\ pb_times \in Seq(Nat)
    BY DEF TimesInv, ThePlayback!Count
  <2>2. pb_times[i] \in Nat /\ pb_times[i - 1] \in Nat
    BY <2>1
  <2> QED BY <1>1, <2>2
<1>3. PICK most \in Nat : most = (IF gap > 0 THEN ThePlayback!Max({gap, GAP_FLOOR}) ELSE 0)
             /\ (most > 0 <=> gap > 0)
  <2>1. CASE gap > 0
    <3>1. ThePlayback!Max({gap, GAP_FLOOR}) = IF gap >= GAP_FLOOR THEN gap ELSE GAP_FLOOR
      <4>1. gap \in Int /\ GAP_FLOOR \in Int
        BY <1>2 DEF PlaybackAssumption
      <4> QED BY <4>1, OfTwo
    <3>2. ThePlayback!Max({gap, GAP_FLOOR}) \in Nat /\ ThePlayback!Max({gap, GAP_FLOOR}) > 0
      BY <1>2, <2>1, <3>1 DEF PlaybackAssumption
    <3> QED BY <2>1, <3>2
  <2>2. CASE ~(gap > 0)
    <3>1. 0 \in Nat
      OBVIOUS
    <3> QED BY <2>2, <3>1
  <2> QED BY <2>1, <2>2
<1>4. PICK p : p = ThePlayback!paced(gap)
  OBVIOUS
<1>5. p \in Nat /\ (p > 0 <=> gap > 0)
  <2>1. p = (most * 6) \div pb_playback.speed
    BY <1>3, <1>4 DEF ThePlayback!paced
  <2>2. pb_playback.speed = 1 \/ pb_playback.speed = 2 \/ pb_playback.speed = 3
    BY DEF ClockInv
  <2>3. p \in Nat /\ (p > 0 <=> most > 0)
    <3>1. CASE p = (most * 6) \div 1
      BY <3>1
    <3>2. CASE p = (most * 6) \div 2
      BY <3>2
    <3>3. CASE p = (most * 6) \div 3
      BY <3>3
    <3> QED BY <2>1, <2>2, <3>1, <3>2, <3>3
  <2> QED BY <1>3, <2>3
<1>6. Wait(i) = IF pb_playback.compress THEN ThePlayback!Min({p, 6 * GAP_CAP}) ELSE p
  BY <1>1, <1>4 DEF Wait
<1>7. ThePlayback!Min({p, 6 * GAP_CAP}) \in Nat /\ (ThePlayback!Min({p, 6 * GAP_CAP}) > 0 <=> p > 0)
  <2>1. 6 * GAP_CAP \in Nat /\ 6 * GAP_CAP > 0
    BY DEF PlaybackAssumption
  <2>2. ThePlayback!Min({p, 6 * GAP_CAP}) = IF p <= 6 * GAP_CAP THEN p ELSE 6 * GAP_CAP
    BY <1>5, <2>1, OfTwo
  <2> QED BY <1>5, <2>1, <2>2
<1> QED BY <1>2, <1>5, <1>6, <1>7

Top == ThePlayback!Max({0, ThePlayback!Count - 1})

(* The playhead is on the run, one of the hand and the clock drives it, and *)
(* only what is still to be performed may leave the clock behind the head.  *)
HeadInv ==
  /\ pb_held = None \/ pb_held \in 0..Top
  /\ ~(pb_playback.playing /\ pb_playback.stepping)
  /\ pb_playback.playing => ThePlayback!Count > 0 /\ pb_playback.anchor < ThePlayback!Count
  /\ pb_due \in BOOLEAN
  /\ pb_due => pb_playback.playing
  /\ pb_playback.playing /\ ~pb_due
       => ~ThePlayback!done /\ pb_held = ThePlayback!position_at(ThePlayback!play_elapsed)

PlayInv == TimesInv /\ DialInv /\ ClockInv /\ HeadInv

LEMMA CountIs == TimesInv => ThePlayback!Count \in Nat /\ \A i \in 1..ThePlayback!Count : pb_times[i] \in Nat
BY DEF TimesInv, ThePlayback!Count

LEMMA TopIs ==
  ASSUME TimesInv
  PROVE  Top = (IF ThePlayback!Count = 0 THEN 0 ELSE ThePlayback!Count - 1) /\ Top \in Nat
<1>1. ThePlayback!Count \in Nat
  BY CountIs
<1>2. PICK c \in Int : c = ThePlayback!Count - 1
  BY <1>1
<1>3. ThePlayback!Max({0, c}) = IF 0 >= c THEN 0 ELSE c
  BY OfTwo
<1> QED BY <1>1, <1>2, <1>3 DEF Top

LEMMA AtIs ==
  ASSUME TimesInv, NEW i \in 0..ThePlayback!Count - 1
  PROVE  ThePlayback!At(i) \in Nat
<1>1. ThePlayback!Count \in Nat /\ \A k \in 1..ThePlayback!Count : pb_times[k] \in Nat
  BY CountIs
<1>2. i + 1 \in 1..ThePlayback!Count
  BY <1>1
<1> QED BY <1>1, <1>2 DEF ThePlayback!At

(* Where the stamps never fall, a later event is not stamped earlier. *)
LEMMA AtRises ==
  ASSUME TimesInv, NeverFalls, NEW i \in 0..ThePlayback!Count - 1, NEW j \in 0..ThePlayback!Count - 1, i <= j
  PROVE  ThePlayback!At(i) <= ThePlayback!At(j)
<1>1. ThePlayback!Count \in Nat /\ \A k \in 1..ThePlayback!Count : pb_times[k] \in Nat
  BY CountIs
<1>2. ASSUME NEW k \in 1..ThePlayback!Count, k # 1 PROVE pb_times[k - 1] <= pb_times[k]
  <2>1. k - 1 \in 1..ThePlayback!Count - 1 /\ (k - 1) - 1 + 1 = k - 1 /\ (k - 1) + 1 = k
    BY <1>1, <1>2
  <2>2. ThePlayback!At((k - 1) - 1) <= ThePlayback!At(k - 1)
    BY <2>1 DEF NeverFalls
  <2> QED BY <2>1, <2>2 DEF ThePlayback!At
<1>3. i + 1 \in 1..ThePlayback!Count /\ j + 1 \in 1..ThePlayback!Count /\ i + 1 <= j + 1
  BY <1>1
<1>4. pb_times[i + 1] <= pb_times[j + 1]
  BY <1>1, <1>2, <1>3, Rises
<1> QED BY <1>4 DEF ThePlayback!At

LEMMA PlanIs ==
  ASSUME PlaybackAssumption, TimesInv, ClockInv
  PROVE  /\ DOMAIN ThePlayback!plan = 1..ThePlayback!Count
         /\ \A i \in 1..ThePlayback!Count : ThePlayback!plan[i] = (IF i = 1 THEN 0 ELSE ThePlayback!plan[i - 1] + Wait(i)) /\ ThePlayback!plan[i] \in Nat
<1>0. ThePlayback!Count \in Nat
  BY CountIs
<1>1. Wall(ThePlayback!Count, ThePlayback!plan)
  BY <1>0, PlanChosen, WallExists
<1>2. DOMAIN ThePlayback!plan = 1..ThePlayback!Count
        /\ \A i \in 1..ThePlayback!Count : ThePlayback!plan[i] = (IF i = 1 THEN 0 ELSE ThePlayback!plan[i - 1] + Wait(i))
  BY <1>1 DEF Wall
<1>3. PICK Bad : Bad = {k \in 1..ThePlayback!Count : ThePlayback!plan[k] \notin Nat}
  OBVIOUS
<1>4. Bad = {}
  <2> SUFFICES ASSUME Bad # {} PROVE FALSE
    OBVIOUS
  <2>1. PICK k \in Bad : \A l \in Bad : k <= l
    <3>1. Bad \in SUBSET Nat
      BY <1>0, <1>3
    <3> QED BY <3>1, NatMin
  <2>2. k \in 1..ThePlayback!Count /\ ThePlayback!plan[k] \notin Nat
    BY <1>3
  <2>3. k # 1
    BY <1>2, <2>2
  <2>4. k - 1 \in 1..ThePlayback!Count /\ ~(k <= k - 1)
    BY <1>0, <2>2, <2>3
  <2>5. ThePlayback!plan[k - 1] \in Nat
    BY <1>3, <2>1, <2>4
  <2>6. Wait(k) \in Nat
    BY <2>2, <2>3, WaitIs
  <2>7. ThePlayback!plan[k] = ThePlayback!plan[k - 1] + Wait(k)
    BY <1>2, <2>2, <2>3
  <2> QED BY <2>2, <2>5, <2>6, <2>7
<1> QED BY <1>2, <1>3, <1>4

(* The plan rises with the run, and strictly where the run does. *)
LEMMA PlanRises ==
  ASSUME PlaybackAssumption, TimesInv, ClockInv, NEW i \in 1..ThePlayback!Count, NEW j \in 1..ThePlayback!Count,
           i <= j
  PROVE  /\ ThePlayback!plan[i] \in Nat /\ ThePlayback!plan[j] \in Nat /\ ThePlayback!plan[i] <= ThePlayback!plan[j]
         /\ j = i + 1 => (ThePlayback!plan[i] < ThePlayback!plan[j] <=> pb_times[i] < pb_times[j])
<1>0. ThePlayback!Count \in Nat /\ pb_times[i] \in Nat /\ pb_times[j] \in Nat
  BY CountIs
<1>1. \A k \in 1..ThePlayback!Count : ThePlayback!plan[k] \in Nat
  BY PlanIs
<1>2. ASSUME NEW k \in 1..ThePlayback!Count, k # 1
      PROVE  ThePlayback!plan[k - 1] <= ThePlayback!plan[k]
               /\ (ThePlayback!plan[k - 1] < ThePlayback!plan[k] <=> pb_times[k - 1] < pb_times[k])
  <2>1. ThePlayback!plan[k] = ThePlayback!plan[k - 1] + Wait(k)
    BY <1>2, PlanIs
  <2>2. Wait(k) \in Nat /\ (Wait(k) > 0 <=> pb_times[k] > pb_times[k - 1])
    BY <1>2, WaitIs
  <2>3. k - 1 \in 1..ThePlayback!Count
    BY <1>0, <1>2
  <2>4. ThePlayback!plan[k - 1] \in Nat /\ pb_times[k - 1] \in Nat /\ pb_times[k] \in Nat
    BY <1>1, <2>3, CountIs
  <2> QED BY <2>1, <2>2, <2>4
<1>3. ThePlayback!plan[i] <= ThePlayback!plan[j]
  BY <1>0, <1>1, <1>2, Rises
<1>4. ASSUME j = i + 1 PROVE ThePlayback!plan[i] < ThePlayback!plan[j] <=> pb_times[i] < pb_times[j]
  <2>1. j # 1 /\ j - 1 = i
    BY <1>0, <1>4
  <2> QED BY <1>2, <2>1
<1> QED BY <1>1, <1>3, <1>4

(* The last event at or behind a moment, and the next, which is ahead of it. *)
LEMMA PositionIs ==
  ASSUME PlaybackAssumption, TimesInv, ClockInv, ThePlayback!Count > 0, NEW e \in Nat
  PROVE  /\ ThePlayback!position_at(e) \in 0..ThePlayback!Count - 1
         /\ ThePlayback!plan[ThePlayback!position_at(e) + 1] <= e
         /\ \A j \in 0..ThePlayback!Count - 1 : ThePlayback!plan[j + 1] <= e => j <= ThePlayback!position_at(e)
<1>0. ThePlayback!Count \in Nat /\ ThePlayback!Count - 1 \in Nat
  BY CountIs
<1>1. PICK S : S = {j \in 0..ThePlayback!Count - 1 : ThePlayback!plan[j + 1] <= e}
  OBVIOUS
<1>2. S \in SUBSET (0..ThePlayback!Count - 1)
  BY <1>1
<1>3. 0 \in S
  <2>1. 1 \in 1..ThePlayback!Count /\ 0 \in 0..ThePlayback!Count - 1
    BY <1>0
  <2>2. ThePlayback!plan[1] = 0
    BY <2>1, PlanIs
  <2>3. ThePlayback!plan[0 + 1] <= e
    BY <2>2
  <2> QED BY <1>1, <2>1, <2>3
<1>4. ThePlayback!Max(S) \in S /\ \A y \in S : y <= ThePlayback!Max(S)
  BY <1>0, <1>2, <1>3, GreatestIs
<1>5. ThePlayback!position_at(e) = ThePlayback!Max(S)
  BY <1>1 DEF ThePlayback!position_at
<1> QED BY <1>1, <1>4, <1>5

(* A performance stands on the last event of each moment. *)
LEMMA PerformedIs ==
  ASSUME PlaybackAssumption, TimesInv, ClockInv, ThePlayback!Count > 0
  PROVE  ThePlayback!Performed = {j \in 0..ThePlayback!Count - 1 : j = ThePlayback!Count - 1
           \/ ThePlayback!At(j + 1) > ThePlayback!At(j)}
<1>0. ThePlayback!Count \in Nat /\ ThePlayback!Count - 1 \in Nat
  BY CountIs
<1>1. DOMAIN ThePlayback!plan = 1..ThePlayback!Count /\ \A k \in 1..ThePlayback!Count : ThePlayback!plan[k] \in Nat
  BY PlanIs
<1>2. ASSUME NEW k \in 1..ThePlayback!Count, NEW j, j = ThePlayback!position_at(ThePlayback!plan[k])
      PROVE  j \in 0..ThePlayback!Count - 1
               /\ (j = ThePlayback!Count - 1 \/ ThePlayback!At(j + 1) > ThePlayback!At(j))
  <2>1. j \in 0..ThePlayback!Count - 1 /\ ThePlayback!plan[j + 1] <= ThePlayback!plan[k]
          /\ \A m \in 0..ThePlayback!Count - 1 : ThePlayback!plan[m + 1] <= ThePlayback!plan[k] => m <= j
    BY <1>1, <1>2, PositionIs
  <2>2. ASSUME j # ThePlayback!Count - 1 PROVE ThePlayback!At(j + 1) > ThePlayback!At(j)
    <3>1. j + 1 \in 0..ThePlayback!Count - 1 /\ j + 1 \in 1..ThePlayback!Count
            /\ (j + 1) + 1 \in 1..ThePlayback!Count /\ ~(j + 1 <= j)
      BY <1>0, <2>1, <2>2
    <3>2. ~(ThePlayback!plan[(j + 1) + 1] <= ThePlayback!plan[k])
      BY <2>1, <3>1
    <3>3. ThePlayback!plan[(j + 1) + 1] \in Nat /\ ThePlayback!plan[j + 1] \in Nat /\ ThePlayback!plan[k] \in Nat
      BY <1>1, <3>1
    <3>4. ThePlayback!plan[j + 1] < ThePlayback!plan[(j + 1) + 1]
      BY <2>1, <3>2, <3>3
    <3>5. j + 1 <= (j + 1) + 1
      BY <3>1
    <3>6. pb_times[j + 1] < pb_times[(j + 1) + 1]
      BY <3>1, <3>4, <3>5, PlanRises
    <3> QED BY <3>6 DEF ThePlayback!At
  <2> QED BY <2>1, <2>2
<1>3. ASSUME NEW j \in 0..ThePlayback!Count - 1, j = ThePlayback!Count - 1
               \/ ThePlayback!At(j + 1) > ThePlayback!At(j)
      PROVE  j + 1 \in 1..ThePlayback!Count /\ j = ThePlayback!position_at(ThePlayback!plan[j + 1])
  <2>1. j + 1 \in 1..ThePlayback!Count
    BY <1>0
  <2>2. PICK p : p = ThePlayback!position_at(ThePlayback!plan[j + 1])
    OBVIOUS
  <2>3. p \in 0..ThePlayback!Count - 1 /\ ThePlayback!plan[p + 1] <= ThePlayback!plan[j + 1]
          /\ \A m \in 0..ThePlayback!Count - 1 : ThePlayback!plan[m + 1] <= ThePlayback!plan[j + 1] => m <= p
    BY <1>1, <2>1, <2>2, PositionIs
  <2>4. ThePlayback!plan[j + 1] <= ThePlayback!plan[j + 1]
    BY <1>1, <2>1
  <2>5. j <= p
    BY <2>3, <2>4
  <2>6. ~(j < p)
    <3> SUFFICES ASSUME j < p PROVE FALSE
      OBVIOUS
    <3>1. (j + 1) + 1 \in 1..ThePlayback!Count /\ p + 1 \in 1..ThePlayback!Count /\ (j + 1) + 1 <= p + 1
            /\ j # ThePlayback!Count - 1
            /\ j + 1 <= (j + 1) + 1
      BY <1>0, <2>3
    <3>2. pb_times[j + 1] < pb_times[(j + 1) + 1]
      <4>1. ThePlayback!At(j + 1) > ThePlayback!At(j)
        BY <1>3, <3>1
      <4>2. pb_times[j + 1] \in Nat /\ pb_times[(j + 1) + 1] \in Nat
        BY <2>1, <3>1, CountIs
      <4> QED BY <4>1, <4>2 DEF ThePlayback!At
    <3>3. ThePlayback!plan[j + 1] < ThePlayback!plan[(j + 1) + 1]
      BY <2>1, <3>1, <3>2, PlanRises
    <3>4. ThePlayback!plan[(j + 1) + 1] <= ThePlayback!plan[p + 1]
      BY <3>1, PlanRises
    <3>5. ThePlayback!plan[j + 1] \in Nat /\ ThePlayback!plan[(j + 1) + 1] \in Nat
            /\ ThePlayback!plan[p + 1] \in Nat
      BY <1>1, <2>1, <3>1
    <3> QED BY <2>3, <3>3, <3>4, <3>5
  <2> QED BY <2>1, <2>2, <2>3, <2>5, <2>6
<1>4. PICK Stands : Stands = {j \in 0..ThePlayback!Count - 1 : j = ThePlayback!Count - 1
             \/ ThePlayback!At(j + 1) > ThePlayback!At(j)}
  OBVIOUS
<1>5. ASSUME NEW x \in ThePlayback!Performed PROVE x \in Stands
  <2>1. PICK k \in 1..ThePlayback!Count : x = ThePlayback!position_at(ThePlayback!plan[k])
    BY <1>1, <1>5 DEF ThePlayback!Performed
  <2> QED BY <1>2, <1>4, <2>1
<1>6. ASSUME NEW x \in Stands PROVE x \in ThePlayback!Performed
  <2>1. x \in 0..ThePlayback!Count - 1 /\ (x = ThePlayback!Count - 1 \/ ThePlayback!At(x + 1) > ThePlayback!At(x))
    BY <1>4, <1>6
  <2>2. x + 1 \in DOMAIN ThePlayback!plan /\ x = ThePlayback!position_at(ThePlayback!plan[x + 1])
    BY <1>1, <1>3, <2>1
  <2> QED BY <2>2 DEF ThePlayback!Performed
<1> QED BY <1>4, <1>5, <1>6

LEMMA SpanIs ==
  ASSUME TimesInv
  PROVE  ThePlayback!span \in Nat /\ (ThePlayback!Count > 0 => ThePlayback!span = ThePlayback!At(ThePlayback!Count - 1))
<1>1. ThePlayback!Count \in Nat
  BY CountIs
<1>2. CASE ThePlayback!Count = 0
  BY <1>2 DEF ThePlayback!span
<1>3. CASE ThePlayback!Count # 0
  <2>1. ThePlayback!Count - 1 \in 0..ThePlayback!Count - 1
    BY <1>1, <1>3
  <2>2. ThePlayback!At(ThePlayback!Count - 1) \in Nat
    BY <2>1, AtIs
  <2> QED BY <1>3, <2>2 DEF ThePlayback!span
<1> QED BY <1>2, <1>3

(* A clock that is not spent is at an event, on the way to the next. *)
LEMMA Underway ==
  ASSUME PlaybackAssumption, TimesInv, ClockInv, ThePlayback!Count > 0, pb_playback.anchor < ThePlayback!Count,
           ~ThePlayback!done,
         pb_held = ThePlayback!position_at(ThePlayback!play_elapsed)
  PROVE  ThePlayback!t_plus \in 6 * ThePlayback!At(pb_held)..6 * ThePlayback!At(pb_held + 1)
<1>0. ThePlayback!Count \in Nat /\ ThePlayback!Count - 1 \in Nat
  BY CountIs
<1>1. PICK e : e = ThePlayback!play_elapsed
  OBVIOUS
<1>2. e \in Nat
  <2>1. pb_playback.anchor + 1 \in 1..ThePlayback!Count /\ pb_playback.since \in Nat
    BY <1>0 DEF ClockInv
  <2>2. ThePlayback!plan[pb_playback.anchor + 1] \in Nat
    BY <2>1, PlanIs
  <2> QED BY <1>1, <2>1, <2>2 DEF ThePlayback!play_elapsed
<1>3. pb_held = ThePlayback!position_at(e)
  BY <1>1
<1>4. pb_held \in 0..ThePlayback!Count - 1 /\ ThePlayback!plan[pb_held + 1] <= e
        /\ \A j \in 0..ThePlayback!Count - 1 : ThePlayback!plan[j + 1] <= e => j <= pb_held
  BY <1>2, <1>3, PositionIs
<1>5. ThePlayback!Count \in 1..ThePlayback!Count /\ ThePlayback!plan[ThePlayback!Count] \in Nat
  <2>1. ThePlayback!Count \in 1..ThePlayback!Count
    BY <1>0
  <2> QED BY <2>1, PlanIs
<1>6. e < ThePlayback!plan[ThePlayback!Count]
  BY <1>1, <1>2, <1>5 DEF ThePlayback!done
<1>7. pb_held # ThePlayback!Count - 1
  <2> SUFFICES ASSUME pb_held = ThePlayback!Count - 1 PROVE FALSE
    OBVIOUS
  <2>1. pb_held + 1 = ThePlayback!Count
    BY <1>0
  <2> QED BY <1>2, <1>4, <1>5, <1>6, <2>1
<1>8. pb_held + 1 \in 0..ThePlayback!Count - 1 /\ pb_held + 1 \in 1..ThePlayback!Count
        /\ pb_held + 2 \in 1..ThePlayback!Count /\ pb_held \in Int
        /\ ~(pb_held + 1 <= pb_held) /\ (pb_held + 1) + 1 = pb_held + 2 /\ pb_held <= pb_held + 1
  BY <1>0, <1>4, <1>7
<1>9. ThePlayback!plan[pb_held + 1] \in Nat /\ ThePlayback!plan[pb_held + 2] \in Nat
  BY <1>8, PlanIs
<1>10. e < ThePlayback!plan[pb_held + 2]
  <2>1. ~(ThePlayback!plan[(pb_held + 1) + 1] <= e)
    BY <1>4, <1>8
  <2> QED BY <1>2, <1>8, <1>9, <2>1
<1>11. ThePlayback!At(pb_held) \in Nat /\ ThePlayback!At(pb_held + 1) \in Nat
         /\ ThePlayback!At(pb_held) <= ThePlayback!At(pb_held + 1)
  <2>1. ThePlayback!At(pb_held) \in Nat /\ ThePlayback!At(pb_held + 1) \in Nat
    BY <1>4, <1>8, AtIs
  <2>2. ThePlayback!plan[pb_held + 1] < ThePlayback!plan[pb_held + 2]
    BY <1>2, <1>4, <1>9, <1>10
  <2>3. pb_held + 1 \in 1..ThePlayback!Count /\ pb_held + 1 <= pb_held + 2 /\ pb_held + 2 = (pb_held + 1) + 1
    BY <1>8
  <2>4. pb_times[pb_held + 1] < pb_times[pb_held + 2]
    BY <1>8, <2>2, <2>3, PlanRises
  <2>5. ThePlayback!At(pb_held) < ThePlayback!At(pb_held + 1)
    BY <1>8, <2>4 DEF ThePlayback!At
  <2> QED BY <2>1, <2>5
<1>12. PICK a : a = e - ThePlayback!plan[pb_held + 1]
  OBVIOUS
<1>13. PICK g : g = ThePlayback!At(pb_held + 1) - ThePlayback!At(pb_held)
  OBVIOUS
<1>14. PICK w : w = ThePlayback!plan[pb_held + 2] - ThePlayback!plan[pb_held + 1]
  OBVIOUS
<1>15. a \in Nat /\ g \in Nat /\ w \in Nat /\ w > 0 /\ a <= w
  BY <1>2, <1>4, <1>9, <1>10, <1>11, <1>12, <1>13, <1>14
<1>16. (a * 6 * g) \div w \in 0..6 * g
  BY <1>15, Share
<1>17. ThePlayback!t_plus = 6 * ThePlayback!At(pb_held) + (a * 6 * g) \div w
  BY <1>1, <1>3, <1>12, <1>13, <1>14 DEF ThePlayback!t_plus
<1>18. PICK q : q = (a * 6 * g) \div w
  OBVIOUS
<1> QED BY <1>11, <1>13, <1>16, <1>17, <1>18

(* Walking by hand stops where a performance stands. *)
LEMMA BeatIs ==
  ASSUME PlaybackAssumption, TimesInv, ClockInv, ThePlayback!Count > 0, NEW i \in 0..ThePlayback!Count - 1
  PROVE  /\ ThePlayback!next_beat(i) \in 0..ThePlayback!Count - 1
         /\ ThePlayback!span > 0 => ThePlayback!next_beat(i) = ThePlayback!Min({j \in ThePlayback!Performed : j > i} \cup {ThePlayback!Count - 1})
<1>0. ThePlayback!Count \in Nat /\ ThePlayback!Count - 1 \in Nat
  BY CountIs
<1>1. PICK later : later = {j \in i + 1..ThePlayback!Count - 1 : j = ThePlayback!Count - 1
             \/ ThePlayback!At(j + 1) > ThePlayback!At(j)}
  OBVIOUS
<1>2. ThePlayback!next_beat(i) = IF ThePlayback!span = 0 THEN ThePlayback!step_event(i, 1)
        ELSE IF later = {} THEN i ELSE ThePlayback!Min(later)
  BY <1>1 DEF ThePlayback!next_beat
<1>3. CASE ThePlayback!span = 0
  <2>1. ThePlayback!step_event(i, 1) \in 0..ThePlayback!Count - 1
    <3>1. PICK top \in Nat : top = ThePlayback!Max({0, ThePlayback!Count - 1}) /\ top = ThePlayback!Count - 1
      BY <1>0, TopIs DEF Top
    <3>2. PICK n \in Int : n = i + 1 /\ n > 0
      OBVIOUS
    <3>3. ThePlayback!Max({0, n}) = n
      <4>1. ThePlayback!Max({0, n}) = IF 0 >= n THEN 0 ELSE n
        BY OfTwo
      <4> QED BY <3>2, <4>1
    <3>4. ThePlayback!Min({top, n}) = IF top <= n THEN top ELSE n
      <4>1. top \in Int
        OBVIOUS
      <4> QED BY <4>1, OfTwo
    <3>5. ThePlayback!Min({top, n}) \in 0..ThePlayback!Count - 1
      BY <1>0, <3>1, <3>2, <3>4
    <3> QED BY <3>1, <3>2, <3>3, <3>5 DEF ThePlayback!step_event, ThePlayback!Clamp
  <2> QED BY <1>2, <1>3, <2>1
<1>4. CASE ThePlayback!span # 0
  <2>1. PICK ahead : ahead = {j \in ThePlayback!Performed : j > i} \cup {ThePlayback!Count - 1}
    OBVIOUS
  <2>2. \A j : j \in later <=> j \in ThePlayback!Performed /\ j > i
    <3>1. ThePlayback!Performed = {j \in 0..ThePlayback!Count - 1 : j = ThePlayback!Count - 1
            \/ ThePlayback!At(j + 1) > ThePlayback!At(j)}
      BY PerformedIs
    <3>2. \A j : j \in i + 1..ThePlayback!Count - 1 <=> j \in 0..ThePlayback!Count - 1 /\ j > i
      BY <1>0
    <3> QED BY <1>1, <3>1, <3>2
  <2>3. CASE later = {}
    <3>1. i = ThePlayback!Count - 1
      <4> SUFFICES ASSUME i # ThePlayback!Count - 1 PROVE FALSE
        OBVIOUS
      <4>1. ThePlayback!Count - 1 \in i + 1..ThePlayback!Count - 1
        BY <1>0
      <4> QED BY <1>1, <2>3, <4>1
    <3>2. ahead = {ThePlayback!Count - 1}
      BY <2>1, <2>2, <2>3
    <3>3. ThePlayback!Min(ahead) = ThePlayback!Count - 1
      BY <1>0, <3>2, MinIs
    <3> QED BY <1>2, <1>4, <2>1, <2>3, <3>1, <3>3
  <2>4. CASE later # {}
    <3>1. later \in SUBSET Nat
      BY <1>0, <1>1
    <3>2. ThePlayback!Min(later) \in later
      BY <2>4, <3>1, LeastIs
    <3>3. ThePlayback!Count - 1 \in later
      <4>1. i # ThePlayback!Count - 1
        BY <1>0, <1>1, <2>4
      <4>2. ThePlayback!Count - 1 \in i + 1..ThePlayback!Count - 1
        BY <1>0, <4>1
      <4> QED BY <1>1, <4>2
    <3>4. ahead = later
      BY <2>1, <2>2, <3>3
    <3>5. ThePlayback!Min(later) \in 0..ThePlayback!Count - 1
      <4>1. ThePlayback!Min(later) \in i + 1..ThePlayback!Count - 1
        BY <1>1, <3>2
      <4> QED BY <1>0, <4>1
    <3>6. ThePlayback!next_beat(i) = ThePlayback!Min(later)
      BY <1>2, <1>4, <2>4
    <3> QED BY <2>1, <3>4, <3>5, <3>6
  <2> QED BY <2>3, <2>4
<1> QED BY <1>3, <1>4

(* The event that is nearest to a moment of the run. *)
LEMMA NearestIs ==
  ASSUME PlaybackAssumption, TimesInv, ThePlayback!Count > 0, ThePlayback!span > 0, NEW t \in 0..ThePlayback!span
  PROVE  /\ ThePlayback!index_at(t) \in 0..ThePlayback!Count - 1
         /\ NeverFalls => \A i \in 0..ThePlayback!Count - 1 :
              t = ThePlayback!At(i) => ThePlayback!At(ThePlayback!index_at(t)) = t
<1>0. ThePlayback!Count \in Nat /\ ThePlayback!Count - 1 \in Nat
        /\ ThePlayback!Count - 1 \in 0..ThePlayback!Count - 1
  <2>1. ThePlayback!Count \in Nat
    BY CountIs
  <2> QED BY <2>1
<1>1. ThePlayback!span \in Nat /\ ThePlayback!span = ThePlayback!At(ThePlayback!Count - 1)
  BY SpanIs
<1>2. PICK S : S = {j \in 0..ThePlayback!Count - 1 : ThePlayback!At(j) >= t}
  OBVIOUS
<1>3. S \in SUBSET Nat /\ ThePlayback!Count - 1 \in S
  BY <1>0, <1>1, <1>2
<1>4. PICK first : first = ThePlayback!Min(S)
  OBVIOUS
<1>5. first \in S /\ \A y \in S : first <= y
  BY <1>3, <1>4, LeastIs
<1>6. first \in 0..ThePlayback!Count - 1 /\ ThePlayback!At(first) >= t
  BY <1>2, <1>5
<1>7. ThePlayback!index_at(t) = IF first > 0
        /\ t - ThePlayback!At(first - 1) <= ThePlayback!At(first) - t THEN first - 1 ELSE first
  BY <1>1, <1>2, <1>4 DEF ThePlayback!index_at
<1>8. ThePlayback!index_at(t) \in 0..ThePlayback!Count - 1
  BY <1>0, <1>6, <1>7
<1>9. ASSUME NeverFalls, NEW i \in 0..ThePlayback!Count - 1, t = ThePlayback!At(i)
               PROVE ThePlayback!At(ThePlayback!index_at(t)) = t
  <2>1. ThePlayback!At(i) \in Nat /\ ThePlayback!At(first) \in Nat /\ t \in Nat
    <3>1. ThePlayback!At(i) \in Nat
      BY AtIs
    <3>2. ThePlayback!At(first) \in Nat
      BY <1>6, AtIs
    <3> QED BY <1>9, <3>1, <3>2
  <2>2. i \in S
    BY <1>2, <1>9, <2>1
  <2>3. ThePlayback!At(first) <= ThePlayback!At(i)
    BY <1>5, <1>6, <1>9, <2>2, AtRises
  <2>4. ThePlayback!At(first) = t
    BY <1>6, <1>9, <2>1, <2>3
  <2>5. ASSUME first > 0 PROVE ~(t - ThePlayback!At(first - 1) <= ThePlayback!At(first) - t)
    <3>1. first - 1 \in 0..ThePlayback!Count - 1 /\ ~(first <= first - 1)
      BY <1>0, <1>6, <2>5
    <3>2. first - 1 \notin S
      BY <1>5, <3>1
    <3>3. ThePlayback!At(first - 1) \in Nat /\ ~(ThePlayback!At(first - 1) >= t)
      <4>1. ThePlayback!At(first - 1) \in Nat
        BY <3>1, AtIs
      <4> QED BY <1>2, <3>1, <3>2, <4>1
    <3> QED BY <2>1, <2>4, <3>3
  <2>6. ThePlayback!index_at(t) = first
    BY <1>7, <2>5
  <2> QED BY <2>4, <2>6
<1> QED BY <1>8, <1>9

LEMMA PlayShows == ASSUME PlaybackAssumption, PlayInv PROVE ThePlayback!PlayheadIsWhole
<1> SUFFICES ASSUME ~pb_due PROVE
      /\ pb_held = None \/ pb_held \in 0..ThePlayback!Max({0, ThePlayback!Count - 1})
      /\ ~(pb_playback.playing /\ pb_playback.stepping)
      /\ pb_playback.playing => ~ThePlayback!done /\ pb_held = ThePlayback!position_at(ThePlayback!play_elapsed)
           /\ ThePlayback!t_plus \in 6 * ThePlayback!At(pb_held)..6 * ThePlayback!At(pb_held + 1)
      /\ ThePlayback!span > 0 => \A i \in 0..ThePlayback!Count - 1 :
           /\ ThePlayback!next_beat(i) = ThePlayback!Min({j \in ThePlayback!Performed : j > i} \cup {ThePlayback!Count - 1})
           /\ NeverFalls => ThePlayback!At(ThePlayback!index_at(ThePlayback!At(i))) = ThePlayback!At(i)
  BY DEF ThePlayback!PlayheadIsWhole, NeverFalls
<1>1. pb_held = None \/ pb_held \in 0..ThePlayback!Max({0, ThePlayback!Count - 1})
  BY DEF PlayInv, HeadInv, Top
<1>2. ~(pb_playback.playing /\ pb_playback.stepping)
  BY DEF PlayInv, HeadInv
<1>3. ASSUME pb_playback.playing
      PROVE  ~ThePlayback!done /\ pb_held = ThePlayback!position_at(ThePlayback!play_elapsed)
               /\ ThePlayback!t_plus \in 6 * ThePlayback!At(pb_held)..6 * ThePlayback!At(pb_held + 1)
  <2>1. ThePlayback!Count > 0 /\ pb_playback.anchor < ThePlayback!Count /\ ~ThePlayback!done
          /\ pb_held = ThePlayback!position_at(ThePlayback!play_elapsed)
    BY <1>3 DEF PlayInv, HeadInv
  <2>2. TimesInv /\ ClockInv
    BY DEF PlayInv
  <2> QED BY <2>1, <2>2, Underway
<1>4. ASSUME ThePlayback!span > 0, NEW i \in 0..ThePlayback!Count - 1
      PROVE  /\ ThePlayback!next_beat(i) = ThePlayback!Min({j \in ThePlayback!Performed : j > i} \cup {ThePlayback!Count - 1})
             /\ NeverFalls => ThePlayback!At(ThePlayback!index_at(ThePlayback!At(i))) = ThePlayback!At(i)
  <2>1. TimesInv /\ ClockInv
    BY DEF PlayInv
  <2>2. ThePlayback!Count \in Nat
    BY <2>1, CountIs
  <2>3. ThePlayback!Count > 0 /\ ThePlayback!Count - 1 \in 0..ThePlayback!Count - 1
    BY <2>2
  <2>4. ASSUME NeverFalls PROVE ThePlayback!At(i) \in 0..ThePlayback!span
    <3>1. ThePlayback!At(i) \in Nat /\ ThePlayback!At(ThePlayback!Count - 1) \in Nat
            /\ ThePlayback!At(i) <= ThePlayback!At(ThePlayback!Count - 1)
      <4>1. i <= ThePlayback!Count - 1
        BY <2>2
      <4> QED BY <2>1, <2>3, <2>4, <4>1, AtIs, AtRises
    <3>2. ThePlayback!span = ThePlayback!At(ThePlayback!Count - 1)
      BY <2>1, <2>3, SpanIs
    <3> QED BY <3>1, <3>2
  <2>5. NeverFalls => ThePlayback!At(ThePlayback!index_at(ThePlayback!At(i))) = ThePlayback!At(i)
    BY <1>4, <2>1, <2>3, <2>4, NearestIs
  <2> QED BY <1>4, <2>1, <2>3, <2>5, BeatIs
<1> QED BY <1>1, <1>2, <1>3, <1>4

(* A state that a handler may leave the performance in, over n events. *)
Good(dials, n) ==
  /\ dials \in Dial
  /\ ~(dials.playing /\ dials.stepping)
  /\ dials.playing => n > 0 /\ dials.anchor < n

LEMMA DialIs ==
  ASSUME PlayInv
  PROVE  Good(pb_playback, ThePlayback!Count) /\ ThePlayback!Count \in Nat /\ TimesInv /\ ClockInv
<1>1. TimesInv /\ ClockInv /\ pb_playback \in Dial
  BY DEF PlayInv, DialInv
<1>2. ThePlayback!Count \in Nat
  BY <1>1, CountIs
<1> QED BY <1>1, <1>2 DEF Good, PlayInv, HeadInv

(* What a handler does keeps the invariant; the effect that follows it does *)
(* the rest.                                                                *)
LEMMA HandledKeeps ==
  ASSUME NEW at, NEW dials, ThePlayback!Handled(at, dials), TimesInv', Good(dials, ThePlayback!Count'),
         at = None \/ at \in 0..Top'
  PROVE  PlayInv'
<1>1. pb_held' = at /\ pb_playback' = dials /\ pb_due' = dials.playing
  BY DEF ThePlayback!Handled
<1>2. DialInv'
  BY <1>1 DEF Good, DialInv
<1>3. ClockInv'
  <2>1. dials.speed \in 1..3 /\ dials.anchor \in Nat /\ dials.since \in Nat
    BY DEF Good, Dial
  <2> QED BY <1>1, <2>1 DEF ClockInv
<1>4. HeadInv'
  <2>1. pb_held' = None \/ pb_held' \in 0..Top'
    BY <1>1
  <2>2. ~(pb_playback'.playing /\ pb_playback'.stepping)
    BY <1>1 DEF Good
  <2>3. pb_playback'.playing => ThePlayback!Count' > 0 /\ pb_playback'.anchor < ThePlayback!Count'
    BY <1>1 DEF Good
  <2>4. pb_due' = pb_playback'.playing
    BY <1>1
  <2>5. pb_due' \in BOOLEAN
    <3>1. dials.playing \in BOOLEAN
      BY DEF Good, Dial
    <3> QED BY <1>1, <3>1
  <2> QED BY <2>1, <2>2, <2>3, <2>4, <2>5 DEF HeadInv
<1> QED BY <1>2, <1>3, <1>4 DEF PlayInv

LEMMA TimesStay ==
  ASSUME UNCHANGED pb_times, TimesInv
  PROVE  TimesInv' /\ ThePlayback!Count' = ThePlayback!Count /\ Top' = Top
<1>1. ThePlayback!Count' = ThePlayback!Count
  BY DEF ThePlayback!Count
<1>2. TimesInv'
  BY <1>1 DEF TimesInv
<1>3. Top' = Top
  BY <1>1 DEF Top
<1> QED BY <1>1, <1>2, <1>3

(* The handlers that leave the run as it is. *)
LEMMA Stays ==
  ASSUME PlayInv, NEW at, NEW dials, ThePlayback!Handled(at, dials), UNCHANGED pb_times,
           Good(dials, ThePlayback!Count),
         at = None \/ at \in 0..Top
  PROVE  PlayInv'
<1>1. TimesInv' /\ ThePlayback!Count' = ThePlayback!Count /\ Top' = Top
  BY TimesStay DEF PlayInv
<1> QED BY <1>1, HandledKeeps

LEMMA PlayStarts == ASSUME PlaybackAssumption, ThePlayback!Init PROVE PlayInv
<1>1. pb_times = <<>> /\ pb_held = None /\ pb_due = FALSE /\ pb_playback = ThePlayback!INITIAL_PLAYBACK
  BY DEF ThePlayback!Init
<1>2. ThePlayback!Count = 0
  BY <1>1 DEF ThePlayback!Count
<1>3. TimesInv
  <2>1. pb_times \in Seq(Nat)
    BY <1>1
  <2> QED BY <1>2, <2>1 DEF TimesInv
<1>4. pb_playback \in Dial /\ pb_playback.playing = FALSE
  BY <1>1 DEF ThePlayback!INITIAL_PLAYBACK, Dial
<1>5. ClockInv
  BY <1>4 DEF Dial, ClockInv
<1>6. HeadInv
  BY <1>1, <1>4 DEF HeadInv
<1> QED BY <1>3, <1>4, <1>5, <1>6 DEF PlayInv, DialInv

(* The fields that a handler sets, one at a time. *)
LEMMA Sets ==
  ASSUME NEW s \in Dial
  PROVE  /\ \A b \in BOOLEAN :
              /\ [s EXCEPT !.playing = b] \in Dial /\ [s EXCEPT !.stepping = b] \in Dial
              /\ [s EXCEPT !.compress = b] \in Dial /\ [s EXCEPT !.loop = b] \in Dial
         /\ \A n \in Nat : [s EXCEPT !.anchor = n] \in Dial /\ [s EXCEPT !.since = n] \in Dial
         /\ \A k \in 1..3 : [s EXCEPT !.speed = k] \in Dial
<1>1. ASSUME NEW b \in BOOLEAN
      PROVE  /\ [s EXCEPT !.playing = b] \in Dial /\ [s EXCEPT !.stepping = b] \in Dial
             /\ [s EXCEPT !.compress = b] \in Dial /\ [s EXCEPT !.loop = b] \in Dial
  BY DEF Dial
<1>2. ASSUME NEW n \in Nat
      PROVE  [s EXCEPT !.anchor = n] \in Dial /\ [s EXCEPT !.since = n] \in Dial
  BY DEF Dial
<1>3. ASSUME NEW k \in 1..3
      PROVE  [s EXCEPT !.speed = k] \in Dial
  BY DEF Dial
<1> QED BY <1>1, <1>2, <1>3

(* Turning a dial without touching the clock, and stopping it. *)
LEMMA Stopped ==
  ASSUME NEW s \in Dial, NEW n
  PROVE  Good([s EXCEPT !.playing = FALSE], n)
<1>1. [s EXCEPT !.playing = FALSE] \in Dial
  BY Sets
<1>2. [s EXCEPT !.playing = FALSE].playing = FALSE
  BY DEF Dial
<1> QED BY <1>1, <1>2 DEF Good

(* A clock that is moved is anchored on the run. *)
LEMMA AnchoredIs ==
  ASSUME NEW n \in Nat, NEW s, Good(s, n), NEW i \in Nat, s.playing => i < n
  PROVE  Good(ThePlayback!anchored(s, i), n)
<1>1. s \in Dial
  BY DEF Good
<1>2. CASE ~s.playing
  <2>1. ThePlayback!anchored(s, i) = s
    BY <1>2 DEF ThePlayback!anchored
  <2> QED BY <2>1
<1>3. CASE s.playing
  <2>1. PICK t : t = [s EXCEPT !.anchor = i]
    OBVIOUS
  <2>2. PICK u : u = [t EXCEPT !.since = 0]
    OBVIOUS
  <2>3. ThePlayback!anchored(s, i) = u
    BY <1>3, <2>1, <2>2 DEF ThePlayback!anchored
  <2>4. t \in Dial /\ t.anchor = i /\ t.playing = s.playing /\ t.stepping = s.stepping
    <3>1. t \in Dial
      BY <1>1, <2>1, Sets
    <3> QED BY <1>1, <2>1, <3>1 DEF Dial
  <2>5. u \in Dial /\ u.anchor = i /\ u.playing = s.playing /\ u.stepping = s.stepping
    <3>1. 0 \in Nat
      OBVIOUS
    <3>2. u \in Dial
      BY <2>2, <2>4, <3>1, Sets
    <3> QED BY <2>2, <2>4, <3>2 DEF Dial
  <2>6. i < n /\ n > 0
    BY <1>3
  <2> QED BY <2>3, <2>5, <2>6 DEF Good
<1> QED BY <1>2, <1>3

(* Where the playhead and the handlers' targets are. *)
LEMMA Indices ==
  ASSUME PlayInv
  PROVE  /\ Top \in Nat /\ 0 \in 0..Top /\ (ThePlayback!Count > 0 => Top = ThePlayback!Count - 1)
         /\ ThePlayback!index \in 0..Top /\ ThePlayback!step_entry_index \in 0..Top
<1>1. TimesInv /\ ThePlayback!Count \in Nat
  BY DialIs
<1>2. Top \in Nat /\ Top = (IF ThePlayback!Count = 0 THEN 0 ELSE ThePlayback!Count - 1)
  BY <1>1, TopIs
<1>3. pb_held = None \/ pb_held \in 0..Top
  BY DEF PlayInv, HeadInv
<1>4. 0 \in 0..Top /\ Top \in 0..Top
  BY <1>2
<1>5. ThePlayback!index \in 0..Top
  <2>1. CASE pb_held = None
    BY <1>4, <2>1 DEF ThePlayback!index, Top
  <2>2. CASE pb_held # None
    BY <1>3, <2>2 DEF ThePlayback!index
  <2> QED BY <2>1, <2>2
<1>6. ThePlayback!step_entry_index \in 0..Top
  <2>1. CASE pb_held = None \/ pb_held >= ThePlayback!Count - 1
    BY <1>4, <2>1 DEF ThePlayback!step_entry_index
  <2>2. CASE ~(pb_held = None \/ pb_held >= ThePlayback!Count - 1)
    BY <1>3, <2>2 DEF ThePlayback!step_entry_index
  <2> QED BY <2>1, <2>2
<1> QED BY <1>1, <1>2, <1>4, <1>5, <1>6

(* Where a key or the pointer takes the playhead. *)
LEMMA Targets ==
  ASSUME PlaybackAssumption, PlayInv, ThePlayback!Count > 0, NEW i \in 0..ThePlayback!Count - 1, NEW d \in {-1, 1}
  PROVE  ThePlayback!step_event(i, d) \in 0..ThePlayback!Count - 1
           /\ ThePlayback!step_second(i, d) \in 0..ThePlayback!Count - 1
<1>1. ThePlayback!Count \in Nat /\ ThePlayback!Count - 1 \in Nat /\ Top = ThePlayback!Count - 1 /\ d \in Int
  <2>1. ThePlayback!Count \in Nat /\ Top = ThePlayback!Count - 1
    BY DialIs, Indices
  <2> QED BY <2>1
<1>2. ThePlayback!step_event(i, d) \in 0..ThePlayback!Count - 1
  <2>1. PICK n \in Int : n = i + d
    BY <1>1
  <2>2. PICK m \in Nat : m = ThePlayback!Max({0, n})
    <3>1. ThePlayback!Max({0, n}) = IF 0 >= n THEN 0 ELSE n
      BY OfTwo
    <3>2. ThePlayback!Max({0, n}) \in Nat
      BY <3>1
    <3> QED BY <3>2
  <2>3. PICK t \in Nat : t = ThePlayback!Count - 1
    BY <1>1
  <2>4. ThePlayback!Min({t, m}) = IF t <= m THEN t ELSE m
    <3>1. t \in Int /\ m \in Int
      OBVIOUS
    <3> QED BY <3>1, OfTwo
  <2>5. ThePlayback!Min({t, m}) \in 0..t
    BY <2>4
  <2>6. ThePlayback!step_event(i, d) = ThePlayback!Min({t, m})
    BY <1>1, <2>1, <2>2, <2>3 DEF ThePlayback!step_event, ThePlayback!Clamp, Top
  <2> QED BY <2>3, <2>5, <2>6
<1>3. ThePlayback!step_second(i, d) \in 0..ThePlayback!Count - 1
  <2>1. PICK ahead : ahead = {j \in i + 1..ThePlayback!Count - 1 : ThePlayback!At(j) >= ThePlayback!At(i) + Second}
    OBVIOUS
  <2>2. PICK behind : behind = {j \in 0..i - 1 : ThePlayback!At(j) <= ThePlayback!At(i) - Second}
    OBVIOUS
  <2>3. ThePlayback!Min(ahead \cup {ThePlayback!Count - 1}) \in 0..ThePlayback!Count - 1
    <3>1. PICK S : S = ahead \cup {ThePlayback!Count - 1}
      OBVIOUS
    <3>2. S \in SUBSET (0..ThePlayback!Count - 1) /\ S # {}
      <4>1. ASSUME NEW x \in S PROVE x \in 0..ThePlayback!Count - 1
        <5>1. CASE x = ThePlayback!Count - 1
          BY <1>1, <5>1
        <5>2. CASE x # ThePlayback!Count - 1
          <6>1. x \in i + 1..ThePlayback!Count - 1
            BY <2>1, <3>1, <4>1, <5>2
          <6> QED BY <1>1, <6>1
        <5> QED BY <5>1, <5>2
      <4> QED BY <3>1, <4>1
    <3>3. S \in SUBSET Nat
      BY <3>2
    <3>4. ThePlayback!Min(S) \in S
      BY <3>2, <3>3, LeastIs
    <3> QED BY <3>1, <3>2, <3>4
  <2>4. ThePlayback!Max(behind \cup {0}) \in 0..ThePlayback!Count - 1
    <3>1. PICK S : S = behind \cup {0}
      OBVIOUS
    <3>2. S \in SUBSET (0..ThePlayback!Count - 1) /\ S # {}
      <4>1. ASSUME NEW x \in S PROVE x \in 0..ThePlayback!Count - 1
        <5>1. CASE x = 0
          BY <1>1, <5>1
        <5>2. CASE x # 0
          <6>1. x \in 0..i - 1
            BY <2>2, <3>1, <4>1, <5>2
          <6> QED BY <1>1, <6>1
        <5> QED BY <5>1, <5>2
      <4> QED BY <3>1, <4>1
    <3>3. ThePlayback!Max(S) \in S
      BY <1>1, <3>2, GreatestIs
    <3> QED BY <3>1, <3>2, <3>3
  <2>5. ThePlayback!step_second(i, d) = IF d > 0 THEN ThePlayback!Min(ahead \cup {ThePlayback!Count - 1})
          ELSE ThePlayback!Max(behind \cup {0})
    BY <2>1, <2>2 DEF ThePlayback!step_second
  <2>6. CASE d > 0
    BY <2>3, <2>5, <2>6
  <2>7. CASE ~(d > 0)
    BY <2>4, <2>5, <2>7
  <2> QED BY <2>6, <2>7
<1> QED BY <1>2, <1>3

LEMMA PlanStays ==
  ASSUME UNCHANGED <<pb_times, pb_playback>>
  PROVE  ThePlayback!plan' = ThePlayback!plan /\ ThePlayback!Count' = ThePlayback!Count
<1>1. ThePlayback!Count' = ThePlayback!Count
  BY DEF ThePlayback!Count
<1>2. \A x, y : x = y => ThePlayback!paced(x)' = ThePlayback!paced(y)
  BY DEF ThePlayback!paced
<1>3. ThePlayback!plan' = ThePlayback!plan
  BY <1>1 DEF ThePlayback!plan, ThePlayback!paced
<1> QED BY <1>1, <1>3

LEMMA ElapsedIs ==
  ASSUME PlaybackAssumption, PlayInv, ThePlayback!Count > 0, pb_playback.anchor < ThePlayback!Count
  PROVE  ThePlayback!play_elapsed \in Nat
<1>1. TimesInv /\ ClockInv /\ ThePlayback!Count \in Nat
  BY DialIs
<1>2. pb_playback.anchor + 1 \in 1..ThePlayback!Count /\ pb_playback.since \in Nat
  BY <1>1 DEF ClockInv
<1>3. ThePlayback!plan[pb_playback.anchor + 1] \in Nat
  BY <1>1, <1>2, PlanIs
<1> QED BY <1>2, <1>3 DEF ThePlayback!play_elapsed

(* The effect puts the playhead where the clock is. *)
LEMMA PerformsKeeps == ASSUME PlaybackAssumption, PlayInv, ThePlayback!Performs PROVE PlayInv'
<1>1. pb_due /\ pb_playback.playing /\ ThePlayback!Count > 0 /\ pb_playback.anchor < ThePlayback!Count
  BY DEF ThePlayback!Performs, PlayInv, HeadInv
<1>2. TimesInv /\ ClockInv /\ ThePlayback!Count \in Nat /\ Good(pb_playback, ThePlayback!Count)
  BY DialIs
<1>3. UNCHANGED pb_times
  BY DEF ThePlayback!Performs
<1>4. TimesInv' /\ ThePlayback!Count' = ThePlayback!Count /\ Top' = Top
  BY <1>2, <1>3, TimesStay
<1>5. pb_held' = ThePlayback!position_at(ThePlayback!play_elapsed)
  BY DEF ThePlayback!Performs
<1>6. pb_held' \in 0..Top'
  <2>1. ThePlayback!play_elapsed \in Nat
    BY <1>1, ElapsedIs
  <2>2. ThePlayback!position_at(ThePlayback!play_elapsed) \in 0..ThePlayback!Count - 1
    BY <1>1, <1>2, <2>1, PositionIs
  <2> QED BY <1>1, <1>4, <1>5, <2>2, Indices
<1>7. CASE ThePlayback!done /\ pb_playback.loop
  <2>1. PICK s : s = ThePlayback!anchored(pb_playback, 0)
    OBVIOUS
  <2>2. pb_playback' = s
    BY <1>1, <1>7, <2>1 DEF ThePlayback!Performs, ThePlayback!anchored
  <2>3. Good(s, ThePlayback!Count)
    <3>1. 0 \in Nat
      OBVIOUS
    <3> QED BY <1>1, <1>2, <2>1, <3>1, AnchoredIs
  <2>4. pb_due' = TRUE
    BY <1>7 DEF ThePlayback!Performs
  <2>5. s.playing = TRUE
    <3>1. s = [pb_playback EXCEPT !.anchor = 0, !.since = 0]
      BY <1>1, <2>1 DEF ThePlayback!anchored
    <3>2. s.playing = pb_playback.playing
      BY <1>2, <3>1 DEF Good, Dial
    <3>3. pb_playback.playing \in BOOLEAN
      BY <1>2 DEF Good, Dial
    <3> QED BY <1>1, <3>2, <3>3
  <2>6. DialInv' /\ ClockInv'
    <3>1. s.speed \in 1..3 /\ s.anchor \in Nat /\ s.since \in Nat
      BY <2>3 DEF Good, Dial
    <3> QED BY <2>2, <2>3, <3>1 DEF Good, DialInv, ClockInv
  <2>7. HeadInv'
    BY <1>4, <1>6, <2>2, <2>3, <2>4, <2>5 DEF HeadInv, Good
  <2> QED BY <1>4, <2>6, <2>7 DEF PlayInv
<1>8. CASE ThePlayback!done /\ ~pb_playback.loop
  <2>1. PICK s : s = [pb_playback EXCEPT !.playing = FALSE]
    OBVIOUS
  <2>2. pb_playback' = s
    BY <1>8, <2>1 DEF ThePlayback!Performs
  <2>3. s \in Dial /\ s.playing = FALSE
    <3>1. pb_playback \in Dial
      BY <1>2 DEF Good
    <3>2. s \in Dial
      BY <2>1, <3>1, Sets
    <3> QED BY <2>1, <3>1, <3>2 DEF Dial
  <2>4. pb_due' = FALSE
    BY <1>8 DEF ThePlayback!Performs
  <2>6. DialInv' /\ ClockInv'
    <3>1. s.speed \in 1..3 /\ s.anchor \in Nat /\ s.since \in Nat
      BY <2>3 DEF Dial
    <3> QED BY <2>2, <2>3, <3>1 DEF DialInv, ClockInv
  <2>7. HeadInv'
    BY <1>6, <2>2, <2>3, <2>4 DEF HeadInv
  <2> QED BY <1>4, <2>6, <2>7 DEF PlayInv
<1>9. CASE ~ThePlayback!done
  <2>1. pb_playback' = pb_playback /\ pb_due' = FALSE
    BY <1>9 DEF ThePlayback!Performs
  <2>2. ThePlayback!plan' = ThePlayback!plan
    BY <1>3, <2>1, PlanStays
  <2>3. ThePlayback!play_elapsed' = ThePlayback!play_elapsed
    BY <2>1, <2>2 DEF ThePlayback!play_elapsed
  <2>4. ThePlayback!done' = ThePlayback!done
    BY <1>4, <2>2, <2>3 DEF ThePlayback!done
  <2>5. ThePlayback!position_at(ThePlayback!play_elapsed)' = ThePlayback!position_at(ThePlayback!play_elapsed)
    BY <1>4, <2>2, <2>3 DEF ThePlayback!position_at
  <2>6. DialInv' /\ ClockInv'
    BY <2>1 DEF DialInv, ClockInv, PlayInv
  <2>7. HeadInv'
    <3>1. ~ThePlayback!done' /\ pb_held' = ThePlayback!position_at(ThePlayback!play_elapsed)'
      BY <1>5, <1>9, <2>4, <2>5
    <3> QED BY <1>4, <1>6, <1>2, <2>1, <3>1 DEF HeadInv, Good
  <2> QED BY <1>4, <2>6, <2>7 DEF PlayInv
<1> QED BY <1>7, <1>8, <1>9

(* A frame of the animation moves the clock on. *)
LEMMA AnimationKeeps == ASSUME PlaybackAssumption, PlayInv, ThePlayback!AnimationFrame PROVE PlayInv'
<1>1. PICK d \in Ticks : ThePlayback!Handled(pb_held, [pb_playback EXCEPT !.since = @ + d])
  BY DEF ThePlayback!AnimationFrame
<1>2. Good(pb_playback, ThePlayback!Count) /\ ClockInv
  BY DialIs
<1>3. PICK n : n = pb_playback.since + d
  OBVIOUS
<1>4. n \in Nat
  <2>1. pb_playback.since \in Nat /\ d \in Nat
    BY <1>2 DEF ClockInv, PlaybackAssumption
  <2> QED BY <1>3, <2>1
<1>5. PICK s : s = [pb_playback EXCEPT !.since = n]
  OBVIOUS
<1>6. ThePlayback!Handled(pb_held, s)
  BY <1>1, <1>3, <1>5
<1>7. Good(s, ThePlayback!Count)
  <2>1. pb_playback \in Dial
    BY <1>2 DEF Good
  <2>2. s \in Dial
    BY <1>4, <1>5, <2>1, Sets
  <2>3. s.playing = pb_playback.playing /\ s.stepping = pb_playback.stepping /\ s.anchor = pb_playback.anchor
    BY <1>5, <2>1 DEF Dial
  <2> QED BY <1>2, <2>2, <2>3 DEF Good
<1>8. pb_held = None \/ pb_held \in 0..Top
  BY DEF PlayInv, HeadInv
<1>9. UNCHANGED pb_times
  BY DEF ThePlayback!AnimationFrame
<1> QED BY <1>6, <1>7, <1>8, <1>9, Stays

(* A frame joins the run. *)
LEMMA ArrivesKeeps == ASSUME PlaybackAssumption, PlayInv, ThePlayback!Arrives PROVE PlayInv'
<1>1. PICK gap \in Gaps :
        pb_times' = Append(pb_times, IF ThePlayback!Count = 0 THEN 0 ELSE ThePlayback!Max({0, ThePlayback!span + gap}))
  BY DEF ThePlayback!Arrives
<1>2. TimesInv /\ ThePlayback!Count \in Nat /\ Good(pb_playback, ThePlayback!Count)
  BY DialIs
<1>3. PICK v : v = IF ThePlayback!Count = 0 THEN 0 ELSE ThePlayback!Max({0, ThePlayback!span + gap})
  OBVIOUS
<1>4. v \in Nat /\ (ThePlayback!Count = 0 => v = 0)
  <2>1. ThePlayback!span \in Nat /\ gap \in Int
    BY <1>2, SpanIs DEF PlaybackAssumption
  <2>2. PICK n \in Int : n = ThePlayback!span + gap
    BY <2>1
  <2>3. ThePlayback!Max({0, n}) = IF 0 >= n THEN 0 ELSE n
    BY OfTwo
  <2>4. ThePlayback!Max({0, n}) \in Nat
    BY <2>3
  <2> QED BY <1>3, <2>2, <2>4
<1>5. pb_times' = Append(pb_times, v)
  BY <1>1, <1>3
<1>6. pb_times' \in Seq(Nat) /\ Len(pb_times') = Len(pb_times) + 1 /\ pb_times'[Len(pb_times) + 1] = v
        /\ \A i \in 1..Len(pb_times) : pb_times'[i] = pb_times[i]
  <2>1. pb_times \in Seq(Nat)
    BY <1>2 DEF TimesInv
  <2> QED BY <1>4, <1>5, <2>1
<1>7. ThePlayback!Count' = ThePlayback!Count + 1 /\ pb_times'[ThePlayback!Count + 1] = v
        /\ \A i \in 1..ThePlayback!Count : pb_times'[i] = pb_times[i]
  BY <1>6 DEF ThePlayback!Count
<1>8. TimesInv'
  <2>1. pb_times'[1] = 0
    <3>1. CASE ThePlayback!Count = 0
      BY <1>4, <1>7, <3>1
    <3>2. CASE ThePlayback!Count # 0
      <4>1. 1 \in 1..ThePlayback!Count /\ pb_times[1] = 0
        BY <1>2, <3>2 DEF TimesInv
      <4> QED BY <1>7, <4>1
    <3> QED BY <3>1, <3>2
  <2> QED BY <1>6, <2>1 DEF TimesInv
<1>9. pb_held = None \/ pb_held \in 0..Top'
  <2>1. pb_held = None \/ pb_held \in 0..Top
    BY DEF PlayInv, HeadInv
  <2>2. Top' = ThePlayback!Count
    <3>1. ThePlayback!Count' - 1 = ThePlayback!Count
      BY <1>2, <1>7
    <3>2. Top' = ThePlayback!Max({0, ThePlayback!Count})
      BY <3>1 DEF Top
    <3>3. ThePlayback!Max({0, ThePlayback!Count}) = IF 0 >= ThePlayback!Count THEN 0 ELSE ThePlayback!Count
      <4>1. ThePlayback!Count \in Int
        BY <1>2
      <4> QED BY <4>1, OfTwo
    <3> QED BY <1>2, <3>2, <3>3
  <2>3. Top <= ThePlayback!Count /\ Top \in Nat
    BY <1>2, TopIs
  <2> QED BY <1>2, <2>1, <2>2, <2>3
<1>10. Good(pb_playback, ThePlayback!Count')
  <2>1. pb_playback.playing => ThePlayback!Count > 0 /\ pb_playback.anchor < ThePlayback!Count
          /\ pb_playback.anchor \in Nat
    BY <1>2 DEF Good, Dial
  <2>2. pb_playback.playing => ThePlayback!Count' > 0 /\ pb_playback.anchor < ThePlayback!Count'
    <3> SUFFICES ASSUME pb_playback.playing PROVE ThePlayback!Count' > 0 /\ pb_playback.anchor < ThePlayback!Count'
      OBVIOUS
    <3> QED BY <1>2, <1>7, <2>1
  <2> QED BY <1>2, <2>2 DEF Good
<1>11. ThePlayback!Handled(pb_held, pb_playback)
  BY DEF ThePlayback!Arrives
<1> QED BY <1>8, <1>9, <1>10, <1>11, HandledKeeps

(* A new run starts the log over, at the live edge. *)
LEMMA NewRunKeeps == ASSUME PlaybackAssumption, PlayInv, ThePlayback!NewRun PROVE PlayInv'
<1>1. pb_times' = <<0>> /\ ThePlayback!Handled(None, [pb_playback EXCEPT !.playing = FALSE])
  BY DEF ThePlayback!NewRun
<1>2. pb_playback \in Dial
  BY DialIs DEF Good
<1>3. TimesInv'
  <2>1. pb_times' \in Seq(Nat)
    BY <1>1
  <2>2. ThePlayback!Count' = 1 /\ pb_times'[1] = 0
    BY <1>1 DEF ThePlayback!Count
  <2> QED BY <2>1, <2>2 DEF TimesInv
<1>4. Good([pb_playback EXCEPT !.playing = FALSE], ThePlayback!Count')
  BY <1>2, Stopped
<1> QED BY <1>1, <1>3, <1>4, HandledKeeps

(* The play chip: a beat by hand, or the clock. *)
LEMMA ForwardKeeps == ASSUME PlaybackAssumption, PlayInv, ThePlayback!Forward PROVE PlayInv'
<1>1. Good(pb_playback, ThePlayback!Count) /\ ThePlayback!Count \in Nat /\ TimesInv /\ ClockInv
        /\ pb_playback \in Dial
  BY DialIs DEF Good
<1>2. pb_held = None \/ pb_held \in 0..Top
  BY DEF PlayInv, HeadInv
<1>3. UNCHANGED pb_times
  BY DEF ThePlayback!Forward
<1>4. CASE pb_playback.stepping
  <2>1. PICK at : at = IF ThePlayback!Count = 0 THEN pb_held ELSE ThePlayback!next_beat(ThePlayback!index)
    OBVIOUS
  <2>2. ThePlayback!Handled(at, pb_playback)
    BY <1>4, <2>1 DEF ThePlayback!Forward
  <2>3. at = None \/ at \in 0..Top
    <3>1. CASE ThePlayback!Count = 0
      BY <1>2, <2>1, <3>1
    <3>2. CASE ThePlayback!Count # 0
      <4>1. ThePlayback!Count > 0 /\ Top = ThePlayback!Count - 1 /\ ThePlayback!index \in 0..ThePlayback!Count - 1
        <5>1. ThePlayback!Count > 0
          BY <1>1, <3>2
        <5> QED BY <5>1, Indices
      <4>2. ThePlayback!next_beat(ThePlayback!index) \in 0..ThePlayback!Count - 1
        BY <1>1, <4>1, BeatIs
      <4> QED BY <2>1, <3>2, <4>1, <4>2
    <3> QED BY <3>1, <3>2
  <2> QED BY <1>1, <1>3, <2>2, <2>3, Stays
<1>5. CASE ~pb_playback.stepping
  <2>1. PICK s : s = ThePlayback!toggle_play
    OBVIOUS
  <2>2. ThePlayback!Handled(pb_held, s)
    BY <1>5, <2>1 DEF ThePlayback!Forward
  <2>3. Good(s, ThePlayback!Count)
    <3>1. CASE pb_playback.playing
      <4>1. s = [pb_playback EXCEPT !.playing = FALSE]
        BY <2>1, <3>1 DEF ThePlayback!toggle_play
      <4> QED BY <1>1, <4>1, Stopped
    <3>2. CASE ~pb_playback.playing /\ ThePlayback!Count < 2
      <4>1. s = pb_playback
        BY <2>1, <3>2 DEF ThePlayback!toggle_play
      <4> QED BY <1>1, <4>1
    <3>3. CASE ~pb_playback.playing /\ ~(ThePlayback!Count < 2)
      <4>1. PICK a : a = ThePlayback!step_entry_index
        OBVIOUS
      <4>2. ThePlayback!Count > 0 /\ a \in 0..ThePlayback!Count - 1
        <5>1. ThePlayback!Count > 0
          BY <1>1, <3>3
        <5> QED BY <4>1, <5>1, Indices
      <4>3. PICK t : t = [pb_playback EXCEPT !.playing = TRUE]
        OBVIOUS
      <4>4. t \in Dial /\ t.playing = TRUE /\ t.stepping = FALSE
        <5>1. t \in Dial
          BY <1>1, <4>3, Sets
        <5>2. t.playing = TRUE /\ t.stepping = pb_playback.stepping
          BY <1>1, <4>3 DEF Dial
        <5>3. pb_playback.stepping \in BOOLEAN
          BY <1>1 DEF Dial
        <5> QED BY <1>5, <5>1, <5>2, <5>3
      <4>5. PICK u : u = [t EXCEPT !.anchor = a]
        OBVIOUS
      <4>6. u \in Dial /\ u.anchor = a /\ u.stepping = FALSE
        <5>1. a \in Nat
          BY <1>1, <4>2
        <5>2. u \in Dial
          BY <4>4, <4>5, <5>1, Sets
        <5> QED BY <4>4, <4>5, <5>2 DEF Dial
      <4>7. s = [u EXCEPT !.since = 0]
        BY <2>1, <3>3, <4>1, <4>3, <4>5 DEF ThePlayback!toggle_play
      <4>8. s \in Dial /\ s.anchor = a /\ s.stepping = FALSE
        <5>1. 0 \in Nat
          OBVIOUS
        <5>2. s \in Dial
          BY <4>6, <4>7, <5>1, Sets
        <5> QED BY <4>6, <4>7, <5>2 DEF Dial
      <4>9. a < ThePlayback!Count
        BY <1>1, <4>2
      <4> QED BY <4>2, <4>8, <4>9 DEF Good
    <3> QED BY <3>1, <3>2, <3>3
  <2> QED BY <1>2, <1>3, <2>2, <2>3, Stays
<1> QED BY <1>4, <1>5

(* Walking by hand stops the clock. *)
LEMMA SteppingKeeps == ASSUME PlaybackAssumption, PlayInv, ThePlayback!TogglesStepping PROVE PlayInv'
<1>1. Good(pb_playback, ThePlayback!Count) /\ pb_playback \in Dial
  BY DialIs DEF Good
<1>2. PICK at : at = IF pb_playback.stepping THEN pb_held ELSE ThePlayback!step_entry_index
  OBVIOUS
<1>3. PICK s : s = ThePlayback!toggle_step
  OBVIOUS
<1>4. ThePlayback!Handled(at, s) /\ UNCHANGED pb_times
  BY <1>2, <1>3 DEF ThePlayback!TogglesStepping
<1>5. at = None \/ at \in 0..Top
  <2>1. pb_held = None \/ pb_held \in 0..Top
    BY DEF PlayInv, HeadInv
  <2> QED BY <1>2, <2>1, Indices
<1>6. Good(s, ThePlayback!Count)
  <2>1. CASE pb_playback.stepping
    <3>1. s = [pb_playback EXCEPT !.stepping = FALSE]
      BY <1>3, <2>1 DEF ThePlayback!toggle_step
    <3>2. s \in Dial
      BY <1>1, <3>1, Sets
    <3>3. s.stepping = FALSE /\ s.playing = pb_playback.playing /\ s.anchor = pb_playback.anchor
      BY <1>1, <3>1 DEF Dial
    <3> QED BY <1>1, <3>2, <3>3 DEF Good
  <2>2. CASE ~pb_playback.stepping
    <3>1. PICK t : t = [pb_playback EXCEPT !.stepping = TRUE]
      OBVIOUS
    <3>2. t \in Dial
      BY <1>1, <3>1, Sets
    <3>3. s = [t EXCEPT !.playing = FALSE]
      BY <1>3, <2>2, <3>1 DEF ThePlayback!toggle_step
    <3> QED BY <3>2, <3>3, Stopped
  <2> QED BY <2>1, <2>2
<1> QED BY <1>4, <1>5, <1>6, Stays

(* A key or the pointer: on an event, and the clock is anchored there. *)
LEMMA ScrubsKeeps == ASSUME PlaybackAssumption, PlayInv, ThePlayback!Scrubs PROVE PlayInv'
<1>1. Good(pb_playback, ThePlayback!Count) /\ ThePlayback!Count \in Nat /\ TimesInv /\ ClockInv
  BY DialIs
<1>2. ThePlayback!Count > 0 /\ UNCHANGED pb_times
  BY DEF ThePlayback!Scrubs
<1>3. Top = ThePlayback!Count - 1 /\ ThePlayback!index \in 0..ThePlayback!Count - 1
  BY <1>2, Indices
<1>4. PICK target \in {ThePlayback!step_event(ThePlayback!index, d) : d \in {-1,
             1}} \cup {ThePlayback!step_second(ThePlayback!index, d) : d \in {-1, 1}} \cup {0}
                   \cup {ThePlayback!index_at(t) : t \in IF ThePlayback!span = 0 THEN 0..ThePlayback!Count - 1
                     ELSE 0..ThePlayback!span} : ThePlayback!hold(target)
  BY DEF ThePlayback!Scrubs
<1>5. target \in 0..ThePlayback!Count - 1
  <2>1. CASE target \in {ThePlayback!step_event(ThePlayback!index, d) : d \in {-1, 1}}
    <3>1. PICK d \in {-1, 1} : target = ThePlayback!step_event(ThePlayback!index, d)
      BY <2>1
    <3> QED BY <1>2, <1>3, <3>1, Targets
  <2>2. CASE target \in {ThePlayback!step_second(ThePlayback!index, d) : d \in {-1, 1}}
    <3>1. PICK d \in {-1, 1} : target = ThePlayback!step_second(ThePlayback!index, d)
      BY <2>2
    <3> QED BY <1>2, <1>3, <3>1, Targets
  <2>3. CASE target = 0
    BY <1>1, <1>2, <2>3
  <2>4. CASE target \in {ThePlayback!index_at(t) : t \in IF ThePlayback!span = 0 THEN 0..ThePlayback!Count - 1
               ELSE 0..ThePlayback!span}
    <3>1. PICK t \in IF ThePlayback!span = 0 THEN 0..ThePlayback!Count - 1
                 ELSE 0..ThePlayback!span : target = ThePlayback!index_at(t)
      BY <2>4
    <3>2. CASE ThePlayback!span = 0
      <4>1. target = t
        BY <3>1, <3>2 DEF ThePlayback!index_at
      <4> QED BY <3>1, <3>2, <4>1
    <3>3. CASE ThePlayback!span # 0
      <4>1. ThePlayback!span > 0
        <5>1. ThePlayback!span \in Nat
          BY <1>1, SpanIs
        <5> QED BY <3>3, <5>1
      <4>2. t \in 0..ThePlayback!span
        BY <3>1, <3>3
      <4> QED BY <1>1, <1>2, <3>1, <4>1, <4>2, NearestIs
    <3> QED BY <3>2, <3>3
  <2> QED BY <1>4, <2>1, <2>2, <2>3, <2>4
<1>6. PICK s : s = ThePlayback!anchored(pb_playback, target)
  OBVIOUS
<1>7. ThePlayback!Handled(target, s)
  BY <1>4, <1>6 DEF ThePlayback!hold
<1>8. Good(s, ThePlayback!Count)
  <2>1. target \in Nat /\ target < ThePlayback!Count
    BY <1>1, <1>5
  <2> QED BY <1>1, <1>6, <2>1, AnchoredIs
<1> QED BY <1>2, <1>3, <1>5, <1>7, <1>8, Stays

LEMMA LiveKeeps == ASSUME PlaybackAssumption, PlayInv, ThePlayback!ReturnsToLive PROVE PlayInv'
<1>1. pb_playback \in Dial
  BY DialIs DEF Good
<1>2. ThePlayback!Handled(None, [pb_playback EXCEPT !.playing = FALSE]) /\ UNCHANGED pb_times
  BY DEF ThePlayback!ReturnsToLive
<1>3. Good([pb_playback EXCEPT !.playing = FALSE], ThePlayback!Count)
  BY <1>1, Stopped
<1> QED BY <1>2, <1>3, Stays

(* A dial that shapes the plan anchors the clock anew. *)
LEMMA DialKeeps == ASSUME PlaybackAssumption, PlayInv, ThePlayback!TurnsADial PROVE PlayInv'
<1>1. Good(pb_playback, ThePlayback!Count) /\ pb_playback \in Dial /\ ThePlayback!Count \in Nat
  BY DialIs DEF Good
<1>2. pb_held = None \/ pb_held \in 0..Top
  BY DEF PlayInv, HeadInv
<1>3. UNCHANGED pb_times
  BY DEF ThePlayback!TurnsADial
<1>4. ASSUME NEW s \in Dial, s.playing = pb_playback.playing, s.stepping = pb_playback.stepping,
               s.anchor = pb_playback.anchor
      PROVE  Good(s, ThePlayback!Count) /\ Good(ThePlayback!anchored(s, ThePlayback!index), ThePlayback!Count)
  <2>1. Good(s, ThePlayback!Count)
    BY <1>1, <1>4 DEF Good
  <2>2. ThePlayback!index \in Nat /\ (s.playing => ThePlayback!index < ThePlayback!Count)
    <3>1. Top \in Nat /\ ThePlayback!index \in 0..Top /\ (ThePlayback!Count > 0 => Top = ThePlayback!Count - 1)
      BY Indices
    <3>2. s.playing => ThePlayback!Count > 0
      BY <2>1 DEF Good
    <3>3. ThePlayback!Count > 0 => ThePlayback!index < ThePlayback!Count
      BY <1>1, <3>1
    <3>4. ThePlayback!index \in Nat
      BY <3>1
    <3> QED BY <3>2, <3>3, <3>4
  <2>3. Good(ThePlayback!anchored(s, ThePlayback!index), ThePlayback!Count)
    BY <1>1, <2>1, <2>2, AnchoredIs
  <2> QED BY <2>1, <2>3
<1>5. ASSUME ThePlayback!Handled(pb_held, ThePlayback!anchored([pb_playback EXCEPT !.speed = (@ % 3) + 1], ThePlayback!index)) PROVE PlayInv'
  <2>1. PICK k : k = (pb_playback.speed % 3) + 1
    OBVIOUS
  <2>2. k \in 1..3
    <3>1. pb_playback.speed \in 1..3
      BY <1>1 DEF Dial
    <3> QED BY <2>1, <3>1
  <2>3. PICK s : s = [pb_playback EXCEPT !.speed = k]
    OBVIOUS
  <2>4. s \in Dial
    BY <1>1, <2>2, <2>3, Sets
  <2>5. s.playing = pb_playback.playing /\ s.stepping = pb_playback.stepping /\ s.anchor = pb_playback.anchor
    BY <1>1, <2>3 DEF Dial
  <2>6. ThePlayback!Handled(pb_held, ThePlayback!anchored(s, ThePlayback!index))
    BY <1>5, <2>1, <2>3
  <2> QED BY <1>2, <1>3, <1>4, <2>4, <2>5, <2>6, Stays
<1>6. ASSUME ThePlayback!Handled(pb_held, ThePlayback!anchored([pb_playback EXCEPT !.compress = ~@], ThePlayback!index)) PROVE PlayInv'
  <2>1. PICK b : b = ~pb_playback.compress
    OBVIOUS
  <2>2. b \in BOOLEAN
    BY <2>1
  <2>3. PICK s : s = [pb_playback EXCEPT !.compress = b]
    OBVIOUS
  <2>4. s \in Dial
    BY <1>1, <2>2, <2>3, Sets
  <2>5. s.playing = pb_playback.playing /\ s.stepping = pb_playback.stepping /\ s.anchor = pb_playback.anchor
    BY <1>1, <2>3 DEF Dial
  <2>6. ThePlayback!Handled(pb_held, ThePlayback!anchored(s, ThePlayback!index))
    BY <1>6, <2>1, <2>3
  <2> QED BY <1>2, <1>3, <1>4, <2>4, <2>5, <2>6, Stays
<1>7. ASSUME ThePlayback!Handled(pb_held, [pb_playback EXCEPT !.loop = ~@]) PROVE PlayInv'
  <2>1. PICK b : b = ~pb_playback.loop
    OBVIOUS
  <2>2. b \in BOOLEAN
    BY <2>1
  <2>3. PICK s : s = [pb_playback EXCEPT !.loop = b]
    OBVIOUS
  <2>4. s \in Dial
    BY <1>1, <2>2, <2>3, Sets
  <2>5. s.playing = pb_playback.playing /\ s.stepping = pb_playback.stepping /\ s.anchor = pb_playback.anchor
    BY <1>1, <2>3 DEF Dial
  <2>6. ThePlayback!Handled(pb_held, s)
    BY <1>7, <2>1, <2>3
  <2> QED BY <1>2, <1>3, <1>4, <2>4, <2>5, <2>6, Stays
<1> QED BY <1>5, <1>6, <1>7 DEF ThePlayback!TurnsADial

LEMMA Idles == ASSUME PlaybackAssumption, PlayInv, UNCHANGED ThePlayback!vars PROVE PlayInv'
<1>1. UNCHANGED pb_times /\ UNCHANGED pb_held /\ UNCHANGED pb_playback /\ UNCHANGED pb_due
  BY DEF ThePlayback!vars
<1>2. TimesInv' /\ ThePlayback!Count' = ThePlayback!Count /\ Top' = Top
  BY <1>1, TimesStay DEF PlayInv
<1>3. ThePlayback!plan' = ThePlayback!plan
  BY <1>1, PlanStays
<1>4. ThePlayback!play_elapsed' = ThePlayback!play_elapsed
  BY <1>1, <1>3 DEF ThePlayback!play_elapsed
<1>5. ThePlayback!done' = ThePlayback!done
        /\ ThePlayback!position_at(ThePlayback!play_elapsed)' = ThePlayback!position_at(ThePlayback!play_elapsed)
  BY <1>2, <1>3, <1>4 DEF ThePlayback!done, ThePlayback!position_at
<1>6. DialInv' /\ ClockInv'
  BY <1>1 DEF PlayInv, DialInv, ClockInv
<1>7. HeadInv'
  BY <1>1, <1>2, <1>5 DEF PlayInv, HeadInv
<1> QED BY <1>2, <1>6, <1>7 DEF PlayInv

LEMMA PlayKeeps == ASSUME PlaybackAssumption, PlayInv, [ThePlayback!Next]_(ThePlayback!vars) PROVE PlayInv'
<1>1. CASE ThePlayback!Performs
  BY <1>1, PerformsKeeps
<1>2. CASE ThePlayback!AnimationFrame
  BY <1>2, AnimationKeeps
<1>3. CASE ThePlayback!Arrives
  BY <1>3, ArrivesKeeps
<1>4. CASE ThePlayback!NewRun
  BY <1>4, NewRunKeeps
<1>5. CASE ThePlayback!Forward
  BY <1>5, ForwardKeeps
<1>6. CASE ThePlayback!TogglesStepping
  BY <1>6, SteppingKeeps
<1>7. CASE ThePlayback!Scrubs
  BY <1>7, ScrubsKeeps
<1>8. CASE ThePlayback!ReturnsToLive
  BY <1>8, LiveKeeps
<1>9. CASE ThePlayback!TurnsADial
  BY <1>9, DialKeeps
<1>10. CASE UNCHANGED ThePlayback!vars
  BY <1>10, Idles
<1> QED BY <1>1, <1>2, <1>3, <1>4, <1>5, <1>6, <1>7, <1>8, <1>9, <1>10 DEF ThePlayback!Next

(* The playhead stays on the run that it shows. *)
THEOREM PlayheadStays == ASSUME PlaybackAssumption
  PROVE ThePlayback!Init /\ [][ThePlayback!Next]_(ThePlayback!vars) => []ThePlayback!PlayheadIsWhole
<1>1. ThePlayback!Init => PlayInv
  BY PlayStarts
<1>2. PlayInv /\ [ThePlayback!Next]_(ThePlayback!vars) => PlayInv'
  BY PlayKeeps
<1>3. PlayInv => ThePlayback!PlayheadIsWhole
  BY PlayShows
<1> QED BY <1>1, <1>2, <1>3, PTL

----------------------------------------------------------------------------
(* The page has every event once and in order, or shows a gap, and its     *)
(* playhead is on the run that it shows (viewer/server.ts, viewer/app).    *)
PageIsWhole == TheFeed!FeedIsWhole /\ ThePlayback!PlayheadIsWhole

ASSUME FeedHolds == FeedAssumption

ASSUME PlaybackHolds == PlaybackAssumption

PlaybackSpec == ThePlayback!Init /\ [][ThePlayback!Next]_(ThePlayback!vars)

(* The page is whole in what it gets and in what it plays (viewer/app): for *)
(* any ring, any bodies and chunks, any stamps of the frames, falling ones  *)
(* included, and any dials.  Only that a scrub to an event's own moment is  *)
(* one to that moment asks for stamps that never fall, which the code does  *)
(* not enforce.                                                             *)
THEOREM PageIsServed == TheFeed!Spec /\ PlaybackSpec => []PageIsWhole
<1>1. TheFeed!Spec => []TheFeed!FeedIsWhole
  BY FeedHolds, FeedServes
<1>2. PlaybackSpec => []ThePlayback!PlayheadIsWhole
  BY PlaybackHolds, PlayheadStays DEF PlaybackSpec
<1> QED BY <1>1, <1>2, PTL DEF PageIsWhole

=============================================================================
