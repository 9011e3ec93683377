------------------------ MODULE SegmentedLogProofs ------------------------
(***************************************************************************)
(* The segmented log, for every configuration and every set of values: the *)
(* files and the segments stay within their arrays, only a record too      *)
(* large for an empty store panics, and Remove leaves no file.             *)
(*                                                                         *)
(* The argument rests on one inductive invariant, LogInv.  The segments    *)
(* that share their files, which a roll-over onto an existing base offset  *)
(* makes, all but the last are empty; so the last one alone says what the  *)
(* files hold.  That Remove leaves nothing needs RemoveInv on top of it:   *)
(* of the files that are left each is still on Remove's list.              *)
(***************************************************************************)
EXTENDS SegmentedLogProperties, FiniteSetTheorems, SequenceTheorems, TLAPS

USE Zenon

-----------------------------------------------------------------------------
(* Numbers.                                                                *)

\* A set of numbers that is not empty has a least element.
LEMMA LeastNumber ==
  ASSUME NEW T, T \subseteq Nat, T # {}
  PROVE  \E x \in T : \A y \in T : x <= y
<1>1. PICK x \in T : \A y \in T : <<y, x>> \notin OpToRel(<, Nat)
  BY WFMin, NatLessThanWellFounded
<1>2. \A y \in T : ~(y < x) BY <1>1 DEF OpToRel
<1>3. x \in Nat /\ \A y \in T : y \in Nat OBVIOUS
<1>4. \A y \in T : x <= y BY <1>2, <1>3, SMT
<1>5. QED BY <1>4

\* One step of the recursion of SizeOfVarint, and a function that follows it up
\* to k.
Groups(f, n) == IF n < 128 THEN 1 ELSE 1 + f[n \div 128]
Counts(k, g) == g \in [0..k -> Nat] /\ \A n \in 0..k : g[n] = Groups(g, n)

\* For every k some function follows the recursion of SizeOfVarint up to k.
LEMMA CountsExist == \A k \in Nat : \E g : Counts(k, g)
<1> DEFINE T == {k \in Nat : ~\E g : Counts(k, g)}
<1> SUFFICES ASSUME T # {} PROVE FALSE OBVIOUS
<1>1. PICK k \in T : \A y \in T : k <= y BY LeastNumber
<1>2. k \in Nat /\ ~\E g : Counts(k, g) BY <1>1
<1>3. CASE k = 0
  <2>1. Counts(0, [n \in 0..0 |-> 1]) BY SMT DEF Counts, Groups
  <2>2. QED BY <1>2, <1>3, <2>1
<1>4. CASE k # 0
  <2>1. k - 1 \in Nat /\ ~(k <= k - 1) BY <1>2, <1>4, SMT
  <2>2. PICK g : Counts(k - 1, g) BY <1>1, <2>1
  <2> DEFINE h == [n \in 0..k |-> IF n < k THEN g[n] ELSE Groups(g, n)]
  <2>3. \A n \in 0..k : h[n] = Groups(g, n) BY <1>2, <2>2, SMT DEF Counts
  <2>4. \A n \in 0..k : n >= 128 => n \div 128 \in 0..(k - 1) BY <1>2, SMT
  <2>5. \A n \in 0..k : Groups(g, n) \in Nat BY <1>2, <2>2, <2>4, SMT DEF Counts, Groups
  <2>6. \A n \in 0..k : Groups(h, n) = Groups(g, n) BY <1>2, <2>4, SMT DEF Groups
  <2>7. Counts(k, h) BY <2>3, <2>5, <2>6 DEF Counts
  <2>8. QED BY <1>2, <2>7
<1>5. QED BY <1>3, <1>4

\* Two functions that follow the recursion agree wherever both do.
LEMMA CountsUnique ==
  ASSUME NEW k \in Nat, NEW l \in Nat, NEW g, NEW h, Counts(k, g), Counts(l, h)
  PROVE  \A n \in Nat : n <= k /\ n <= l => g[n] = h[n]
<1> DEFINE T == {n \in Nat : n <= k /\ n <= l /\ g[n] # h[n]}
<1> SUFFICES ASSUME T # {} PROVE FALSE OBVIOUS
<1>1. PICK n \in T : \A y \in T : n <= y BY LeastNumber
<1>2. n \in 0..k /\ n \in 0..l /\ g[n] # h[n] BY <1>1, SMT
<1>3. g[n] = Groups(g, n) /\ h[n] = Groups(h, n) BY <1>2 DEF Counts
<1>4. CASE n < 128 BY <1>2, <1>3, <1>4 DEF Groups
<1>5. CASE ~(n < 128)
  <2>1. n \div 128 \in Nat /\ n \div 128 <= k /\ n \div 128 <= l /\ ~(n <= n \div 128)
    BY <1>2, <1>5, SMT
  <2>2. g[n \div 128] = h[n \div 128] BY <1>1, <2>1
  <2>3. QED BY <1>2, <1>3, <1>5, <2>2 DEF Groups
<1>6. QED BY <1>4, <1>5

\* SizeOfVarint, which is defined by recursion, is the function it should be.
LEMMA SizeOfVarintType == SizeOfVarint \in [Nat -> Nat]
<1> DEFINE G(n) == CHOOSE g : Counts(n, g)
           f == [n \in Nat |-> G(n)[n]]
<1>1. \A n \in Nat : Counts(n, G(n)) BY CountsExist
<1> HIDE DEF G
<1>2. \A n \in Nat : f[n] = Groups(f, n)
  <2> TAKE n \in Nat
  <2>1. n \in 0..n BY SMT
  <2>2. f[n] = Groups(G(n), n) BY <1>1, <2>1 DEF Counts
  <2>3. CASE n < 128 BY <2>2, <2>3 DEF Groups
  <2>4. CASE ~(n < 128)
    <3>1. PICK m \in Nat : m = n \div 128 BY SMT
    <3>2. m <= n /\ m <= m BY <2>4, <3>1, SMT
    <3>3. PICK g, h : g = G(n) /\ h = G(m) OBVIOUS
    <3>4. Counts(n, g) /\ Counts(m, h) BY <1>1, <3>3
    <3>5. g[m] = h[m] BY <3>2, <3>4, CountsUnique, SMT
    <3>6. QED BY <2>2, <2>4, <3>1, <3>3, <3>5 DEF Groups
  <2>5. QED BY <2>3, <2>4
<1>3. f = [n \in Nat |-> IF n < 128 THEN 1 ELSE 1 + f[n \div 128]]
  <2>1. \A n \in Nat : f[n] = IF n < 128 THEN 1 ELSE 1 + f[n \div 128] BY <1>2 DEF Groups
  <2>2. f = [n \in Nat |-> f[n]] OBVIOUS
  <2> HIDE DEF f
  <2>3. QED BY <2>1, <2>2
<1> HIDE DEF f
<1>4. SizeOfVarint = [n \in Nat |-> IF n < 128 THEN 1 ELSE 1 + SizeOfVarint[n \div 128]]
  BY <1>3 DEF SizeOfVarint
<1>5. \A n \in Nat : SizeOfVarint[n] = Groups(SizeOfVarint, n) BY <1>4 DEF Groups
<1> DEFINE T == {n \in Nat : SizeOfVarint[n] \notin Nat}
<1>6. ASSUME T # {} PROVE FALSE
  <2>1. PICK n \in T : \A y \in T : n <= y BY <1>6, LeastNumber
  <2>2. n \in Nat /\ SizeOfVarint[n] = Groups(SizeOfVarint, n) BY <1>5, <2>1
  <2>3. ~(n < 128) BY <2>1, <2>2, SMT DEF Groups
  <2>4. n \div 128 \in Nat /\ ~(n <= n \div 128) BY <2>2, <2>3, SMT
  <2>5. SizeOfVarint[n \div 128] \in Nat BY <2>1, <2>4
  <2>6. SizeOfVarint[n] \in Nat BY <2>2, <2>3, <2>5, SMT DEF Groups
  <2>7. QED BY <2>1, <2>6
<1>7. QED BY <1>4, <1>6

-----------------------------------------------------------------------------
(* The invariant.                                                          *)

StoreRecord == [pos : Nat, len : Nat, value : Value, offset : Nat]
IndexEntry == [off : Nat, pos : Nat]
Segment == [base : Nat, next : Nat, store : Seq(StoreRecord), index : Seq(IndexEntry),
            storeSynced : Nat, indexSynced : Nat]

Op == {"store", "index", "rmStore", "rmIndex"}

\* What is in the files fits in the arrays, and an index has a store.
FileInv ==
  /\ \E m \in Nat : DOMAIN stores \subseteq 0..m
  /\ DOMAIN indexes \subseteq DOMAIN stores
  /\ \A b \in DOMAIN stores :
       stores[b] \in Seq(StoreRecord) /\ StoreSize(stores[b]) <= MaxStoreBytes
  /\ \A b \in DOMAIN indexes :
       indexes[b] \in Seq(IndexEntry) /\ Len(indexes[b]) * entWidth <= MaxIndexBytes

\* A segment with an empty index has got no record since it was opened.
SegmentOK(s) ==
  /\ StoreSize(s.store) <= MaxStoreBytes
  /\ Len(s.index) * entWidth <= MaxIndexBytes
  /\ s.storeSynced <= Len(s.store)
  /\ s.indexSynced <= Len(s.index)
  /\ IF s.index = <<>> THEN s.next = s.base /\ s.storeSynced = Len(s.store)
                       ELSE s.base < s.next

\* What was synced is what the files hold, if they are there.
Reflects(s) ==
  /\ s.base \in DOMAIN stores => stores[s.base] = SubSeq(s.store, 1, s.storeSynced)
  /\ s.base \in DOMAIN indexes => indexes[s.base] = SubSeq(s.index, 1, s.indexSynced)

\* The segment is the last with its base offset.
Latest(k) == \A j \in 1..Len(segs) : k < j => segs[j].base # segs[k].base

\* Of the segments that share their files only the last has records.
SegmentInv ==
  /\ segs \in Seq(Segment)
  /\ \A k \in 1..Len(segs) : SegmentOK(segs[k])
  /\ \A j \in 1..Len(segs), k \in 1..Len(segs) :
       j < k => /\ segs[j].base <= segs[k].base
                /\ segs[j].base = segs[k].base => segs[j].index = <<>>
  /\ \A k \in 1..Len(segs) : Latest(k) => Reflects(segs[k])

Bases == {segs[k].base : k \in 1..Len(segs)}

\* An open log has the files of all its segments, and no other index.
OpenInv == phase = "open" => Bases \subseteq DOMAIN stores /\ DOMAIN indexes = Bases

\* The operations of Remove: a store's file is removed right after that of its
\* index, each once.
TodoInv ==
  /\ todo \in Seq(Op \X (1..Len(segs)))
  /\ phase = "closing" => \A i \in 1..Len(todo) : todo[i][1] \in {"store", "index"}
  /\ \A i \in 1..Len(todo) :
       todo[i][1] = "rmIndex" => i < Len(todo) /\ todo[i + 1] = <<"rmStore", todo[i][2]>>
  /\ \A i \in 1..Len(todo) :
       todo[i][1] = "rmStore" =>
         IF i = 1 THEN segs[todo[i][2]].base \notin DOMAIN indexes
                  ELSE todo[i - 1] = <<"rmIndex", todo[i][2]>>
  /\ \A i \in 1..Len(todo), j \in 1..Len(todo) :
       todo[i] = todo[j] /\ todo[i][1] \in {"rmIndex", "rmStore"} => i = j

PhaseInv ==
  /\ phase \in {"down", "open", "closing", "removing", "removed", "panicked"}
  /\ phase \in {"open", "closing", "removing"} => segs # <<>>
  /\ phase \in {"closing", "removing"} <=> todo # <<>>
  /\ mounted \in BOOLEAN /\ torn \in BOOLEAN /\ orphan \in BOOLEAN
  /\ crashes \in 0..MaxCrashes /\ faults \in 0..MaxFaults

LogInv == PhaseInv /\ FileInv /\ SegmentInv /\ OpenInv /\ TodoInv

\* The stores without an index: at most one, as long as no roll-over failed after
\* it created the store's file.
Alone == DOMAIN stores \ DOMAIN indexes
OneAlone == \A a \in Alone, b \in Alone : a = b

\* No two segments share their files.
Distinct == \A j \in 1..Len(segs), k \in 1..Len(segs) : segs[j].base = segs[k].base => j = k

\* Remove still has to do op with the file of base offset b.
Removes(op, b) == \E i \in 1..Len(todo) : todo[i][1] = op /\ segs[todo[i][2]].base = b

\* Every file belongs to a segment, and while Remove runs every file that is left
\* is still to be removed; the only store without an index is next.
Tidy ==
  /\ OneAlone
  /\ phase \in {"open", "closing"} => DOMAIN stores = Bases /\ Alone = {}
  /\ phase = "removing" =>
       /\ \A b \in DOMAIN stores : Removes("rmStore", b)
       /\ \A b \in DOMAIN indexes : Removes("rmIndex", b)
       /\ \A b \in Alone : todo[1][1] = "rmStore" /\ segs[todo[1][2]].base = b
  /\ phase = "removed" => Alone = {}

\* What Remove still has to remove is there.
Present ==
  phase = "removing" =>
    /\ \A b : Removes("rmStore", b) => b \in DOMAIN stores
    /\ \A b : Removes("rmIndex", b) => b \in DOMAIN indexes

RemoveInv == (~orphan => Tidy) /\ (Distinct => Present) /\ RemoveLeavesNothing

-----------------------------------------------------------------------------
(* Sizes.                                                                  *)

\* SizeVT gives the encoded record of a value a length.
LEMMA RecordLenType == \A v \in Value, off \in Nat : RecordLen(v, off) \in Nat
<1> TAKE v \in Value, off \in Nat
<1>1. v \in Seq(0..255) BY ValueAssumption
<1>2. Len(v) \in Nat BY <1>1, LenProperties
<1>3. SizeOfVarint[Len(v)] \in Nat /\ SizeOfVarint[off] \in Nat BY <1>2, SizeOfVarintType
<1>4. QED BY <1>2, <1>3, SMT DEF RecordLen, SizeVT

\* store.Size is a length.
LEMMA StoreSizeType == \A recs \in Seq(StoreRecord) : StoreSize(recs) \in Nat
<1> TAKE recs \in Seq(StoreRecord)
<1>1. CASE recs = <<>> BY <1>1, SMT DEF StoreSize
<1>2. CASE recs # <<>>
  <2>1. recs[Len(recs)] \in StoreRecord BY <1>2, SMT
  <2>2. QED BY <1>2, <2>1, SMT DEF StoreSize, StoreRecord, lenWidth
<1>3. QED BY <1>1, <1>2

-----------------------------------------------------------------------------
(* The files setup opens.                                                  *)

\* Before counts the elements of a bounded set below a number: it grows by
\* one at each element and reaches the cardinality of the set.
LEMMA BeforeFacts ==
  ASSUME NEW T, NEW m \in Nat, T \subseteq 0..m
  PROVE  /\ \A b \in Nat : Before(T, b) \in Nat
         /\ Before(T, 0) = 0
         /\ \A b \in Nat : Before(T, b + 1) = Before(T, b) + (IF b \in T THEN 1 ELSE 0)
         /\ \A b \in Nat, c \in Nat : b <= c => Before(T, b) <= Before(T, c)
         /\ Before(T, m + 1) = Cardinality(T)
         /\ \A b \in Nat : Before(T, b) <= Cardinality(T)
         /\ Cardinality(T) \in Nat
<1> DEFINE Low(b) == {x \in T : x < b}
<1>0. \A x \in T : x \in Nat /\ x <= m BY SMT
<1>1. IsFiniteSet(T)
  <2>1. T \in SUBSET Nat BY <1>0
  <2>2. QED BY <1>0, <2>1, FS_BoundedSetOfNaturals
<1>2. \A b \in Nat : IsFiniteSet(Low(b)) BY <1>1, FS_Subset
<1>3. \A b \in Nat : Before(T, b) \in Nat BY <1>2, FS_CardinalityType DEF Before
<1>4. Before(T, 0) = 0
  <2>0. \A x \in T : ~(x < 0) BY <1>0, SMT
  <2>1. Low(0) = {} BY <2>0
  <2>2. QED BY <2>1, FS_EmptySet DEF Before
<1>5. ASSUME NEW b \in Nat
      PROVE  Before(T, b + 1) = Before(T, b) + (IF b \in T THEN 1 ELSE 0)
  <2>0. \A x \in T : x < b + 1 <=> x < b \/ x = b BY <1>0, SMT
  <2>1. CASE b \in T
    <3>0. ~(b < b) BY SMT
    <3>1. Low(b + 1) = Low(b) \cup {b} /\ b \notin Low(b) BY <2>0, <2>1, <3>0
    <3>2. Cardinality(Low(b + 1)) = Cardinality(Low(b)) + 1
      BY <1>2, <3>1, FS_AddElement
    <3>3. QED BY <2>1, <3>2 DEF Before
  <2>2. CASE b \notin T
    <3>1. Low(b + 1) = Low(b) BY <2>0, <2>2
    <3>2. Before(T, b + 1) = Before(T, b) BY <3>1 DEF Before
    <3>3. QED BY <1>3, <2>2, <3>2, SMT
  <2>3. QED BY <2>1, <2>2
<1>6. ASSUME NEW b \in Nat, NEW c \in Nat, b <= c PROVE Before(T, b) <= Before(T, c)
  <2>0. \A x \in T : x < b => x < c BY <1>0, <1>6, SMT
  <2>1. Low(b) \subseteq Low(c) BY <2>0
  <2>2. QED BY <1>2, <2>1, FS_Subset DEF Before
<1>7. Before(T, m + 1) = Cardinality(T)
  <2>0. \A x \in T : x < m + 1 BY <1>0, SMT
  <2>1. Low(m + 1) = T BY <2>0
  <2>2. QED BY <2>1 DEF Before
<1>8. Cardinality(T) \in Nat BY <1>1, FS_CardinalityType
<1>9. \A b \in Nat : Before(T, b) <= Cardinality(T) BY <1>1, FS_Subset DEF Before
<1>10. QED BY <1>3, <1>4, <1>5, <1>6, <1>7, <1>8, <1>9

FileCount == Cardinality(DOMAIN stores) + Cardinality(DOMAIN indexes)

Files(b) == (IF b \in DOMAIN stores THEN 1 ELSE 0) + (IF b \in DOMAIN indexes THEN 1 ELSE 0)

\* Below counts the files with a lower base offset, two for a segment that has
\* both its files, and reaches the number of all files.
LEMMA BelowFacts ==
  ASSUME FileInv
  PROVE  /\ FileCount \in Nat
         /\ \A b \in Nat : Below(b) \in Nat
         /\ Below(0) = 0
         /\ \A b \in Nat : Below(b + 1) = Below(b) + Files(b)
         /\ \A b \in Nat, c \in Nat : b <= c => Below(b) <= Below(c)
         /\ \A b \in Nat : Below(b) <= FileCount
         /\ \E m \in Nat : Below(m) = FileCount
<1>1. PICK m \in Nat : DOMAIN stores \subseteq 0..m BY DEF FileInv
<1>2. DOMAIN indexes \subseteq 0..m BY <1>1 DEF FileInv
<1> DEFINE S == DOMAIN stores
           I == DOMAIN indexes
<1>3. /\ \A b \in Nat : Before(S, b) \in Nat
      /\ Before(S, 0) = 0
      /\ \A b \in Nat : Before(S, b + 1) = Before(S, b) + (IF b \in S THEN 1 ELSE 0)
      /\ \A b \in Nat, c \in Nat : b <= c => Before(S, b) <= Before(S, c)
      /\ Before(S, m + 1) = Cardinality(S)
      /\ \A b \in Nat : Before(S, b) <= Cardinality(S)
      /\ Cardinality(S) \in Nat
  BY <1>1, BeforeFacts
<1>4. /\ \A b \in Nat : Before(I, b) \in Nat
      /\ Before(I, 0) = 0
      /\ \A b \in Nat : Before(I, b + 1) = Before(I, b) + (IF b \in I THEN 1 ELSE 0)
      /\ \A b \in Nat, c \in Nat : b <= c => Before(I, b) <= Before(I, c)
      /\ Before(I, m + 1) = Cardinality(I)
      /\ \A b \in Nat : Before(I, b) <= Cardinality(I)
      /\ Cardinality(I) \in Nat
  BY <1>2, BeforeFacts
<1> HIDE DEF S, I
<1>5. \A b : Below(b) = Before(S, b) + Before(I, b) BY DEF Below, S, I
<1>6. FileCount = Cardinality(S) + Cardinality(I) BY DEF FileCount, S, I
<1>7. \A b : Files(b) = (IF b \in S THEN 1 ELSE 0) + (IF b \in I THEN 1 ELSE 0)
  BY DEF Files, S, I
<1>8. FileCount \in Nat
  <2>1. Cardinality(S) \in Nat /\ Cardinality(I) \in Nat BY <1>3, <1>4
  <2>2. QED BY <1>6, <2>1, SMT
<1>81. \A b \in Nat : Below(b) \in Nat
  <2> TAKE b \in Nat
  <2>1. Before(S, b) \in Nat /\ Before(I, b) \in Nat BY <1>3, <1>4
  <2>2. QED BY <1>5, <2>1, SMT
<1>9. Below(0) = 0 BY <1>3, <1>4, <1>5, SMT
<1>10. \A b \in Nat : Below(b + 1) = Below(b) + Files(b)
  <2> TAKE b \in Nat
  <2>1. /\ Before(S, b) \in Nat /\ Before(I, b) \in Nat
        /\ Before(S, b + 1) = Before(S, b) + (IF b \in S THEN 1 ELSE 0)
        /\ Before(I, b + 1) = Before(I, b) + (IF b \in I THEN 1 ELSE 0)
    BY <1>3, <1>4
  <2>2. Below(b + 1) = Before(S, b + 1) + Before(I, b + 1) BY <1>5
  <2>3. QED BY <1>5, <1>7, <2>1, <2>2, SMT
<1>11. \A b \in Nat, c \in Nat : b <= c => Below(b) <= Below(c)
  BY <1>3, <1>4, <1>5, SMT
<1>12. Below(m + 1) = FileCount /\ m + 1 \in Nat BY <1>3, <1>4, <1>5, <1>6, SMT
<1>13. \A b \in Nat : Below(b) <= FileCount
  <2> TAKE b \in Nat
  <2>1. /\ Before(S, b) \in Nat /\ Before(I, b) \in Nat
        /\ Before(S, b) <= Cardinality(S) /\ Before(I, b) <= Cardinality(I)
        /\ Cardinality(S) \in Nat /\ Cardinality(I) \in Nat
    BY <1>3, <1>4
  <2>2. QED BY <1>5, <1>6, <2>1, SMT
<1>14. QED BY <1>8, <1>81, <1>9, <1>10, <1>11, <1>12, <1>13

\* The p-th file has base offset b.
Holds(p, b) == b \in Nat /\ b \in DOMAIN stores /\ Below(b) < p /\ p <= Below(b + 1)

\* The base offsets in the names of the files are numbers.
LEMMA FilesAreNumbers == FileInv => \A b \in DOMAIN stores : b \in Nat
<1>1. ASSUME NEW m \in Nat, DOMAIN stores \subseteq 0..m, NEW b \in DOMAIN stores PROVE b \in Nat
  <2>1. b \in 0..m BY <1>1
  <2>2. QED BY <2>1, SMT
<1>2. QED BY <1>1 DEF FileInv

\* setup finds a file at every place of the sorted directory.
LEMMA FileAtHolds ==
  ASSUME FileInv, NEW p \in Nat, 1 <= p, p <= FileCount
  PROVE  Holds(p, FileAt(p))
<1> DEFINE T == {d \in Nat : p <= Below(d)}
<1>1. PICK d \in T : \A y \in T : d <= y
  <2>1. T # {} BY BelowFacts
  <2>2. QED BY <2>1, LeastNumber
<1>2. d \in Nat /\ p <= Below(d) BY <1>1
<1>3. d # 0 BY <1>2, BelowFacts, SMT
<1>4. PICK b \in Nat : d = b + 1 /\ ~(d <= b)
  <2>1. d - 1 \in Nat /\ d = (d - 1) + 1 /\ ~(d <= d - 1) BY <1>2, <1>3, SMT
  <2>2. QED BY <2>1
<1>5. ~(p <= Below(b)) BY <1>1, <1>4
<1>6. Below(b) \in Nat /\ Below(d) = Below(b) + Files(b) BY <1>4, BelowFacts
<1>7. b \in DOMAIN stores
  <2>1. ASSUME b \notin DOMAIN stores PROVE FALSE
    <3>1. b \notin DOMAIN indexes BY <2>1 DEF FileInv
    <3>2. Files(b) = 0 BY <2>1, <3>1, SMT DEF Files
    <3>3. QED BY <1>2, <1>5, <1>6, <3>2, SMT
  <2>2. QED BY <2>1
<1>8. Below(b) < p BY <1>5, <1>6, SMT
<1>9. b \in DOMAIN stores \cup DOMAIN indexes /\ Below(b) < p /\ p <= Below(b + 1)
  BY <1>2, <1>4, <1>7, <1>8
<1>10. /\ FileAt(p) \in DOMAIN stores \cup DOMAIN indexes
       /\ Below(FileAt(p)) < p /\ p <= Below(FileAt(p) + 1)
  BY <1>9 DEF FileAt
<1>11. FileAt(p) \in DOMAIN stores BY <1>10 DEF FileInv
<1>12. QED BY <1>10, <1>11, FilesAreNumbers DEF Holds

\* Files two places apart have different base offsets.
LEMMA HoldsOrder ==
  ASSUME FileInv, NEW p \in Nat, NEW q \in Nat, NEW b, NEW c, Holds(p, b), Holds(q, c)
  PROVE  (p + 1 < q => b < c) /\ (p = q => b = c)
<1>1. /\ b \in Nat /\ c \in Nat
      /\ Below(b) < p /\ p <= Below(b + 1) /\ Below(c) < q /\ q <= Below(c + 1)
  BY DEF Holds
<1>2. b + 1 \in Nat /\ c + 1 \in Nat BY <1>1, SMT
<1>3. /\ Below(b) \in Nat /\ Below(c) \in Nat /\ Below(b + 1) \in Nat /\ Below(c + 1) \in Nat
      /\ c + 1 <= b + 1 => Below(c + 1) <= Below(b + 1)
      /\ b + 1 <= c => Below(b + 1) <= Below(c)
      /\ c + 1 <= b => Below(c + 1) <= Below(b)
      /\ Below(b + 1) = Below(b) + Files(b)
  BY <1>1, <1>2, BelowFacts
<1>4. Files(b) \in Nat /\ Files(b) <= 2 BY SMT DEF Files
<1>5. QED BY <1>1, <1>3, <1>4, SMT

\* setup opens the files in order, those of every index, and every store if at
\* most one has lost its index.
SetupOK(bases) ==
  /\ bases \in Seq(Nat) /\ bases # <<>>
  /\ \A i \in 1..Len(bases) : bases[i] \in DOMAIN stores \cup {InitialOffset}
  /\ \A i \in 1..Len(bases), j \in 1..Len(bases) : i < j => bases[i] < bases[j]
  /\ \A b \in DOMAIN indexes : \E i \in 1..Len(bases) : bases[i] = b
  /\ OneAlone => \A b \in DOMAIN stores : \E i \in 1..Len(bases) : bases[i] = b

\* The base offset at an odd place is opened.
LEMMA OddIsOpened ==
  ASSUME FileInv, FileCount # 0, NEW p \in Nat, NEW b, Holds(p, b), p % 2 = 1
  PROVE  \E i \in 1..((FileCount + 1) \div 2) : FileAt(2 * i - 1) = b
<1>1. b \in Nat /\ p <= Below(b + 1) /\ Below(b) < p BY DEF Holds
<1>2. b + 1 \in Nat BY <1>1, SMT
<1>3. Below(b) \in Nat /\ Below(b + 1) \in Nat /\ Below(b + 1) <= FileCount /\ FileCount \in Nat
  BY <1>1, <1>2, BelowFacts
<1>4. 1 <= p /\ p <= FileCount BY <1>1, <1>3, SMT
<1>5. FileAt(p) = b BY <1>4, FileAtHolds, HoldsOrder
<1> DEFINE i == (p + 1) \div 2
<1>6. i \in 1..((FileCount + 1) \div 2) /\ 2 * i - 1 = p BY <1>3, <1>4, SMT
<1>7. QED BY <1>5, <1>6

\* The base offsets setup opens segments for are those of SetupOK.
LEMMA Setup == ASSUME FileInv PROVE SetupOK(BaseOffsets)
<1> DEFINE S == DOMAIN stores
           I == DOMAIN indexes
<1>0. FileCount \in Nat /\ I \subseteq S /\ \A b \in S : b \in Nat
  BY BelowFacts, FilesAreNumbers DEF FileInv
<1>1. CASE FileCount = 0
  <2>1. BaseOffsets = <<InitialOffset>> BY <1>1 DEF BaseOffsets, FileCount
  <2>2. S = {}
    <3>1. PICK m \in Nat : S \subseteq 0..m BY DEF FileInv
    <3>2. I \subseteq 0..m BY <1>0, <3>1
    <3>3. IsFiniteSet(S) /\ Cardinality(S) \in Nat /\ Cardinality(I) \in Nat
      <4>1. Cardinality(S) \in Nat BY <3>1, BeforeFacts
      <4>2. Cardinality(I) \in Nat BY <3>2, BeforeFacts
      <4>3. S \in SUBSET Nat /\ \A x \in S : x <= m BY <1>0, <3>1, SMT
      <4>4. QED BY <4>1, <4>2, <4>3, FS_BoundedSetOfNaturals
    <3>4. Cardinality(S) = 0 BY <1>1, <3>3, SMT DEF FileCount
    <3>5. QED BY <3>3, <3>4, FS_EmptySet
  <2>3. I = {} BY <1>0, <2>2
  <2>4. /\ <<InitialOffset>> \in Seq(Nat) /\ Len(<<InitialOffset>>) = 1
        /\ <<InitialOffset>>[1] = InitialOffset /\ <<InitialOffset>> # <<>>
    BY ConfigAssumption, SMT
  <2>5. \A i \in 1..1 : i = 1 BY SMT
  <2>6. ~(1 < 1) BY SMT
  <2>7. QED BY <2>1, <2>2, <2>3, <2>4, <2>5, <2>6 DEF SetupOK
<1>2. CASE FileCount # 0
  <2> DEFINE N == (FileCount + 1) \div 2
  <2>1. BaseOffsets = [i \in 1..N |-> FileAt(2 * i - 1)] BY <1>2 DEF BaseOffsets, FileCount
  <2>2. N \in Nat /\ N >= 1 BY <1>0, <1>2, SMT
  <2>3. \A i \in 1..N : 2 * i - 1 \in Nat /\ 1 <= 2 * i - 1 /\ 2 * i - 1 <= FileCount
    BY <1>0, <1>2, SMT
  <2> HIDE DEF N
  <2>4. \A i \in 1..N : Holds(2 * i - 1, BaseOffsets[i]) BY <2>1, <2>3, FileAtHolds
  <2>5. \A i \in 1..N : BaseOffsets[i] \in Nat /\ BaseOffsets[i] \in S
    BY <2>4 DEF Holds
  <2>6. BaseOffsets \in Seq(Nat) /\ Len(BaseOffsets) = N
    <3>1. BaseOffsets \in [1..N -> Nat] BY <2>1, <2>5
    <3>2. QED BY <2>2, <3>1, SMT
  <2>7. BaseOffsets # <<>> BY <2>2, <2>6, SMT
  <2>8. ASSUME NEW i \in 1..N, NEW j \in 1..N, i < j
        PROVE  BaseOffsets[i] < BaseOffsets[j]
    <3>1. (2 * i - 1) + 1 < 2 * j - 1 BY <2>8, SMT
    <3>2. QED BY <2>3, <2>4, <3>1, HoldsOrder
  <2>9. ASSUME NEW p \in Nat, NEW b, Holds(p, b), p % 2 = 1
        PROVE  \E i \in 1..N : BaseOffsets[i] = b
    <3>1. PICK i \in 1..N : FileAt(2 * i - 1) = b BY <1>2, <2>9, OddIsOpened DEF N
    <3>2. QED BY <2>1, <3>1
  <2>10. ASSUME NEW b \in I PROVE \E i \in 1..N : BaseOffsets[i] = b
    <3>1. b \in Nat /\ b \in S BY <1>0
    <3>2. Files(b) = 2 BY <3>1, SMT DEF Files
    <3>3. Below(b) \in Nat /\ Below(b + 1) = Below(b) + 2 BY <3>1, <3>2, BelowFacts
    <3>4. PICK p \in Nat : Below(b) < p /\ p <= Below(b) + 2 /\ p % 2 = 1
      <4>1. CASE Below(b) % 2 = 0
        <5>1. /\ Below(b) + 1 \in Nat /\ Below(b) < Below(b) + 1
              /\ Below(b) + 1 <= Below(b) + 2 /\ (Below(b) + 1) % 2 = 1
          BY <3>3, <4>1, SMT
        <5>2. QED BY <5>1
      <4>2. CASE Below(b) % 2 # 0
        <5>1. /\ Below(b) + 2 \in Nat /\ Below(b) < Below(b) + 2
              /\ Below(b) + 2 <= Below(b) + 2 /\ (Below(b) + 2) % 2 = 1
          BY <3>3, <4>2, SMT
        <5>2. QED BY <5>1
      <4>3. QED BY <4>1, <4>2
    <3>5. Holds(p, b) BY <3>1, <3>3, <3>4 DEF Holds
    <3>6. QED BY <2>9, <3>4, <3>5
  <2>11. ASSUME OneAlone, NEW b \in S PROVE \E i \in 1..N : BaseOffsets[i] = b
    <3>1. CASE b \in I BY <2>10, <3>1
    <3>2. CASE b \notin I
      <4>0. b \in Nat BY <1>0
      <4>1. \A x \in S : x # b => x \in I BY <2>11, <3>2 DEF OneAlone, Alone
      <4>2. \A x \in S : x < b => x # b BY <1>0, <4>0, SMT
      <4>3. {x \in S : x < b} = {x \in I : x < b} BY <1>0, <4>1, <4>2
      <4>4. Before(S, b) = Before(I, b) BY <4>3 DEF Before
      <4>5. Before(I, b) \in Nat
        <5>1. PICK m \in Nat : S \subseteq 0..m BY DEF FileInv
        <5>2. I \subseteq 0..m BY <1>0, <5>1
        <5>3. QED BY <4>0, <5>2, BeforeFacts
      <4>6. Below(b) = 2 * Before(I, b) BY <4>4, <4>5, SMT DEF Below
      <4>7. Files(b) = 1 BY <3>2, SMT DEF Files
      <4>8. Below(b + 1) = Below(b) + 1 BY <4>0, <4>7, BelowFacts
      <4>9. PICK p \in Nat : p = Below(b) + 1 /\ Below(b) < p /\ p <= p /\ p % 2 = 1
        <5>1. PICK q \in Nat : q = Before(I, b) BY <4>5
        <5>2. /\ 2 * q + 1 \in Nat /\ 2 * q < 2 * q + 1 /\ 2 * q + 1 <= 2 * q + 1
              /\ (2 * q + 1) % 2 = 1
          BY SMT
        <5>3. QED BY <4>6, <5>1, <5>2
      <4>10. Holds(p, b) BY <4>0, <4>8, <4>9 DEF Holds
      <4>11. QED BY <2>9, <4>9, <4>10
    <3>3. QED BY <3>1, <3>2
  <2>12. QED BY <2>5, <2>6, <2>7, <2>8, <2>10, <2>11 DEF SetupOK
<1>3. QED BY <1>1, <1>2

-----------------------------------------------------------------------------
(* Segments.                                                               *)

StoreFits(st) == st \in Seq(StoreRecord) /\ StoreSize(st) <= MaxStoreBytes
IndexFits(ix) == ix \in Seq(IndexEntry) /\ Len(ix) * entWidth <= MaxIndexBytes

\* A file that was just created fits in its array.
LEMMA EmptyFits == StoreFits(<<>>) /\ IndexFits(<<>>)
<1>1. <<>> \in Seq(StoreRecord) /\ <<>> \in Seq(IndexEntry) BY EmptySeq
<1>2. StoreSize(<<>>) = 0 BY DEF StoreSize
<1>3. 0 <= MaxStoreBytes BY ConfigAssumption, SMT
<1>4. Len(<<>>) * entWidth <= MaxIndexBytes BY ConfigAssumption, SMT DEF entWidth
<1>5. QED BY <1>1, <1>2, <1>3, <1>4 DEF StoreFits, IndexFits

\* newSegment can read every file, one it has to create included.
LEMMA FilesFit ==
  ASSUME FileInv
  PROVE  \A b : StoreFits(FileOf(stores, b)) /\ IndexFits(FileOf(indexes, b))
<1> TAKE b
<1>1. StoreFits(FileOf(stores, b)) BY EmptyFits DEF FileOf, FileInv, StoreFits
<1>2. IndexFits(FileOf(indexes, b)) BY EmptyFits DEF FileOf, FileInv, IndexFits
<1>3. QED BY <1>1, <1>2

\* What newSegment makes of the files.
OpenedFrom(s, b, st, ix) ==
  /\ s \in Segment /\ SegmentOK(s)
  /\ s.base = b /\ s.store = st /\ s.index = ix
  /\ s.storeSynced = Len(st) /\ s.indexSynced = Len(ix)

\* newSegment makes a sound segment of files that fit.
LEMMA OpenedSegment ==
  ASSUME NEW b \in Nat, NEW st, NEW ix, StoreFits(st), IndexFits(ix)
  PROVE  OpenedFrom(OpenSegment(b, st, ix), b, st, ix)
<1> DEFINE s == OpenSegment(b, st, ix)
<1>1. /\ s.base = b /\ s.store = st /\ s.index = ix
      /\ s.storeSynced = Len(st) /\ s.indexSynced = Len(ix)
      /\ s.next = IF ix = <<>> THEN b ELSE b + ix[Len(ix)].off + 1
  BY DEF OpenSegment
<1>2. st \in Seq(StoreRecord) /\ ix \in Seq(IndexEntry) BY DEF StoreFits, IndexFits
<1>3. Len(st) \in Nat /\ Len(ix) \in Nat BY <1>2, LenProperties
<1>4. ix # <<>> => ix[Len(ix)] \in IndexEntry BY <1>2, SMT
<1>5. ix # <<>> => s.next \in Nat /\ b < s.next BY <1>1, <1>4, SMT DEF IndexEntry
<1>6. s.next \in Nat BY <1>1, <1>5
<1>7. s \in Segment BY <1>1, <1>2, <1>3, <1>6 DEF OpenSegment, Segment
<1>8. Len(st) <= Len(st) /\ Len(ix) <= Len(ix) BY <1>3, SMT
<1> HIDE DEF s
<1>9. SegmentOK(s) BY <1>1, <1>5, <1>8 DEF SegmentOK, StoreFits, IndexFits
<1>10. OpenedFrom(s, b, st, ix) BY <1>1, <1>7, <1>9 DEF OpenedFrom
<1>11. QED BY <1>10 DEF s

\* The record of v and its index entry, when v is appended to s.
RecordOf(s, v) == [pos |-> StoreSize(s.store), len |-> RecordLen(v, s.next),
                   value |-> v, offset |-> s.next]
EntryOf(s) == [off |-> s.next - s.base, pos |-> StoreSize(s.store)]

\* What segment.Append makes of a segment that has room.
AppendedTo(t, s, v) ==
  /\ t \in Segment /\ SegmentOK(t)
  /\ t.base = s.base /\ t.next = s.next + 1
  /\ RecordOf(s, v) \in StoreRecord /\ t.store = Append(s.store, RecordOf(s, v))
  /\ EntryOf(s) \in IndexEntry /\ t.index = Append(s.index, EntryOf(s))
  /\ t.storeSynced = s.storeSynced /\ t.indexSynced = s.indexSynced

\* segment.Append makes a sound segment of one that has room for the record.
LEMMA AppendedSegment ==
  ASSUME NEW s \in Segment, SegmentOK(s), NEW v \in Value,
         ~Overflows(s, v), ~IndexIsMaxed(s.index)
  PROVE  AppendedTo(SegmentAppend(s, v), s, v)
<1> DEFINE t == SegmentAppend(s, v)
           rec == RecordOf(s, v)
           ent == EntryOf(s)
<1> USE DEF RecordOf, EntryOf
<1>1. /\ s.base \in Nat /\ s.next \in Nat
      /\ s.store \in Seq(StoreRecord) /\ s.index \in Seq(IndexEntry)
      /\ s.storeSynced \in Nat /\ s.indexSynced \in Nat
  BY DEF Segment
<1>2. StoreSize(s.store) \in Nat BY <1>1, StoreSizeType
<1>3. RecordLen(v, s.next) \in Nat BY <1>1, RecordLenType
<1>4. s.base <= s.next BY <1>1, SMT DEF SegmentOK
<1>5. rec \in StoreRecord BY <1>1, <1>2, <1>3 DEF StoreRecord
<1>6. s.next - s.base \in Nat BY <1>1, <1>4, SMT
<1>7. ent \in IndexEntry BY <1>2, <1>6 DEF IndexEntry
<1>8. t = [s EXCEPT !.store = Append(s.store, rec), !.index = Append(s.index, ent),
                    !.next = s.next + 1]
  BY SMT DEF SegmentAppend, Segment
<1> HIDE DEF rec, ent
<1>9. /\ t.base = s.base /\ t.next = s.next + 1
      /\ t.store = Append(s.store, rec) /\ t.index = Append(s.index, ent)
      /\ t.storeSynced = s.storeSynced /\ t.indexSynced = s.indexSynced
  BY <1>8 DEF Segment
<1>10. /\ Append(s.store, rec) \in Seq(StoreRecord) /\ Append(s.index, ent) \in Seq(IndexEntry)
       /\ Len(Append(s.store, rec)) = Len(s.store) + 1
       /\ Len(Append(s.index, ent)) = Len(s.index) + 1
       /\ Append(s.store, rec)[Len(s.store) + 1] = rec
       /\ Len(s.store) \in Nat /\ Len(s.index) \in Nat
  <2>1. /\ Append(s.store, rec) \in Seq(StoreRecord) /\ Len(s.store) \in Nat
        /\ Len(Append(s.store, rec)) = Len(s.store) + 1
        /\ Append(s.store, rec)[Len(s.store) + 1] = rec
    BY <1>1, <1>5, SMT
  <2>2. /\ Append(s.index, ent) \in Seq(IndexEntry) /\ Len(s.index) \in Nat
        /\ Len(Append(s.index, ent)) = Len(s.index) + 1
    BY <1>1, <1>7, SMT
  <2>3. QED BY <2>1, <2>2
<1>11. s.next + 1 \in Nat BY <1>1, SMT
<1>12. t \in Segment
  <2>1. t = [base |-> s.base, next |-> s.next + 1, store |-> Append(s.store, rec),
             index |-> Append(s.index, ent), storeSynced |-> s.storeSynced,
             indexSynced |-> s.indexSynced]
    BY <1>8 DEF Segment
  <2> HIDE DEF t
  <2>2. QED BY <1>1, <1>10, <1>11, <2>1, SMT DEF Segment
<1> HIDE DEF t
<1>13. SegmentOK(t)
  <2>1. t.store # <<>> /\ t.index # <<>>
    <3>1. Len(t.store) # 0 /\ Len(t.index) # 0 BY <1>9, <1>10, SMT
    <3>2. Len(<<>>) = 0 BY EmptySeq
    <3>3. QED BY <3>1, <3>2
  <2>2. StoreSize(t.store) <= MaxStoreBytes
    <3>1. t.store[Len(t.store)] = rec BY <1>9, <1>10
    <3>2. StoreSize(t.store) = StoreSize(s.store) + lenWidth + RecordLen(v, s.next)
      <4>1. PICK z : z = StoreSize(s.store) OBVIOUS
      <4>2. rec.pos = z /\ rec.len = RecordLen(v, s.next) BY <4>1 DEF rec
      <4>3. StoreSize(t.store) = z + lenWidth + RecordLen(v, s.next)
        BY <2>1, <3>1, <4>2 DEF StoreSize
      <4>4. QED BY <4>1, <4>3
    <3>3. QED BY <1>2, <1>3, <3>2, ConfigAssumption, SMT DEF Overflows, lenWidth
  <2>3. Len(t.index) * entWidth <= MaxIndexBytes
    BY <1>9, <1>10, ConfigAssumption, SMT DEF IndexIsMaxed, entWidth
  <2>4. t.storeSynced <= Len(t.store) /\ t.indexSynced <= Len(t.index)
    <3>1. s.storeSynced <= Len(s.store) /\ s.indexSynced <= Len(s.index) BY DEF SegmentOK
    <3>2. s.storeSynced <= Len(s.store) + 1 /\ s.indexSynced <= Len(s.index) + 1
      BY <1>1, <1>10, <3>1, SMT
    <3>3. QED BY <1>9, <1>10, <3>2
  <2>5. t.base < t.next BY <1>1, <1>4, <1>9, SMT
  <2>6. QED BY <2>1, <2>2, <2>3, <2>4, <2>5 DEF SegmentOK
<1>14. AppendedTo(t, s, v) BY <1>5, <1>7, <1>9, <1>12, <1>13 DEF AppendedTo, rec, ent
<1>15. QED BY <1>14 DEF t

-----------------------------------------------------------------------------
(* The invariant holds initially and is kept by every action.              *)

\* Before the first NewLog the invariant holds.
LEMMA LogInit == Init => LogInv
<1> SUFFICES ASSUME Init PROVE LogInv OBVIOUS
<1> USE DEF Init
<1>1. DOMAIN stores = {} /\ DOMAIN indexes = {} BY SMT
<1>2. Len(<<>>) = 0 /\ 1..0 = {} /\ \A S : <<>> \in Seq(S) BY EmptySeq, SMT
<1>3. PhaseInv
  <2>1. 0 \in 0..MaxCrashes /\ 0 \in 0..MaxFaults BY LogBounds, SMT
  <2>2. QED BY <2>1 DEF PhaseInv
<1>4. 0 \in Nat OBVIOUS
<1>5. FileInv BY <1>1, <1>4 DEF FileInv
<1>6. SegmentInv BY <1>2 DEF SegmentInv
<1>7. OpenInv BY DEF OpenInv
<1>8. TodoInv BY <1>2 DEF TodoInv
<1>9. QED BY <1>3, <1>5, <1>6, <1>7, <1>8 DEF LogInv

\* What depends on the files only stays with them, and so on.
LEMMA Frames ==
  ASSUME LogInv
  PROVE  /\ UNCHANGED <<stores, indexes>> => FileInv'
         /\ UNCHANGED <<stores, indexes, segs>> => SegmentInv'
         /\ UNCHANGED <<stores, indexes, segs>> /\ phase' # "open" => OpenInv'
         /\ UNCHANGED <<todo, segs, indexes>> /\ phase' # "closing" => TodoInv'
<1>1. UNCHANGED <<stores, indexes>> => FileInv' BY DEF LogInv, FileInv
<1>2. ASSUME UNCHANGED <<stores, indexes, segs>> PROVE SegmentInv'
  <2>1. \A s : Reflects(s)' <=> Reflects(s)
    BY <1>2 DEF Reflects
  <2>2. \A k : Latest(k)' <=> Latest(k) BY <1>2 DEF Latest
  <2>3. QED BY <1>2, <2>1, <2>2 DEF LogInv, SegmentInv
<1>3. UNCHANGED <<stores, indexes, segs>> /\ phase' # "open" => OpenInv' BY DEF OpenInv
<1>4. UNCHANGED <<todo, segs, indexes>> /\ phase' # "closing" => TodoInv' BY DEF LogInv, TodoInv
<1>5. QED BY <1>1, <1>2, <1>3, <1>4

\* With nothing left to do there is nothing to say of the rest of Close or
\* Remove.
LEMMA EmptyTodo == ASSUME todo' = <<>> PROVE TodoInv'
<1>1. Len(<<>>) = 0 /\ 1..0 = {} /\ \A S : <<>> \in Seq(S) BY EmptySeq, SMT
<1>2. QED BY <1>1 DEF TodoInv

\* NewFileSystem, which formats the memory, keeps the invariant.
LEMMA NewFileSystemKeeps == ASSUME LogInv, NewFileSystem PROVE LogInv'
<1> USE DEF NewFileSystem, memVars
<1>1. DOMAIN stores' = {} /\ DOMAIN indexes' = {} BY SMT
<1>2. PhaseInv' BY DEF LogInv, PhaseInv
<1>3. 0 \in Nat OBVIOUS
<1>4. FileInv' BY <1>1, <1>3 DEF FileInv
<1>5. SegmentInv'
  <2>1. \A s : Reflects(s)' BY <1>1 DEF Reflects
  <2>2. QED BY <2>1 DEF LogInv, SegmentInv
<1>6. OpenInv' BY DEF OpenInv
<1>7. TodoInv' BY EmptyTodo DEF LogInv, PhaseInv
<1>8. QED BY <1>2, <1>4, <1>5, <1>6, <1>7 DEF LogInv

\* Unmount keeps the invariant.
LEMMA UnmountKeeps == ASSUME LogInv, Unmount PROVE LogInv'
<1> USE DEF Unmount, memVars, histVars
<1>1. PhaseInv' BY DEF LogInv, PhaseInv
<1>2. OpenInv' BY DEF LogInv, OpenInv, Bases
<1>3. FileInv' /\ SegmentInv' /\ TodoInv' BY Frames
<1>4. QED BY <1>1, <1>2, <1>3 DEF LogInv

\* What setup makes of the files, in memory and on the device.
Opened(bases) ==
  /\ segs' \in Seq(Segment) /\ Len(segs') = Len(bases)
  /\ \A i \in 1..Len(bases) :
       /\ segs'[i] \in Segment /\ SegmentOK(segs'[i])
       /\ segs'[i].base = bases[i]
       /\ segs'[i].store = FileOf(stores, bases[i])
       /\ segs'[i].index = FileOf(indexes, bases[i])
       /\ segs'[i].storeSynced = Len(FileOf(stores, bases[i]))
       /\ segs'[i].indexSynced = Len(FileOf(indexes, bases[i]))
  /\ DOMAIN stores' = DOMAIN stores \cup Bases'
  /\ DOMAIN indexes' = Bases'
  /\ \A b \in DOMAIN stores' : stores'[b] = FileOf(stores, b)
  /\ \A b \in DOMAIN indexes' : indexes'[b] = FileOf(indexes, b)

\* NewLog opens a segment for each base offset of setup, and has both its files
\* created.
LEMMA NewLogOpens == ASSUME LogInv, NewLog PROVE Opened(BaseOffsets)
<1>1. PICK bases : bases = BaseOffsets OBVIOUS
<1>2. SetupOK(bases) BY <1>1, Setup DEF LogInv
<1>3. bases \in Seq(Nat) /\ DOMAIN bases = 1..Len(bases) /\ Len(bases) \in Nat
  BY <1>2, LenProperties DEF SetupOK
<1> DEFINE Opening(i) ==
             OpenSegment(bases[i], FileOf(stores, bases[i]), FileOf(indexes, bases[i]))
<1>4. /\ segs' = [i \in 1..Len(bases) |-> Opening(i)]
      /\ stores' = [b \in DOMAIN stores \cup Range(bases) |-> FileOf(stores, b)]
      /\ indexes' = [b \in DOMAIN indexes \cup Range(bases) |-> FileOf(indexes, b)]
  BY <1>1, <1>3 DEF NewLog
<1>5. ASSUME NEW i \in 1..Len(bases)
      PROVE  /\ segs'[i] \in Segment /\ SegmentOK(segs'[i])
             /\ segs'[i].base = bases[i]
             /\ segs'[i].store = FileOf(stores, bases[i])
             /\ segs'[i].index = FileOf(indexes, bases[i])
             /\ segs'[i].storeSynced = Len(FileOf(stores, bases[i]))
             /\ segs'[i].indexSynced = Len(FileOf(indexes, bases[i]))
  <2>1. bases[i] \in Nat BY <1>3, ElementOfSeq
  <2>2. PICK b, st, ix : b = bases[i] /\ st = FileOf(stores, b) /\ ix = FileOf(indexes, b)
    OBVIOUS
  <2>3. StoreFits(st) /\ IndexFits(ix) BY <2>2, FilesFit DEF LogInv
  <2>4. segs'[i] = OpenSegment(b, st, ix) BY <1>4, <2>2
  <2>5. OpenedFrom(segs'[i], b, st, ix) BY <2>1, <2>2, <2>3, <2>4, OpenedSegment
  <2>6. QED BY <2>2, <2>5 DEF OpenedFrom
<1>6. segs' \in Seq(Segment) /\ Len(segs') = Len(bases)
  <2>1. segs' \in [1..Len(bases) -> Segment] BY <1>4, <1>5
  <2>2. QED BY <1>3, <2>1, SMT
<1>7. Range(bases) = Bases'
  <2>1. \A i \in 1..Len(bases) : segs'[i].base = bases[i] BY <1>5
  <2>2. QED BY <1>3, <1>6, <2>1 DEF Range, Bases
<1>8. DOMAIN indexes \subseteq Range(bases) BY <1>2, <1>3 DEF SetupOK, Range
<1>9. DOMAIN stores' = DOMAIN stores \cup Bases' /\ DOMAIN indexes' = Bases'
  BY <1>4, <1>7, <1>8
<1>10. /\ \A b \in DOMAIN stores' : stores'[b] = FileOf(stores, b)
       /\ \A b \in DOMAIN indexes' : indexes'[b] = FileOf(indexes, b)
  BY <1>4
<1>11. QED BY <1>1, <1>5, <1>6, <1>9, <1>10 DEF Opened

\* A sequence is its own longest prefix.
LEMMA SubSeqAll == ASSUME NEW S, NEW s \in Seq(S) PROVE SubSeq(s, 1, Len(s)) = s
BY SMT

\* NewLog keeps the invariant.
LEMMA NewLogKeeps == ASSUME LogInv, NewLog PROVE LogInv'
<1>1. PICK bases : bases = BaseOffsets OBVIOUS
<1>2. SetupOK(bases) /\ Opened(bases) BY <1>1, Setup, NewLogOpens DEF LogInv
<1>3. phase' = "open" /\ todo = <<>> /\ UNCHANGED <<todo, mounted, crashes, faults, torn, orphan>>
  BY DEF NewLog, histVars, LogInv, PhaseInv
<1>4. bases \in Seq(Nat) /\ Len(bases) \in Nat /\ Len(bases) # 0
  BY <1>2, SMT DEF SetupOK
<1>5. segs' \in Seq(Segment) /\ Len(segs') = Len(bases) BY <1>2 DEF Opened
<1>6. PhaseInv'
  <2>1. segs' # <<>> BY <1>4, <1>5, SMT
  <2>2. QED BY <1>3, <2>1 DEF LogInv, PhaseInv
<1>7. TodoInv' BY <1>3, EmptyTodo
<1>8. OpenInv' BY <1>2 DEF Opened, OpenInv
<1>9. FileInv'
  <2>1. DOMAIN indexes' \subseteq DOMAIN stores' BY <1>2 DEF Opened
  <2>2. \A b \in DOMAIN stores' : StoreFits(stores'[b]) BY <1>2, FilesFit DEF Opened, LogInv
  <2>3. \A b \in DOMAIN indexes' : IndexFits(indexes'[b]) BY <1>2, FilesFit DEF Opened, LogInv
  <2>4. PICK m \in Nat : DOMAIN stores \subseteq 0..m BY DEF LogInv, FileInv
  <2>5. DOMAIN stores' \subseteq DOMAIN stores \cup {InitialOffset}
    <3>1. \A i \in 1..Len(bases) : segs'[i].base \in DOMAIN stores \cup {InitialOffset}
      BY <1>2 DEF Opened, SetupOK
    <3>2. Bases' \subseteq DOMAIN stores \cup {InitialOffset} BY <1>5, <3>1 DEF Bases
    <3>3. QED BY <1>2, <3>2 DEF Opened
  <2>6. m + InitialOffset \in Nat /\ InitialOffset \in 0..(m + InitialOffset)
        /\ 0..m \subseteq 0..(m + InitialOffset)
    BY ConfigAssumption, SMT
  <2>7. DOMAIN stores' \subseteq 0..(m + InitialOffset) BY <2>4, <2>5, <2>6
  <2>8. QED BY <2>1, <2>2, <2>3, <2>6, <2>7 DEF FileInv, StoreFits, IndexFits
<1>10. SegmentInv'
  <2>1. \A k \in 1..Len(segs') : SegmentOK(segs'[k]) BY <1>2, <1>5 DEF Opened
  <2>2. ASSUME NEW j \in 1..Len(segs'), NEW k \in 1..Len(segs'), j < k
        PROVE  segs'[j].base <= segs'[k].base /\ segs'[j].base # segs'[k].base
    <3>1. segs'[j].base = bases[j] /\ segs'[k].base = bases[k] BY <1>2, <1>5 DEF Opened
    <3>2. bases[j] < bases[k] BY <1>2, <1>5, <2>2 DEF SetupOK
    <3>3. bases[j] \in Nat /\ bases[k] \in Nat BY <1>4, <1>5, ElementOfSeq
    <3>4. QED BY <3>1, <3>2, <3>3, SMT
  <2>3. ASSUME NEW k \in 1..Len(segs') PROVE Reflects(segs[k])'
    <3>1. PICK s, b : s = segs'[k] /\ b = bases[k] OBVIOUS
    <3>2. /\ s.base = b /\ s.store = FileOf(stores, b) /\ s.index = FileOf(indexes, b)
          /\ s.storeSynced = Len(s.store) /\ s.indexSynced = Len(s.index)
      BY <1>2, <1>5, <3>1 DEF Opened
    <3>3. /\ b \in DOMAIN stores' => stores'[b] = s.store
          /\ b \in DOMAIN indexes' => indexes'[b] = s.index
      BY <1>2, <3>2 DEF Opened
    <3>4. s.store \in Seq(StoreRecord) /\ s.index \in Seq(IndexEntry)
      BY <3>2, FilesFit DEF StoreFits, IndexFits, LogInv
    <3>5. SubSeq(s.store, 1, s.storeSynced) = s.store /\ SubSeq(s.index, 1, s.indexSynced) = s.index
      BY <3>2, <3>4, SubSeqAll
    <3>6. QED BY <3>1, <3>2, <3>3, <3>5 DEF Reflects
  <2>4. QED BY <1>5, <2>1, <2>2, <2>3 DEF SegmentInv
<1>11. QED BY <1>6, <1>7, <1>8, <1>9, <1>10 DEF LogInv

\* Files were created or read, none was written.
Touched(A, B) ==
  /\ DOMAIN stores' = DOMAIN stores \cup A
  /\ DOMAIN indexes' = DOMAIN indexes \cup B
  /\ \A b \in DOMAIN stores' : stores'[b] = FileOf(stores, b)
  /\ \A b \in DOMAIN indexes' : indexes'[b] = FileOf(indexes, b)

\* Creating the files of one base offset keeps what is said of files.
LEMMA TouchedFiles ==
  ASSUME FileInv, NEW c \in Nat, NEW A, NEW B, B \subseteq A, A \subseteq {c}, Touched(A, B)
  PROVE  FileInv'
<1>1. DOMAIN indexes' \subseteq DOMAIN stores' BY DEF Touched, FileInv
<1>2. \A b \in DOMAIN stores' : StoreFits(stores'[b]) BY FilesFit DEF Touched
<1>3. \A b \in DOMAIN indexes' : IndexFits(indexes'[b]) BY FilesFit DEF Touched
<1>4. PICK m \in Nat : DOMAIN stores \subseteq 0..m BY DEF FileInv
<1>5. m + c \in Nat /\ c \in 0..(m + c) /\ 0..m \subseteq 0..(m + c) BY SMT
<1>6. DOMAIN stores' \subseteq 0..(m + c) BY <1>4, <1>5 DEF Touched
<1>7. QED BY <1>1, <1>2, <1>3, <1>5, <1>6 DEF FileInv, StoreFits, IndexFits

\* The active segment of an open log.
ActiveOK ==
  /\ Len(segs) \in Nat /\ Len(segs) >= 1
  /\ active = segs[Len(segs)] /\ active \in Segment /\ SegmentOK(active)
  /\ Reflects(active)
  /\ active.base \in Nat /\ nextOffset \in Nat
  /\ active.base <= nextOffset /\ (active.base = nextOffset <=> active.index = <<>>)
  /\ \A k \in 1..Len(segs) : segs[k].base \in Nat /\ segs[k].base <= active.base
  /\ \A k \in 1..Len(segs) : segs[k].base = active.base /\ k # Len(segs) => segs[k].index = <<>>

\* An open log has an active segment, its last, and it is sound.
LEMMA ActiveFacts == ASSUME LogInv, phase = "open" PROVE ActiveOK
<1>1. segs \in Seq(Segment) /\ segs # <<>> BY DEF LogInv, SegmentInv, PhaseInv
<1>2. PICK n : n = Len(segs) OBVIOUS
<1>3. n \in Nat /\ n >= 1 /\ n \in 1..n BY <1>1, <1>2, SMT
<1>4. active = segs[n] BY <1>2 DEF active
<1>5. \A k \in 1..n : segs[k] \in Segment BY <1>1, <1>2, ElementOfSeq
<1>6. \A k \in 1..n : segs[k].base \in Nat /\ segs[k].next \in Nat BY <1>5 DEF Segment
<1>7. SegmentOK(active) BY <1>2, <1>3, <1>4 DEF LogInv, SegmentInv
<1>8. Reflects(active)
  <2>1. \A j \in 1..n : ~(n < j) BY <1>3, SMT
  <2>2. Latest(n) BY <1>2, <2>1 DEF Latest
  <2>3. QED BY <1>2, <1>3, <1>4, <2>2 DEF LogInv, SegmentInv
<1>9. nextOffset \in Nat /\ active.base \in Nat BY <1>3, <1>4, <1>6 DEF nextOffset
<1>10. active.base <= nextOffset /\ (active.base = nextOffset <=> active.index = <<>>)
  <2>1. CASE active.index = <<>>
    <3>1. active.base = nextOffset BY <1>7, <2>1 DEF SegmentOK, nextOffset
    <3>2. QED BY <1>9, <2>1, <3>1, SMT
  <2>2. CASE active.index # <<>>
    <3>1. active.base < nextOffset BY <1>7, <2>2 DEF SegmentOK, nextOffset
    <3>2. active.base <= nextOffset /\ active.base # nextOffset BY <1>9, <3>1, SMT
    <3>3. QED BY <2>2, <3>2
  <2>3. QED BY <2>1, <2>2
<1>11. ASSUME NEW k \in 1..n
       PROVE  segs[k].base <= active.base
              /\ (segs[k].base = active.base /\ k # n => segs[k].index = <<>>)
  <2>1. CASE k = n BY <1>3, <1>4, <1>6, <2>1, SMT
  <2>2. CASE k # n
    <3>1. k < n BY <1>3, <2>2, SMT
    <3>2. QED BY <1>2, <1>3, <1>4, <3>1 DEF LogInv, SegmentInv
  <2>3. QED BY <2>1, <2>2
<1>12. QED BY <1>2, <1>3, <1>4, <1>5, <1>6, <1>7, <1>8, <1>9, <1>10, <1>11 DEF ActiveOK

\* Rolling over finds no entry in the index of the next offset.
LEMMA NoIndexAhead == ASSUME LogInv, phase = "open" PROVE FileOf(indexes, nextOffset) = <<>>
<1>0. ActiveOK BY ActiveFacts
<1>1. CASE active.index = <<>>
  <2>1. nextOffset = active.base BY <1>0, <1>1 DEF ActiveOK
  <2>2. active.indexSynced \in Nat /\ active.indexSynced <= Len(<<>>)
    BY <1>0, <1>1 DEF ActiveOK, Segment, SegmentOK
  <2>3. SubSeq(<<>>, 1, active.indexSynced) = <<>> BY <2>2, SMT
  <2>4. nextOffset \in DOMAIN indexes => indexes[nextOffset] = <<>>
    BY <1>0, <1>1, <2>1, <2>3 DEF ActiveOK, Reflects
  <2>5. QED BY <2>4 DEF FileOf
<1>2. CASE active.index # <<>>
  <2>1. active.base < nextOffset BY <1>0, <1>2, SMT DEF ActiveOK
  <2>2. \A k \in 1..Len(segs) : segs[k].base # nextOffset
    <3> TAKE k \in 1..Len(segs)
    <3>1. /\ segs[k].base \in Nat /\ active.base \in Nat /\ nextOffset \in Nat
          /\ segs[k].base <= active.base
      BY <1>0 DEF ActiveOK
    <3>2. QED BY <2>1, <3>1, SMT
  <2>3. nextOffset \notin Bases BY <2>2 DEF Bases
  <2>4. QED BY <2>3 DEF LogInv, OpenInv, FileOf
<1>3. QED BY <1>1, <1>2

\* The segment that Append rolls over to.
LEMMA FreshFacts ==
  ASSUME LogInv, phase = "open"
  PROVE  /\ OpenedFrom(Fresh, nextOffset, FileOf(stores, nextOffset), <<>>)
         /\ Fresh.next = nextOffset
<1>1. PICK b, st : b = nextOffset /\ st = FileOf(stores, b) OBVIOUS
<1>2. b \in Nat BY <1>1, ActiveFacts DEF ActiveOK
<1>3. StoreFits(st) /\ IndexFits(<<>>) BY <1>1, FilesFit, EmptyFits DEF LogInv
<1>4. Fresh = OpenSegment(b, st, <<>>) BY <1>1, NoIndexAhead DEF Fresh
<1>5. OpenedFrom(OpenSegment(b, st, <<>>), b, st, <<>>) BY <1>2, <1>3, OpenedSegment
<1>6. OpenSegment(b, st, <<>>).next = b BY DEF OpenSegment
<1>7. QED BY <1>1, <1>4, <1>5, <1>6

\* The segment that takes v, and the base offset of the files Append opens.
Target(v) == IF ToBeMaxed(active, v) THEN Fresh ELSE active
Opens(v) == IF ToBeMaxed(active, v) THEN {nextOffset} ELSE {}

\* The segment a record goes to is sound, has room in its index and takes the
\* next offset: a segment that ToBeMaxed finds full is never appended to.
LEMMA TargetFacts ==
  ASSUME LogInv, phase = "open", NEW v
  PROVE  /\ Target(v) \in Segment /\ SegmentOK(Target(v))
         /\ ~IndexIsMaxed(Target(v).index) /\ Target(v).next = nextOffset
<1>1. CASE ToBeMaxed(active, v)
  <2>1. Target(v) = Fresh BY <1>1 DEF Target
  <2>2. Fresh \in Segment /\ SegmentOK(Fresh) /\ Fresh.index = <<>> /\ Fresh.next = nextOffset
    BY FreshFacts DEF OpenedFrom
  <2>3. ~IndexIsMaxed(<<>>) BY ConfigAssumption, SMT DEF IndexIsMaxed, entWidth
  <2>4. QED BY <2>1, <2>2, <2>3
<1>2. CASE ~ToBeMaxed(active, v)
  <2>1. Target(v) = active BY <1>2 DEF Target
  <2>2. ~IndexIsMaxed(active.index) BY <1>2 DEF ToBeMaxed
  <2>3. QED BY <2>1, <2>2, ActiveFacts DEF ActiveOK, nextOffset
<1>3. QED BY <1>1, <1>2

\* Opening a file creates it if it is missing and changes no other.
LEMMA WithFileOf ==
  ASSUME NEW f, NEW g, NEW c, g = With(f, c, FileOf(f, c))
  PROVE  DOMAIN g = DOMAIN f \cup {c} /\ \A b \in DOMAIN g : g[b] = FileOf(f, b)
BY DEF With, FileOf

\* Append creates the files of a new active segment, or none.
LEMMA AppendTouches ==
  ASSUME NEW v, AppendValue(v) PROVE Touched(Opens(v), Opens(v))
<1>1. CASE ToBeMaxed(active, v)
  <2>1. /\ stores' = With(stores, nextOffset, FileOf(stores, nextOffset))
        /\ indexes' = With(indexes, nextOffset, FileOf(indexes, nextOffset))
    BY <1>1 DEF AppendValue
  <2>2. DOMAIN stores' = DOMAIN stores \cup {nextOffset}
        /\ \A b \in DOMAIN stores' : stores'[b] = FileOf(stores, b)
    BY <2>1, WithFileOf
  <2>3. DOMAIN indexes' = DOMAIN indexes \cup {nextOffset}
        /\ \A b \in DOMAIN indexes' : indexes'[b] = FileOf(indexes, b)
    BY <2>1, WithFileOf
  <2>4. QED BY <1>1, <2>2, <2>3 DEF Touched, Opens
<1>2. CASE ~ToBeMaxed(active, v)
  <2>1. UNCHANGED <<stores, indexes>> BY <1>2 DEF AppendValue
  <2>2. QED BY <1>2, <2>1 DEF Touched, Opens, FileOf
<1>3. QED BY <1>1, <1>2

\* What Append makes of the segments: m of them stay, and t takes the record.
SegsAppended(m, t, v) ==
  /\ m \in Nat /\ segs' \in Seq(Segment) /\ Len(segs') = m + 1
  /\ \A i \in 1..m : segs'[i] = segs[i]
  /\ AppendedTo(segs'[m + 1], t, v)

Kept(v) == IF ToBeMaxed(active, v) THEN Len(segs) ELSE Len(segs) - 1

\* An Append that does not panic adds the record to its segment and leaves the
\* others as they were.
LEMMA AppendAppends ==
  ASSUME LogInv, NEW v \in Value, AppendValue(v), phase' # "panicked"
  PROVE  SegsAppended(Kept(v), Target(v), v)
<1>1. PICK t : t = Target(v) OBVIOUS
<1>2. PICK n : n = Len(segs) OBVIOUS
<1>3. phase = "open" BY DEF AppendValue
<1>4. n \in Nat /\ n >= 1 /\ segs \in Seq(Segment)
  BY <1>2, <1>3, ActiveFacts DEF ActiveOK, LogInv, SegmentInv
<1>5. ~Overflows(t, v)
  BY <1>1 DEF AppendValue, Target
<1>6. PICK u : u = SegmentAppend(t, v) OBVIOUS
<1>7. AppendedTo(u, t, v) BY <1>1, <1>3, <1>5, <1>6, TargetFacts, AppendedSegment
<1>8. u \in Segment BY <1>7 DEF AppendedTo
<1>9. CASE ToBeMaxed(active, v)
  <2>1. segs' = Append(segs, u) BY <1>1, <1>5, <1>6, <1>9 DEF AppendValue, Target
  <2>2. segs' \in Seq(Segment) /\ Len(segs') = n + 1 /\ segs'[n + 1] = u
        /\ \A i \in 1..n : segs'[i] = segs[i]
    BY <1>2, <1>4, <1>8, <2>1, SMT
  <2>3. QED BY <1>1, <1>2, <1>4, <1>7, <1>9, <2>2 DEF SegsAppended, Kept
<1>10. CASE ~ToBeMaxed(active, v)
  <2>1. segs' = Append(SubSeq(segs, 1, Len(segs) - 1), u)
    BY <1>1, <1>5, <1>6, <1>10 DEF AppendValue, Target
  <2>2. PICK m \in Nat : m = n - 1 BY <1>4, SMT
  <2> DEFINE f == SubSeq(segs, 1, m)
  <2>3. f \in Seq(Segment) /\ Len(f) = m /\ \A i \in 1..m : f[i] = segs[i]
    BY <1>2, <1>4, <2>2, SMT
  <2>31. segs' = Append(f, u) BY <1>2, <2>1, <2>2
  <2> HIDE DEF f
  <2>4. segs' \in Seq(Segment) /\ Len(segs') = m + 1 /\ segs'[m + 1] = u
        /\ \A i \in 1..m : segs'[i] = segs[i]
    BY <1>8, <2>3, <2>31, SMT
  <2>5. QED BY <1>1, <1>2, <1>7, <1>10, <2>2, <2>4 DEF SegsAppended, Kept
<1>11. QED BY <1>9, <1>10

\* Creating a file does not touch a segment that has its own.
LEMMA TouchedReflects ==
  ASSUME NEW A, NEW B, Touched(A, B), NEW s, Reflects(s),
         s.base \in A => s.base \in DOMAIN stores, s.base \in B => s.base \in DOMAIN indexes
  PROVE  /\ s.base \in DOMAIN stores' => stores'[s.base] = SubSeq(s.store, 1, s.storeSynced)
         /\ s.base \in DOMAIN indexes' => indexes'[s.base] = SubSeq(s.index, 1, s.indexSynced)
BY DEF Touched, Reflects, FileOf

\* A panic leaves the segments alone.
LEMMA AppendPanics ==
  ASSUME LogInv, NEW v \in Value, AppendValue(v), phase' = "panicked"
  PROVE  SegmentInv' /\ phase' = "panicked" /\ UNCHANGED segs
<1>1. phase = "open" /\ UNCHANGED segs BY DEF AppendValue
<1>2. Touched(Opens(v), Opens(v)) BY AppendTouches
<1>3. \A k \in 1..Len(segs) : segs[k].base \in DOMAIN stores /\ segs[k].base \in DOMAIN indexes
  BY <1>1 DEF LogInv, OpenInv, Bases
<1>4. \A k \in 1..Len(segs) : Latest(k)' => Latest(k) BY <1>1 DEF Latest
<1>5. ASSUME NEW k \in 1..Len(segs), Latest(k) PROVE Reflects(segs[k])'
  <2>1. PICK s : s = segs[k] OBVIOUS
  <2>2. Reflects(s) BY <1>5, <2>1 DEF LogInv, SegmentInv
  <2>3. /\ s.base \in DOMAIN stores' => stores'[s.base] = SubSeq(s.store, 1, s.storeSynced)
        /\ s.base \in DOMAIN indexes' => indexes'[s.base] = SubSeq(s.index, 1, s.indexSynced)
    BY <1>2, <1>3, <2>1, <2>2, TouchedReflects
  <2>4. QED BY <1>1, <2>1, <2>3 DEF Reflects
<1>6. QED BY <1>1, <1>4, <1>5 DEF LogInv, SegmentInv

\* The segments that stay have a lower base offset than the one that takes the
\* record, or share it and are empty.
LEMMA AppendOrder ==
  ASSUME LogInv, NEW v \in Value, phase = "open"
  PROVE  \A j \in 1..Kept(v) :
           /\ j \in 1..Len(segs)
           /\ segs[j].base <= Target(v).base
           /\ segs[j].base = Target(v).base => segs[j].index = <<>>
<1>0. ActiveOK BY ActiveFacts
<1> TAKE j \in 1..Kept(v)
<1>1. PICK n : n = Len(segs) OBVIOUS
<1>2. n \in Nat BY <1>0, <1>1 DEF ActiveOK
<1>3. CASE ToBeMaxed(active, v)
  <2>1. j \in 1..n BY <1>1, <1>3 DEF Kept
  <2>2. Target(v).base = nextOffset BY <1>3, FreshFacts DEF Target, OpenedFrom
  <2>3. /\ segs[j].base \in Nat /\ active.base \in Nat /\ nextOffset \in Nat
        /\ segs[j].base <= active.base /\ active.base <= nextOffset
    BY <1>0, <1>1, <2>1 DEF ActiveOK
  <2>4. segs[j].base <= nextOffset BY <2>3, SMT
  <2>5. ASSUME segs[j].base = nextOffset PROVE segs[j].index = <<>>
    <3>1. active.base = nextOffset BY <2>3, <2>5, SMT
    <3>2. QED BY <1>0, <1>1, <2>1, <2>5, <3>1 DEF ActiveOK
  <2>6. QED BY <1>1, <2>1, <2>2, <2>4, <2>5
<1>4. CASE ~ToBeMaxed(active, v)
  <2>1. j \in 1..n /\ j # n BY <1>1, <1>2, <1>4, SMT DEF Kept
  <2>2. Target(v) = active BY <1>4 DEF Target
  <2>3. QED BY <1>0, <1>1, <2>1, <2>2 DEF ActiveOK
<1>5. QED BY <1>3, <1>4

\* A prefix of a sequence is not changed by an element appended to it.
LEMMA SubSeqAppend ==
  ASSUME NEW S, NEW s \in Seq(S), NEW e \in S, NEW n \in Nat, n <= Len(s)
  PROVE  SubSeq(Append(s, e), 1, n) = SubSeq(s, 1, n)
BY SMT

\* The segment that took the record reflects its files.
LEMMA AppendReflects ==
  ASSUME LogInv, NEW v \in Value, AppendValue(v), NEW u, AppendedTo(u, Target(v), v)
  PROVE  /\ u.base \in DOMAIN stores' => stores'[u.base] = SubSeq(u.store, 1, u.storeSynced)
         /\ u.base \in DOMAIN indexes' => indexes'[u.base] = SubSeq(u.index, 1, u.indexSynced)
<1>1. PICK t : t = Target(v) OBVIOUS
<1>2. phase = "open" BY DEF AppendValue
<1>3. t \in Segment /\ SegmentOK(t) BY <1>1, <1>2, TargetFacts
<1>4. /\ t.store \in Seq(StoreRecord) /\ t.index \in Seq(IndexEntry)
      /\ t.storeSynced \in Nat /\ t.indexSynced \in Nat
      /\ t.storeSynced <= Len(t.store) /\ t.indexSynced <= Len(t.index)
  BY <1>3 DEF Segment, SegmentOK
<1>5. /\ u.base = t.base
      /\ SubSeq(u.store, 1, u.storeSynced) = SubSeq(t.store, 1, t.storeSynced)
      /\ SubSeq(u.index, 1, u.indexSynced) = SubSeq(t.index, 1, t.indexSynced)
  <2>1. PICK rec, ent : rec = RecordOf(t, v) /\ ent = EntryOf(t) OBVIOUS
  <2>2. /\ rec \in StoreRecord /\ u.store = Append(t.store, rec)
        /\ ent \in IndexEntry /\ u.index = Append(t.index, ent)
        /\ u.base = t.base /\ u.storeSynced = t.storeSynced /\ u.indexSynced = t.indexSynced
    BY <1>1, <2>1 DEF AppendedTo
  <2>3. SubSeq(Append(t.store, rec), 1, t.storeSynced) = SubSeq(t.store, 1, t.storeSynced)
    BY <1>4, <2>2, SubSeqAppend
  <2>4. SubSeq(Append(t.index, ent), 1, t.indexSynced) = SubSeq(t.index, 1, t.indexSynced)
    BY <1>4, <2>2, SubSeqAppend
  <2>5. QED BY <2>2, <2>3, <2>4
<1>6. Touched(Opens(v), Opens(v)) BY AppendTouches
<1>7. CASE ToBeMaxed(active, v)
  <2>1. OpenedFrom(t, nextOffset, FileOf(stores, nextOffset), <<>>)
    BY <1>1, <1>2, <1>7, FreshFacts DEF Target
  <2>2. SubSeq(t.store, 1, t.storeSynced) = t.store /\ SubSeq(t.index, 1, t.indexSynced) = t.index
    BY <1>4, <2>1, SubSeqAll DEF OpenedFrom
  <2>3. t.base = nextOffset /\ t.store = FileOf(stores, nextOffset)
        /\ t.index = FileOf(indexes, nextOffset)
    BY <1>2, <2>1, NoIndexAhead DEF OpenedFrom
  <2>4. QED BY <1>5, <1>6, <2>2, <2>3 DEF Touched
<1>8. CASE ~ToBeMaxed(active, v)
  <2>1. t = active /\ Reflects(t) BY <1>1, <1>2, <1>8, ActiveFacts DEF Target, ActiveOK
  <2>2. UNCHANGED <<stores, indexes>> BY <1>8 DEF AppendValue
  <2>3. QED BY <1>5, <2>1, <2>2 DEF Reflects
<1>9. QED BY <1>7, <1>8

\* An Append that does not panic keeps what is said of segments.
LEMMA AppendSegments ==
  ASSUME LogInv, NEW v \in Value, AppendValue(v), phase' # "panicked"
  PROVE  SegmentInv' /\ Bases' = Bases \cup Opens(v) /\ segs' # <<>>
<1>1. PICK m, t : m = Kept(v) /\ t = Target(v) OBVIOUS
<1>2. phase = "open" BY DEF AppendValue
<1>3. SegsAppended(m, t, v) BY <1>1, AppendAppends
<1>4. PICK u : u = segs'[m + 1] OBVIOUS
<1>5. /\ m \in Nat /\ segs' \in Seq(Segment) /\ Len(segs') = m + 1
      /\ \A i \in 1..m : segs'[i] = segs[i]
      /\ AppendedTo(u, t, v)
  BY <1>3, <1>4 DEF SegsAppended
<1>6. \A k \in 1..(m + 1) : k \in 1..m \/ k = m + 1 BY <1>5, SMT
<1>7. \A j \in 1..m : /\ j \in 1..Len(segs)
                      /\ segs[j].base <= t.base
                      /\ segs[j].base = t.base => segs[j].index = <<>>
  BY <1>1, <1>2, AppendOrder
<1>8. u.base = t.base /\ SegmentOK(u) BY <1>5 DEF AppendedTo
<1>9. ActiveOK BY <1>2, ActiveFacts
<1>10. /\ \A k \in 1..(m + 1) : SegmentOK(segs'[k])
  BY <1>4, <1>5, <1>6, <1>7, <1>8 DEF LogInv, SegmentInv
<1>11. ASSUME NEW j \in 1..(m + 1), NEW k \in 1..(m + 1), j < k
       PROVE  /\ segs'[j].base <= segs'[k].base
              /\ segs'[j].base = segs'[k].base => segs'[j].index = <<>>
  <2>1. j \in 1..m BY <1>5, <1>11, SMT
  <2>2. CASE k \in 1..m BY <1>5, <1>7, <1>11, <2>1, <2>2 DEF LogInv, SegmentInv
  <2>3. CASE k = m + 1 BY <1>4, <1>5, <1>7, <1>8, <2>1, <2>3
  <2>4. QED BY <1>6, <2>2, <2>3
<1>12. ASSUME NEW k \in 1..(m + 1), Latest(k)' PROVE Reflects(segs[k])'
  <2>1. CASE k \in 1..m
    <3>1. k < m + 1 /\ m + 1 \in 1..(m + 1) BY <1>5, <2>1, SMT
    <3>2. PICK s : s = segs[k] OBVIOUS
    <3>3. s = segs'[k] BY <1>5, <2>1, <3>2
    <3>4. s.base # t.base BY <1>4, <1>5, <1>8, <1>12, <3>1, <3>3 DEF Latest
    <3>5. Latest(k)
      <4>1. ASSUME NEW j \in 1..Len(segs), k < j PROVE segs[j].base # s.base
        <5>1. CASE j \in 1..m
          <6>1. j \in 1..(m + 1) BY <1>5, <5>1, SMT
          <6>2. QED BY <1>5, <1>12, <3>3, <4>1, <5>1, <6>1 DEF Latest
        <5>2. CASE j \notin 1..m
          <6>1. ~ToBeMaxed(active, v) BY <1>1, <5>2 DEF Kept
          <6>2. m = Len(segs) - 1 BY <1>1, <6>1 DEF Kept
          <6>3. j = Len(segs) BY <1>5, <5>2, <6>2, SMT
          <6>4. segs[j] = t BY <1>1, <1>9, <6>1, <6>3 DEF ActiveOK, Target
          <6>5. QED BY <3>4, <6>4
        <5>3. QED BY <5>1, <5>2
      <4>2. QED BY <3>2, <4>1 DEF Latest
    <3>6. Reflects(s) BY <1>7, <2>1, <3>2, <3>5 DEF LogInv, SegmentInv
    <3>7. s.base \notin Opens(v)
      BY <1>1, <1>2, <3>4, FreshFacts DEF Opens, Target, OpenedFrom
    <3>8. /\ s.base \in DOMAIN stores' => stores'[s.base] = SubSeq(s.store, 1, s.storeSynced)
          /\ s.base \in DOMAIN indexes' => indexes'[s.base] = SubSeq(s.index, 1, s.indexSynced)
      BY <3>6, <3>7, AppendTouches, TouchedReflects
    <3>9. QED BY <3>3, <3>8 DEF Reflects
  <2>2. CASE k = m + 1
    <3>1. /\ u.base \in DOMAIN stores' => stores'[u.base] = SubSeq(u.store, 1, u.storeSynced)
          /\ u.base \in DOMAIN indexes' => indexes'[u.base] = SubSeq(u.index, 1, u.indexSynced)
      BY <1>1, <1>5, AppendReflects
    <3>2. QED BY <1>4, <2>2, <3>1 DEF Reflects
  <2>3. QED BY <1>6, <2>1, <2>2
<1>13. SegmentInv' BY <1>5, <1>10, <1>11, <1>12 DEF SegmentInv
<1>14. Bases' = Bases \cup Opens(v)
  <2>1. Bases' = {segs[k].base : k \in 1..m} \cup {t.base}
    <3>1. 1..(m + 1) = 1..m \cup {m + 1} BY <1>5, SMT
    <3>2. Bases' = {segs'[k].base : k \in 1..(m + 1)} BY <1>5 DEF Bases
    <3>3. QED BY <1>4, <1>5, <1>8, <3>1, <3>2
  <2>2. CASE ToBeMaxed(active, v)
    <3>1. m = Len(segs) BY <1>1, <2>2 DEF Kept
    <3>2. t.base = nextOffset BY <1>1, <1>2, <2>2, FreshFacts DEF Target, OpenedFrom
    <3>3. QED BY <2>1, <2>2, <3>1, <3>2 DEF Opens, Bases
  <2>3. CASE ~ToBeMaxed(active, v)
    <3>1. m = Len(segs) - 1 BY <1>1, <2>3 DEF Kept
    <3>2. 1..Len(segs) = 1..m \cup {Len(segs)} BY <1>5, <1>9, <3>1, SMT DEF ActiveOK
    <3>3. t = segs[Len(segs)] BY <1>1, <1>9, <2>3 DEF Target, ActiveOK
    <3>4. QED BY <2>1, <2>3, <3>2, <3>3 DEF Opens, Bases
  <2>4. QED BY <2>2, <2>3
<1>15. segs' # <<>> BY <1>5, SMT
<1>16. QED BY <1>13, <1>14, <1>15

\* Append keeps the invariant.
LEMMA AppendValueKeeps == ASSUME LogInv, NEW v \in Value, AppendValue(v) PROVE LogInv'
<1>1. phase = "open" /\ UNCHANGED <<todo, mounted, crashes, faults, torn, orphan>>
  BY DEF AppendValue
<1>2. phase' = "panicked" \/ phase' = "open" BY <1>1 DEF AppendValue
<1>3. todo = <<>> /\ todo' = <<>> BY <1>1 DEF LogInv, PhaseInv
<1>4. TodoInv' BY <1>3, EmptyTodo
<1>5. Touched(Opens(v), Opens(v)) BY AppendTouches
<1>6. FileInv'
  <2>1. nextOffset \in Nat BY <1>1, ActiveFacts DEF ActiveOK
  <2>2. PICK c, A : c = nextOffset /\ A = Opens(v) OBVIOUS
  <2>3. c \in Nat /\ A \subseteq {c} /\ Touched(A, A) BY <1>5, <2>1, <2>2 DEF Opens
  <2>4. QED BY <2>3, TouchedFiles DEF LogInv
<1>7. CASE phase' = "panicked"
  <2>1. SegmentInv' BY <1>7, AppendPanics
  <2>2. OpenInv' BY <1>7 DEF OpenInv
  <2>3. PhaseInv' BY <1>1, <1>3, <1>7 DEF LogInv, PhaseInv
  <2>4. QED BY <1>4, <1>6, <2>1, <2>2, <2>3 DEF LogInv
<1>8. CASE phase' = "open"
  <2>1. SegmentInv' /\ Bases' = Bases \cup Opens(v) /\ segs' # <<>> BY <1>8, AppendSegments
  <2>2. OpenInv' BY <1>1, <1>5, <2>1 DEF LogInv, OpenInv, Touched
  <2>3. PhaseInv' BY <1>1, <1>3, <1>8, <2>1 DEF LogInv, PhaseInv
  <2>4. QED BY <1>4, <1>6, <2>1, <2>2, <2>3 DEF LogInv
<1>9. QED BY <1>2, <1>7, <1>8

\* An Append that fails keeps the invariant.
LEMMA FailAppendKeeps == ASSUME LogInv, NEW v \in Value, FailAppend(v) PROVE LogInv'
<1>1. phase = "open" /\ UNCHANGED <<phase, segs, todo, indexes, mounted, crashes, torn>>
  BY DEF FailAppend, memVars
<1>2. ActiveOK BY <1>1, ActiveFacts
<1>3. todo = <<>> /\ todo' = <<>> BY <1>1 DEF LogInv, PhaseInv
<1>4. TodoInv' BY <1>3, EmptyTodo
<1>5. PICK A, B : A \subseteq {nextOffset} /\ B = {} /\ Touched(A, B)
  <2>1. CASE UNCHANGED stores
    <3>1. Touched({}, {}) BY <1>1, <2>1 DEF Touched, FileOf
    <3>2. QED BY <3>1
  <2>2. CASE nextOffset \notin DOMAIN stores /\ stores' = With(stores, nextOffset, <<>>)
    <3>1. stores' = With(stores, nextOffset, FileOf(stores, nextOffset)) BY <2>2 DEF FileOf
    <3>2. DOMAIN stores' = DOMAIN stores \cup {nextOffset}
          /\ \A b \in DOMAIN stores' : stores'[b] = FileOf(stores, b)
      BY <3>1, WithFileOf
    <3>3. Touched({nextOffset}, {}) BY <1>1, <3>2 DEF Touched, FileOf
    <3>4. QED BY <3>3
  <2>3. QED BY <2>1, <2>2 DEF FailAppend
<1>6. FileInv'
  <2>1. PICK c : c = nextOffset OBVIOUS
  <2>2. c \in Nat /\ A \subseteq {c} /\ B \subseteq A BY <1>2, <1>5, <2>1 DEF ActiveOK
  <2>3. QED BY <1>5, <2>2, TouchedFiles DEF LogInv
<1>7. SegmentInv'
  <2>1. \A k \in 1..Len(segs) : segs[k].base \in DOMAIN stores
    BY <1>1 DEF LogInv, OpenInv, Bases
  <2>2. \A k \in 1..Len(segs) : Latest(k)' => Latest(k) BY <1>1 DEF Latest
  <2>3. ASSUME NEW k \in 1..Len(segs), Latest(k) PROVE Reflects(segs[k])'
    <3>1. PICK s : s = segs[k] OBVIOUS
    <3>2. Reflects(s) BY <2>3, <3>1 DEF LogInv, SegmentInv
    <3>3. /\ s.base \in DOMAIN stores' => stores'[s.base] = SubSeq(s.store, 1, s.storeSynced)
          /\ s.base \in DOMAIN indexes' => indexes'[s.base] = SubSeq(s.index, 1, s.indexSynced)
      <4>1. s.base \in DOMAIN stores /\ s.base \notin B BY <1>5, <2>1, <3>1
      <4>2. QED BY <1>5, <3>2, <4>1, TouchedReflects
    <3>4. QED BY <1>1, <3>1, <3>3 DEF Reflects
  <2>4. QED BY <1>1, <2>2, <2>3 DEF LogInv, SegmentInv
<1>8. OpenInv' BY <1>1, <1>5 DEF LogInv, OpenInv, Bases, Touched
<1>9. PhaseInv'
  <2>1. faults' \in 0..MaxFaults BY LogBounds, SMT DEF FailAppend, LogInv, PhaseInv
  <2>2. orphan' \in BOOLEAN BY DEF FailAppend, LogInv, PhaseInv
  <2>3. QED BY <1>1, <2>1, <2>2 DEF LogInv, PhaseInv
<1>10. QED BY <1>4, <1>6, <1>7, <1>8, <1>9 DEF LogInv

\* A crash keeps the invariant.
LEMMA CrashKeeps == ASSUME LogInv, Crash PROVE LogInv'
<1>1. /\ phase' = "down" /\ segs' = <<>> /\ todo' = <<>>
      /\ UNCHANGED <<stores, indexes, mounted, faults, orphan>>
  BY DEF Crash, diskVars
<1>2. TodoInv' BY <1>1, EmptyTodo
<1>3. FileInv' BY <1>1, Frames
<1>4. SegmentInv'
  <2>1. Len(<<>>) = 0 /\ 1..0 = {} /\ <<>> \in Seq(Segment) BY EmptySeq, SMT
  <2>2. QED BY <1>1, <2>1 DEF SegmentInv
<1>5. OpenInv' BY <1>1 DEF OpenInv
<1>6. PhaseInv'
  <2>1. crashes' \in 0..MaxCrashes BY LogBounds, SMT DEF Crash, LogInv, PhaseInv
  <2>2. torn' \in BOOLEAN BY DEF Crash
  <2>3. QED BY <1>1, <2>1, <2>2 DEF LogInv, PhaseInv
<1>7. QED BY <1>2, <1>3, <1>4, <1>5, <1>6 DEF LogInv

-----------------------------------------------------------------------------
(* Close and Remove.                                                       *)

\* Close, which lists what it will sync, keeps the invariant.
LEMMA CloseLogKeeps == ASSUME LogInv, CloseLog PROVE LogInv'
<1>1. /\ phase = "open" /\ phase' = "closing" /\ todo' = CloseOps
      /\ UNCHANGED <<segs, stores, indexes, mounted, crashes, faults, torn, orphan>>
  BY DEF CloseLog, diskVars, histVars
<1>2. PICK n : n = Len(segs) OBVIOUS
<1>3. n \in Nat /\ n >= 1 BY <1>1, <1>2, ActiveFacts DEF ActiveOK
<1>4. PICK ops : ops = <<"index", "store">> OBVIOUS
<1>5. Len(ops) = 2 /\ ops[1] = "index" /\ ops[2] = "store" BY <1>4
<1>6. todo' = [i \in 1..(2 * n) |-> <<ops[1 + ((i - 1) % 2)], 1 + ((i - 1) \div 2)>>]
  BY <1>1, <1>2, <1>4, <1>5 DEF CloseOps, EachSegment
<1>7. \A i \in 1..(2 * n) : /\ (1 + ((i - 1) % 2) = 1 \/ 1 + ((i - 1) % 2) = 2)
                            /\ 1 + ((i - 1) \div 2) \in 1..n
  BY <1>3, SMT
<1>8. \A i \in 1..(2 * n) : /\ todo'[i][1] \in {"store", "index"}
                            /\ todo'[i] \in Op \X (1..n)
  BY <1>5, <1>6, <1>7 DEF Op
<1>9. todo' \in Seq(Op \X (1..n)) /\ Len(todo') = 2 * n /\ todo' # <<>>
  <2>1. todo' \in [1..(2 * n) -> Op \X (1..n)] BY <1>6, <1>8
  <2>2. 2 * n \in Nat /\ 2 * n # 0 BY <1>3, SMT
  <2>3. PICK m : m = 2 * n OBVIOUS
  <2>4. todo' \in Seq(Op \X (1..n)) /\ Len(todo') = m BY <2>1, <2>2, <2>3, SMT
  <2>5. QED BY <2>2, <2>3, <2>4, SMT
<1>10. TodoInv' BY <1>1, <1>2, <1>8, <1>9 DEF TodoInv
<1>11. PhaseInv' BY <1>1, <1>9 DEF LogInv, PhaseInv
<1>12. OpenInv' BY <1>1 DEF OpenInv
<1>13. FileInv' /\ SegmentInv' BY <1>1, Frames
<1>14. QED BY <1>10, <1>11, <1>12, <1>13 DEF LogInv

\* The operations of Remove, in order.
RemoveOp(i) ==
  IF i = 1 THEN "store" ELSE IF i = 2 THEN "index"
  ELSE IF (i - 3) % 4 = 0 THEN "index" ELSE IF (i - 3) % 4 = 1 THEN "store"
  ELSE IF (i - 3) % 4 = 2 THEN "rmIndex" ELSE "rmStore"
RemoveSegment(i) == IF i <= 2 THEN Len(segs) ELSE 1 + ((i - 3) \div 4)

\* Remove syncs the files of the active segment, then syncs, closes and removes
\* those of one segment after the other, four operations for each.
LEMMA RemoveOpsFacts ==
  ASSUME LogInv, phase = "open"
  PROVE  /\ RemoveOps \in Seq(Op \X (1..Len(segs))) /\ Len(RemoveOps) = 4 * Len(segs) + 2
         /\ \A i \in 1..(4 * Len(segs) + 2) : RemoveOps[i] = <<RemoveOp(i), RemoveSegment(i)>>
<1>1. PICK n : n = Len(segs) OBVIOUS
<1>2. n \in Nat /\ n >= 1 BY <1>1, ActiveFacts DEF ActiveOK
<1>3. PICK ops : ops = <<"index", "store", "rmIndex", "rmStore">> OBVIOUS
<1>4. Len(ops) = 4 /\ ops[1] = "index" /\ ops[2] = "store" /\ ops[3] = "rmIndex" /\ ops[4] = "rmStore"
  BY <1>3
<1>5. PICK e : e = [i \in 1..(4 * n) |-> <<ops[1 + ((i - 1) % 4)], 1 + ((i - 1) \div 4)>>]
  OBVIOUS
<1>6. PICK h : h = <<<<"store", n>>, <<"index", n>>>> OBVIOUS
<1>7. RemoveOps = h \o e BY <1>1, <1>3, <1>4, <1>5, <1>6 DEF RemoveOps, EachSegment
<1>8. ASSUME NEW i \in 1..(4 * n) PROVE e[i] \in Op \X (1..n)
  <2>1. 1 + ((i - 1) \div 4) \in 1..n BY <1>2, SMT
  <2>2. \/ 1 + ((i - 1) % 4) = 1 \/ 1 + ((i - 1) % 4) = 2
        \/ 1 + ((i - 1) % 4) = 3 \/ 1 + ((i - 1) % 4) = 4
    BY SMT
  <2>3. ops[1 + ((i - 1) % 4)] \in Op BY <1>4, <2>2 DEF Op
  <2>4. QED BY <1>5, <2>1, <2>3
<1>9. PICK m \in Nat : m = 4 * n BY <1>2, SMT
<1>10. e \in Seq(Op \X (1..n)) /\ Len(e) = m
  <2>1. e \in [1..m -> Op \X (1..n)] BY <1>5, <1>8, <1>9
  <2>2. QED BY <2>1, SMT
<1>11. h \in Seq(Op \X (1..n)) /\ Len(h) = 2 /\ h[1] = <<"store", n>> /\ h[2] = <<"index", n>>
  <2>1. <<"store", n>> \in Op \X (1..n) /\ <<"index", n>> \in Op \X (1..n) BY <1>2, SMT DEF Op
  <2>2. QED BY <1>6, <2>1, SMT
<1>12. /\ h \o e \in Seq(Op \X (1..n)) /\ Len(h \o e) = m + 2
       /\ \A i \in 1..(m + 2) : (h \o e)[i] = IF i <= 2 THEN h[i] ELSE e[i - 2]
  <2>1. h \o e \in Seq(Op \X (1..n)) BY <1>10, <1>11, ConcatProperties
  <2>2. /\ Len(h \o e) = 2 + m
        /\ \A i \in 1..(2 + m) : (h \o e)[i] = IF i <= 2 THEN h[i] ELSE e[i - 2]
    <3>1. /\ Len(h \o e) = Len(h) + Len(e)
          /\ \A i \in 1..(Len(h) + Len(e)) :
               (h \o e)[i] = IF i <= Len(h) THEN h[i] ELSE e[i - Len(h)]
      BY <1>10, <1>11, ConcatProperties
    <3>2. QED BY <1>10, <1>11, <3>1
  <2>3. 2 + m = m + 2 BY SMT
  <2>4. QED BY <2>1, <2>2, <2>3
<1>13. ASSUME NEW i \in 1..(m + 2) PROVE RemoveOps[i] = <<RemoveOp(i), RemoveSegment(i)>>
  <2>1. CASE i <= 2
    <3>1. i = 1 \/ i = 2 BY <2>1, SMT
    <3>2. (h \o e)[i] = h[i] BY <1>12, <2>1
    <3>3. RemoveSegment(i) = n BY <1>1, <2>1 DEF RemoveSegment
    <3>4. 1 # 2 BY SMT
    <3>5. QED BY <1>7, <1>11, <3>1, <3>2, <3>3, <3>4 DEF RemoveOp
  <2>2. CASE ~(i <= 2)
    <3>1. i - 2 \in 1..m /\ (i - 2) - 1 = i - 3 /\ i # 1 /\ i # 2 BY <2>2, SMT
    <3>2. RemoveOps[i] = e[i - 2] BY <1>7, <1>12, <2>2
    <3>3. e[i - 2] = <<ops[1 + ((i - 3) % 4)], 1 + ((i - 3) \div 4)>> BY <1>5, <1>9, <3>1
    <3>4. \/ (i - 3) % 4 = 0 /\ 1 + ((i - 3) % 4) = 1
          \/ (i - 3) % 4 = 1 /\ 1 + ((i - 3) % 4) = 2 /\ 1 # 0
          \/ (i - 3) % 4 = 2 /\ 1 + ((i - 3) % 4) = 3 /\ 2 # 0 /\ 2 # 1
          \/ (i - 3) % 4 = 3 /\ 1 + ((i - 3) % 4) = 4 /\ 3 # 0 /\ 3 # 1 /\ 3 # 2
      BY <3>1, SMT
    <3>5. ops[1 + ((i - 3) % 4)] = RemoveOp(i) BY <1>4, <3>1, <3>4 DEF RemoveOp
    <3>6. RemoveSegment(i) = 1 + ((i - 3) \div 4) BY <2>2 DEF RemoveSegment
    <3>7. QED BY <3>2, <3>3, <3>5, <3>6
  <2>3. QED BY <2>1, <2>2
<1>14. QED BY <1>1, <1>7, <1>9, <1>12, <1>13

\* The parts of a pair.
LEMMA Pairs == \A p, a, b : p = <<a, b>> => p[1] = a /\ p[2] = b
BY SMT

\* A pair is made of its parts.
LEMMA PairOfParts == ASSUME NEW A, NEW B, NEW p \in A \X B PROVE p = <<p[1], p[2]>>
BY SMT

\* Where Remove removes an index and where a store.
LEMMA RemoveOpFacts ==
  \A i \in Nat : i >= 1 =>
    /\ RemoveOp(i) = "rmIndex" <=> i > 2 /\ (i - 3) % 4 = 2
    /\ RemoveOp(i) = "rmStore" <=> i > 2 /\ (i - 3) % 4 = 3
<1> TAKE i \in Nat
<1> HAVE i >= 1
<1>1. CASE i = 1 \/ i = 2
  <2>1. ~(i > 2) BY <1>1, SMT
  <2>2. QED BY <1>1, <2>1 DEF RemoveOp
<1>2. CASE ~(i = 1 \/ i = 2)
  <2>1. i > 2 BY <1>2, SMT
  <2>2. \/ (i - 3) % 4 = 0 /\ 0 # 2 /\ 0 # 3
        \/ (i - 3) % 4 = 1 /\ 1 # 0 /\ 1 # 2 /\ 1 # 3
        \/ (i - 3) % 4 = 2 /\ 2 # 0 /\ 2 # 1 /\ 2 # 3
        \/ (i - 3) % 4 = 3 /\ 3 # 0 /\ 3 # 1 /\ 3 # 2
    BY <2>1, SMT
  <2>3. QED BY <1>2, <2>1, <2>2 DEF RemoveOp
<1>3. QED BY <1>1, <1>2

\* Remove, which lists what it will sync and remove, keeps the invariant.
LEMMA RemoveLogKeeps == ASSUME LogInv, RemoveLog PROVE LogInv'
<1>1. /\ phase = "open" /\ phase' = "removing" /\ todo' = RemoveOps
      /\ UNCHANGED <<segs, stores, indexes, mounted, crashes, faults, torn, orphan>>
  BY DEF RemoveLog, diskVars
<1>2. PICK n, m : n = Len(segs) /\ m = 4 * n + 2 OBVIOUS
<1>3. n \in Nat /\ n >= 1 BY <1>1, <1>2, ActiveFacts DEF ActiveOK
<1>4. m \in Nat /\ m # 0 BY <1>2, <1>3, SMT
<1>5. /\ todo' \in Seq(Op \X (1..n)) /\ Len(todo') = m
      /\ \A i \in 1..m : todo'[i] = <<RemoveOp(i), RemoveSegment(i)>>
  BY <1>1, <1>2, RemoveOpsFacts
<1>6. \A i \in 1..m : i \in Nat /\ i >= 1 BY <1>4, SMT
<1>7. \A i \in 1..m : todo'[i][1] = RemoveOp(i) /\ todo'[i][2] = RemoveSegment(i) BY <1>5, Pairs
<1>8. ASSUME NEW i \in 1..m, RemoveOp(i) = "rmIndex"
      PROVE  i < m /\ todo'[i + 1] = <<"rmStore", RemoveSegment(i)>>
  <2>1. i > 2 /\ (i - 3) % 4 = 2 BY <1>6, <1>8, RemoveOpFacts
  <2>2. /\ i + 1 \in 1..m /\ i < m /\ i + 1 \in Nat /\ i + 1 >= 1 /\ i + 1 > 2
        /\ ((i + 1) - 3) % 4 = 3 /\ ((i + 1) - 3) \div 4 = (i - 3) \div 4
        /\ ~(i <= 2) /\ ~(i + 1 <= 2)
    BY <1>2, <1>3, <1>6, <2>1, SMT
  <2>3. RemoveOp(i + 1) = "rmStore" BY <2>2, RemoveOpFacts
  <2>4. RemoveSegment(i + 1) = RemoveSegment(i) BY <2>2 DEF RemoveSegment
  <2>5. QED BY <1>5, <2>2, <2>3, <2>4
<1>9. ASSUME NEW i \in 1..m, RemoveOp(i) = "rmStore"
      PROVE  i # 1 /\ todo'[i - 1] = <<"rmIndex", RemoveSegment(i)>>
  <2>1. i > 2 /\ (i - 3) % 4 = 3 BY <1>6, <1>9, RemoveOpFacts
  <2>2. /\ i - 1 \in 1..m /\ i # 1 /\ i - 1 \in Nat /\ i - 1 >= 1 /\ i - 1 > 2
        /\ ((i - 1) - 3) % 4 = 2 /\ ((i - 1) - 3) \div 4 = (i - 3) \div 4
        /\ ~(i <= 2) /\ ~(i - 1 <= 2)
    BY <1>2, <1>3, <1>6, <2>1, SMT
  <2>3. RemoveOp(i - 1) = "rmIndex" BY <2>2, RemoveOpFacts
  <2>4. RemoveSegment(i - 1) = RemoveSegment(i) BY <2>2 DEF RemoveSegment
  <2>5. QED BY <1>5, <2>2, <2>3, <2>4
<1>10. ASSUME NEW i \in 1..m, NEW j \in 1..m, RemoveOp(i) = RemoveOp(j),
              RemoveSegment(i) = RemoveSegment(j), RemoveOp(i) \in {"rmIndex", "rmStore"}
       PROVE  i = j
  <2>1. i > 2 /\ j > 2 /\ (i - 3) % 4 = (j - 3) % 4
    BY <1>6, <1>10, RemoveOpFacts
  <2>2. ~(i <= 2) /\ ~(j <= 2) BY <1>6, <2>1, SMT
  <2>3. 1 + ((i - 3) \div 4) = 1 + ((j - 3) \div 4) BY <1>10, <2>2 DEF RemoveSegment
  <2>4. QED BY <1>6, <2>1, <2>3, SMT
<1>11. TodoInv'
  <2>1. todo' \in Seq(Op \X (1..Len(segs'))) BY <1>1, <1>2, <1>5
  <2>2. phase' # "closing" BY <1>1
  <2>3. \A i \in 1..m, j \in 1..m :
          todo'[i] = todo'[j] /\ todo'[i][1] \in {"rmIndex", "rmStore"} => i = j
    <3> TAKE i \in 1..m, j \in 1..m
    <3> HAVE todo'[i] = todo'[j] /\ todo'[i][1] \in {"rmIndex", "rmStore"}
    <3>1. RemoveOp(i) = RemoveOp(j) /\ RemoveSegment(i) = RemoveSegment(j) BY <1>7
    <3>2. RemoveOp(i) \in {"rmIndex", "rmStore"} BY <1>7
    <3>3. QED BY <1>10, <3>1, <3>2
  <2>4. \A i \in 1..m : todo'[i][1] = "rmIndex" =>
          i < m /\ todo'[i + 1] = <<"rmStore", todo'[i][2]>>
    BY <1>7, <1>8
  <2>5. \A i \in 1..m : todo'[i][1] = "rmStore" =>
          i # 1 /\ todo'[i - 1] = <<"rmIndex", todo'[i][2]>>
    BY <1>7, <1>9
  <2>6. QED BY <1>5, <2>1, <2>2, <2>3, <2>4, <2>5 DEF TodoInv
<1>12. PhaseInv'
  <2>1. todo' # <<>> BY <1>4, <1>5, SMT
  <2>2. QED BY <1>1, <2>1 DEF LogInv, PhaseInv
<1>13. OpenInv' BY <1>1 DEF OpenInv
<1>14. FileInv' /\ SegmentInv' BY <1>1, Frames
<1>15. QED BY <1>11, <1>12, <1>13, <1>14 DEF LogInv

\* Segment k, the last with its files, was synced.
Synced(k) ==
  /\ segs' \in Seq(Segment) /\ Len(segs') = Len(segs)
  /\ \A j \in 1..Len(segs) : j # k => segs'[j] = segs[j]
  /\ SegmentOK(segs'[k]) /\ segs'[k].base = segs[k].base /\ segs'[k].index = segs[k].index
  /\ DOMAIN stores' = DOMAIN stores /\ DOMAIN indexes' = DOMAIN indexes
  /\ \A b \in DOMAIN stores : b # segs[k].base => stores'[b] = stores[b]
  /\ \A b \in DOMAIN indexes : b # segs[k].base => indexes'[b] = indexes[b]
  /\ segs[k].base \in DOMAIN stores =>
       /\ StoreFits(stores'[segs[k].base])
       /\ stores'[segs[k].base] = SubSeq(segs'[k].store, 1, segs'[k].storeSynced)
  /\ segs[k].base \in DOMAIN indexes =>
       /\ IndexFits(indexes'[segs[k].base])
       /\ indexes'[segs[k].base] = SubSeq(segs'[k].index, 1, segs'[k].indexSynced)

\* Writing out what the last segment with its base offset has buffered keeps
\* the invariant.
LEMMA SyncedKeeps ==
  ASSUME LogInv, NEW k \in 1..Len(segs), Latest(k), Synced(k)
  PROVE  FileInv' /\ SegmentInv' /\ Bases' = Bases /\ Len(segs') = Len(segs)
         /\ (\A j \in 1..Len(segs) : segs'[j].base = segs[j].base)
         /\ DOMAIN stores' = DOMAIN stores /\ DOMAIN indexes' = DOMAIN indexes
<1>1. PICK n, c : n = Len(segs) /\ c = segs[k].base OBVIOUS
<1>2. /\ segs' \in Seq(Segment) /\ Len(segs') = n
      /\ DOMAIN stores' = DOMAIN stores /\ DOMAIN indexes' = DOMAIN indexes
  BY <1>1 DEF Synced
<1>3. \A j \in 1..n : segs'[j].base = segs[j].base /\ segs'[j].index = segs[j].index
  BY <1>1 DEF Synced
<1>4. FileInv'
  <2>1. \A b \in DOMAIN stores' : StoreFits(stores'[b])
    BY DEF Synced, LogInv, FileInv, StoreFits
  <2>2. \A b \in DOMAIN indexes' : IndexFits(indexes'[b])
    BY DEF Synced, LogInv, FileInv, IndexFits
  <2>3. QED BY <1>2, <2>1, <2>2 DEF LogInv, FileInv, StoreFits, IndexFits
<1>5. \A j \in 1..n : SegmentOK(segs'[j]) BY <1>1 DEF Synced, LogInv, SegmentInv
<1>6. \A i \in 1..n, j \in 1..n :
        i < j => /\ segs'[i].base <= segs'[j].base
                 /\ segs'[i].base = segs'[j].base => segs'[i].index = <<>>
  <2> TAKE i \in 1..n, j \in 1..n
  <2>1. i < j => /\ segs[i].base <= segs[j].base
                 /\ segs[i].base = segs[j].base => segs[i].index = <<>>
    BY <1>1 DEF LogInv, SegmentInv
  <2>2. QED BY <1>3, <2>1
<1>7. ASSUME NEW j \in 1..n, Latest(j)' PROVE Reflects(segs[j])'
  <2>1. CASE j = k BY <1>1, <1>2, <2>1 DEF Synced, Reflects
  <2>2. CASE j # k
    <3>1. Latest(j) BY <1>1, <1>2, <1>3, <1>7 DEF Latest
    <3>2. segs[j].base # c
      <4>1. j \in Nat /\ k \in Nat /\ (j < k \/ k < j)
        <5>1. n \in Nat BY <1>1, LenProperties DEF LogInv, SegmentInv
        <5>2. QED BY <1>1, <2>2, <5>1, SMT
      <4>2. QED BY <1>1, <3>1, <4>1 DEF Latest
    <3>3. PICK s : s = segs[j] OBVIOUS
    <3>4. s = segs'[j] /\ Reflects(s) /\ s.base # c
      BY <1>1, <2>2, <3>1, <3>2, <3>3 DEF Synced, LogInv, SegmentInv
    <3>5. /\ s.base \in DOMAIN stores' => stores'[s.base] = SubSeq(s.store, 1, s.storeSynced)
          /\ s.base \in DOMAIN indexes' => indexes'[s.base] = SubSeq(s.index, 1, s.indexSynced)
      BY <1>1, <1>2, <3>4 DEF Synced, Reflects
    <3>6. QED BY <3>4, <3>5 DEF Reflects
  <2>3. QED BY <2>1, <2>2
<1>8. SegmentInv' BY <1>2, <1>5, <1>6, <1>7 DEF SegmentInv
<1>9. Bases' = Bases BY <1>1, <1>2, <1>3 DEF Bases
<1>10. QED BY <1>1, <1>2, <1>3, <1>4, <1>8, <1>9

\* A prefix and the rest make the whole.
LEMMA Rejoin ==
  ASSUME NEW S, NEW s \in Seq(S), NEW n \in Nat, n <= Len(s)
  PROVE  SubSeq(s, 1, n) \o SubSeq(s, n + 1, Len(s)) = s
<1>1. PICK l : l = Len(s) OBVIOUS
<1>2. l \in Nat BY <1>1, LenProperties
<1>3. 1 \in 1..(l + 1) /\ n \in (1 - 1)..l /\ l \in n..l BY <1>1, <1>2, SMT
<1>4. SubSeq(s, 1, n) \o SubSeq(s, n + 1, l) = SubSeq(s, 1, l)
  BY <1>1, <1>3, ConcatAdjacentSubSeq
<1>5. QED BY <1>1, <1>4, SubSeqAll

\* Nothing is left to add to a file that has everything.
LEMMA NoRest == ASSUME NEW S, NEW s \in Seq(S) PROVE SubSeq(s, Len(s) + 1, Len(s)) = <<>>
BY SMT

\* Nothing is added by an empty sequence.
LEMMA AddNothing == ASSUME NEW S, NEW s \in Seq(S) PROVE s \o <<>> = s
BY SMT

\* A segment with records is the last with its files.
LEMMA RecordsAreLatest ==
  ASSUME LogInv, NEW k \in 1..Len(segs), segs[k].index # <<>> PROVE Latest(k)
BY DEF LogInv, SegmentInv, Latest

\* The fields of a segment have their types.
LEMMA SegmentFields ==
  ASSUME LogInv, NEW k \in 1..Len(segs)
  PROVE  /\ segs[k] \in Segment /\ SegmentOK(segs[k]) /\ segs[k].base \in Nat
         /\ segs[k].store \in Seq(StoreRecord) /\ segs[k].index \in Seq(IndexEntry)
         /\ segs[k].storeSynced \in Nat /\ segs[k].indexSynced \in Nat
         /\ segs[k].storeSynced <= Len(segs[k].store) /\ segs[k].indexSynced <= Len(segs[k].index)
         /\ StoreFits(segs[k].store) /\ IndexFits(segs[k].index)
<1>1. segs[k] \in Segment BY ElementOfSeq DEF LogInv, SegmentInv
<1>2. SegmentOK(segs[k]) BY DEF LogInv, SegmentInv
<1>3. QED BY <1>1, <1>2 DEF Segment, SegmentOK, StoreFits, IndexFits

\* store.Close writes out what its segment has buffered, or nothing.
LEMMA SyncStoreKeeps ==
  ASSUME LogInv, NEW k \in 1..Len(segs), SyncStore(k)
  PROVE  (UNCHANGED segs /\ Touched({}, {})) \/ (Latest(k) /\ Synced(k))
<1>1. PICK s, b, x : s = segs[k] /\ b = s.base /\ x = Len(s.store) OBVIOUS
<1>2. PICK new : new = SubSeq(s.store, s.storeSynced + 1, x) OBVIOUS
<1>3. /\ stores' = IF b \in DOMAIN stores THEN [stores EXCEPT ![b] = stores[b] \o new] ELSE stores
      /\ segs' = [segs EXCEPT ![k] = [s EXCEPT !.storeSynced = x]]
      /\ indexes' = indexes
  BY <1>1, <1>2 DEF SyncStore
<1>4. /\ s \in Segment /\ SegmentOK(s) /\ s.store \in Seq(StoreRecord)
      /\ s.storeSynced \in Nat /\ s.storeSynced <= x /\ x \in Nat /\ StoreFits(s.store)
      /\ IndexFits(s.index)
  BY <1>1, SegmentFields, LenProperties
<1>5. segs \in Seq(Segment) BY DEF LogInv, SegmentInv
<1>6. CASE s.index = <<>>
  <2>1. s.storeSynced = x BY <1>1, <1>4, <1>6 DEF SegmentOK
  <2>2. new = <<>> BY <1>1, <1>2, <1>4, <2>1, NoRest
  <2>3. b \in DOMAIN stores => stores[b] \o new = stores[b]
    BY <2>2, AddNothing DEF LogInv, FileInv
  <2>4. Touched({}, {})
    <3>1. DOMAIN stores' = DOMAIN stores /\ \A d \in DOMAIN stores : stores'[d] = stores[d]
      BY <1>3, <2>3
    <3>2. QED BY <1>3, <3>1 DEF Touched, FileOf
  <2>5. [s EXCEPT !.storeSynced = x] = s BY <1>4, <2>1, SMT DEF Segment
  <2>6. segs' = segs BY <1>1, <1>3, <1>5, <2>5, SMT
  <2>7. QED BY <1>3, <2>4, <2>6
<1>7. CASE s.index # <<>>
  <2>1. Latest(k) BY <1>1, <1>7, RecordsAreLatest
  <2>2. Reflects(s) BY <1>1, <2>1 DEF LogInv, SegmentInv
  <2>3. PICK t : t = [s EXCEPT !.storeSynced = x] OBVIOUS
  <2>4. t \in Segment BY <1>4, <2>3, SMT DEF Segment
  <2>5. /\ t.base = b /\ t.index = s.index /\ t.store = s.store /\ t.next = s.next
        /\ t.storeSynced = x /\ t.indexSynced = s.indexSynced
    BY <1>1, <1>4, <2>3 DEF Segment
  <2>6. SegmentOK(t)
    <3>1. x <= x BY <1>4, SMT
    <3>2. QED BY <1>1, <1>4, <1>7, <2>5, <3>1 DEF SegmentOK
  <2>7. /\ segs' \in Seq(Segment) /\ Len(segs') = Len(segs) /\ segs'[k] = t
        /\ \A j \in 1..Len(segs) : j # k => segs'[j] = segs[j]
    BY <1>3, <1>5, <2>3, <2>4, SMT
  <2>8. DOMAIN stores' = DOMAIN stores /\ \A c \in DOMAIN stores : c # b => stores'[c] = stores[c]
    BY <1>3
  <2>9. ASSUME b \in DOMAIN stores PROVE stores'[b] = s.store
    <3>1. stores[b] = SubSeq(s.store, 1, s.storeSynced) BY <1>1, <2>2, <2>9 DEF Reflects
    <3>2. PICK st, z : st = s.store /\ z = s.storeSynced OBVIOUS
    <3>3. st \in Seq(StoreRecord) /\ z \in Nat /\ z <= Len(st) BY <1>1, <1>4, <3>2
    <3>4. SubSeq(st, 1, z) \o SubSeq(st, z + 1, Len(st)) = st BY <3>3, Rejoin
    <3>5. stores[b] \o new = s.store BY <1>1, <1>2, <3>1, <3>2, <3>4
    <3>6. QED BY <1>3, <2>9, <3>5
  <2>10. SubSeq(t.store, 1, t.storeSynced) = s.store BY <1>1, <1>4, <2>5, SubSeqAll
  <2>11. b \in DOMAIN indexes => /\ IndexFits(indexes'[b])
                                 /\ indexes'[b] = SubSeq(t.index, 1, t.indexSynced)
    BY <1>1, <1>3, <2>2, <2>5 DEF LogInv, FileInv, IndexFits, Reflects
  <2>12. Synced(k)
    BY <1>1, <1>3, <1>4, <2>5, <2>6, <2>7, <2>8, <2>9, <2>10, <2>11 DEF Synced
  <2>13. QED BY <2>1, <2>12
<1>8. QED BY <1>6, <1>7

\* index.Close writes out what its segment has buffered, or nothing.
LEMMA SyncIndexKeeps ==
  ASSUME LogInv, NEW k \in 1..Len(segs), SyncIndex(k)
  PROVE  (UNCHANGED segs /\ Touched({}, {})) \/ (Latest(k) /\ Synced(k))
<1>1. PICK s, b, x : s = segs[k] /\ b = s.base /\ x = Len(s.index) OBVIOUS
<1>2. PICK new : new = SubSeq(s.index, s.indexSynced + 1, x) OBVIOUS
<1>3. /\ indexes' = IF b \in DOMAIN indexes THEN [indexes EXCEPT ![b] = indexes[b] \o new]
                    ELSE indexes
      /\ segs' = [segs EXCEPT ![k] = [s EXCEPT !.indexSynced = x]]
      /\ stores' = stores
  BY <1>1, <1>2 DEF SyncIndex
<1>4. /\ s \in Segment /\ SegmentOK(s) /\ s.index \in Seq(IndexEntry)
      /\ s.indexSynced \in Nat /\ s.indexSynced <= x /\ x \in Nat /\ StoreFits(s.store)
      /\ IndexFits(s.index)
  BY <1>1, SegmentFields, LenProperties
<1>5. segs \in Seq(Segment) BY DEF LogInv, SegmentInv
<1>6. CASE s.index = <<>>
  <2>1. s.indexSynced = x
    <3>1. x = 0 BY <1>1, <1>6, EmptySeq
    <3>2. QED BY <1>4, <3>1, SMT
  <2>2. new = <<>> BY <1>1, <1>2, <1>4, <2>1, NoRest
  <2>3. b \in DOMAIN indexes => indexes[b] \o new = indexes[b]
    BY <2>2, AddNothing DEF LogInv, FileInv
  <2>4. Touched({}, {})
    <3>1. DOMAIN indexes' = DOMAIN indexes /\ \A d \in DOMAIN indexes : indexes'[d] = indexes[d]
      BY <1>3, <2>3
    <3>2. QED BY <1>3, <3>1 DEF Touched, FileOf
  <2>5. [s EXCEPT !.indexSynced = x] = s BY <1>4, <2>1, SMT DEF Segment
  <2>6. segs' = segs BY <1>1, <1>3, <1>5, <2>5, SMT
  <2>7. QED BY <1>3, <2>4, <2>6
<1>7. CASE s.index # <<>>
  <2>1. Latest(k) BY <1>1, <1>7, RecordsAreLatest
  <2>2. Reflects(s) BY <1>1, <2>1 DEF LogInv, SegmentInv
  <2>3. PICK t : t = [s EXCEPT !.indexSynced = x] OBVIOUS
  <2>4. t \in Segment BY <1>4, <2>3, SMT DEF Segment
  <2>5. /\ t.base = b /\ t.index = s.index /\ t.store = s.store /\ t.next = s.next
        /\ t.storeSynced = s.storeSynced /\ t.indexSynced = x
    BY <1>1, <1>4, <2>3 DEF Segment
  <2>6. SegmentOK(t)
    <3>1. x <= x BY <1>4, SMT
    <3>2. QED BY <1>1, <1>4, <1>7, <2>5, <3>1 DEF SegmentOK
  <2>7. /\ segs' \in Seq(Segment) /\ Len(segs') = Len(segs) /\ segs'[k] = t
        /\ \A j \in 1..Len(segs) : j # k => segs'[j] = segs[j]
    BY <1>3, <1>5, <2>3, <2>4, SMT
  <2>8. /\ DOMAIN indexes' = DOMAIN indexes
        /\ \A c \in DOMAIN indexes : c # b => indexes'[c] = indexes[c]
    BY <1>3
  <2>9. ASSUME b \in DOMAIN indexes PROVE indexes'[b] = s.index
    <3>1. indexes[b] = SubSeq(s.index, 1, s.indexSynced) BY <1>1, <2>2, <2>9 DEF Reflects
    <3>2. PICK ix, z : ix = s.index /\ z = s.indexSynced OBVIOUS
    <3>3. ix \in Seq(IndexEntry) /\ z \in Nat /\ z <= Len(ix) BY <1>1, <1>4, <3>2
    <3>4. SubSeq(ix, 1, z) \o SubSeq(ix, z + 1, Len(ix)) = ix BY <3>3, Rejoin
    <3>5. indexes[b] \o new = s.index BY <1>1, <1>2, <3>1, <3>2, <3>4
    <3>6. QED BY <1>3, <2>9, <3>5
  <2>10. SubSeq(t.index, 1, t.indexSynced) = s.index BY <1>1, <1>4, <2>5, SubSeqAll
  <2>11. b \in DOMAIN stores => /\ StoreFits(stores'[b])
                                /\ stores'[b] = SubSeq(t.store, 1, t.storeSynced)
    BY <1>1, <1>3, <2>2, <2>5 DEF LogInv, FileInv, StoreFits, Reflects
  <2>12. Synced(k)
    BY <1>1, <1>3, <1>4, <2>5, <2>6, <2>7, <2>8, <2>9, <2>10, <2>11 DEF Synced
  <2>13. QED BY <2>1, <2>12
<1>8. QED BY <1>6, <1>7

\* Nothing happened to the files of the segments.
LEMMA TouchedNothing ==
  ASSUME LogInv, UNCHANGED segs, Touched({}, {})
  PROVE  FileInv' /\ SegmentInv' /\ DOMAIN stores' = DOMAIN stores
         /\ DOMAIN indexes' = DOMAIN indexes
<1>1. PICK A, c : A = {} /\ c = 0 OBVIOUS
<1>2. Touched(A, A) /\ c \in Nat /\ A \subseteq {c} BY <1>1
<1>3. FileInv' BY <1>2, TouchedFiles DEF LogInv
<1>4. SegmentInv'
  <2>1. \A k \in 1..Len(segs) : Latest(k)' => Latest(k) BY DEF Latest
  <2>2. ASSUME NEW k \in 1..Len(segs), Latest(k) PROVE Reflects(segs[k])'
    <3>1. PICK s : s = segs[k] OBVIOUS
    <3>2. Reflects(s) /\ s.base \notin A BY <1>1, <2>2, <3>1 DEF LogInv, SegmentInv
    <3>3. /\ s.base \in DOMAIN stores' => stores'[s.base] = SubSeq(s.store, 1, s.storeSynced)
          /\ s.base \in DOMAIN indexes' => indexes'[s.base] = SubSeq(s.index, 1, s.indexSynced)
      BY <1>2, <3>2, TouchedReflects
    <3>4. QED BY <3>1, <3>3 DEF Reflects
  <2>3. QED BY <2>1, <2>2 DEF LogInv, SegmentInv
<1>5. QED BY <1>3, <1>4 DEF Touched

\* What one file operation does to the segments and the files.
Stepped(op, k) ==
  /\ FileInv' /\ SegmentInv' /\ Len(segs') = Len(segs)
  /\ \A j \in 1..Len(segs) : segs'[j].base = segs[j].base
  /\ DOMAIN stores' = IF op = "rmStore" THEN DOMAIN stores \ {segs[k].base} ELSE DOMAIN stores
  /\ DOMAIN indexes' = IF op = "rmIndex" THEN DOMAIN indexes \ {segs[k].base}
                       ELSE DOMAIN indexes

\* Removing an index, or a store without one, keeps the invariant.
LEMMA RemoveFileKeeps ==
  ASSUME LogInv, NEW k \in 1..Len(segs), NEW op \in {"rmStore", "rmIndex"},
         RemoveFile(op, segs[k].base), op = "rmStore" => segs[k].base \notin DOMAIN indexes
  PROVE  Stepped(op, k)
<1>1. PICK b : b = segs[k].base OBVIOUS
<1>2. /\ stores' = IF op = "rmStore" THEN Without(stores, b) ELSE stores
      /\ indexes' = IF op = "rmIndex" THEN Without(indexes, b) ELSE indexes
      /\ segs' = segs
  BY <1>1 DEF RemoveFile
<1>3. /\ DOMAIN stores' = IF op = "rmStore" THEN DOMAIN stores \ {b} ELSE DOMAIN stores
      /\ \A d \in DOMAIN stores' : stores'[d] = stores[d]
  BY <1>2 DEF Without
<1>4. /\ DOMAIN indexes' = IF op = "rmIndex" THEN DOMAIN indexes \ {b} ELSE DOMAIN indexes
      /\ \A d \in DOMAIN indexes' : indexes'[d] = indexes[d]
  BY <1>2 DEF Without
<1>5. DOMAIN stores' \subseteq DOMAIN stores /\ DOMAIN indexes' \subseteq DOMAIN indexes
  BY <1>3, <1>4
<1>6. DOMAIN indexes' \subseteq DOMAIN stores' BY <1>1, <1>3, <1>4 DEF LogInv, FileInv
<1>7. FileInv'
  <2>1. \E m \in Nat : DOMAIN stores' \subseteq 0..m BY <1>5 DEF LogInv, FileInv
  <2>2. QED BY <1>3, <1>4, <1>5, <1>6, <2>1 DEF LogInv, FileInv
<1>8. SegmentInv'
  <2>1. \A j : Latest(j)' <=> Latest(j) BY <1>2 DEF Latest
  <2>2. ASSUME NEW s, Reflects(s)
        PROVE  /\ s.base \in DOMAIN stores' => stores'[s.base] = SubSeq(s.store, 1, s.storeSynced)
               /\ s.base \in DOMAIN indexes' => indexes'[s.base] = SubSeq(s.index, 1, s.indexSynced)
    BY <1>3, <1>4, <1>5, <2>2 DEF Reflects
  <2>3. ASSUME NEW j \in 1..Len(segs), Latest(j) PROVE Reflects(segs[j])'
    BY <1>2, <2>2, <2>3 DEF LogInv, SegmentInv, Reflects
  <2>4. QED BY <1>2, <2>1, <2>3 DEF LogInv, SegmentInv
<1>9. QED BY <1>1, <1>2, <1>3, <1>4, <1>7, <1>8 DEF Stepped

\* A sync of Close or Remove changes the files as Stepped says.
LEMMA SyncKeeps ==
  ASSUME LogInv, NEW k \in 1..Len(segs), NEW op \in {"store", "index"},
         (UNCHANGED segs /\ Touched({}, {})) \/ (Latest(k) /\ Synced(k))
  PROVE  Stepped(op, k)
<1>1. CASE UNCHANGED segs /\ Touched({}, {}) BY <1>1, TouchedNothing DEF Stepped
<1>2. CASE Latest(k) /\ Synced(k) BY <1>2, SyncedKeeps DEF Stepped
<1>3. QED BY <1>1, <1>2

\* One operation of Close or Remove: it is taken from the list and does what
\* Stepped says, and a file that is missing ends the list.
LEMMA FileStepFacts ==
  ASSUME LogInv, FileStep
  PROVE  /\ Len(todo) \in Nat /\ 1 \in 1..Len(todo)
         /\ todo[1][1] \in Op /\ todo[1][2] \in 1..Len(segs)
         /\ todo' = IF Missing(todo[1][1], segs[todo[1][2]].base) THEN <<>> ELSE Tail(todo)
         /\ Stepped(todo[1][1], todo[1][2])
<1>1. todo # <<>> /\ todo \in Seq(Op \X (1..Len(segs))) BY DEF FileStep, LogInv, TodoInv
<1>2. Len(todo) \in Nat /\ 1 \in 1..Len(todo) BY <1>1, SMT
<1>3. Head(todo) = todo[1] BY <1>1, SMT
<1>4. todo[1] \in Op \X (1..Len(segs)) BY <1>1, <1>2, ElementOfSeq
<1>5. PICK op, k : op = todo[1][1] /\ k = todo[1][2] OBVIOUS
<1>6. op \in Op /\ k \in 1..Len(segs) BY <1>4, <1>5
<1>7. /\ IF op = "store" THEN SyncStore(k)
         ELSE IF op = "index" THEN SyncIndex(k) ELSE RemoveFile(op, segs[k].base)
      /\ todo' = IF Missing(op, segs[k].base) THEN <<>> ELSE Tail(todo)
  BY <1>3, <1>5 DEF FileStep
<1>8. ASSUME op = "store" PROVE Stepped(op, k)
  <2>1. SyncStore(k) BY <1>7, <1>8
  <2>2. (UNCHANGED segs /\ Touched({}, {})) \/ (Latest(k) /\ Synced(k))
    BY <1>6, <2>1, SyncStoreKeeps
  <2>3. op \in {"store", "index"} BY <1>8
  <2>4. QED BY <1>6, <2>2, <2>3, SyncKeeps
<1>9. ASSUME op = "index" PROVE Stepped(op, k)
  <2>1. SyncIndex(k) BY <1>7, <1>9
  <2>2. (UNCHANGED segs /\ Touched({}, {})) \/ (Latest(k) /\ Synced(k))
    BY <1>6, <2>1, SyncIndexKeeps
  <2>3. op \in {"store", "index"} BY <1>9
  <2>4. QED BY <1>6, <2>2, <2>3, SyncKeeps
<1>10. ASSUME op \in {"rmStore", "rmIndex"} PROVE Stepped(op, k)
  <2>1. RemoveFile(op, segs[k].base) BY <1>7, <1>10
  <2>2. op = "rmStore" => segs[k].base \notin DOMAIN indexes
    BY <1>2, <1>5 DEF LogInv, TodoInv
  <2>3. QED BY <1>6, <1>10, <2>1, <2>2, RemoveFileKeeps
<1>11. QED BY <1>2, <1>5, <1>6, <1>7, <1>8, <1>9, <1>10 DEF Op

\* What is left of the list is the list shifted by one place.
LEMMA TailFacts ==
  ASSUME TodoInv, todo # <<>>
  PROVE  /\ Tail(todo) \in Seq(Op \X (1..Len(segs))) /\ Len(Tail(todo)) = Len(todo) - 1
         /\ \A i \in 1..(Len(todo) - 1) : i + 1 \in 1..Len(todo) /\ Tail(todo)[i] = todo[i + 1]
<1>1. todo \in Seq(Op \X (1..Len(segs))) BY DEF TodoInv
<1>2. Len(todo) \in Nat BY <1>1, LenProperties
<1>3. \A i \in 1..(Len(todo) - 1) : i + 1 \in 1..Len(todo) BY <1>2, SMT
<1>4. QED BY <1>1, <1>3, HeadTailProperties

\* An operation of Close or Remove leaves a list in order.
LEMMA FileStepTodo == ASSUME LogInv, FileStep PROVE TodoInv'
<1>1. CASE todo' = <<>> BY <1>1, EmptyTodo
<1>2. CASE todo' # <<>>
  <2>1. PICK op, k : op = todo[1][1] /\ k = todo[1][2] OBVIOUS
  <2>2. /\ op \in Op /\ k \in 1..Len(segs) /\ Stepped(op, k) /\ todo' = Tail(todo)
        /\ Len(todo) \in Nat /\ 1 \in 1..Len(todo)
    BY <1>2, <2>1, FileStepFacts
  <2>3. PICK n : n = Len(todo) - 1 OBVIOUS
  <2>4. /\ todo' \in Seq(Op \X (1..Len(segs))) /\ Len(todo') = n
        /\ \A i \in 1..n : i + 1 \in 1..Len(todo) /\ todo'[i] = todo[i + 1]
    BY <2>2, <2>3, TailFacts DEF LogInv, FileStep
  <2>5. Len(segs') = Len(segs) /\ \A j \in 1..Len(segs) : segs'[j].base = segs[j].base
    BY <2>2 DEF Stepped
  <2>6. n \in Nat BY <2>2, <2>3, SMT
  <2>7. phase' = "closing" => \A i \in 1..n : todo'[i][1] \in {"store", "index"}
    <3>1. phase' = "closing" => phase = "closing" BY <1>2 DEF FileStep
    <3>2. QED BY <2>4, <3>1 DEF LogInv, TodoInv
  <2>8. ASSUME NEW i \in 1..n, todo'[i][1] = "rmIndex"
        PROVE  i < n /\ todo'[i + 1] = <<"rmStore", todo'[i][2]>>
    <3>1. i + 1 \in 1..Len(todo) /\ todo'[i] = todo[i + 1] BY <2>4
    <3>2. i + 1 < Len(todo) /\ todo[(i + 1) + 1] = <<"rmStore", todo[i + 1][2]>>
      BY <2>8, <3>1 DEF LogInv, TodoInv
    <3>3. i < n /\ i + 1 \in 1..n BY <2>2, <2>3, <2>6, <3>2, SMT
    <3>4. QED BY <2>4, <3>1, <3>2, <3>3
  <2>9. ASSUME NEW i \in 1..n, todo'[i][1] = "rmStore"
        PROVE  IF i = 1 THEN segs'[todo'[i][2]].base \notin DOMAIN indexes'
                        ELSE todo'[i - 1] = <<"rmIndex", todo'[i][2]>>
    <3>1. i + 1 \in 1..Len(todo) /\ todo'[i] = todo[i + 1] /\ i + 1 # 1 /\ (i + 1) - 1 = i
      BY <2>4, SMT
    <3>2. todo[i] = <<"rmIndex", todo'[i][2]>> BY <2>9, <3>1 DEF LogInv, TodoInv
    <3>3. CASE i = 1
      <4>1. op = "rmIndex" /\ k = todo'[i][2]
        <5>1. PICK p, c : p = todo[1] /\ c = todo'[i][2] OBVIOUS
        <5>2. p = <<"rmIndex", c>> BY <3>2, <3>3, <5>1
        <5>3. p[1] = "rmIndex" /\ p[2] = c BY <5>2, Pairs
        <5>4. QED BY <2>1, <5>1, <5>3
      <4>2. DOMAIN indexes' = DOMAIN indexes \ {segs[k].base} BY <2>2, <4>1 DEF Stepped
      <4>3. QED BY <2>2, <2>5, <3>3, <4>1, <4>2
    <3>4. CASE i # 1
      <4>1. i - 1 \in 1..n /\ (i - 1) + 1 = i BY <2>6, <3>4, SMT
      <4>2. todo'[i - 1] = todo[i] BY <2>4, <4>1
      <4>3. QED BY <3>2, <3>4, <4>2
    <3>5. QED BY <3>3, <3>4
  <2>10. ASSUME NEW i \in 1..n, NEW j \in 1..n, todo'[i] = todo'[j],
                todo'[i][1] \in {"rmIndex", "rmStore"}
         PROVE  i = j
    <3>1. /\ i + 1 \in 1..Len(todo) /\ todo'[i] = todo[i + 1]
          /\ j + 1 \in 1..Len(todo) /\ todo'[j] = todo[j + 1]
      BY <2>4
    <3>2. i + 1 = j + 1 BY <2>10, <3>1 DEF LogInv, TodoInv
    <3>3. QED BY <3>2, SMT
  <2>11. QED BY <2>4, <2>5, <2>7, <2>8, <2>9, <2>10 DEF TodoInv
<1>3. QED BY <1>1, <1>2

\* An operation of Close or Remove keeps the invariant.
LEMMA FileStepKeeps == ASSUME LogInv, FileStep PROVE LogInv'
<1>1. TodoInv' BY FileStepTodo
<1>2. FileInv' /\ SegmentInv' /\ Len(segs') = Len(segs) BY FileStepFacts DEF Stepped
<1>3. phase \in {"closing", "removing"} /\ segs # <<>>
  BY DEF FileStep, LogInv, PhaseInv
<1>4. phase' = IF todo' # <<>> THEN phase ELSE IF phase = "closing" THEN "down" ELSE "removed"
  BY DEF FileStep
<1>5. segs' # <<>>
  <2>1. segs \in Seq(Segment) /\ segs' \in Seq(Segment) BY <1>2 DEF LogInv, SegmentInv
  <2>2. QED BY <1>2, <1>3, <2>1, SMT
<1>6. UNCHANGED <<mounted, crashes, faults, torn, orphan>> BY DEF FileStep
<1>7. PhaseInv' BY <1>3, <1>4, <1>5, <1>6 DEF LogInv, PhaseInv
<1>8. OpenInv' BY <1>3, <1>4 DEF OpenInv
<1>9. QED BY <1>1, <1>2, <1>7, <1>8 DEF LogInv

\* The invariant holds in every state of a behaviour of the log.
THEOREM LogInvariant == Spec => []LogInv
<1>1. Init => LogInv BY LogInit
<1>2. LogInv /\ [Next]_vars => LogInv'
  <2> SUFFICES ASSUME LogInv, [Next]_vars PROVE LogInv' OBVIOUS
  <2>1. CASE NewFileSystem BY <2>1, NewFileSystemKeeps
  <2>2. CASE Unmount BY <2>2, UnmountKeeps
  <2>3. CASE NewLog BY <2>3, NewLogKeeps
  <2>4. ASSUME NEW v \in Value, AppendValue(v) PROVE LogInv' BY <2>4, AppendValueKeeps
  <2>5. ASSUME NEW v \in Value, FailAppend(v) PROVE LogInv' BY <2>5, FailAppendKeeps
  <2>6. CASE CloseLog BY <2>6, CloseLogKeeps
  <2>7. CASE RemoveLog BY <2>7, RemoveLogKeeps
  <2>8. CASE FileStep BY <2>8, FileStepKeeps
  <2>9. CASE Crash BY <2>9, CrashKeeps
  <2>10. CASE UNCHANGED vars
    <3>1. UNCHANGED <<phase, segs, todo, stores, indexes, mounted, crashes, faults, torn, orphan>>
      BY <2>10 DEF vars, memVars, diskVars, histVars
    <3>2. PhaseInv' BY <3>1 DEF LogInv, PhaseInv
    <3>3. FileInv' /\ SegmentInv' BY <3>1, Frames
    <3>4. OpenInv' BY <3>1 DEF LogInv, OpenInv, Bases
    <3>5. TodoInv' BY <3>1 DEF LogInv, TodoInv
    <3>6. QED BY <3>2, <3>3, <3>4, <3>5 DEF LogInv
  <2>11. QED BY <2>1, <2>2, <2>3, <2>4, <2>5, <2>6, <2>7, <2>8, <2>9, <2>10 DEF Next
<1>3. QED BY <1>1, <1>2, PTL DEF Spec

\* newSegment, Append, sync, Close, Remove: no buffer ever holds more than its
\* array, whatever was rolled over, reopened, synced or lost.
THEOREM TypeCorrect == Spec => []TypeOK
<1>1. LogInv => TypeOK
  <2> SUFFICES ASSUME LogInv PROVE TypeOK OBVIOUS
  <2>1. DOMAIN segs = 1..Len(segs) BY LenProperties DEF LogInv, SegmentInv
  <2>2. QED BY <2>1 DEF LogInv, PhaseInv, SegmentInv, SegmentOK, TypeOK
<1>2. QED BY <1>1, LogInvariant, PTL

\* store.Append, ToBeMaxed: slicing the buffer panics only for a record that no
\* segment can hold, or when a crash left bytes in the next store file.
THEOREM PanicCause == Spec => PanicNeedsOversizeRecord
<1> DEFINE Step == \A v \in Value :
             AppendValue(v) /\ phase' = "panicked" =>
               \/ lenWidth + RecordLen(v, nextOffset) > MaxStoreBytes
               \/ FileOf(stores, nextOffset) # <<>>
<1>1. LogInv => Step
  <2> SUFFICES ASSUME LogInv, NEW v \in Value, AppendValue(v), phase' = "panicked",
                      FileOf(stores, nextOffset) = <<>>
               PROVE  lenWidth + RecordLen(v, nextOffset) > MaxStoreBytes
    OBVIOUS
  <2>1. PICK t : t = Target(v) OBVIOUS
  <2>2. phase = "open" BY DEF AppendValue
  <2>3. Overflows(t, v) BY <2>1, <2>2 DEF AppendValue, Target
  <2>4. t \in Segment /\ t.next = nextOffset BY <2>1, <2>2, TargetFacts
  <2>5. t.next \in Nat /\ t.store \in Seq(StoreRecord) BY <2>4 DEF Segment
  <2>6. StoreSize(t.store) \in Nat /\ RecordLen(v, t.next) \in Nat
    BY <2>5, StoreSizeType, RecordLenType
  <2>7. StoreSize(t.store) + lenWidth + RecordLen(v, t.next) > MaxStoreBytes
    BY <2>3 DEF Overflows
  <2>8. ToBeMaxed(active, v)
    <3>1. ASSUME ~ToBeMaxed(active, v) PROVE FALSE
      <4>1. t = active BY <2>1, <3>1 DEF Target
      <4>2. ~(StoreSize(t.store) + lenWidth + RecordLen(v, t.next) >= MaxStoreBytes)
        BY <3>1, <4>1 DEF ToBeMaxed
      <4>3. PICK x : x = StoreSize(t.store) + lenWidth + RecordLen(v, t.next) OBVIOUS
      <4>4. x \in Nat BY <2>6, <4>3, SMT DEF lenWidth
      <4>5. x > MaxStoreBytes /\ ~(x >= MaxStoreBytes) BY <2>7, <4>2, <4>3
      <4>6. QED BY <4>4, <4>5, ConfigAssumption, SMT
    <3>2. QED BY <3>1
  <2>9. t.store = <<>> BY <2>1, <2>2, <2>8, FreshFacts DEF Target, OpenedFrom
  <2>10. StoreSize(t.store) = 0 BY <2>9 DEF StoreSize
  <2>11. 0 + lenWidth = lenWidth BY SMT DEF lenWidth
  <2>12. QED BY <2>4, <2>7, <2>10, <2>11
<1>2. Spec => [][Step]_vars
  <2>1. LogInv /\ [Next]_vars => [Step]_vars BY <1>1
  <2>2. QED BY <2>1, LogInvariant, PTL DEF Spec
<1>3. QED BY <1>2 DEF PanicNeedsOversizeRecord

-----------------------------------------------------------------------------
(* Remove leaves nothing.                                                  *)

\* Before the first NewLog there is nothing that could be left.
LEMMA RemoveInit == Init => RemoveInv
<1> SUFFICES ASSUME Init PROVE RemoveInv OBVIOUS
<1>1. DOMAIN stores = {} /\ phase = "down" BY SMT DEF Init
<1>2. QED BY <1>1 DEF RemoveInv, Tidy, OneAlone, Alone, Present, RemoveLeavesNothing

\* Outside Remove only the files matter.
LEMMA Quiet ==
  ASSUME phase' \notin {"removing", "removed"},
         ~orphan' => OneAlone' /\ (phase' \in {"open", "closing"} =>
                                     DOMAIN stores' = Bases' /\ Alone' = {})
  PROVE  RemoveInv'
BY DEF RemoveInv, Tidy, Present, RemoveLeavesNothing

\* Where no store has lost its index at most one has.
LEMMA NoneAlone == ASSUME Alone' = {} PROVE OneAlone'
BY DEF OneAlone

\* NewLog opens every file, since at most one store has lost its index.
LEMMA NewLogTidies == ASSUME LogInv, RemoveInv, NewLog PROVE RemoveInv'
<1>1. phase' = "open" /\ orphan' = orphan BY DEF NewLog, histVars
<1>2. PICK bases : bases = BaseOffsets OBVIOUS
<1>3. SetupOK(bases) /\ Opened(bases) BY <1>2, Setup, NewLogOpens DEF LogInv
<1>4. ASSUME ~orphan PROVE DOMAIN stores' = Bases' /\ Alone' = {}
  <2>1. OneAlone BY <1>4 DEF RemoveInv, Tidy
  <2>2. \A b \in DOMAIN stores : \E i \in 1..Len(bases) : bases[i] = b
    BY <1>3, <2>1 DEF SetupOK
  <2>3. \A b \in DOMAIN stores : \E i \in 1..Len(segs') : segs'[i].base = b
    <3> TAKE b \in DOMAIN stores
    <3>1. PICK i \in 1..Len(bases) : bases[i] = b BY <2>2
    <3>2. i \in 1..Len(segs') /\ segs'[i].base = bases[i] BY <1>3 DEF Opened
    <3>3. QED BY <3>1, <3>2
  <2>4. DOMAIN stores \subseteq Bases' BY <2>3 DEF Bases
  <2>5. QED BY <1>3, <2>4 DEF Opened, Alone
<1>5. QED BY <1>1, <1>4, NoneAlone, Quiet

\* Append creates files only with the segment that owns them.
LEMMA AppendTidies == ASSUME LogInv, RemoveInv, NEW v \in Value, AppendValue(v) PROVE RemoveInv'
<1>1. phase = "open" /\ orphan' = orphan /\ (phase' = "panicked" \/ phase' = "open")
  BY DEF AppendValue
<1>2. Touched(Opens(v), Opens(v)) BY AppendTouches
<1>3. ~orphan => DOMAIN stores = Bases /\ Alone = {} BY <1>1 DEF RemoveInv, Tidy
<1>4. ~orphan => Alone' = {} BY <1>2, <1>3 DEF Alone, Touched
<1>5. phase' # "panicked" => Bases' = Bases \cup Opens(v) BY AppendSegments
<1>6. ~orphan /\ phase' # "panicked" => DOMAIN stores' = Bases' BY <1>2, <1>3, <1>5 DEF Touched
<1>7. QED BY <1>1, <1>4, <1>6, NoneAlone, Quiet

\* An Append that fails leaves a store without an index only as an orphan.
LEMMA FailAppendTidies == ASSUME LogInv, RemoveInv, NEW v \in Value, FailAppend(v) PROVE RemoveInv'
<1>1. phase = "open" /\ UNCHANGED <<phase, segs, indexes>> BY DEF FailAppend, memVars
<1>2. orphan' \/ (orphan' = orphan /\ stores' = stores) BY DEF FailAppend
<1>3. ~orphan => OneAlone /\ DOMAIN stores = Bases /\ Alone = {} BY <1>1 DEF RemoveInv, Tidy
<1>4. Bases' = Bases BY <1>1 DEF Bases
<1>5. ASSUME ~orphan' PROVE DOMAIN stores' = Bases' /\ Alone' = {}
  <2>1. orphan' = orphan /\ stores' = stores BY <1>2, <1>5
  <2>2. ~orphan BY <1>5, <2>1
  <2>3. DOMAIN stores = Bases /\ Alone = {} BY <1>3, <2>2
  <2>4. QED BY <1>1, <1>4, <2>1, <2>3 DEF Alone
<1>6. QED BY <1>1, <1>5, NoneAlone, Quiet

\* Close removes no file.
LEMMA CloseLogTidies == ASSUME LogInv, RemoveInv, CloseLog PROVE RemoveInv'
<1>1. phase = "open" /\ phase' = "closing" /\ UNCHANGED <<segs, stores, indexes, orphan>>
  BY DEF CloseLog, diskVars, histVars
<1>2. ~orphan => DOMAIN stores = Bases /\ Alone = {} BY <1>1 DEF RemoveInv, Tidy
<1>3. ~orphan' => DOMAIN stores' = Bases' /\ Alone' = {} BY <1>1, <1>2 DEF Alone, Bases
<1>4. QED BY <1>1, <1>3, NoneAlone, Quiet

\* A crash in the middle of Remove leaves at most one store without its index.
LEMMA CrashTidies == ASSUME LogInv, RemoveInv, Crash PROVE RemoveInv'
<1>1. phase' = "down" /\ UNCHANGED <<stores, indexes, orphan>> BY DEF Crash, diskVars
<1>2. ~orphan' => OneAlone' BY <1>1 DEF RemoveInv, Tidy, OneAlone, Alone
<1>3. QED BY <1>1, <1>2, Quiet

\* Remove lists every file of the log.
LEMMA RemoveLogTidies == ASSUME LogInv, RemoveInv, RemoveLog PROVE RemoveInv'
<1>1. /\ phase = "open" /\ phase' = "removing" /\ todo' = RemoveOps
      /\ UNCHANGED <<segs, stores, indexes, orphan>>
  BY DEF RemoveLog, diskVars
<1>2. PICK n, m : n = Len(segs) /\ m = 4 * n + 2 OBVIOUS
<1>3. n \in Nat /\ n >= 1 BY <1>1, <1>2, ActiveFacts DEF ActiveOK
<1>4. /\ Len(todo') = m /\ todo' \in Seq(Op \X (1..n))
      /\ \A i \in 1..m : todo'[i] = <<RemoveOp(i), RemoveSegment(i)>>
  BY <1>1, <1>2, RemoveOpsFacts
<1>5. \A i \in 1..m : todo'[i][1] = RemoveOp(i) /\ todo'[i][2] = RemoveSegment(i)
  BY <1>4, Pairs
<1>6. ASSUME NEW k \in 1..n PROVE Removes("rmIndex", segs[k].base)'
  <2>1. PICK i : i = 4 * k + 1 OBVIOUS
  <2>2. /\ i \in 1..m /\ i \in Nat /\ i >= 1 /\ i > 2 /\ ~(i <= 2)
        /\ (i - 3) % 4 = 2 /\ 1 + ((i - 3) \div 4) = k
    BY <1>2, <1>3, <2>1, SMT
  <2>3. RemoveOp(i) = "rmIndex" /\ RemoveSegment(i) = k
    BY <2>2, RemoveOpFacts DEF RemoveSegment
  <2>4. QED BY <1>1, <1>4, <1>5, <2>2, <2>3 DEF Removes
<1>7. ASSUME NEW k \in 1..n PROVE Removes("rmStore", segs[k].base)'
  <2>1. PICK i : i = 4 * k + 2 OBVIOUS
  <2>2. /\ i \in 1..m /\ i \in Nat /\ i >= 1 /\ i > 2 /\ ~(i <= 2)
        /\ (i - 3) % 4 = 3 /\ 1 + ((i - 3) \div 4) = k
    BY <1>2, <1>3, <2>1, SMT
  <2>3. RemoveOp(i) = "rmStore" /\ RemoveSegment(i) = k
    BY <2>2, RemoveOpFacts DEF RemoveSegment
  <2>4. QED BY <1>1, <1>4, <1>5, <2>2, <2>3 DEF Removes
<1>8. Bases' = Bases /\ Alone' = Alone BY <1>1 DEF Bases, Alone
<1>9. ~orphan' => Tidy'
  <2> SUFFICES ASSUME ~orphan' PROVE Tidy' OBVIOUS
  <2>1. DOMAIN stores = Bases /\ Alone = {} BY <1>1 DEF RemoveInv, Tidy
  <2>2. \A b \in DOMAIN stores : \E k \in 1..n : segs[k].base = b BY <1>2, <2>1 DEF Bases
  <2>3. \A b \in DOMAIN stores' : Removes("rmStore", b)'
    <3> TAKE b \in DOMAIN stores'
    <3>1. PICK k \in 1..n : segs[k].base = b BY <1>1, <2>2
    <3>2. PICK i \in 1..Len(todo') : todo'[i][1] = "rmStore" /\ segs'[todo'[i][2]].base = segs'[k].base
      BY <1>7 DEF Removes
    <3>3. QED BY <1>1, <3>1, <3>2 DEF Removes
  <2>4. \A b \in DOMAIN indexes' : Removes("rmIndex", b)'
    <3> TAKE b \in DOMAIN indexes'
    <3>1. b \in DOMAIN stores BY <1>1 DEF LogInv, FileInv
    <3>2. PICK k \in 1..n : segs[k].base = b BY <2>2, <3>1
    <3>3. PICK i \in 1..Len(todo') : todo'[i][1] = "rmIndex" /\ segs'[todo'[i][2]].base = segs'[k].base
      BY <1>6 DEF Removes
    <3>4. QED BY <1>1, <3>2, <3>3 DEF Removes
  <2>5. OneAlone' BY <1>8, <2>1 DEF OneAlone
  <2>6. QED BY <1>1, <1>8, <2>1, <2>3, <2>4, <2>5 DEF Tidy
<1>10. Present'
  <2>1. ASSUME NEW op, NEW b, Removes(op, b)' PROVE b \in Bases
    <3>1. PICK i \in 1..m : segs[todo'[i][2]].base = b BY <1>1, <1>4, <2>1 DEF Removes
    <3>2. todo'[i] \in Op \X (1..n) BY <1>4, ElementOfSeq
    <3>3. todo'[i][2] \in 1..n BY <3>2
    <3>4. QED BY <1>2, <3>1, <3>3 DEF Bases
  <2>2. Bases \subseteq DOMAIN stores' /\ Bases \subseteq DOMAIN indexes'
    BY <1>1 DEF LogInv, OpenInv
  <2>3. QED BY <2>1, <2>2 DEF Present
<1>11. RemoveLeavesNothing' BY <1>1 DEF RemoveLeavesNothing
<1>12. QED BY <1>9, <1>10, <1>11 DEF RemoveInv

\* What Remove still has to remove after an operation is what it had to remove
\* before, but for that operation.
LEMMA FileStepRemoves ==
  ASSUME LogInv, FileStep, todo' = Tail(todo), NEW op, NEW b
  PROVE  /\ Removes(op, b) /\ ~(todo[1][1] = op /\ segs[todo[1][2]].base = b)
              => Removes(op, b)'
         /\ Removes(op, b)' => Removes(op, b)
         /\ op \in {"rmIndex", "rmStore"} /\ Distinct /\ todo[1][1] = op
              /\ segs[todo[1][2]].base = b => ~Removes(op, b)'
<1>1. PICK n : n = Len(todo) - 1 OBVIOUS
<1>2. /\ Len(todo) \in Nat /\ 1 \in 1..Len(todo) /\ todo[1][1] \in Op
      /\ todo[1][2] \in 1..Len(segs) /\ Stepped(todo[1][1], todo[1][2])
  BY FileStepFacts
<1>3. /\ todo' \in Seq(Op \X (1..Len(segs))) /\ Len(todo') = n
      /\ \A i \in 1..n : i + 1 \in 1..Len(todo) /\ todo'[i] = todo[i + 1]
  BY <1>1, TailFacts DEF LogInv, FileStep
<1>4. \A j \in 1..Len(segs) : segs'[j].base = segs[j].base BY <1>2 DEF Stepped
<1>5. \A i \in 1..Len(todo) : todo[i] \in Op \X (1..Len(segs))
  BY ElementOfSeq DEF LogInv, TodoInv
<1>6. \A i \in 1..Len(todo) : segs'[todo[i][2]].base = segs[todo[i][2]].base
  <2> TAKE i \in 1..Len(todo)
  <2>1. todo[i][2] \in 1..Len(segs) BY <1>5
  <2>2. QED BY <1>4, <2>1
<1>7. ASSUME Removes(op, b), ~(todo[1][1] = op /\ segs[todo[1][2]].base = b)
      PROVE  Removes(op, b)'
  <2>1. PICK i \in 1..Len(todo) : todo[i][1] = op /\ segs[todo[i][2]].base = b
    BY <1>7 DEF Removes
  <2>2. i # 1 BY <1>7, <2>1
  <2>3. i - 1 \in 1..n /\ (i - 1) + 1 = i BY <1>1, <1>2, <2>2, SMT
  <2>4. todo'[i - 1] = todo[i] BY <1>3, <2>3
  <2>5. i - 1 \in 1..Len(todo') /\ todo'[i - 1][1] = op /\ segs'[todo'[i - 1][2]].base = b
    BY <1>3, <1>6, <2>1, <2>3, <2>4
  <2>6. QED BY <2>5 DEF Removes
<1>8. ASSUME Removes(op, b)'
      PROVE  \E i \in 1..Len(todo) : i # 1 /\ todo[i][1] = op /\ segs[todo[i][2]].base = b
  <2>1. PICK i \in 1..n : todo'[i][1] = op /\ segs'[todo'[i][2]].base = b
    BY <1>3, <1>8 DEF Removes
  <2>2. i + 1 \in 1..Len(todo) /\ todo'[i] = todo[i + 1] BY <1>3
  <2>3. i + 1 # 1 BY SMT
  <2>4. segs'[todo[i + 1][2]].base = segs[todo[i + 1][2]].base BY <1>6, <2>2
  <2>5. QED BY <2>1, <2>2, <2>3, <2>4
<1>9. Removes(op, b)' => Removes(op, b) BY <1>8 DEF Removes
<1>10. ASSUME op \in {"rmIndex", "rmStore"}, Distinct, todo[1][1] = op,
              segs[todo[1][2]].base = b, Removes(op, b)'
       PROVE  FALSE
  <2>1. PICK i \in 1..Len(todo) : i # 1 /\ todo[i][1] = op /\ segs[todo[i][2]].base = b
    BY <1>8, <1>10
  <2>2. todo[i] \in Op \X (1..Len(segs)) /\ todo[1] \in Op \X (1..Len(segs)) BY <1>2, <1>5
  <2>3. todo[i][2] \in 1..Len(segs) /\ todo[1][2] \in 1..Len(segs) BY <2>2
  <2>4. todo[i][2] = todo[1][2] BY <1>10, <2>1, <2>3 DEF Distinct
  <2>5. todo[i] = <<todo[i][1], todo[i][2]>> /\ todo[1] = <<todo[1][1], todo[1][2]>>
    BY <2>2, PairOfParts
  <2>6. todo[i] = todo[1] BY <1>10, <2>1, <2>4, <2>5
  <2>7. QED BY <1>2, <1>10, <2>1, <2>6 DEF LogInv, TodoInv
<1>11. QED BY <1>7, <1>9, <1>10

\* An operation of Remove removes the file it names, and finds one missing
\* only where two segments share it.
LEMMA FileStepTidies == ASSUME LogInv, RemoveInv, FileStep PROVE RemoveInv'
<1>1. PICK op, k, b : op = todo[1][1] /\ k = todo[1][2] /\ b = segs[k].base OBVIOUS
<1>2. /\ Len(todo) \in Nat /\ 1 \in 1..Len(todo) /\ op \in Op /\ k \in 1..Len(segs)
      /\ todo' = IF Missing(op, b) THEN <<>> ELSE Tail(todo)
      /\ Stepped(op, k)
  BY <1>1, FileStepFacts
<1>3. /\ Len(segs') = Len(segs) /\ \A j \in 1..Len(segs) : segs'[j].base = segs[j].base
      /\ DOMAIN stores' = IF op = "rmStore" THEN DOMAIN stores \ {b} ELSE DOMAIN stores
      /\ DOMAIN indexes' = IF op = "rmIndex" THEN DOMAIN indexes \ {b} ELSE DOMAIN indexes
  BY <1>1, <1>2 DEF Stepped
<1>4. /\ orphan' = orphan
      /\ phase' = IF todo' # <<>> THEN phase ELSE IF phase = "closing" THEN "down" ELSE "removed"
  BY DEF FileStep
<1>5. Bases' = Bases /\ (Distinct' => Distinct) BY <1>3 DEF Bases, Distinct
<1>6. CASE phase = "closing"
  <2>1. op \in {"store", "index"} BY <1>1, <1>2, <1>6 DEF LogInv, TodoInv
  <2>2. DOMAIN stores' = DOMAIN stores /\ DOMAIN indexes' = DOMAIN indexes BY <1>3, <2>1
  <2>3. ~orphan => DOMAIN stores' = Bases' /\ Alone' = {}
    BY <1>5, <1>6, <2>2 DEF RemoveInv, Tidy, Alone
  <2>4. phase' \notin {"removing", "removed"} BY <1>4, <1>6
  <2>5. QED BY <1>4, <2>3, <2>4, NoneAlone, Quiet
<1>7. CASE phase = "removing"
  <2>1. Removes(op, b) BY <1>1, <1>2 DEF Removes
  <2>2. ~orphan => /\ OneAlone
                   /\ \A d \in DOMAIN stores : Removes("rmStore", d)
                   /\ \A d \in DOMAIN indexes : Removes("rmIndex", d)
                   /\ \A d \in Alone : op = "rmStore" /\ b = d
    BY <1>1, <1>7 DEF RemoveInv, Tidy
  <2>3. Distinct => /\ \A d : Removes("rmStore", d) => d \in DOMAIN stores
                    /\ \A d : Removes("rmIndex", d) => d \in DOMAIN indexes
    BY <1>7 DEF RemoveInv, Present
  <2>4. segs' \in Seq(Segment) BY <1>2 DEF Stepped, SegmentInv
  <2>5. DOMAIN segs' = 1..Len(segs') BY <2>4, LenProperties
  <2>6. RemoveLeavesNothing' <=>
          (phase' = "removed" /\ ~orphan' /\ Distinct' => DOMAIN stores' = {} /\ DOMAIN indexes' = {})
    BY <2>5 DEF RemoveLeavesNothing, Distinct
  <2>7. CASE Missing(op, b)
    <3>1. todo' = <<>> /\ phase' = "removed" BY <1>2, <1>4, <1>7, <2>7
    <3>2. ~Distinct BY <2>1, <2>3, <2>7 DEF Missing
    <3>3. DOMAIN stores' = DOMAIN stores /\ DOMAIN indexes' = DOMAIN indexes
      BY <1>3, <2>7 DEF Missing
    <3>4. ~orphan => Alone' = {} BY <2>2, <2>7, <3>3 DEF Alone, Missing
    <3>5. ~orphan' => Tidy' BY <1>4, <3>1, <3>4, NoneAlone DEF Tidy
    <3>6. QED BY <1>5, <2>6, <3>2, <3>5 DEF RemoveInv
  <2>8. CASE ~Missing(op, b)
    <3>1. todo' = Tail(todo) BY <1>2, <2>8
    <3>2. \A o, d : /\ Removes(o, d) /\ ~(op = o /\ b = d) => Removes(o, d)'
                    /\ Removes(o, d)' => Removes(o, d)
                    /\ o \in {"rmIndex", "rmStore"} /\ Distinct /\ op = o /\ b = d
                         => ~Removes(o, d)'
      BY <1>1, <3>1, FileStepRemoves
    <3>3. phase' = IF todo' # <<>> THEN "removing" ELSE "removed" BY <1>4, <1>7
    <3>4. ~orphan => /\ \A d \in DOMAIN stores' : Removes("rmStore", d)'
                     /\ \A d \in DOMAIN indexes' : Removes("rmIndex", d)'
      <4> SUFFICES ASSUME ~orphan
                   PROVE  /\ \A d \in DOMAIN stores' : Removes("rmStore", d)'
                          /\ \A d \in DOMAIN indexes' : Removes("rmIndex", d)'
        OBVIOUS
      <4>1. ASSUME NEW d \in DOMAIN stores' PROVE Removes("rmStore", d)'
        <5>1. d \in DOMAIN stores /\ ~(op = "rmStore" /\ b = d) BY <1>3
        <5>2. QED BY <2>2, <3>2, <5>1
      <4>2. ASSUME NEW d \in DOMAIN indexes' PROVE Removes("rmIndex", d)'
        <5>1. d \in DOMAIN indexes /\ ~(op = "rmIndex" /\ b = d) BY <1>3
        <5>2. QED BY <2>2, <3>2, <5>1
      <4>3. QED BY <4>1, <4>2
    <3>5. ASSUME ~orphan, NEW d \in Alone' PROVE op = "rmIndex" /\ d = b
      <4>1. CASE op = "rmIndex"
        <5>1. Alone = {} BY <2>2, <3>5, <4>1
        <5>2. QED BY <1>3, <4>1, <5>1 DEF Alone
      <4>2. CASE op # "rmIndex"
        <5>1. d \in Alone BY <1>3, <4>2 DEF Alone
        <5>2. op = "rmStore" /\ b = d BY <2>2, <3>5, <5>1
        <5>3. QED BY <1>3, <5>2 DEF Alone
      <4>3. QED BY <4>1, <4>2
    <3>6. ASSUME op = "rmIndex"
          PROVE  todo' # <<>> /\ todo'[1][1] = "rmStore" /\ segs'[todo'[1][2]].base = b
      <4>1. 1 < Len(todo) /\ todo[1 + 1] = <<"rmStore", k>>
        BY <1>1, <1>2, <3>6 DEF LogInv, TodoInv
      <4>2. 1 \in 1..(Len(todo) - 1) BY <1>2, <4>1, SMT
      <4>3. Len(todo') = Len(todo) - 1 /\ todo'[1] = todo[1 + 1]
        BY <3>1, <4>2, TailFacts DEF LogInv, FileStep
      <4>4. todo'[1][1] = "rmStore" /\ todo'[1][2] = k BY <4>1, <4>3, Pairs
      <4>5. todo' # <<>>
        <5>1. Len(todo') # 0 BY <1>2, <4>1, <4>3, SMT
        <5>2. QED BY <5>1, EmptySeq
      <4>6. QED BY <1>1, <1>2, <1>3, <4>4, <4>5
    <3>7. ~orphan' => Tidy'
      <4> SUFFICES ASSUME ~orphan PROVE Tidy' BY <1>4
      <4>1. OneAlone' BY <3>5 DEF OneAlone
      <4>2. \A d \in Alone' : todo'[1][1] = "rmStore" /\ segs'[todo'[1][2]].base = d
        BY <3>5, <3>6
      <4>3. phase' = "removed" => Alone' = {} BY <3>3, <3>5, <3>6
      <4>4. phase' \notin {"open", "closing"} BY <3>3
      <4>5. QED BY <3>4, <4>1, <4>2, <4>3, <4>4 DEF Tidy
    <3>8. Distinct' => Present'
      <4> SUFFICES ASSUME Distinct PROVE Present' BY <1>5
      <4>1. ASSUME NEW d, Removes("rmStore", d)' PROVE d \in DOMAIN stores'
        <5>1. d \in DOMAIN stores /\ ~(op = "rmStore" /\ b = d) BY <2>3, <3>2, <4>1
        <5>2. QED BY <1>3, <5>1
      <4>2. ASSUME NEW d, Removes("rmIndex", d)' PROVE d \in DOMAIN indexes'
        <5>1. d \in DOMAIN indexes /\ ~(op = "rmIndex" /\ b = d) BY <2>3, <3>2, <4>2
        <5>2. QED BY <1>3, <5>1
      <4>3. QED BY <4>1, <4>2 DEF Present
    <3>9. ASSUME phase' = "removed", ~orphan' PROVE DOMAIN stores' = {} /\ DOMAIN indexes' = {}
      <4>1. todo' = <<>> BY <3>3, <3>9
      <4>2. Len(<<>>) = 0 /\ 1..0 = {} BY EmptySeq, SMT
      <4>3. \A o, d : ~Removes(o, d)' BY <4>1, <4>2 DEF Removes
      <4>4. QED BY <1>4, <3>4, <3>9, <4>3
    <3>10. QED BY <2>6, <3>7, <3>8, <3>9 DEF RemoveInv
  <2>9. QED BY <2>7, <2>8
<1>8. QED BY <1>6, <1>7 DEF FileStep, LogInv, PhaseInv

\* Log.Remove: when Remove has ended, no file is left, unless two segments
\* share their files or a failed roll-over left a store without an index.
THEOREM NothingIsLeft == Spec => []RemoveLeavesNothing
<1>1. Init => RemoveInv BY RemoveInit
<1>2. LogInv /\ RemoveInv /\ [Next]_vars => RemoveInv'
  <2> SUFFICES ASSUME LogInv, RemoveInv, [Next]_vars PROVE RemoveInv' OBVIOUS
  <2>1. CASE NewFileSystem
    <3>1. phase' = "down" /\ stores' = <<>> BY <2>1 DEF NewFileSystem, memVars
    <3>2. DOMAIN stores' = {} BY <3>1, SMT
    <3>3. Alone' = {} BY <3>2 DEF Alone
    <3>4. QED BY <3>1, <3>3, NoneAlone, Quiet
  <2>2. CASE Unmount
    <3>1. phase = "open" /\ UNCHANGED <<phase, segs, stores, indexes, orphan>>
      BY <2>2 DEF Unmount, memVars, histVars
    <3>2. ~orphan' => DOMAIN stores' = Bases' /\ Alone' = {}
      BY <3>1 DEF RemoveInv, Tidy, Bases, Alone
    <3>3. QED BY <3>1, <3>2, NoneAlone, Quiet
  <2>3. CASE NewLog BY <2>3, NewLogTidies
  <2>4. ASSUME NEW v \in Value, AppendValue(v) PROVE RemoveInv' BY <2>4, AppendTidies
  <2>5. ASSUME NEW v \in Value, FailAppend(v) PROVE RemoveInv' BY <2>5, FailAppendTidies
  <2>6. CASE CloseLog BY <2>6, CloseLogTidies
  <2>7. CASE RemoveLog BY <2>7, RemoveLogTidies
  <2>8. CASE FileStep BY <2>8, FileStepTidies
  <2>9. CASE Crash BY <2>9, CrashTidies
  <2>10. CASE UNCHANGED vars
    <3>1. UNCHANGED <<phase, segs, todo, stores, indexes, orphan>>
      BY <2>10 DEF vars, memVars, diskVars, histVars
    <3>2. Alone' = Alone /\ Bases' = Bases BY <3>1 DEF Alone, Bases
    <3>3. \A op, d : Removes(op, d)' <=> Removes(op, d) BY <3>1 DEF Removes
    <3>4. Tidy => Tidy' BY <3>1, <3>2, <3>3 DEF Tidy, OneAlone
    <3>5. (Distinct => Present) => (Distinct' => Present')
      BY <3>1, <3>3 DEF Distinct, Present
    <3>6. RemoveLeavesNothing' BY <3>1 DEF RemoveInv, RemoveLeavesNothing
    <3>7. QED BY <3>1, <3>4, <3>5, <3>6 DEF RemoveInv
  <2>11. QED BY <2>1, <2>2, <2>3, <2>4, <2>5, <2>6, <2>7, <2>8, <2>9, <2>10 DEF Next
<1>3. RemoveInv => RemoveLeavesNothing BY DEF RemoveInv
<1>4. QED BY <1>1, <1>2, <1>3, LogInvariant, PTL DEF Spec

=============================================================================
