---------------------------- MODULE OOOCoreProofs ----------------------------
(***************************************************************************)
(* Theorems about OOOCore: for every program, every size of the ring above *)
(* two and all the other sizes, the reorder buffer is a bounded queue, the *)
(* state is well typed, and, as long as nothing is forwarded to a load     *)
(* that is pending, an instruction is in one place, is woken up once and   *)
(* reads what the last older writer of each register has written.          *)
(*                                                                         *)
(* Where the oldest entry and the newest stand decides how many there are; *)
(* the arithmetic of it is in lemmas about two numbers, SizeOf and SlotAt. *)
(* What waits for what is counted: how many elements of a queue are of     *)
(* some kind (Count) is what the stations wait for, station by station.    *)
(***************************************************************************)
EXTENDS OOOCore, FiniteSetTheorems, SequenceTheorems, WellFoundedInduction,
        TLAPS

-------------------------------------------------------------------------------
(***************************************************************************)
(* How many elements of a sequence are of some kind.                       *)
(***************************************************************************)
\* How many elements of a sequence are in a set.
Count(q, S) == Cardinality({i \in DOMAIN q : q[i] \in S})

\* The count is a number.
LEMMA CountTyped ==
  ASSUME NEW T, NEW q \in Seq(T), NEW S
  PROVE  /\ IsFiniteSet({i \in DOMAIN q : q[i] \in S})
         /\ Count(q, S) \in Nat
<1>1. DOMAIN q = 1 .. Len(q) /\ Len(q) \in Nat
  OBVIOUS
<1>2. IsFiniteSet(1 .. Len(q))
  BY <1>1, FS_Interval
<1>3. {i \in DOMAIN q : q[i] \in S} \in SUBSET (1 .. Len(q))
  BY <1>1
<1>4. IsFiniteSet({i \in DOMAIN q : q[i] \in S})
  BY <1>2, <1>3, FS_Subset
<1> QED
  BY <1>4, FS_CardinalityType DEF Count

\* An element counts.
LEMMA CountFound ==
  ASSUME NEW T, NEW q \in Seq(T), NEW S
  PROVE  Count(q, S) = 0 <=> \A i \in DOMAIN q : q[i] \notin S
<1>1. IsFiniteSet({i \in DOMAIN q : q[i] \in S})
  BY CountTyped
<1>2. Count(q, S) = 0 <=> {i \in DOMAIN q : q[i] \in S} = {}
  BY <1>1, FS_EmptySet DEF Count
<1> QED
  BY <1>2

\* An empty sequence has none.
LEMMA CountEmpty ==
  ASSUME NEW S
  PROVE  Count(<<>>, S) = 0
<1>1. {i \in DOMAIN <<>> : <<>>[i] \in S} = {}
  OBVIOUS
<1> QED
  BY <1>1, FS_EmptySet DEF Count

\* The second of two sequences counts what it counts alone.
LEMMA CountConcat ==
  ASSUME NEW T, NEW p \in Seq(T), NEW q \in Seq(T), NEW S
  PROVE  Count(p \o q, S) = Count(p, S) + Count(q, S)
<1> DEFINE n == Len(p)
           A == {i \in DOMAIN p : p[i] \in S}
           B == {i \in DOMAIN q : q[i] \in S}
           C == {i \in (n + 1) .. (n + Len(q)) : q[i - n] \in S}
           All == {i \in DOMAIN (p \o q) : (p \o q)[i] \in S}
<1>1. /\ n \in Nat /\ DOMAIN p = 1 .. n
      /\ Len(q) \in Nat /\ DOMAIN q = 1 .. Len(q)
  OBVIOUS
<1>2. DOMAIN (p \o q) = 1 .. (n + Len(q))
  BY <1>1
<1>3. \A i \in 1 .. (n + Len(q)) : (p \o q)[i] = IF i <= n THEN p[i] ELSE q[i - n]
  BY <1>1
<1> HIDE DEF n
<1>4. All = A \union C
  <2>1. ASSUME NEW i \in All
        PROVE  i \in A \union C
    BY <1>1, <1>2, <1>3, <2>1
  <2>2. ASSUME NEW i \in A
        PROVE  i \in All
    <3>1. i \in 1 .. (n + Len(q)) /\ i <= n
      BY <1>1
    <3> QED
      BY <1>2, <1>3, <3>1
  <2>3. ASSUME NEW i \in C
        PROVE  i \in All
    <3>1. i \in 1 .. (n + Len(q)) /\ ~ (i <= n)
      BY <1>1
    <3> QED
      BY <1>2, <1>3, <3>1
  <2> QED
    BY <2>1, <2>2, <2>3
<1>5. A \cap C = {}
  BY <1>1
<1>6. IsFiniteSet(A) /\ IsFiniteSet(B)
  BY CountTyped
<1>7. /\ IsFiniteSet(C) /\ Cardinality(C) = Cardinality(B)
  <2> DEFINE f == [i \in B |-> i + n]
  <2>1. f \in Bijection(B, C)
    <3>1. f \in [B -> C]
      <4>1. ASSUME NEW i \in B
            PROVE  i + n \in C
        <5>1. i + n \in (n + 1) .. (n + Len(q)) /\ (i + n) - n = i
          BY <1>1
        <5> QED
          BY <5>1
      <4> QED
        BY <4>1
    <3>2. \A i, j \in B : f[i] = f[j] => i = j
      BY <1>1
    <3>3. \A c \in C : \E i \in B : f[i] = c
      <4>1. ASSUME NEW c \in C
            PROVE  \E i \in B : f[i] = c
        <5>1. c - n \in B /\ (c - n) + n = c
          BY <1>1
        <5> QED
          BY <5>1
      <4> QED
        BY <4>1
    <3> HIDE DEF f, B, C
    <3> QED
      BY <3>1, <3>2, <3>3 DEF Bijection, Injection, Surjection, IsInjective
  <2>2. ExistsBijection(B, C)
    BY <2>1 DEF ExistsBijection
  <2> QED
    BY <1>6, <2>2, FS_Bijection
<1>8. Cardinality(All) = Cardinality(A) + Cardinality(C) - Cardinality(A \cap C)
  BY <1>4, <1>6, <1>7, FS_Union
<1>9. Cardinality(A \cap C) = 0 /\ Cardinality(A) \in Nat /\ Cardinality(C) \in Nat
  BY <1>5, <1>6, <1>7, FS_EmptySet, FS_CardinalityType
<1>10. /\ Count(p \o q, S) = Cardinality(All)
       /\ Count(p, S) = Cardinality(A) /\ Count(q, S) = Cardinality(B)
  BY DEF Count
<1> HIDE DEF A, B, C, All
<1> QED
  BY <1>7, <1>8, <1>9, <1>10

\* A sequence of one element.
LEMMA CountOne ==
  ASSUME NEW x, NEW S
  PROVE  Count(<<x>>, S) = IF x \in S THEN 1 ELSE 0
<1>1. CASE x \in S
  <2>1. {i \in DOMAIN <<x>> : <<x>>[i] \in S} = {1}
    BY <1>1
  <2> QED
    BY <1>1, <2>1, FS_Singleton DEF Count
<1>2. CASE x \notin S
  <2>1. {i \in DOMAIN <<x>> : <<x>>[i] \in S} = {}
    BY <1>2
  <2> QED
    BY <1>2, <2>1, FS_EmptySet DEF Count
<1> QED
  BY <1>1, <1>2

\* One more at the end.
LEMMA CountAppend ==
  ASSUME NEW T, NEW q \in Seq(T), NEW x \in T, NEW S
  PROVE  Count(Append(q, x), S) = Count(q, S) + (IF x \in S THEN 1 ELSE 0)
<1>1. Append(q, x) = q \o <<x>> /\ <<x>> \in Seq(T)
  OBVIOUS
<1>2. Count(q \o <<x>>, S) = Count(q, S) + Count(<<x>>, S)
  BY <1>1, CountConcat
<1> QED
  BY <1>1, <1>2, CountOne

\* One less without the head.
LEMMA CountTail ==
  ASSUME NEW T, NEW q \in Seq(T), q # <<>>, NEW S
  PROVE  Count(q, S) = (IF Head(q) \in S THEN 1 ELSE 0) + Count(Tail(q), S)
<1>1. q = <<Head(q)>> \o Tail(q) /\ <<Head(q)>> \in Seq(T) /\ Tail(q) \in Seq(T)
  OBVIOUS
<1>2. Count(<<Head(q)>> \o Tail(q), S) = Count(<<Head(q)>>, S) + Count(Tail(q), S)
  BY <1>1, CountConcat
<1>3. Count(<<Head(q)>> \o Tail(q), S) = Count(q, S)
  BY <1>1
<1> QED
  BY <1>2, <1>3, CountOne

\* The same element several times.
LEMMA CountRepeat ==
  ASSUME NEW T, NEW q \in Seq(T), NEW x \in T, NEW m \in Nat, NEW S
  PROVE  /\ q \o [i \in 1 .. m |-> x] \in Seq(T)
         /\ Count(q \o [i \in 1 .. m |-> x], S)
              = Count(q, S) + (IF x \in S THEN m ELSE 0)
<1> DEFINE r == [i \in 1 .. m |-> x]
<1>1. r \in Seq(T) /\ DOMAIN r = 1 .. m /\ \A i \in 1 .. m : r[i] = x
  OBVIOUS
<1> HIDE DEF r
<1>2. Count(r, S) = IF x \in S THEN m ELSE 0
  <2>1. CASE x \in S
    <3>1. {i \in DOMAIN r : r[i] \in S} = 1 .. m
      BY <1>1, <2>1
    <3>2. Cardinality(1 .. m) = m
      BY FS_Interval
    <3> QED
      BY <2>1, <3>1, <3>2 DEF Count
  <2>2. CASE x \notin S
    <3>1. {i \in DOMAIN r : r[i] \in S} = {}
      BY <1>1, <2>2
    <3> QED
      BY <2>2, <3>1, FS_EmptySet DEF Count
  <2> QED
    BY <2>1, <2>2
<1>3. q \o r \in Seq(T) /\ Count(q \o r, S) = Count(q, S) + Count(r, S)
  BY <1>1, CountConcat
<1> QED
  BY <1>2, <1>3 DEF r

\* Without its n-th element a sequence has the others, counted as before.
LEMMA RemovedAt ==
  ASSUME NEW T, NEW q \in Seq(T), NEW n \in DOMAIN q
  PROVE  /\ RemoveAt(q, n) \in Seq(T)
         /\ Len(RemoveAt(q, n)) = Len(q) - 1
         /\ \A i \in DOMAIN RemoveAt(q, n) : \E j \in DOMAIN q : RemoveAt(q, n)[i] = q[j]
         /\ \A S : Count(q, S) = Count(RemoveAt(q, n), S)
                                  + (IF q[n] \in S THEN 1 ELSE 0)
<1> DEFINE a == SubSeq(q, 1, n - 1)
           b == SubSeq(q, n + 1, Len(q))
<1>1. n \in 1 .. Len(q) /\ Len(q) \in Nat /\ DOMAIN q = 1 .. Len(q) /\ q[n] \in T
  OBVIOUS
<1>2. a \in Seq(T) /\ Len(a) = n - 1 /\ \A i \in 1 .. n - 1 : a[i] = q[i]
  BY <1>1
<1>3. b \in Seq(T) /\ Len(b) = Len(q) - n /\ \A i \in 1 .. Len(q) - n : b[i] = q[n + i]
  BY <1>1
<1>4. RemoveAt(q, n) = a \o b
  BY DEF RemoveAt
<1> DEFINE e == q[n]
<1> HIDE DEF a, b
<1>50. e = q[n] /\ e \in T
  BY <1>1
<1> HIDE DEF e
<1>5. (a \o <<e>>) \o b = q
  <2>1. <<e>> \in Seq(T) /\ a \o <<e>> \in Seq(T) /\ Len(a \o <<e>>) = n
    BY <1>1, <1>2, <1>50
  <2>2. \A i \in 1 .. n : (a \o <<e>>)[i] = q[i]
    BY <1>1, <1>2, <1>50
  <2>3. Len((a \o <<e>>) \o b) = Len(q) /\ (a \o <<e>>) \o b \in Seq(T)
    <3>1. /\ Len((a \o <<e>>) \o b) = Len(a \o <<e>>) + Len(b)
          /\ (a \o <<e>>) \o b \in Seq(T)
      BY <1>3, <2>1, ConcatProperties
    <3>2. Len(a \o <<e>>) + Len(b) = Len(q)
      <4>1. Len(a \o <<e>>) = n /\ Len(b) = Len(q) - n
        BY <1>3, <2>1
      <4>2. n + (Len(q) - n) = Len(q)
        BY <1>1
      <4> QED
        BY <4>1, <4>2, Zenon
    <3> QED
      BY <3>1, <3>2, Zenon
  <2>4. \A i \in 1 .. Len(q) : ((a \o <<e>>) \o b)[i] = q[i]
    <3>1. ASSUME NEW i \in 1 .. Len(q), i <= n
          PROVE  ((a \o <<e>>) \o b)[i] = q[i]
      BY <1>1, <1>3, <2>1, <2>2, <3>1
    <3>2. ASSUME NEW i \in 1 .. Len(q), i > n
          PROVE  ((a \o <<e>>) \o b)[i] = q[i]
      <4>1. ((a \o <<e>>) \o b)[i] = b[i - n]
        BY <1>1, <1>3, <2>1, <3>2
      <4>2. i - n \in 1 .. Len(q) - n /\ n + (i - n) = i
        BY <1>1, <3>2
      <4> QED
        BY <4>1, <4>2, <1>3
    <3>3. \A i \in 1 .. Len(q) : i <= n \/ i > n
      BY <1>1
    <3> QED
      BY <3>1, <3>2, <3>3
  <2> QED
    BY <2>3, <2>4, SeqEqual
<1>6. ASSUME NEW S
      PROVE  Count(q, S) = Count(a \o b, S) + (IF e \in S THEN 1 ELSE 0)
  <2>1. <<e>> \in Seq(T) /\ a \o <<e>> \in Seq(T)
    BY <1>1, <1>2, <1>50
  <2>2. Count(q, S) = Count(a \o <<e>>, S) + Count(b, S)
    BY <1>3, <1>5, <2>1, CountConcat
  <2>3. Count(a \o <<e>>, S) = Count(a, S) + Count(<<e>>, S)
    BY <1>2, <2>1, CountConcat
  <2>4. Count(<<e>>, S) = IF e \in S THEN 1 ELSE 0
    BY CountOne
  <2>5. Count(a \o b, S) = Count(a, S) + Count(b, S)
    BY <1>2, <1>3, CountConcat
  <2>6. Count(a, S) \in Nat /\ Count(b, S) \in Nat
    BY <1>2, <1>3, CountTyped
  <2> QED
    BY <2>2, <2>3, <2>4, <2>5, <2>6
<1>7. a \o b \in Seq(T) /\ Len(a \o b) = Len(q) - 1
  <2>1. a \o b \in Seq(T) /\ Len(a \o b) = (n - 1) + (Len(q) - n)
    BY <1>2, <1>3, ConcatProperties
  <2> QED
    BY <1>1, <2>1
<1>8. ASSUME NEW i \in DOMAIN (a \o b)
      PROVE  \E j \in DOMAIN q : (a \o b)[i] = q[j]
  <2>1. i \in 1 .. Len(q) - 1
    BY <1>7
  <2>2. CASE i <= n - 1
    <3>1. (a \o b)[i] = a[i] /\ a[i] = q[i]
      BY <1>1, <1>2, <1>3, <2>1, <2>2
    <3> QED
      BY <1>1, <2>1, <3>1
  <2>3. CASE ~ (i <= n - 1)
    <3>1. (a \o b)[i] = b[i - (n - 1)]
      BY <1>1, <1>2, <1>3, <2>1, <2>3
    <3>2. i - (n - 1) \in 1 .. Len(q) - n /\ n + (i - (n - 1)) = i + 1
      BY <1>1, <2>1, <2>3
    <3>3. b[i - (n - 1)] = q[i + 1] /\ i + 1 \in 1 .. Len(q)
      BY <1>1, <1>3, <2>1, <3>2
    <3> QED
      BY <1>1, <3>1, <3>3
  <2> QED
    BY <2>2, <2>3
<1> QED
  BY <1>4, <1>50, <1>6, <1>7, <1>8

\* A set of numbers that is not empty has a least element, the one Min chooses.
LEMMA FirstOf ==
  ASSUME NEW T \in SUBSET Nat, T # {}
  PROVE  Min(T) \in T
<1>1. OpToRel(<, Nat) = {ss \in Nat \X Nat : ss[1] < ss[2]}
  BY DEF OpToRel
<1>2. IsWellFoundedOn(OpToRel(<, Nat), Nat)
  BY NatLessThanWellFounded
<1>3. PICK t \in T : \A u \in T : ~ (<<u, t>> \in OpToRel(<, Nat))
  BY <1>2, WFMin
<1>4. ASSUME NEW u \in T, u < t
      PROVE  FALSE
  <2>1. <<u, t>> \in Nat \X Nat /\ <<u, t>>[1] < <<u, t>>[2]
    BY <1>4
  <2>2. <<u, t>> \in OpToRel(<, Nat)
    BY <2>1, <1>1
  <2> QED
    BY <2>2, <1>3
<1>5. \A u \in T : t <= u
  BY <1>4
<1> QED
  BY <1>5 DEF Min
-------------------------------------------------------------------------------
(***************************************************************************)
(* Two pointers and the number of entries between them.                    *)
(***************************************************************************)
Pointers(ip, cp) ==
  \/ ip = -1 /\ cp = -1
  \/ ip \in Slots /\ cp \in Slots

SizeOf(ip, cp) ==
  IF cp = -1 /\ ip = -1 THEN 0 ELSE ((ip - cp) % ROB_Size) + 1

SlotAt(cp, i) == (cp + i - 1) % ROB_Size

\* The remainder of a number that is less than one turn off the ring.
LEMMA OneTurn ==
  ASSUME NEW N \in Nat, N > 0, NEW x \in -N .. 2 * N - 1
  PROVE  x % N = IF x < 0 THEN x + N ELSE IF x < N THEN x ELSE x - N
OBVIOUS

\* How many entries there are, by where the pointers stand.
LEMMA Sizes ==
  ASSUME NEW ip \in Slots, NEW cp \in Slots
  PROVE  SizeOf(ip, cp) = IF ip >= cp THEN ip - cp + 1 ELSE ip - cp + 1 + ROB_Size
<1>1. ROB_Size \in Nat /\ ROB_Size > 2
  BY RobSizeAssumption
<1>2. ip - cp \in -ROB_Size .. 2 * ROB_Size - 1
  BY <1>1 DEF Slots
<1>3. (ip - cp) % ROB_Size = IF ip - cp < 0 THEN ip - cp + ROB_Size
                             ELSE IF ip - cp < ROB_Size THEN ip - cp
                             ELSE ip - cp - ROB_Size
  BY <1>1, <1>2, OneTurn
<1> QED
  BY <1>1, <1>3 DEF SizeOf, Slots

\* The number of entries is a number up to ROB_Size.
LEMMA SizeRange ==
  ASSUME NEW ip, NEW cp, Pointers(ip, cp)
  PROVE  SizeOf(ip, cp) \in 0 .. ROB_Size
<1>1. ROB_Size \in Nat /\ ROB_Size > 2
  BY RobSizeAssumption
<1>2. CASE ip = -1 /\ cp = -1
  BY <1>1, <1>2 DEF SizeOf
<1>3. CASE ip \in Slots /\ cp \in Slots
  BY <1>1, <1>3, Sizes DEF Slots
<1> QED
  BY <1>2, <1>3 DEF Pointers

\* The slot of the i-th entry.
LEMMA SlotsAt ==
  ASSUME NEW cp \in Slots, NEW i \in 1 .. ROB_Size
  PROVE  SlotAt(cp, i) = IF cp + i - 1 < ROB_Size THEN cp + i - 1
                         ELSE cp + i - 1 - ROB_Size
<1>1. ROB_Size \in Nat /\ ROB_Size > 2
  BY RobSizeAssumption
<1>2. cp + i - 1 \in -ROB_Size .. 2 * ROB_Size - 1
  BY <1>1 DEF Slots
<1> QED
  BY <1>1, <1>2, OneTurn DEF SlotAt, Slots

-------------------------------------------------------------------------------
(***************************************************************************)
(* The operations of the ring.                                             *)
(***************************************************************************)
\* The instructions in the ring, oldest first.
Queue == [i \in 1 .. SizeOf(issue_ptr, commit_ptr) |->
            rob[SlotAt(commit_ptr, i)].ins]

RingOK == Pointers(issue_ptr, commit_ptr)

\* The refinement mapping of Fifo is this queue.
LEMMA QueueIsMapping ==
  Queue = [i \in DOMAIN Contents |-> Contents[i].ins]
<1>1. Size = SizeOf(issue_ptr, commit_ptr)
  BY DEF Size, SizeOf, is_empty
<1>2. DOMAIN Contents = 1 .. SizeOf(issue_ptr, commit_ptr)
  BY <1>1 DEF Contents
<1>3. \A i \in 1 .. SizeOf(issue_ptr, commit_ptr) :
        Contents[i].ins = rob[SlotAt(commit_ptr, i)].ins
  BY <1>1 DEF Contents, SlotAt
<1> QED
  BY <1>2, <1>3 DEF Queue

\* The queue is a sequence of as many instructions as the pointers say.
LEMMA QueueIsSeq ==
  ASSUME RingOK
  PROVE  Len(Queue) = SizeOf(issue_ptr, commit_ptr)
<1>1. SizeOf(issue_ptr, commit_ptr) \in Nat
  BY SizeRange, RobSizeAssumption DEF RingOK
<1> QED
  BY <1>1 DEF Queue

\* has_size: there is a slot left, whether the ring is wrapped or not.
LEMMA HasSize ==
  ASSUME RingOK, has_size
  PROVE  SizeOf(issue_ptr, commit_ptr) < ROB_Size
<1>1. ROB_Size \in Nat /\ ROB_Size > 2
  BY RobSizeAssumption
<1>2. CASE issue_ptr = -1 /\ commit_ptr = -1
  BY <1>1, <1>2 DEF SizeOf
<1>3. CASE issue_ptr \in Slots /\ commit_ptr \in Slots
  <2>1. CASE commit_ptr = 0
    BY <1>1, <1>3, <2>1, Sizes DEF has_size, Slots
  <2>2. CASE commit_ptr # 0
    <3>1. commit_ptr - 1 \in 0 .. ROB_Size - 2
      BY <1>1, <1>3, <2>2 DEF Slots
    <3>2. (commit_ptr - 1) % (ROB_Size - 1) = commit_ptr - 1
      <4>1. ROB_Size - 1 \in Nat /\ ROB_Size - 1 > 0
        BY <1>1
      <4>2. commit_ptr - 1 \in -(ROB_Size - 1) .. 2 * (ROB_Size - 1) - 1
        BY <1>1, <3>1
      <4> QED
        BY <4>1, <4>2, <3>1, <1>1, OneTurn
    <3>3. issue_ptr # commit_ptr - 1
      BY <3>1, <3>2, <1>1 DEF has_size, Remainder
    <3>4. SizeOf(issue_ptr, commit_ptr)
            = IF issue_ptr >= commit_ptr THEN issue_ptr - commit_ptr + 1
              ELSE issue_ptr - commit_ptr + 1 + ROB_Size
      BY <1>3, Sizes
    <3> QED
      BY <1>1, <1>3, <2>2, <3>3, <3>4 DEF Slots
  <2> QED
    BY <2>1, <2>2
<1> QED
  BY <1>2, <1>3 DEF RingOK, Pointers

\* do_issue: the slot is the one behind the newest entry.
LEMMA IssueMoves ==
  ASSUME RingOK, has_size,
         issue_ptr' = NextSlot, commit_ptr' = IF is_empty THEN 0 ELSE commit_ptr
  PROVE  /\ NextSlot \in Slots /\ RingOK'
         /\ SizeOf(issue_ptr', commit_ptr') = SizeOf(issue_ptr, commit_ptr) + 1
         /\ SlotAt(commit_ptr', SizeOf(issue_ptr', commit_ptr')) = NextSlot
         /\ \A i \in 1 .. SizeOf(issue_ptr, commit_ptr) :
              /\ SlotAt(commit_ptr', i) = SlotAt(commit_ptr, i)
              /\ SlotAt(commit_ptr, i) \in Slots \ {NextSlot}
<1>1. ROB_Size \in Nat /\ ROB_Size > 2
  BY RobSizeAssumption
<1>2. CASE issue_ptr = -1 /\ commit_ptr = -1
  <2>1. issue_ptr' = 0 /\ commit_ptr' = 0 /\ NextSlot = 0
    BY <1>2 DEF NextSlot, is_empty
  <2>2. 0 \in Slots /\ 1 \in 1 .. ROB_Size
    BY <1>1 DEF Slots
  <2>3. SizeOf(issue_ptr', commit_ptr') = 1
    BY <2>1, <2>2, Sizes
  <2>4. SizeOf(issue_ptr, commit_ptr) = 0
    BY <1>2 DEF SizeOf
  <2>5. SlotAt(0, 1) = 0
    BY <2>2, <1>1, SlotsAt
  <2> QED
    BY <2>1, <2>2, <2>3, <2>4, <2>5 DEF RingOK, Pointers
<1>3. CASE issue_ptr \in Slots /\ commit_ptr \in Slots
  <2>1. commit_ptr' = commit_ptr /\ ~ is_empty
    BY <1>1, <1>3 DEF is_empty, Slots
  <2>2. SizeOf(issue_ptr, commit_ptr) < ROB_Size
    BY HasSize
  <2>3. SizeOf(issue_ptr, commit_ptr)
          = IF issue_ptr >= commit_ptr THEN issue_ptr - commit_ptr + 1
            ELSE issue_ptr - commit_ptr + 1 + ROB_Size
    BY <1>3, Sizes
  <2>4. NextSlot = IF issue_ptr = ROB_Size - 1 THEN 0 ELSE issue_ptr + 1
    BY <1>1, <1>3, <2>1, <2>2, <2>3 DEF NextSlot, Slots
  <2>5. NextSlot \in Slots /\ NextSlot # commit_ptr
    BY <1>1, <1>3, <2>2, <2>3, <2>4 DEF Slots
  <2>6. SizeOf(issue_ptr', commit_ptr')
          = IF NextSlot >= commit_ptr THEN NextSlot - commit_ptr + 1
            ELSE NextSlot - commit_ptr + 1 + ROB_Size
    BY <1>3, <2>1, <2>5, Sizes
  <2>7. SizeOf(issue_ptr', commit_ptr') = SizeOf(issue_ptr, commit_ptr) + 1
    BY <1>1, <1>3, <2>3, <2>4, <2>5, <2>6 DEF Slots
  <2>8. SizeOf(issue_ptr, commit_ptr) \in 1 .. ROB_Size - 1
    BY <1>1, <1>3, <2>2, <2>3 DEF Slots
  <2>9. SlotAt(commit_ptr', SizeOf(issue_ptr', commit_ptr')) = NextSlot
    BY <1>1, <1>3, <2>1, <2>4, <2>5, <2>6, <2>7, <2>8, SlotsAt DEF Slots
  <2>10. ASSUME NEW i \in 1 .. SizeOf(issue_ptr, commit_ptr)
         PROVE  SlotAt(commit_ptr, i) \in Slots \ {NextSlot}
    <3>1. i \in 1 .. ROB_Size /\ i < ROB_Size
      BY <1>1, <2>8
    <3>2. SlotAt(commit_ptr, i) = IF commit_ptr + i - 1 < ROB_Size
                                  THEN commit_ptr + i - 1
                                  ELSE commit_ptr + i - 1 - ROB_Size
      BY <1>3, <3>1, SlotsAt
    <3> QED
      BY <1>1, <1>3, <2>3, <2>4, <2>8, <3>1, <3>2 DEF Slots
  <2> QED
    BY <1>3, <2>1, <2>5, <2>7, <2>9, <2>10 DEF RingOK, Pointers
<1> QED
  BY <1>2, <1>3 DEF RingOK, Pointers

\* do_commit: what follows the oldest entry is what is left.
LEMMA CommitMoves ==
  ASSUME RingOK, ~ is_empty, do_commit
  PROVE  /\ commit_ptr \in Slots /\ RingOK'
         /\ SizeOf(issue_ptr, commit_ptr) \in 1 .. ROB_Size
         /\ SizeOf(issue_ptr', commit_ptr') = SizeOf(issue_ptr, commit_ptr) - 1
         /\ \A i \in 1 .. SizeOf(issue_ptr, commit_ptr) - 1 :
              /\ SlotAt(commit_ptr', i) = SlotAt(commit_ptr, i + 1)
              /\ SlotAt(commit_ptr, i + 1) \in Slots
<1>1. ROB_Size \in Nat /\ ROB_Size > 2
  BY RobSizeAssumption
<1>2. issue_ptr \in Slots /\ commit_ptr \in Slots
  BY DEF RingOK, Pointers, is_empty
<1>3. SizeOf(issue_ptr, commit_ptr)
        = IF issue_ptr >= commit_ptr THEN issue_ptr - commit_ptr + 1
          ELSE issue_ptr - commit_ptr + 1 + ROB_Size
  BY <1>2, Sizes
<1>4. SizeOf(issue_ptr, commit_ptr) \in 1 .. ROB_Size
  BY <1>1, <1>2, <1>3 DEF Slots
<1>5. CASE commit_ptr = issue_ptr
  <2>1. issue_ptr' = -1 /\ commit_ptr' = -1
    BY <1>5 DEF do_commit
  <2>2. SizeOf(issue_ptr', commit_ptr') = 0
    BY <2>1 DEF SizeOf
  <2>3. SizeOf(issue_ptr, commit_ptr) = 1
    BY <1>1, <1>2, <1>3, <1>5 DEF Slots
  <2>4. 1 .. SizeOf(issue_ptr, commit_ptr) - 1 = {}
    BY <2>3
  <2>5. SizeOf(issue_ptr', commit_ptr') = SizeOf(issue_ptr, commit_ptr) - 1
    BY <2>2, <2>3
  <2>6. RingOK'
    BY <2>1 DEF RingOK, Pointers
  <2> QED
    BY <1>2, <1>4, <2>4, <2>5, <2>6
<1>6. CASE commit_ptr # issue_ptr
  <2>1. issue_ptr' = issue_ptr /\ commit_ptr' = (commit_ptr + 1) % ROB_Size
    BY <1>6 DEF do_commit
  <2>2. commit_ptr + 1 \in -ROB_Size .. 2 * ROB_Size - 1
    BY <1>1, <1>2 DEF Slots
  <2>3. commit_ptr' = IF commit_ptr + 1 < ROB_Size THEN commit_ptr + 1
                      ELSE commit_ptr + 1 - ROB_Size
    BY <1>1, <1>2, <2>1, <2>2, OneTurn DEF Slots
  <2>4. commit_ptr' \in Slots
    BY <1>1, <1>2, <2>3 DEF Slots
  <2>5. SizeOf(issue_ptr', commit_ptr')
          = IF issue_ptr >= commit_ptr' THEN issue_ptr - commit_ptr' + 1
            ELSE issue_ptr - commit_ptr' + 1 + ROB_Size
    BY <1>2, <2>1, <2>4, Sizes
  <2>6. SizeOf(issue_ptr', commit_ptr') = SizeOf(issue_ptr, commit_ptr) - 1
    BY <1>1, <1>2, <1>3, <1>6, <2>3, <2>5 DEF Slots
  <2>7. ASSUME NEW i \in 1 .. SizeOf(issue_ptr, commit_ptr) - 1
        PROVE  /\ SlotAt(commit_ptr', i) = SlotAt(commit_ptr, i + 1)
               /\ SlotAt(commit_ptr, i + 1) \in Slots
    <3>1. i \in 1 .. ROB_Size /\ i + 1 \in 1 .. ROB_Size
      BY <1>1, <1>4
    <3>2. SlotAt(commit_ptr, i + 1) = IF commit_ptr + i < ROB_Size
                                      THEN commit_ptr + i
                                      ELSE commit_ptr + i - ROB_Size
      BY <1>1, <1>2, <3>1, SlotsAt DEF Slots
    <3>3. SlotAt(commit_ptr', i) = IF commit_ptr' + i - 1 < ROB_Size
                                   THEN commit_ptr' + i - 1
                                   ELSE commit_ptr' + i - 1 - ROB_Size
      BY <2>4, <3>1, SlotsAt
    <3> QED
      BY <1>1, <1>2, <2>3, <3>1, <3>2, <3>3 DEF Slots
  <2> QED
    BY <1>2, <1>4, <2>1, <2>4, <2>6, <2>7 DEF RingOK, Pointers
<1> QED
  BY <1>5, <1>6

-------------------------------------------------------------------------------
(***************************************************************************)
(* The invariant: the pointers, the entries, and the decode buffer, from   *)
(* which instructions enter the ring.                                      *)
(***************************************************************************)
IsEntry(e) == e = [ins |-> e.ins, status |-> e.status, deps |-> e.deps]

RobShape ==
  /\ rob = [k \in Slots |-> rob[k]]
  /\ \A k \in Slots : IsEntry(rob[k])

Fetched ==
  /\ program \in Programs /\ num_inst_fetched \in Nat
  /\ decode_buffer \in Seq([ins : 1 .. Len(program), wait : Nat])

CoreInv == RingOK /\ RobShape /\ Fetched

\* An entry that is in the queue is in a slot.
LEMMA InSlots ==
  ASSUME RingOK, NEW i \in 1 .. SizeOf(issue_ptr, commit_ptr)
  PROVE  SlotAt(commit_ptr, i) \in Slots
<1>1. ROB_Size \in Nat /\ ROB_Size > 2
  BY RobSizeAssumption
<1>2. SizeOf(issue_ptr, commit_ptr) \in 0 .. ROB_Size
  BY SizeRange DEF RingOK
<1>3. commit_ptr \in Slots
  BY <1>2 DEF RingOK, Pointers, SizeOf
<1>4. i \in 1 .. ROB_Size
  BY <1>1, <1>2
<1> QED
  BY <1>1, <1>3, <1>4, SlotsAt DEF Slots

\* A step that moves no pointer and no instruction leaves the queue alone.
LEMMA QueueKept ==
  ASSUME RingOK, UNCHANGED <<issue_ptr, commit_ptr>>,
         \A k \in Slots : rob'[k].ins = rob[k].ins
  PROVE  RingOK' /\ Queue' = Queue
<1>1. RingOK'
  BY DEF RingOK
<1>2. \A i \in 1 .. SizeOf(issue_ptr, commit_ptr) :
        rob'[SlotAt(commit_ptr, i)].ins = rob[SlotAt(commit_ptr, i)].ins
  BY InSlots
<1> QED
  BY <1>1, <1>2 DEF Queue

\* An issue appends the instruction to the queue.
LEMMA QueueEnter ==
  ASSUME RingOK, has_size, NEW ring, NEW entry, do_issue(ring, entry),
         ring = [k \in Slots |-> ring[k]],
         \A k \in Slots : ring[k].ins = rob[k].ins
  PROVE  /\ RingOK' /\ Len(Queue) < ROB_Size
         /\ Queue' = Append(Queue, entry.ins)
<1> DEFINE n == SizeOf(issue_ptr, commit_ptr)
<1>1. n \in Nat /\ n < ROB_Size /\ Len(Queue) = n
  BY SizeRange, HasSize, QueueIsSeq, RobSizeAssumption DEF RingOK
<1>2. /\ NextSlot \in Slots /\ RingOK'
      /\ SizeOf(issue_ptr', commit_ptr') = n + 1
      /\ SlotAt(commit_ptr', n + 1) = NextSlot
      /\ \A i \in 1 .. n : /\ SlotAt(commit_ptr', i) = SlotAt(commit_ptr, i)
                          /\ SlotAt(commit_ptr, i) \in Slots \ {NextSlot}
  BY IssueMoves DEF do_issue
<1>3. rob' = [ring EXCEPT ![NextSlot] = entry]
  BY DEF do_issue
<1>4. rob'[NextSlot] = entry
  BY <1>2, <1>3
<1>5. \A k \in Slots \ {NextSlot} : rob'[k].ins = rob[k].ins
  BY <1>3
<1>6. Queue' = [i \in 1 .. n + 1 |-> rob'[SlotAt(commit_ptr', i)].ins]
  BY <1>2 DEF Queue
<1>7. \A i \in 1 .. n : rob'[SlotAt(commit_ptr', i)].ins
                         = rob[SlotAt(commit_ptr, i)].ins
  BY <1>2, <1>5
<1>8. Queue = [i \in 1 .. n |-> rob[SlotAt(commit_ptr, i)].ins]
  BY DEF Queue
<1> HIDE DEF n
<1>9. Append(Queue, entry.ins)
        = [i \in 1 .. n + 1 |-> IF i \in 1 .. n
                                THEN rob[SlotAt(commit_ptr, i)].ins ELSE entry.ins]
  BY <1>1, <1>8
<1>10. \A i \in 1 .. n + 1 : rob'[SlotAt(commit_ptr', i)].ins
         = IF i \in 1 .. n THEN rob[SlotAt(commit_ptr, i)].ins ELSE entry.ins
  BY <1>1, <1>2, <1>4, <1>7
<1> QED
  BY <1>1, <1>2, <1>6, <1>9, <1>10

\* A commit takes the head of the queue.
LEMMA QueueLeave ==
  ASSUME RingOK, ~ is_empty, do_commit,
         \A k \in Slots : rob'[k].ins = rob[k].ins
  PROVE  RingOK' /\ Queue # <<>> /\ Queue' = Tail(Queue)
<1> DEFINE n == SizeOf(issue_ptr, commit_ptr)
<1>1. /\ n \in 1 .. ROB_Size /\ RingOK'
      /\ SizeOf(issue_ptr', commit_ptr') = n - 1
      /\ \A i \in 1 .. n - 1 :
           /\ SlotAt(commit_ptr', i) = SlotAt(commit_ptr, i + 1)
           /\ SlotAt(commit_ptr, i + 1) \in Slots
  BY CommitMoves
<1>2. Len(Queue) = n
  BY QueueIsSeq
<1>3. Queue = [i \in 1 .. n |-> rob[SlotAt(commit_ptr, i)].ins]
  BY DEF Queue
<1>4. Queue' = [i \in 1 .. n - 1 |-> rob'[SlotAt(commit_ptr', i)].ins]
  BY <1>1 DEF Queue
<1> HIDE DEF n
<1>5. n \in Nat \ {0}
  BY <1>1, RobSizeAssumption
<1>6. \A i \in 1 .. n - 1 : rob'[SlotAt(commit_ptr', i)].ins
                             = rob[SlotAt(commit_ptr, i + 1)].ins
  BY <1>1
<1>7. Tail(Queue) = [i \in 1 .. n - 1 |-> Queue[i + 1]]
  BY <1>2, <1>3, <1>5
<1>8. \A i \in 1 .. n - 1 : Queue[i + 1] = rob[SlotAt(commit_ptr, i + 1)].ins
  BY <1>3, <1>5
<1>9. Queue # <<>>
  BY <1>2, <1>5
<1> QED
  BY <1>1, <1>4, <1>6, <1>7, <1>8, <1>9

-------------------------------------------------------------------------------
(***************************************************************************)
(* The steps.                                                              *)
(***************************************************************************)
\* What a step may do to the queue.
QueueStep ==
  \/ Queue' = Queue
  \/ /\ Len(Queue) < ROB_Size
     /\ \E e \in 1 .. Len(program) : Queue' = Append(Queue, e)
  \/ Queue # <<>> /\ Queue' = Tail(Queue)

Decoding == [ins : 1 .. Len(program), wait : Nat]

\* An older decode buffer is a decode buffer.
LEMMA CycleOfBuffer ==
  ASSUME decode_buffer \in Seq(Decoding)
  PROVE  OneCycle(decode_buffer) \in Seq(Decoding)
<1> DEFINE aged_buffer == OneCycle(decode_buffer)
<1>1. /\ Len(decode_buffer) \in Nat
      /\ DOMAIN decode_buffer = 1 .. Len(decode_buffer)
      /\ \A i \in 1 .. Len(decode_buffer) : decode_buffer[i] \in Decoding
  OBVIOUS
<1>2. ASSUME NEW e \in Decoding
      PROVE  [e EXCEPT !.wait = IF @ > 0 THEN @ - 1 ELSE 0] \in Decoding
  <2> DEFINE wait == IF e.wait > 0 THEN e.wait - 1 ELSE 0
  <2>1. wait \in Nat /\ e.ins \in 1 .. Len(program)
    BY DEF Decoding
  <2>2. [e EXCEPT !.wait = wait] = [ins |-> e.ins, wait |-> wait]
    BY DEF Decoding
  <2> QED
    BY <2>1, <2>2 DEF Decoding
<1>3. aged_buffer \in [1 .. Len(decode_buffer) -> Decoding]
  BY <1>1, <1>2 DEF OneCycle
<1> QED
  BY <1>1, <1>3

\* A step that leaves the ring alone.
LEMMA Unmoved ==
  ASSUME CoreInv, UNCHANGED <<robVars, program>>, num_inst_fetched' \in Nat,
         decode_buffer' \in Seq(Decoding)
  PROVE  CoreInv' /\ QueueStep
<1>1. UNCHANGED <<issue_ptr, commit_ptr, rob, program>>
  BY DEF robVars
<1>2. RingOK' /\ Queue' = Queue
  BY <1>1, QueueKept DEF CoreInv
<1>3. RobShape'
  BY <1>1 DEF CoreInv, RobShape, IsEntry
<1>4. Fetched'
  BY <1>1 DEF CoreInv, Fetched, Decoding
<1> QED
  BY <1>2, <1>3, <1>4 DEF CoreInv, QueueStep

\* A step that writes the status or the dependents of an entry.
LEMMA Marked ==
  ASSUME CoreInv, UNCHANGED <<issue_ptr, commit_ptr, frontVars>>,
         RobShape', \A k \in Slots : rob'[k].ins = rob[k].ins
  PROVE  CoreInv' /\ QueueStep
<1>1. RingOK' /\ Queue' = Queue
  BY QueueKept DEF CoreInv
<1>2. Fetched'
  BY DEF CoreInv, Fetched, frontVars
<1> QED
  BY <1>1, <1>2 DEF CoreInv, QueueStep

\* An update of a status leaves the instructions of the slots alone.
LEMMA StatusWritten ==
  ASSUME RobShape, NEW k, NEW status, rob' = [rob EXCEPT ![k].status = status]
  PROVE  RobShape' /\ \A j \in Slots : rob'[j].ins = rob[j].ins
<1>1. rob' = [j \in Slots |-> IF j = k THEN [rob[j] EXCEPT !.status = status]
                              ELSE rob[j]]
  BY DEF RobShape
<1>2. ASSUME NEW j \in Slots
      PROVE  IsEntry(rob'[j]) /\ rob'[j].ins = rob[j].ins
  <2>1. IsEntry(rob[j])
    BY DEF RobShape
  <2> QED
    BY <1>1, <2>1 DEF IsEntry
<1> QED
  BY <1>1, <1>2 DEF RobShape

\* So does an update of the dependents.
LEMMA DependentsWritten ==
  ASSUME RobShape, NEW k, NEW status, NEW deps,
         rob' = [rob EXCEPT ![k].status = status, ![k].deps = deps]
  PROVE  RobShape' /\ \A j \in Slots : rob'[j].ins = rob[j].ins
<1>1. rob' = [j \in Slots |->
                IF j = k THEN [[rob[j] EXCEPT !.status = status] EXCEPT !.deps = deps]
                ELSE rob[j]]
  BY DEF RobShape
<1>2. ASSUME NEW j \in Slots
      PROVE  IsEntry(rob'[j]) /\ rob'[j].ins = rob[j].ins
  <2>1. IsEntry(rob[j])
    BY DEF RobShape
  <2> QED
    BY <1>1, <2>1 DEF IsEntry
<1> QED
  BY <1>1, <1>2 DEF RobShape

\* issue_instruction: the instruction at the head of the decode buffer enters.
LEMMA IssueStep ==
  ASSUME CoreInv, Issue
  PROVE  CoreInv' /\ QueueStep
<1> DEFINE n  == Head(decode_buffer).ins
           s  == Min(FreeStations)
           st == NewStation(n)
           ring == WithDependencies(st, s)
           entry == [ins |-> n, status |-> Issued, deps |-> <<>>]
<1>1. /\ has_size /\ decode_buffer # <<>>
      /\ do_issue(ring, entry)
      /\ decode_buffer' = Tail(decode_buffer)
      /\ UNCHANGED <<program, num_inst_fetched>>
  BY DEF Issue, CanIssue
<1>2. decode_buffer \in Seq(Decoding)
  BY DEF CoreInv, Fetched, Decoding
<1>3. n \in 1 .. Len(program) /\ Tail(decode_buffer) \in Seq(Decoding)
  <2>1. Head(decode_buffer) \in Decoding /\ Tail(decode_buffer) \in Seq(Decoding)
    BY <1>1, <1>2
  <2> QED
    BY <2>1 DEF Decoding
<1>5. /\ ring = [k \in Slots |-> ring[k]]
      /\ \A k \in Slots : ring[k].ins = rob[k].ins /\ IsEntry(ring[k])
  <2>1. ring = [k \in Slots |-> [rob[k] EXCEPT !.deps = @ \o
          [i \in 1 .. Cardinality({r \in Regs : st.reg[r] = k}) |-> s]]]
    BY DEF WithDependencies
  <2>2. \A k \in Slots : IsEntry(rob[k])
    BY DEF CoreInv, RobShape
  <2>3. ASSUME NEW k \in Slots
        PROVE  ring[k].ins = rob[k].ins /\ IsEntry(ring[k])
    <3> DEFINE m == Cardinality({r \in Regs : st.reg[r] = k})
    <3>1. ring[k] = [rob[k] EXCEPT !.deps = @ \o [i \in 1 .. m |-> s]]
      BY <2>1
    <3> HIDE DEF m
    <3> QED
      BY <2>2, <3>1 DEF IsEntry
  <2> QED
    BY <2>1, <2>3
<1> HIDE DEF n, s, st, ring
<1>6. entry.ins = n /\ IsEntry(entry)
  BY DEF IsEntry
<1> HIDE DEF entry
<1>7. RingOK' /\ Len(Queue) < ROB_Size /\ Queue' = Append(Queue, n)
  BY <1>1, <1>5, <1>6, QueueEnter DEF CoreInv
<1>8. RobShape'
  <2>1. rob' = [ring EXCEPT ![NextSlot] = entry]
    BY <1>1 DEF do_issue
  <2>2. rob' = [k \in Slots |-> IF k = NextSlot THEN entry ELSE ring[k]]
    BY <1>5, <2>1
  <2> QED
    BY <1>5, <1>6, <2>2 DEF RobShape
<1>9. Fetched'
  BY <1>1, <1>3 DEF CoreInv, Fetched, Decoding
<1> QED
  BY <1>3, <1>7, <1>8, <1>9 DEF CoreInv, QueueStep

\* commit: the oldest instruction leaves.
LEMMA CommitStep ==
  ASSUME CoreInv, Commit
  PROVE  CoreInv' /\ QueueStep
<1>1. /\ ~ is_empty /\ do_commit
      /\ rob' = [rob EXCEPT ![commit_ptr].status = Committed]
      /\ UNCHANGED frontVars
  BY DEF Commit, CanCommit
<1>2. RobShape' /\ \A j \in Slots : rob'[j].ins = rob[j].ins
  BY <1>1, StatusWritten DEF CoreInv
<1>3. RingOK' /\ Queue # <<>> /\ Queue' = Tail(Queue)
  BY <1>1, <1>2, QueueLeave DEF CoreInv
<1>4. Fetched'
  BY <1>1 DEF CoreInv, Fetched, frontVars
<1> QED
  BY <1>2, <1>3, <1>4 DEF CoreInv, QueueStep

\* Every step of the core.
LEMMA CoreStep ==
  ASSUME CoreInv, [Next]_vars
  PROVE  CoreInv' /\ QueueStep
<1>1. /\ num_inst_fetched \in Nat /\ program \in Programs
      /\ decode_buffer \in Seq(Decoding)
  BY DEF CoreInv, Fetched, Decoding
<1>2. CASE UNCHANGED <<robVars, frontVars>>
  BY <1>1, <1>2, Unmoved DEF frontVars
<1>3. CASE Stalled
  BY <1>1, <1>3, Unmoved, CycleOfBuffer DEF Stalled
<1>4. CASE Age
  BY <1>1, <1>4, Unmoved, CycleOfBuffer DEF Age
<1>5. CASE Decode
  <2>1. UNCHANGED <<robVars, program>> /\ num_inst_fetched' = num_inst_fetched + 1
    BY <1>5 DEF Decode
  <2>2. Len(program) \in Nat /\ decode_latency \in Nat
    BY <1>1, CoreAssumption
  <2>3. [ins |-> num_inst_fetched + 1, wait |-> decode_latency] \in Decoding
    BY <1>1, <1>5, <2>2 DEF Decode, Decoding
  <2>4. decode_buffer' \in Seq(Decoding)
    BY <1>1, <1>5, <2>3 DEF Decode
  <2> QED
    BY <1>1, <2>1, <2>4, Unmoved
<1>6. CASE Issue
  BY <1>6, IssueStep
<1>7. CASE Commit
  BY <1>7, CommitStep
<1>8. ASSUME NEW t \in Types, Dispatch(t)
      PROVE  CoreInv' /\ QueueStep
  <2>1. UNCHANGED <<issue_ptr, commit_ptr, frontVars>>
    BY <1>8 DEF Dispatch
  <2>2. CASE t = AGU
    BY <1>1, <1>8, <2>1, <2>2, Unmoved DEF Dispatch, robVars, frontVars
  <2>3. CASE t # AGU
    <3>1. PICK k : rob' = [rob EXCEPT ![k].status = Dispatched]
      BY <1>8, <2>3 DEF Dispatch
    <3> QED
      BY <2>1, <3>1, StatusWritten, Marked DEF CoreInv
  <2> QED
    BY <2>2, <2>3
<1>9. CASE Broadcast
  <2> DEFINE k == Head(completed_inst)
  <2>1. UNCHANGED <<issue_ptr, commit_ptr, frontVars>>
    BY <1>9 DEF Broadcast
  <2>2. CASE rob[k].deps = <<>>
    <3>1. rob' = [rob EXCEPT ![k].status = Executed]
      BY <1>9, <2>2 DEF Broadcast
    <3> QED
      BY <2>1, <3>1, StatusWritten, Marked DEF CoreInv
  <2>3. CASE rob[k].deps # <<>>
    <3>1. rob' = [rob EXCEPT ![k].status = Executed, ![k].deps = Tail(@)]
      BY <1>9, <2>3 DEF Broadcast
    <3>2. PICK deps : rob' = [rob EXCEPT ![k].status = Executed, ![k].deps = deps]
      BY <3>1
    <3> QED
      BY <2>1, <3>2, DependentsWritten, Marked DEF CoreInv
  <2> QED
    BY <2>2, <2>3
<1>10. \/ UNCHANGED <<robVars, frontVars>>
       \/ Stalled \/ Age \/ Decode \/ Issue \/ Commit \/ Broadcast
       \/ \E t \in Types : Dispatch(t)
  BY DEF Next, Core, Answer, vars, Begin, EndDecode, EndIssue, DispatchStalls,
         DispatchNothing, Complete, CompleteNothing, CompleteAGU, EndBroadcast,
         EndCommit, EndCompletion, MemoryAnswers, Pending, EndPending
<1> QED
  BY <1>2, <1>3, <1>4, <1>5, <1>6, <1>7, <1>8, <1>9, <1>10

\* Before the first instruction the ring is empty.
LEMMA CoreInit ==
  ASSUME Init
  PROVE  CoreInv /\ Queue = <<>>
<1>1. RingOK
  BY DEF Init, RobInit, RingOK, Pointers
<1>2. RobShape
  BY DEF Init, RobInit, RobShape, EmptyEntry, IsEntry
<1>3. Fetched
  BY DEF Init, Fetched
<1>4. SizeOf(issue_ptr, commit_ptr) = 0
  BY DEF Init, RobInit, SizeOf
<1>5. Queue = <<>>
  BY <1>4 DEF Queue
<1> QED
  BY <1>1, <1>2, <1>3, <1>5 DEF CoreInv

\* The reorder buffer with its two pointers (circular_queue) is a bounded queue of
\* ROB_Size instructions, for every ROB_Size above two, every program and
\* whatever the caches and the fetch do: none is overwritten, skipped or committed
\* twice.
THEOREM RingIsQueue == Spec => RobIsFifo
<1>1. Init => CoreInv /\ Fifo!Init
  BY CoreInit, QueueIsMapping DEF Fifo!Init
<1> DEFINE queue == [i \in DOMAIN Contents |-> Contents[i].ins]
<1>2. CoreInv /\ [Next]_vars => CoreInv' /\ [Fifo!Next]_queue
  <2> SUFFICES ASSUME CoreInv, [Next]_vars
               PROVE  CoreInv' /\ [Fifo!Next]_queue
    OBVIOUS
  <2>1. CoreInv' /\ QueueStep
    BY CoreStep
  <2>2. queue = Queue
    BY QueueIsMapping
  <2>3. queue' = Queue'
    <3>1. Size' = SizeOf(issue_ptr', commit_ptr')
      BY DEF Size, SizeOf, is_empty
    <3>2. \A i \in 1 .. Size' : Contents'[i].ins = rob'[SlotAt(commit_ptr', i)].ins
      BY DEF Contents, SlotAt
    <3>3. DOMAIN Contents' = 1 .. Size'
      BY DEF Contents
    <3> QED
      BY <3>1, <3>2, <3>3 DEF Queue
  <2>4. \A e \in 1 .. Len(program) : e \in UNION {1 .. Len(p) : p \in Programs}
    BY DEF CoreInv, Fetched
  <2> QED
    BY <2>1, <2>2, <2>3, <2>4 DEF QueueStep, Fifo!Next, Fifo!Enter, Fifo!Leave
<1> QED
  BY <1>1, <1>2, PTL DEF Spec, RobIsFifo, Fifo!Spec

-------------------------------------------------------------------------------
(***************************************************************************)
(* The types.                                                              *)
(***************************************************************************)
\* What an operand may name: an address, or none.
Addresses == Addrs \union {NoAddr}

\* INST_DS in a station: the slot it renames to, what it waits for, its type.
StationRecords ==
  [valid : BOOLEAN, rob : Slots, ins : Nat, reg : [Regs -> Slots \union {-1, -2}],
   addr : [1 .. 2 -> Addresses], mem : [1 .. 2 -> {Answered, Unborn, Asked}],
   mispredicted : BOOLEAN, type : Types \ {AGU}]

\* An instruction in a unit, and the cycles it still takes.
UnitRecords == [station : Stations, rob : Slots, cycles : Nat]

\* load_store_queue and pending_load_store: who waits, for which address.
LoadRecords ==
  [id : Nat, station : Stations \union {-1}, addr : Addresses, store : BOOLEAN]

\* An entry of the reorder buffer; an empty one is of instruction 0.
EntryRecords ==
  [ins : 0 .. Len(program), status : -1 .. Committed, deps : Seq(Stations)]

\* Every station has its record, valid or not.
StationsTyped == reservation_station \in [Stations -> StationRecords]

\* A type whose head has been passed over has a head.
ReadyTyped ==
  /\ ready_queue \in [Types -> Seq(Stations)] /\ aged \in [Types -> BOOLEAN]
  /\ \A t \in Types : aged[t] => ready_queue[t] # <<>>

\* No type has more instructions in execution than it has units.
UnitsTyped ==
  /\ execution_unit \in [Types -> Seq(UnitRecords)]
  /\ \A t \in Types : Len(execution_unit[t]) <= num_exec_units
  /\ completed_inst \in Seq(Slots)

\* The ids given so far.
LoadsTyped ==
  /\ load_store_queue \in Seq(LoadRecords)
  /\ pending_load_store \in Seq(LoadRecords)
  /\ Len(load_store_queue) <= LSQ_Size
  /\ ld_str_id \in Nat
  /\ \A i \in DOMAIN pending_load_store : pending_load_store[i].id < ld_str_id
  /\ \A id \in sent : id \in Nat /\ id < ld_str_id
  /\ num_ld_str_inCycle \in 0 .. ld_str_width + 1

\* No more is fetched than the program has, nor decoded than the buffer takes.
FrontTyped ==
  /\ num_inst_fetched <= Len(program)
  /\ Len(decode_buffer) <= decode_buffer_size
  /\ penalty \in 0 .. branch_penalty

\* An entry for every slot; a register is renamed to a slot or to none.
RobTyped ==
  /\ rob \in [Slots -> EntryRecords]
  /\ reg_alias_table \in [Regs -> Slots \union {-1}]

\* How many instructions have been issued.
IssuedSoFar == num_inst_fetched - Len(decode_buffer)

\* What has been committed and what is in the ring is what has been issued; an address
\* that waits for its turn has no id yet, and each instruction asks for three at most.
Counted ==
  /\ num_inst_commited \in Nat
  /\ num_inst_commited + SizeOf(issue_ptr, commit_ptr) = IssuedSoFar
  /\ ld_str_id + (Len(ready_queue[AGU]) + Len(execution_unit[AGU]))
       <= 2 * IssuedSoFar + num_inst_commited

\* What is in the ring is of the program.
QueueTyped == Queue \in Seq(1 .. Len(program))

\* The inductive invariant of the types.
Typed ==
  /\ CoreInv /\ QueueTyped /\ StationsTyped /\ ReadyTyped /\ UnitsTyped /\ LoadsTyped
  /\ FrontTyped /\ RobTyped /\ Counted

\* The sizes of the assumptions, one by one.
LEMMA Sizing ==
  /\ RS_Size \in Nat \ {0} /\ LSQ_Size \in Nat \ {0}
  /\ decode_buffer_size \in Nat \ {0} /\ num_exec_units \in Nat \ {0}
  /\ ld_str_width \in Nat \ {0} /\ num_ins_types \in Nat \ {0, 1}
  /\ decode_latency \in Nat /\ branch_penalty \in Nat
  /\ AGU \in Types /\ 0 \in Types \ {AGU} /\ 0 \in Slots /\ 0 \in Stations
BY CoreAssumption, RobSizeAssumption DEF AGU, Types, Slots, Stations

\* An instruction of the program.
LEMMA Instruction ==
  ASSUME Fetched, NEW n \in 1 .. Len(program)
  PROVE  /\ program[n] \in Instructions
         /\ program[n].rr \subseteq Regs /\ program[n].wr \subseteq Regs
         /\ program[n].opr \in [1 .. 2 -> Addresses]
         /\ program[n].write \in Addresses
         /\ program[n].type \in Types \ {AGU}
         /\ program[n].mispredicted \in BOOLEAN
<1>1. program \in Seq(Instructions)
  BY CoreAssumption DEF Fetched
<1>2. program[n] \in Instructions
  BY <1>1
<1> QED
  BY <1>2 DEF Instructions, Addresses

\* It holds at the start.
LEMMA TypedInit ==
  ASSUME Init
  PROVE  Typed
<1>1. CoreInv
  BY CoreInit
<1>2. StationsTyped
  <2>1. EmptyStation \in StationRecords
    BY Sizing DEF EmptyStation, StationRecords, Addresses
  <2> QED
    BY <2>1 DEF Init, StationsTyped
<1>3. ReadyTyped
  BY DEF Init, ReadyTyped
<1>4. UnitsTyped
  BY Sizing DEF Init, UnitsTyped
<1>5. LoadsTyped
  BY Sizing DEF Init, LoadsTyped
<1>6. FrontTyped
  <2>1. program \in Seq(Instructions)
    BY CoreAssumption DEF Init
  <2>2. Len(program) \in Nat
    BY <2>1
  <2> QED
    BY <2>2, Sizing DEF Init, FrontTyped
<1>7. RobTyped
  <2>1. program \in Seq(Instructions)
    BY CoreAssumption DEF Init
  <2>2. Len(program) \in Nat
    BY <2>1
  <2>3. EmptyEntry \in EntryRecords
    BY <2>2 DEF EmptyEntry, EntryRecords, Committed
  <2> QED
    BY <2>3 DEF Init, RobInit, RobTyped
<1>8. Counted
  BY Sizing DEF Init, RobInit, Counted, IssuedSoFar, SizeOf
<1>9. QueueTyped
  BY CoreInit DEF QueueTyped
<1> QED
  BY <1>1, <1>2, <1>3, <1>4, <1>5, <1>6, <1>7, <1>8, <1>9 DEF Typed

(***************************************************************************)
(* Updates of a station.                                                   *)
(***************************************************************************)
LEMMA StationFields ==
  ASSUME NEW st \in StationRecords
  PROVE  /\ st.valid \in BOOLEAN /\ st.rob \in Slots /\ st.ins \in Nat
         /\ st.reg \in [Regs -> Slots \union {-1, -2}]
         /\ st.addr \in [1 .. 2 -> Addresses]
         /\ st.mem \in [1 .. 2 -> {Answered, Unborn, Asked}]
         /\ st.mispredicted \in BOOLEAN /\ st.type \in Types \ {AGU}
BY DEF StationRecords

\* A station with other operands is a station.
LEMMA StationMem ==
  ASSUME NEW st \in StationRecords, NEW m \in [1 .. 2 -> {Answered, Unborn, Asked}]
  PROVE  [st EXCEPT !.mem = m] \in StationRecords
BY DEF StationRecords

\* So it is with other registers to wait for.
LEMMA StationReg ==
  ASSUME NEW st \in StationRecords, NEW m \in [Regs -> Slots \union {-1, -2}]
  PROVE  [st EXCEPT !.reg = m] \in StationRecords
BY DEF StationRecords

\* An answer marks the operands of that address, and nothing else.
LEMMA StationAnswered ==
  ASSUME NEW st \in StationRecords, NEW addr
  PROVE  /\ AnswerOperands(st, addr) \in StationRecords
         /\ AnswerOperands(st, addr).mem
              = [i \in 1 .. 2 |-> IF st.addr[i] = addr THEN Answered ELSE st.mem[i]]
         /\ AnswerOperands(st, addr)
              = [st EXCEPT !.mem = AnswerOperands(st, addr).mem]
<1> DEFINE m == [i \in 1 .. 2 |-> IF st.addr[i] = addr THEN Answered ELSE st.mem[i]]
<1>1. AnswerOperands(st, addr) = [st EXCEPT !.mem = m]
  BY DEF AnswerOperands
<1>2. m \in [1 .. 2 -> {Answered, Unborn, Asked}]
  BY StationFields
<1> HIDE DEF m
<1>3. [st EXCEPT !.mem = m] \in StationRecords /\ [st EXCEPT !.mem = m].mem = m
  BY <1>2 DEF StationRecords
<1>4. AnswerOperands(st, addr).mem = m
  BY <1>1, <1>3
<1>5. AnswerOperands(st, addr) \in StationRecords
  BY <1>1, <1>3
<1>6. AnswerOperands(st, addr) = [st EXCEPT !.mem = AnswerOperands(st, addr).mem]
  BY <1>1, <1>4
<1> QED
  BY <1>4, <1>5, <1>6 DEF m

\* The other stations stay as they are.
LEMMA StationWritten ==
  ASSUME StationsTyped, NEW s \in Stations, NEW e \in StationRecords
  PROVE  /\ [reservation_station EXCEPT ![s] = e] \in [Stations -> StationRecords]
         /\ [reservation_station EXCEPT ![s] = e][s] = e
         /\ \A x \in Stations \ {s} :
              [reservation_station EXCEPT ![s] = e][x] = reservation_station[x]
BY DEF StationsTyped

(***************************************************************************)
(* A station that is put into a ready queue.                               *)
(***************************************************************************)
ReadyQueues == [Types -> Seq(Stations)]
\* Stations, as a function of their numbers.
AllStations == [Stations -> StationRecords]

\* Nothing is taken out, and the queue of the AGU stays.
Grown(old, new) ==
  /\ new \in ReadyQueues
  /\ \A t \in Types : old[t] # <<>> => new[t] # <<>>
  /\ Len(new[AGU]) = Len(old[AGU]) /\ new[AGU] = old[AGU]

\* What has nothing to wait for is pushed: the queues grow at most.
LEMMA ReadyPushed ==
  ASSUME NEW ready \in ReadyQueues, NEW stations \in AllStations, NEW s \in Stations
  PROVE  Grown(ready, PushIfCleared(ready, stations, s))
<1> DEFINE t == stations[s].type
<1>1. t \in Types \ {AGU} /\ ready[t] \in Seq(Stations)
  BY StationFields DEF AllStations, ReadyQueues
<1>2. CASE ~ Cleared(stations[s])
  <2>1. PushIfCleared(ready, stations, s) = ready
    BY <1>2 DEF PushIfCleared
  <2> QED
    BY <2>1 DEF Grown
<1>3. CASE Cleared(stations[s])
  <2>1. PushIfCleared(ready, stations, s) = [ready EXCEPT ![t] = Append(ready[t], s)]
    BY <1>3 DEF PushIfCleared
  <2>2. Append(ready[t], s) \in Seq(Stations) /\ Append(ready[t], s) # <<>>
    <3> HIDE DEF t
    <3>1. Append(ready[t], s) \in Seq(Stations) /\ Len(Append(ready[t], s)) = Len(ready[t]) + 1
      BY <1>1
    <3>2. Len(ready[t]) \in Nat
      BY <1>1
    <3>3. Len(<<>>) = 0
      OBVIOUS
    <3> QED
      BY <3>1, <3>2, <3>3
  <2> HIDE DEF t
  <2> QED
    BY <1>1, <2>1, <2>2 DEF Grown, ReadyQueues
<1> QED
  BY <1>2, <1>3

\* Queues that grow keep their heads, and the mark of one passed over with it.
LEMMA Aging ==
  ASSUME ReadyTyped, Grown(ready_queue, ready_queue'), UNCHANGED aged
  PROVE  ReadyTyped' /\ Len(ready_queue'[AGU]) = Len(ready_queue[AGU])
BY DEF ReadyTyped, Grown, ReadyQueues

\* The free station an issue takes is free.
LEMMA FirstFree ==
  ASSUME FreeStations # {}
  PROVE  Min(FreeStations) \in Stations /\ ~ reservation_station[Min(FreeStations)].valid
<1>1. FreeStations \in SUBSET Nat
  BY DEF FreeStations, Stations
<1>2. Min(FreeStations) \in FreeStations
  BY <1>1, FirstOf
<1> QED
  BY <1>2 DEF FreeStations

\* Two operands are too few to be infinitely many.
LEMMA FewOperands ==
  ASSUME NEW S \in SUBSET (1 .. 2)
  PROVE  IsFiniteSet(S) /\ Cardinality(S) \in 0 .. 2
<1>1. IsFiniteSet(1 .. 2) /\ Cardinality(1 .. 2) = 2
  <2>1. \A b \in Nat : IsFiniteSet(1 .. b) /\ Cardinality(1 .. b) = b
    BY FS_Interval
  <2>2. 2 \in Nat
    OBVIOUS
  <2> QED
    BY <2>1, <2>2, Zenon
<1>2. IsFiniteSet(S) /\ Cardinality(S) <= 2
  BY <1>1, FS_Subset
<1>3. Cardinality(S) \in Nat
  BY <1>2, FS_CardinalityType
<1> QED
  BY <1>2, <1>3

\* Registers can be counted.
LEMMA FewRegisters ==
  ASSUME NEW S \in SUBSET Regs
  PROVE  IsFiniteSet(S) /\ Cardinality(S) \in Nat
BY CoreAssumption, FS_Subset, FS_CardinalityType

\* What the steps must keep; the ring, the entries and the decode buffer are CoreInv.
Kept ==
  /\ StationsTyped /\ ReadyTyped /\ UnitsTyped /\ LoadsTyped
  /\ FrontTyped /\ RobTyped /\ Counted

\* The facts of the ring that the steps use.
LEMMA Rings ==
  ASSUME Typed
  PROVE  /\ RingOK /\ SizeOf(issue_ptr, commit_ptr) \in 0 .. ROB_Size
         /\ ROB_Size \in Nat /\ num_inst_fetched \in Nat
         /\ decode_buffer \in Seq(Decoding)
         /\ Len(decode_buffer) \in Nat /\ Len(program) \in Nat
         /\ Len(ready_queue[AGU]) \in Nat /\ Len(execution_unit[AGU]) \in Nat
<1>1. RingOK /\ ROB_Size \in Nat /\ SizeOf(issue_ptr, commit_ptr) \in 0 .. ROB_Size
  BY SizeRange, RobSizeAssumption DEF Typed, CoreInv, RingOK
<1>2. decode_buffer \in Seq(Decoding) /\ num_inst_fetched \in Nat
  BY DEF Typed, CoreInv, Fetched, Decoding
<1>3. program \in Seq(Instructions)
  BY CoreAssumption DEF Typed, CoreInv, Fetched
<1>4. ready_queue[AGU] \in Seq(Stations) /\ execution_unit[AGU] \in Seq(UnitRecords)
  BY Sizing DEF Typed, ReadyTyped, UnitsTyped
<1>5. Len(decode_buffer) \in Nat
  BY <1>2
<1>6. Len(program) \in Nat
  BY <1>3
<1>7. Len(ready_queue[AGU]) \in Nat /\ Len(execution_unit[AGU]) \in Nat
  BY <1>4
<1> QED
  BY <1>1, <1>2, <1>5, <1>6, <1>7

\* Loads that have not their id yet.
Unasked == Len(ready_queue[AGU]) + Len(execution_unit[AGU])

\* The counters are numbers.
LEMMA Numbers ==
  ASSUME Typed
  PROVE  /\ num_inst_commited \in Nat /\ IssuedSoFar \in Int /\ ld_str_id \in Nat
         /\ Unasked \in Nat
         /\ num_inst_commited + SizeOf(issue_ptr, commit_ptr) = IssuedSoFar
         /\ ld_str_id + Unasked <= 2 * IssuedSoFar + num_inst_commited
<1>1. num_inst_commited \in Nat /\ ld_str_id \in Nat
  BY DEF Typed, Counted, LoadsTyped
<1>2. IssuedSoFar \in Int
  <2>1. num_inst_fetched \in Nat /\ Len(decode_buffer) \in Nat
    BY Rings
  <2> QED
    BY <2>1 DEF IssuedSoFar
<1>3. Unasked \in Nat
  <2> DEFINE a == Len(ready_queue[AGU])
             b == Len(execution_unit[AGU])
  <2>1. a \in Nat /\ b \in Nat
    BY Rings
  <2> HIDE DEF a, b
  <2>2. a + b \in Nat
    BY <2>1
  <2> QED
    BY <2>2 DEF Unasked, a, b
<1> QED
  BY <1>1, <1>2, <1>3 DEF Typed, Counted, Unasked

\* decode: the decoded instructions wait one cycle less, or one more is fetched.
LEMMA DecodeTypes ==
  ASSUME Typed, Decode
  PROVE  Kept'
<1>1. /\ UNCHANGED <<robVars, stationVars, memVars, program, reg_alias_table,
                     execution_unit, completed_inst, num_inst_commited, penalty>>
      /\ num_inst_fetched < Len(program) /\ Len(decode_buffer) < decode_buffer_size
      /\ num_inst_fetched' = num_inst_fetched + 1
  BY DEF Decode
<1>2. Len(decode_buffer') = Len(decode_buffer) + 1
  BY Rings DEF Decode
<1>3. IssuedSoFar' = IssuedSoFar
  BY <1>1, <1>2, Rings DEF IssuedSoFar
<1>4. FrontTyped'
  BY <1>1, <1>2, Rings, Sizing DEF FrontTyped, Typed
<1>5. Counted'
  BY <1>1, <1>3 DEF Counted, Typed, stationVars, memVars, robVars
<1>6. StationsTyped' /\ ReadyTyped' /\ UnitsTyped' /\ LoadsTyped' /\ RobTyped'
  BY <1>1 DEF Typed, StationsTyped, ReadyTyped, UnitsTyped, LoadsTyped, RobTyped,
              EntryRecords, stationVars, memVars, robVars
<1> QED
  BY <1>4, <1>5, <1>6 DEF Kept

\* A cycle of decoding neither adds nor removes an instruction.
LEMMA CycleLength ==
  ASSUME decode_buffer \in Seq(Decoding)
  PROVE  Len(OneCycle(decode_buffer)) = Len(decode_buffer)
<1>1. Len(decode_buffer) \in Nat /\ DOMAIN decode_buffer = 1 .. Len(decode_buffer)
  OBVIOUS
<1>2. OneCycle(decode_buffer) \in Seq(Decoding)
  BY CycleOfBuffer
<1>3. DOMAIN OneCycle(decode_buffer) = 1 .. Len(decode_buffer)
  BY <1>1 DEF OneCycle
<1> QED
  BY <1>1, <1>2, <1>3

\* A stall while a branch is resolved.
LEMMA StalledTypes ==
  ASSUME Typed, Stalled
  PROVE  Kept'
<1>1. /\ UNCHANGED <<robVars, stationVars, memVars, program, num_inst_fetched,
                     reg_alias_table, execution_unit, completed_inst,
                     num_inst_commited>>
      /\ penalty > 0 /\ penalty' = penalty - 1
      /\ decode_buffer' = OneCycle(decode_buffer)
  BY DEF Stalled
<1>2. Len(decode_buffer') = Len(decode_buffer)
  BY <1>1, Rings, CycleLength
<1>3. IssuedSoFar' = IssuedSoFar
  BY <1>1, <1>2 DEF IssuedSoFar
<1>4. FrontTyped'
  BY <1>1, <1>2, Rings, Sizing DEF FrontTyped, Typed
<1>5. Counted'
  BY <1>1, <1>3 DEF Counted, Typed, stationVars, memVars, robVars
<1>6. StationsTyped' /\ ReadyTyped' /\ UnitsTyped' /\ LoadsTyped' /\ RobTyped'
  BY <1>1 DEF Typed, StationsTyped, ReadyTyped, UnitsTyped, LoadsTyped, RobTyped,
              EntryRecords, stationVars, memVars, robVars
<1> QED
  BY <1>4, <1>5, <1>6 DEF Kept

\* exec_unit: a cycle of every unit.
LEMMA AgeTypes ==
  ASSUME Typed, Age
  PROVE  Kept'
<1>1. /\ UNCHANGED <<robVars, reservation_station, ready_queue, load_store_queue,
                 pending_load_store, ld_str_id, sent, program, num_inst_fetched,
                 reg_alias_table, completed_inst, num_inst_commited, penalty>>
      /\ num_ld_str_inCycle' = 0
      /\ decode_buffer' = OneCycle(decode_buffer)
      /\ aged' = [t \in Types |-> ready_queue[t] # <<>>]
      /\ execution_unit' =
           [t \in Types |-> [i \in DOMAIN execution_unit[t] |->
              [execution_unit[t][i] EXCEPT !.cycles = @ + 1]]]
  BY DEF Age
<1>2. Len(decode_buffer') = Len(decode_buffer)
  BY <1>1, Rings, CycleLength
<1>3. IssuedSoFar' = IssuedSoFar
  BY <1>1, <1>2 DEF IssuedSoFar
<1>4. FrontTyped'
  BY <1>1, <1>2 DEF FrontTyped, Typed
<1>5. ASSUME NEW t \in Types
      PROVE  /\ execution_unit'[t] \in Seq(UnitRecords)
             /\ Len(execution_unit'[t]) = Len(execution_unit[t])
  <2> DEFINE q == execution_unit[t]
             r == [i \in DOMAIN q |-> [q[i] EXCEPT !.cycles = @ + 1]]
  <2>1. q \in Seq(UnitRecords) /\ DOMAIN q = 1 .. Len(q) /\ Len(q) \in Nat
    <3>1. q \in Seq(UnitRecords)
      BY DEF Typed, UnitsTyped
    <3> HIDE DEF q
    <3> QED
      BY <3>1
  <2>2. execution_unit'[t] = r
    BY <1>1
  <2>3. ASSUME NEW u \in UnitRecords
        PROVE  [u EXCEPT !.cycles = @ + 1] \in UnitRecords
    <3>1. u.cycles + 1 \in Nat
      BY DEF UnitRecords
    <3>2. PICK c : c = u.cycles + 1
      OBVIOUS
    <3>3. [u EXCEPT !.cycles = c] \in UnitRecords
      BY <3>1, <3>2 DEF UnitRecords
    <3> QED
      BY <3>2, <3>3
  <2>4. r \in [1 .. Len(q) -> UnitRecords]
    <3>1. \A i \in 1 .. Len(q) : q[i] \in UnitRecords
      BY <2>1, ElementOfSeq
    <3> QED
      BY <2>1, <2>3, <3>1
  <2> HIDE DEF q, r
  <2>5. r \in Seq(UnitRecords) /\ Len(r) = Len(q)
    <3>1. r \in Seq(UnitRecords)
      BY <2>1, <2>4, SeqDef
    <3>2. DOMAIN r = 1 .. Len(q)
      BY <2>4
    <3> QED
      BY <2>1, <3>1, <3>2
  <2> QED
    BY <2>2, <2>5 DEF q
<1>6. UnitsTyped'
  <2>1. execution_unit' \in [Types -> Seq(UnitRecords)]
    BY <1>1, <1>5
  <2> QED
    BY <1>1, <1>5, <2>1 DEF UnitsTyped, Typed
<1>7. Counted'
  BY <1>1, <1>3, <1>5, Sizing DEF Counted, Typed, robVars
<1>8. ReadyTyped'
  BY <1>1 DEF Typed, ReadyTyped
<1>9. LoadsTyped'
  BY <1>1, Sizing DEF Typed, LoadsTyped
<1>10. StationsTyped' /\ RobTyped'
  BY <1>1 DEF Typed, StationsTyped, RobTyped, EntryRecords, robVars
<1> QED
  BY <1>4, <1>6, <1>7, <1>8, <1>9, <1>10 DEF Kept

\* A step from one stage to the next.
LEMMA StillTypes ==
  ASSUME Typed,
         UNCHANGED <<robVars, stationVars, memVars, frontVars, reg_alias_table,
                     execution_unit, completed_inst, num_inst_commited, penalty>>
  PROVE  Kept'
<1>1. StationsTyped' /\ ReadyTyped' /\ UnitsTyped' /\ LoadsTyped' /\ RobTyped'
  BY DEF Typed, StationsTyped, ReadyTyped, UnitsTyped, LoadsTyped, RobTyped,
         EntryRecords, stationVars, memVars, robVars, frontVars
<1>2. FrontTyped' /\ Counted'
  BY DEF Typed, FrontTyped, Counted, IssuedSoFar, robVars, stationVars, memVars,
         frontVars
<1> QED
  BY <1>1, <1>2 DEF Kept

\* dispatch, when no unit is free.
LEMMA DispatchStallsTypes ==
  ASSUME Typed, NEW t \in Types, DispatchStalls(t)
  PROVE  Kept'
<1> DEFINE s == Head(ready_queue[t])
<1>1. /\ UNCHANGED <<robVars, memVars, frontVars, ready_queue, aged,
                 reg_alias_table, execution_unit, completed_inst,
                 num_inst_commited>>
      /\ penalty' = branch_penalty
      /\ reservation_station' =
           [reservation_station EXCEPT ![s].mispredicted = FALSE]
  BY DEF DispatchStalls
<1> HIDE DEF s
<1>2. StationsTyped'
  <2>1. PICK e : e = [reservation_station[s] EXCEPT !.mispredicted = FALSE]
    OBVIOUS
  <2>2. reservation_station' = [reservation_station EXCEPT ![s] = e]
    BY <1>1, <2>1
  <2>3. s \in Stations => e \in StationRecords
    BY <2>1 DEF Typed, StationsTyped, StationRecords
  <2> QED
    BY <2>2, <2>3 DEF Typed, StationsTyped
<1>3. ReadyTyped' /\ UnitsTyped' /\ LoadsTyped' /\ RobTyped'
  BY <1>1 DEF Typed, ReadyTyped, UnitsTyped, LoadsTyped, RobTyped,
         EntryRecords, stationVars, memVars, robVars, frontVars
<1>4. FrontTyped'
  BY <1>1, Sizing DEF Typed, FrontTyped, frontVars
<1>5. Counted'
  BY <1>1 DEF Typed, Counted, IssuedSoFar, robVars, memVars, frontVars
<1> QED
  BY <1>2, <1>3, <1>4, <1>5 DEF Kept

\* dispatch of the head of a ready queue to a unit.
LEMMA DispatchTypes ==
  ASSUME Typed, NEW t \in Types, Dispatch(t)
  PROVE  Kept'
<1> DEFINE s == Head(ready_queue[t])
<1>1. /\ UNCHANGED <<issue_ptr, commit_ptr, memVars, frontVars, reg_alias_table,
                     completed_inst, num_inst_commited, penalty>>
      /\ aged[t] /\ Len(execution_unit[t]) < num_exec_units
      /\ ready_queue' = [ready_queue EXCEPT ![t] = Tail(@)]
      /\ aged' = [aged EXCEPT ![t] = FALSE]
      /\ execution_unit' = [execution_unit EXCEPT ![t] = Append(@, Unit(s))]
      /\ \/ /\ t = AGU /\ UNCHANGED <<reservation_station, rob>>
         \/ /\ t # AGU
            /\ reservation_station' = [reservation_station EXCEPT ![s].valid = FALSE]
            /\ rob' = [rob EXCEPT ![Unit(s).rob].status = Dispatched]
  BY DEF Dispatch, CanDispatch
<1>2. /\ ready_queue[t] \in Seq(Stations) /\ ready_queue[t] # <<>>
      /\ ready_queue \in [Types -> Seq(Stations)]
  BY <1>1 DEF Typed, ReadyTyped
<1>3. /\ s \in Stations /\ Tail(ready_queue[t]) \in Seq(Stations)
      /\ Len(Tail(ready_queue[t])) = Len(ready_queue[t]) - 1
      /\ Len(ready_queue[t]) \in Nat
  BY <1>2
<1> HIDE DEF s
<1>4. Unit(s) \in UnitRecords
  BY <1>3, StationFields DEF Unit, UnitRecords, Typed, StationsTyped
<1>5. /\ execution_unit \in [Types -> Seq(UnitRecords)]
      /\ execution_unit[t] \in Seq(UnitRecords)
      /\ Len(execution_unit[t]) \in Nat
  <2>1. execution_unit \in [Types -> Seq(UnitRecords)] /\ execution_unit[t] \in Seq(UnitRecords)
    BY DEF Typed, UnitsTyped
  <2> QED
    BY <2>1
<1>6. /\ Append(execution_unit[t], Unit(s)) \in Seq(UnitRecords)
      /\ Len(Append(execution_unit[t], Unit(s))) = Len(execution_unit[t]) + 1
  BY <1>4, <1>5
<1>7. StationsTyped'
  <2>1. CASE t = AGU
    BY <1>1, <2>1 DEF Typed, StationsTyped
  <2>2. CASE t # AGU
    <3>1. PICK e : e = [reservation_station[s] EXCEPT !.valid = FALSE]
      OBVIOUS
    <3>2. reservation_station' = [reservation_station EXCEPT ![s] = e]
      BY <1>1, <2>2, <3>1
    <3>3. e \in StationRecords
      BY <1>3, <3>1 DEF Typed, StationsTyped, StationRecords
    <3> QED
      BY <3>2, <3>3 DEF Typed, StationsTyped
  <2> QED
    BY <2>1, <2>2
<1>8. ReadyTyped'
  <2>1. ready_queue' \in [Types -> Seq(Stations)]
    BY <1>1, <1>2, <1>3
  <2>2. ASSUME NEW u \in Types, aged'[u]
        PROVE  ready_queue'[u] # <<>>
    <3>1. CASE u # t
      BY <1>1, <1>2, <2>2, <3>1 DEF Typed, ReadyTyped
    <3>2. CASE u = t
      BY <1>1, <2>2, <3>2 DEF Typed, ReadyTyped
    <3> QED
      BY <3>1, <3>2
  <2>3. aged' \in [Types -> BOOLEAN]
    BY <1>1 DEF Typed, ReadyTyped
  <2> QED
    BY <2>1, <2>2, <2>3 DEF ReadyTyped
<1>9. UnitsTyped'
  <2>1. /\ execution_unit' \in [Types -> Seq(UnitRecords)]
        /\ execution_unit'[t] = Append(execution_unit[t], Unit(s))
        /\ \A u \in Types \ {t} : execution_unit'[u] = execution_unit[u]
    BY <1>1, <1>5, <1>6
  <2>2. \A u \in Types : Len(execution_unit'[u]) <= num_exec_units
    BY <1>1, <1>5, <1>6, <2>1, Sizing DEF Typed, UnitsTyped
  <2> QED
    BY <1>1, <2>1, <2>2 DEF Typed, UnitsTyped
<1>10. LoadsTyped' /\ FrontTyped'
  BY <1>1 DEF Typed, LoadsTyped, FrontTyped, memVars, frontVars
<1>11. RobTyped'
  <2>1. CASE t = AGU
    BY <1>1, <2>1 DEF Typed, RobTyped, EntryRecords, frontVars
  <2>2. CASE t # AGU
    <3> DEFINE k == Unit(s).rob
    <3>1. PICK e : e = [rob[k] EXCEPT !.status = Dispatched]
      OBVIOUS
    <3>2. rob' = [rob EXCEPT ![k] = e]
      BY <1>1, <2>2, <3>1
    <3>3. k \in Slots
      BY <1>4 DEF UnitRecords
    <3> HIDE DEF k
    <3>4. e \in EntryRecords
      BY <3>1, <3>3 DEF Typed, RobTyped, EntryRecords, Dispatched, Committed
    <3> QED
      BY <1>1, <3>2, <3>4 DEF Typed, RobTyped, EntryRecords, frontVars
  <2> QED
    BY <2>1, <2>2
<1>12. Counted'
  <2>1. Len(ready_queue'[AGU]) + Len(execution_unit'[AGU])
          = Len(ready_queue[AGU]) + Len(execution_unit[AGU])
    <3>1. CASE t = AGU
      <4>1. ready_queue'[t] = Tail(ready_queue[t])
        BY <1>1, <1>2
      <4>2. execution_unit'[t] = Append(execution_unit[t], Unit(s))
        BY <1>1, <1>5
      <4>3. Len(ready_queue'[t]) = Len(ready_queue[t]) - 1
        BY <4>1, <1>3
      <4>4. Len(execution_unit'[t]) = Len(execution_unit[t]) + 1
        BY <4>2, <1>6
      <4>5. Len(ready_queue[t]) \in Nat /\ Len(execution_unit[t]) \in Nat
        BY <1>3, <1>5
      <4>6. Len(ready_queue'[t]) + Len(execution_unit'[t])
              = Len(ready_queue[t]) + Len(execution_unit[t])
        <5> DEFINE a == Len(ready_queue[t])
                   b == Len(execution_unit[t])
                   c == Len(ready_queue'[t])
                   d == Len(execution_unit'[t])
        <5>1. a \in Nat /\ b \in Nat /\ c = a - 1 /\ d = b + 1
          BY <4>3, <4>4, <4>5
        <5> HIDE DEF a, b, c, d
        <5>2. c + d = a + b
          BY <5>1
        <5> QED
          BY <5>2 DEF a, b, c, d
      <4> QED
        BY <3>1, <4>6
    <3>2. CASE t # AGU
      BY <1>1, <1>2, <1>5, <3>2, Sizing
    <3> QED
      BY <3>1, <3>2
  <2>3. /\ UNCHANGED <<num_inst_commited, IssuedSoFar, ld_str_id>>
        /\ SizeOf(issue_ptr', commit_ptr') = SizeOf(issue_ptr, commit_ptr)
    BY <1>1 DEF IssuedSoFar, frontVars, memVars
  <2> QED
    BY <2>1, <2>3 DEF Typed, Counted
<1> QED
  BY <1>7, <1>8, <1>9, <1>10, <1>11, <1>12 DEF Kept

\* A unit that has completed leaves the sequence of its type.
LEMMA UnitDone ==
  ASSUME Typed, NEW t \in Types, execution_unit[t] # <<>>,
         execution_unit' = [execution_unit EXCEPT ![t] = Tail(@)]
  PROVE  /\ execution_unit' \in [Types -> Seq(UnitRecords)]
         /\ \A u \in Types : Len(execution_unit'[u]) <= num_exec_units
         /\ Head(execution_unit[t]) \in UnitRecords
         /\ Len(execution_unit'[t]) = Len(execution_unit[t]) - 1
         /\ \A u \in Types \ {t} : execution_unit'[u] = execution_unit[u]
<1>1. /\ execution_unit \in [Types -> Seq(UnitRecords)]
      /\ execution_unit[t] \in Seq(UnitRecords)
      /\ Len(execution_unit[t]) <= num_exec_units
  BY DEF Typed, UnitsTyped
<1>2. /\ Tail(execution_unit[t]) \in Seq(UnitRecords)
      /\ Head(execution_unit[t]) \in UnitRecords
      /\ Len(Tail(execution_unit[t])) = Len(execution_unit[t]) - 1
      /\ Len(execution_unit[t]) \in Nat
  BY <1>1
<1>3. /\ execution_unit' \in [Types -> Seq(UnitRecords)]
      /\ execution_unit'[t] = Tail(execution_unit[t])
      /\ \A u \in Types \ {t} : execution_unit'[u] = execution_unit[u]
  BY <1>1, <1>2
<1>4. \A u \in Types : Len(execution_unit'[u]) <= num_exec_units
  BY <1>1, <1>2, <1>3, Sizing DEF Typed, UnitsTyped
<1> QED
  BY <1>2, <1>3, <1>4

\* A unit that is done gives up its instruction.
LEMMA CompleteTypes ==
  ASSUME Typed, NEW t \in Types, Complete(t)
  PROVE  Kept'
<1>1. /\ UNCHANGED <<robVars, stationVars, memVars, frontVars, reg_alias_table,
                     num_inst_commited, penalty>>
      /\ t # AGU /\ execution_unit[t] # <<>>
      /\ completed_inst' = Append(completed_inst, Head(execution_unit[t]).rob)
      /\ execution_unit' = [execution_unit EXCEPT ![t] = Tail(@)]
  BY DEF Complete, CanComplete
<1>2. /\ execution_unit' \in [Types -> Seq(UnitRecords)]
      /\ \A u \in Types : Len(execution_unit'[u]) <= num_exec_units
      /\ Head(execution_unit[t]) \in UnitRecords
      /\ execution_unit'[AGU] = execution_unit[AGU]
  BY <1>1, UnitDone, Sizing
<1>3. completed_inst' \in Seq(Slots)
  <2>1. Head(execution_unit[t]).rob \in Slots
    BY <1>2 DEF UnitRecords
  <2> QED
    BY <1>1, <2>1 DEF Typed, UnitsTyped
<1>4. UnitsTyped'
  BY <1>2, <1>3 DEF UnitsTyped
<1>5. StationsTyped' /\ ReadyTyped' /\ LoadsTyped' /\ RobTyped' /\ FrontTyped'
  BY <1>1 DEF Typed, StationsTyped, ReadyTyped, LoadsTyped, RobTyped, FrontTyped,
              EntryRecords, stationVars, memVars, robVars, frontVars
<1>6. Counted'
  BY <1>1, <1>2 DEF Typed, Counted, IssuedSoFar, robVars, stationVars, memVars,
                    frontVars
<1> QED
  BY <1>4, <1>5, <1>6 DEF Kept

\* A queue of loads and stores is a sequence of no more than LSQ_Size.
FitsLSQ(queue) == queue \in Seq(LoadRecords) /\ Len(queue) <= LSQ_Size

\* A load or store with the next id fits the queue or waits behind it.
LEMMA Added ==
  ASSUME LoadsTyped, NEW queue, FitsLSQ(queue), NEW s \in Stations \union {-1},
         NEW addr \in Addresses, NEW store \in BOOLEAN, AddTo(queue, s, addr, store)
  PROVE  LoadsTyped' /\ ld_str_id' = ld_str_id + 1
<1> DEFINE entry == [id |-> ld_str_id, station |-> s, addr |-> addr, store |-> store]
<1>1. /\ ld_str_id' = ld_str_id + 1
      /\ IF RoomInLSQ(queue)
         THEN /\ load_store_queue' = Append(queue, entry)
              /\ sent' = sent \union {ld_str_id}
              /\ num_ld_str_inCycle' = num_ld_str_inCycle + 1
              /\ UNCHANGED pending_load_store
         ELSE /\ pending_load_store' = Append(pending_load_store, entry)
              /\ load_store_queue' = queue
              /\ UNCHANGED <<sent, num_ld_str_inCycle>>
  BY DEF AddTo
<1>2. entry \in LoadRecords /\ entry.id = ld_str_id
  BY DEF LoadsTyped, LoadRecords
<1> HIDE DEF entry
<1>3. ld_str_id \in Nat /\ ld_str_id' \in Nat
  BY <1>1 DEF LoadsTyped
<1>4. queue \in Seq(LoadRecords) /\ Len(queue) \in Nat /\ Len(queue) <= LSQ_Size
  BY DEF FitsLSQ
<1>5. CASE RoomInLSQ(queue)
  <2>1. /\ load_store_queue' = Append(queue, entry)
        /\ sent' = sent \union {ld_str_id}
        /\ num_ld_str_inCycle' = num_ld_str_inCycle + 1
        /\ UNCHANGED pending_load_store
    BY <1>1, <1>5
  <2>2. load_store_queue' \in Seq(LoadRecords) /\ Len(load_store_queue') = Len(queue) + 1
    BY <1>2, <1>4, <2>1
  <2>3. Len(load_store_queue') <= LSQ_Size
    BY <1>4, <1>5, <2>2, Sizing DEF RoomInLSQ
  <2>4. num_ld_str_inCycle' \in 0 .. ld_str_width + 1
    BY <1>5, <2>1, Sizing DEF RoomInLSQ, LoadsTyped
  <2>5. \A id \in sent' : id \in Nat /\ id < ld_str_id'
    BY <1>1, <1>3, <2>1 DEF LoadsTyped
  <2>6. \A i \in DOMAIN pending_load_store' : pending_load_store'[i].id < ld_str_id'
    <3>1. ASSUME NEW i \in DOMAIN pending_load_store
          PROVE  pending_load_store[i].id < ld_str_id + 1
      <4>1. pending_load_store[i] \in LoadRecords /\ pending_load_store[i].id < ld_str_id
        BY DEF LoadsTyped
      <4> QED
        BY <4>1, <1>3 DEF LoadRecords
    <3> QED
      BY <1>1, <2>1, <3>1
  <2> QED
    BY <1>1, <1>3, <2>1, <2>2, <2>3, <2>4, <2>5, <2>6 DEF LoadsTyped
<1>6. CASE ~ RoomInLSQ(queue)
  <2>1. /\ pending_load_store' = Append(pending_load_store, entry)
        /\ load_store_queue' = queue
        /\ UNCHANGED <<sent, num_ld_str_inCycle>>
    BY <1>1, <1>6
  <2>2. pending_load_store \in Seq(LoadRecords)
    BY DEF LoadsTyped
  <2>3. pending_load_store' \in Seq(LoadRecords)
    BY <1>2, <2>1, <2>2
  <2>4. \A id \in sent' : id \in Nat /\ id < ld_str_id'
    BY <1>1, <1>3, <2>1 DEF LoadsTyped
  <2>5. \A i \in DOMAIN pending_load_store' : pending_load_store'[i].id < ld_str_id'
    <3>1. ASSUME NEW i \in DOMAIN pending_load_store
          PROVE  pending_load_store[i].id < ld_str_id + 1
      <4>1. pending_load_store[i] \in LoadRecords /\ pending_load_store[i].id < ld_str_id
        BY DEF LoadsTyped
      <4> QED
        BY <4>1, <1>3 DEF LoadRecords
    <3>2. ASSUME NEW i \in DOMAIN pending_load_store'
          PROVE  \/ i \in DOMAIN pending_load_store
                    /\ pending_load_store'[i] = pending_load_store[i]
                 \/ pending_load_store'[i] = entry
      BY <1>2, <2>1, <2>2
    <3>3. entry.id < ld_str_id + 1
      BY <1>2, <1>3
    <3> QED
      BY <1>1, <3>1, <3>2, <3>3
  <2> QED
    BY <1>1, <1>3, <1>4, <2>1, <2>3, <2>4, <2>5 DEF LoadsTyped
<1> QED
  BY <1>1, <1>5, <1>6

\* The older store to an address, if there is one.
StoreAt(addr) ==
  {i \in DOMAIN load_store_queue :
     load_store_queue[i].addr = addr /\ load_store_queue[i].store}

\* A store takes the place of an older one to its address, at most one.
LEMMA StoreReplaced ==
  ASSUME LoadsTyped, NEW addr
  PROVE  /\ FitsLSQ(WithoutStore(addr))
         /\ \/ WithoutStore(addr) = load_store_queue
            \/ \E i \in StoreAt(addr) : /\ i \in DOMAIN load_store_queue
                                        /\ WithoutStore(addr) = RemoveAt(load_store_queue, i)
<1> DEFINE stores == StoreAt(addr)
<1>1. /\ load_store_queue \in Seq(LoadRecords) /\ Len(load_store_queue) <= LSQ_Size
  BY DEF LoadsTyped
<1>2. WithoutStore(addr) = IF stores = {} THEN load_store_queue
                           ELSE RemoveAt(load_store_queue, Min(stores))
  BY DEF WithoutStore, StoreAt
<1>3. stores \in SUBSET Nat /\ stores \subseteq DOMAIN load_store_queue
  BY <1>1 DEF StoreAt
<1> HIDE DEF stores
<1>4. CASE stores = {}
  BY <1>1, <1>2, <1>4 DEF FitsLSQ
<1>5. CASE stores # {}
  <2>1. Min(stores) \in stores
    BY <1>3, <1>5, FirstOf
  <2>2. PICK i : i = Min(stores)
    OBVIOUS
  <2>3. i \in stores /\ i \in DOMAIN load_store_queue
        /\ WithoutStore(addr) = RemoveAt(load_store_queue, i)
    BY <1>2, <1>3, <1>5, <2>1, <2>2
  <2>4. /\ RemoveAt(load_store_queue, i) \in Seq(LoadRecords)
        /\ Len(RemoveAt(load_store_queue, i)) = Len(load_store_queue) - 1
    BY <1>1, <2>3, RemovedAt
  <2>5. Len(load_store_queue) \in Nat
    BY <1>1
  <2>6. Len(RemoveAt(load_store_queue, i)) <= LSQ_Size
    BY <1>1, <2>4, <2>5, Sizing
  <2> QED
    BY <2>3, <2>4, <2>6 DEF FitsLSQ, stores
<1> QED
  BY <1>4, <1>5

\* The oldest instruction is of the program.
LEMMA OldestTyped ==
  ASSUME Typed, ~ is_empty
  PROVE  rob[commit_ptr].ins \in 1 .. Len(program)
<1>1. commit_ptr \in Slots /\ issue_ptr \in Slots
  BY DEF Typed, CoreInv, RingOK, Pointers, is_empty
<1>2. SizeOf(issue_ptr, commit_ptr) \in 1 .. ROB_Size
  BY <1>1, Sizes, RobSizeAssumption DEF Slots
<1>3. SlotAt(commit_ptr, 1) = commit_ptr
  BY <1>1, SlotsAt, RobSizeAssumption DEF Slots
<1>4. 1 \in 1 .. SizeOf(issue_ptr, commit_ptr)
  BY <1>2, RobSizeAssumption
<1>5. Queue[1] = rob[commit_ptr].ins
  BY <1>3, <1>4 DEF Queue
<1>6. DOMAIN Queue = 1 .. SizeOf(issue_ptr, commit_ptr)
  BY DEF Queue
<1>7. \A i \in DOMAIN Queue : Queue[i] \in 1 .. Len(program)
  BY DEF Typed, QueueTyped
<1> QED
  BY <1>4, <1>5, <1>6, <1>7

\* The fields of an entry.
LEMMA EntryFields ==
  ASSUME NEW e \in EntryRecords
  PROVE  /\ e.ins \in 0 .. Len(program) /\ e.status \in -1 .. 3
         /\ e.deps \in Seq(Stations)
BY DEF EntryRecords, Committed

\* An entry with another status is an entry.
LEMMA EntryStatus ==
  ASSUME NEW e \in EntryRecords, NEW x \in -1 .. 3
  PROVE  [e EXCEPT !.status = x] \in EntryRecords
BY DEF EntryRecords, Committed

\* An entry with other dependents is an entry.
LEMMA EntryDeps ==
  ASSUME NEW e \in EntryRecords, NEW d \in Seq(Stations)
  PROVE  [e EXCEPT !.deps = d] \in EntryRecords
BY DEF EntryRecords

\* commit: the oldest leaves, and its store is added.
LEMMA CommitTypes ==
  ASSUME Typed, Commit
  PROVE  Kept'
<1> DEFINE write == program[rob[commit_ptr].ins].write
<1>1. /\ ~ is_empty /\ do_commit
      /\ rob[commit_ptr].status = Executed
      /\ rob' = [rob EXCEPT ![commit_ptr].status = Committed]
      /\ num_inst_commited' = num_inst_commited + 1
      /\ reg_alias_table' = WithoutSlot(commit_ptr)
      /\ UNCHANGED <<stationVars, frontVars, execution_unit, completed_inst, penalty>>
      /\ IF write = NoAddr THEN UNCHANGED memVars
         ELSE AddTo(WithoutStore(write), -1, write, TRUE)
  BY DEF Commit, CanCommit
<1>2. /\ commit_ptr \in Slots
      /\ SizeOf(issue_ptr, commit_ptr) \in 1 .. ROB_Size
      /\ SizeOf(issue_ptr', commit_ptr') = SizeOf(issue_ptr, commit_ptr) - 1
  BY <1>1, Rings, CommitMoves
<1>3. LoadsTyped' /\ (ld_str_id' = ld_str_id \/ ld_str_id' = ld_str_id + 1)
  <2>1. CASE write = NoAddr
    BY <1>1, <2>1 DEF Typed, LoadsTyped, memVars
  <2>2. CASE write # NoAddr
    <3>1. write \in Addresses
      BY <1>1, OldestTyped, Instruction DEF Typed, CoreInv
    <3>2. AddTo(WithoutStore(write), -1, write, TRUE)
      BY <1>1, <2>2
    <3> HIDE DEF write
    <3> QED
      BY <3>1, <3>2, Added, StoreReplaced DEF Typed
  <2> QED
    BY <2>1, <2>2
<1>4. StationsTyped' /\ ReadyTyped' /\ UnitsTyped' /\ FrontTyped'
  BY <1>1 DEF Typed, StationsTyped, ReadyTyped, UnitsTyped, FrontTyped, stationVars,
              frontVars
<1>5. RobTyped'
  <2>1. PICK e : e = [rob[commit_ptr] EXCEPT !.status = Committed]
    OBVIOUS
  <2>2. rob' = [rob EXCEPT ![commit_ptr] = e]
    BY <1>1, <2>1
  <2>3. e \in EntryRecords
    <3>1. PICK old : old = rob[commit_ptr]
      OBVIOUS
    <3>2. old \in EntryRecords
      BY <1>2, <3>1 DEF Typed, RobTyped
    <3>3. Committed \in -1 .. 3
      BY DEF Committed
    <3>4. [old EXCEPT !.status = Committed] \in EntryRecords
      BY <3>2, <3>3, EntryStatus
    <3> QED
      BY <2>1, <3>1, <3>4
  <2>4. program' = program
    BY <1>1 DEF frontVars
  <2>5. reg_alias_table' \in [Regs -> Slots \union {-1}]
    BY <1>1 DEF Typed, RobTyped, WithoutSlot
  <2> QED
    BY <2>2, <2>3, <2>4, <2>5 DEF Typed, RobTyped, EntryRecords
<1>6. Counted'
  <2>1. UNCHANGED <<IssuedSoFar, ready_queue, execution_unit>>
    BY <1>1 DEF IssuedSoFar, frontVars, stationVars
  <2>2. num_inst_commited \in Nat /\ IssuedSoFar \in Int /\ ld_str_id \in Nat
    BY Numbers
  <2>3. num_inst_commited' \in Nat
    BY <1>1, <2>2
  <2>4. num_inst_commited' + SizeOf(issue_ptr', commit_ptr') = IssuedSoFar'
    <3> DEFINE a == SizeOf(issue_ptr, commit_ptr)
               b == SizeOf(issue_ptr', commit_ptr')
    <3>1. a \in Int /\ b = a - 1 /\ num_inst_commited + a = IssuedSoFar
      BY <1>2, Rings DEF Typed, Counted
    <3> HIDE DEF a, b
    <3>2. num_inst_commited' + b = num_inst_commited + a
      BY <1>1, <2>2, <3>1
    <3> QED
      BY <2>1, <3>1, <3>2 DEF b
  <2>5. ld_str_id' + (Len(ready_queue'[AGU]) + Len(execution_unit'[AGU]))
          <= 2 * IssuedSoFar' + num_inst_commited'
    <3>1. Unasked \in Nat /\ ld_str_id + Unasked <= 2 * IssuedSoFar + num_inst_commited
      BY Numbers
    <3>2. Len(ready_queue'[AGU]) + Len(execution_unit'[AGU]) = Unasked
      BY <2>1 DEF Unasked
    <3>3. ld_str_id' + Unasked <= 2 * IssuedSoFar + num_inst_commited'
      BY <1>1, <1>3, <2>2, <3>1
    <3> QED
      BY <2>1, <3>2, <3>3
  <2> QED
    BY <2>3, <2>4, <2>5 DEF Counted
<1> QED
  BY <1>3, <1>4, <1>5, <1>6 DEF Kept

\* A step behind the ring: ids are given for what was waiting for one.
LEMMA BackTypes ==
  ASSUME Typed, UNCHANGED <<issue_ptr, commit_ptr, frontVars, num_inst_commited, penalty>>,
         NEW d \in Nat, NEW e \in Nat, ld_str_id' = ld_str_id + d, Unasked' = e,
         e + d <= Unasked
  PROVE  FrontTyped' /\ Counted'
<1>1. FrontTyped'
  BY DEF Typed, FrontTyped, frontVars
<1>2. UNCHANGED <<IssuedSoFar, num_inst_commited>>
  BY DEF IssuedSoFar, frontVars
<1>3. /\ ld_str_id \in Nat /\ Unasked \in Nat /\ IssuedSoFar \in Int
      /\ num_inst_commited \in Nat
      /\ num_inst_commited + SizeOf(issue_ptr, commit_ptr) = IssuedSoFar
      /\ ld_str_id + Unasked <= 2 * IssuedSoFar + num_inst_commited
  BY Numbers
<1>4. ld_str_id' + e <= 2 * IssuedSoFar + num_inst_commited
  BY <1>3
<1>5. ld_str_id' + Unasked' <= 2 * IssuedSoFar' + num_inst_commited'
  BY <1>2, <1>4
<1>6. Counted'
  BY <1>2, <1>3, <1>5 DEF Counted, Unasked
<1> QED
  BY <1>1, <1>6

\* broadcast_agu: an address is generated, and forwarded to or added.
LEMMA CompleteAGUTypes ==
  ASSUME Typed, CompleteAGU
  PROVE  Kept'
<1> DEFINE s  == Head(execution_unit[AGU]).station
           st == reservation_station[s]
           unborn == {i \in 1 .. 2 : st.mem[i] = Unborn}
           i == Min(unborn)
<1>1. /\ UNCHANGED <<robVars, aged, frontVars, reg_alias_table, completed_inst,
                     num_inst_commited, penalty>>
      /\ execution_unit[AGU] # <<>>
      /\ execution_unit' = [execution_unit EXCEPT ![AGU] = Tail(@)]
      /\ ready_queue' = PushIfCleared(ready_queue, reservation_station', s)
      /\ IF unborn = {} THEN UNCHANGED <<memVars, reservation_station>>
         ELSE IF found_in_LSQ(st.addr[i])
         THEN /\ reservation_station' = [reservation_station EXCEPT
                                           ![s] = AnswerOperands(st, st.addr[i])]
              /\ UNCHANGED memVars
         ELSE /\ reservation_station' = [reservation_station EXCEPT ![s].mem[i] = Asked]
              /\ AddTo(load_store_queue, s, st.addr[i], FALSE)
  BY DEF CompleteAGU, CanComplete
<1>2. /\ execution_unit' \in [Types -> Seq(UnitRecords)]
      /\ \A u \in Types : Len(execution_unit'[u]) <= num_exec_units
      /\ Head(execution_unit[AGU]) \in UnitRecords
      /\ Len(execution_unit'[AGU]) = Len(execution_unit[AGU]) - 1
  BY <1>1, UnitDone, Sizing
<1>3. s \in Stations /\ st \in StationRecords
  BY <1>2 DEF UnitRecords, Typed, StationsTyped
<1>4. unborn # {} => i \in 1 .. 2
  <2>1. unborn \in SUBSET Nat /\ unborn \subseteq 1 .. 2
    OBVIOUS
  <2> HIDE DEF unborn
  <2> QED
    BY <2>1, FirstOf
<1> HIDE DEF s, unborn, i
<1>5. /\ StationsTyped' /\ LoadsTyped'
      /\ ld_str_id' = ld_str_id \/ ld_str_id' = ld_str_id + 1
  <2>1. CASE unborn = {}
    BY <1>1, <2>1 DEF Typed, StationsTyped, LoadsTyped, memVars
  <2>2. CASE unborn # {} /\ found_in_LSQ(st.addr[i])
    <3>1. AnswerOperands(st, st.addr[i]) \in StationRecords
      BY <1>3, StationAnswered
    <3>2. /\ reservation_station' = [reservation_station EXCEPT
                                      ![s] = AnswerOperands(st, st.addr[i])]
          /\ UNCHANGED memVars
      BY <1>1, <2>2
    <3>3. StationsTyped'
      BY <1>3, <3>1, <3>2, StationWritten DEF Typed, StationsTyped
    <3>4. LoadsTyped' /\ ld_str_id' = ld_str_id
      BY <3>2 DEF Typed, LoadsTyped, memVars
    <3> QED
      BY <3>3, <3>4
  <2>3. CASE unborn # {} /\ ~ found_in_LSQ(st.addr[i])
    <3>1. /\ reservation_station' = [reservation_station EXCEPT ![s].mem[i] = Asked]
          /\ AddTo(load_store_queue, s, st.addr[i], FALSE)
      BY <1>1, <2>3
    <3>2. PICK m : m = [st.mem EXCEPT ![i] = Asked]
      OBVIOUS
    <3>3. m \in [1 .. 2 -> {Answered, Unborn, Asked}]
      BY <1>3, <3>2, StationFields
    <3>4. PICK e : e = [st EXCEPT !.mem = m]
      OBVIOUS
    <3>5. e \in StationRecords
      BY <1>3, <3>3, <3>4, StationMem
    <3>6. reservation_station' = [reservation_station EXCEPT ![s] = e]
      BY <3>1, <3>2, <3>4
    <3>7. StationsTyped'
      BY <1>3, <3>5, <3>6, StationWritten DEF Typed, StationsTyped
    <3>8. st.addr[i] \in Addresses
      BY <1>3, <1>4, <2>3, StationFields
    <3>9. FitsLSQ(load_store_queue) /\ LoadsTyped
      BY DEF Typed, LoadsTyped, FitsLSQ
    <3> HIDE DEF st
    <3>10. LoadsTyped' /\ ld_str_id' = ld_str_id + 1
      BY <1>3, <3>1, <3>8, <3>9, Added
    <3> QED
      BY <3>7, <3>10
  <2> QED
    BY <2>1, <2>2, <2>3
<1>6. Grown(ready_queue, ready_queue')
  BY <1>1, <1>3, <1>5, ReadyPushed DEF Typed, ReadyTyped, ReadyQueues, AllStations,
                                      StationsTyped
<1>7. ReadyTyped' /\ Len(ready_queue'[AGU]) = Len(ready_queue[AGU])
  BY <1>1, <1>6, Aging DEF Typed
<1>8. UnitsTyped'
  BY <1>1, <1>2 DEF Typed, UnitsTyped
<1>9. RobTyped'
  BY <1>1 DEF Typed, RobTyped, EntryRecords, robVars, frontVars
<1>10. FrontTyped' /\ Counted'
  <2> DEFINE a == Len(ready_queue[AGU])
             b == Len(execution_unit[AGU])
             c == Len(execution_unit'[AGU])
  <2>1. /\ a \in Nat /\ b \in Nat /\ c = b - 1
        /\ Unasked = a + b /\ Unasked' = a + c
    BY <1>2, <1>7, Rings DEF Unasked
  <2>2. c \in Nat
    <3>1. execution_unit'[AGU] \in Seq(UnitRecords)
      BY <1>2, Sizing
    <3> QED
      BY <3>1
  <2> HIDE DEF a, b, c
  <2>3. PICK d \in Nat : (d = 0 \/ d = 1) /\ ld_str_id' = ld_str_id + d
    <3>1. ld_str_id \in Nat
      BY Numbers
    <3> QED
      BY <1>5, <3>1
  <2>4. a + c \in Nat /\ (a + c) + d <= Unasked
    BY <2>1, <2>2, <2>3
  <2> QED
    BY <1>1, <2>1, <2>3, <2>4, BackTypes DEF robVars
<1> QED
  BY <1>5, <1>7, <1>8, <1>9, <1>10 DEF Kept

\* A step that changes stations and fills ready queues, and asks for nothing.
LEMMA WokenTypes ==
  ASSUME Typed, StationsTyped', Grown(ready_queue, ready_queue'),
         UNCHANGED <<issue_ptr, commit_ptr, aged, ld_str_id, frontVars,
                     execution_unit, num_inst_commited, penalty>>
  PROVE  ReadyTyped' /\ FrontTyped' /\ Counted'
<1>1. ReadyTyped' /\ Len(ready_queue'[AGU]) = Len(ready_queue[AGU])
  BY Aging DEF Typed
<1>2. Unasked' = Unasked
  BY <1>1 DEF Unasked
<1>3. Unasked \in Nat /\ ld_str_id \in Nat
  BY Numbers
<1>4. ld_str_id' = ld_str_id + 0 /\ Unasked + 0 <= Unasked
  BY <1>3
<1> QED
  BY <1>1, <1>2, <1>3, <1>4, BackTypes

\* broadcast_ins_complete: one dependent is told, or the instruction has executed.
LEMMA BroadcastTypes ==
  ASSUME Typed, Broadcast
  PROVE  Kept'
<1> DEFINE k == Head(completed_inst)
           deps == rob[k].deps
           s == Head(deps)
           waiting == {r \in Regs : reservation_station[s].reg[r] = k}
<1>1. /\ completed_inst # <<>>
      /\ UNCHANGED <<issue_ptr, commit_ptr, aged, memVars, frontVars,
                     reg_alias_table, execution_unit, num_inst_commited, penalty>>
      /\ \/ /\ deps = <<>>
            /\ rob' = [rob EXCEPT ![k].status = Executed]
            /\ completed_inst' = Tail(completed_inst)
            /\ UNCHANGED <<reservation_station, ready_queue>>
         \/ /\ deps # <<>>
            /\ rob' = [rob EXCEPT ![k].status = Executed, ![k].deps = Tail(@)]
            /\ reservation_station' =
                 IF waiting = {} THEN reservation_station
                 ELSE [reservation_station EXCEPT
                         ![s].reg[CHOOSE r \in waiting : TRUE] = -1]
            /\ ready_queue' = PushIfCleared(ready_queue, reservation_station', s)
            /\ UNCHANGED completed_inst
  BY DEF Broadcast
<1>2. /\ completed_inst \in Seq(Slots) /\ k \in Slots
      /\ Tail(completed_inst) \in Seq(Slots)
  <2>1. completed_inst \in Seq(Slots)
    BY DEF Typed, UnitsTyped
  <2> DEFINE q == completed_inst
  <2>2. q \in Seq(Slots) /\ q # <<>>
    BY <1>1, <2>1
  <2> HIDE DEF q
  <2>3. Head(q) \in Slots
    BY <2>2
  <2>4. Tail(q) \in Seq(Slots)
    BY <2>2
  <2> QED
    BY <2>1, <2>3, <2>4 DEF q
<1>3. /\ rob \in [Slots -> EntryRecords] /\ rob[k] \in EntryRecords
      /\ deps \in Seq(Stations)
  BY <1>2 DEF Typed, RobTyped, EntryRecords
<1>4. LoadsTyped'
  BY <1>1 DEF Typed, LoadsTyped, memVars
<1>5. UnitsTyped'
  BY <1>1, <1>2 DEF Typed, UnitsTyped
<1>6. CASE deps = <<>>
  <2>1. /\ rob' = [rob EXCEPT ![k].status = Executed]
        /\ UNCHANGED <<reservation_station, ready_queue>>
    BY <1>1, <1>6
  <2>2. PICK e : e = [rob[k] EXCEPT !.status = Executed]
    OBVIOUS
  <2>3. rob' = [rob EXCEPT ![k] = e]
    BY <2>1, <2>2
  <2> HIDE DEF k
  <2>4. e \in EntryRecords
    BY <1>3, <2>2 DEF EntryRecords, Executed, Committed
  <2>5. RobTyped'
    BY <1>1, <1>3, <2>3, <2>4 DEF Typed, RobTyped, EntryRecords, frontVars
  <2>6. StationsTyped' /\ Grown(ready_queue, ready_queue')
    BY <2>1 DEF Typed, StationsTyped, ReadyTyped, Grown, ReadyQueues
  <2>7. ReadyTyped' /\ FrontTyped' /\ Counted'
    BY <1>1, <2>6, WokenTypes DEF memVars
  <2> QED
    BY <1>4, <1>5, <2>5, <2>6, <2>7 DEF Kept
<1>7. CASE deps # <<>>
  <2>1. /\ rob' = [rob EXCEPT ![k].status = Executed, ![k].deps = Tail(@)]
        /\ reservation_station' =
             IF waiting = {} THEN reservation_station
             ELSE [reservation_station EXCEPT
                     ![s].reg[CHOOSE r \in waiting : TRUE] = -1]
        /\ ready_queue' = PushIfCleared(ready_queue, reservation_station', s)
    BY <1>1, <1>7
  <2>2. s \in Stations /\ Tail(deps) \in Seq(Stations)
    <3> HIDE DEF deps
    <3> QED
      BY <1>3, <1>7
  <2>3. PICK e : e = [[rob[k] EXCEPT !.status = Executed] EXCEPT !.deps = Tail(deps)]
    OBVIOUS
  <2>4. rob' = [rob EXCEPT ![k] = e]
    BY <1>2, <1>3, <2>1, <2>3
  <2>5. e \in EntryRecords
    <3> HIDE DEF deps, k
    <3>1. PICK e1 : e1 = [rob[k] EXCEPT !.status = Executed]
      OBVIOUS
    <3>2. e1 \in EntryRecords
      <4>1. rob[k] \in EntryRecords
        BY <1>3
      <4> QED
        <5>1. Executed \in -1 .. 3
          BY DEF Executed
        <5>2. PICK en : en = rob[k]
          OBVIOUS
        <5>3. [en EXCEPT !.status = Executed] \in EntryRecords
          BY <4>1, <5>1, <5>2, EntryStatus
        <5> QED
          BY <3>1, <5>2, <5>3
    <3>3. PICK d \in Seq(Stations) : d = Tail(deps)
      BY <2>2
    <3>4. e = [e1 EXCEPT !.deps = d]
      BY <2>3, <3>1, <3>3
    <3> QED
      BY <3>2, <3>4, EntryDeps
  <2> HIDE DEF k, deps
  <2>6. RobTyped'
    BY <1>1, <1>3, <2>4, <2>5 DEF Typed, RobTyped, EntryRecords, frontVars
  <2> HIDE DEF s
  <2>7. StationsTyped'
    <3>1. CASE waiting = {}
      BY <2>1, <3>1 DEF Typed, StationsTyped
    <3>2. CASE waiting # {}
      <4>1. PICK r : r = CHOOSE x \in waiting : TRUE
        OBVIOUS
      <4>2. r \in Regs
        BY <3>2, <4>1
      <4>3. PICK m : m = [reservation_station[s].reg EXCEPT ![r] = -1]
        OBVIOUS
      <4>4. reservation_station[s] \in StationRecords
        BY <2>2 DEF Typed, StationsTyped
      <4>5. m \in [Regs -> Slots \union {-1, -2}]
        BY <4>2, <4>3, <4>4, StationFields
      <4>6. PICK st : st = [reservation_station[s] EXCEPT !.reg = m]
        OBVIOUS
      <4>7. st \in StationRecords
        BY <4>4, <4>5, <4>6, StationReg
      <4>8. reservation_station' = [reservation_station EXCEPT ![s].reg[r] = -1]
        BY <2>1, <3>2, <4>1
      <4>9. reservation_station' = [reservation_station EXCEPT ![s] = st]
        BY <4>3, <4>6, <4>8
      <4> QED
        BY <2>2, <4>7, <4>9, StationWritten DEF Typed, StationsTyped
    <3> QED
      BY <3>1, <3>2
  <2>8. Grown(ready_queue, ready_queue')
    BY <2>1, <2>2, <2>7, ReadyPushed DEF Typed, ReadyTyped, ReadyQueues, AllStations,
                                        StationsTyped
  <2>9. ReadyTyped' /\ FrontTyped' /\ Counted'
    BY <1>1, <2>7, <2>8, WokenTypes DEF memVars
  <2> QED
    BY <1>4, <1>5, <2>6, <2>7, <2>9 DEF Kept
<1> QED
  BY <1>6, <1>7

\* broadcast_completed_LSQ: the caches answer a load, in any order.
LEMMA MemoryAnswersTypes ==
  ASSUME Typed, NEW id, MemoryAnswers(id)
  PROVE  Kept'
<1> DEFINE found == {i \in DOMAIN load_store_queue : load_store_queue[i].id = id}
           i == Min(found)
           s == load_store_queue[i].station
<1>1. /\ UNCHANGED <<robVars, aged, pending_load_store, ld_str_id,
                 num_ld_str_inCycle, frontVars, reg_alias_table, execution_unit,
                 completed_inst, num_inst_commited, penalty>>
      /\ sent' = sent \ {id}
      /\ IF found = {}
         THEN UNCHANGED <<load_store_queue, reservation_station, ready_queue>>
         ELSE /\ load_store_queue' = RemoveAt(load_store_queue, i)
              /\ IF s = -1
                 THEN UNCHANGED <<reservation_station, ready_queue>>
                 ELSE /\ reservation_station' =
                           [reservation_station EXCEPT
                              ![s] = AnswerOperands(@, load_store_queue[i].addr)]
                      /\ ready_queue' =
                           PushIfCleared(ready_queue, reservation_station', s)
  BY DEF MemoryAnswers
<1>2. /\ load_store_queue \in Seq(LoadRecords) /\ Len(load_store_queue) <= LSQ_Size
      /\ Len(load_store_queue) \in Nat
  <2>1. load_store_queue \in Seq(LoadRecords) /\ Len(load_store_queue) <= LSQ_Size
    BY DEF Typed, LoadsTyped
  <2> QED
    BY <2>1
<1>3. found \in SUBSET Nat /\ found \subseteq DOMAIN load_store_queue
  BY <1>2
<1> HIDE DEF found
<1>4. found # {} => i \in DOMAIN load_store_queue
  BY <1>3, FirstOf
<1> HIDE DEF i
<1>5. LoadsTyped'
  <2>1. load_store_queue' \in Seq(LoadRecords) /\ Len(load_store_queue') <= LSQ_Size
    <3>1. CASE found = {}
      BY <1>1, <1>2, <3>1
    <3>2. CASE found # {}
      <4>1. /\ RemoveAt(load_store_queue, i) \in Seq(LoadRecords)
            /\ Len(RemoveAt(load_store_queue, i)) = Len(load_store_queue) - 1
        BY <1>2, <1>4, <3>2, RemovedAt
      <4> QED
        BY <1>1, <1>2, <3>2, <4>1, Sizing
    <3> QED
      BY <3>1, <3>2
  <2> QED
    BY <1>1, <2>1 DEF Typed, LoadsTyped
<1>6. StationsTyped' /\ Grown(ready_queue, ready_queue')
  <2>1. CASE found = {} \/ s = -1
    <3>1. UNCHANGED <<reservation_station, ready_queue>>
      BY <1>1, <2>1
    <3> QED
      BY <3>1 DEF Typed, StationsTyped, ReadyTyped, Grown, ReadyQueues
  <2>2. CASE found # {} /\ s # -1
    <3>1. load_store_queue[i] \in LoadRecords
      BY <1>2, <1>4, <2>2, ElementOfSeq
    <3>2. s \in Stations
      BY <2>2, <3>1 DEF LoadRecords
    <3> HIDE DEF s
    <3>3. PICK a : a = load_store_queue[i].addr
      OBVIOUS
    <3>4. /\ reservation_station' = [reservation_station EXCEPT
                                      ![s] = AnswerOperands(reservation_station[s], a)]
          /\ ready_queue' = PushIfCleared(ready_queue, reservation_station', s)
      BY <1>1, <2>2, <3>3 DEF s
    <3>5. AnswerOperands(reservation_station[s], a) \in StationRecords
      BY <3>2, StationAnswered DEF Typed, StationsTyped
    <3>6. StationsTyped'
      BY <3>2, <3>4, <3>5, StationWritten DEF Typed, StationsTyped
    <3>7. Grown(ready_queue, ready_queue')
      BY <3>2, <3>4, <3>6, ReadyPushed DEF Typed, ReadyTyped, ReadyQueues,
                                          AllStations, StationsTyped
    <3> QED
      BY <3>6, <3>7
  <2> QED
    BY <2>1, <2>2
<1>7. UnitsTyped' /\ RobTyped'
  BY <1>1 DEF Typed, UnitsTyped, RobTyped, EntryRecords, robVars, frontVars
<1>8. ReadyTyped' /\ FrontTyped' /\ Counted'
  BY <1>1, <1>6, WokenTypes DEF robVars
<1> QED
  BY <1>5, <1>6, <1>7, <1>8 DEF Kept

\* update_load_store_queue: the first pending load or store moves.
LEMMA PendingTypes ==
  ASSUME Typed, Pending
  PROVE  Kept'
<1> DEFINE e == Head(pending_load_store)
<1>1. /\ UNCHANGED <<robVars, aged, frontVars, reg_alias_table, execution_unit,
                     completed_inst, num_inst_commited, penalty>>
      /\ pending_load_store # <<>> /\ RoomInLSQ(load_store_queue)
      /\ reservation_station' =
           IF e.station = -1 THEN reservation_station
           ELSE [reservation_station EXCEPT ![e.station] = PendingStation]
      /\ IF PendingCleared
         THEN /\ ready_queue' = PushIfCleared(ready_queue, reservation_station',
                                              e.station)
              /\ UNCHANGED memVars
         ELSE /\ load_store_queue' = Append(load_store_queue, e)
              /\ pending_load_store' = Tail(pending_load_store)
              /\ num_ld_str_inCycle' = num_ld_str_inCycle + 1
              /\ sent' = sent \union {e.id}
              /\ UNCHANGED <<ld_str_id, ready_queue>>
  BY DEF Pending, PendingMoves
<1>2. /\ load_store_queue \in Seq(LoadRecords) /\ pending_load_store \in Seq(LoadRecords)
      /\ Len(load_store_queue) <= LSQ_Size /\ ld_str_id \in Nat
  BY DEF Typed, LoadsTyped
<1>3. /\ e \in LoadRecords /\ Tail(pending_load_store) \in Seq(LoadRecords)
      /\ e = pending_load_store[1] /\ 1 \in DOMAIN pending_load_store
      /\ \A i \in DOMAIN Tail(pending_load_store) :
           \E j \in DOMAIN pending_load_store :
             Tail(pending_load_store)[i] = pending_load_store[j]
  <2>1. /\ e \in LoadRecords /\ Tail(pending_load_store) \in Seq(LoadRecords)
        /\ e = pending_load_store[1] /\ 1 \in DOMAIN pending_load_store
    BY <1>1, <1>2
  <2>2. ASSUME NEW i \in DOMAIN Tail(pending_load_store)
        PROVE  \E j \in DOMAIN pending_load_store :
                 Tail(pending_load_store)[i] = pending_load_store[j]
    <3>1. /\ i + 1 \in DOMAIN pending_load_store
          /\ Tail(pending_load_store)[i] = pending_load_store[i + 1]
      BY <1>1, <1>2
    <3> QED
      BY <3>1
  <2> QED
    BY <2>1, <2>2
<1>4. e.id < ld_str_id /\ e.id \in Nat
  BY <1>3 DEF Typed, LoadsTyped, LoadRecords
<1>5. UnitsTyped' /\ RobTyped'
  BY <1>1 DEF Typed, UnitsTyped, RobTyped, EntryRecords, robVars, frontVars
<1>6. StationsTyped'
  <2>1. CASE e.station = -1
    BY <1>1, <2>1 DEF Typed, StationsTyped
  <2>2. CASE e.station # -1
    <3>1. e.station \in Stations
      BY <1>3, <2>2 DEF LoadRecords
    <3>2. \/ PendingStation = reservation_station[e.station]
          \/ PendingStation = AnswerOperands(reservation_station[e.station], e.addr)
      BY DEF PendingStation
    <3>5. reservation_station[e.station] \in StationRecords
      BY <3>1 DEF Typed, StationsTyped
    <3>3. PendingStation \in StationRecords
      <4>1. PICK st, a : st = reservation_station[e.station] /\ a = e.addr
        OBVIOUS
      <4>2. st \in StationRecords /\ AnswerOperands(st, a) \in StationRecords
        BY <3>5, <4>1, StationAnswered
      <4> QED
        BY <3>2, <4>1, <4>2
    <3>4. reservation_station' = [reservation_station EXCEPT ![e.station] = PendingStation]
      BY <1>1, <2>2
    <3> HIDE DEF e
    <3> QED
      BY <3>1, <3>3, <3>4, StationWritten DEF Typed, StationsTyped
  <2> QED
    BY <2>1, <2>2
<1>7. LoadsTyped'
  <2>1. CASE PendingCleared
    BY <1>1, <2>1 DEF Typed, LoadsTyped, memVars
  <2>2. CASE ~ PendingCleared
    <3>1. /\ load_store_queue' = Append(load_store_queue, e)
          /\ pending_load_store' = Tail(pending_load_store)
          /\ num_ld_str_inCycle' = num_ld_str_inCycle + 1
          /\ sent' = sent \union {e.id}
          /\ UNCHANGED ld_str_id
      BY <1>1, <2>2
    <3> HIDE DEF e
    <3>2. /\ load_store_queue' \in Seq(LoadRecords)
          /\ Len(load_store_queue') = Len(load_store_queue) + 1
          /\ Len(load_store_queue) \in Nat
      BY <1>2, <1>3, <3>1
    <3>3. Len(load_store_queue') <= LSQ_Size
      BY <1>1, <3>2, Sizing DEF RoomInLSQ
    <3>4. num_ld_str_inCycle' \in 0 .. ld_str_width + 1
      BY <1>1, <3>1, Sizing DEF RoomInLSQ, Typed, LoadsTyped
    <3>5. \A id \in sent' : id \in Nat /\ id < ld_str_id'
      BY <1>4, <3>1 DEF Typed, LoadsTyped
    <3>6. \A i \in DOMAIN pending_load_store' : pending_load_store'[i].id < ld_str_id'
      BY <1>3, <3>1 DEF Typed, LoadsTyped
    <3> QED
      BY <1>2, <1>3, <3>1, <3>2, <3>3, <3>4, <3>5, <3>6 DEF LoadsTyped
  <2> QED
    BY <2>1, <2>2
<1>8. Grown(ready_queue, ready_queue')
  <2>1. CASE PendingCleared
    <3>1. e.station \in Stations
      BY <1>3, <2>1 DEF LoadRecords, PendingCleared
    <3>2. ready_queue' = PushIfCleared(ready_queue, reservation_station', e.station)
      BY <1>1, <2>1
    <3> HIDE DEF e
    <3> QED
      BY <1>6, <3>1, <3>2, ReadyPushed DEF Typed, ReadyTyped, ReadyQueues,
                                          AllStations, StationsTyped
  <2>2. CASE ~ PendingCleared
    BY <1>1, <2>2 DEF Typed, ReadyTyped, Grown, ReadyQueues
  <2> QED
    BY <2>1, <2>2
<1>9. ReadyTyped' /\ FrontTyped' /\ Counted'
  <2>1. UNCHANGED ld_str_id
    BY <1>1 DEF memVars
  <2> QED
    BY <1>1, <1>6, <1>8, <2>1, WokenTypes DEF robVars
<1> QED
  BY <1>5, <1>6, <1>7, <1>9 DEF Kept

(***************************************************************************)
(* The issue of an instruction.                                            *)
(***************************************************************************)
\* The registers of the new instruction.
LEMMA ProducerTyped ==
  ASSUME Typed, NEW n \in 1 .. Len(program), NEW r \in Regs
  PROVE  Producer(program[n], r) \in Slots \union {-1}
BY DEF Typed, RobTyped, Producer

\* The station of an instruction that is issued, field by field.
LEMMA NewStationTyped ==
  ASSUME Typed, NEW n \in 1 .. Len(program), NextSlot \in Slots
  PROVE  /\ NewStation(n) \in StationRecords
         /\ NewStation(n).valid = TRUE /\ NewStation(n).rob = NextSlot
         /\ NewStation(n).ins = n /\ NewStation(n).addr = program[n].opr
         /\ NewStation(n).type = program[n].type
         /\ NewStation(n).reg = [r \in Regs |-> Producer(program[n], r)]
         /\ NewStation(n).mem = [i \in 1 .. 2 |->
              IF i \in Operands(program[n]) THEN Unborn ELSE Answered]
<1> DEFINE reg == [r \in Regs |-> Producer(program[n], r)]
           mem == [i \in 1 .. 2 |-> IF i \in Operands(program[n]) THEN Unborn ELSE Answered]
<1>1. NewStation(n) = [valid |-> TRUE, rob |-> NextSlot, ins |-> n, reg |-> reg,
                       addr |-> program[n].opr, mem |-> mem,
                       mispredicted |-> program[n].mispredicted,
                       type |-> program[n].type]
  BY DEF NewStation
<1>2. reg \in [Regs -> Slots \union {-1, -2}]
  BY ProducerTyped
<1>3. mem \in [1 .. 2 -> {Answered, Unborn, Asked}]
  OBVIOUS
<1>4. /\ program[n].opr \in [1 .. 2 -> Addresses]
      /\ program[n].type \in Types \ {AGU}
      /\ program[n].mispredicted \in BOOLEAN
  BY Instruction DEF Typed, CoreInv
<1>5. n \in Nat
  OBVIOUS
<1> HIDE DEF reg, mem
<1>6. NewStation(n) \in StationRecords
  BY <1>1, <1>2, <1>3, <1>4, <1>5 DEF StationRecords
<1>7. /\ NewStation(n).valid = TRUE /\ NewStation(n).rob = NextSlot
      /\ NewStation(n).ins = n /\ NewStation(n).addr = program[n].opr
      /\ NewStation(n).type = program[n].type
      /\ NewStation(n).reg = reg /\ NewStation(n).mem = mem
  BY <1>1
<1> QED
  BY <1>6, <1>7 DEF reg, mem

\* One station, c times.
Repeated(c, s) == [i \in 1 .. c |-> s]

\* A station repeated at the end of a list.
LEMMA RepeatedTyped ==
  ASSUME NEW q \in Seq(Stations), NEW c \in Nat, NEW s \in Stations
  PROVE  /\ q \o Repeated(c, s) \in Seq(Stations)
         /\ Len(q \o Repeated(c, s)) = Len(q) + c
         /\ q # <<>> => q \o Repeated(c, s) # <<>>
<1>1. Repeated(c, s) \in Seq(Stations) /\ Len(Repeated(c, s)) = c
  BY DEF Repeated
<1> HIDE DEF Repeated
<1>2. /\ q \o Repeated(c, s) \in Seq(Stations)
      /\ Len(q \o Repeated(c, s)) = Len(q) + c
  BY <1>1
<1>3. Len(q) \in Nat /\ (q = <<>> <=> Len(q) = 0)
  OBVIOUS
<1>4. q \o Repeated(c, s) = <<>> => Len(q \o Repeated(c, s)) = 0
  OBVIOUS
<1> QED
  BY <1>2, <1>3, <1>4

\* What an issue does, by its parts.
Issues(n, s) ==
  /\ n = Head(decode_buffer).ins /\ s = Min(FreeStations)
  /\ reservation_station' = [reservation_station EXCEPT ![s] = NewStation(n)]
  /\ ready_queue' =
       PushIfCleared([ready_queue EXCEPT ![AGU] =
                        ready_queue[AGU] \o Repeated(Cardinality(Operands(program[n])), s)],
                     reservation_station', s)
  /\ rob' = [WithDependencies(NewStation(n), s) EXCEPT
               ![NextSlot] = [ins |-> n, status |-> Issued, deps |-> <<>>]]
  /\ issue_ptr' = NextSlot /\ commit_ptr' = IF is_empty THEN 0 ELSE commit_ptr
  /\ reg_alias_table' = Renamed(program[n])
  /\ decode_buffer' = Tail(decode_buffer)

\* An issue takes a free station and the next slot for the first decoded instruction.
LEMMA IssueParts ==
  ASSUME Typed, Issue
  PROVE  \E n \in 1 .. Len(program), s \in Stations :
           /\ Issues(n, s) /\ ~ reservation_station[s].valid
           /\ has_size /\ decode_buffer # <<>>
           /\ NextSlot \in Slots
           /\ Len(decode_buffer') = Len(decode_buffer) - 1
           /\ SizeOf(issue_ptr', commit_ptr') = SizeOf(issue_ptr, commit_ptr) + 1
<1> DEFINE n == Head(decode_buffer).ins
           s == Min(FreeStations)
<1>1. /\ has_size /\ decode_buffer # <<>> /\ FreeStations # {}
      /\ decode_buffer' = Tail(decode_buffer)
      /\ reservation_station' = [reservation_station EXCEPT ![s] = NewStation(n)]
      /\ do_issue(WithDependencies(NewStation(n), s),
                  [ins |-> n, status |-> Issued, deps |-> <<>>])
      /\ reg_alias_table' = Renamed(program[n])
  BY DEF Issue, CanIssue
<1>2. ready_queue' =
       PushIfCleared([ready_queue EXCEPT ![AGU] =
                        ready_queue[AGU] \o Repeated(Cardinality(Operands(program[n])), s)],
                     reservation_station', s)
  BY DEF Issue, Repeated
<1>3. decode_buffer \in Seq(Decoding) /\ RingOK
  BY DEF Typed, CoreInv, Fetched, Decoding
<1>4. n \in 1 .. Len(program) /\ Len(decode_buffer') = Len(decode_buffer) - 1
  <2>1. Head(decode_buffer) \in Decoding
    BY <1>1, <1>3
  <2>2. Len(Tail(decode_buffer)) = Len(decode_buffer) - 1
    BY <1>1, <1>3
  <2> QED
    BY <1>1, <2>1, <2>2 DEF Decoding
<1>5. s \in Stations /\ ~ reservation_station[s].valid
  BY <1>1, FirstFree
<1>6. /\ rob' = [WithDependencies(NewStation(n), s) EXCEPT
                   ![NextSlot] = [ins |-> n, status |-> Issued, deps |-> <<>>]]
      /\ issue_ptr' = NextSlot /\ commit_ptr' = IF is_empty THEN 0 ELSE commit_ptr
  BY <1>1 DEF do_issue
<1>7. NextSlot \in Slots /\ SizeOf(issue_ptr', commit_ptr') = SizeOf(issue_ptr, commit_ptr) + 1
  BY <1>1, <1>3, <1>6, IssueMoves
<1>8. Issues(n, s)
  BY <1>1, <1>2, <1>6 DEF Issues
<1> HIDE DEF n, s
<1> QED
  BY <1>1, <1>4, <1>5, <1>7, <1>8

\* The entries of the ring with the new dependents.
LEMMA DependentsAdded ==
  ASSUME Typed, NEW n \in 1 .. Len(program), NEW s \in Stations, NextSlot \in Slots,
         Issues(n, s)
  PROVE  /\ rob' \in [Slots -> EntryRecords]
         /\ rob'[NextSlot] = [ins |-> n, status |-> Issued, deps |-> <<>>]
         /\ \A k \in Slots \ {NextSlot} :
              /\ rob'[k].ins = rob[k].ins /\ rob'[k].status = rob[k].status
              /\ rob'[k].deps = rob[k].deps \o
                   Repeated(Cardinality({r \in Regs : NewStation(n).reg[r] = k}), s)
<1> DEFINE ring == WithDependencies(NewStation(n), s)
           entry == [ins |-> n, status |-> Issued, deps |-> <<>>]
<1>1. ring = [k \in Slots |-> ring[k]]
  BY DEF WithDependencies
<1>2. ASSUME NEW k \in Slots
      PROVE  /\ ring[k] \in EntryRecords
             /\ ring[k].ins = rob[k].ins /\ ring[k].status = rob[k].status
             /\ ring[k].deps = rob[k].deps \o
                   Repeated(Cardinality({r \in Regs : NewStation(n).reg[r] = k}), s)
  <2> DEFINE c == Cardinality({r \in Regs : NewStation(n).reg[r] = k})
  <2>1. c \in Nat
    BY FewRegisters
  <2>2. ring[k] = [rob[k] EXCEPT !.deps = @ \o Repeated(c, s)]
    BY DEF WithDependencies, Repeated
  <2> HIDE DEF c, ring
  <2>3. rob[k] \in EntryRecords
    BY DEF Typed, RobTyped
  <2>4. rob[k].deps \in Seq(Stations)
    BY <2>3, EntryFields
  <2>5. PICK d \in Seq(Stations) : d = rob[k].deps \o Repeated(c, s)
    BY <2>1, <2>4, RepeatedTyped
  <2>6. PICK e : e = rob[k]
    OBVIOUS
  <2>7. ring[k] = [e EXCEPT !.deps = d]
    BY <2>2, <2>5, <2>6
  <2>8. ring[k] \in EntryRecords
    BY <2>3, <2>6, <2>7, EntryDeps
  <2>9. ring[k].ins = e.ins /\ ring[k].status = e.status /\ ring[k].deps = d
    BY <2>3, <2>6, <2>7 DEF EntryRecords
  <2> QED
    BY <2>5, <2>6, <2>8, <2>9 DEF c
<1>3. rob' = [ring EXCEPT ![NextSlot] = entry]
  BY DEF Issues
<1>4. entry \in EntryRecords
  <2>1. Len(program) \in Nat
    BY Rings
  <2> QED
    BY <2>1 DEF EntryRecords, Issued, Committed
<1> HIDE DEF ring, entry
<1>5. /\ rob' = [k \in Slots |-> IF k = NextSlot THEN entry ELSE ring[k]]
  BY <1>1, <1>3
<1>6. rob' \in [Slots -> EntryRecords]
  BY <1>2, <1>4, <1>5
<1>7. rob'[NextSlot] = entry /\ \A k \in Slots \ {NextSlot} : rob'[k] = ring[k]
  BY <1>5
<1> QED
  BY <1>2, <1>6, <1>7 DEF entry

\* The ready queues after an issue.
LEMMA OperandsReady ==
  ASSUME Typed, NEW n \in 1 .. Len(program), NEW s \in Stations, StationsTyped',
         Issues(n, s)
  PROVE  \E generated \in ReadyQueues : \E c \in 0 .. 2 :
           /\ c = Cardinality(Operands(program[n]))
           /\ generated = [ready_queue EXCEPT ![AGU] = ready_queue[AGU] \o Repeated(c, s)]
           /\ Len(generated[AGU]) = Len(ready_queue[AGU]) + c
           /\ \A t \in Types : ready_queue[t] # <<>> => generated[t] # <<>>
           /\ ready_queue' = PushIfCleared(generated, reservation_station', s)
           /\ Grown(generated, ready_queue')
<1> DEFINE c == Cardinality(Operands(program[n]))
           q == ready_queue[AGU]
           generated == [ready_queue EXCEPT ![AGU] = q \o Repeated(c, s)]
<1>1. c \in 0 .. 2
  BY FewOperands DEF Operands
<1>2. ready_queue' = PushIfCleared(generated, reservation_station', s)
  BY DEF Issues
<1> HIDE DEF c
<1>3. ready_queue \in [Types -> Seq(Stations)] /\ AGU \in Types /\ q \in Seq(Stations)
  BY Sizing DEF Typed, ReadyTyped
<1>4. /\ q \o Repeated(c, s) \in Seq(Stations)
      /\ Len(q \o Repeated(c, s)) = Len(q) + c
      /\ q # <<>> => q \o Repeated(c, s) # <<>>
  <2>1. c \in Nat
    BY <1>1
  <2>2. q \in Seq(Stations)
    BY <1>3
  <2> HIDE DEF q
  <2> QED
    BY <2>1, <2>2, RepeatedTyped
<1>5. generated \in ReadyQueues
  BY <1>3, <1>4 DEF ReadyQueues
<1>6. Len(generated[AGU]) = Len(ready_queue[AGU]) + c
  BY <1>3, <1>4
<1>7. \A t \in Types : ready_queue[t] # <<>> => generated[t] # <<>>
  BY <1>3, <1>4
<1>8. generated = [ready_queue EXCEPT ![AGU] = ready_queue[AGU] \o Repeated(c, s)]
  OBVIOUS
<1> HIDE DEF generated
<1>9. Grown(generated, ready_queue')
  BY <1>2, <1>5, ReadyPushed DEF StationsTyped, AllStations
<1> QED
  BY <1>1, <1>2, <1>5, <1>6, <1>7, <1>8, <1>9 DEF c

\* issue_instruction keeps the types.
LEMMA IssueTypes ==
  ASSUME Typed, Issue
  PROVE  Kept'
<1>1. PICK n \in 1 .. Len(program), s \in Stations :
           /\ Issues(n, s) /\ ~ reservation_station[s].valid
           /\ has_size /\ decode_buffer # <<>>
           /\ NextSlot \in Slots
           /\ Len(decode_buffer') = Len(decode_buffer) - 1
           /\ SizeOf(issue_ptr', commit_ptr') = SizeOf(issue_ptr, commit_ptr) + 1
  BY IssueParts
<1>2. UNCHANGED <<aged, memVars, program, num_inst_fetched, execution_unit,
                 completed_inst, num_inst_commited, penalty>>
  BY DEF Issue
<1>3. StationsTyped'
  BY <1>1, NewStationTyped, StationWritten DEF Typed, StationsTyped, Issues
<1>4. PICK generated \in ReadyQueues, c \in 0 .. 2 :
           /\ Len(generated[AGU]) = Len(ready_queue[AGU]) + c
           /\ \A t \in Types : ready_queue[t] # <<>> => generated[t] # <<>>
           /\ Grown(generated, ready_queue')
  BY <1>1, <1>3, OperandsReady
<1>5. ReadyTyped'
  <2>1. ready_queue' \in [Types -> Seq(Stations)]
    BY <1>4 DEF Grown, ReadyQueues
  <2>2. \A t \in Types : ready_queue[t] # <<>> => ready_queue'[t] # <<>>
    BY <1>4 DEF Grown
  <2>3. aged' = aged
    BY <1>2
  <2> QED
    BY <2>1, <2>2, <2>3 DEF Typed, ReadyTyped
<1>6. UnitsTyped' /\ LoadsTyped'
  <2>1. UnitsTyped'
    BY <1>2 DEF Typed, UnitsTyped
  <2>2. UNCHANGED memVars
    BY <1>2
  <2>3. LoadsTyped'
    BY <2>2 DEF Typed, LoadsTyped, memVars
  <2> QED
    BY <2>1, <2>3
<1>7. FrontTyped'
  <2> DEFINE a == Len(decode_buffer)
             a1 == Len(decode_buffer')
  <2>1. a \in Nat /\ a1 = a - 1 /\ a <= decode_buffer_size
    BY <1>1, Rings DEF Typed, FrontTyped
  <2> HIDE DEF a, a1
  <2>2. a1 <= decode_buffer_size
    BY <2>1, Sizing
  <2>3. num_inst_fetched' <= Len(program') /\ penalty' \in 0 .. branch_penalty
    BY <1>2 DEF Typed, FrontTyped
  <2> QED
    BY <2>2, <2>3 DEF FrontTyped, a1
<1>8. RobTyped'
  <2>1. rob' \in [Slots -> EntryRecords]
    BY <1>1, DependentsAdded
  <2>2. EntryRecords' = EntryRecords
    BY <1>2 DEF EntryRecords
  <2>3. reg_alias_table' \in [Regs -> Slots \union {-1}]
    BY <1>1 DEF Issues, Renamed, Typed, RobTyped
  <2> QED
    BY <2>1, <2>2, <2>3 DEF RobTyped
<1>9. Counted'
  <2> DEFINE a == Len(ready_queue[AGU])
             b == Len(execution_unit[AGU])
             a1 == Len(ready_queue'[AGU])
             z == SizeOf(issue_ptr, commit_ptr)
             z1 == SizeOf(issue_ptr', commit_ptr')
  <2>1. /\ a \in Nat /\ b \in Nat /\ a1 = a + c /\ z \in Nat /\ z1 = z + 1
    BY <1>1, <1>4, Rings DEF Grown
  <2>2. IssuedSoFar' = IssuedSoFar + 1
    BY <1>1, <1>2, Rings DEF IssuedSoFar
  <2>3. /\ num_inst_commited \in Nat /\ IssuedSoFar \in Int /\ ld_str_id \in Nat
        /\ num_inst_commited + z = IssuedSoFar
        /\ ld_str_id + (a + b) <= 2 * IssuedSoFar + num_inst_commited
    BY Numbers DEF Typed, Counted
  <2> HIDE DEF a, b, a1, z, z1
  <2>4. /\ num_inst_commited + z1 = IssuedSoFar'
        /\ ld_str_id + (a1 + b) <= 2 * IssuedSoFar' + num_inst_commited
    BY <2>1, <2>2, <2>3
  <2>5. UNCHANGED <<num_inst_commited, ld_str_id, execution_unit>>
    BY <1>2 DEF memVars
  <2> QED
    BY <2>3, <2>4, <2>5 DEF Counted, a, b, a1, z, z1
<1> QED
  BY <1>3, <1>5, <1>6, <1>7, <1>8, <1>9 DEF Kept

\* So does every step.
LEMMA TypedStep ==
  ASSUME Typed, [Next]_vars
  PROVE  Typed'
<1>1. CoreInv' /\ QueueStep
  BY CoreStep DEF Typed
<1>2. UNCHANGED program
  BY DEF Next, Core, Answer, vars, Begin, EndDecode, EndIssue, DispatchStalls, Dispatch,
         DispatchNothing, Complete, CompleteNothing, CompleteAGU, EndBroadcast,
         EndCommit, EndCompletion, MemoryAnswers, Pending, EndPending, Stalled, Age,
         Decode, Issue, Commit, Broadcast, frontVars
<1>3. QueueTyped'
  <2>1. Queue \in Seq(1 .. Len(program))
    BY DEF Typed, QueueTyped
  <2> DEFINE q == Queue
             q1 == Queue'
             T == 1 .. Len(program)
  <2>2. \/ q1 = q \/ \E e \in T : q1 = Append(q, e)
        \/ q # <<>> /\ q1 = Tail(q)
    BY <1>1 DEF QueueStep
  <2> HIDE DEF q, T
  <2>3. q \in Seq(T) => q1 \in Seq(T)
    BY <2>2
  <2> QED
    BY <1>2, <2>1, <2>3 DEF QueueTyped, q, T
<1>4. Kept'
  <2>1. CASE UNCHANGED <<robVars, stationVars, memVars, frontVars, reg_alias_table,
                     execution_unit, completed_inst, num_inst_commited, penalty>>
    BY <2>1, StillTypes
  <2>2. \/ UNCHANGED <<robVars, stationVars, memVars, frontVars, reg_alias_table,
                     execution_unit, completed_inst, num_inst_commited, penalty>>
        \/ Stalled \/ Decode \/ Issue \/ CompleteAGU \/ Broadcast \/ Commit \/ Pending \/ Age
        \/ \E t \in Types : DispatchStalls(t) \/ Dispatch(t) \/ Complete(t)
        \/ \E id \in Ids : MemoryAnswers(id)
    BY DEF Next, Core, Answer, vars, Begin, EndDecode, EndIssue,
         DispatchNothing, CompleteNothing, EndBroadcast, EndCommit, EndCompletion, EndPending
  <2> QED
    BY <2>1, <2>2, StalledTypes, DecodeTypes, IssueTypes, CompleteAGUTypes, BroadcastTypes,
       CommitTypes, PendingTypes, AgeTypes, DispatchStallsTypes, DispatchTypes,
       CompleteTypes, MemoryAnswersTypes
<1> QED
  BY <1>1, <1>3, <1>4 DEF Typed, Kept

\* It implies the type invariant.
LEMMA TypedImplies ==
  ASSUME Typed
  PROVE  CoreTypeOK
<1>1. /\ Len(program) \in Nat /\ num_inst_fetched \in Nat /\ Len(decode_buffer) \in Nat
      /\ SizeOf(issue_ptr, commit_ptr) \in Nat
  BY Rings
<1>2. /\ num_inst_commited \in Nat /\ ld_str_id \in Nat /\ Unasked \in Nat
      /\ num_inst_commited + SizeOf(issue_ptr, commit_ptr) = IssuedSoFar
      /\ ld_str_id + Unasked <= 2 * IssuedSoFar + num_inst_commited
  BY Numbers
<1>3. IssuedSoFar <= num_inst_fetched /\ IssuedSoFar \in Int
  BY <1>1 DEF IssuedSoFar
<1>4. num_inst_fetched <= Len(program)
  BY DEF Typed, FrontTyped
<1>5. num_inst_commited \in 0 .. num_inst_fetched
  BY <1>1, <1>2, <1>3
<1>6. ld_str_id <= 3 * Len(program)
  BY <1>1, <1>2, <1>3, <1>4, <1>5
<1>7. ld_str_id \in Ids /\ sent \subseteq Ids
  BY <1>1, <1>2, <1>6 DEF Ids, Typed, LoadsTyped
<1>8. issue_ptr \in Slots \union {-1} /\ commit_ptr \in Slots \union {-1}
  BY DEF Typed, CoreInv, RingOK, Pointers
<1>9. \A s \in Stations :
       /\ reservation_station[s].reg \in [Regs -> Slots \union {-1, -2}]
       /\ reservation_station[s].mem \in [1 .. 2 -> {Answered, Unborn, Asked}]
  BY StationFields DEF Typed, StationsTyped
<1>10. num_inst_fetched \in 0 .. Len(program)
  BY <1>1, <1>4
<1> QED
  BY <1>5, <1>7, <1>8, <1>9, <1>10
  DEF CoreTypeOK, Typed, RobTyped, EntryRecords, FrontTyped, ReadyTyped, UnitsTyped,
      LoadsTyped

\* The types of the core's state, for every program and every size: the decode buffer,
\* the units and the load/store queue never hold more than they are made for, a cycle
\* asks the caches for one load or store more than ld_str_width at most, and no more
\* instructions are committed than were fetched.
THEOREM CoreTypes == Spec => []CoreTypeOK
<1>1. Init => Typed
  BY TypedInit
<1>2. Typed /\ [Next]_vars => Typed'
  BY TypedStep
<1>3. Typed => CoreTypeOK
  BY TypedImplies
<1> QED
  BY <1>1, <1>2, <1>3, PTL DEF Spec

\* A pending load that finds a store to its address in the queue.
ForwardsPending ==
  /\ stage = "pending" /\ PendingMoves
  /\ Head(pending_load_store).station # -1
  /\ found_in_LSQ(Head(pending_load_store).addr)

\* No instruction reads an address twice.
DistinctOperands ==
  \A p \in Programs : \A n \in DOMAIN p :
    p[n].opr[1] = p[n].opr[2] => p[n].opr[1] = NoAddr

\* A station that holds an instruction.
Held(s) == reservation_station[s].valid

\* The instruction whose completion is broadcast next.
IsBroadcast(k) == completed_inst # <<>> /\ k = Head(completed_inst)

\* What completed waits only until it is broadcast, and the first of it is still
\* marked as dispatched when the stage begins.
StageOK ==
  /\ stage \notin {"check", "broadcast"} => completed_inst = <<>>
  /\ \A k \in Slots : IsBroadcast(k) /\ stage # "broadcast" => rob[k].status = Dispatched

\* An instruction that is issued is in one station.
HoldersOK ==
  /\ \A s \in Stations : Held(s) =>
       /\ reservation_station[s].rob \in InUse
       /\ rob[reservation_station[s].rob].status = Issued
       /\ rob[reservation_station[s].rob].ins = reservation_station[s].ins
  /\ \A s1, s2 \in Stations :
       Held(s1) /\ Held(s2) /\ reservation_station[s1].rob = reservation_station[s2].rob
         => s1 = s2
  /\ \A k \in InUse : rob[k].status = Issued =>
       \E s \in Stations : Held(s) /\ reservation_station[s].rob = k

\* One that is dispatched is in one place, a unit or the list of those completed,
\* which stands for the type AGU here.
Working(k) ==
  /\ k \in InUse
  /\ rob[k].status = Dispatched \/ (rob[k].status = Executed /\ IsBroadcast(k))

\* The instruction of slot k, in a unit.
UnitsOn(k) == {u \in UnitRecords : u.rob = k}

\* Slot k is counted once at place p, a type of units or AGU for the list, or nowhere.
WorkAt(k, p) ==
  /\ \A t \in Types \ {AGU} :
       Count(execution_unit[t], UnitsOn(k)) = IF t = p THEN 1 ELSE 0
  /\ Count(completed_inst, {k}) = IF p = AGU THEN 1 ELSE 0

\* An instruction at work is in one place, and what is in a place is at work.
WorkOK ==
  \A k \in Slots : \E p \in Types \union {-1} :
    WorkAt(k, p) /\ (p # -1 <=> Working(k))

\* What a station waits for, of each kind.
Registers(st, k) == {r \in Regs : st.reg[r] = k}
Operand(st, m) == {i \in 1 .. 2 : st.mem[i] = m}
OperandAt(st, m, a) == {i \in 1 .. 2 : st.mem[i] = m /\ st.addr[i] = a}

\* The units and the loads that a station waits for.
UnitsAt(s) == {u \in UnitRecords : u.station = s}
LoadsAt(s, a) == {e \in LoadRecords : e.station = s /\ e.addr = a}

\* A station is in the list of dependents of a slot as often as it waits for it.
DependentsOf(s) ==
  \A k \in Slots : Count(rob[k].deps, {s}) =
    IF Held(s) THEN Cardinality(Registers(reservation_station[s], k)) ELSE 0

\* It has an address in the AGU's queue or units for each operand not generated yet.
TurnsOf(s) ==
  Count(ready_queue[AGU], {s}) + Count(execution_unit[AGU], UnitsAt(s)) =
    IF Held(s) THEN Cardinality(Operand(reservation_station[s], Unborn)) ELSE 0

\* It has a load in one of the two queues for each operand that is asked for.
LoadsOf(s) ==
  \A a \in Addresses :
    Count(load_store_queue, LoadsAt(s, a)) + Count(pending_load_store, LoadsAt(s, a)) =
      IF Held(s) THEN Cardinality(OperandAt(reservation_station[s], Asked, a)) ELSE 0

\* It is in the queue of its type once, when it waits for nothing.
ReadyOf(s) ==
  \A t \in Types \ {AGU} : Count(ready_queue[t], {s}) =
    IF Held(s) /\ Cleared(reservation_station[s]) /\ t = reservation_station[s].type
    THEN 1 ELSE 0

\* The four of them, for every station.
DependentsOK == \A s \in Stations : DependentsOf(s)
TurnsOK == \A s \in Stations : TurnsOf(s)
LoadsOK == \A s \in Stations : LoadsOf(s)
ReadyOK == \A s \in Stations : ReadyOf(s)

\* Who is waited for is in the ring and has not executed.
RegistersOK ==
  \A s \in Stations : Held(s) =>
    \A r \in Regs : reservation_station[s].reg[r] # -1 =>
      /\ reservation_station[s].reg[r] \in InUse
      /\ reservation_station[s].reg[r] # reservation_station[s].rob

\* Once its completion has been broadcast, nothing depends on an instruction.
ExecutedOK ==
  \A k \in InUse : rob[k].status = Executed /\ ~ IsBroadcast(k) => rob[k].deps = <<>>

\* A register is renamed to a slot in use, or to none.
RenamedOK == \A r \in Regs : reg_alias_table[r] # -1 => reg_alias_table[r] \in InUse

\* The operands of a station are two or one of them is none.
Sound(st) ==
  /\ \A i \in 1 .. 2 : st.addr[i] = NoAddr => st.mem[i] = Answered
  /\ st.addr[1] = st.addr[2] => st.addr[1] = NoAddr

\* The operands of every station in use.
OperandsOK == \A s \in Stations : Held(s) => Sound(reservation_station[s])

\* No station waits for a store.
StoresOK ==
  /\ \A i \in DOMAIN load_store_queue :
       load_store_queue[i].store => load_store_queue[i].station = -1
  /\ \A i \in DOMAIN pending_load_store :
       pending_load_store[i].store => pending_load_store[i].station = -1

\* The instructions follow one another, in the ring and behind it.
OrderOK ==
  /\ \A i \in 1 .. SizeOf(issue_ptr, commit_ptr) :
       rob[SlotAt(commit_ptr, i)].ins = num_inst_commited + i
  /\ \A i \in DOMAIN decode_buffer : decode_buffer[i].ins = IssuedSoFar + i

\* A register is renamed to its last writer, unless that has left the ring.
RenamingOK ==
  \A r \in Regs : \A i \in LastWriter(IssuedSoFar + 1, r) :
    IF reg_alias_table[r] = -1 THEN i <= num_inst_commited
    ELSE rob[reg_alias_table[r]].ins = i

\* A station waits for the last writer before it, unless that has executed.
ReadsOK ==
  \A s \in Stations : Held(s) =>
    \A r \in program[reservation_station[s].ins].rr :
      \A i \in LastWriter(reservation_station[s].ins, r) :
        IF reservation_station[s].reg[r] = -1 THEN HasExecuted(i)
        ELSE rob[reservation_station[s].reg[r]].ins = i

\* Where the instructions are, and what wakes each of them up.
Strong ==
  /\ StageOK /\ HoldersOK /\ WorkOK
  /\ DependentsOK /\ TurnsOK /\ LoadsOK /\ ReadyOK
  /\ RegistersOK /\ ExecutedOK /\ RenamedOK /\ OperandsOK /\ StoresOK

\* The order of the instructions, and whose results they read.
Reading == OrderOK /\ RenamingOK /\ ReadsOK

(***************************************************************************)
(* The slots in use.                                                       *)
(***************************************************************************)
LEMMA InUseIs ==
  ASSUME RingOK
  PROVE  /\ InUse = {SlotAt(commit_ptr, i) : i \in 1 .. SizeOf(issue_ptr, commit_ptr)}
         /\ InUse \subseteq Slots
<1>1. Size = SizeOf(issue_ptr, commit_ptr)
  BY DEF Size, SizeOf, is_empty
<1>2. SizeOf(issue_ptr, commit_ptr) \in Nat
  BY SizeRange, RobSizeAssumption DEF RingOK
<1> DEFINE n == SizeOf(issue_ptr, commit_ptr)
<1>3. InUse = {(commit_ptr + i) % ROB_Size : i \in 0 .. n - 1}
  BY <1>1 DEF InUse
<1> HIDE DEF n
<1>4. commit_ptr \in Int
  BY RobSizeAssumption DEF RingOK, Pointers, Slots
<1>5. ASSUME NEW i \in 0 .. n - 1
      PROVE  i + 1 \in 1 .. n /\ (commit_ptr + i) % ROB_Size = SlotAt(commit_ptr, i + 1)
  <2>1. i + 1 \in 1 .. n /\ commit_ptr + (i + 1) - 1 = commit_ptr + i
    BY <1>2, <1>4 DEF n
  <2> QED
    BY <2>1 DEF SlotAt
<1>6. ASSUME NEW i \in 1 .. n
      PROVE  i - 1 \in 0 .. n - 1 /\ (commit_ptr + (i - 1)) % ROB_Size = SlotAt(commit_ptr, i)
  <2>1. i - 1 \in 0 .. n - 1 /\ commit_ptr + i - 1 = commit_ptr + (i - 1)
    BY <1>2, <1>4 DEF n
  <2> QED
    BY <2>1 DEF SlotAt
<1>7. InUse = {SlotAt(commit_ptr, i) : i \in 1 .. n}
  BY <1>3, <1>5, <1>6
<1>8. \A i \in 1 .. n : SlotAt(commit_ptr, i) \in Slots
  BY InSlots DEF n
<1> QED
  BY <1>7, <1>8 DEF n

\* The slots in use are those between the pointers.
LEMMA InUseSame ==
  ASSUME UNCHANGED <<issue_ptr, commit_ptr>>
  PROVE  InUse' = InUse
BY DEF InUse, Size, is_empty

\* Two entries are in two slots.
LEMMA SlotsDiffer ==
  ASSUME RingOK, NEW i \in 1 .. SizeOf(issue_ptr, commit_ptr),
         NEW j \in 1 .. SizeOf(issue_ptr, commit_ptr),
         SlotAt(commit_ptr, i) = SlotAt(commit_ptr, j)
  PROVE  i = j
<1>1. ROB_Size \in Nat /\ ROB_Size > 2
  BY RobSizeAssumption
<1>2. SizeOf(issue_ptr, commit_ptr) \in 0 .. ROB_Size
  BY SizeRange DEF RingOK
<1>3. commit_ptr \in Slots
  BY <1>2 DEF RingOK, Pointers, SizeOf
<1>4. i \in 1 .. ROB_Size /\ j \in 1 .. ROB_Size
  BY <1>1, <1>2
<1>5. /\ SlotAt(commit_ptr, i) = IF commit_ptr + i - 1 < ROB_Size
                                 THEN commit_ptr + i - 1
                                 ELSE commit_ptr + i - 1 - ROB_Size
      /\ SlotAt(commit_ptr, j) = IF commit_ptr + j - 1 < ROB_Size
                                 THEN commit_ptr + j - 1
                                 ELSE commit_ptr + j - 1 - ROB_Size
  BY <1>3, <1>4, SlotsAt
<1> DEFINE x == SlotAt(commit_ptr, i)
           y == SlotAt(commit_ptr, j)
           c == commit_ptr
<1>6. /\ x = IF c + i - 1 < ROB_Size THEN c + i - 1 ELSE c + i - 1 - ROB_Size
      /\ y = IF c + j - 1 < ROB_Size THEN c + j - 1 ELSE c + j - 1 - ROB_Size
      /\ x = y /\ c \in 0 .. ROB_Size - 1
  BY <1>3, <1>5 DEF Slots
<1> HIDE DEF x, y, c
<1> QED
  BY <1>1, <1>4, <1>6

\* An issue takes one more slot.
LEMMA InUseIssue ==
  ASSUME RingOK, has_size,
         issue_ptr' = NextSlot, commit_ptr' = IF is_empty THEN 0 ELSE commit_ptr
  PROVE  NextSlot \notin InUse /\ InUse' = InUse \union {NextSlot}
<1> DEFINE n == SizeOf(issue_ptr, commit_ptr)
           n1 == SizeOf(issue_ptr', commit_ptr')
<1>1. /\ RingOK' /\ n1 = n + 1
      /\ SlotAt(commit_ptr', n1) = NextSlot
      /\ \A i \in 1 .. n :
           /\ SlotAt(commit_ptr', i) = SlotAt(commit_ptr, i)
           /\ SlotAt(commit_ptr, i) \in Slots \ {NextSlot}
  BY IssueMoves
<1>2. InUse = {SlotAt(commit_ptr, i) : i \in 1 .. n}
  BY InUseIs
<1>3. RingOK => InUse = {SlotAt(commit_ptr, i) : i \in 1 .. SizeOf(issue_ptr, commit_ptr)}
  BY InUseIs
<1>4. (RingOK => InUse = {SlotAt(commit_ptr, i) : i \in 1 .. SizeOf(issue_ptr, commit_ptr)})'
  BY InUseIs, PTL
<1>5. InUse' = {SlotAt(commit_ptr', i) : i \in 1 .. n1}
  BY <1>1, <1>4
<1>6. n \in Nat
  BY SizeRange, RobSizeAssumption DEF RingOK
<1> HIDE DEF n, n1
<1>7. 1 .. n1 = (1 .. n) \union {n1}
  BY <1>1, <1>6
<1>8. InUse' = {SlotAt(commit_ptr', i) : i \in 1 .. n} \union {NextSlot}
  BY <1>1, <1>5, <1>7
<1>9. {SlotAt(commit_ptr', i) : i \in 1 .. n} = InUse
  BY <1>1, <1>2
<1> QED
  BY <1>1, <1>2, <1>8, <1>9

\* A commit gives the oldest one back.
LEMMA InUseCommit ==
  ASSUME RingOK, ~ is_empty, do_commit
  PROVE  commit_ptr \in InUse /\ InUse' = InUse \ {commit_ptr}
<1> DEFINE n == SizeOf(issue_ptr, commit_ptr)
           n1 == SizeOf(issue_ptr', commit_ptr')
<1>1. /\ commit_ptr \in Slots /\ RingOK' /\ n \in 1 .. ROB_Size /\ n1 = n - 1
      /\ \A i \in 1 .. n - 1 :
           /\ SlotAt(commit_ptr', i) = SlotAt(commit_ptr, i + 1)
           /\ SlotAt(commit_ptr, i + 1) \in Slots
  BY CommitMoves
<1>2. InUse = {SlotAt(commit_ptr, i) : i \in 1 .. n}
  BY InUseIs
<1>4. (RingOK => InUse = {SlotAt(commit_ptr, i) : i \in 1 .. SizeOf(issue_ptr, commit_ptr)})'
  BY InUseIs, PTL
<1>5. InUse' = {SlotAt(commit_ptr', i) : i \in 1 .. n1}
  BY <1>1, <1>4
<1>6. SlotAt(commit_ptr, 1) = commit_ptr
  <2>1. 1 \in 1 .. ROB_Size /\ ROB_Size \in Nat /\ ROB_Size > 2
    BY RobSizeAssumption
  <2> QED
    BY <1>1, <2>1, SlotsAt DEF Slots
<1>7. \A i \in 2 .. n : SlotAt(commit_ptr, i) # commit_ptr
  <2>1. ASSUME NEW i \in 2 .. n
        PROVE  SlotAt(commit_ptr, i) # commit_ptr
    <3>1. i \in 1 .. n /\ 1 \in 1 .. n /\ i # 1
      BY <1>1, RobSizeAssumption
    <3> QED
      BY <1>6, <3>1, SlotsDiffer
  <2> QED
    BY <2>1
<1>8. n \in Nat \ {0}
  BY <1>1, RobSizeAssumption
<1> HIDE DEF n, n1
<1>9. 1 .. n = {1} \union (2 .. n) /\ 1 .. n1 = 1 .. n - 1
  BY <1>1, <1>8
<1>10. InUse = {commit_ptr} \union {SlotAt(commit_ptr, i) : i \in 2 .. n}
  BY <1>2, <1>6, <1>9
<1>11. {SlotAt(commit_ptr', i) : i \in 1 .. n1} = {SlotAt(commit_ptr, i) : i \in 2 .. n}
  <2>1. \A i \in 1 .. n1 : i + 1 \in 2 .. n /\ SlotAt(commit_ptr', i) = SlotAt(commit_ptr, i + 1)
    BY <1>1, <1>8, <1>9
  <2>2. \A i \in 2 .. n : i - 1 \in 1 .. n1 /\ (i - 1) + 1 = i
    <3>1. n1 = n - 1
      BY <1>1
    <3> QED
      BY <1>8, <3>1
  <2>3. \A i \in 2 .. n : SlotAt(commit_ptr', i - 1) = SlotAt(commit_ptr, i)
    BY <2>1, <2>2
  <2> QED
    BY <2>1, <2>2, <2>3
<1> QED
  BY <1>5, <1>7, <1>10, <1>11

\* The types the steps use.
LEMMA TypedFacts ==
  ASSUME Typed
  PROVE  /\ reservation_station \in AllStations /\ ready_queue \in ReadyQueues
         /\ execution_unit \in [Types -> Seq(UnitRecords)]
         /\ completed_inst \in Seq(Slots)
         /\ load_store_queue \in Seq(LoadRecords) /\ pending_load_store \in Seq(LoadRecords)
         /\ rob \in [Slots -> EntryRecords] /\ RingOK /\ InUse \subseteq Slots
         /\ AGU \in Types
  BY InUseIs, Sizing
     DEF Typed, StationsTyped, ReadyTyped, UnitsTyped, LoadsTyped, RobTyped, CoreInv,
         AllStations, ReadyQueues

(***************************************************************************)
(* What does not depend on what changed.                                   *)
(***************************************************************************)
LEMMA HoldersFrame ==
  ASSUME HoldersOK, UNCHANGED <<reservation_station, rob, issue_ptr, commit_ptr>>
  PROVE  HoldersOK'
<1>1. InUse' = InUse
  BY InUseSame
<1> QED
  BY <1>1 DEF HoldersOK, Held

\* Steps that do not touch it keep each part of the invariant: what is at work,
LEMMA WorkFrame ==
  ASSUME WorkOK, InUse' = InUse, \A k \in Slots : rob'[k].status = rob[k].status,
         UNCHANGED completed_inst, InUse \subseteq Slots,
         \A t \in Types \ {AGU}, k \in Slots :
           Count(execution_unit'[t], UnitsOn(k)) = Count(execution_unit[t], UnitsOn(k))
  PROVE  WorkOK'
<1>1. ASSUME NEW k \in Slots
      PROVE  Working(k)' <=> Working(k)
  BY DEF Working, IsBroadcast
<1>2. ASSUME NEW k \in Slots, NEW p
      PROVE  WorkAt(k, p)' <=> WorkAt(k, p)
  BY DEF WorkAt, UnitsOn
<1> QED
  BY <1>1, <1>2 DEF WorkOK

\* the dependents,
LEMMA DependentsFrame ==
  ASSUME DependentsOK, UNCHANGED <<reservation_station, rob>>
  PROVE  DependentsOK'
BY DEF DependentsOK, DependentsOf, Held, Registers

\* the turns of the AGU,
LEMMA TurnsFrame ==
  ASSUME TurnsOK, UNCHANGED <<reservation_station, ready_queue, execution_unit>>
  PROVE  TurnsOK'
BY DEF TurnsOK, TurnsOf, Held, Operand, UnitsAt

\* the loads,
LEMMA LoadsFrame ==
  ASSUME LoadsOK, UNCHANGED <<reservation_station, load_store_queue, pending_load_store>>
  PROVE  LoadsOK'
BY DEF LoadsOK, LoadsOf, Held, OperandAt, LoadsAt

\* the ready queues,
LEMMA ReadyFrame ==
  ASSUME ReadyOK, UNCHANGED <<reservation_station, ready_queue>>
  PROVE  ReadyOK'
BY DEF ReadyOK, ReadyOf, Held, Cleared

\* whom the stations wait for,
LEMMA RingFrame ==
  ASSUME RegistersOK, ExecutedOK, RenamedOK, UNCHANGED <<reservation_station, rob,
           issue_ptr, commit_ptr, completed_inst, reg_alias_table>>
  PROVE  RegistersOK' /\ ExecutedOK' /\ RenamedOK'
<1>1. InUse' = InUse
  BY InUseSame
<1> QED
  BY <1>1 DEF RegistersOK, ExecutedOK, RenamedOK, Held, IsBroadcast

\* the operands,
LEMMA OperandsFrame ==
  ASSUME OperandsOK, UNCHANGED reservation_station
  PROVE  OperandsOK'
BY DEF OperandsOK, Held, Sound

\* and the stores.
LEMMA StoresFrame ==
  ASSUME StoresOK, UNCHANGED <<load_store_queue, pending_load_store>>
  PROVE  StoresOK'
BY DEF StoresOK

\* A step from stage to stage, at most.
LEMMA StageFrame ==
  ASSUME StageOK, UNCHANGED <<completed_inst, rob>>,
         \/ UNCHANGED stage
         \/ completed_inst = <<>>
         \/ stage = "check" /\ stage' = "broadcast"
  PROVE  StageOK'
BY DEF StageOK, IsBroadcast

(***************************************************************************)
(* Counting stations, units and loads.                                     *)
(***************************************************************************)
LEMMA CountStation ==
  ASSUME NEW q \in Seq(Stations), NEW x \in Stations
  PROVE  /\ Append(q, x) \in Seq(Stations)
         /\ \A s \in Stations :
              /\ Count(q, {s}) \in Nat
              /\ Count(Append(q, x), {s}) = Count(q, {s}) + IF x = s THEN 1 ELSE 0
<1>1. Append(q, x) \in Seq(Stations)
  OBVIOUS
<1>2. ASSUME NEW s \in Stations
      PROVE  /\ Count(q, {s}) \in Nat
             /\ Count(Append(q, x), {s}) = Count(q, {s}) + IF x = s THEN 1 ELSE 0
  <2>1. Count(Append(q, x), {s}) = Count(q, {s}) + IF x \in {s} THEN 1 ELSE 0
    BY CountAppend
  <2>2. Count(q, {s}) \in Nat
    BY CountTyped
  <2> QED
    BY <2>1, <2>2
<1> QED
  BY <1>1, <1>2

\* A queue of stations without its head.
LEMMA CountFirstStation ==
  ASSUME NEW q \in Seq(Stations), q # <<>>
  PROVE  /\ Head(q) \in Stations /\ Tail(q) \in Seq(Stations)
         /\ \A s \in Stations :
              /\ Count(Tail(q), {s}) \in Nat
              /\ Count(q, {s}) = Count(Tail(q), {s}) + IF Head(q) = s THEN 1 ELSE 0
<1>1. Head(q) \in Stations /\ Tail(q) \in Seq(Stations)
  OBVIOUS
<1>2. ASSUME NEW s \in Stations
      PROVE  /\ Count(Tail(q), {s}) \in Nat
             /\ Count(q, {s}) = Count(Tail(q), {s}) + IF Head(q) = s THEN 1 ELSE 0
  <2>1. Count(q, {s}) = (IF Head(q) \in {s} THEN 1 ELSE 0) + Count(Tail(q), {s})
    BY CountTail
  <2>2. Count(Tail(q), {s}) \in Nat
    BY <1>1, CountTyped
  <2> QED
    BY <2>1, <2>2
<1> QED
  BY <1>1, <1>2

\* Station s is put in one queue at most; the others stay.
PushedOnce(old, new, station, s) ==
  /\ new[AGU] = old[AGU]
  /\ \A t \in Types \ {AGU}, x \in Stations :
       Count(new[t], {x}) = Count(old[t], {x}) +
         IF x = s /\ Cleared(station) /\ t = station.type THEN 1 ELSE 0

\* A station that is pushed is counted once more, if it is.
LEMMA CountPushed ==
  ASSUME NEW ready \in ReadyQueues, NEW stations \in AllStations, NEW s \in Stations
  PROVE  PushedOnce(ready, PushIfCleared(ready, stations, s), stations[s], s)
<1> DEFINE u == stations[s].type
           new == PushIfCleared(ready, stations, s)
<1>1. u \in Types \ {AGU} /\ \A t \in Types : ready[t] \in Seq(Stations)
  BY StationFields DEF AllStations, ReadyQueues
<1>2. \A t \in Types, x \in Stations : Count(ready[t], {x}) \in Nat
  BY <1>1, CountStation
<1>3. CASE ~ Cleared(stations[s])
  <2>1. new = ready
    BY <1>3 DEF PushIfCleared
  <2> QED
    BY <1>2, <1>3, <2>1 DEF PushedOnce
<1>4. CASE Cleared(stations[s])
  <2>1. new = [ready EXCEPT ![u] = Append(ready[u], s)]
    BY <1>4 DEF PushIfCleared
  <2>2. \A x \in Stations : Count(Append(ready[u], s), {x}) = Count(ready[u], {x}) +
          IF s = x THEN 1 ELSE 0
    BY <1>1, CountStation
  <2>3. new[u] = Append(ready[u], s) /\ \A t \in Types \ {u} : new[t] = ready[t]
    BY <1>1, <2>1 DEF ReadyQueues
  <2>4. stations[s].type = u
    OBVIOUS
  <2> HIDE DEF u
  <2>5. new[AGU] = ready[AGU]
    BY <1>1, <2>3, Sizing
  <2>6. ASSUME NEW t \in Types \ {AGU}, NEW x \in Stations
        PROVE  Count(new[t], {x}) = Count(ready[t], {x}) +
                IF x = s /\ Cleared(stations[s]) /\ t = u THEN 1 ELSE 0
    <3> HIDE DEF new
    <3>1. Count(ready[t], {x}) \in Nat
      BY <1>2
    <3>2. CASE t = u
      BY <1>4, <2>2, <2>3, <3>1, <3>2
    <3>3. CASE t # u
      BY <2>3, <3>1, <3>3
    <3> QED
      BY <3>2, <3>3
  <2> QED
    BY <2>4, <2>5, <2>6 DEF PushedOnce
<1> QED
  BY <1>3, <1>4

\* A queue with one more or one less.
LEMMA CountQueue ==
  ASSUME NEW T, NEW q \in Seq(T)
  PROVE  /\ \A S : Count(q, S) \in Nat
         /\ \A x \in T :
              /\ Append(q, x) \in Seq(T)
              /\ \A S : Count(Append(q, x), S) = Count(q, S) + IF x \in S THEN 1 ELSE 0
         /\ q # <<>> =>
              /\ Head(q) \in T /\ Tail(q) \in Seq(T)
              /\ \A S : /\ Count(Tail(q), S) \in Nat
                        /\ Count(q, S) = Count(Tail(q), S)
                                           + IF Head(q) \in S THEN 1 ELSE 0
<1>1. \A S : Count(q, S) \in Nat
  BY CountTyped
<1>2. ASSUME NEW x \in T
      PROVE  /\ Append(q, x) \in Seq(T)
             /\ \A S : Count(Append(q, x), S) = Count(q, S) + IF x \in S THEN 1 ELSE 0
  BY CountAppend
<1>3. ASSUME q # <<>>
      PROVE  /\ Head(q) \in T /\ Tail(q) \in Seq(T)
             /\ \A S : /\ Count(Tail(q), S) \in Nat
                        /\ Count(q, S) = Count(Tail(q), S)
                                           + IF Head(q) \in S THEN 1 ELSE 0
  <2>1. Head(q) \in T /\ Tail(q) \in Seq(T)
    BY <1>3
  <2>2. \A S : Count(Tail(q), S) \in Nat
    BY <2>1, CountTyped
  <2>3. ASSUME NEW S
        PROVE  Count(q, S) = Count(Tail(q), S) + IF Head(q) \in S THEN 1 ELSE 0
    <3>1. Count(q, S) = (IF Head(q) \in S THEN 1 ELSE 0) + Count(Tail(q), S)
      BY <1>3, CountTail
    <3>2. Count(Tail(q), S) \in Nat
      BY <2>2
    <3> QED
      BY <3>1, <3>2
  <2> QED
    BY <2>1, <2>2, <2>3
<1> QED
  BY <1>1, <1>2, <1>3

\* From one stage to the next.
Onward ==
  \/ UNCHANGED stage
  \/ stage \notin {"check", "broadcast"}
  \/ completed_inst = <<>>
  \/ stage = "check" /\ stage' = "broadcast"

\* A step from one stage to the next.
LEMMA QuietStrong ==
  ASSUME Typed, Strong, Onward,
         UNCHANGED <<robVars, reservation_station, ready_queue, load_store_queue,
                     pending_load_store, reg_alias_table, execution_unit, completed_inst>>
  PROVE  Strong'
<1>1. UNCHANGED <<rob, issue_ptr, commit_ptr>>
  BY DEF robVars
<1>2. InUse' = InUse /\ InUse \subseteq Slots
  BY <1>1, InUseSame, TypedFacts
<1>3. WorkOK'
  BY <1>1, <1>2, WorkFrame DEF Strong
<1>4. StageOK'
  BY <1>1, StageFrame DEF Strong, Onward, StageOK
<1>5. HoldersOK' /\ DependentsOK' /\ TurnsOK' /\ LoadsOK' /\ ReadyOK'
  BY <1>1, HoldersFrame, DependentsFrame, TurnsFrame, LoadsFrame, ReadyFrame DEF Strong
<1>6. RegistersOK' /\ ExecutedOK' /\ RenamedOK' /\ OperandsOK' /\ StoresOK'
  BY <1>1, RingFrame, OperandsFrame, StoresFrame DEF Strong
<1> QED
  BY <1>3, <1>4, <1>5, <1>6 DEF Strong

\* A cycle moves nobody from one unit to another.
LEMMA AgedUnits ==
  ASSUME Typed, Age, NEW t \in Types, NEW S,
         \A u \in UnitRecords : \A c : [u EXCEPT !.cycles = c] \in UnitRecords =>
            ([u EXCEPT !.cycles = c] \in S <=> u \in S)
  PROVE  Count(execution_unit'[t], S) = Count(execution_unit[t], S)
<1> DEFINE q == execution_unit[t]
           r == [i \in DOMAIN q |-> [q[i] EXCEPT !.cycles = @ + 1]]
<1>1. execution_unit'[t] = r
  BY DEF Age
<1>2. q \in Seq(UnitRecords)
  BY DEF Typed, UnitsTyped
<1>3. \A i \in DOMAIN q : q[i] \in UnitRecords
  <2> HIDE DEF q
  <2> QED
    BY <1>2, ElementOfSeq
<1>4. ASSUME NEW i \in DOMAIN q
      PROVE  r[i] \in S <=> q[i] \in S
  <2>1. PICK c : c = q[i].cycles + 1
    OBVIOUS
  <2>2. r[i] = [q[i] EXCEPT !.cycles = c]
    BY <2>1
  <2>3. PICK u \in UnitRecords : u = q[i]
    BY <1>3
  <2>4. [u EXCEPT !.cycles = c] \in UnitRecords
    BY <2>1, <2>3 DEF UnitRecords
  <2> HIDE DEF q, r
  <2> QED
    BY <2>2, <2>3, <2>4
<1>5. DOMAIN r = DOMAIN q
  OBVIOUS
<1> HIDE DEF q, r
<1>6. {i \in DOMAIN r : r[i] \in S} = {i \in DOMAIN q : q[i] \in S}
  BY <1>4, <1>5
<1> QED
  BY <1>1, <1>6 DEF Count, q

\* exec_unit: a cycle of every unit.
LEMMA AgeStrong ==
  ASSUME Typed, Strong, Age
  PROVE  Strong'
<1>1. /\ UNCHANGED <<robVars, reservation_station, ready_queue, load_store_queue,
                 pending_load_store, ld_str_id, sent, program, num_inst_fetched,
                 reg_alias_table, completed_inst, num_inst_commited, penalty>>
      /\ stage = "age"
  BY DEF Age
<1>2. UNCHANGED <<rob, issue_ptr, commit_ptr>>
  BY <1>1 DEF robVars
<1>3. InUse' = InUse /\ InUse \subseteq Slots
  BY <1>2, InUseSame, TypedFacts
<1>4. \A t \in Types, k \in Slots :
        Count(execution_unit'[t], UnitsOn(k)) = Count(execution_unit[t], UnitsOn(k))
  <2>1. \A k : \A u \in UnitRecords : \A c : [u EXCEPT !.cycles = c] \in UnitRecords =>
            ([u EXCEPT !.cycles = c] \in UnitsOn(k) <=> u \in UnitsOn(k))
    BY DEF UnitsOn, UnitRecords
  <2> QED
    BY <2>1, AgedUnits
<1>5. \A s \in Stations :
        Count(execution_unit'[AGU], UnitsAt(s)) = Count(execution_unit[AGU], UnitsAt(s))
  <2>1. \A s : \A u \in UnitRecords : \A c : [u EXCEPT !.cycles = c] \in UnitRecords =>
            ([u EXCEPT !.cycles = c] \in UnitsAt(s) <=> u \in UnitsAt(s))
    BY DEF UnitsAt, UnitRecords
  <2> QED
    BY <2>1, AgedUnits, Sizing
<1>6. WorkOK'
  BY <1>1, <1>2, <1>3, <1>4, WorkFrame DEF Strong
<1>7. TurnsOK'
  BY <1>1, <1>5 DEF Strong, TurnsOK, TurnsOf, Held, Operand, UnitsAt
<1>8. StageOK'
  BY <1>1, <1>2, StageFrame DEF Strong, StageOK
<1>9. HoldersOK' /\ DependentsOK' /\ LoadsOK' /\ ReadyOK'
  BY <1>1, <1>2, HoldersFrame, DependentsFrame, LoadsFrame, ReadyFrame DEF Strong
<1>10. RegistersOK' /\ ExecutedOK' /\ RenamedOK' /\ OperandsOK' /\ StoresOK'
  BY <1>1, <1>2, RingFrame, OperandsFrame, StoresFrame DEF Strong
<1> QED
  BY <1>6, <1>7, <1>8, <1>9, <1>10 DEF Strong

\* Stations that differ in what a branch was predicted, at most.
Alike ==
  \A s \in Stations :
    /\ reservation_station'[s].valid = reservation_station[s].valid
    /\ reservation_station'[s].rob = reservation_station[s].rob
    /\ reservation_station'[s].ins = reservation_station[s].ins
    /\ reservation_station'[s].reg = reservation_station[s].reg
    /\ reservation_station'[s].addr = reservation_station[s].addr
    /\ reservation_station'[s].mem = reservation_station[s].mem
    /\ reservation_station'[s].type = reservation_station[s].type

\* A step after which the stations are alike.
LEMMA AlikeStrong ==
  ASSUME Typed, Strong, Onward, Alike,
         UNCHANGED <<robVars, ready_queue, load_store_queue,
                     pending_load_store, reg_alias_table, execution_unit, completed_inst>>
  PROVE  Strong'
<1>1. UNCHANGED <<rob, issue_ptr, commit_ptr>>
  BY DEF robVars
<1>2. InUse' = InUse /\ InUse \subseteq Slots
  BY <1>1, InUseSame, TypedFacts
<1>3. WorkOK'
  BY <1>1, <1>2, WorkFrame DEF Strong
<1>4. StageOK'
  BY <1>1, StageFrame DEF Strong, Onward, StageOK
<1>5. HoldersOK'
  BY <1>1, <1>2 DEF Strong, HoldersOK, Held, Alike
<1>6. DependentsOK'
  BY <1>1 DEF Strong, DependentsOK, DependentsOf, Held, Registers, Alike
<1>7. TurnsOK'
  <2>1. ASSUME NEW s \in Stations
        PROVE  TurnsOf(s)'
    <3>1. Operand(reservation_station'[s], Unborn) = Operand(reservation_station[s], Unborn)
      BY DEF Operand, Alike
    <3>2. Held(s)' <=> Held(s)
      BY DEF Held, Alike
    <3>3. TurnsOf(s)
      BY DEF Strong, TurnsOK
    <3> QED
      BY <3>1, <3>2, <3>3 DEF TurnsOf, UnitsAt
  <2> QED
    BY <2>1 DEF TurnsOK
<1>8. LoadsOK'
  BY <1>1 DEF Strong, LoadsOK, LoadsOf, Held, OperandAt, LoadsAt, Alike
<1>9. ReadyOK'
  BY <1>1 DEF Strong, ReadyOK, ReadyOf, Held, Cleared, Alike
<1>10. RegistersOK' /\ ExecutedOK' /\ RenamedOK'
  BY <1>1, <1>2 DEF Strong, RegistersOK, ExecutedOK, RenamedOK, Held, IsBroadcast, Alike
<1>11. OperandsOK'
  BY DEF Strong, OperandsOK, Held, Sound, Alike
<1>12. StoresOK'
  BY StoresFrame DEF Strong
<1> QED
  BY <1>3, <1>4, <1>5, <1>6, <1>7, <1>8, <1>9, <1>10, <1>11, <1>12 DEF Strong

\* dispatch, when no unit is free.
LEMMA DispatchStallsStrong ==
  ASSUME Typed, Strong, NEW t \in Types, DispatchStalls(t)
  PROVE  Alike /\ Strong'
<1> DEFINE s == Head(ready_queue[t])
<1>1. /\ UNCHANGED <<robVars, memVars, frontVars, ready_queue, aged,
                 reg_alias_table, execution_unit, completed_inst,
                 num_inst_commited>>
      /\ stage = "dispatch"
      /\ reservation_station' =
           [reservation_station EXCEPT ![s].mispredicted = FALSE]
  BY DEF DispatchStalls
<1>2. UNCHANGED <<load_store_queue, pending_load_store>>
  BY <1>1 DEF memVars
<1>3. Alike
  <2>1. PICK e : e = [reservation_station[s] EXCEPT !.mispredicted = FALSE]
    OBVIOUS
  <2>2. reservation_station' = [reservation_station EXCEPT ![s] = e]
    BY <1>1, <2>1
  <2>3. reservation_station \in [Stations -> StationRecords]
    BY DEF Typed, StationsTyped
  <2>4. \A x \in Stations : reservation_station[x] \in StationRecords
    BY <2>3
  <2> HIDE DEF s
  <2>5. \A x \in Stations : reservation_station'[x] = IF x = s THEN e ELSE reservation_station[x]
    BY <2>2, <2>3
  <2> QED
    BY <2>1, <2>4, <2>5 DEF Alike, StationRecords
<1> QED
  BY <1>1, <1>2, <1>3, AlikeStrong DEF Onward

(***************************************************************************)
(* dispatch                                                                *)
(***************************************************************************)
\* What is at the front of a ready queue waits for nothing.
LEMMA ReadyFront ==
  ASSUME Typed, ReadyOK, NEW t \in Types \ {AGU}, ready_queue[t] # <<>>,
         NEW s, s = Head(ready_queue[t])
  PROVE  /\ s \in Stations /\ Held(s) /\ Cleared(reservation_station[s])
         /\ reservation_station[s].type = t
         /\ \A x \in Stations : Count(Tail(ready_queue[t]), {x}) =
              IF x = s THEN 0 ELSE Count(ready_queue[t], {x})
<1>1. ready_queue[t] \in Seq(Stations)
  BY DEF Typed, ReadyTyped
<1>2. /\ s \in Stations
      /\ \A x \in Stations :
           /\ Count(Tail(ready_queue[t]), {x}) \in Nat
           /\ Count(ready_queue[t], {x}) = Count(Tail(ready_queue[t]), {x}) + IF s = x THEN 1 ELSE 0
  BY <1>1, CountFirstStation
<1>3. Count(ready_queue[t], {s}) = IF Held(s) /\ Cleared(reservation_station[s])
                                      /\ t = reservation_station[s].type THEN 1 ELSE 0
  BY <1>2 DEF ReadyOK, ReadyOf
<1>4. Count(ready_queue[t], {s}) # 0
  BY <1>2
<1>5. /\ Held(s) /\ Cleared(reservation_station[s]) /\ reservation_station[s].type = t
      /\ Count(ready_queue[t], {s}) = 1
  BY <1>3, <1>4
<1>6. ASSUME NEW x \in Stations
      PROVE  Count(Tail(ready_queue[t]), {x}) =
              IF x = s THEN 0 ELSE Count(ready_queue[t], {x})
  <2> DEFINE a == Count(Tail(ready_queue[t]), {x})
             b == Count(ready_queue[t], {x})
  <2>1. a \in Nat /\ b = a + IF s = x THEN 1 ELSE 0
    BY <1>2
  <2>2. x = s => b = 1
    BY <1>5
  <2> HIDE DEF a, b
  <2>3. a = IF x = s THEN 0 ELSE b
    BY <2>1, <2>2
  <2> QED
    BY <2>3 DEF a, b
<1> QED
  BY <1>2, <1>5, <1>6

\* dispatch to the AGU: the turn moves from the queue to the unit.
LEMMA DispatchAGUStrong ==
  ASSUME Typed, Strong, Dispatch(AGU)
  PROVE  Strong'
<1> DEFINE s == Head(ready_queue[AGU])
           q == ready_queue[AGU]
           u == execution_unit[AGU]
<1>1. /\ UNCHANGED <<issue_ptr, commit_ptr, memVars, frontVars, reg_alias_table,
                     completed_inst, num_inst_commited, penalty, reservation_station, rob>>
      /\ aged[AGU] /\ stage = "dispatch"
      /\ ready_queue' = [ready_queue EXCEPT ![AGU] = Tail(q)]
      /\ execution_unit' = [execution_unit EXCEPT ![AGU] = Append(u, Unit(s))]
  BY DEF Dispatch, CanDispatch
<1>2. /\ q \in Seq(Stations) /\ q # <<>> /\ u \in Seq(UnitRecords)
      /\ ready_queue \in [Types -> Seq(Stations)]
      /\ execution_unit \in [Types -> Seq(UnitRecords)] /\ AGU \in Types
  BY <1>1, Sizing DEF Typed, ReadyTyped, UnitsTyped
<1>3. /\ s \in Stations
      /\ \A x \in Stations :
           /\ Count(Tail(q), {x}) \in Nat
           /\ Count(q, {x}) = Count(Tail(q), {x}) + IF s = x THEN 1 ELSE 0
  BY <1>2, CountFirstStation
<1>4. /\ ready_queue'[AGU] = Tail(q) /\ execution_unit'[AGU] = Append(u, Unit(s))
      /\ \A t \in Types \ {AGU} : /\ ready_queue'[t] = ready_queue[t]
                                  /\ execution_unit'[t] = execution_unit[t]
  BY <1>1, <1>2
<1>5. Unit(s) \in UnitRecords /\ Unit(s).station = s
  BY <1>3, StationFields DEF Unit, UnitRecords, Typed, StationsTyped
<1> HIDE DEF s, q, u
<1>6. ASSUME NEW x \in Stations
      PROVE  /\ Count(Append(u, Unit(s)), UnitsAt(x))
                  = Count(u, UnitsAt(x)) + IF s = x THEN 1 ELSE 0
             /\ Count(u, UnitsAt(x)) \in Nat
  <2>1. /\ Count(Append(u, Unit(s)), UnitsAt(x))
             = Count(u, UnitsAt(x)) + IF Unit(s) \in UnitsAt(x) THEN 1 ELSE 0
        /\ Count(u, UnitsAt(x)) \in Nat
    BY <1>2, <1>5, CountQueue
  <2>2. Unit(s) \in UnitsAt(x) <=> s = x
    BY <1>5 DEF UnitsAt
  <2> QED
    BY <2>1, <2>2
<1>7. TurnsOK'
  <2>1. ASSUME NEW x \in Stations
        PROVE  TurnsOf(x)'
    <3>1. TurnsOf(x)
      BY DEF Strong, TurnsOK
    <3>2. Count(q, {x}) + Count(u, UnitsAt(x))
            = Count(Tail(q), {x}) + Count(Append(u, Unit(s)), UnitsAt(x))
      BY <1>3, <1>6
    <3>3. Held(x)' <=> Held(x)
      BY <1>1 DEF Held
    <3> QED
      BY <1>1, <1>4, <3>1, <3>2, <3>3 DEF TurnsOf, UnitsAt, q, u
  <2> QED
    BY <2>1 DEF TurnsOK
<1>8. ReadyOK'
  BY <1>1, <1>4 DEF Strong, ReadyOK, ReadyOf, Held, Cleared
<1>9. WorkOK'
  BY <1>1, <1>4, InUseSame, TypedFacts, WorkFrame DEF Strong
<1>10. LoadsOK' /\ StoresOK'
  BY <1>1, LoadsFrame, StoresFrame DEF Strong, memVars
<1>11. HoldersOK' /\ DependentsOK' /\ OperandsOK'
  BY <1>1, HoldersFrame, DependentsFrame, OperandsFrame DEF Strong
<1>12. RegistersOK' /\ ExecutedOK' /\ RenamedOK'
  BY <1>1, RingFrame DEF Strong
<1>13. StageOK'
  BY <1>1, StageFrame DEF Strong, StageOK
<1> QED
  BY <1>7, <1>8, <1>9, <1>10, <1>11, <1>12, <1>13 DEF Strong

\* What a dispatch changes.
Freed(t, s, k) ==
  /\ s \in Stations /\ Held(s) /\ Cleared(reservation_station[s])
  /\ reservation_station[s].type = t
  /\ k = reservation_station[s].rob /\ k \in InUse /\ k \in Slots
  /\ rob[k].status = Issued
  /\ ~ reservation_station'[s].valid
  /\ \A x \in Stations \ {s} : reservation_station'[x] = reservation_station[x]
  /\ rob'[k].status = Dispatched
  /\ \A j \in Slots : rob'[j].deps = rob[j].deps /\ rob'[j].ins = rob[j].ins
  /\ \A j \in Slots \ {k} : rob'[j].status = rob[j].status
  /\ ready_queue'[t] = Tail(ready_queue[t])
  /\ execution_unit'[t] = Append(execution_unit[t], Unit(s))
  /\ \A u \in Types \ {t} : /\ ready_queue'[u] = ready_queue[u]
                            /\ execution_unit'[u] = execution_unit[u]
  /\ UNCHANGED <<issue_ptr, commit_ptr, load_store_queue, pending_load_store,
                 reg_alias_table, completed_inst>>
  /\ completed_inst = <<>> /\ ready_queue[t] # <<>>

\* dispatch to another unit frees the station.
LEMMA DispatchFrees ==
  ASSUME Typed, Strong, NEW t \in Types \ {AGU}, Dispatch(t)
  PROVE  \E s \in Stations, k \in Slots : Freed(t, s, k) /\ s = Head(ready_queue[t])
<1> DEFINE s == Head(ready_queue[t])
           k == reservation_station[s].rob
<1>1. /\ UNCHANGED <<issue_ptr, commit_ptr, memVars, frontVars, reg_alias_table,
                     completed_inst, num_inst_commited, penalty>>
      /\ aged[t] /\ stage = "dispatch"
      /\ ready_queue' = [ready_queue EXCEPT ![t] = Tail(@)]
      /\ execution_unit' = [execution_unit EXCEPT ![t] = Append(@, Unit(s))]
      /\ reservation_station' = [reservation_station EXCEPT ![s].valid = FALSE]
      /\ rob' = [rob EXCEPT ![k].status = Dispatched]
  BY DEF Dispatch, CanDispatch, Unit
<1>2. ready_queue[t] # <<>>
  BY <1>1 DEF Typed, ReadyTyped
<1>3. /\ s \in Stations /\ Held(s) /\ Cleared(reservation_station[s])
      /\ reservation_station[s].type = t
  BY <1>2, ReadyFront DEF Strong
<1>4. /\ reservation_station \in [Stations -> StationRecords]
      /\ rob \in [Slots -> EntryRecords] /\ execution_unit \in [Types -> Seq(UnitRecords)]
      /\ ready_queue \in [Types -> Seq(Stations)]
  BY TypedFacts DEF AllStations, ReadyQueues
<1>5. reservation_station[s] \in StationRecords /\ k \in Slots
  BY <1>3, <1>4, StationFields
<1>6. k \in InUse /\ rob[k].status = Issued
  BY <1>3 DEF Strong, HoldersOK
<1>7. /\ ~ reservation_station'[s].valid
      /\ \A x \in Stations \ {s} : reservation_station'[x] = reservation_station[x]
  <2>1. PICK e : e = [reservation_station[s] EXCEPT !.valid = FALSE]
    OBVIOUS
  <2>2. reservation_station' = [reservation_station EXCEPT ![s] = e]
    BY <1>1, <2>1
  <2>3. e.valid = FALSE
    BY <1>5, <2>1 DEF StationRecords
  <2> HIDE DEF s
  <2>4. /\ reservation_station'[s] = e
        /\ \A x \in Stations \ {s} : reservation_station'[x] = reservation_station[x]
    BY <1>3, <1>4, <2>2
  <2> QED
    BY <2>3, <2>4
<1>8. /\ rob'[k].status = Dispatched
      /\ \A j \in Slots : rob'[j].deps = rob[j].deps /\ rob'[j].ins = rob[j].ins
      /\ \A j \in Slots \ {k} : rob'[j].status = rob[j].status
  <2>1. PICK e : e = [rob[k] EXCEPT !.status = Dispatched]
    OBVIOUS
  <2>2. rob' = [rob EXCEPT ![k] = e]
    BY <1>1, <2>1
  <2>3. rob[k] \in EntryRecords
    BY <1>4, <1>5
  <2>4. e.status = Dispatched /\ e.deps = rob[k].deps /\ e.ins = rob[k].ins
    BY <2>1, <2>3 DEF EntryRecords
  <2> HIDE DEF k
  <2> QED
    BY <1>4, <1>5, <2>2, <2>4
<1>9. /\ ready_queue'[t] = Tail(ready_queue[t])
      /\ execution_unit'[t] = Append(execution_unit[t], Unit(s))
      /\ \A u \in Types \ {t} : /\ ready_queue'[u] = ready_queue[u]
                                /\ execution_unit'[u] = execution_unit[u]
  <2> HIDE DEF s
  <2> QED
    BY <1>1, <1>4
<1>10. /\ UNCHANGED <<issue_ptr, commit_ptr, load_store_queue, pending_load_store,
                 reg_alias_table, completed_inst>>
       /\ completed_inst = <<>>
  BY <1>1 DEF memVars, Strong, StageOK
<1>11. Freed(t, s, k)
  BY <1>2, <1>3, <1>5, <1>6, <1>7, <1>8, <1>9, <1>10 DEF Freed
<1> QED
  BY <1>3, <1>5, <1>11

\* A station that stays as it is.
SameStation(x) ==
  /\ reservation_station'[x].valid = reservation_station[x].valid
  /\ reservation_station'[x].rob = reservation_station[x].rob
  /\ reservation_station'[x].ins = reservation_station[x].ins
  /\ reservation_station'[x].reg = reservation_station[x].reg
  /\ reservation_station'[x].addr = reservation_station[x].addr
  /\ reservation_station'[x].mem = reservation_station[x].mem
  /\ reservation_station'[x].type = reservation_station[x].type

\* It waits for the same instructions.
SameReg(x) ==
  /\ reservation_station'[x].valid = reservation_station[x].valid
  /\ reservation_station'[x].reg = reservation_station[x].reg

\* It waits for the same operands.
SameMem(x) ==
  /\ reservation_station'[x].valid = reservation_station[x].valid
  /\ reservation_station'[x].addr = reservation_station[x].addr
  /\ reservation_station'[x].mem = reservation_station[x].mem

\* A station that is not written.
LEMMA Untouched ==
  ASSUME NEW x \in Stations, reservation_station'[x] = reservation_station[x]
  PROVE  SameStation(x) /\ SameReg(x) /\ SameMem(x)
BY DEF SameStation, SameReg, SameMem

\* What a station waits for is counted as before when nothing is added or removed.
LEMMA SameDependents ==
  ASSUME NEW x \in Stations, DependentsOf(x), SameReg(x),
         \A j \in Slots : Count(rob'[j].deps, {x}) = Count(rob[j].deps, {x})
  PROVE  DependentsOf(x)'
<1>1. \A j : Registers(reservation_station'[x], j) = Registers(reservation_station[x], j)
  BY DEF Registers, SameReg
<1>2. Held(x)' <=> Held(x)
  BY DEF Held, SameReg
<1> QED
  BY <1>1, <1>2 DEF DependentsOf

\* So are its turns,
LEMMA SameTurns ==
  ASSUME NEW x \in Stations, TurnsOf(x), SameMem(x),
         Count(ready_queue'[AGU], {x}) + Count(execution_unit'[AGU], UnitsAt(x))
           = Count(ready_queue[AGU], {x}) + Count(execution_unit[AGU], UnitsAt(x))
  PROVE  TurnsOf(x)'
<1>1. Operand(reservation_station'[x], Unborn) = Operand(reservation_station[x], Unborn)
  BY DEF Operand, SameMem
<1>2. Held(x)' <=> Held(x)
  BY DEF Held, SameMem
<1> QED
  BY <1>1, <1>2 DEF TurnsOf, UnitsAt

\* its loads
LEMMA SameLoads ==
  ASSUME NEW x \in Stations, LoadsOf(x), SameMem(x),
         \A a \in Addresses :
           Count(load_store_queue', LoadsAt(x, a)) + Count(pending_load_store', LoadsAt(x, a))
             = Count(load_store_queue, LoadsAt(x, a)) + Count(pending_load_store, LoadsAt(x, a))
  PROVE  LoadsOf(x)'
<1>1. \A a : OperandAt(reservation_station'[x], Asked, a) = OperandAt(reservation_station[x], Asked, a)
  BY DEF OperandAt, SameMem
<1>2. Held(x)' <=> Held(x)
  BY DEF Held, SameMem
<1> QED
  BY <1>1, <1>2 DEF LoadsOf, LoadsAt

\* and its entry in the ready queue.
LEMMA SameReady ==
  ASSUME NEW x \in Stations, ReadyOf(x), SameStation(x),
         \A u \in Types \ {AGU} : Count(ready_queue'[u], {x}) = Count(ready_queue[u], {x})
  PROVE  ReadyOf(x)'
<1>1. Cleared(reservation_station'[x]) <=> Cleared(reservation_station[x])
  BY DEF Cleared, SameStation
<1>2. /\ Held(x)' <=> Held(x)
      /\ reservation_station'[x].type = reservation_station[x].type
  BY DEF Held, SameStation
<1> QED
  BY <1>1, <1>2 DEF ReadyOf

\* A station that is free.
LEMMA NobodyCounts ==
  ASSUME NEW x \in Stations, ~ Held(x)'
  PROVE  /\ (\A j \in Slots : Count(rob'[j].deps, {x}) = 0) => DependentsOf(x)'
         /\ Count(ready_queue'[AGU], {x}) + Count(execution_unit'[AGU], UnitsAt(x)) = 0
              => TurnsOf(x)'
         /\ (\A a \in Addresses : Count(load_store_queue', LoadsAt(x, a))
                                  + Count(pending_load_store', LoadsAt(x, a)) = 0)
              => LoadsOf(x)'
         /\ (\A u \in Types \ {AGU} : Count(ready_queue'[u], {x}) = 0) => ReadyOf(x)'
<1>1. (\A j \in Slots : Count(rob'[j].deps, {x}) = 0) => DependentsOf(x)'
  BY DEF DependentsOf
<1>2. Count(ready_queue'[AGU], {x}) + Count(execution_unit'[AGU], UnitsAt(x)) = 0
              => TurnsOf(x)'
  BY DEF TurnsOf, UnitsAt
<1>3. (\A a \in Addresses : Count(load_store_queue', LoadsAt(x, a))
                                  + Count(pending_load_store', LoadsAt(x, a)) = 0)
              => LoadsOf(x)'
  BY DEF LoadsOf, LoadsAt
<1>4. (\A u \in Types \ {AGU} : Count(ready_queue'[u], {x}) = 0) => ReadyOf(x)'
  BY DEF ReadyOf
<1> QED
  BY <1>1, <1>2, <1>3, <1>4

\* A station that waits for nothing has no one to count it.
LEMMA NothingCounted ==
  ASSUME Typed, NEW s \in Stations, Cleared(reservation_station[s])
  PROVE  /\ \A k \in Slots : Cardinality(Registers(reservation_station[s], k)) = 0
         /\ Cardinality(Operand(reservation_station[s], Unborn)) = 0
         /\ \A a : Cardinality(OperandAt(reservation_station[s], Asked, a)) = 0
<1>1. \A k \in Slots : Registers(reservation_station[s], k) = {}
  BY RobSizeAssumption DEF Registers, Cleared, Slots
<1>2. Operand(reservation_station[s], Unborn) = {}
  BY DEF Operand, Cleared, Unborn, Answered
<1>3. \A a : OperandAt(reservation_station[s], Asked, a) = {}
  BY DEF OperandAt, Cleared, Asked, Answered
<1> QED
  BY <1>1, <1>2, <1>3, FS_EmptySet

\* The instruction is not held any more, and nobody waits for its station.
LEMMA FreedHolders ==
  ASSUME Typed, Strong, NEW t \in Types \ {AGU}, NEW s \in Stations, NEW k \in Slots,
         Freed(t, s, k)
  PROVE  /\ HoldersOK' /\ RegistersOK' /\ OperandsOK' /\ RenamedOK'
<1>1. InUse' = InUse /\ InUse \subseteq Slots
  BY InUseSame, TypedFacts DEF Freed
<1>2. /\ ~ Held(s)' /\ Held(s) /\ k = reservation_station[s].rob
      /\ \A x \in Stations \ {s} : reservation_station'[x] = reservation_station[x]
      /\ rob'[k].status = Dispatched /\ rob[k].status = Issued
      /\ \A j \in Slots : rob'[j].deps = rob[j].deps /\ rob'[j].ins = rob[j].ins
      /\ \A j \in Slots \ {k} : rob'[j].status = rob[j].status
      /\ reg_alias_table' = reg_alias_table
  BY DEF Freed, Held
<1>3. \A x \in Stations : Held(x)' => x # s /\ Held(x)
  BY <1>2 DEF Held
<1>4. HoldersOK'
  <2>1. ASSUME NEW x \in Stations, Held(x)'
        PROVE  /\ reservation_station'[x].rob \in InUse'
               /\ rob'[reservation_station'[x].rob].status = Issued
               /\ rob'[reservation_station'[x].rob].ins = reservation_station'[x].ins
    <3>1. x # s /\ Held(x) /\ reservation_station'[x] = reservation_station[x]
      BY <1>2, <1>3, <2>1
    <3>2. reservation_station[x].rob # k
      BY <1>2, <3>1 DEF Strong, HoldersOK
    <3> QED
      BY <1>1, <1>2, <3>1, <3>2 DEF Strong, HoldersOK
  <2>2. \A x, y \in Stations :
          Held(x)' /\ Held(y)' /\ reservation_station'[x].rob = reservation_station'[y].rob
            => x = y
    BY <1>2, <1>3 DEF Strong, HoldersOK
  <2>3. ASSUME NEW j \in InUse, rob'[j].status = Issued
        PROVE  \E x \in Stations : Held(x)' /\ reservation_station'[x].rob = j
    <3>1. j # k
      BY <1>2, <2>3 DEF Issued, Dispatched
    <3>2. rob[j].status = Issued
      BY <1>1, <1>2, <2>3, <3>1
    <3>3. PICK x \in Stations : Held(x) /\ reservation_station[x].rob = j
      BY <3>2 DEF Strong, HoldersOK
    <3>4. x # s
      BY <1>2, <3>1, <3>3
    <3> QED
      BY <1>2, <3>3, <3>4 DEF Held
  <2> QED
    BY <1>1, <2>1, <2>2, <2>3 DEF HoldersOK
<1>5. RegistersOK'
  BY <1>1, <1>2, <1>3 DEF Strong, RegistersOK
<1>6. OperandsOK'
  BY <1>2, <1>3 DEF Strong, OperandsOK, Sound
<1>7. RenamedOK'
  BY <1>1, <1>2 DEF Strong, RenamedOK
<1> QED
  BY <1>4, <1>5, <1>6, <1>7

\* Its station waited for nothing, and it was in its queue once.
LEMMA FreedCounts ==
  ASSUME Typed, Strong, NEW t \in Types \ {AGU}, NEW s \in Stations, NEW k \in Slots,
         Freed(t, s, k), s = Head(ready_queue[t])
  PROVE  DependentsOK' /\ TurnsOK' /\ LoadsOK' /\ ReadyOK'
<1>1. /\ ~ Held(s)' /\ Held(s) /\ Cleared(reservation_station[s])
      /\ reservation_station[s].type = t
      /\ \A x \in Stations \ {s} : reservation_station'[x] = reservation_station[x]
      /\ \A j \in Slots : rob'[j].deps = rob[j].deps
      /\ ready_queue'[t] = Tail(ready_queue[t])
      /\ \A u \in Types \ {t} : /\ ready_queue'[u] = ready_queue[u]
                                /\ execution_unit'[u] = execution_unit[u]
      /\ UNCHANGED <<load_store_queue, pending_load_store>>
      /\ ready_queue[t] # <<>> /\ AGU \in Types \ {t}
  BY Sizing DEF Freed, Held
<1>2. /\ DependentsOK /\ TurnsOK /\ LoadsOK /\ ReadyOK
  BY DEF Strong
<1>3. /\ \A j \in Slots : Cardinality(Registers(reservation_station[s], j)) = 0
      /\ Cardinality(Operand(reservation_station[s], Unborn)) = 0
      /\ \A a : Cardinality(OperandAt(reservation_station[s], Asked, a)) = 0
  BY <1>1, NothingCounted
<1>4. \A x \in Stations : Count(Tail(ready_queue[t]), {x}) =
              IF x = s THEN 0 ELSE Count(ready_queue[t], {x})
  <2>1. ready_queue[t] # <<>> /\ ReadyOK /\ s = Head(ready_queue[t])
    BY <1>1, <1>2
  <2> QED
    BY <2>1, ReadyFront, Zenon
<1>5. ASSUME NEW x \in Stations, x # s
      PROVE  DependentsOf(x)' /\ TurnsOf(x)' /\ LoadsOf(x)' /\ ReadyOf(x)'
  <2>1. SameStation(x) /\ SameReg(x) /\ SameMem(x)
    BY <1>1, <1>5, Untouched
  <2>2. DependentsOf(x) /\ TurnsOf(x) /\ LoadsOf(x) /\ ReadyOf(x)
    BY <1>2 DEF DependentsOK, TurnsOK, LoadsOK, ReadyOK
  <2>3. DependentsOf(x)'
    BY <1>1, <2>1, <2>2, SameDependents
  <2>4. TurnsOf(x)'
    BY <1>1, <2>1, <2>2, SameTurns
  <2>5. LoadsOf(x)'
    BY <1>1, <2>1, <2>2, SameLoads
  <2>6. \A u \in Types \ {AGU} : Count(ready_queue'[u], {x}) = Count(ready_queue[u], {x})
    BY <1>1, <1>4, <1>5
  <2>7. ReadyOf(x)'
    BY <2>1, <2>2, <2>6, SameReady
  <2> QED
    BY <2>3, <2>4, <2>5, <2>7
<1>6. DependentsOf(s)' /\ TurnsOf(s)' /\ LoadsOf(s)' /\ ReadyOf(s)'
  <2>1. DependentsOf(s) /\ TurnsOf(s) /\ LoadsOf(s) /\ ReadyOf(s)
    BY <1>2 DEF DependentsOK, TurnsOK, LoadsOK, ReadyOK
  <2>2. \A j \in Slots : Count(rob'[j].deps, {s}) = 0
    BY <1>1, <1>3, <2>1 DEF DependentsOf
  <2>3. Count(ready_queue'[AGU], {s}) + Count(execution_unit'[AGU], UnitsAt(s)) = 0
    BY <1>1, <1>3, <2>1 DEF TurnsOf
  <2>4. \A a \in Addresses : Count(load_store_queue', LoadsAt(s, a))
                                  + Count(pending_load_store', LoadsAt(s, a)) = 0
    BY <1>1, <1>3, <2>1 DEF LoadsOf
  <2>5. \A u \in Types \ {AGU} : Count(ready_queue'[u], {s}) = 0
    <3>1. \A u \in Types \ {AGU} : u # t => Count(ready_queue[u], {s}) = 0
      BY <1>1, <2>1 DEF ReadyOf
    <3>2. Count(ready_queue'[t], {s}) = 0
      BY <1>1, <1>4
    <3>3. ASSUME NEW u \in Types \ {AGU}
          PROVE  Count(ready_queue'[u], {s}) = 0
      <4>1. CASE u = t
        BY <3>2, <4>1
      <4>2. CASE u # t
        BY <1>1, <3>1, <4>2
      <4> QED
        BY <4>1, <4>2
    <3> QED
      BY <3>3
  <2> QED
    BY <1>1, <2>2, <2>3, <2>4, <2>5, NobodyCounts
<1> QED
  BY <1>5, <1>6 DEF DependentsOK, TurnsOK, LoadsOK, ReadyOK

\* It is at work in one unit.
LEMMA FreedWork ==
  ASSUME Typed, Strong, NEW t \in Types \ {AGU}, NEW s \in Stations, NEW k \in Slots,
         Freed(t, s, k)
  PROVE  WorkOK' /\ StageOK' /\ ExecutedOK'
<1>1. InUse' = InUse /\ InUse \subseteq Slots
  BY InUseSame, TypedFacts DEF Freed
<1>2. /\ k = reservation_station[s].rob /\ k \in InUse
      /\ rob'[k].status = Dispatched /\ rob[k].status = Issued
      /\ \A j \in Slots : rob'[j].deps = rob[j].deps
      /\ \A j \in Slots \ {k} : rob'[j].status = rob[j].status
      /\ execution_unit'[t] = Append(execution_unit[t], Unit(s))
      /\ \A u \in Types \ {t} : execution_unit'[u] = execution_unit[u]
      /\ completed_inst' = completed_inst /\ completed_inst = <<>>
  BY DEF Freed
<1>3. Unit(s) \in UnitRecords /\ Unit(s).rob = k
  BY <1>2, StationFields DEF Unit, UnitRecords, Typed, StationsTyped
<1>4. execution_unit[t] \in Seq(UnitRecords)
  BY DEF Typed, UnitsTyped
<1>5. ASSUME NEW j \in Slots
      PROVE  /\ Count(execution_unit'[t], UnitsOn(j))
                 = Count(execution_unit[t], UnitsOn(j)) + IF j = k THEN 1 ELSE 0
             /\ Count(execution_unit[t], UnitsOn(j)) \in Nat
  <2>1. /\ Count(Append(execution_unit[t], Unit(s)), UnitsOn(j))
             = Count(execution_unit[t], UnitsOn(j)) + IF Unit(s) \in UnitsOn(j) THEN 1 ELSE 0
        /\ Count(execution_unit[t], UnitsOn(j)) \in Nat
    BY <1>3, <1>4, CountQueue
  <2>2. Unit(s) \in UnitsOn(j) <=> j = k
    BY <1>3 DEF UnitsOn
  <2> QED
    BY <1>2, <2>1, <2>2
<1>6. ASSUME NEW j \in Slots
      PROVE  \E p \in Types \union {-1} : WorkAt(j, p)' /\ (p # -1 <=> Working(j)')
  <2>1. PICK p \in Types \union {-1} : WorkAt(j, p) /\ (p # -1 <=> Working(j))
    BY DEF Strong, WorkOK
  <2>2. CASE j = k
    <3>1. ~ Working(k) /\ p = -1
      BY <1>2, <2>1, <2>2 DEF Working, Issued, Dispatched, Executed
    <3>2. Working(k)'
      BY <1>1, <1>2 DEF Working
    <3>3. /\ \A u \in Types \ {AGU} : Count(execution_unit[u], UnitsOn(k)) = 0
          /\ Count(completed_inst, {k}) = 0
      <4>1. \A u \in Types : u # -1
        BY DEF Types
      <4>2. WorkAt(k, -1) /\ AGU # -1
        BY <2>1, <2>2, <3>1, <4>1, Sizing
      <4> QED
        BY <4>1, <4>2 DEF WorkAt
    <3>4. WorkAt(k, t)'
      <4>1. Count(execution_unit'[t], UnitsOn(k)) = 1
        BY <1>5, <3>3
      <4>2. \A u \in Types \ {AGU} : Count(execution_unit'[u], UnitsOn(k)) = IF u = t THEN 1 ELSE 0
        BY <1>2, <3>3, <4>1
      <4>3. Count(completed_inst', {k}) = 0
        BY <1>2, <3>3
      <4> QED
        BY <4>2, <4>3 DEF WorkAt, UnitsOn
    <3>5. t # -1
      BY Sizing DEF Types
    <3> QED
      BY <2>2, <3>2, <3>4, <3>5
  <2>3. CASE j # k
    <3>1. Working(j)' <=> Working(j)
      <4>1. IsBroadcast(j)' <=> IsBroadcast(j)
        BY <1>2 DEF IsBroadcast
      <4>2. rob'[j].status = rob[j].status
        BY <1>2, <2>3
      <4> QED
        BY <1>1, <4>1, <4>2 DEF Working
    <3>2. \A u \in Types \ {AGU} : Count(execution_unit'[u], UnitsOn(j)) = Count(execution_unit[u], UnitsOn(j))
      <4>1. Count(execution_unit'[t], UnitsOn(j)) = Count(execution_unit[t], UnitsOn(j))
        BY <1>5, <2>3
      <4>2. \A u \in Types \ {t} : execution_unit'[u] = execution_unit[u]
        BY <1>2
      <4> QED
        BY <4>1, <4>2
    <3>3. WorkAt(j, p)'
      BY <1>2, <2>1, <3>2 DEF WorkAt, UnitsOn
    <3> QED
      BY <2>1, <3>1, <3>3
  <2> QED
    BY <2>2, <2>3
<1>7. WorkOK'
  BY <1>6 DEF WorkOK
<1>8. StageOK'
  BY <1>2 DEF StageOK, IsBroadcast
<1>9. ExecutedOK'
  BY <1>1, <1>2 DEF Strong, ExecutedOK, IsBroadcast, Dispatched, Executed
<1> QED
  BY <1>7, <1>8, <1>9

\* dispatch keeps the invariant.
LEMMA DispatchStrong ==
  ASSUME Typed, Strong, NEW t \in Types, Dispatch(t)
  PROVE  Strong'
<1>1. CASE t = AGU
  BY <1>1, DispatchAGUStrong
<1>2. CASE t # AGU
  <2>1. PICK s \in Stations, k \in Slots : Freed(t, s, k) /\ s = Head(ready_queue[t])
    BY <1>2, DispatchFrees
  <2>2. t \in Types \ {AGU}
    BY <1>2
  <2>3. HoldersOK' /\ RegistersOK' /\ OperandsOK' /\ RenamedOK'
    BY <2>1, <2>2, FreedHolders
  <2>4. DependentsOK' /\ TurnsOK' /\ LoadsOK' /\ ReadyOK'
    BY <2>1, <2>2, FreedCounts
  <2>5. WorkOK' /\ StageOK' /\ ExecutedOK'
    BY <2>1, <2>2, FreedWork
  <2>6. StoresOK'
    BY <2>1, StoresFrame DEF Freed, Strong
  <2> QED
    BY <2>3, <2>4, <2>5, <2>6 DEF Strong
<1> QED
  BY <1>1, <1>2

\* What is at work is counted as before.
LEMMA SameWork ==
  ASSUME WorkOK,
         \A k \in Slots : Working(k)' <=> Working(k),
         \A k \in Slots : Count(completed_inst', {k}) = Count(completed_inst, {k}),
         \A k \in Slots, t \in Types \ {AGU} :
           Count(execution_unit'[t], UnitsOn(k)) = Count(execution_unit[t], UnitsOn(k))
  PROVE  WorkOK'
<1>1. ASSUME NEW k \in Slots, NEW p, WorkAt(k, p)
      PROVE  WorkAt(k, p)'
  BY <1>1 DEF WorkAt, UnitsOn
<1> QED
  BY <1>1 DEF WorkOK

\* The place of a slot, by what counts it.
LEMMA WorkPlace ==
  ASSUME WorkOK, NEW k \in Slots
  PROVE  /\ \A t \in Types \ {AGU} : Count(execution_unit[t], UnitsOn(k)) # 0 =>
              WorkAt(k, t) /\ Working(k)
         /\ Count(completed_inst, {k}) # 0 => WorkAt(k, AGU) /\ Working(k)
<1>1. PICK p \in Types \union {-1} : WorkAt(k, p) /\ (p # -1 <=> Working(k))
  BY DEF WorkOK
<1>2. \A t \in Types : t # -1
  BY DEF Types
<1>3. ASSUME NEW t \in Types \ {AGU}, Count(execution_unit[t], UnitsOn(k)) # 0
      PROVE  t = p
  BY <1>1, <1>3 DEF WorkAt
<1>4. Count(completed_inst, {k}) # 0 => p = AGU
  BY <1>1 DEF WorkAt
<1> QED
  BY <1>1, <1>2, <1>3, <1>4, Sizing

\* The front of the list is in it.
LEMMA BroadcastCounts ==
  ASSUME Typed, NEW k, IsBroadcast(k)
  PROVE  k \in Slots /\ Count(completed_inst, {k}) # 0
<1>1. completed_inst \in Seq(Slots) /\ completed_inst # <<>>
  BY DEF Typed, UnitsTyped, IsBroadcast
<1>2. /\ Head(completed_inst) \in Slots
      /\ Count(Tail(completed_inst), {k}) \in Nat
      /\ Count(completed_inst, {k}) = Count(Tail(completed_inst), {k})
                                       + IF Head(completed_inst) \in {k} THEN 1 ELSE 0
  BY <1>1, CountQueue
<1>3. k = Head(completed_inst)
  BY DEF IsBroadcast
<1> QED
  BY <1>2, <1>3

\* What a unit gives up is in the list of those completed.
LEMMA CompleteStrong ==
  ASSUME Typed, Strong, NEW t \in Types, Complete(t)
  PROVE  Strong'
<1> DEFINE q == execution_unit[t]
           c == completed_inst
<1>0. PICK k : k = Head(q).rob
  OBVIOUS
<1>1. /\ UNCHANGED <<robVars, stationVars, memVars, frontVars, reg_alias_table,
                     num_inst_commited, penalty>>
      /\ t # AGU /\ q # <<>>
      /\ completed_inst' = Append(c, k)
      /\ execution_unit' = [execution_unit EXCEPT ![t] = Tail(@)]
      /\ stage = "check" /\ stage' = "check"
  BY <1>0 DEF Complete, CanComplete, NextType, Again
<1>2. /\ UNCHANGED <<rob, issue_ptr, commit_ptr, reservation_station, ready_queue,
                     load_store_queue, pending_load_store>>
  BY <1>1 DEF robVars, stationVars, memVars
<1>3. InUse' = InUse /\ InUse \subseteq Slots
  BY <1>2, InUseSame, TypedFacts
<1>4. /\ q \in Seq(UnitRecords) /\ c \in Seq(Slots) /\ AGU \in Types
      /\ execution_unit \in [Types -> Seq(UnitRecords)]
  BY TypedFacts
<1>5. /\ execution_unit'[t] = Tail(q)
      /\ \A u \in Types \ {t} : execution_unit'[u] = execution_unit[u]
  BY <1>1, <1>4
<1>6. /\ Head(q) \in UnitRecords
      /\ \A S : /\ Count(Tail(q), S) \in Nat
                /\ Count(q, S) = Count(Tail(q), S) + IF Head(q) \in S THEN 1 ELSE 0
  BY <1>1, <1>4, CountQueue
<1>7. k \in Slots /\ \A j : Head(q) \in UnitsOn(j) <=> k = j
  BY <1>0, <1>6 DEF UnitRecords, UnitsOn
<1>8. \A S : /\ Count(c, S) \in Nat
             /\ Count(Append(c, k), S) = Count(c, S) + IF k \in S THEN 1 ELSE 0
  BY <1>4, <1>7, CountQueue
<1>9. c # <<>> => Head(Append(c, k)) = Head(c)
  BY <1>4, <1>7
<1>10. c = <<>> => Head(Append(c, k)) = k
  <2>1. Append(<<>>, k) = <<k>> /\ Head(<<k>>) = k
    OBVIOUS
  <2> HIDE DEF c
  <2> QED
    BY <2>1
<1>11. Append(c, k) # <<>>
  BY <1>4, <1>7
<1> HIDE DEF q, c
<1>12. WorkAt(k, t) /\ Working(k)
  <2>1. Count(q, UnitsOn(k)) # 0
    BY <1>6, <1>7
  <2> QED
    BY <1>1, <1>7, <2>1, WorkPlace DEF Strong, q
<1>13. rob[k].status = Dispatched
  <2>1. ~ IsBroadcast(k)
    BY <1>1, <1>12, BroadcastCounts DEF WorkAt
  <2> QED
    BY <1>12, <2>1 DEF Working
<1>14. /\ \A j \in Slots : IsBroadcast(j) => IsBroadcast(j)'
       /\ \A j \in Slots : IsBroadcast(j)' => IsBroadcast(j) \/ j = k
  BY <1>1, <1>9, <1>10, <1>11 DEF IsBroadcast, c
<1>15. WorkOK'
  <2>1. ASSUME NEW j \in Slots
        PROVE  \E p \in Types \union {-1} : WorkAt(j, p)' /\ (p # -1 <=> Working(j)')
    <3>1. PICK p \in Types \union {-1} : WorkAt(j, p) /\ (p # -1 <=> Working(j))
      BY DEF Strong, WorkOK
    <3>2. CASE j = k
      <4>1. Working(k)'
        BY <1>2, <1>3, <1>12, <1>13 DEF Working
      <4>2. /\ Count(execution_unit'[t], UnitsOn(k)) = 0
            /\ Count(completed_inst', {k}) = 1
            /\ \A u \in Types \ {AGU, t} : Count(execution_unit'[u], UnitsOn(k)) = 0
        <5>1. Count(q, UnitsOn(k)) = 1 /\ Count(c, {k}) = 0
          BY <1>1, <1>12 DEF WorkAt, q, c
        <5>2. \A u \in Types \ {AGU, t} : Count(execution_unit[u], UnitsOn(k)) = 0
          BY <1>12 DEF WorkAt
        <5>3. Count(Tail(q), UnitsOn(k)) = 0
          BY <1>6, <1>7, <5>1
        <5>4. Count(Append(c, k), {k}) = 1
          BY <1>8, <5>1
        <5> QED
          BY <1>1, <1>5, <5>2, <5>3, <5>4
      <4>3. WorkAt(k, AGU)'
        BY <4>2 DEF WorkAt, UnitsOn
      <4>4. AGU # -1
        BY <1>4 DEF Types
      <4> QED
        BY <1>4, <3>2, <4>1, <4>3, <4>4
    <3>3. CASE j # k
      <4>1. Working(j)' <=> Working(j)
        <5>1. IsBroadcast(j)' <=> IsBroadcast(j)
          BY <1>14, <3>3
        <5> QED
          BY <1>2, <1>3, <5>1 DEF Working
      <4>2. Count(Tail(q), UnitsOn(j)) = Count(q, UnitsOn(j))
        BY <1>6, <1>7, <3>3
      <4>3. Count(Append(c, k), {j}) = Count(c, {j})
        BY <1>8, <3>3
      <4>4. \A u \in Types \ {AGU} : Count(execution_unit'[u], UnitsOn(j)) = Count(execution_unit[u], UnitsOn(j))
        BY <1>5, <4>2 DEF q
      <4>5. WorkAt(j, p)'
        BY <1>1, <3>1, <4>3, <4>4 DEF WorkAt, UnitsOn, c
      <4> QED
        BY <3>1, <4>1, <4>5
    <3> QED
      BY <3>2, <3>3
  <2> QED
    BY <2>1 DEF WorkOK
<1>16. StageOK'
  BY <1>1, <1>2, <1>13, <1>14 DEF Strong, StageOK
<1>17. ExecutedOK'
  BY <1>2, <1>3, <1>14 DEF Strong, ExecutedOK
<1>18. RegistersOK' /\ RenamedOK'
  BY <1>1, <1>2, <1>3 DEF Strong, RegistersOK, RenamedOK, Held
<1>19. HoldersOK' /\ DependentsOK' /\ LoadsOK' /\ ReadyOK' /\ OperandsOK' /\ StoresOK'
  BY <1>2, HoldersFrame, DependentsFrame, LoadsFrame, ReadyFrame, OperandsFrame,
     StoresFrame DEF Strong
<1>20. TurnsOK'
  <2>1. execution_unit'[AGU] = execution_unit[AGU]
    BY <1>1, <1>4, <1>5
  <2> QED
    BY <1>2, <2>1 DEF Strong, TurnsOK, TurnsOf, Held, Operand, UnitsAt
<1> QED
  BY <1>15, <1>16, <1>17, <1>18, <1>19, <1>20 DEF Strong

(***************************************************************************)
(* broadcast_ins_complete                                                  *)
(***************************************************************************)
\* A station that waited and is pushed when it no longer does is ready once.
LEMMA WokenReady ==
  ASSUME Typed, StationsTyped', ReadyOK, NEW s \in Stations, Held(s), Held(s)',
         ~ Cleared(reservation_station[s]),
         \A x \in Stations \ {s} : reservation_station'[x] = reservation_station[x],
         ready_queue' = PushIfCleared(ready_queue, reservation_station', s)
  PROVE  ReadyOK' /\ ready_queue'[AGU] = ready_queue[AGU]
<1>1. ready_queue \in ReadyQueues /\ reservation_station' \in AllStations
  BY TypedFacts DEF StationsTyped, AllStations
<1>2. /\ ready_queue'[AGU] = ready_queue[AGU]
      /\ \A t \in Types \ {AGU}, x \in Stations :
           Count(ready_queue'[t], {x}) = Count(ready_queue[t], {x}) +
             IF x = s /\ Cleared(reservation_station'[s]) /\ t = reservation_station'[s].type
             THEN 1 ELSE 0
  <2>1. PICK st \in AllStations : st = reservation_station'
    BY <1>1
  <2>2. PICK q \in ReadyQueues : q = ready_queue
    BY <1>1
  <2>3. PushedOnce(q, PushIfCleared(q, st, s), st[s], s)
    BY CountPushed
  <2>4. PushedOnce(ready_queue, ready_queue', reservation_station'[s], s)
    BY <2>1, <2>2, <2>3
  <2> QED
    BY <2>4 DEF PushedOnce
<1>3. \A t \in Types \ {AGU}, x \in Stations : Count(ready_queue[t], {x}) \in Nat
  BY <1>1, CountStation DEF ReadyQueues
<1>4. ReadyOf(s)'
  <2>1. \A t \in Types \ {AGU} : Count(ready_queue[t], {s}) = 0
    BY DEF ReadyOK, ReadyOf
  <2>2. ASSUME NEW t \in Types \ {AGU}
        PROVE  Count(ready_queue'[t], {s}) =
                 IF Cleared(reservation_station'[s]) /\ t = reservation_station'[s].type
                 THEN 1 ELSE 0
    <3>1. Count(ready_queue'[t], {s}) = Count(ready_queue[t], {s}) +
             IF Cleared(reservation_station'[s]) /\ t = reservation_station'[s].type
             THEN 1 ELSE 0
      BY <1>2
    <3> QED
      BY <2>1, <3>1
  <2> QED
    BY <2>2 DEF ReadyOf
<1>5. ASSUME NEW x \in Stations \ {s}
      PROVE  ReadyOf(x)'
  <2>1. \A t \in Types \ {AGU} : Count(ready_queue'[t], {x}) = Count(ready_queue[t], {x})
    <3>1. ASSUME NEW t \in Types \ {AGU}
          PROVE  Count(ready_queue'[t], {x}) = Count(ready_queue[t], {x})
      <4>1. Count(ready_queue'[t], {x}) = Count(ready_queue[t], {x}) +
               IF x = s /\ Cleared(reservation_station'[s]) /\ t = reservation_station'[s].type
               THEN 1 ELSE 0
        BY <1>2
      <4>2. x # s /\ Count(ready_queue[t], {x}) \in Nat
        BY <1>3
      <4> QED
        BY <4>1, <4>2
    <3> QED
      BY <3>1
  <2> QED
    BY <2>1, Untouched, SameReady DEF ReadyOK
<1> QED
  BY <1>2, <1>4, <1>5 DEF ReadyOK

\* What is broadcast is in use, and no longer waits in a station.
LEMMA BroadcastSlot ==
  ASSUME Typed, Strong, NEW k, IsBroadcast(k)
  PROVE  /\ k \in Slots /\ k \in InUse /\ WorkAt(k, AGU)
         /\ rob[k].status \in {Dispatched, Executed}
         /\ \A s \in Stations : Held(s) => reservation_station[s].rob # k
<1>1. k \in Slots /\ Count(completed_inst, {k}) # 0
  BY BroadcastCounts
<1>2. WorkAt(k, AGU) /\ Working(k)
  BY <1>1, WorkPlace DEF Strong
<1>3. k \in InUse /\ rob[k].status \in {Dispatched, Executed}
  BY <1>2 DEF Working
<1>4. \A s \in Stations : Held(s) => reservation_station[s].rob # k
  BY <1>3 DEF Strong, HoldersOK, Issued, Dispatched, Executed
<1> QED
  BY <1>1, <1>2, <1>3, <1>4

\* The status of the slot that is broadcast changes, and no other.
StatusSet(k) ==
  /\ rob'[k].status = Executed
  /\ \A j \in Slots \ {k} : rob'[j].status = rob[j].status
  /\ \A j \in Slots : rob'[j].ins = rob[j].ins
  /\ UNCHANGED <<issue_ptr, commit_ptr, reg_alias_table, execution_unit,
                 load_store_queue, pending_load_store, stage>>
  /\ stage = "broadcast"

\* Only the status of the slot and the stations' registers have changed.
LEMMA StatusSetFrame ==
  ASSUME Typed, Strong, NEW k, IsBroadcast(k), StatusSet(k),
         \A x \in Stations : /\ reservation_station'[x].valid = reservation_station[x].valid
                             /\ reservation_station'[x].rob = reservation_station[x].rob
                             /\ reservation_station'[x].ins = reservation_station[x].ins
  PROVE  InUse' = InUse /\ HoldersOK' /\ StageOK' /\ RenamedOK' /\ StoresOK'
<1>1. InUse' = InUse /\ InUse \subseteq Slots
  BY InUseSame, TypedFacts DEF StatusSet
<1>2. /\ k \in Slots /\ k \in InUse
      /\ rob[k].status \in {Dispatched, Executed}
      /\ \A s \in Stations : Held(s) => reservation_station[s].rob # k
  BY BroadcastSlot
<1>3. \A x \in Stations : Held(x)' <=> Held(x)
  BY DEF Held
<1>4. HoldersOK'
  <2>1. ASSUME NEW x \in Stations, Held(x)
        PROVE  /\ reservation_station[x].rob \in InUse
               /\ rob'[reservation_station[x].rob].status = Issued
               /\ rob'[reservation_station[x].rob].ins = reservation_station[x].ins
    BY <1>1, <1>2, <2>1 DEF StatusSet, Strong, HoldersOK
  <2>2. ASSUME NEW j \in InUse, rob'[j].status = Issued
        PROVE  \E x \in Stations : Held(x) /\ reservation_station[x].rob = j
    BY <1>1, <1>2, <2>2 DEF StatusSet, Strong, HoldersOK, Issued, Executed
  <2>3. \A x, y \in Stations :
          Held(x) /\ Held(y) /\ reservation_station[x].rob = reservation_station[y].rob
            => x = y
    BY DEF Strong, HoldersOK
  <2> QED
    BY <1>1, <1>3, <2>1, <2>2, <2>3 DEF HoldersOK
<1>5. StageOK'
  BY DEF StatusSet, StageOK
<1>6. RenamedOK'
  BY <1>1 DEF StatusSet, Strong, RenamedOK
<1>7. StoresOK'
  BY StoresFrame DEF StatusSet, Strong
<1> QED
  BY <1>1, <1>4, <1>5, <1>6, <1>7

\* Everyone who depends on it has been told.
LEMMA BroadcastDone ==
  ASSUME Typed, Strong, NEW k, k = Head(completed_inst), Broadcast, rob[k].deps = <<>>
  PROVE  Strong'
<1>1. /\ completed_inst # <<>> /\ stage = "broadcast"
      /\ rob' = [rob EXCEPT ![k].status = Executed]
      /\ completed_inst' = Tail(completed_inst)
      /\ UNCHANGED <<reservation_station, ready_queue>>
      /\ UNCHANGED <<issue_ptr, commit_ptr, aged, memVars, frontVars,
                 reg_alias_table, execution_unit, num_inst_commited, penalty,
                 stage, count>>
  BY DEF Broadcast
<1>2. IsBroadcast(k)
  BY <1>1 DEF IsBroadcast
<1>3. /\ k \in Slots /\ k \in InUse /\ WorkAt(k, AGU)
      /\ rob[k].status \in {Dispatched, Executed}
  BY <1>2, BroadcastSlot
<1>4. /\ rob'[k].status = Executed
      /\ \A j \in Slots \ {k} : rob'[j].status = rob[j].status
      /\ \A j \in Slots : rob'[j].ins = rob[j].ins /\ rob'[j].deps = rob[j].deps
  <2>1. PICK e : e = [rob[k] EXCEPT !.status = Executed]
    OBVIOUS
  <2>2. rob' = [rob EXCEPT ![k] = e]
    BY <1>1, <2>1
  <2>3. rob \in [Slots -> EntryRecords] /\ rob[k] \in EntryRecords
    BY <1>3, TypedFacts
  <2>4. e.status = Executed /\ e.deps = rob[k].deps /\ e.ins = rob[k].ins
    BY <2>1, <2>3 DEF EntryRecords
  <2> QED
    BY <1>3, <2>2, <2>3, <2>4
<1>5. StatusSet(k)
  BY <1>1, <1>4 DEF StatusSet, memVars
<1>6. InUse' = InUse /\ HoldersOK' /\ StageOK' /\ RenamedOK' /\ StoresOK'
  BY <1>1, <1>2, <1>5, StatusSetFrame
<1>7. completed_inst \in Seq(Slots) /\ AGU \in Types /\ AGU # -1
  BY TypedFacts DEF Types
<1>8. \A j : /\ Count(Tail(completed_inst), {j}) \in Nat
             /\ Count(completed_inst, {j}) = Count(Tail(completed_inst), {j})
                                              + IF k = j THEN 1 ELSE 0
  <2>1. \A S : /\ Count(Tail(completed_inst), S) \in Nat
               /\ Count(completed_inst, S) = Count(Tail(completed_inst), S)
                                              + IF Head(completed_inst) \in S THEN 1 ELSE 0
    BY <1>1, <1>7, CountQueue
  <2> QED
    BY <2>1
<1>9. Count(completed_inst', {k}) = 0
  <2>1. Count(completed_inst, {k}) = 1
    BY <1>3 DEF WorkAt
  <2> DEFINE a == Count(Tail(completed_inst), {k})
  <2>2. a \in Nat /\ 1 = a + 1
    BY <1>8, <2>1
  <2> HIDE DEF a
  <2>3. a = 0
    BY <2>2
  <2> QED
    BY <1>1, <2>3 DEF a
<1>10. \A j : IsBroadcast(j)' => Count(completed_inst', {j}) # 0
  <2>1. ASSUME NEW j, IsBroadcast(j)'
        PROVE  Count(completed_inst', {j}) # 0
    <3>1. Tail(completed_inst) \in Seq(Slots)
      BY <1>1, <1>7, CountQueue
    <3>2. Tail(completed_inst) # <<>> /\ j = Head(Tail(completed_inst))
      BY <1>1, <2>1 DEF IsBroadcast
    <3> DEFINE c == Tail(completed_inst)
    <3> HIDE DEF c
    <3>3. /\ Count(Tail(c), {j}) \in Nat
          /\ Count(c, {j}) = Count(Tail(c), {j}) + IF Head(c) \in {j} THEN 1 ELSE 0
      BY <3>1, <3>2, CountQueue DEF c
    <3>4. Count(c, {j}) # 0
      <4>1. Head(c) \in {j}
        BY <3>2 DEF c
      <4>2. Count(c, {j}) = Count(Tail(c), {j}) + 1
        BY <3>3, <4>1
      <4> QED
        BY <3>3, <4>2
    <3> QED
      BY <1>1, <3>4 DEF c
  <2> QED
    BY <2>1
<1>11. ASSUME NEW j \in Slots, j # k
       PROVE  /\ Working(j)' <=> Working(j)
              /\ Count(completed_inst', {j}) = Count(completed_inst, {j})
              /\ IsBroadcast(j)' => rob[j].status = Dispatched
  <2>1. Count(completed_inst', {j}) = Count(completed_inst, {j})
    <3>1. /\ Count(Tail(completed_inst), {j}) \in Nat
          /\ Count(completed_inst, {j}) = Count(Tail(completed_inst), {j}) + 0
      BY <1>8, <1>11
    <3> QED
      BY <1>1, <3>1
  <2>2. ~ IsBroadcast(j)
    BY <1>11 DEF IsBroadcast
  <2>3. IsBroadcast(j)' => rob[j].status = Dispatched
    <3>1. ASSUME IsBroadcast(j)'
          PROVE  Working(j)
      <4>1. Count(completed_inst, {j}) # 0
        BY <1>10, <2>1, <3>1
      <4> QED
        BY <4>1, WorkPlace DEF Strong
    <3> QED
      BY <2>2, <3>1 DEF Working
  <2>4. rob'[j].status = rob[j].status
    BY <1>4, <1>11
  <2> QED
    BY <1>6, <2>1, <2>2, <2>3, <2>4 DEF Working
<1>12. WorkOK'
  <2>1. ASSUME NEW j \in Slots
        PROVE  \E p \in Types \union {-1} : WorkAt(j, p)' /\ (p # -1 <=> Working(j)')
    <3>1. CASE j = k
      <4>1. ~ IsBroadcast(k)'
        BY <1>9, <1>10
      <4>2. ~ Working(k)'
        BY <1>4, <4>1 DEF Working, Dispatched, Executed
      <4>3. \A t \in Types : t # -1
        BY DEF Types
      <4>4. WorkAt(k, -1)'
        <5>1. \A t \in Types \ {AGU} : Count(execution_unit[t], UnitsOn(k)) = 0
          BY <1>3 DEF WorkAt
        <5> QED
          BY <1>1, <1>7, <1>9, <4>3, <5>1 DEF WorkAt, UnitsOn
      <4> QED
        BY <3>1, <4>2, <4>4
    <3>2. CASE j # k
      <4>1. PICK p \in Types \union {-1} : WorkAt(j, p) /\ (p # -1 <=> Working(j))
        BY DEF Strong, WorkOK
      <4>2. WorkAt(j, p)'
        BY <1>1, <1>11, <3>2, <4>1 DEF WorkAt, UnitsOn
      <4> QED
        BY <1>11, <3>2, <4>1, <4>2
    <3> QED
      BY <3>1, <3>2
  <2> QED
    BY <2>1 DEF WorkOK
<1>13. ExecutedOK'
  <2>1. ASSUME NEW j \in InUse, rob'[j].status = Executed, j # k
        PROVE  rob'[j].deps = <<>>
    <3>1. j \in Slots
      BY TypedFacts
    <3>2. rob[j].status = Executed /\ rob'[j].deps = rob[j].deps
      BY <1>4, <2>1, <3>1
    <3>3. ~ IsBroadcast(j)
      BY <2>1 DEF IsBroadcast
    <3> QED
      BY <3>2, <3>3 DEF Strong, ExecutedOK
  <2>2. rob'[k].deps = <<>>
    BY <1>3, <1>4
  <2> QED
    BY <1>6, <2>1, <2>2 DEF ExecutedOK
<1>14. DependentsOK'
  BY <1>1, <1>4 DEF Strong, DependentsOK, DependentsOf, Held, Registers
<1>15. RegistersOK' /\ OperandsOK'
  BY <1>1, <1>6 DEF Strong, RegistersOK, OperandsOK, Sound, Held
<1>16. TurnsOK' /\ LoadsOK' /\ ReadyOK'
  BY <1>1, TurnsFrame, LoadsFrame, ReadyFrame DEF Strong, memVars
<1> QED
  BY <1>6, <1>12, <1>13, <1>14, <1>15, <1>16 DEF Strong

\* One register of one station gets its value.
Told(k, s, r) ==
  /\ IsBroadcast(k) /\ StatusSet(k) /\ k \in Slots
  /\ s \in Stations /\ Held(s) /\ s = Head(rob[k].deps)
  /\ rob[k].deps \in Seq(Stations) /\ rob[k].deps # <<>>
  /\ rob'[k].deps = Tail(rob[k].deps)
  /\ \A j \in Slots \ {k} : rob'[j].deps = rob[j].deps
  /\ r \in Regs /\ reservation_station[s].reg[r] = k
  /\ reservation_station'[s].reg = [reservation_station[s].reg EXCEPT ![r] = -1]
  /\ reservation_station'[s].valid = reservation_station[s].valid
  /\ reservation_station'[s].rob = reservation_station[s].rob
  /\ reservation_station'[s].ins = reservation_station[s].ins
  /\ reservation_station'[s].addr = reservation_station[s].addr
  /\ reservation_station'[s].mem = reservation_station[s].mem
  /\ reservation_station'[s].type = reservation_station[s].type
  /\ \A x \in Stations \ {s} : reservation_station'[x] = reservation_station[x]
  /\ ready_queue' = PushIfCleared(ready_queue, reservation_station', s)
  /\ completed_inst' = completed_inst

\* While it has dependents, a broadcast tells one of them.
LEMMA BroadcastTells ==
  ASSUME Typed, Strong, NEW k, k = Head(completed_inst), Broadcast, rob[k].deps # <<>>
  PROVE  \E s \in Stations, r \in Regs : Told(k, s, r)
<1>1. PICK s : s = Head(rob[k].deps)
  OBVIOUS
<1>2. PICK waiting : waiting = {r \in Regs : reservation_station[s].reg[r] = k}
  OBVIOUS
<1>3. /\ completed_inst # <<>> /\ stage = "broadcast"
      /\ rob' = [rob EXCEPT ![k].status = Executed, ![k].deps = Tail(@)]
      /\ reservation_station' =
           IF waiting = {} THEN reservation_station
           ELSE [reservation_station EXCEPT
                   ![s].reg[CHOOSE r \in waiting : TRUE] = -1]
      /\ ready_queue' = PushIfCleared(ready_queue, reservation_station', s)
      /\ UNCHANGED completed_inst
      /\ UNCHANGED <<issue_ptr, commit_ptr, aged, memVars, frontVars,
                 reg_alias_table, execution_unit, num_inst_commited, penalty,
                 stage, count>>
  BY <1>1, <1>2 DEF Broadcast
<1>4. IsBroadcast(k)
  BY <1>3 DEF IsBroadcast
<1>5. k \in Slots
  BY <1>4, BroadcastSlot
<1>6. /\ rob \in [Slots -> EntryRecords] /\ rob[k] \in EntryRecords
      /\ rob[k].deps \in Seq(Stations)
      /\ reservation_station \in [Stations -> StationRecords]
  BY <1>5, TypedFacts, EntryFields DEF AllStations
<1>7. s \in Stations /\ Count(rob[k].deps, {s}) # 0
  <2> DEFINE q == rob[k].deps
  <2>1. q \in Seq(Stations) /\ q # <<>> /\ s = Head(q)
    BY <1>1, <1>6
  <2> HIDE DEF q
  <2>2. /\ Head(q) \in Stations
        /\ Count(Tail(q), {s}) \in Nat
        /\ Count(q, {s}) = Count(Tail(q), {s}) + IF Head(q) \in {s} THEN 1 ELSE 0
    BY <2>1, CountQueue
  <2>3. Count(q, {s}) = Count(Tail(q), {s}) + 1
    BY <2>1, <2>2
  <2> QED
    BY <2>1, <2>2, <2>3 DEF q
<1>8. Held(s) /\ Cardinality(Registers(reservation_station[s], k)) # 0
  BY <1>5, <1>7 DEF Strong, DependentsOK, DependentsOf
<1>9. waiting # {}
  <2>1. waiting = Registers(reservation_station[s], k)
    BY <1>2 DEF Registers
  <2> QED
    BY <1>8, <2>1, FS_EmptySet
<1>10. PICK r : r = (CHOOSE x \in waiting : TRUE)
  OBVIOUS
<1>16. r \in waiting
  <2>1. \E x \in waiting : TRUE
    BY <1>9
  <2> QED
    BY <1>10, <2>1, Zenon
<1>17. r \in Regs /\ reservation_station[s].reg[r] = k
  BY <1>2, <1>16
<1>11. reservation_station' = [reservation_station EXCEPT ![s].reg[r] = -1]
  BY <1>3, <1>9, <1>10
<1>12. /\ reservation_station'[s].reg = [reservation_station[s].reg EXCEPT ![r] = -1]
       /\ reservation_station'[s].valid = reservation_station[s].valid
       /\ reservation_station'[s].rob = reservation_station[s].rob
       /\ reservation_station'[s].ins = reservation_station[s].ins
       /\ reservation_station'[s].addr = reservation_station[s].addr
       /\ reservation_station'[s].mem = reservation_station[s].mem
       /\ reservation_station'[s].type = reservation_station[s].type
       /\ \A x \in Stations \ {s} : reservation_station'[x] = reservation_station[x]
  <2>1. PICK st \in StationRecords : st = reservation_station[s]
    BY <1>6, <1>7
  <2>2. PICK g : g = [st.reg EXCEPT ![r] = -1]
    OBVIOUS
  <2>3. PICK e : e = [st EXCEPT !.reg = g]
    OBVIOUS
  <2>4. reservation_station' = [reservation_station EXCEPT ![s] = e]
    BY <1>6, <1>7, <1>11, <1>17, <2>1, <2>2, <2>3 DEF StationRecords
  <2>5. reservation_station'[s] = e
    BY <1>6, <1>7, <2>4
  <2>6. e.reg = g /\ e.valid = st.valid /\ e.rob = st.rob /\ e.ins = st.ins
        /\ e.addr = st.addr /\ e.mem = st.mem /\ e.type = st.type
    BY <2>3 DEF StationRecords
  <2>7. \A x \in Stations \ {s} : reservation_station'[x] = reservation_station[x]
    BY <1>6, <2>4
  <2> QED
    BY <2>1, <2>2, <2>5, <2>6, <2>7
<1>13. /\ rob'[k].status = Executed /\ rob'[k].deps = Tail(rob[k].deps)
       /\ \A j \in Slots \ {k} : rob'[j] = rob[j]
       /\ rob'[k].ins = rob[k].ins
  <2>1. PICK en \in EntryRecords : en = rob[k]
    BY <1>6
  <2>2. PICK d : d = Tail(en.deps)
    OBVIOUS
  <2>3. PICK e : e = [[en EXCEPT !.status = Executed] EXCEPT !.deps = d]
    OBVIOUS
  <2>4. rob' = [rob EXCEPT ![k] = e]
    BY <1>3, <1>5, <1>6, <2>1, <2>2, <2>3 DEF EntryRecords
  <2>5. e.status = Executed /\ e.deps = d /\ e.ins = en.ins
    BY <2>3 DEF EntryRecords
  <2>6. rob'[k] = e /\ \A j \in Slots \ {k} : rob'[j] = rob[j]
    BY <1>5, <1>6, <2>4
  <2> QED
    BY <2>1, <2>2, <2>5, <2>6
<1>14. StatusSet(k)
  BY <1>3, <1>13 DEF StatusSet, memVars
<1>15. Told(k, s, r)
  BY <1>1, <1>3, <1>4, <1>5, <1>6, <1>7, <1>8, <1>17, <1>12, <1>13, <1>14 DEF Told
<1> QED
  BY <1>7, <1>15, <1>17

\* The station knows one producer less.
LEMMA ToldDependents ==
  ASSUME Typed, Strong, NEW k, NEW s \in Stations, NEW r \in Regs, Told(k, s, r)
  PROVE  DependentsOK'
<1> DEFINE q == rob[k].deps
           st == reservation_station[s]
<1>1. /\ k \in Slots /\ s = Head(q) /\ q \in Seq(Stations) /\ q # <<>>
      /\ rob'[k].deps = Tail(q)
      /\ \A j \in Slots \ {k} : rob'[j].deps = rob[j].deps
      /\ st.reg[r] = k /\ reservation_station'[s].reg = [st.reg EXCEPT ![r] = -1]
      /\ Held(s) /\ Held(s)'
      /\ \A x \in Stations \ {s} : reservation_station'[x] = reservation_station[x]
  BY DEF Told, Held
<1>2. st.reg \in [Regs -> Slots \union {-1, -2}]
  <2>1. PICK e \in StationRecords : e = reservation_station[s]
    BY TypedFacts DEF AllStations
  <2> QED
    BY <2>1, StationFields
<1> HIDE DEF q, st
<1>3. \A x : /\ Count(Tail(q), {x}) \in Nat
             /\ Count(q, {x}) = Count(Tail(q), {x}) + IF s = x THEN 1 ELSE 0
  <2>1. \A S : /\ Count(Tail(q), S) \in Nat
               /\ Count(q, S) = Count(Tail(q), S) + IF Head(q) \in S THEN 1 ELSE 0
    BY <1>1, CountQueue
  <2> QED
    BY <1>1, <2>1
<1>4. /\ Registers(reservation_station'[s], k) = Registers(st, k) \ {r}
      /\ \A j \in Slots \ {k} : Registers(reservation_station'[s], j) = Registers(st, j)
  <2>1. \A x \in Regs : reservation_station'[s].reg[x] = IF x = r THEN -1 ELSE st.reg[x]
    BY <1>1, <1>2
  <2>2. \A j \in Slots : j # -1
    BY RobSizeAssumption DEF Slots
  <2>3. Registers(reservation_station'[s], k) = Registers(st, k) \ {r}
    BY <1>1, <2>1, <2>2 DEF Registers
  <2>4. ASSUME NEW j \in Slots \ {k}
        PROVE  Registers(reservation_station'[s], j) = Registers(st, j)
    BY <1>1, <2>1, <2>2 DEF Registers
  <2> QED
    BY <2>3, <2>4
<1>5. Cardinality(Registers(st, k) \ {r}) = Cardinality(Registers(st, k)) - 1
  <2>1. IsFiniteSet(Registers(st, k))
    BY CoreAssumption, FS_Subset DEF Registers
  <2>2. r \in Registers(st, k)
    BY <1>1 DEF Registers
  <2> QED
    BY <2>1, <2>2, FS_RemoveElement
<1>6. DependentsOf(s)'
  <2>1. DependentsOf(s)
    BY DEF Strong, DependentsOK
  <2>2. Count(Tail(q), {s}) = Cardinality(Registers(st, k)) - 1
    <3>1. Count(q, {s}) = Cardinality(Registers(st, k))
      BY <1>1, <2>1 DEF DependentsOf, q, st
    <3> DEFINE a == Count(Tail(q), {s})
               b == Cardinality(Registers(st, k))
    <3>2. a \in Nat /\ b = a + 1
      BY <1>3, <3>1
    <3> HIDE DEF a, b
    <3>3. a = b - 1
      BY <3>2
    <3> QED
      BY <3>3 DEF a, b
  <2>3. ASSUME NEW j \in Slots
        PROVE  Count(rob'[j].deps, {s}) = Cardinality(Registers(reservation_station'[s], j))
    <3>1. CASE j = k
      BY <1>1, <1>4, <1>5, <2>2, <3>1
    <3>2. CASE j # k
      BY <1>1, <1>4, <2>1, <3>2 DEF DependentsOf, st
    <3> QED
      BY <3>1, <3>2
  <2> QED
    BY <1>1, <2>3 DEF DependentsOf
<1>7. ASSUME NEW x \in Stations \ {s}
      PROVE  DependentsOf(x)'
  <2>1. DependentsOf(x) /\ SameReg(x)
    BY <1>1, Untouched DEF Strong, DependentsOK
  <2>2. ASSUME NEW j \in Slots
        PROVE  Count(rob'[j].deps, {x}) = Count(rob[j].deps, {x})
    <3>1. CASE j = k
      <4>1. /\ Count(Tail(q), {x}) \in Nat
            /\ Count(q, {x}) = Count(Tail(q), {x}) + 0
        BY <1>3
      <4> QED
        BY <1>1, <3>1, <4>1 DEF q
    <3>2. CASE j # k
      BY <1>1, <3>2
    <3> QED
      BY <3>1, <3>2
  <2> QED
    BY <2>1, <2>2, SameDependents
<1> QED
  BY <1>6, <1>7 DEF DependentsOK

\* That one waits for one register less, and is in one list less.
LEMMA ToldStrong ==
  ASSUME Typed, Strong, StationsTyped', NEW k, NEW s \in Stations, NEW r \in Regs, Told(k, s, r)
  PROVE  Strong'
<1>1. /\ IsBroadcast(k) /\ StatusSet(k) /\ k \in Slots /\ Held(s) /\ Held(s)'
      /\ reservation_station[s].reg[r] = k
      /\ reservation_station'[s].reg = [reservation_station[s].reg EXCEPT ![r] = -1]
      /\ \A x \in Stations \ {s} : reservation_station'[x] = reservation_station[x]
      /\ ready_queue' = PushIfCleared(ready_queue, reservation_station', s)
      /\ completed_inst' = completed_inst
  BY DEF Told, Held
<1>2. /\ rob'[k].status = Executed
      /\ \A j \in Slots \ {k} : rob'[j].status = rob[j].status /\ rob'[j].deps = rob[j].deps
      /\ UNCHANGED <<issue_ptr, commit_ptr, reg_alias_table, execution_unit,
                 load_store_queue, pending_load_store, stage>>
  BY DEF Told, StatusSet
<1>3. \A x \in Stations : /\ reservation_station'[x].valid = reservation_station[x].valid
                          /\ reservation_station'[x].rob = reservation_station[x].rob
                          /\ reservation_station'[x].ins = reservation_station[x].ins
  BY DEF Told
<1>4. InUse' = InUse /\ HoldersOK' /\ StageOK' /\ RenamedOK' /\ StoresOK'
  BY <1>1, <1>3, StatusSetFrame
<1>5. \A x \in Stations : SameMem(x)
  BY DEF Told, SameMem
<1>6. ~ Cleared(reservation_station[s])
  BY <1>1, RobSizeAssumption DEF Cleared, Slots
<1>7. ReadyOK' /\ ready_queue'[AGU] = ready_queue[AGU]
  BY <1>1, <1>6, WokenReady DEF Strong
<1>8. TurnsOK'
  <2>1. ASSUME NEW x \in Stations
        PROVE  TurnsOf(x)'
    BY <1>2, <1>5, <1>7, SameTurns DEF Strong, TurnsOK
  <2> QED
    BY <2>1 DEF TurnsOK
<1>9. LoadsOK'
  <2>1. ASSUME NEW x \in Stations
        PROVE  LoadsOf(x)'
    BY <1>2, <1>5, SameLoads DEF Strong, LoadsOK
  <2> QED
    BY <2>1 DEF LoadsOK
<1>10. DependentsOK'
  BY ToldDependents
<1>11. \A j : IsBroadcast(j)' <=> IsBroadcast(j)
  BY <1>1 DEF IsBroadcast
<1>12. k \in InUse /\ rob[k].status \in {Dispatched, Executed}
  BY <1>1, BroadcastSlot
<1>13. WorkOK'
  <2>1. ASSUME NEW j \in Slots
        PROVE  Working(j)' <=> Working(j)
    <3>1. CASE j = k
      BY <1>1, <1>2, <1>4, <1>11, <1>12, <3>1 DEF Working
    <3>2. CASE j # k
      BY <1>2, <1>4, <1>11, <3>2 DEF Working
    <3> QED
      BY <3>1, <3>2
  <2> QED
    BY <1>1, <1>2, <2>1, SameWork DEF Strong
<1>14. ExecutedOK'
  <2>1. ASSUME NEW j \in InUse, rob'[j].status = Executed, ~ IsBroadcast(j)
        PROVE  rob'[j].deps = <<>>
    <3>1. j \in Slots \ {k}
      BY <1>1, <2>1, TypedFacts
    <3> QED
      BY <1>2, <2>1, <3>1 DEF Strong, ExecutedOK
  <2> QED
    BY <1>4, <1>11, <2>1 DEF ExecutedOK
<1>15. RegistersOK'
  <2>1. ASSUME NEW x \in Stations, Held(x)', NEW y \in Regs, reservation_station'[x].reg[y] # -1
        PROVE  /\ reservation_station'[x].reg[y] \in InUse
               /\ reservation_station'[x].reg[y] # reservation_station'[x].rob
    <3>1. reservation_station[s].reg \in [Regs -> Slots \union {-1, -2}]
      <4>1. PICK e \in StationRecords : e = reservation_station[s]
        BY TypedFacts DEF AllStations
      <4> QED
        BY <4>1, StationFields
    <3>2. reservation_station'[x].reg[y] = reservation_station[x].reg[y]
      <4>1. CASE x = s
        BY <1>1, <2>1, <3>1, <4>1
      <4>2. CASE x # s
        BY <1>1, <4>2
      <4> QED
        BY <4>1, <4>2
    <3>3. Held(x) /\ reservation_station'[x].rob = reservation_station[x].rob
      BY <1>3, <2>1 DEF Held
    <3> QED
      BY <2>1, <3>2, <3>3 DEF Strong, RegistersOK
  <2> QED
    BY <1>4, <2>1 DEF RegistersOK
<1>16. OperandsOK'
  BY <1>3, <1>5 DEF Strong, OperandsOK, Sound, SameMem, Held
<1> QED
  BY <1>4, <1>7, <1>8, <1>9, <1>10, <1>13, <1>14, <1>15, <1>16 DEF Strong

\* broadcast_ins_complete keeps the invariant.
LEMMA BroadcastStrong ==
  ASSUME Typed, Strong, Broadcast
  PROVE  Strong'
<1>1. PICK k : k = Head(completed_inst)
  OBVIOUS
<1>2. StationsTyped'
  BY BroadcastTypes DEF Kept
<1>3. CASE rob[k].deps = <<>>
  BY <1>1, <1>3, BroadcastDone
<1>4. CASE rob[k].deps # <<>>
  BY <1>1, <1>2, <1>4, BroadcastTells, ToldStrong
<1> QED
  BY <1>3, <1>4

(***************************************************************************)
(* An operand of a station gets its value, or is asked for.                *)
(***************************************************************************)
\* Operand i of station s is answered or asked for; nothing else of it changes.
Settled(s, i, v) ==
  /\ s \in Stations /\ i \in 1 .. 2 /\ Held(s)
  /\ v \in {Answered, Asked}
  /\ reservation_station[s].mem[i] \in {Unborn, Asked}
  /\ reservation_station[s].mem[i] # v
  /\ reservation_station'[s].mem = [reservation_station[s].mem EXCEPT ![i] = v]
  /\ SameReg(s)
  /\ reservation_station'[s].rob = reservation_station[s].rob
  /\ reservation_station'[s].ins = reservation_station[s].ins
  /\ reservation_station'[s].addr = reservation_station[s].addr
  /\ reservation_station'[s].type = reservation_station[s].type
  /\ \A x \in Stations \ {s} : reservation_station'[x] = reservation_station[x]
  /\ UNCHANGED <<rob, issue_ptr, commit_ptr, reg_alias_table, completed_inst>>

\* The operands of a station.
LEMMA HeldOperands ==
  ASSUME Typed, NEW s \in Stations
  PROVE  /\ reservation_station[s].mem \in [1 .. 2 -> {Answered, Unborn, Asked}]
         /\ reservation_station[s].addr \in [1 .. 2 -> Addresses]
         /\ reservation_station[s] \in StationRecords
<1>1. PICK e \in StationRecords : e = reservation_station[s]
  BY TypedFacts DEF AllStations
<1> QED
  BY <1>1, StationFields

\* An operand that is settled changes nothing of what is held or waited for.
LEMMA SettledFrame ==
  ASSUME Typed, Strong, NEW s, NEW i, NEW v, Settled(s, i, v)
  PROVE  /\ HoldersOK' /\ DependentsOK' /\ RegistersOK' /\ ExecutedOK' /\ RenamedOK'
         /\ OperandsOK'
<1>1. InUse' = InUse /\ InUse \subseteq Slots
  BY InUseSame, TypedFacts DEF Settled
<1>2. \A x \in Stations :
        /\ reservation_station'[x].valid = reservation_station[x].valid
        /\ reservation_station'[x].rob = reservation_station[x].rob
        /\ reservation_station'[x].ins = reservation_station[x].ins
        /\ reservation_station'[x].reg = reservation_station[x].reg
        /\ reservation_station'[x].addr = reservation_station[x].addr
  BY DEF Settled, SameReg
<1>3. UNCHANGED <<rob, issue_ptr, commit_ptr, reg_alias_table, completed_inst>>
  BY DEF Settled
<1>4. \A x \in Stations : Held(x)' <=> Held(x)
  BY <1>2 DEF Held
<1>5. HoldersOK'
  BY <1>1, <1>2, <1>3, <1>4 DEF Strong, HoldersOK
<1>6. DependentsOK'
  <2>1. ASSUME NEW x \in Stations
        PROVE  DependentsOf(x)'
    BY <1>2, <1>3, SameDependents DEF Strong, DependentsOK, SameReg
  <2> QED
    BY <2>1 DEF DependentsOK
<1>7. RegistersOK' /\ ExecutedOK' /\ RenamedOK'
  BY <1>1, <1>2, <1>3, <1>4 DEF Strong, RegistersOK, ExecutedOK, RenamedOK, IsBroadcast
<1>8. OperandsOK'
  <2>1. ASSUME NEW x \in Stations, Held(x)
        PROVE  Sound(reservation_station'[x])
    <3>1. Sound(reservation_station[x])
      BY <2>1 DEF Strong, OperandsOK
    <3>2. CASE x # s
      BY <3>1, <3>2 DEF Settled
    <3>3. CASE x = s
      <4>1. reservation_station[s].addr[i] # NoAddr
        BY <3>1, <3>3 DEF Settled, Sound, Answered, Unborn, Asked
      <4>2. reservation_station[s].mem \in [1 .. 2 -> {Answered, Unborn, Asked}]
        BY <3>3, HeldOperands
      <4>3. \A j \in 1 .. 2 : j # i => reservation_station'[s].mem[j] = reservation_station[s].mem[j]
        BY <4>2 DEF Settled
      <4> QED
        BY <1>2, <3>1, <3>3, <4>1, <4>3 DEF Sound
    <3> QED
      BY <3>2, <3>3
  <2> QED
    BY <1>4, <2>1 DEF OperandsOK
<1> QED
  BY <1>5, <1>6, <1>7, <1>8

\* How many operands wait for each thing then.
OperandsMove(s, i, v) ==
  \A m \in {Unborn, Asked} :
    /\ Cardinality(Operand(reservation_station'[s], m)) =
         Cardinality(Operand(reservation_station[s], m))
         + (IF m = v THEN 1 ELSE 0)
         - (IF m = reservation_station[s].mem[i] THEN 1 ELSE 0)
    /\ \A a : Cardinality(OperandAt(reservation_station'[s], m, a)) =
         Cardinality(OperandAt(reservation_station[s], m, a))
         + (IF m = v /\ a = reservation_station[s].addr[i] THEN 1 ELSE 0)
         - (IF m = reservation_station[s].mem[i] /\ a = reservation_station[s].addr[i]
            THEN 1 ELSE 0)

\* The counts of the operands follow.
LEMMA SettledSets ==
  ASSUME Typed, NEW s, NEW i, NEW v, Settled(s, i, v)
  PROVE  OperandsMove(s, i, v)
<1>1. PICK st : st = reservation_station[s]
  OBVIOUS
<1>2. PICK new : new = reservation_station'[s]
  OBVIOUS
<1>3. /\ i \in 1 .. 2 /\ v # st.mem[i] /\ new.addr = st.addr
      /\ new.mem[i] = v
      /\ \A j \in 1 .. 2 : j # i => new.mem[j] = st.mem[j]
  <2>1. s \in Stations /\ i \in 1 .. 2 /\ v # st.mem[i] /\ new.addr = st.addr
        /\ new.mem = [st.mem EXCEPT ![i] = v]
    BY <1>1, <1>2 DEF Settled
  <2>2. st.mem \in [1 .. 2 -> {Answered, Unborn, Asked}]
    BY <1>1, <2>1, HeldOperands
  <2> QED
    BY <2>1, <2>2
<1>4. ASSUME NEW S \in SUBSET (1 .. 2), NEW T \in SUBSET (1 .. 2), NEW b \in BOOLEAN,
             NEW c \in BOOLEAN, ~ (b /\ c), b => i \notin S, c => i \in S,
             T = IF b THEN S \union {i} ELSE IF c THEN S \ {i} ELSE S
      PROVE  Cardinality(T) = Cardinality(S) + (IF b THEN 1 ELSE 0) - (IF c THEN 1 ELSE 0)
  <2>1. IsFiniteSet(S) /\ Cardinality(S) \in Nat
    <3>1. IsFiniteSet(S) /\ Cardinality(S) \in 0 .. 2
      BY FewOperands
    <3> QED
      BY <3>1
  <2>2. CASE b
    <3>1. T = S \union {i} /\ i \notin S
      BY <1>4, <2>2
    <3>2. Cardinality(T) = Cardinality(S) + 1
      BY <2>1, <3>1, FS_AddElement
    <3> QED
      BY <1>4, <2>1, <2>2, <3>2
  <2>3. CASE c
    <3>1. T = S \ {i} /\ i \in S
      BY <1>4, <2>3
    <3>2. Cardinality(T) = Cardinality(S) - 1
      BY <2>1, <3>1, FS_RemoveElement
    <3> QED
      BY <1>4, <2>1, <2>3, <3>2
  <2>4. CASE ~ b /\ ~ c
    <3>1. T = S
      BY <1>4, <2>4
    <3> QED
      BY <2>1, <2>4, <3>1
  <2> QED
    BY <2>2, <2>3, <2>4
<1>5. ASSUME NEW m \in {Unborn, Asked}
      PROVE  Cardinality(Operand(new, m)) = Cardinality(Operand(st, m))
               + (IF m = v THEN 1 ELSE 0) - (IF m = st.mem[i] THEN 1 ELSE 0)
  <2> DEFINE S == Operand(st, m)
             T == Operand(new, m)
  <2>1. S \in SUBSET (1 .. 2) /\ T \in SUBSET (1 .. 2)
    BY DEF Operand
  <2>2. /\ ~ (m = v /\ m = st.mem[i])
        /\ m = v => i \notin S
        /\ m = st.mem[i] => i \in S
        /\ T = IF m = v THEN S \union {i} ELSE IF m = st.mem[i] THEN S \ {i} ELSE S
    BY <1>3 DEF Operand
  <2>3. (m = v) \in BOOLEAN /\ (m = st.mem[i]) \in BOOLEAN
    OBVIOUS
  <2> HIDE DEF S, T
  <2>4. Cardinality(T) = Cardinality(S) + (IF m = v THEN 1 ELSE 0)
                           - (IF m = st.mem[i] THEN 1 ELSE 0)
    BY <1>4, <2>1, <2>2, <2>3
  <2> QED
    BY <2>4 DEF S, T
<1>6. ASSUME NEW m \in {Unborn, Asked}, NEW a
      PROVE  Cardinality(OperandAt(new, m, a)) = Cardinality(OperandAt(st, m, a))
               + (IF m = v /\ a = st.addr[i] THEN 1 ELSE 0)
               - (IF m = st.mem[i] /\ a = st.addr[i] THEN 1 ELSE 0)
  <2> DEFINE S == OperandAt(st, m, a)
             T == OperandAt(new, m, a)
             b == m = v /\ a = st.addr[i]
             c == m = st.mem[i] /\ a = st.addr[i]
  <2>1. S \in SUBSET (1 .. 2) /\ T \in SUBSET (1 .. 2)
    BY DEF OperandAt
  <2>2. /\ ~ (b /\ c)
        /\ b => i \notin S
        /\ c => i \in S
        /\ T = IF b THEN S \union {i} ELSE IF c THEN S \ {i} ELSE S
    BY <1>3 DEF OperandAt
  <2>3. b \in BOOLEAN /\ c \in BOOLEAN
    OBVIOUS
  <2> HIDE DEF S, T, b, c
  <2>4. Cardinality(T) = Cardinality(S) + (IF b THEN 1 ELSE 0) - (IF c THEN 1 ELSE 0)
    BY <1>4, <2>1, <2>2, <2>3
  <2> QED
    BY <2>4 DEF S, T, b, c
<1> QED
  BY <1>1, <1>2, <1>5, <1>6 DEF OperandsMove

\* One more load of station s for addr, in one of the two queues.
AddedOnce(queue, s, addr) ==
  \A x \in Stations : \A a :
    Count(load_store_queue', LoadsAt(x, a)) + Count(pending_load_store', LoadsAt(x, a))
      = Count(queue, LoadsAt(x, a)) + Count(pending_load_store, LoadsAt(x, a))
        + IF x = s /\ a = addr THEN 1 ELSE 0

\* A load or store that is added is counted once.
LEMMA AddedCounts ==
  ASSUME Typed, NEW queue \in Seq(LoadRecords), NEW s \in Stations \union {-1},
         NEW addr \in Addresses, NEW store \in BOOLEAN, AddTo(queue, s, addr, store)
  PROVE  /\ AddedOnce(queue, s, addr)
         /\ \E e \in LoadRecords :
              /\ e.station = s /\ e.store = store
              /\ load_store_queue' \in {queue, Append(queue, e)}
              /\ pending_load_store' \in {pending_load_store, Append(pending_load_store, e)}
<1>1. PICK e : e = [id |-> ld_str_id, station |-> s, addr |-> addr, store |-> store]
  OBVIOUS
<1>2. e \in LoadRecords /\ e.station = s /\ e.addr = addr /\ e.store = store
  <2>1. ld_str_id \in Nat
    BY DEF Typed, LoadsTyped
  <2> QED
    BY <1>1, <2>1 DEF LoadRecords
<1>3. \/ load_store_queue' = Append(queue, e) /\ pending_load_store' = pending_load_store
      \/ load_store_queue' = queue /\ pending_load_store' = Append(pending_load_store, e)
  BY <1>1 DEF AddTo
<1>4. pending_load_store \in Seq(LoadRecords)
  BY TypedFacts
<1>5. ASSUME NEW x \in Stations, NEW a
      PROVE  Count(load_store_queue', LoadsAt(x, a)) + Count(pending_load_store', LoadsAt(x, a))
                = Count(queue, LoadsAt(x, a)) + Count(pending_load_store, LoadsAt(x, a))
                  + IF x = s /\ a = addr THEN 1 ELSE 0
  <2>1. PICK S : S = LoadsAt(x, a)
    OBVIOUS
  <2>2. e \in S <=> (x = s /\ a = addr)
    BY <1>2, <2>1 DEF LoadsAt
  <2>3. /\ Count(queue, S) \in Nat
        /\ Count(Append(queue, e), S) = Count(queue, S) + IF e \in S THEN 1 ELSE 0
    BY <1>2, CountQueue
  <2>4. /\ Count(pending_load_store, S) \in Nat
        /\ Count(Append(pending_load_store, e), S) = Count(pending_load_store, S)
                                                       + IF e \in S THEN 1 ELSE 0
    BY <1>2, <1>4, CountQueue
  <2>5. Count(load_store_queue', S) + Count(pending_load_store', S)
          = Count(queue, S) + Count(pending_load_store, S) + IF e \in S THEN 1 ELSE 0
    <3> DEFINE n == IF e \in S THEN 1 ELSE 0
    <3>1. n \in Nat
      OBVIOUS
    <3> HIDE DEF n
    <3>2. Count(Append(queue, e), S) = Count(queue, S) + n
          /\ Count(Append(pending_load_store, e), S) = Count(pending_load_store, S) + n
      BY <2>3, <2>4 DEF n
    <3>3. Count(load_store_queue', S) + Count(pending_load_store', S)
            = Count(queue, S) + Count(pending_load_store, S) + n
      <4> DEFINE c == Count(queue, S)
                 d == Count(pending_load_store, S)
                 c1 == Count(load_store_queue', S)
                 d1 == Count(pending_load_store', S)
      <4>1. c \in Nat /\ d \in Nat
        BY <2>3, <2>4
      <4>2. (c1 = c + n /\ d1 = d) \/ (c1 = c /\ d1 = d + n)
        BY <1>3, <3>2
      <4> HIDE DEF c, d, c1, d1
      <4>3. c1 + d1 = c + d + n
        BY <3>1, <4>1, <4>2
      <4> QED
        BY <4>3 DEF c, d, c1, d1
    <3> QED
      BY <3>3 DEF n
  <2> QED
    BY <2>1, <2>2, <2>5 DEF LoadsAt
<1> QED
  BY <1>2, <1>3, <1>5 DEF AddedOnce

\* A load may follow, or a store no station waits for.
LEMMA StoresLast ==
  ASSUME NEW e \in LoadRecords, e.store => e.station = -1,
         NEW q \in Seq(LoadRecords), NEW new \in {q, Append(q, e)},
         \A i \in DOMAIN q : q[i].store => q[i].station = -1
  PROVE  \A i \in DOMAIN new : new[i].store => new[i].station = -1
<1>1. CASE new = q
  BY <1>1
<1>2. CASE new = Append(q, e)
  <2>1. Len(q) \in Nat /\ DOMAIN q = 1 .. Len(q) /\ DOMAIN new = 1 .. Len(q) + 1
    BY <1>2
  <2>2. ASSUME NEW i \in 1 .. Len(q) + 1
        PROVE  new[i] = IF i \in DOMAIN q THEN q[i] ELSE e
    BY <1>2, <2>1
  <2> QED
    BY <2>1, <2>2
<1> QED
  BY <1>1, <1>2

\* One more load or store, of a station or of none.
LEMMA StoresAppend ==
  ASSUME StoresOK, NEW e \in LoadRecords, e.store => e.station = -1,
         load_store_queue \in Seq(LoadRecords), pending_load_store \in Seq(LoadRecords),
         load_store_queue' \in {load_store_queue, Append(load_store_queue, e)},
         pending_load_store' \in {pending_load_store, Append(pending_load_store, e)}
  PROVE  StoresOK'
<1>1. ASSUME NEW q \in Seq(LoadRecords), NEW new \in {q, Append(q, e)},
             \A i \in DOMAIN q : q[i].store => q[i].station = -1
      PROVE  \A i \in DOMAIN new : new[i].store => new[i].station = -1
  BY <1>1, StoresLast
<1> QED
  BY <1>1 DEF StoresOK

(***************************************************************************)
(* broadcast_agu                                                           *)
(***************************************************************************)
\* The first unit of the AGU works for an operand that has no address.
LEMMA AGUFront ==
  ASSUME Typed, Strong, execution_unit[AGU] # <<>>,
         NEW s, s = Head(execution_unit[AGU]).station
  PROVE  /\ s \in Stations /\ Held(s)
         /\ Operand(reservation_station[s], Unborn) # {}
         /\ \A x \in Stations :
              /\ Count(Tail(execution_unit[AGU]), UnitsAt(x)) \in Nat
              /\ Count(execution_unit[AGU], UnitsAt(x)) =
                   Count(Tail(execution_unit[AGU]), UnitsAt(x)) + IF x = s THEN 1 ELSE 0
<1> DEFINE q == execution_unit[AGU]
<1>1. q \in Seq(UnitRecords) /\ q # <<>> /\ ready_queue[AGU] \in Seq(Stations)
  BY TypedFacts DEF ReadyQueues
<1> HIDE DEF q
<1>2. /\ Head(q) \in UnitRecords
      /\ \A S : /\ Count(Tail(q), S) \in Nat
                /\ Count(q, S) = Count(Tail(q), S) + IF Head(q) \in S THEN 1 ELSE 0
  BY <1>1, CountQueue
<1>3. s \in Stations /\ \A x : Head(q) \in UnitsAt(x) <=> x = s
  BY <1>2 DEF UnitRecords, UnitsAt, q
<1>4. \A x : /\ Count(Tail(q), UnitsAt(x)) \in Nat
             /\ Count(q, UnitsAt(x)) = Count(Tail(q), UnitsAt(x)) + IF x = s THEN 1 ELSE 0
  BY <1>2, <1>3
<1>5. Count(ready_queue[AGU], {s}) + Count(q, UnitsAt(s)) # 0
  <2>1. Count(ready_queue[AGU], {s}) \in Nat
    BY <1>1, CountQueue
  <2>2. Count(q, UnitsAt(s)) = Count(Tail(q), UnitsAt(s)) + 1 /\ Count(Tail(q), UnitsAt(s)) \in Nat
    BY <1>4
  <2> QED
    BY <2>1, <2>2
<1>6. Held(s) /\ Cardinality(Operand(reservation_station[s], Unborn)) # 0
  BY <1>3, <1>5 DEF Strong, TurnsOK, TurnsOf, q
<1>7. Operand(reservation_station[s], Unborn) # {}
  BY <1>6, FS_EmptySet
<1> QED
  BY <1>3, <1>4, <1>6, <1>7 DEF q

\* It is answered by a store, or the caches are asked.
Generated(s, i, v) ==
  /\ Settled(s, i, v) /\ reservation_station[s].mem[i] = Unborn
  /\ s = Head(execution_unit[AGU]).station
  /\ execution_unit[AGU] # <<>>
  /\ execution_unit' = [execution_unit EXCEPT ![AGU] = Tail(@)]
  /\ ready_queue' = PushIfCleared(ready_queue, reservation_station', s)
  /\ stage = "check" /\ stage' = "broadcast"
  /\ \/ v = Answered /\ UNCHANGED <<load_store_queue, pending_load_store>>
     \/ v = Asked /\ AddTo(load_store_queue, s, reservation_station[s].addr[i], FALSE)

\* broadcast_agu settles one operand, by a store in the queue or a load.
LEMMA CompleteAGUGenerates ==
  ASSUME Typed, Strong, CompleteAGU
  PROVE  \E s, i, v : Generated(s, i, v)
<1>1. PICK s : s = Head(execution_unit[AGU]).station
  OBVIOUS
<1>2. PICK st : st = reservation_station[s]
  OBVIOUS
<1>3. PICK i : i = Min(Operand(st, Unborn))
  OBVIOUS
<1>4. execution_unit[AGU] # <<>>
  BY DEF CompleteAGU, CanComplete
<1>5. s \in Stations /\ Held(s) /\ Operand(st, Unborn) # {}
  BY <1>1, <1>2, <1>4, AGUFront
<1>6. /\ UNCHANGED <<robVars, aged, frontVars, reg_alias_table, completed_inst,
                     num_inst_commited, penalty>>
      /\ execution_unit' = [execution_unit EXCEPT ![AGU] = Tail(@)]
      /\ ready_queue' = PushIfCleared(ready_queue, reservation_station', s)
      /\ stage = "check" /\ stage' = "broadcast"
      /\ \/ /\ reservation_station' = [reservation_station EXCEPT
                                         ![s] = AnswerOperands(st, st.addr[i])]
            /\ UNCHANGED memVars
         \/ /\ reservation_station' = [reservation_station EXCEPT ![s].mem[i] = Asked]
            /\ AddTo(load_store_queue, s, st.addr[i], FALSE)
  BY <1>1, <1>2, <1>3, <1>5 DEF CompleteAGU, Operand, Goto
<1>7. UNCHANGED <<rob, issue_ptr, commit_ptr>>
  BY <1>6 DEF robVars
<1>8. st \in StationRecords /\ reservation_station \in [Stations -> StationRecords]
  BY <1>2, <1>5, HeldOperands, TypedFacts DEF AllStations
<1>9. /\ st.mem \in [1 .. 2 -> {Answered, Unborn, Asked}]
      /\ st.addr \in [1 .. 2 -> Addresses]
  BY <1>8, StationFields
<1>10. i \in 1 .. 2 /\ st.mem[i] = Unborn
  <2> DEFINE S == Operand(st, Unborn)
  <2>1. S \in SUBSET Nat
    BY DEF Operand
  <2> HIDE DEF S
  <2>2. i \in S
    BY <1>3, <1>5, <2>1, FirstOf DEF S
  <2> QED
    BY <2>2 DEF S, Operand
<1>11. \A j \in 1 .. 2 : st.addr[j] = st.addr[i] <=> j = i
  <2>1. Sound(st)
    BY <1>2, <1>5 DEF Strong, OperandsOK
  <2>2. st.addr[i] # NoAddr
    BY <1>10, <2>1 DEF Sound, Answered, Unborn
  <2>3. st.addr[1] # st.addr[2]
    BY <1>10, <2>1, <2>2 DEF Sound
  <2> QED
    BY <1>10, <2>3
<1>12. ASSUME NEW m, NEW v, v \in {Answered, Asked}, m = [st.mem EXCEPT ![i] = v],
              reservation_station' = [reservation_station EXCEPT ![s] = [st EXCEPT !.mem = m]]
       PROVE  Settled(s, i, v)
  <2>1. PICK e : e = [st EXCEPT !.mem = m]
    OBVIOUS
  <2>2. reservation_station' = [reservation_station EXCEPT ![s] = e]
    BY <1>12, <2>1
  <2>3. /\ reservation_station'[s] = e
        /\ \A x \in Stations \ {s} : reservation_station'[x] = reservation_station[x]
    BY <1>5, <1>8, <2>2
  <2>4. /\ e.mem = m /\ e.valid = st.valid /\ e.rob = st.rob /\ e.ins = st.ins
        /\ e.reg = st.reg /\ e.addr = st.addr /\ e.type = st.type
    BY <1>8, <2>1 DEF StationRecords
  <2>5. v # Unborn
    BY <1>12 DEF Answered, Asked, Unborn
  <2> QED
    BY <1>2, <1>5, <1>6, <1>7, <1>10, <1>12, <2>3, <2>4, <2>5 DEF Settled, SameReg
<1>13. CASE /\ reservation_station' = [reservation_station EXCEPT
                                         ![s] = AnswerOperands(st, st.addr[i])]
            /\ UNCHANGED memVars
  <2>1. PICK m : m = [st.mem EXCEPT ![i] = Answered]
    OBVIOUS
  <2>2. AnswerOperands(st, st.addr[i]) = [st EXCEPT !.mem = m]
    <3>1. m = [j \in 1 .. 2 |-> IF st.addr[j] = st.addr[i] THEN Answered ELSE st.mem[j]]
      BY <1>9, <1>10, <1>11, <2>1
    <3>2. /\ AnswerOperands(st, st.addr[i]).mem
              = [j \in 1 .. 2 |-> IF st.addr[j] = st.addr[i] THEN Answered ELSE st.mem[j]]
          /\ AnswerOperands(st, st.addr[i])
              = [st EXCEPT !.mem = AnswerOperands(st, st.addr[i]).mem]
      BY <1>8, StationAnswered
    <3>3. AnswerOperands(st, st.addr[i]).mem = m
      BY <3>1, <3>2
    <3> QED
      BY <3>2, <3>3
  <2>3. Settled(s, i, Answered)
    BY <1>12, <1>13, <2>1, <2>2
  <2>4. UNCHANGED <<load_store_queue, pending_load_store>>
    BY <1>13 DEF memVars
  <2>5. Generated(s, i, Answered)
    BY <1>1, <1>2, <1>4, <1>6, <1>10, <2>3, <2>4 DEF Generated
  <2> QED
    BY <2>5
<1>14. CASE /\ reservation_station' = [reservation_station EXCEPT ![s].mem[i] = Asked]
            /\ AddTo(load_store_queue, s, st.addr[i], FALSE)
  <2>1. PICK m : m = [st.mem EXCEPT ![i] = Asked]
    OBVIOUS
  <2>2. reservation_station' = [reservation_station EXCEPT ![s] = [st EXCEPT !.mem = m]]
    BY <1>2, <1>5, <1>8, <1>14, <2>1 DEF StationRecords
  <2>3. Settled(s, i, Asked)
    BY <1>12, <2>1, <2>2
  <2>4. Generated(s, i, Asked)
    BY <1>1, <1>2, <1>4, <1>6, <1>10, <1>14, <2>3 DEF Generated
  <2> QED
    BY <2>4
<1> QED
  BY <1>6, <1>13, <1>14

\* Somebody settled waited before.
LEMMA SettledWaits ==
  ASSUME NEW s, NEW i, NEW v, Settled(s, i, v)
  PROVE  s \in Stations /\ Held(s) /\ Held(s)' /\ ~ Cleared(reservation_station[s])
         /\ \A x \in Stations \ {s} : reservation_station'[x] = reservation_station[x]
<1>1. reservation_station[s].mem[i] # Answered /\ i \in 1 .. 2
  BY DEF Settled, Answered, Unborn, Asked
<1> QED
  BY <1>1 DEF Settled, Cleared, Held, SameReg

\* The station has one turn less.
LEMMA GeneratedTurns ==
  ASSUME Typed, Strong, NEW s, NEW i, NEW v, Generated(s, i, v),
         ready_queue'[AGU] = ready_queue[AGU]
  PROVE  TurnsOK'
<1>1. /\ Settled(s, i, v) /\ s = Head(execution_unit[AGU]).station
      /\ execution_unit[AGU] # <<>>
      /\ execution_unit'[AGU] = Tail(execution_unit[AGU])
      /\ reservation_station[s].mem[i] = Unborn /\ v # Unborn
  BY TypedFacts DEF Generated, Settled
<1>2. /\ s \in Stations /\ Held(s) /\ Held(s)'
      /\ \A x \in Stations \ {s} : reservation_station'[x] = reservation_station[x]
  BY <1>1, SettledWaits
<1>3. \A x \in Stations :
        /\ Count(Tail(execution_unit[AGU]), UnitsAt(x)) \in Nat
        /\ Count(execution_unit[AGU], UnitsAt(x)) =
             Count(Tail(execution_unit[AGU]), UnitsAt(x)) + IF x = s THEN 1 ELSE 0
  BY <1>1, AGUFront
<1>4. \A x \in Stations : Count(ready_queue[AGU], {x}) \in Nat
  BY TypedFacts, CountQueue DEF ReadyQueues
<1>5. TurnsOf(s)'
  <2>1. TurnsOf(s)
    BY <1>2 DEF Strong, TurnsOK
  <2>2. Cardinality(Operand(reservation_station'[s], Unborn))
          = Cardinality(Operand(reservation_station[s], Unborn)) - 1
    <3>1. Cardinality(Operand(reservation_station'[s], Unborn)) =
                Cardinality(Operand(reservation_station[s], Unborn))
                + (IF Unborn = v THEN 1 ELSE 0)
                - (IF Unborn = reservation_station[s].mem[i] THEN 1 ELSE 0)
      BY <1>1, SettledSets DEF OperandsMove
    <3>2. Cardinality(Operand(reservation_station[s], Unborn)) \in Int
      <4>1. Operand(reservation_station[s], Unborn) \in SUBSET (1 .. 2)
        BY DEF Operand
      <4> QED
        BY <4>1, FewOperands
    <3> QED
      BY <1>1, <3>1, <3>2
  <2> DEFINE a == Count(ready_queue[AGU], {s})
             b == Count(execution_unit[AGU], UnitsAt(s))
             b1 == Count(Tail(execution_unit[AGU]), UnitsAt(s))
             c == Cardinality(Operand(reservation_station[s], Unborn))
             c1 == Cardinality(Operand(reservation_station'[s], Unborn))
  <2>3. a + b = c
    BY <1>2, <2>1 DEF TurnsOf
  <2>4. a \in Nat /\ b1 \in Nat /\ b = b1 + 1 /\ c1 = c - 1
    BY <1>2, <1>3, <1>4, <2>2
  <2>5. (a + b1 = c1) => TurnsOf(s)'
    BY <1>1, <1>2 DEF TurnsOf, UnitsAt
  <2> HIDE DEF a, b, b1, c, c1
  <2> QED
    BY <2>3, <2>4, <2>5
<1>6. ASSUME NEW x \in Stations \ {s}
      PROVE  TurnsOf(x)'
  <2>1. TurnsOf(x) /\ SameMem(x)
    BY <1>2, Untouched DEF Strong, TurnsOK
  <2>2. /\ Count(Tail(execution_unit[AGU]), UnitsAt(x)) \in Nat
        /\ Count(execution_unit[AGU], UnitsAt(x)) = Count(Tail(execution_unit[AGU]), UnitsAt(x)) + 0
    BY <1>3
  <2>3. Count(execution_unit'[AGU], UnitsAt(x)) = Count(execution_unit[AGU], UnitsAt(x))
    BY <1>1, <2>2
  <2> QED
    BY <2>1, <2>3, SameTurns
<1> QED
  BY <1>5, <1>6 DEF TurnsOK

\* It has one more load, unless a store has answered it.
LEMMA GeneratedLoads ==
  ASSUME Typed, Strong, NEW s, NEW i, NEW v, Generated(s, i, v)
  PROVE  LoadsOK' /\ StoresOK'
<1>1. /\ Settled(s, i, v) /\ reservation_station[s].mem[i] = Unborn /\ i \in 1 .. 2
      /\ \/ v = Answered /\ UNCHANGED <<load_store_queue, pending_load_store>>
         \/ v = Asked /\ AddTo(load_store_queue, s, reservation_station[s].addr[i], FALSE)
  BY DEF Generated, Settled
<1>2. /\ s \in Stations /\ Held(s) /\ Held(s)'
      /\ \A x \in Stations \ {s} : reservation_station'[x] = reservation_station[x]
  BY <1>1, SettledWaits
<1>3. PICK b : b = reservation_station[s].addr[i]
  OBVIOUS
<1>4. b \in Addresses
  BY <1>1, <1>2, <1>3, HeldOperands
<1>5. \A a : Cardinality(OperandAt(reservation_station'[s], Asked, a)) =
                Cardinality(OperandAt(reservation_station[s], Asked, a))
                + (IF v = Asked /\ a = b THEN 1 ELSE 0)
  <2>1. \A a : Cardinality(OperandAt(reservation_station'[s], Asked, a)) =
                Cardinality(OperandAt(reservation_station[s], Asked, a))
                + (IF Asked = v /\ a = b THEN 1 ELSE 0)
                - (IF Asked = reservation_station[s].mem[i] /\ a = b THEN 1 ELSE 0)
    <3>1. \A m \in {Unborn, Asked} :
             \A a : Cardinality(OperandAt(reservation_station'[s], m, a)) =
                Cardinality(OperandAt(reservation_station[s], m, a))
                + (IF m = v /\ a = reservation_station[s].addr[i] THEN 1 ELSE 0)
                - (IF m = reservation_station[s].mem[i] /\ a = reservation_station[s].addr[i]
                   THEN 1 ELSE 0)
      <4>1. OperandsMove(s, i, v)
        BY <1>1, SettledSets
      <4> QED
        BY <4>1 DEF OperandsMove
    <3> QED
      BY <1>3, <3>1
  <2>2. Asked # reservation_station[s].mem[i]
    BY <1>1 DEF Asked, Unborn
  <2>3. \A a : Cardinality(OperandAt(reservation_station[s], Asked, a)) \in Nat
    <3>1. \A a : OperandAt(reservation_station[s], Asked, a) \in SUBSET (1 .. 2)
      BY DEF OperandAt
    <3>2. \A S \in SUBSET (1 .. 2) : Cardinality(S) \in Nat
      BY FewOperands
    <3> QED
      BY <3>1, <3>2
  <2> QED
    BY <2>1, <2>2, <2>3
<1>6. \A x \in Stations : \A a :
        Count(load_store_queue', LoadsAt(x, a)) + Count(pending_load_store', LoadsAt(x, a))
          = Count(load_store_queue, LoadsAt(x, a)) + Count(pending_load_store, LoadsAt(x, a))
            + IF v = Asked /\ x = s /\ a = b THEN 1 ELSE 0
  <2>1. \A x \in Stations : \A a : /\ Count(load_store_queue, LoadsAt(x, a)) \in Nat
                               /\ Count(pending_load_store, LoadsAt(x, a)) \in Nat
    BY TypedFacts, CountQueue
  <2>2. CASE v = Answered /\ UNCHANGED <<load_store_queue, pending_load_store>>
    <3>1. v # Asked
      BY <2>2 DEF Answered, Asked
    <3>2. ASSUME NEW x \in Stations, NEW a
          PROVE  Count(load_store_queue', LoadsAt(x, a)) + Count(pending_load_store', LoadsAt(x, a))
                   = Count(load_store_queue, LoadsAt(x, a)) + Count(pending_load_store, LoadsAt(x, a)) + 0
      BY <2>1, <2>2 DEF LoadsAt
    <3> QED
      BY <3>1, <3>2
  <2>3. CASE v = Asked /\ AddTo(load_store_queue, s, b, FALSE)
    <3>1. load_store_queue \in Seq(LoadRecords) /\ s \in Stations \union {-1} /\ FALSE \in BOOLEAN
      BY <1>2, TypedFacts
    <3>2. \A x \in Stations : \A a :
             Count(load_store_queue', LoadsAt(x, a)) + Count(pending_load_store', LoadsAt(x, a))
               = Count(load_store_queue, LoadsAt(x, a)) + Count(pending_load_store, LoadsAt(x, a))
                 + IF x = s /\ a = b THEN 1 ELSE 0
      <4>1. AddedOnce(load_store_queue, s, b)
        BY <1>4, <2>3, <3>1, AddedCounts
      <4> QED
        BY <4>1 DEF AddedOnce
    <3> QED
      BY <2>3, <3>2
  <2> QED
    BY <1>1, <1>3, <2>2, <2>3
<1>7. LoadsOf(s)'
  <2>1. LoadsOf(s)
    BY <1>2 DEF Strong, LoadsOK
  <2>2. ASSUME NEW a \in Addresses
        PROVE  Count(load_store_queue', LoadsAt(s, a)) + Count(pending_load_store', LoadsAt(s, a))
                 = Cardinality(OperandAt(reservation_station'[s], Asked, a))
    <3>1. Count(load_store_queue, LoadsAt(s, a)) + Count(pending_load_store, LoadsAt(s, a))
            = Cardinality(OperandAt(reservation_station[s], Asked, a))
      BY <1>2, <2>1 DEF LoadsOf
    <3>2. (v = Asked /\ s = s /\ a = b) <=> (v = Asked /\ a = b)
      OBVIOUS
    <3> QED
      BY <1>2, <1>5, <1>6, <3>1, <3>2
  <2> QED
    BY <1>2, <2>2 DEF LoadsOf, LoadsAt
<1>8. ASSUME NEW x \in Stations \ {s}
      PROVE  LoadsOf(x)'
  <2>1. LoadsOf(x) /\ SameMem(x)
    BY <1>2, Untouched DEF Strong, LoadsOK
  <2>2. \A a : Count(load_store_queue', LoadsAt(x, a)) + Count(pending_load_store', LoadsAt(x, a))
             = Count(load_store_queue, LoadsAt(x, a)) + Count(pending_load_store, LoadsAt(x, a))
    <3>1. \A a : /\ Count(load_store_queue, LoadsAt(x, a)) \in Nat
                 /\ Count(pending_load_store, LoadsAt(x, a)) \in Nat
      BY TypedFacts, CountQueue
    <3> QED
      BY <1>6, <3>1
  <2> QED
    BY <2>1, <2>2, SameLoads
<1>9. StoresOK'
  <2>1. CASE UNCHANGED <<load_store_queue, pending_load_store>>
    BY <2>1, StoresFrame DEF Strong
  <2>2. CASE AddTo(load_store_queue, s, b, FALSE)
    <3>1. load_store_queue \in Seq(LoadRecords) /\ s \in Stations \union {-1} /\ FALSE \in BOOLEAN
      BY <1>2, TypedFacts
    <3>2. PICK e \in LoadRecords :
              /\ e.store = FALSE
              /\ load_store_queue' \in {load_store_queue, Append(load_store_queue, e)}
              /\ pending_load_store' \in {pending_load_store, Append(pending_load_store, e)}
      BY <1>4, <2>2, <3>1, AddedCounts
    <3> QED
      BY <3>2, TypedFacts, StoresAppend DEF Strong
  <2> QED
    BY <1>1, <1>3, <2>1, <2>2
<1> QED
  BY <1>7, <1>8, <1>9 DEF LoadsOK

\* broadcast_agu keeps the invariant.
LEMMA CompleteAGUStrong ==
  ASSUME Typed, Strong, CompleteAGU
  PROVE  Strong'
<1>1. PICK s, i, v : Generated(s, i, v)
  BY CompleteAGUGenerates
<1>2. /\ Settled(s, i, v)
      /\ execution_unit' = [execution_unit EXCEPT ![AGU] = Tail(@)]
      /\ ready_queue' = PushIfCleared(ready_queue, reservation_station', s)
      /\ stage = "check" /\ stage' = "broadcast"
      /\ UNCHANGED <<rob, issue_ptr, commit_ptr, reg_alias_table, completed_inst>>
  BY <1>1 DEF Generated, Settled
<1>3. StationsTyped'
  BY CompleteAGUTypes DEF Kept
<1>4. /\ s \in Stations /\ Held(s) /\ Held(s)' /\ ~ Cleared(reservation_station[s])
      /\ \A x \in Stations \ {s} : reservation_station'[x] = reservation_station[x]
  BY <1>2, SettledWaits
<1>5. ReadyOK' /\ ready_queue'[AGU] = ready_queue[AGU]
  BY <1>2, <1>3, <1>4, WokenReady DEF Strong
<1>6. TurnsOK' /\ LoadsOK' /\ StoresOK'
  BY <1>1, <1>5, GeneratedTurns, GeneratedLoads
<1>7. HoldersOK' /\ DependentsOK' /\ RegistersOK' /\ ExecutedOK' /\ RenamedOK' /\ OperandsOK'
  BY <1>2, SettledFrame
<1>8. WorkOK'
  <2>1. \A t \in Types \ {AGU} : execution_unit'[t] = execution_unit[t]
    BY <1>2, TypedFacts
  <2> QED
    BY <1>2, <2>1, InUseSame, TypedFacts, WorkFrame DEF Strong
<1>9. StageOK'
  BY <1>2, StageFrame DEF Strong
<1> QED
  BY <1>5, <1>6, <1>7, <1>8, <1>9 DEF Strong

(***************************************************************************)
(* broadcast_completed_LSQ                                                 *)
(***************************************************************************)
\* The operands of a station are in different places: one gets the value.
LEMMA AnsweredSettles ==
  ASSUME Typed, Strong, NEW s \in Stations, Held(s), NEW j \in 1 .. 2,
         reservation_station[s].mem[j] \in {Unborn, Asked},
         NEW a, a = reservation_station[s].addr[j],
         reservation_station' = [reservation_station EXCEPT
                                   ![s] = AnswerOperands(reservation_station[s], a)],
         UNCHANGED <<rob, issue_ptr, commit_ptr, reg_alias_table, completed_inst>>
  PROVE  Settled(s, j, Answered)
<1>1. PICK st \in StationRecords : st = reservation_station[s]
  BY HeldOperands
<1>2. reservation_station \in [Stations -> StationRecords]
  BY TypedFacts DEF AllStations
<1>3. /\ st.mem \in [1 .. 2 -> {Answered, Unborn, Asked}]
      /\ st.addr \in [1 .. 2 -> Addresses]
  BY StationFields
<1>4. st.mem[j] # Answered
  BY <1>1 DEF Answered, Unborn, Asked
<1>5. \A i \in 1 .. 2 : st.addr[i] = a <=> i = j
  <2>1. Sound(st)
    BY <1>1 DEF Strong, OperandsOK
  <2>2. a # NoAddr
    BY <1>1, <1>4, <2>1 DEF Sound
  <2>3. st.addr[1] # st.addr[2]
    BY <1>1, <2>1, <2>2 DEF Sound
  <2> QED
    BY <1>1, <2>3
<1>6. PICK m : m = [st.mem EXCEPT ![j] = Answered]
  OBVIOUS
<1>7. PICK e : e = AnswerOperands(st, a)
  OBVIOUS
<1>8. e = [st EXCEPT !.mem = m]
  <2>1. m = [i \in 1 .. 2 |-> IF st.addr[i] = a THEN Answered ELSE st.mem[i]]
    BY <1>3, <1>5, <1>6
  <2>2. /\ e.mem = [i \in 1 .. 2 |-> IF st.addr[i] = a THEN Answered ELSE st.mem[i]]
        /\ e = [st EXCEPT !.mem = e.mem]
    BY <1>7, StationAnswered
  <2>3. e.mem = m
    BY <2>1, <2>2
  <2> QED
    BY <2>2, <2>3
<1>9. /\ e.mem = m /\ e.valid = st.valid /\ e.rob = st.rob /\ e.ins = st.ins
      /\ e.reg = st.reg /\ e.addr = st.addr /\ e.type = st.type
  BY <1>8 DEF StationRecords
<1>10. reservation_station' = [reservation_station EXCEPT ![s] = e]
  BY <1>1, <1>7
<1>11. /\ reservation_station'[s] = e
       /\ \A x \in Stations \ {s} : reservation_station'[x] = reservation_station[x]
  BY <1>2, <1>10
<1> QED
  BY <1>1, <1>4, <1>6, <1>9, <1>11 DEF Settled, SameReg

\* A load or store leaves the queue.
LEMMA RemovedStores ==
  ASSUME Typed, StoresOK, NEW i \in DOMAIN load_store_queue,
         load_store_queue' = RemoveAt(load_store_queue, i),
         pending_load_store' = pending_load_store
  PROVE  StoresOK'
<1>1. \A n \in DOMAIN RemoveAt(load_store_queue, i) :
        \E j \in DOMAIN load_store_queue : RemoveAt(load_store_queue, i)[n] = load_store_queue[j]
  BY TypedFacts, RemovedAt
<1>2. \A n \in DOMAIN load_store_queue' :
        \E j \in DOMAIN load_store_queue : load_store_queue'[n] = load_store_queue[j]
  BY <1>1
<1> QED
  BY <1>2 DEF StoresOK

\* A load's answer settles the operand that was asked for.
LEMMA LoadAnswered ==
  ASSUME Typed, Strong, NEW s \in Stations, NEW a \in Addresses,
         Count(load_store_queue, LoadsAt(s, a)) # 0
  PROVE  /\ Held(s)
         /\ \E j \in 1 .. 2 : /\ reservation_station[s].mem[j] = Asked
                              /\ reservation_station[s].addr[j] = a
<1>1. /\ Count(load_store_queue, LoadsAt(s, a)) \in Nat
      /\ Count(pending_load_store, LoadsAt(s, a)) \in Nat
  BY TypedFacts, CountQueue
<1>2. Count(load_store_queue, LoadsAt(s, a)) + Count(pending_load_store, LoadsAt(s, a)) # 0
  BY <1>1
<1>3. Held(s) /\ Cardinality(OperandAt(reservation_station[s], Asked, a)) # 0
  BY <1>2 DEF Strong, LoadsOK, LoadsOf
<1>4. OperandAt(reservation_station[s], Asked, a) # {}
  BY <1>3, FS_EmptySet
<1> QED
  BY <1>3, <1>4 DEF OperandAt

\* The load that was answered was counted for this operand alone.
LEMMA AnsweredLoads ==
  ASSUME Typed, Strong, NEW s, NEW j, Settled(s, j, Answered),
         reservation_station[s].mem[j] = Asked,
         NEW i \in DOMAIN load_store_queue,
         load_store_queue[i] \in LoadsAt(s, reservation_station[s].addr[j]),
         load_store_queue' = RemoveAt(load_store_queue, i),
         pending_load_store' = pending_load_store
  PROVE  LoadsOK'
<1>1. /\ s \in Stations /\ Held(s) /\ Held(s)'
      /\ \A x \in Stations \ {s} : reservation_station'[x] = reservation_station[x]
  BY SettledWaits
<1>2. PICK b : b = reservation_station[s].addr[j]
  OBVIOUS
<1>3. PICK e : e = load_store_queue[i]
  OBVIOUS
<1>4. \A S : Count(load_store_queue, S) = Count(load_store_queue', S) + IF e \in S THEN 1 ELSE 0
  <2>1. \A S : Count(load_store_queue, S) = Count(RemoveAt(load_store_queue, i), S)
                                  + (IF load_store_queue[i] \in S THEN 1 ELSE 0)
    BY TypedFacts, RemovedAt
  <2> QED
    BY <1>3, <2>1
<1>5. \A S : Count(load_store_queue', S) \in Nat /\ Count(pending_load_store, S) \in Nat
  <2>1. RemoveAt(load_store_queue, i) \in Seq(LoadRecords)
    BY TypedFacts, RemovedAt
  <2>2. \A S : Count(RemoveAt(load_store_queue, i), S) \in Nat
    BY <2>1, CountQueue
  <2>3. \A S : Count(pending_load_store, S) \in Nat
    BY TypedFacts, CountQueue
  <2> QED
    BY <2>2, <2>3
<1>6. \A x, a : e \in LoadsAt(x, a) <=> x = s /\ a = b
  BY <1>2, <1>3 DEF LoadsAt
<1>7. \A a : Cardinality(OperandAt(reservation_station[s], Asked, a)) =
                Cardinality(OperandAt(reservation_station'[s], Asked, a))
                + (IF a = b THEN 1 ELSE 0)
  <2>1. \A a : Cardinality(OperandAt(reservation_station'[s], Asked, a)) =
                Cardinality(OperandAt(reservation_station[s], Asked, a))
                + (IF Asked = Answered /\ a = b THEN 1 ELSE 0)
                - (IF a = b THEN 1 ELSE 0)
    <3>1. OperandsMove(s, j, Answered)
      BY SettledSets
    <3> QED
      BY <1>2, <3>1 DEF OperandsMove
  <2>2. Asked # Answered
    BY DEF Asked, Answered
  <2>3. \A a : Cardinality(OperandAt(reservation_station[s], Asked, a)) \in Nat
    <3>1. \A a : OperandAt(reservation_station[s], Asked, a) \in SUBSET (1 .. 2)
      BY DEF OperandAt
    <3>2. \A S \in SUBSET (1 .. 2) : Cardinality(S) \in Nat
      BY FewOperands
    <3> QED
      BY <3>1, <3>2
  <2> QED
    BY <2>1, <2>2, <2>3
<1>8. LoadsOf(s)'
  <2>1. ASSUME NEW a \in Addresses
        PROVE  Count(load_store_queue', LoadsAt(s, a)) + Count(pending_load_store, LoadsAt(s, a))
                 = Cardinality(OperandAt(reservation_station'[s], Asked, a))
    <3> DEFINE c == Count(load_store_queue, LoadsAt(s, a))
               c1 == Count(load_store_queue', LoadsAt(s, a))
               d == Count(pending_load_store, LoadsAt(s, a))
               n == Cardinality(OperandAt(reservation_station[s], Asked, a))
               n1 == Cardinality(OperandAt(reservation_station'[s], Asked, a))
               one == IF a = b THEN 1 ELSE 0
    <3>1. LoadsOf(s)
      BY <1>1 DEF Strong, LoadsOK
    <3>2. c + d = n
      BY <1>1, <3>1 DEF LoadsOf
    <3>3. c = c1 + one
      <4>1. e \in LoadsAt(s, a) <=> a = b
        BY <1>6
      <4> QED
        BY <1>4, <4>1
    <3>4. n = n1 + one
      BY <1>7
    <3>5. c1 \in Nat /\ d \in Nat /\ one \in Nat
      BY <1>5
    <3>6. n1 \in Nat
      <4>1. OperandAt(reservation_station'[s], Asked, a) \in SUBSET (1 .. 2)
        BY DEF OperandAt
      <4> QED
        BY <4>1, FewOperands
    <3> HIDE DEF c, c1, d, n, n1, one
    <3>7. c1 + d = n1
      BY <3>2, <3>3, <3>4, <3>5, <3>6
    <3> QED
      BY <3>7 DEF c1, d, n1
  <2> QED
    BY <1>1, <2>1 DEF LoadsOf, LoadsAt
<1>9. ASSUME NEW x \in Stations \ {s}
      PROVE  LoadsOf(x)'
  <2>1. LoadsOf(x) /\ SameMem(x)
    BY <1>1, Untouched DEF Strong, LoadsOK
  <2>2. ASSUME NEW a
        PROVE  Count(load_store_queue', LoadsAt(x, a)) = Count(load_store_queue, LoadsAt(x, a))
    <3>1. e \notin LoadsAt(x, a)
      BY <1>6
    <3>2. PICK S : S = LoadsAt(x, a)
      OBVIOUS
    <3>3. Count(load_store_queue, S) = Count(load_store_queue', S) + 0
      BY <1>4, <3>1, <3>2
    <3>4. Count(load_store_queue', S) \in Nat
      BY <1>5
    <3> QED
      BY <3>2, <3>3, <3>4
  <2> QED
    BY <2>1, <2>2, SameLoads
<1> QED
  BY <1>8, <1>9 DEF LoadsOK

\* broadcast_completed_LSQ keeps the invariant.
LEMMA MemoryAnswersStrong ==
  ASSUME Typed, Strong, NEW id, MemoryAnswers(id)
  PROVE  Strong'
<1>1. PICK found : found = {i \in DOMAIN load_store_queue : load_store_queue[i].id = id}
  OBVIOUS
<1>2. PICK i : i = Min(found)
  OBVIOUS
<1>3. PICK e : e = load_store_queue[i]
  OBVIOUS
<1>4. /\ UNCHANGED <<robVars, aged, pending_load_store, ld_str_id,
                 num_ld_str_inCycle, frontVars, reg_alias_table, execution_unit,
                 completed_inst, num_inst_commited, penalty, stage>>
      /\ IF found = {}
         THEN UNCHANGED <<load_store_queue, reservation_station, ready_queue>>
         ELSE /\ load_store_queue' = RemoveAt(load_store_queue, i)
              /\ IF e.station = -1
                 THEN UNCHANGED <<reservation_station, ready_queue>>
                 ELSE /\ reservation_station' =
                           [reservation_station EXCEPT
                              ![e.station] = AnswerOperands(@, e.addr)]
                      /\ ready_queue' =
                           PushIfCleared(ready_queue, reservation_station', e.station)
  BY <1>1, <1>2, <1>3 DEF MemoryAnswers
<1>5. UNCHANGED <<rob, issue_ptr, commit_ptr>>
  BY <1>4 DEF robVars
<1>6. load_store_queue \in Seq(LoadRecords)
  BY TypedFacts
<1>7. found # {} => i \in DOMAIN load_store_queue /\ e \in LoadRecords
  <2>1. found \in SUBSET Nat
    BY <1>1, <1>6
  <2>2. found # {} => i \in found
    BY <1>2, <2>1, FirstOf
  <2> QED
    BY <1>1, <1>3, <1>6, <2>2, ElementOfSeq
<1>8. WorkOK' /\ StageOK'
  BY <1>4, <1>5, InUseSame, TypedFacts, WorkFrame, StageFrame DEF Strong
<1>9. CASE found = {}
  BY <1>4, <1>9, QuietStrong DEF Onward
<1>10. CASE found # {} /\ e.station = -1
  <2>1. /\ load_store_queue' = RemoveAt(load_store_queue, i)
        /\ UNCHANGED <<reservation_station, ready_queue>>
    BY <1>4, <1>10
  <2>2. LoadsOK'
    <3>1. ASSUME NEW x \in Stations
          PROVE  LoadsOf(x)'
      <4>1. LoadsOf(x) /\ SameMem(x)
        BY <2>1 DEF Strong, LoadsOK, SameMem
      <4>2. ASSUME NEW a
            PROVE  Count(load_store_queue', LoadsAt(x, a)) = Count(load_store_queue, LoadsAt(x, a))
        <5>1. PICK S : S = LoadsAt(x, a)
          OBVIOUS
        <5>2. e \notin S
          BY <1>10, <5>1 DEF LoadsAt, Stations
        <5>3. /\ RemoveAt(load_store_queue, i) \in Seq(LoadRecords)
              /\ Count(load_store_queue, S) = Count(RemoveAt(load_store_queue, i), S)
                                  + (IF load_store_queue[i] \in S THEN 1 ELSE 0)
          BY <1>6, <1>7, <1>10, RemovedAt
        <5>4. Count(RemoveAt(load_store_queue, i), S) \in Nat
          BY <5>3, CountQueue
        <5>5. Count(load_store_queue, S) = Count(RemoveAt(load_store_queue, i), S) + 0
          BY <1>3, <5>2, <5>3
        <5> QED
          BY <2>1, <5>1, <5>4, <5>5
      <4> QED
        BY <1>4, <4>1, <4>2, SameLoads
    <3> QED
      BY <3>1 DEF LoadsOK
  <2>3. StoresOK'
    BY <1>4, <1>7, <1>10, <2>1, RemovedStores DEF Strong
  <2>4. HoldersOK' /\ DependentsOK' /\ TurnsOK' /\ ReadyOK' /\ OperandsOK'
    BY <1>4, <1>5, <2>1, HoldersFrame, DependentsFrame, TurnsFrame, ReadyFrame,
       OperandsFrame DEF Strong
  <2>5. RegistersOK' /\ ExecutedOK' /\ RenamedOK'
    BY <1>4, <1>5, <2>1, RingFrame DEF Strong
  <2> QED
    BY <1>8, <2>2, <2>3, <2>4, <2>5 DEF Strong
<1>11. CASE found # {} /\ e.station # -1
  <2>1. PICK s : s = e.station
    OBVIOUS
  <2>2. PICK a : a = e.addr
    OBVIOUS
  <2>3. s \in Stations /\ a \in Addresses /\ e \in LoadsAt(s, a)
    BY <1>7, <1>11, <2>1, <2>2 DEF LoadRecords, LoadsAt
  <2>4. Count(load_store_queue, LoadsAt(s, a)) # 0
    <3>1. i \in DOMAIN load_store_queue /\ load_store_queue[i] \in LoadsAt(s, a)
      BY <1>3, <1>7, <1>11, <2>3
    <3> QED
      BY <1>6, <3>1, CountFound
  <2>5. Held(s)
    BY <2>3, <2>4, LoadAnswered
  <2>6. PICK j \in 1 .. 2 : /\ reservation_station[s].mem[j] = Asked
                            /\ reservation_station[s].addr[j] = a
    BY <2>3, <2>4, LoadAnswered
  <2>7. /\ load_store_queue' = RemoveAt(load_store_queue, i)
        /\ reservation_station' = [reservation_station EXCEPT
                                     ![s] = AnswerOperands(reservation_station[s], a)]
        /\ ready_queue' = PushIfCleared(ready_queue, reservation_station', s)
    BY <1>4, <1>11, <2>1, <2>2
  <2>8. Settled(s, j, Answered)
    BY <1>4, <1>5, <2>3, <2>5, <2>6, <2>7, AnsweredSettles
  <2>9. /\ Held(s)' /\ ~ Cleared(reservation_station[s])
        /\ \A x \in Stations \ {s} : reservation_station'[x] = reservation_station[x]
    BY <2>8, SettledWaits
  <2>10. StationsTyped'
    BY MemoryAnswersTypes DEF Kept
  <2>11. ReadyOK' /\ ready_queue'[AGU] = ready_queue[AGU]
    BY <2>3, <2>5, <2>7, <2>9, <2>10, WokenReady DEF Strong
  <2>12. LoadsOK'
    BY <1>3, <1>4, <1>7, <1>11, <2>3, <2>6, <2>7, <2>8, AnsweredLoads
  <2>13. StoresOK'
    BY <1>4, <1>7, <1>11, <2>7, RemovedStores DEF Strong
  <2>14. TurnsOK'
    <3>1. ASSUME NEW x \in Stations \ {s}
          PROVE  TurnsOf(x)'
      BY <1>4, <2>9, <2>11, Untouched, SameTurns DEF Strong, TurnsOK
    <3>2. TurnsOf(s)'
      <4>1. TurnsOf(s)
        BY <2>3 DEF Strong, TurnsOK
      <4>2. Cardinality(Operand(reservation_station'[s], Unborn))
              = Cardinality(Operand(reservation_station[s], Unborn))
        <5>1. OperandsMove(s, j, Answered)
          BY <2>8, SettledSets
        <5>2. Unborn # Answered /\ Unborn # Asked
          BY DEF Unborn, Answered, Asked
        <5>3. Cardinality(Operand(reservation_station[s], Unborn)) \in Int
          <6>1. Operand(reservation_station[s], Unborn) \in SUBSET (1 .. 2)
            BY DEF Operand
          <6> QED
            BY <6>1, FewOperands
        <5> QED
          BY <2>6, <5>1, <5>2, <5>3 DEF OperandsMove
      <4> QED
        BY <1>4, <2>5, <2>9, <2>11, <4>1, <4>2 DEF TurnsOf, UnitsAt
    <3> QED
      BY <3>1, <3>2 DEF TurnsOK
  <2>15. HoldersOK' /\ DependentsOK' /\ RegistersOK' /\ ExecutedOK' /\ RenamedOK' /\ OperandsOK'
    BY <2>8, SettledFrame
  <2> QED
    BY <1>8, <2>11, <2>12, <2>13, <2>14, <2>15 DEF Strong
<1> QED
  BY <1>9, <1>10, <1>11

(***************************************************************************)
(* update_load_store_queue                                                 *)
(***************************************************************************)
LEMMA PendingMovesOn ==
  ASSUME Typed, Strong, ~ ForwardsPending, Pending,
         NEW e, e = Head(pending_load_store)
  PROVE  /\ UNCHANGED <<reservation_station, ready_queue, stage>>
         /\ load_store_queue' = Append(load_store_queue, e)
         /\ pending_load_store' = Tail(pending_load_store)
         /\ pending_load_store # <<>> /\ e \in LoadRecords
<1>1. /\ UNCHANGED <<robVars, aged, frontVars, reg_alias_table, execution_unit,
                     completed_inst, num_inst_commited, penalty>>
      /\ stage = "pending" /\ PendingMoves /\ pending_load_store # <<>>
      /\ reservation_station' =
           IF e.station = -1 THEN reservation_station
           ELSE [reservation_station EXCEPT ![e.station] = PendingStation]
      /\ ~ PendingCleared =>
            /\ load_store_queue' = Append(load_store_queue, e)
            /\ pending_load_store' = Tail(pending_load_store)
            /\ UNCHANGED <<ready_queue, stage>>
  BY DEF Pending, PendingMoves
<1>2. /\ pending_load_store \in Seq(LoadRecords) /\ load_store_queue \in Seq(LoadRecords)
      /\ reservation_station \in [Stations -> StationRecords]
  BY TypedFacts DEF AllStations
<1>3. /\ e \in LoadRecords
      /\ \A S : e \in S => Count(pending_load_store, S) # 0
  <2>1. /\ Head(pending_load_store) \in LoadRecords
        /\ \A S : /\ Count(Tail(pending_load_store), S) \in Nat
                  /\ Count(pending_load_store, S) = Count(Tail(pending_load_store), S)
                                           + IF Head(pending_load_store) \in S THEN 1 ELSE 0
    BY <1>1, <1>2, CountQueue
  <2> QED
    BY <2>1
<1>4. CASE e.station = -1
  BY <1>1, <1>3, <1>4 DEF PendingCleared
<1>5. CASE e.station # -1
  <2>1. PICK s : s = e.station
    OBVIOUS
  <2>2. PICK a : a = e.addr
    OBVIOUS
  <2>3. s \in Stations /\ a \in Addresses /\ e \in LoadsAt(s, a)
    BY <1>3, <1>5, <2>1, <2>2 DEF LoadRecords, LoadsAt
  <2>4. ~ found_in_LSQ(a)
    BY <1>1, <1>5, <2>2 DEF ForwardsPending
  <2>5. PendingStation = reservation_station[s]
    BY <2>1, <2>2, <2>4 DEF PendingStation
  <2>6. reservation_station' = reservation_station
    BY <1>1, <1>2, <2>1, <2>3, <2>5
  <2>7. ~ Cleared(reservation_station[s])
    <3>1. /\ Count(load_store_queue, LoadsAt(s, a)) \in Nat
          /\ Count(pending_load_store, LoadsAt(s, a)) \in Nat
          /\ Count(pending_load_store, LoadsAt(s, a)) # 0
      BY <1>2, <1>3, <2>3, CountQueue
    <3>2. Count(load_store_queue, LoadsAt(s, a)) + Count(pending_load_store, LoadsAt(s, a)) # 0
      BY <3>1
    <3>3. Cardinality(OperandAt(reservation_station[s], Asked, a)) # 0
      BY <2>3, <3>2 DEF Strong, LoadsOK, LoadsOf
    <3> QED
      BY <2>3, <3>3, NothingCounted
  <2>8. ~ PendingCleared
    BY <2>5, <2>7 DEF PendingCleared
  <2> QED
    BY <1>1, <1>3, <2>6, <2>8
<1> QED
  BY <1>4, <1>5

\* update_load_store_queue keeps it, as long as it forwards nothing.
LEMMA PendingStrong ==
  ASSUME Typed, Strong, ~ ForwardsPending, Pending
  PROVE  Strong'
<1>1. PICK e : e = Head(pending_load_store)
  OBVIOUS
<1>2. /\ UNCHANGED <<reservation_station, ready_queue, stage>>
      /\ load_store_queue' = Append(load_store_queue, e)
      /\ pending_load_store' = Tail(pending_load_store)
      /\ pending_load_store # <<>> /\ e \in LoadRecords
  BY <1>1, PendingMovesOn
<1>3. UNCHANGED <<robVars, reg_alias_table, execution_unit, completed_inst>>
  BY DEF Pending
<1>4. UNCHANGED <<rob, issue_ptr, commit_ptr>>
  BY <1>3 DEF robVars
<1>5. pending_load_store \in Seq(LoadRecords) /\ load_store_queue \in Seq(LoadRecords)
  BY TypedFacts
<1>6. ASSUME NEW S
      PROVE  Count(load_store_queue', S) + Count(pending_load_store', S)
               = Count(load_store_queue, S) + Count(pending_load_store, S)
  <2> DEFINE c == Count(load_store_queue, S)
             d == Count(pending_load_store, S)
             c1 == Count(load_store_queue', S)
             d1 == Count(pending_load_store', S)
             one == IF e \in S THEN 1 ELSE 0
  <2>1. c \in Nat /\ c1 = c + one
    BY <1>2, <1>5, CountQueue
  <2>2. d1 \in Nat /\ d = d1 + one
    BY <1>1, <1>2, <1>5, CountQueue
  <2>3. one \in Nat
    OBVIOUS
  <2> HIDE DEF c, d, c1, d1, one
  <2>4. c1 + d1 = c + d
    BY <2>1, <2>2, <2>3
  <2> QED
    BY <2>4 DEF c, d, c1, d1
<1>7. LoadsOK'
  <2>1. ASSUME NEW x \in Stations
        PROVE  LoadsOf(x)'
    BY <1>2, <1>6, SameLoads DEF Strong, LoadsOK, SameMem
  <2> QED
    BY <2>1 DEF LoadsOK
<1>8. StoresOK'
  <2>1. \A i \in DOMAIN pending_load_store' :
          \E j \in DOMAIN pending_load_store : pending_load_store'[i] = pending_load_store[j]
    BY <1>2, <1>5
  <2>2. \A i \in DOMAIN load_store_queue' :
          \/ i \in DOMAIN load_store_queue /\ load_store_queue'[i] = load_store_queue[i]
          \/ load_store_queue'[i] = e
    BY <1>2, <1>5
  <2>3. \E j \in DOMAIN pending_load_store : e = pending_load_store[j]
    BY <1>1, <1>2, <1>5
  <2> QED
    BY <2>1, <2>2, <2>3 DEF Strong, StoresOK
<1>9. WorkOK' /\ StageOK'
  BY <1>2, <1>3, <1>4, InUseSame, TypedFacts, WorkFrame, StageFrame DEF Strong
<1>10. HoldersOK' /\ DependentsOK' /\ TurnsOK' /\ ReadyOK' /\ OperandsOK'
  BY <1>2, <1>3, <1>4, HoldersFrame, DependentsFrame, TurnsFrame, ReadyFrame,
     OperandsFrame DEF Strong
<1>11. RegistersOK' /\ ExecutedOK' /\ RenamedOK'
  BY <1>2, <1>3, <1>4, RingFrame DEF Strong
<1> QED
  BY <1>7, <1>8, <1>9, <1>10, <1>11 DEF Strong

(***************************************************************************)
(* commit                                                                  *)
(***************************************************************************)
LEMMA CommitMemory ==
  ASSUME Typed, Strong, Commit
  PROVE  LoadsOK' /\ StoresOK'
<1>1. PICK write : write = program[rob[commit_ptr].ins].write
  OBVIOUS
<1>2. /\ ~ is_empty
      /\ UNCHANGED stationVars
      /\ IF write = NoAddr THEN UNCHANGED memVars
         ELSE AddTo(WithoutStore(write), -1, write, TRUE)
  BY <1>1 DEF Commit, CanCommit
<1>3. UNCHANGED reservation_station
  BY <1>2 DEF stationVars
<1>4. CASE write = NoAddr
  BY <1>2, <1>3, <1>4, LoadsFrame, StoresFrame DEF Strong, memVars
<1>5. CASE write # NoAddr
  <2>1. PICK queue : queue = WithoutStore(write)
    OBVIOUS
  <2>2. write \in Addresses
    BY <1>1, <1>2, OldestTyped, Instruction DEF Typed, CoreInv
  <2>3. /\ queue \in Seq(LoadRecords) /\ load_store_queue \in Seq(LoadRecords)
        /\ \/ queue = load_store_queue
           \/ \E i \in StoreAt(write) : /\ i \in DOMAIN load_store_queue
                                        /\ queue = RemoveAt(load_store_queue, i)
    BY <2>1, TypedFacts, StoreReplaced DEF FitsLSQ, Typed
  <2>4. -1 \in Stations \union {-1} /\ TRUE \in BOOLEAN /\ AddTo(queue, -1, write, TRUE)
    BY <1>2, <1>5, <2>1
  <2>5. AddedOnce(queue, -1, write)
    BY <2>2, <2>3, <2>4, AddedCounts
  <2>6. PICK e \in LoadRecords :
              /\ e.station = -1
              /\ load_store_queue' \in {queue, Append(queue, e)}
              /\ pending_load_store' \in {pending_load_store, Append(pending_load_store, e)}
    BY <2>2, <2>3, <2>4, AddedCounts
  <2>7. \A x \in Stations : \A a : Count(queue, LoadsAt(x, a)) = Count(load_store_queue, LoadsAt(x, a))
    <3>1. CASE queue = load_store_queue
      BY <3>1
    <3>2. ASSUME NEW i \in StoreAt(write), i \in DOMAIN load_store_queue,
                 queue = RemoveAt(load_store_queue, i), NEW x \in Stations, NEW a
          PROVE  Count(queue, LoadsAt(x, a)) = Count(load_store_queue, LoadsAt(x, a))
      <4>1. PICK S : S = LoadsAt(x, a)
        OBVIOUS
      <4>2. load_store_queue[i].station = -1
        BY <3>2 DEF Strong, StoresOK, StoreAt
      <4>3. load_store_queue[i] \notin S
        BY <4>1, <4>2 DEF LoadsAt, Stations
      <4>4. Count(load_store_queue, S) = Count(queue, S)
                                  + (IF load_store_queue[i] \in S THEN 1 ELSE 0)
        BY <2>3, <3>2, RemovedAt
      <4>5. Count(queue, S) \in Nat
        BY <2>3, CountQueue
      <4> QED
        BY <4>1, <4>3, <4>4, <4>5
    <3> QED
      BY <2>3, <3>1, <3>2
  <2>8. \A x \in Stations : \A a :
          Count(load_store_queue', LoadsAt(x, a)) + Count(pending_load_store', LoadsAt(x, a))
            = Count(load_store_queue, LoadsAt(x, a)) + Count(pending_load_store, LoadsAt(x, a))
    <3>1. ASSUME NEW x \in Stations, NEW a
          PROVE  Count(load_store_queue', LoadsAt(x, a)) + Count(pending_load_store', LoadsAt(x, a))
            = Count(load_store_queue, LoadsAt(x, a)) + Count(pending_load_store, LoadsAt(x, a))
      <4>1. x # -1
        BY DEF Stations
      <4>2. Count(load_store_queue', LoadsAt(x, a)) + Count(pending_load_store', LoadsAt(x, a))
              = Count(queue, LoadsAt(x, a)) + Count(pending_load_store, LoadsAt(x, a)) + 0
        BY <2>5, <4>1 DEF AddedOnce
      <4>3. /\ Count(queue, LoadsAt(x, a)) \in Nat
            /\ Count(pending_load_store, LoadsAt(x, a)) \in Nat
        BY <2>3, TypedFacts, CountQueue
      <4> QED
        BY <2>7, <4>2, <4>3
    <3> QED
      BY <3>1
  <2>9. LoadsOK'
    <3>1. ASSUME NEW x \in Stations
          PROVE  LoadsOf(x)'
      BY <1>3, <2>8, SameLoads DEF Strong, LoadsOK, SameMem
    <3> QED
      BY <3>1 DEF LoadsOK
  <2>10. StoresOK'
    <3>1. \A n \in DOMAIN queue : queue[n].store => queue[n].station = -1
      <4>1. CASE queue = load_store_queue
        BY <4>1 DEF Strong, StoresOK
      <4>2. ASSUME NEW i \in DOMAIN load_store_queue, queue = RemoveAt(load_store_queue, i)
            PROVE  \A n \in DOMAIN queue : queue[n].store => queue[n].station = -1
        <5>1. \A n \in DOMAIN RemoveAt(load_store_queue, i) :
               \E j \in DOMAIN load_store_queue : RemoveAt(load_store_queue, i)[n] = load_store_queue[j]
          BY <2>3, RemovedAt
        <5> QED
          BY <4>2, <5>1 DEF Strong, StoresOK
      <4> QED
        BY <2>3, <4>1, <4>2
    <3>2. ASSUME NEW q \in Seq(LoadRecords), NEW new \in {q, Append(q, e)},
                 \A i \in DOMAIN q : q[i].store => q[i].station = -1
          PROVE  \A i \in DOMAIN new : new[i].store => new[i].station = -1
      BY <2>6, <3>2, StoresLast
    <3>3. \A i \in DOMAIN pending_load_store :
            pending_load_store[i].store => pending_load_store[i].station = -1
      BY DEF Strong, StoresOK
    <3>4. \A i \in DOMAIN load_store_queue' :
            load_store_queue'[i].store => load_store_queue'[i].station = -1
      BY <2>3, <2>6, <3>1, <3>2
    <3>5. pending_load_store \in Seq(LoadRecords)
      BY TypedFacts
    <3>6. \A i \in DOMAIN pending_load_store' :
            pending_load_store'[i].store => pending_load_store'[i].station = -1
      BY <2>6, <3>2, <3>3, <3>5
    <3> QED
      BY <3>4, <3>6 DEF StoresOK
  <2> QED
    BY <2>9, <2>10
<1> QED
  BY <1>4, <1>5

\* commit: the oldest has executed, so nobody is at work or waits for it.
LEMMA CommitStrong ==
  ASSUME Typed, Strong, Commit
  PROVE  Strong'
<1>1. PICK k : k = commit_ptr
  OBVIOUS
<1>2. /\ stage = "commit" /\ stage' = "commit"
      /\ ~ is_empty /\ do_commit /\ rob[k].status = Executed
      /\ rob' = [rob EXCEPT ![k].status = Committed]
      /\ reg_alias_table' = WithoutSlot(k)
      /\ UNCHANGED <<stationVars, frontVars, execution_unit, completed_inst, penalty>>
  BY <1>1 DEF Commit, CanCommit, Again
<1>3. UNCHANGED <<reservation_station, ready_queue>>
  BY <1>2 DEF stationVars
<1>4. InUse \subseteq Slots /\ k \in InUse /\ InUse' = InUse \ {k} /\ k \in Slots
  BY <1>1, <1>2, TypedFacts, InUseCommit
<1>5. completed_inst = <<>> /\ completed_inst' = <<>>
  BY <1>2 DEF Strong, StageOK
<1>6. \A j : ~ IsBroadcast(j) /\ ~ IsBroadcast(j)'
  BY <1>5 DEF IsBroadcast
<1>7. /\ \A j \in Slots : rob'[j].deps = rob[j].deps /\ rob'[j].ins = rob[j].ins
      /\ \A j \in Slots \ {k} : rob'[j].status = rob[j].status
  <2>1. PICK en \in EntryRecords : en = rob[k]
    BY <1>4, TypedFacts
  <2>2. PICK e : e = [en EXCEPT !.status = Committed]
    OBVIOUS
  <2>3. rob' = [rob EXCEPT ![k] = e]
    BY <1>2, <2>1, <2>2
  <2>4. e.deps = en.deps /\ e.ins = en.ins
    BY <2>2 DEF EntryRecords
  <2>5. rob \in [Slots -> EntryRecords]
    BY TypedFacts
  <2> QED
    BY <1>4, <2>1, <2>3, <2>4, <2>5
<1>8. rob[k].deps = <<>>
  BY <1>2, <1>4, <1>6 DEF Strong, ExecutedOK
<1>9. \A x \in Stations : Held(x) => /\ reservation_station[x].rob # k
                                     /\ \A r \in Regs : reservation_station[x].reg[r] # k
  <2>1. ASSUME NEW x \in Stations, Held(x)
        PROVE  /\ reservation_station[x].rob # k
               /\ \A r \in Regs : reservation_station[x].reg[r] # k
    <3>1. reservation_station[x].rob # k
      BY <1>2, <2>1 DEF Strong, HoldersOK, Issued, Executed
    <3>2. Count(rob[k].deps, {x}) = Cardinality(Registers(reservation_station[x], k))
      BY <1>4, <2>1 DEF Strong, DependentsOK, DependentsOf
    <3>3. Cardinality(Registers(reservation_station[x], k)) = 0
      BY <1>8, <3>2, CountEmpty
    <3>4. Registers(reservation_station[x], k) = {}
      <4>1. Registers(reservation_station[x], k) \in SUBSET Regs
        BY DEF Registers
      <4>2. IsFiniteSet(Registers(reservation_station[x], k))
        BY <4>1, FewRegisters
      <4> QED
        BY <3>3, <4>2, FS_EmptySet
    <3> QED
      BY <3>1, <3>4 DEF Registers
  <2> QED
    BY <2>1
<1>10. \A x \in Stations : Held(x)' <=> Held(x)
  BY <1>3 DEF Held
<1>11. HoldersOK'
  BY <1>3, <1>4, <1>7, <1>9, <1>10 DEF Strong, HoldersOK
<1>12. WorkOK'
  <2>1. ASSUME NEW j \in Slots
        PROVE  Working(j)' <=> Working(j)
    <3>1. CASE j = k
      BY <1>2, <1>4, <1>6, <3>1 DEF Working, Executed, Dispatched
    <3>2. CASE j # k
      BY <1>4, <1>6, <1>7, <3>2 DEF Working
    <3> QED
      BY <3>1, <3>2
  <2> QED
    BY <1>2, <2>1, SameWork DEF Strong
<1>13. DependentsOK'
  BY <1>3, <1>7 DEF Strong, DependentsOK, DependentsOf, Held, Registers
<1>14. TurnsOK' /\ ReadyOK' /\ OperandsOK'
  BY <1>2, <1>3, TurnsFrame, ReadyFrame, OperandsFrame DEF Strong
<1>15. RegistersOK'
  BY <1>3, <1>4, <1>9, <1>10 DEF Strong, RegistersOK
<1>16. ExecutedOK'
  <2>1. ASSUME NEW j \in InUse \ {k}, rob'[j].status = Executed
        PROVE  rob'[j].deps = <<>>
    BY <1>4, <1>6, <1>7, <2>1 DEF Strong, ExecutedOK
  <2> QED
    BY <1>4, <2>1 DEF ExecutedOK
<1>17. RenamedOK'
  BY <1>2, <1>4 DEF Strong, RenamedOK, WithoutSlot
<1>18. StageOK'
  BY <1>5, <1>6 DEF StageOK
<1>19. LoadsOK' /\ StoresOK'
  BY CommitMemory
<1> QED
  BY <1>11, <1>12, <1>13, <1>14, <1>15, <1>16, <1>17, <1>18, <1>19 DEF Strong

(***************************************************************************)
(* issue_instruction                                                       *)
(***************************************************************************)
\* An issue, by what the invariants need of it: k is the new slot.
Placed(n, s, k) ==
  /\ n \in 1 .. Len(program) /\ s \in Stations /\ k \in Slots
  /\ ~ Held(s) /\ k \notin InUse /\ InUse' = InUse \union {k}
  /\ reservation_station'[s] = NewStation(n)
  /\ \A x \in Stations \ {s} : reservation_station'[x] = reservation_station[x]
  /\ NewStation(n).valid = TRUE /\ NewStation(n).rob = k /\ NewStation(n).ins = n
  /\ NewStation(n).addr = program[n].opr /\ NewStation(n).type = program[n].type
  /\ NewStation(n).reg = [r \in Regs |-> Producer(program[n], r)]
  /\ NewStation(n).mem = [i \in 1 .. 2 |-> IF i \in Operands(program[n]) THEN Unborn ELSE Answered]
  /\ rob'[k] = [ins |-> n, status |-> Issued, deps |-> <<>>]
  /\ \A j \in Slots \ {k} :
       /\ rob'[j].ins = rob[j].ins /\ rob'[j].status = rob[j].status
       /\ rob'[j].deps = rob[j].deps \o Repeated(Cardinality(Registers(NewStation(n), j)), s)
  /\ reg_alias_table' = [r \in Regs |-> IF r \in program[n].wr THEN k ELSE reg_alias_table[r]]
  /\ UNCHANGED <<load_store_queue, pending_load_store, execution_unit, completed_inst, stage>>
  /\ completed_inst = <<>>

\* issue_instruction takes a free station and a slot that is not in use.
LEMMA IssuePlaces ==
  ASSUME Typed, Strong, Issue
  PROVE  \E n, s, k : /\ Placed(n, s, k) /\ Issues(n, s)
                      /\ k = NextSlot /\ has_size /\ decode_buffer # <<>>
<1>1. PICK n \in 1 .. Len(program), s \in Stations :
           /\ Issues(n, s) /\ ~ reservation_station[s].valid
           /\ has_size /\ decode_buffer # <<>>
           /\ NextSlot \in Slots
  BY IssueParts
<1>2. PICK k : k = NextSlot
  OBVIOUS
<1>3. /\ UNCHANGED <<load_store_queue, pending_load_store, execution_unit, completed_inst, stage>>
      /\ stage = "issue"
  BY DEF Issue, memVars, Again
<1>4. completed_inst = <<>>
  BY <1>3 DEF Strong, StageOK
<1>5. k \notin InUse /\ InUse' = InUse \union {k}
  BY <1>1, <1>2, TypedFacts, InUseIssue DEF Issues
<1>6. /\ NewStation(n).valid = TRUE /\ NewStation(n).rob = k /\ NewStation(n).ins = n
      /\ NewStation(n).addr = program[n].opr /\ NewStation(n).type = program[n].type
      /\ NewStation(n).reg = [r \in Regs |-> Producer(program[n], r)]
      /\ NewStation(n).mem = [i \in 1 .. 2 |-> IF i \in Operands(program[n]) THEN Unborn ELSE Answered]
  BY <1>1, <1>2, NewStationTyped
<1>7. /\ reservation_station'[s] = NewStation(n)
      /\ \A x \in Stations \ {s} : reservation_station'[x] = reservation_station[x]
  <2>1. PICK e : e = NewStation(n)
    OBVIOUS
  <2>2. reservation_station' = [reservation_station EXCEPT ![s] = e]
    BY <1>1, <2>1 DEF Issues
  <2>3. reservation_station \in [Stations -> StationRecords]
    BY TypedFacts DEF AllStations
  <2> QED
    BY <1>1, <2>1, <2>2, <2>3
<1>8. /\ rob'[k] = [ins |-> n, status |-> Issued, deps |-> <<>>]
      /\ \A j \in Slots \ {k} :
           /\ rob'[j].ins = rob[j].ins /\ rob'[j].status = rob[j].status
           /\ rob'[j].deps = rob[j].deps \o Repeated(Cardinality(Registers(NewStation(n), j)), s)
  BY <1>1, <1>2, DependentsAdded DEF Registers
<1>9. reg_alias_table' = [r \in Regs |-> IF r \in program[n].wr THEN k ELSE reg_alias_table[r]]
  BY <1>1, <1>2 DEF Issues, Renamed
<1>10. Placed(n, s, k)
  BY <1>1, <1>2, <1>3, <1>4, <1>5, <1>6, <1>7, <1>8, <1>9 DEF Placed, Held
<1> QED
  BY <1>1, <1>2, <1>10

\* The new instruction waits for instructions in the ring that have not executed.
LEMMA PlacedRegisters ==
  ASSUME Typed, Strong, NEW n, NEW s, NEW k, Placed(n, s, k), NEW r \in Regs,
         NewStation(n).reg[r] # -1
  PROVE  /\ NewStation(n).reg[r] = reg_alias_table[r] /\ r \in program[n].rr
         /\ NewStation(n).reg[r] \in InUse /\ NewStation(n).reg[r] # k
         /\ rob[NewStation(n).reg[r]].status # Executed
<1>1. NewStation(n).reg[r] = Producer(program[n], r) /\ k \notin InUse
  BY DEF Placed
<1>2. /\ Producer(program[n], r) = reg_alias_table[r] /\ r \in program[n].rr
      /\ rob[reg_alias_table[r]].status # Executed /\ reg_alias_table[r] # -1
  BY <1>1 DEF Producer
<1>3. reg_alias_table[r] \in InUse
  BY <1>2 DEF Strong, RenamedOK
<1> QED
  BY <1>1, <1>2, <1>3

\* The new instruction is in its station only, and waits for older ones.
LEMMA PlacedHolders ==
  ASSUME Typed, Strong, DistinctOperands, NEW n, NEW s, NEW k, Placed(n, s, k)
  PROVE  /\ HoldersOK' /\ RegistersOK' /\ RenamedOK' /\ OperandsOK' /\ StoresOK' /\ StageOK'
         /\ WorkOK'
<1>1. /\ n \in 1 .. Len(program) /\ s \in Stations /\ k \in Slots
      /\ ~ Held(s) /\ Held(s)' /\ k \notin InUse /\ InUse' = InUse \union {k}
      /\ reservation_station'[s] = NewStation(n)
      /\ \A x \in Stations \ {s} : reservation_station'[x] = reservation_station[x]
      /\ NewStation(n).rob = k /\ NewStation(n).ins = n
      /\ rob'[k] = [ins |-> n, status |-> Issued, deps |-> <<>>]
      /\ \A j \in Slots \ {k} : rob'[j].ins = rob[j].ins /\ rob'[j].status = rob[j].status
      /\ completed_inst = <<>> /\ completed_inst' = <<>>
  BY DEF Placed, Held
<1>2. InUse \subseteq Slots
  BY TypedFacts
<1>3. \A x \in Stations \ {s} : Held(x)' <=> Held(x)
  BY <1>1 DEF Held
<1>4. rob'[k].status = Issued /\ rob'[k].ins = n
  BY <1>1
<1>5. HoldersOK'
  <2>1. ASSUME NEW x \in Stations, Held(x)'
        PROVE  /\ reservation_station'[x].rob \in InUse'
               /\ rob'[reservation_station'[x].rob].status = Issued
               /\ rob'[reservation_station'[x].rob].ins = reservation_station'[x].ins
    <3>1. CASE x = s
      BY <1>1, <1>4, <3>1
    <3>2. CASE x # s
      <4>1. /\ Held(x) /\ reservation_station'[x] = reservation_station[x]
        BY <1>1, <1>3, <2>1, <3>2
      <4>2. /\ reservation_station[x].rob \in InUse
            /\ rob[reservation_station[x].rob].status = Issued
            /\ rob[reservation_station[x].rob].ins = reservation_station[x].ins
        BY <4>1 DEF Strong, HoldersOK
      <4> QED
        BY <1>1, <1>2, <4>1, <4>2
    <3> QED
      BY <3>1, <3>2
  <2>2. ASSUME NEW x \in Stations, NEW y \in Stations, Held(x)', Held(y)',
               reservation_station'[x].rob = reservation_station'[y].rob
        PROVE  x = y
    <3>1. \A z \in Stations \ {s} : Held(z)' => Held(z) /\ reservation_station'[z].rob # k
      BY <1>1, <1>3 DEF Strong, HoldersOK
    <3>2. CASE x # s /\ y # s
      <4>1. /\ Held(x) /\ Held(y) /\ reservation_station'[x] = reservation_station[x]
            /\ reservation_station'[y] = reservation_station[y]
        BY <1>1, <2>2, <3>1, <3>2
      <4> QED
        BY <2>2, <4>1 DEF Strong, HoldersOK
    <3>3. CASE x = s \/ y = s
      BY <1>1, <2>2, <3>1, <3>3
    <3> QED
      BY <3>2, <3>3
  <2>3. ASSUME NEW j \in InUse', rob'[j].status = Issued
        PROVE  \E x \in Stations : Held(x)' /\ reservation_station'[x].rob = j
    <3>1. CASE j = k
      BY <1>1, <3>1
    <3>2. CASE j # k
      <4>1. j \in InUse /\ rob[j].status = Issued
        BY <1>1, <1>2, <2>3, <3>2
      <4>2. PICK x \in Stations : Held(x) /\ reservation_station[x].rob = j
        BY <4>1 DEF Strong, HoldersOK
      <4>3. x # s
        BY <1>1, <4>2
      <4> QED
        BY <1>1, <1>3, <4>2, <4>3
    <3> QED
      BY <3>1, <3>2
  <2> QED
    BY <2>1, <2>2, <2>3 DEF HoldersOK
<1>6. RegistersOK'
  <2>1. ASSUME NEW x \in Stations, Held(x)', NEW r \in Regs, reservation_station'[x].reg[r] # -1
        PROVE  /\ reservation_station'[x].reg[r] \in InUse'
               /\ reservation_station'[x].reg[r] # reservation_station'[x].rob
    <3>1. CASE x = s
      BY <1>1, <2>1, <3>1, PlacedRegisters
    <3>2. CASE x # s
      <4>1. /\ Held(x) /\ reservation_station'[x] = reservation_station[x]
        BY <1>1, <1>3, <2>1, <3>2
      <4> QED
        BY <1>1, <2>1, <4>1 DEF Strong, RegistersOK
    <3> QED
      BY <3>1, <3>2
  <2> QED
    BY <2>1 DEF RegistersOK
<1>7. RenamedOK'
  BY <1>1 DEF Placed, Strong, RenamedOK
<1>8. OperandsOK'
  <2>1. Sound(NewStation(n))
    <3>1. /\ NewStation(n).addr = program[n].opr
          /\ NewStation(n).mem = [i \in 1 .. 2 |-> IF i \in Operands(program[n]) THEN Unborn ELSE Answered]
      BY DEF Placed
    <3>2. program[n].opr[1] = program[n].opr[2] => program[n].opr[1] = NoAddr
      <4>1. program \in Programs
        BY DEF Typed, CoreInv, Fetched
      <4>2. program \in Seq(Instructions)
        BY <4>1, CoreAssumption
      <4>3. n \in DOMAIN program
        BY <1>1, <4>2
      <4> QED
        BY <4>1, <4>3 DEF DistinctOperands
    <3> QED
      BY <3>1, <3>2 DEF Sound, Operands
  <2> QED
    BY <1>1, <1>3, <2>1 DEF Strong, OperandsOK, Sound
<1>9. StoresOK'
  BY StoresFrame DEF Strong, Placed
<1>10. StageOK'
  BY <1>1 DEF StageOK, IsBroadcast
<1>11. WorkOK'
  <2>1. ASSUME NEW j \in Slots
        PROVE  Working(j)' <=> Working(j)
    <3>1. ~ IsBroadcast(j) /\ ~ IsBroadcast(j)'
      BY <1>1 DEF IsBroadcast
    <3>2. CASE j = k
      BY <1>1, <1>4, <3>1, <3>2 DEF Working, Issued, Dispatched
    <3>3. CASE j # k
      BY <1>1, <3>1, <3>3 DEF Working
    <3> QED
      BY <3>2, <3>3
  <2> QED
    BY <2>1, SameWork DEF Strong, Placed
<1> QED
  BY <1>5, <1>6, <1>7, <1>8, <1>9, <1>10, <1>11

\* The new instruction is known to every producer it waits for, and to no other.
LEMMA PlacedDependents ==
  ASSUME Typed, Strong, NEW n, NEW s, NEW k, Placed(n, s, k)
  PROVE  DependentsOK' /\ ExecutedOK'
<1>1. /\ s \in Stations /\ k \in Slots
      /\ ~ Held(s) /\ Held(s)' /\ k \notin InUse /\ InUse' = InUse \union {k}
      /\ reservation_station'[s] = NewStation(n)
      /\ \A x \in Stations \ {s} : reservation_station'[x] = reservation_station[x]
      /\ rob'[k].deps = <<>> /\ rob'[k].status = Issued
      /\ \A j \in Slots \ {k} :
           /\ rob'[j].status = rob[j].status
           /\ rob'[j].deps = rob[j].deps \o Repeated(Cardinality(Registers(NewStation(n), j)), s)
      /\ completed_inst = <<>> /\ completed_inst' = <<>>
  BY DEF Placed, Held
<1>2. \A r \in Regs : NewStation(n).reg[r] # -1 =>
        /\ NewStation(n).reg[r] # k /\ rob[NewStation(n).reg[r]].status # Executed
  BY PlacedRegisters
<1>3. \A j \in Slots : j # -1
  BY RobSizeAssumption DEF Slots
<1>4. ASSUME NEW j \in Slots \ {k}, NEW x \in Stations
      PROVE  /\ Count(rob[j].deps, {x}) \in Nat
             /\ Count(rob'[j].deps, {x}) = Count(rob[j].deps, {x}) +
                  IF x = s THEN Cardinality(Registers(NewStation(n), j)) ELSE 0
  <2>1. PICK q \in Seq(Stations) : q = rob[j].deps
    <3>1. rob[j] \in EntryRecords
      BY TypedFacts
    <3> QED
      BY <3>1, EntryFields
  <2>2. PICK m \in Nat : m = Cardinality(Registers(NewStation(n), j))
    <3>1. Registers(NewStation(n), j) \in SUBSET Regs
      BY DEF Registers
    <3> QED
      BY <3>1, FewRegisters
  <2>3. rob'[j].deps = q \o [i \in 1 .. m |-> s]
    BY <1>1, <2>1, <2>2 DEF Repeated
  <2>4. Count(q \o [i \in 1 .. m |-> s], {x}) = Count(q, {x}) + (IF s \in {x} THEN m ELSE 0)
    BY <1>1, CountRepeat
  <2>5. Count(q, {x}) \in Nat
    BY CountQueue
  <2> QED
    BY <2>1, <2>2, <2>3, <2>4, <2>5
<1>5. DependentsOf(s)'
  <2>1. \A j \in Slots : Count(rob[j].deps, {s}) = 0
    BY <1>1 DEF Strong, DependentsOK, DependentsOf
  <2>2. ASSUME NEW j \in Slots
        PROVE  Count(rob'[j].deps, {s}) = Cardinality(Registers(NewStation(n), j))
    <3>1. CASE j = k
      <4>1. Registers(NewStation(n), k) = {}
        BY <1>2, <1>3, <1>1 DEF Registers
      <4> QED
        BY <1>1, <3>1, <4>1, CountEmpty, FS_EmptySet
    <3>2. CASE j # k
      <4>1. Count(rob'[j].deps, {s}) = 0 + Cardinality(Registers(NewStation(n), j))
        BY <1>1, <1>4, <2>1, <3>2
      <4>2. Cardinality(Registers(NewStation(n), j)) \in Nat
        <5>1. Registers(NewStation(n), j) \in SUBSET Regs
          BY DEF Registers
        <5> QED
          BY <5>1, FewRegisters
      <4> QED
        BY <4>1, <4>2
    <3> QED
      BY <3>1, <3>2
  <2> QED
    BY <1>1, <2>2 DEF DependentsOf
<1>6. ASSUME NEW x \in Stations \ {s}
      PROVE  DependentsOf(x)'
  <2>1. DependentsOf(x) /\ SameReg(x)
    BY <1>1, Untouched DEF Strong, DependentsOK
  <2>2. Held(x) => Cardinality(Registers(reservation_station[x], k)) = 0
    <3>1. Held(x) => Registers(reservation_station[x], k) = {}
      BY <1>1, <1>3 DEF Strong, RegistersOK, Registers
    <3> QED
      BY <3>1, FS_EmptySet
  <2>3. Count(rob[k].deps, {x}) = 0
    BY <1>1, <2>1, <2>2 DEF DependentsOf
  <2>4. ASSUME NEW j \in Slots
        PROVE  Count(rob'[j].deps, {x}) = Count(rob[j].deps, {x})
    <3>1. CASE j = k
      BY <1>1, <2>3, <3>1, CountEmpty
    <3>2. CASE j # k
      <4>1. Count(rob[j].deps, {x}) \in Nat /\ Count(rob'[j].deps, {x}) = Count(rob[j].deps, {x}) + 0
        BY <1>4, <3>2
      <4> QED
        BY <4>1
    <3> QED
      BY <3>1, <3>2
  <2> QED
    BY <2>1, <2>4, SameDependents
<1>7. ExecutedOK'
  <2>1. ASSUME NEW j \in InUse, rob'[j].status = Executed
        PROVE  rob'[j].deps = <<>>
    <3>1. j \in Slots \ {k} /\ ~ IsBroadcast(j)
      BY <1>1, TypedFacts DEF IsBroadcast
    <3>2. rob[j].status = Executed /\ rob[j].deps = <<>>
      BY <1>1, <2>1, <3>1 DEF Strong, ExecutedOK
    <3>3. Registers(NewStation(n), j) = {}
      BY <1>2, <1>3, <3>1, <3>2 DEF Registers
    <3>4. Cardinality(Registers(NewStation(n), j)) = 0
      BY <3>3, FS_EmptySet
    <3>5. <<>> \o Repeated(0, s) = <<>>
      <4>1. Repeated(0, s) = <<>>
        BY DEF Repeated
      <4> QED
        BY <4>1
    <3> QED
      BY <1>1, <3>1, <3>2, <3>4, <3>5
  <2>2. rob'[k].status # Executed
    BY <1>1 DEF Issued, Executed
  <2> QED
    BY <1>1, <2>1, <2>2 DEF ExecutedOK
<1> QED
  BY <1>5, <1>6, <1>7 DEF DependentsOK

\* Its operands have their turns in the AGU, and it is ready if it has none.
LEMMA PlacedReady ==
  ASSUME Typed, Strong, StationsTyped', NEW n, NEW s, NEW k, Placed(n, s, k), Issues(n, s)
  PROVE  TurnsOK' /\ LoadsOK' /\ ReadyOK'
<1>1. /\ n \in 1 .. Len(program) /\ s \in Stations
      /\ ~ Held(s) /\ Held(s)'
      /\ reservation_station'[s] = NewStation(n)
      /\ \A x \in Stations \ {s} : reservation_station'[x] = reservation_station[x]
      /\ NewStation(n).mem = [i \in 1 .. 2 |-> IF i \in Operands(program[n]) THEN Unborn ELSE Answered]
      /\ UNCHANGED <<load_store_queue, pending_load_store, execution_unit>>
  BY DEF Placed, Held
<1>2. PICK generated \in ReadyQueues, c \in 0 .. 2 :
           /\ c = Cardinality(Operands(program[n]))
           /\ generated = [ready_queue EXCEPT ![AGU] = ready_queue[AGU] \o Repeated(c, s)]
           /\ ready_queue' = PushIfCleared(generated, reservation_station', s)
  BY <1>1, OperandsReady
<1>3. PushedOnce(generated, ready_queue', reservation_station'[s], s)
  <2>1. PICK st \in AllStations : st = reservation_station'
    BY DEF StationsTyped, AllStations
  <2>2. PushedOnce(generated, PushIfCleared(generated, st, s), st[s], s)
    BY <1>1, CountPushed
  <2> QED
    BY <1>2, <2>1, <2>2
<1>4. /\ ready_queue \in [Types -> Seq(Stations)] /\ AGU \in Types
      /\ generated[AGU] = ready_queue[AGU] \o Repeated(c, s)
      /\ \A t \in Types \ {AGU} : generated[t] = ready_queue[t]
  <2>1. ready_queue \in [Types -> Seq(Stations)] /\ AGU \in Types
    BY TypedFacts DEF ReadyQueues
  <2> QED
    BY <1>2, <2>1
<1>5. ASSUME NEW x \in Stations
      PROVE  /\ Count(ready_queue'[AGU], {x}) = Count(ready_queue[AGU], {x}) + IF x = s THEN c ELSE 0
             /\ Count(ready_queue[AGU], {x}) \in Nat
  <2>1. PICK q \in Seq(Stations) : q = ready_queue[AGU]
    BY <1>4
  <2>2. ready_queue'[AGU] = q \o [i \in 1 .. c |-> s]
    BY <1>3, <1>4, <2>1 DEF PushedOnce, Repeated
  <2>3. c \in Nat
    OBVIOUS
  <2>4. Count(q \o [i \in 1 .. c |-> s], {x}) = Count(q, {x}) + (IF s \in {x} THEN c ELSE 0)
    BY <1>1, <2>3, CountRepeat
  <2>5. Count(q, {x}) \in Nat
    BY CountQueue
  <2> QED
    BY <2>1, <2>2, <2>4, <2>5
<1>6. ASSUME NEW x \in Stations, NEW t \in Types \ {AGU}
      PROVE  /\ Count(ready_queue[t], {x}) \in Nat
             /\ Count(ready_queue'[t], {x}) = Count(ready_queue[t], {x}) +
                  IF x = s /\ Cleared(NewStation(n)) /\ t = NewStation(n).type THEN 1 ELSE 0
  <2>1. ready_queue[t] \in Seq(Stations)
    BY <1>4
  <2>2. Count(ready_queue[t], {x}) \in Nat
    BY <2>1, CountQueue
  <2> QED
    BY <1>1, <1>3, <1>4, <2>2 DEF PushedOnce
<1>7. TurnsOK'
  <2>1. TurnsOf(s)'
    <3>1. Count(ready_queue[AGU], {s}) + Count(execution_unit[AGU], UnitsAt(s)) = 0
      BY <1>1 DEF Strong, TurnsOK, TurnsOf
    <3>2. Operand(NewStation(n), Unborn) = Operands(program[n])
      <4>1. Unborn # Answered
        BY DEF Unborn, Answered
      <4>2. Operands(program[n]) \subseteq 1 .. 2
        BY DEF Operands
      <4> QED
        BY <1>1, <4>1, <4>2 DEF Operand
    <3> DEFINE a == Count(ready_queue[AGU], {s})
               a1 == Count(ready_queue'[AGU], {s})
               b == Count(execution_unit[AGU], UnitsAt(s))
    <3>3. a \in Nat /\ a1 = a + c
      BY <1>1, <1>5
    <3>4. b \in Nat
      BY TypedFacts, CountQueue
    <3>5. a + b = 0
      BY <3>1
    <3>6. (a1 + b = c) => TurnsOf(s)'
      BY <1>1, <1>2, <3>2 DEF TurnsOf, UnitsAt
    <3> HIDE DEF a, a1, b
    <3> QED
      BY <3>3, <3>4, <3>5, <3>6
  <2>2. ASSUME NEW x \in Stations \ {s}
        PROVE  TurnsOf(x)'
    <3>1. TurnsOf(x) /\ SameMem(x)
      BY <1>1, Untouched DEF Strong, TurnsOK
    <3>2. /\ Count(ready_queue'[AGU], {x}) = Count(ready_queue[AGU], {x}) + 0
          /\ Count(ready_queue[AGU], {x}) \in Nat
      BY <1>5
    <3>3. Count(ready_queue'[AGU], {x}) = Count(ready_queue[AGU], {x})
      BY <3>2
    <3> QED
      BY <1>1, <3>1, <3>3, SameTurns
  <2> QED
    BY <2>1, <2>2 DEF TurnsOK
<1>8. LoadsOK'
  <2>1. LoadsOf(s)'
    <3>1. \A a : OperandAt(NewStation(n), Asked, a) = {}
      BY <1>1 DEF OperandAt, Asked, Unborn, Answered
    <3>2. \A a : Cardinality(OperandAt(NewStation(n), Asked, a)) = 0
      BY <3>1, FS_EmptySet
    <3>3. \A a \in Addresses :
            Count(load_store_queue, LoadsAt(s, a)) + Count(pending_load_store, LoadsAt(s, a)) = 0
      BY <1>1 DEF Strong, LoadsOK, LoadsOf
    <3> QED
      BY <1>1, <3>2, <3>3 DEF LoadsOf, LoadsAt
  <2>2. ASSUME NEW x \in Stations \ {s}
        PROVE  LoadsOf(x)'
    BY <1>1, Untouched, SameLoads DEF Strong, LoadsOK
  <2> QED
    BY <2>1, <2>2 DEF LoadsOK
<1>9. ReadyOK'
  <2>1. ReadyOf(s)'
    <3>1. \A t \in Types \ {AGU} : Count(ready_queue[t], {s}) = 0
      BY <1>1 DEF Strong, ReadyOK, ReadyOf
    <3>2. \A t \in Types \ {AGU} : Count(ready_queue'[t], {s}) =
             IF Cleared(NewStation(n)) /\ t = NewStation(n).type THEN 1 ELSE 0
      <4>1. ASSUME NEW t \in Types \ {AGU}
            PROVE  Count(ready_queue'[t], {s}) =
                     IF Cleared(NewStation(n)) /\ t = NewStation(n).type THEN 1 ELSE 0
        <5>1. Count(ready_queue'[t], {s}) = Count(ready_queue[t], {s}) +
                  IF Cleared(NewStation(n)) /\ t = NewStation(n).type THEN 1 ELSE 0
          BY <1>1, <1>6
        <5> QED
          BY <3>1, <5>1
      <4> QED
        BY <4>1
    <3> QED
      BY <1>1, <3>2 DEF ReadyOf
  <2>2. ASSUME NEW x \in Stations \ {s}
        PROVE  ReadyOf(x)'
    <3>1. ASSUME NEW t \in Types \ {AGU}
          PROVE  Count(ready_queue'[t], {x}) = Count(ready_queue[t], {x})
      <4>1. /\ Count(ready_queue[t], {x}) \in Nat
            /\ Count(ready_queue'[t], {x}) = Count(ready_queue[t], {x}) + 0
        BY <1>6
      <4> QED
        BY <4>1
    <3> QED
      BY <1>1, <3>1, Untouched, SameReady DEF Strong, ReadyOK
  <2> QED
    BY <2>1, <2>2 DEF ReadyOK
<1> QED
  BY <1>7, <1>8, <1>9

\* issue_instruction keeps the invariant.
LEMMA IssueStrong ==
  ASSUME Typed, Strong, DistinctOperands, Issue
  PROVE  Strong'
<1>1. PICK n, s, k : Placed(n, s, k) /\ Issues(n, s)
  BY IssuePlaces
<1>2. StationsTyped'
  BY IssueTypes DEF Kept
<1>3. /\ HoldersOK' /\ RegistersOK' /\ RenamedOK' /\ OperandsOK' /\ StoresOK' /\ StageOK'
      /\ WorkOK'
  BY <1>1, PlacedHolders
<1>4. DependentsOK' /\ ExecutedOK'
  BY <1>1, PlacedDependents
<1>5. TurnsOK' /\ LoadsOK' /\ ReadyOK'
  BY <1>1, <1>2, PlacedReady
<1> QED
  BY <1>3, <1>4, <1>5 DEF Strong

\* The ring is empty at the start.
LEMMA NoneInUse ==
  ASSUME Init
  PROVE  InUse = {}
<1>1. Size = 0
  BY DEF Init, RobInit, Size, is_empty
<1> QED
  BY <1>1 DEF InUse

\* The invariant holds at the start.
LEMMA StrongInit ==
  ASSUME Init
  PROVE  Strong
<1>1. /\ InUse = {} /\ stage = "start" /\ completed_inst = <<>>
      /\ load_store_queue = <<>> /\ pending_load_store = <<>>
      /\ reg_alias_table = [r \in Regs |-> -1]
      /\ \A s \in Stations : ~ Held(s)
      /\ \A k \in Slots : rob[k].deps = <<>>
      /\ \A t \in Types : ready_queue[t] = <<>> /\ execution_unit[t] = <<>>
  BY NoneInUse DEF Init, RobInit, EmptyEntry, EmptyStation, Held
<1>2. AGU \in Types /\ -1 \notin Types
  BY Sizing DEF Types
<1>3. StageOK /\ HoldersOK
  BY <1>1 DEF StageOK, HoldersOK, IsBroadcast
<1>4. WorkOK
  <2>1. ASSUME NEW k \in Slots
        PROVE  WorkAt(k, -1) /\ ~ Working(k)
    <3>1. \A t \in Types \ {AGU} : Count(execution_unit[t], UnitsOn(k)) = 0
      BY <1>1, CountEmpty
    <3>2. Count(completed_inst, {k}) = 0
      BY <1>1, CountEmpty
    <3>3. \A t \in Types : t # -1
      BY <1>2
    <3>4. WorkAt(k, -1)
      BY <1>2, <3>1, <3>2, <3>3 DEF WorkAt
    <3> QED
      BY <1>1, <3>4 DEF Working
  <2> QED
    BY <2>1 DEF WorkOK
<1>5. DependentsOK
  <2>1. \A s \in Stations : \A k \in Slots : Count(rob[k].deps, {s}) = 0
    BY <1>1, CountEmpty
  <2> QED
    BY <1>1, <2>1 DEF DependentsOK, DependentsOf
<1>6. TurnsOK
  <2>1. \A s \in Stations : /\ Count(ready_queue[AGU], {s}) = 0
                            /\ Count(execution_unit[AGU], UnitsAt(s)) = 0
    BY <1>1, <1>2, CountEmpty
  <2> QED
    BY <1>1, <2>1 DEF TurnsOK, TurnsOf
<1>7. LoadsOK
  <2>1. \A s \in Stations : \A a : /\ Count(load_store_queue, LoadsAt(s, a)) = 0
                                   /\ Count(pending_load_store, LoadsAt(s, a)) = 0
    BY <1>1, CountEmpty
  <2> QED
    BY <1>1, <2>1 DEF LoadsOK, LoadsOf
<1>8. ReadyOK
  <2>1. \A s \in Stations : \A t \in Types : Count(ready_queue[t], {s}) = 0
    BY <1>1, CountEmpty
  <2> QED
    BY <1>1, <2>1 DEF ReadyOK, ReadyOf
<1>9. RegistersOK /\ ExecutedOK /\ RenamedOK /\ OperandsOK /\ StoresOK
  BY <1>1 DEF RegistersOK, ExecutedOK, RenamedOK, OperandsOK, StoresOK
<1> QED
  BY <1>3, <1>4, <1>5, <1>6, <1>7, <1>8, <1>9 DEF Strong

\* The steps that change nothing the invariant looks at.
LEMMA OtherStrong ==
  ASSUME Typed, Strong,
         Stalled \/ Begin \/ Decode \/ EndDecode \/ EndIssue \/ EndBroadcast
         \/ EndCommit \/ EndCompletion \/ EndPending
         \/ (\E t \in Types : DispatchNothing(t) \/ CompleteNothing(t))
  PROVE  Strong'
<1>1. UNCHANGED <<robVars, reservation_station, ready_queue, load_store_queue,
                     pending_load_store, reg_alias_table, execution_unit, completed_inst>>
  BY DEF Stalled, Begin, Decode, EndDecode, EndIssue, EndBroadcast, EndCommit,
         EndCompletion, EndPending, DispatchNothing, CompleteNothing, stationVars, memVars
<1>2. Onward
  BY DEF Stalled, Begin, Decode, EndDecode, EndIssue, EndBroadcast, EndCommit,
         EndCompletion, EndPending, DispatchNothing, CompleteNothing, Onward,
         Goto, Again, NextType
<1> QED
  BY <1>1, <1>2, QuietStrong

\* Every step keeps it, unless a store is forwarded to a pending load.
LEMMA StrongStep ==
  ASSUME Typed, Strong, ~ ForwardsPending, DistinctOperands, [Next]_vars
  PROVE  Strong'
<1>1. CASE UNCHANGED vars
  <2>1. UNCHANGED <<robVars, reservation_station, ready_queue, load_store_queue,
                     pending_load_store, reg_alias_table, execution_unit, completed_inst>>
    BY <1>1 DEF vars, stationVars, memVars
  <2>2. Onward
    BY <1>1 DEF vars, Onward
  <2> QED
    BY <2>1, <2>2, QuietStrong
<1>2. CASE Next
  <2>1. \/ Stalled \/ Begin \/ Decode \/ EndDecode \/ EndIssue \/ EndBroadcast
           \/ EndCommit \/ EndCompletion \/ EndPending
           \/ (\E t \in Types : DispatchNothing(t) \/ CompleteNothing(t))
        \/ Issue \/ CompleteAGU \/ Broadcast \/ Commit \/ Pending \/ Age
        \/ \E t \in Types : DispatchStalls(t) \/ Dispatch(t) \/ Complete(t)
        \/ \E id \in Ids : MemoryAnswers(id)
    BY <1>2 DEF Next, Core, Answer
  <2> QED
    BY <2>1, OtherStrong, IssueStrong, CompleteAGUStrong, BroadcastStrong, CommitStrong,
       PendingStrong, AgeStrong, DispatchStallsStrong, DispatchStrong, CompleteStrong,
       MemoryAnswersStrong
<1> QED
  BY <1>1, <1>2

(***************************************************************************)
(* What the invariant says of places and of waking up.                     *)
(***************************************************************************)
\* What is counted once is at one index.
LEMMA CountedOnce ==
  ASSUME NEW T, NEW q \in Seq(T), NEW S, Count(q, S) = 1
  PROVE  \E i \in DOMAIN q : q[i] \in S /\ \A j \in DOMAIN q : q[j] \in S => j = i
<1> DEFINE I == {i \in DOMAIN q : q[i] \in S}
<1>1. IsFiniteSet(I)
  BY CountTyped
<1>2. Cardinality(I) = 1
  BY DEF Count
<1> HIDE DEF I
<1>3. PICK i : I = {i}
  BY <1>1, <1>2, FS_Singleton
<1>4. i \in I /\ \A j \in I : j = i
  BY <1>3
<1> QED
  BY <1>4 DEF I

\* What is not counted is at no index.
LEMMA CountedOften ==
  ASSUME NEW T, NEW q \in Seq(T), NEW S, NEW i \in DOMAIN q, q[i] \in S
  PROVE  Count(q, S) # 0
BY CountFound

\* The completed instructions are no more than the slots.
LEMMA CompletedFit ==
  ASSUME Typed, Strong
  PROVE  Len(completed_inst) <= ROB_Size /\ Len(completed_inst) \in Nat
<1> DEFINE q == completed_inst
<1>1. q \in Seq(Slots)
  BY TypedFacts
<1>2. Len(q) \in Nat /\ DOMAIN q = 1 .. Len(q) /\ \A i \in DOMAIN q : q[i] \in Slots
  <2> HIDE DEF q
  <2> QED
    BY <1>1
<1>3. ASSUME NEW i \in DOMAIN q, NEW j \in DOMAIN q, q[i] = q[j]
      PROVE  i = j
  <2>1. PICK k \in Slots : k = q[i]
    BY <1>2
  <2>2. Count(q, {k}) # 0
    BY <1>1, <2>1, CountedOften
  <2>3. WorkAt(k, AGU)
    BY <2>2, WorkPlace DEF Strong
  <2>4. Count(q, {k}) = 1
    BY <2>3 DEF WorkAt
  <2>5. PICK l \in DOMAIN q : \A m \in DOMAIN q : q[m] \in {k} => m = l
    BY <1>1, <2>4, CountedOnce
  <2> QED
    BY <1>3, <2>1, <2>5
<1>4. IsFiniteSet(Slots) /\ Cardinality(Slots) = ROB_Size
  <2>1. ROB_Size \in Nat /\ ROB_Size > 2 /\ 0 \in Int /\ ROB_Size - 1 \in Int
    BY RobSizeAssumption
  <2>2. /\ IsFiniteSet(0 .. ROB_Size - 1)
        /\ Cardinality(0 .. ROB_Size - 1) =
             IF 0 > ROB_Size - 1 THEN 0 ELSE ROB_Size - 1 - 0 + 1
    BY <2>1, FS_Interval
  <2> DEFINE c == Cardinality(0 .. ROB_Size - 1)
  <2>3. c = IF 0 > ROB_Size - 1 THEN 0 ELSE ROB_Size - 1 - 0 + 1
    BY <2>2
  <2> HIDE DEF c
  <2>4. c = ROB_Size
    BY <2>1, <2>3
  <2> QED
    BY <2>2, <2>4 DEF Slots, c
<1>5. IsFiniteSet(DOMAIN q) /\ Cardinality(DOMAIN q) = Len(q)
  <2>1. \A b \in Nat : IsFiniteSet(1 .. b) /\ Cardinality(1 .. b) = b
    <3>1. ASSUME NEW b \in Nat
          PROVE  IsFiniteSet(1 .. b) /\ Cardinality(1 .. b) = b
      BY FS_Interval
    <3> QED
      BY <3>1
  <2> QED
    BY <1>2, <2>1, Zenon
<1> DEFINE f == [i \in DOMAIN q |-> q[i]]
<1>6. f \in [DOMAIN q -> Slots]
  BY <1>2
<1>7. ~ (Cardinality(Slots) < Cardinality(DOMAIN q))
  <2>1. SUFFICES ASSUME Cardinality(Slots) < Cardinality(DOMAIN q)
                 PROVE  FALSE
    OBVIOUS
  <2>2. \E x, y \in DOMAIN q : x # y /\ f[x] = f[y]
    <3> HIDE DEF f, q
    <3> QED
      BY <1>4, <1>5, <1>6, <2>1, FS_PigeonHole
  <2> QED
    BY <1>3, <2>2
<1> HIDE DEF q, f
<1>8. Len(q) <= ROB_Size
  BY <1>2, <1>4, <1>5, <1>7, RobSizeAssumption
<1> QED
  BY <1>2, <1>8 DEF q

\* The units and the list, by what SlotsAgree counts.
LEMMA PlaceOf ==
  /\ \A t, i : SlotOf(<<"unit", t, i>>) =
       IF i \in DOMAIN execution_unit[t] THEN execution_unit[t][i].rob ELSE -1
  /\ \A t, i : SlotOf(<<"done", t, i>>) =
       IF i \in DOMAIN completed_inst THEN completed_inst[i] ELSE -1
BY DEF SlotOf

\* Something works on a slot: the slot is at work.
LEMMA WorkFound ==
  ASSUME Typed, Strong, NEW e \in Executing, SlotOf(e) # -1
  PROVE  SlotOf(e) \in Slots /\ Working(SlotOf(e))
<1>1. CASE \E t \in Types \ {AGU}, i \in 1 .. num_exec_units : e = <<"unit", t, i>>
  <2>1. PICK t \in Types \ {AGU}, i \in 1 .. num_exec_units : e = <<"unit", t, i>>
    BY <1>1
  <2>2. i \in DOMAIN execution_unit[t] /\ SlotOf(e) = execution_unit[t][i].rob
    BY <2>1, PlaceOf
  <2>3. PICK u \in UnitRecords : u = execution_unit[t][i]
    <3>1. execution_unit[t] \in Seq(UnitRecords)
      BY TypedFacts
    <3> QED
      BY <2>2, <3>1
  <2>4. PICK k \in Slots : k = u.rob
    BY <2>3 DEF UnitRecords
  <2>5. Count(execution_unit[t], UnitsOn(k)) # 0
    <3>1. execution_unit[t] \in Seq(UnitRecords)
      BY TypedFacts
    <3>2. execution_unit[t][i] \in UnitsOn(k)
      BY <2>3, <2>4 DEF UnitsOn
    <3> QED
      BY <2>2, <3>1, <3>2, CountedOften
  <2>6. Working(k)
    BY <2>5, WorkPlace DEF Strong
  <2> QED
    BY <2>2, <2>3, <2>4, <2>6
<1>2. CASE \E i \in 1 .. ROB_Size : e = <<"done", 0, i>>
  <2>1. PICK i \in 1 .. ROB_Size : e = <<"done", 0, i>>
    BY <1>2
  <2>2. i \in DOMAIN completed_inst /\ SlotOf(e) = completed_inst[i]
    BY <2>1, PlaceOf
  <2>3. completed_inst \in Seq(Slots)
    BY TypedFacts
  <2>4. PICK k \in Slots : k = completed_inst[i]
    BY <2>2, <2>3
  <2>5. Count(completed_inst, {k}) # 0
    BY <2>2, <2>3, <2>4, CountedOften
  <2>6. Working(k)
    BY <2>5, WorkPlace DEF Strong
  <2> QED
    BY <2>2, <2>4, <2>6
<1> QED
  BY <1>1, <1>2 DEF Executing

\* An instruction at work is in one place.
LEMMA WorkOnce ==
  ASSUME Typed, Strong, NEW k \in Slots, Working(k)
  PROVE  Cardinality({e \in Executing : SlotOf(e) = k}) = 1
<1> DEFINE E == {e \in Executing : SlotOf(e) = k}
<1>0. k # -1
  BY RobSizeAssumption DEF Slots
<1>1. PICK p \in Types \union {-1} : WorkAt(k, p) /\ p # -1
  BY DEF Strong, WorkOK
<1>2. completed_inst \in Seq(Slots) /\ \A t \in Types : execution_unit[t] \in Seq(UnitRecords)
  BY TypedFacts
<1>3. \A t \in Types \ {AGU} : \A i \in DOMAIN execution_unit[t] :
        execution_unit[t][i].rob = k <=> execution_unit[t][i] \in UnitsOn(k)
  BY <1>2 DEF UnitsOn
<1>4. \A t \in Types \ {AGU} : t # p =>
        \A i \in DOMAIN execution_unit[t] : execution_unit[t][i] \notin UnitsOn(k)
  <2>1. ASSUME NEW t \in Types \ {AGU}, t # p
        PROVE  \A i \in DOMAIN execution_unit[t] : execution_unit[t][i] \notin UnitsOn(k)
    <3>1. Count(execution_unit[t], UnitsOn(k)) = 0
      BY <1>1, <2>1 DEF WorkAt
    <3> QED
      BY <1>2, <3>1, CountFound
  <2> QED
    BY <2>1
<1>5. CASE p # AGU
  <2>1. p \in Types \ {AGU} /\ Count(execution_unit[p], UnitsOn(k)) = 1
        /\ Count(completed_inst, {k}) = 0
    BY <1>1, <1>5 DEF WorkAt
  <2>2. PICK i \in DOMAIN execution_unit[p] : /\ execution_unit[p][i] \in UnitsOn(k)
            /\ \A j \in DOMAIN execution_unit[p] : execution_unit[p][j] \in UnitsOn(k) => j = i
    BY <1>2, <2>1, CountedOnce
  <2>3. \A j \in DOMAIN completed_inst : completed_inst[j] # k
    BY <1>2, <2>1, CountFound
  <2>4. i \in 1 .. num_exec_units
    <3>1. Len(execution_unit[p]) <= num_exec_units
      BY <2>1 DEF Typed, UnitsTyped
    <3>2. i \in 1 .. Len(execution_unit[p]) /\ Len(execution_unit[p]) \in Nat
      BY <1>2, <2>1
    <3> QED
      BY <3>1, <3>2, Sizing
  <2>5. <<"unit", p, i>> \in E
    BY <1>3, <2>1, <2>2, <2>4, PlaceOf DEF Executing
  <2>6. ASSUME NEW e \in E
        PROVE  e = <<"unit", p, i>>
    <3>1. CASE \E t \in Types \ {AGU}, j \in 1 .. num_exec_units : e = <<"unit", t, j>>
      <4>1. PICK t \in Types \ {AGU}, j \in 1 .. num_exec_units : e = <<"unit", t, j>>
        BY <3>1
      <4>2. j \in DOMAIN execution_unit[t] /\ execution_unit[t][j].rob = k
        BY <1>0, <4>1, PlaceOf
      <4> QED
        BY <1>3, <1>4, <2>2, <4>1, <4>2
    <3>2. CASE \E j \in 1 .. ROB_Size : e = <<"done", 0, j>>
      BY <1>0, <2>3, <3>2, PlaceOf
    <3> QED
      BY <3>1, <3>2 DEF Executing
  <2>7. E = {<<"unit", p, i>>}
    <3> HIDE DEF E
    <3> QED
      BY <2>5, <2>6
  <2> HIDE DEF E
  <2>8. Cardinality(E) = 1
    BY <2>7, FS_Singleton
  <2> QED
    BY <2>8 DEF E
<1>6. CASE p = AGU
  <2>1. Count(completed_inst, {k}) = 1
    BY <1>1, <1>6 DEF WorkAt
  <2>2. PICK i \in DOMAIN completed_inst : /\ completed_inst[i] = k
            /\ \A j \in DOMAIN completed_inst : completed_inst[j] = k => j = i
    <3>1. \E i \in DOMAIN completed_inst : /\ completed_inst[i] \in {k}
            /\ \A j \in DOMAIN completed_inst : completed_inst[j] \in {k} => j = i
      BY <1>2, <2>1, CountedOnce
    <3> QED
      BY <3>1
  <2>3. i \in 1 .. ROB_Size
    BY <1>2, CompletedFit, RobSizeAssumption
  <2>4. <<"done", 0, i>> \in E
    BY <2>2, <2>3, PlaceOf DEF Executing
  <2>5. ASSUME NEW e \in E
        PROVE  e = <<"done", 0, i>>
    <3>1. CASE \E t \in Types \ {AGU}, j \in 1 .. num_exec_units : e = <<"unit", t, j>>
      <4>1. PICK t \in Types \ {AGU}, j \in 1 .. num_exec_units : e = <<"unit", t, j>>
        BY <3>1
      <4>2. j \in DOMAIN execution_unit[t] /\ execution_unit[t][j].rob = k
        BY <1>0, <4>1, PlaceOf
      <4> QED
        BY <1>3, <1>4, <1>6, <4>2
    <3>2. CASE \E j \in 1 .. ROB_Size : e = <<"done", 0, j>>
      BY <1>0, <2>2, <3>2, PlaceOf
    <3> QED
      BY <3>1, <3>2 DEF Executing
  <2>6. E = {<<"done", 0, i>>}
    <3> HIDE DEF E
    <3> QED
      BY <2>4, <2>5
  <2> HIDE DEF E
  <2>7. Cardinality(E) = 1
    BY <2>6, FS_Singleton
  <2> QED
    BY <2>7 DEF E
<1> QED
  BY <1>5, <1>6

\* Nothing is in two places, and what is in none is waiting for nothing.
LEMMA StrongAgrees ==
  ASSUME Typed, Strong
  PROVE  SlotsAgree
<1>0. InUse \subseteq Slots
  BY TypedFacts
<1>1. \A s \in Stations : reservation_station[s].valid =>
       /\ reservation_station[s].rob \in InUse
       /\ rob[reservation_station[s].rob].status = Issued
       /\ rob[reservation_station[s].rob].ins = reservation_station[s].ins
  BY DEF Strong, HoldersOK, Held
<1>2. ASSUME NEW k \in InUse, rob[k].status = Issued
      PROVE  Cardinality({s \in Stations : reservation_station[s].valid /\
                                          reservation_station[s].rob = k}) = 1
  <2>1. PICK s \in Stations : Held(s) /\ reservation_station[s].rob = k
    BY <1>2 DEF Strong, HoldersOK
  <2>2. {x \in Stations : reservation_station[x].valid /\ reservation_station[x].rob = k} = {s}
    BY <2>1 DEF Strong, HoldersOK, Held
  <2> QED
    BY <2>2, FS_Singleton
<1>3. ASSUME NEW k \in InUse, rob[k].status = Dispatched
      PROVE  Cardinality({e \in Executing : SlotOf(e) = k}) = 1
  <2>1. Working(k)
    BY <1>3 DEF Working
  <2> QED
    BY <1>0, <2>1, WorkOnce
<1>4. ASSUME NEW e \in Executing, SlotOf(e) # -1
      PROVE  /\ SlotOf(e) \in InUse
             /\ \/ rob[SlotOf(e)].status = Dispatched
                \/ stage = "broadcast" /\ SlotOf(e) = Head(completed_inst)
  <2>1. PICK k \in Slots : k = SlotOf(e) /\ Working(k)
    BY <1>4, WorkFound
  <2>2. IsBroadcast(k) /\ stage # "broadcast" => rob[k].status = Dispatched
    BY DEF Strong, StageOK
  <2> QED
    BY <2>1, <2>2 DEF Working, IsBroadcast
<1> QED
  BY <1>1, <1>2, <1>3, <1>4 DEF SlotsAgree

\* What the property calls occurrences is counted.
LEMMA OccurrencesCount ==
  ASSUME NEW q, NEW s
  PROVE  Occurrences(q, s) = Count(q, {s})
<1>1. {i \in DOMAIN q : q[i] = s} = {i \in DOMAIN q : q[i] \in {s}}
  OBVIOUS
<1> QED
  BY <1>1 DEF Occurrences, Count

\* A station that waits for something is where its wake-up will find it.
LEMMA StrongWakes ==
  ASSUME Typed, Strong
  PROVE  NoLostWakeUp
<1>1. ASSUME NEW s \in Stations, Held(s), NEW st, st = reservation_station[s]
      PROVE  /\ \A k \in Slots :
                  Occurrences(rob[k].deps, s) = Cardinality({r \in Regs : st.reg[r] = k})
             /\ \A r \in Regs : st.reg[r] # -1 =>
                  st.reg[r] \in InUse /\ st.reg[r] # st.rob
  <2>1. DependentsOf(s)
    BY DEF Strong, DependentsOK
  <2>2. \A k \in Slots : Count(rob[k].deps, {s}) = Cardinality(Registers(st, k))
    BY <1>1, <2>1 DEF DependentsOf
  <2>3. \A k \in Slots : Occurrences(rob[k].deps, s) = Count(rob[k].deps, {s})
    BY OccurrencesCount
  <2>4. RegistersOK
    BY DEF Strong
  <2> QED
    BY <1>1, <2>2, <2>3, <2>4 DEF Registers, RegistersOK
<1>2. ASSUME NEW s \in Stations, Held(s), NEW st, st = reservation_station[s]
      PROVE  Occurrences(ready_queue[AGU], s)
               + Cardinality({i \in DOMAIN execution_unit[AGU] :
                                execution_unit[AGU][i].station = s})
             = Cardinality({i \in 1 .. 2 : st.mem[i] = Unborn})
  <2>1. TurnsOf(s)
    BY DEF Strong, TurnsOK
  <2>2. Occurrences(ready_queue[AGU], s) = Count(ready_queue[AGU], {s})
    BY OccurrencesCount
  <2>3. {i \in DOMAIN execution_unit[AGU] : execution_unit[AGU][i].station = s}
          = {i \in DOMAIN execution_unit[AGU] : execution_unit[AGU][i] \in UnitsAt(s)}
    <3>1. execution_unit[AGU] \in Seq(UnitRecords)
      BY TypedFacts
    <3>2. \A i \in DOMAIN execution_unit[AGU] : execution_unit[AGU][i] \in UnitRecords
      BY <3>1
    <3> QED
      BY <3>2 DEF UnitsAt
  <2> QED
    BY <1>2, <2>1, <2>2, <2>3 DEF TurnsOf, Count, Operand
<1>3. ASSUME NEW s \in Stations, Held(s), NEW st, st = reservation_station[s],
             NEW i \in 1 .. 2, st.mem[i] = Asked, NEW a, a = st.addr[i]
      PROVE  Cardinality({j \in DOMAIN load_store_queue :
                 load_store_queue[j].station = s /\ load_store_queue[j].addr = a})
             + Cardinality({j \in DOMAIN pending_load_store :
                 pending_load_store[j].station = s /\ pending_load_store[j].addr = a}) = 1
  <2>1. st \in StationRecords /\ a \in Addresses
    <3>1. st \in StationRecords
      BY <1>3, TypedFacts DEF AllStations
    <3> QED
      BY <1>3, <3>1, StationFields
  <2>2. Sound(st)
    BY <1>3 DEF Strong, OperandsOK
  <2>3. a # NoAddr
    BY <1>3, <2>2 DEF Sound, Asked, Answered
  <2>4. OperandAt(st, Asked, a) = {i}
    <3>1. \A j \in 1 .. 2 : j # i => st.addr[j] # a
      BY <1>3, <2>2, <2>3 DEF Sound
    <3> QED
      BY <1>3, <3>1 DEF OperandAt
  <2>5. Cardinality(OperandAt(st, Asked, a)) = 1
    BY <2>4, FS_Singleton
  <2>6. Count(load_store_queue, LoadsAt(s, a)) + Count(pending_load_store, LoadsAt(s, a)) = 1
    <3>1. LoadsOf(s)
      BY DEF Strong, LoadsOK
    <3> QED
      BY <1>3, <2>1, <2>5, <3>1 DEF LoadsOf
  <2>7. \A q \in Seq(LoadRecords) :
          {j \in DOMAIN q : q[j].station = s /\ q[j].addr = a}
            = {j \in DOMAIN q : q[j] \in LoadsAt(s, a)}
    <3>1. ASSUME NEW q \in Seq(LoadRecords)
          PROVE  {j \in DOMAIN q : q[j].station = s /\ q[j].addr = a}
                   = {j \in DOMAIN q : q[j] \in LoadsAt(s, a)}
      <4>1. \A j \in DOMAIN q : q[j] \in LoadRecords
        OBVIOUS
      <4> QED
        BY <4>1 DEF LoadsAt
    <3> QED
      BY <3>1
  <2> QED
    BY <2>6, <2>7, TypedFacts DEF Count
<1>4. ASSUME NEW s \in Stations, Held(s), NEW st, st = reservation_station[s],
             NEW t \in Types \ {AGU}
      PROVE  Occurrences(ready_queue[t], s) = IF Cleared(st) /\ t = st.type THEN 1 ELSE 0
  <2>1. ReadyOf(s)
    BY DEF Strong, ReadyOK
  <2> QED
    BY <1>4, <2>1, OccurrencesCount DEF ReadyOf
<1> QED
  BY <1>1, <1>2, <1>3, <1>4 DEF NoLostWakeUp, Held

(***************************************************************************)
(* Reading: frames.                                                        *)
(***************************************************************************)
\* Every station keeps its instruction and what it waits for, or is freed.
SameReads ==
  \A x \in Stations : Held(x)' =>
    /\ Held(x)
    /\ reservation_station'[x].ins = reservation_station[x].ins
    /\ reservation_station'[x].reg = reservation_station[x].reg

\* The operands of the stations that are held stay the same.
SameAddrs ==
  \A x \in Stations : Held(x)' =>
    Held(x) /\ reservation_station'[x].addr = reservation_station[x].addr

\* The slots keep their instructions.
SameIns == \A k \in Slots : rob'[k].ins = rob[k].ins

\* The decode buffer still holds what follows.
BufferKept ==
  /\ IssuedSoFar' = IssuedSoFar
  /\ \A i \in DOMAIN decode_buffer' : decode_buffer'[i].ins = IssuedSoFar + i

\* The slots in use hold instructions of the program.
LEMMA InUseIns ==
  ASSUME Typed, NEW k \in InUse
  PROVE  \E i \in 1 .. SizeOf(issue_ptr, commit_ptr) :
           k = SlotAt(commit_ptr, i) /\ rob[k].ins \in 1 .. Len(program)
<1>1. PICK i \in 1 .. SizeOf(issue_ptr, commit_ptr) : k = SlotAt(commit_ptr, i)
  BY TypedFacts, InUseIs
<1>2. Queue \in Seq(1 .. Len(program))
  BY DEF Typed, QueueTyped
<1>3. i \in DOMAIN Queue /\ Queue[i] = rob[k].ins
  BY <1>1 DEF Queue
<1>4. Queue[i] \in 1 .. Len(program)
  BY <1>2, <1>3
<1> QED
  BY <1>1, <1>3, <1>4

\* The instruction of a station is one of the program.
LEMMA HeldIns ==
  ASSUME Typed, HoldersOK, NEW s \in Stations, Held(s)
  PROVE  /\ reservation_station[s].ins \in 1 .. Len(program)
         /\ program[reservation_station[s].ins].rr \subseteq Regs
<1>1. /\ reservation_station[s].rob \in InUse
      /\ rob[reservation_station[s].rob].ins = reservation_station[s].ins
  BY DEF HoldersOK
<1>2. reservation_station[s].ins \in 1 .. Len(program)
  BY <1>1, InUseIns
<1> QED
  BY <1>2, Instruction DEF Typed, CoreInv

\* Steps that leave the ring and the buffer alone keep the order,
LEMMA OrderFrame ==
  ASSUME Typed, OrderOK, SameIns, BufferKept,
         UNCHANGED <<issue_ptr, commit_ptr, num_inst_commited>>
  PROVE  OrderOK'
<1>1. RingOK
  BY TypedFacts
<1>2. \A i \in 1 .. SizeOf(issue_ptr, commit_ptr) : SlotAt(commit_ptr, i) \in Slots
  BY <1>1, InSlots
<1>3. \A i \in 1 .. SizeOf(issue_ptr, commit_ptr) :
        rob'[SlotAt(commit_ptr, i)].ins = num_inst_commited + i
  BY <1>2 DEF OrderOK, SameIns
<1> QED
  BY <1>3 DEF OrderOK, BufferKept

\* the renaming,
LEMMA RenamingFrame ==
  ASSUME Typed, RenamedOK, RenamingOK, SameIns, IssuedSoFar' = IssuedSoFar,
         UNCHANGED <<program, num_inst_commited, reg_alias_table>>
  PROVE  RenamingOK'
<1>1. InUse \subseteq Slots
  BY TypedFacts
<1>2. \A r \in Regs : reg_alias_table[r] # -1 =>
        rob'[reg_alias_table[r]].ins = rob[reg_alias_table[r]].ins
  BY <1>1 DEF RenamedOK, SameIns
<1>3. \A r \in Regs : LastWriter(IssuedSoFar + 1, r)' = LastWriter(IssuedSoFar + 1, r)
  BY DEF LastWriter
<1> QED
  BY <1>2, <1>3 DEF RenamingOK

\* who has executed
LEMMA ExecutedKept ==
  ASSUME Typed, SameIns, InUse' = InUse, UNCHANGED num_inst_commited,
         \A k \in Slots : rob[k].status = Executed => rob'[k].status = Executed
  PROVE  \A n : HasExecuted(n) => HasExecuted(n)'
<1>1. InUse \subseteq Slots
  BY TypedFacts
<1> QED
  BY <1>1 DEF HasExecuted, SameIns

\* and the reads.
LEMMA ReadsFrame ==
  ASSUME Typed, HoldersOK, RegistersOK, ReadsOK, SameReads, SameIns, UNCHANGED program,
         \A n \in Int : HasExecuted(n) => HasExecuted(n)'
  PROVE  ReadsOK'
<1>1. InUse \subseteq Slots
  BY TypedFacts
<1>2. ASSUME NEW s \in Stations, Held(s)',
             NEW r \in program[reservation_station'[s].ins].rr,
             NEW i \in LastWriter(reservation_station'[s].ins, r)
      PROVE  IF reservation_station'[s].reg[r] = -1 THEN HasExecuted(i)'
             ELSE rob'[reservation_station'[s].reg[r]].ins = i
  <2>1. /\ Held(s) /\ reservation_station'[s].ins = reservation_station[s].ins
        /\ reservation_station'[s].reg = reservation_station[s].reg
    BY <1>2 DEF SameReads
  <2>2. IF reservation_station[s].reg[r] = -1 THEN HasExecuted(i)
        ELSE rob[reservation_station[s].reg[r]].ins = i
    BY <1>2, <2>1 DEF ReadsOK
  <2>3. CASE reservation_station[s].reg[r] = -1
    <3>1. i \in Int
      BY <1>2 DEF LastWriter
    <3> QED
      BY <2>1, <2>2, <2>3, <3>1
  <2>4. CASE reservation_station[s].reg[r] # -1
    <3>1. r \in Regs
      BY <1>2, <2>1, HeldIns
    <3>2. reservation_station[s].reg[r] \in Slots
      BY <1>1, <2>1, <2>4, <3>1 DEF RegistersOK
    <3> QED
      BY <2>1, <2>2, <2>4, <3>2 DEF SameIns
  <2> QED
    BY <2>3, <2>4
<1>3. \A n, r : LastWriter(n, r)' = LastWriter(n, r)
  BY DEF LastWriter
<1> QED
  BY <1>2, <1>3 DEF ReadsOK

(***************************************************************************)
(* Reading: the steps.                                                     *)
(***************************************************************************)
LEMMA BufferFrame ==
  ASSUME Typed, OrderOK,
         \/ UNCHANGED <<num_inst_fetched, decode_buffer>>
         \/ decode_buffer' = OneCycle(decode_buffer) /\ UNCHANGED num_inst_fetched
         \/ Decode
  PROVE  BufferKept
<1> DEFINE q == decode_buffer
<1>1. /\ decode_buffer \in Seq(Decoding) /\ Len(decode_buffer) \in Nat
      /\ num_inst_fetched \in Nat /\ IssuedSoFar \in Int
  BY Rings, Numbers
<1>2. /\ \A i \in DOMAIN decode_buffer : decode_buffer[i].ins = IssuedSoFar + i
  BY DEF OrderOK
<1>3. DOMAIN q = 1 .. Len(q) /\ \A i \in DOMAIN q : q[i] \in Decoding
  <2>1. q \in Seq(Decoding)
    BY <1>1
  <2> HIDE DEF q
  <2> QED
    BY <2>1
<1>4. CASE UNCHANGED <<num_inst_fetched, decode_buffer>>
  BY <1>2, <1>4 DEF BufferKept, IssuedSoFar
<1>5. CASE decode_buffer' = OneCycle(decode_buffer) /\ UNCHANGED num_inst_fetched
  <2>1. decode_buffer' = [i \in DOMAIN q |-> [q[i] EXCEPT !.wait = IF @ > 0 THEN @ - 1 ELSE 0]]
    BY <1>5 DEF OneCycle
  <2>2. DOMAIN decode_buffer' = DOMAIN q /\ Len(decode_buffer') = Len(q)
    BY <1>1, <1>3, <2>1
  <2>3. ASSUME NEW i \in DOMAIN q
        PROVE  decode_buffer'[i].ins = q[i].ins
    <3>1. PICK e \in Decoding : e = q[i]
      BY <1>3
    <3>2. PICK w : w = IF e.wait > 0 THEN e.wait - 1 ELSE 0
      OBVIOUS
    <3>3. decode_buffer'[i] = [e EXCEPT !.wait = w]
      BY <2>1, <3>1, <3>2
    <3> QED
      BY <3>1, <3>3 DEF Decoding
  <2>4. IssuedSoFar' = IssuedSoFar
    BY <1>5, <2>2 DEF IssuedSoFar
  <2> QED
    BY <1>2, <2>2, <2>3, <2>4 DEF BufferKept
<1>6. CASE Decode
  <2>1. PICK e : e = [ins  |-> num_inst_fetched + 1, wait |-> decode_latency]
    OBVIOUS
  <2>2. decode_buffer' = Append(q, e) /\ num_inst_fetched' = num_inst_fetched + 1
    BY <1>6, <2>1 DEF Decode
  <2> DEFINE n == Len(q)
  <2>3. /\ n \in Nat /\ DOMAIN q = 1 .. n /\ Len(decode_buffer') = n + 1
        /\ DOMAIN decode_buffer' = 1 .. (n + 1)
        /\ decode_buffer'[n + 1] = e
        /\ \A i \in 1 .. n : decode_buffer'[i] = q[i]
    <3>1. q \in Seq(Decoding)
      BY <1>1
    <3> HIDE DEF q
    <3> QED
      BY <2>2, <3>1
  <2>4. IssuedSoFar = num_inst_fetched - n /\ IssuedSoFar' = num_inst_fetched + 1 - (n + 1)
    <3>1. Len(decode_buffer') = n + 1 /\ n \in Nat
      BY <2>3
    <3>2. num_inst_fetched' = num_inst_fetched + 1 /\ num_inst_fetched \in Nat
      BY <1>1, <2>2
    <3> QED
      BY <3>1, <3>2 DEF IssuedSoFar
  <2>5. e.ins = num_inst_fetched + 1
    BY <2>1
  <2> HIDE DEF q, n
  <2>6. IssuedSoFar' = IssuedSoFar /\ e.ins = IssuedSoFar + (n + 1)
    BY <1>1, <2>3, <2>4, <2>5
  <2>7. 1 .. (n + 1) = (1 .. n) \union {n + 1}
    BY <2>3
  <2> QED
    BY <1>2, <2>3, <2>6, <2>7 DEF BufferKept, q
<1> QED
  BY <1>4, <1>5, <1>6

\* A step that moves no instruction in the ring.
LEMMA QuietReading ==
  ASSUME Typed, Strong, Reading, BufferKept, SameReads,
         UNCHANGED <<rob, issue_ptr, commit_ptr, reg_alias_table, num_inst_commited, program>>
  PROVE  Reading'
<1>1. SameIns /\ InUse' = InUse
  BY InUseSame DEF SameIns
<1>2. \A n : HasExecuted(n) => HasExecuted(n)'
  BY <1>1, ExecutedKept
<1>3. OrderOK' /\ RenamingOK'
  BY <1>1, OrderFrame, RenamingFrame DEF Reading, Strong, BufferKept
<1>4. ReadsOK'
  BY <1>1, <1>2, ReadsFrame DEF Reading, Strong
<1> QED
  BY <1>3, <1>4 DEF Reading

\* Operands in memory do not matter.
LEMMA MemWritten ==
  ASSUME Typed, NEW s, NEW m,
         reservation_station' =
           [reservation_station EXCEPT ![s] = [reservation_station[s] EXCEPT !.mem = m]]
  PROVE  SameReads /\ SameAddrs
<1>1. ASSUME NEW x \in Stations
      PROVE  /\ reservation_station'[x].valid = reservation_station[x].valid
             /\ reservation_station'[x].ins = reservation_station[x].ins
             /\ reservation_station'[x].reg = reservation_station[x].reg
             /\ reservation_station'[x].addr = reservation_station[x].addr
  <2>1. reservation_station \in [Stations -> StationRecords]
    BY TypedFacts DEF AllStations
  <2>2. PICK e \in StationRecords : e = reservation_station[x]
    BY <2>1
  <2>3. PICK f : f = [e EXCEPT !.mem = m]
    OBVIOUS
  <2>4. f.valid = e.valid /\ f.ins = e.ins /\ f.reg = e.reg /\ f.addr = e.addr
    BY <2>3 DEF StationRecords
  <2>5. reservation_station'[x] = IF x = s THEN f ELSE e
    BY <2>1, <2>2, <2>3
  <2> QED
    BY <2>2, <2>4, <2>5
<1> QED
  BY <1>1 DEF SameReads, SameAddrs, Held

\* Most steps touch none of them.
LEMMA OtherReading ==
  ASSUME Typed, Strong, Reading,
         \/ Stalled \/ Begin \/ Decode \/ EndDecode \/ EndIssue \/ EndBroadcast
         \/ EndCommit \/ EndCompletion \/ EndPending \/ Age
         \/ \E t \in Types : DispatchNothing(t) \/ CompleteNothing(t) \/ Complete(t)
  PROVE  Reading'
<1>1. UNCHANGED <<rob, issue_ptr, commit_ptr, reg_alias_table, num_inst_commited, program,
                  reservation_station>>
  BY DEF Stalled, Begin, Decode, EndDecode, EndIssue, EndBroadcast, EndCommit, Age,
         EndCompletion, EndPending, DispatchNothing, CompleteNothing, Complete,
         stationVars, memVars, robVars, frontVars
<1>2. \/ UNCHANGED <<num_inst_fetched, decode_buffer>>
      \/ decode_buffer' = OneCycle(decode_buffer) /\ UNCHANGED num_inst_fetched
      \/ Decode
  BY DEF Stalled, Begin, EndDecode, EndIssue, EndBroadcast, EndCommit, Age,
         EndCompletion, EndPending, DispatchNothing, CompleteNothing, Complete, frontVars
<1>3. BufferKept
  BY <1>2, BufferFrame DEF Reading
<1>4. SameReads
  BY <1>1 DEF SameReads, Held
<1> QED
  BY <1>1, <1>3, <1>4, QuietReading

\* A dispatch, or an answer of any kind.
LEMMA AnswerReading ==
  ASSUME Typed, Strong, Reading, ~ ForwardsPending,
         \/ CompleteAGU \/ Pending \/ (\E id \in Ids : MemoryAnswers(id))
         \/ \E t \in Types : DispatchStalls(t)
  PROVE  Reading'
<1>1. UNCHANGED <<rob, issue_ptr, commit_ptr, reg_alias_table, num_inst_commited, program,
                  num_inst_fetched, decode_buffer>>
  BY DEF CompleteAGU, Pending, MemoryAnswers, DispatchStalls, robVars, frontVars
<1>2. BufferKept
  BY <1>1, BufferFrame DEF Reading
<1>3. CASE CompleteAGU
  <2>1. PICK s, i, v : Generated(s, i, v)
    BY <1>3, CompleteAGUGenerates
  <2>2. SameReads
    BY <2>1 DEF Generated, Settled, SameReg, SameReads, Held
  <2> QED
    BY <1>1, <1>2, <2>2, QuietReading
<1>4. CASE Pending
  <2>1. UNCHANGED reservation_station
    BY <1>4, PendingMovesOn
  <2>2. SameReads
    BY <2>1 DEF SameReads, Held
  <2> QED
    BY <1>1, <1>2, <2>2, QuietReading
<1>5. CASE \E id \in Ids : MemoryAnswers(id)
  <2>1. \/ UNCHANGED reservation_station
        \/ \E s, a : reservation_station' = [reservation_station EXCEPT
                             ![s] = AnswerOperands(@, a)]
    BY <1>5 DEF MemoryAnswers
  <2>2. CASE UNCHANGED reservation_station
    <3>1. SameReads
      BY <2>2 DEF SameReads, Held
    <3> QED
      BY <1>1, <1>2, <3>1, QuietReading
  <2>3. CASE \E s, a : reservation_station' = [reservation_station EXCEPT
                             ![s] = AnswerOperands(@, a)]
    <3>1. PICK s, a : reservation_station' = [reservation_station EXCEPT
                             ![s] = AnswerOperands(reservation_station[s], a)]
      BY <2>3
    <3>2. PICK st : st = reservation_station[s]
      OBVIOUS
    <3>3. PICK m : m = [i \in 1 .. 2 |-> IF st.addr[i] = a THEN Answered ELSE st.mem[i]]
      OBVIOUS
    <3>4. AnswerOperands(st, a) = [st EXCEPT !.mem = m]
      BY <3>3 DEF AnswerOperands
    <3>5. SameReads
      BY <3>1, <3>2, <3>4, MemWritten
    <3> QED
      BY <1>1, <1>2, <3>5, QuietReading
  <2> QED
    BY <2>1, <2>2, <2>3
<1>6. CASE \E t \in Types : DispatchStalls(t)
  <2>1. Alike
    BY <1>6, DispatchStallsStrong
  <2>2. SameReads
    BY <2>1 DEF Alike, SameReads, Held
  <2> QED
    BY <1>1, <1>2, <2>2, QuietReading
<1> QED
  BY <1>3, <1>4, <1>5, <1>6

\* dispatch frees a station.
LEMMA DispatchReading ==
  ASSUME Typed, Strong, Reading, NEW t \in Types, Dispatch(t)
  PROVE  Reading'
<1>1. UNCHANGED <<issue_ptr, commit_ptr, reg_alias_table, num_inst_commited, program,
                  num_inst_fetched, decode_buffer>>
  BY DEF Dispatch, frontVars
<1>2. BufferKept
  BY <1>1, BufferFrame DEF Reading
<1>3. CASE t = AGU
  <2>1. UNCHANGED <<reservation_station, rob>>
    BY <1>3 DEF Dispatch
  <2>2. SameReads
    BY <2>1 DEF SameReads, Held
  <2> QED
    BY <1>1, <1>2, <2>1, <2>2, QuietReading
<1>4. CASE t # AGU
  <2>1. PICK s \in Stations, k \in Slots : Freed(t, s, k)
    BY <1>4, DispatchFrees
  <2>2. SameReads
    BY <2>1 DEF Freed, SameReads, Held
  <2>3. SameIns /\ \A j \in Slots : rob[j].status = Executed => rob'[j].status = Executed
    BY <2>1 DEF Freed, SameIns, Issued, Executed
  <2>4. InUse' = InUse
    BY <1>1, InUseSame
  <2>5. \A n : HasExecuted(n) => HasExecuted(n)'
    BY <1>1, <2>3, <2>4, ExecutedKept
  <2>6. OrderOK' /\ RenamingOK'
    BY <1>1, <1>2, <2>3, OrderFrame, RenamingFrame DEF Reading, Strong, BufferKept
  <2>7. ReadsOK'
    BY <1>1, <2>2, <2>3, <2>5, ReadsFrame DEF Reading, Strong
  <2> QED
    BY <2>6, <2>7 DEF Reading
<1> QED
  BY <1>3, <1>4

\* broadcast_ins_complete: who is told reads what has just executed.
LEMMA BroadcastReading ==
  ASSUME Typed, Strong, Reading, Broadcast
  PROVE  Reading'
<1>1. PICK k : k = Head(completed_inst)
  OBVIOUS
<1>2. /\ UNCHANGED <<issue_ptr, commit_ptr, reg_alias_table, num_inst_commited, program,
                     num_inst_fetched, decode_buffer>>
      /\ completed_inst # <<>>
  BY DEF Broadcast, frontVars
<1>3. BufferKept
  BY <1>2, BufferFrame DEF Reading
<1>4. InUse' = InUse /\ InUse \subseteq Slots
  BY <1>2, InUseSame, TypedFacts
<1>5. IsBroadcast(k)
  BY <1>1, <1>2 DEF IsBroadcast
<1>6. k \in Slots /\ k \in InUse
  BY <1>5, BroadcastSlot
<1>7. /\ SameIns /\ rob'[k].status = Executed
      /\ \A j \in Slots \ {k} : rob'[j].status = rob[j].status
  <2>1. \E d : \/ rob' = [rob EXCEPT ![k].status = Executed]
               \/ rob' = [rob EXCEPT ![k].status = Executed, ![k].deps = d]
    BY <1>1 DEF Broadcast
  <2>2. PICK en \in EntryRecords : en = rob[k]
    BY <1>6, TypedFacts
  <2>3. PICK d : \/ rob' = [rob EXCEPT ![k].status = Executed]
                 \/ rob' = [rob EXCEPT ![k].status = Executed, ![k].deps = d]
    BY <2>1
  <2>4. PICK e1 : e1 = [en EXCEPT !.status = Executed]
    OBVIOUS
  <2>5. PICK e2 : e2 = [en EXCEPT !.status = Executed, !.deps = d]
    OBVIOUS
  <2>6. rob \in [Slots -> EntryRecords]
    BY TypedFacts
  <2>7. rob' = [rob EXCEPT ![k] = e1] \/ rob' = [rob EXCEPT ![k] = e2]
    BY <1>6, <2>2, <2>3, <2>4, <2>5, <2>6
  <2>8. /\ e1.ins = en.ins /\ e1.status = Executed
        /\ e2.ins = en.ins /\ e2.status = Executed
    BY <2>4, <2>5 DEF EntryRecords
  <2> QED
    BY <1>6, <2>2, <2>6, <2>7, <2>8 DEF SameIns
<1>8. \A n : HasExecuted(n) => HasExecuted(n)'
  BY <1>2, <1>4, <1>6, <1>7, ExecutedKept
<1>9. OrderOK' /\ RenamingOK'
  BY <1>2, <1>3, <1>7, OrderFrame, RenamingFrame DEF Reading, Strong, BufferKept
<1>10. CASE rob[k].deps = <<>>
  <2>1. SameReads
    BY <1>1, <1>10 DEF Broadcast, SameReads, Held
  <2>2. ReadsOK'
    BY <1>2, <1>7, <1>8, <2>1, ReadsFrame DEF Reading, Strong
  <2> QED
    BY <1>9, <2>2 DEF Reading
<1>11. CASE rob[k].deps # <<>>
  <2>1. PICK s \in Stations, r \in Regs : Told(k, s, r)
    BY <1>1, <1>11, BroadcastTells
  <2>2. ASSUME NEW x \in Stations, Held(x)',
               NEW q \in program[reservation_station'[x].ins].rr,
               NEW i \in LastWriter(reservation_station'[x].ins, q)
        PROVE  IF reservation_station'[x].reg[q] = -1 THEN HasExecuted(i)'
               ELSE rob'[reservation_station'[x].reg[q]].ins = i
    <3>1. Held(x) /\ reservation_station'[x].ins = reservation_station[x].ins
      BY <2>1, <2>2 DEF Told, Held
    <3>2. IF reservation_station[x].reg[q] = -1 THEN HasExecuted(i)
          ELSE rob[reservation_station[x].reg[q]].ins = i
      BY <2>2, <3>1 DEF Reading, ReadsOK
    <3>3. q \in Regs
      BY <2>2, <3>1, HeldIns DEF Strong
    <3>4. CASE reservation_station'[x].reg[q] = reservation_station[x].reg[q]
      <4>1. CASE reservation_station[x].reg[q] = -1
        BY <1>8, <3>2, <3>4, <4>1
      <4>2. CASE reservation_station[x].reg[q] # -1
        <5>1. RegistersOK
          BY DEF Strong
        <5>2. reservation_station[x].reg[q] \in Slots
          BY <1>4, <3>1, <3>3, <4>2, <5>1 DEF RegistersOK
        <5> QED
          BY <1>7, <3>2, <3>4, <4>2, <5>2 DEF SameIns
      <4> QED
        BY <4>1, <4>2
    <3>5. CASE reservation_station'[x].reg[q] # reservation_station[x].reg[q]
      <4>1. x = s
        BY <2>1, <3>5 DEF Told
      <4>2. PICK f \in [Regs -> Slots \union {-1, -2}] : f = reservation_station[s].reg
        <5>1. PICK e \in StationRecords : e = reservation_station[s]
          BY TypedFacts DEF AllStations
        <5> QED
          BY <5>1, StationFields
      <4>3. reservation_station'[s].reg = [f EXCEPT ![r] = -1]
        BY <2>1, <4>2 DEF Told
      <4>4. q = r /\ reservation_station'[x].reg[q] = -1
        BY <3>3, <3>5, <4>1, <4>2, <4>3
      <4>5. reservation_station[x].reg[q] = k
        BY <2>1, <4>1, <4>4 DEF Told
      <4>6. k # -1
        BY <1>6, RobSizeAssumption DEF Slots
      <4>7. rob[k].ins = i
        BY <3>2, <4>5, <4>6
      <4>8. HasExecuted(i)'
        BY <1>4, <1>6, <1>7, <4>7 DEF HasExecuted, SameIns
      <4> QED
        BY <4>4, <4>8
    <3> QED
      BY <3>4, <3>5
  <2>3. \A n, q : LastWriter(n, q)' = LastWriter(n, q)
    BY <1>2 DEF LastWriter
  <2>4. ReadsOK'
    BY <1>2, <2>2, <2>3 DEF ReadsOK
  <2> QED
    BY <1>9, <2>4 DEF Reading
<1> QED
  BY <1>10, <1>11

\* The oldest instruction is the one that commits.
LEMMA CommitReading ==
  ASSUME Typed, Strong, Reading, Commit
  PROVE  Reading'
<1>1. PICK k : k = commit_ptr
  OBVIOUS
<1>2. PICK c : c = num_inst_commited
  OBVIOUS
<1>3. /\ ~ is_empty /\ do_commit
      /\ rob' = [rob EXCEPT ![k].status = Committed]
      /\ reg_alias_table' = WithoutSlot(k)
      /\ num_inst_commited' = c + 1
      /\ UNCHANGED <<reservation_station, program, num_inst_fetched, decode_buffer>>
  BY <1>1, <1>2 DEF Commit, CanCommit, stationVars, frontVars
<1>4. k \in Slots /\ k \in InUse /\ InUse' = InUse \ {k} /\ InUse \subseteq Slots
  BY <1>1, <1>3, TypedFacts, InUseCommit
<1>5. /\ SameIns /\ \A j \in Slots \ {k} : rob'[j].status = rob[j].status
  <2>1. PICK en \in EntryRecords : en = rob[k]
    BY <1>4, TypedFacts
  <2>2. PICK e : e = [en EXCEPT !.status = Committed]
    OBVIOUS
  <2>3. rob' = [rob EXCEPT ![k] = e]
    BY <1>3, <2>1, <2>2
  <2>4. e.ins = en.ins
    BY <2>2 DEF EntryRecords
  <2>5. rob \in [Slots -> EntryRecords]
    BY TypedFacts
  <2> QED
    BY <1>4, <2>1, <2>3, <2>4, <2>5 DEF SameIns
<1>6. c \in Nat
  BY <1>2, Numbers
<1> DEFINE z == SizeOf(issue_ptr, commit_ptr)
           z1 == SizeOf(issue_ptr', commit_ptr')
<1>7. /\ z \in 1 .. ROB_Size /\ z1 = z - 1
      /\ \A i \in 1 .. z - 1 :
              /\ SlotAt(commit_ptr', i) = SlotAt(commit_ptr, i + 1)
              /\ SlotAt(commit_ptr, i + 1) \in Slots
  BY <1>3, TypedFacts, CommitMoves
<1>8. \A i \in 1 .. z : rob[SlotAt(commit_ptr, i)].ins = c + i
  BY <1>2 DEF Reading, OrderOK
<1>9. rob[k].ins = c + 1
  <2>1. SlotAt(commit_ptr, 1) = k
    <3>1. 1 \in 1 .. ROB_Size /\ ROB_Size \in Nat /\ ROB_Size > 2
      BY RobSizeAssumption
    <3> QED
      BY <1>1, <1>4, <3>1, SlotsAt DEF Slots
  <2>2. 1 \in 1 .. z
    BY <1>7, RobSizeAssumption
  <2> QED
    BY <1>8, <2>1, <2>2
<1>10. BufferKept
  BY <1>3, BufferFrame DEF Reading
<1>11. OrderOK'
  <2>1. ASSUME NEW i \in 1 .. z1
        PROVE  rob'[SlotAt(commit_ptr', i)].ins = (c + 1) + i
    <3>1. z \in Nat
      BY <1>7, RobSizeAssumption
    <3> HIDE DEF z, z1
    <3>2. i \in 1 .. z - 1 /\ i + 1 \in 1 .. z /\ c + (i + 1) = (c + 1) + i
      BY <1>6, <1>7, <3>1
    <3>3. /\ rob'[SlotAt(commit_ptr', i)].ins = rob[SlotAt(commit_ptr, i + 1)].ins
      BY <1>5, <1>7, <3>2 DEF SameIns
    <3> QED
      BY <1>8, <3>2, <3>3
  <2> QED
    BY <1>3, <1>10, <2>1 DEF OrderOK, BufferKept
<1>12. RenamingOK'
  <2>1. ASSUME NEW r \in Regs, NEW i \in LastWriter(IssuedSoFar + 1, r)
        PROVE  IF reg_alias_table'[r] = -1 THEN i <= c + 1
               ELSE rob'[reg_alias_table'[r]].ins = i
    <3>1. IF reg_alias_table[r] = -1 THEN i <= c ELSE rob[reg_alias_table[r]].ins = i
      BY <1>2, <2>1 DEF Reading, RenamingOK
    <3>2. i \in Int
      BY DEF LastWriter
    <3>3. reg_alias_table'[r] = IF reg_alias_table[r] = k THEN -1 ELSE reg_alias_table[r]
      BY <1>3 DEF WithoutSlot
    <3>4. CASE reg_alias_table[r] = k
      <4>1. k # -1
        BY <1>4, RobSizeAssumption DEF Slots
      <4>2. i = c + 1
        BY <1>9, <3>1, <3>4, <4>1
      <4> QED
        BY <1>6, <3>3, <3>4, <4>2
    <3>5. CASE reg_alias_table[r] # k /\ reg_alias_table[r] = -1
      BY <1>6, <3>1, <3>2, <3>3, <3>5
    <3>6. CASE reg_alias_table[r] # k /\ reg_alias_table[r] # -1
      <4>1. reg_alias_table[r] \in Slots
        BY <1>4, <3>6 DEF Strong, RenamedOK
      <4> QED
        BY <1>5, <3>1, <3>3, <3>6, <4>1 DEF SameIns
    <3> QED
      BY <3>4, <3>5, <3>6
  <2>2. IssuedSoFar' = IssuedSoFar
    BY <1>10 DEF BufferKept
  <2>3. \A r \in Regs : LastWriter(IssuedSoFar + 1, r)' = LastWriter(IssuedSoFar + 1, r)
    BY <1>3, <2>2 DEF LastWriter
  <2> QED
    BY <1>3, <2>1, <2>3 DEF RenamingOK
<1>13. ReadsOK'
  <2>1. SameReads
    BY <1>3 DEF SameReads, Held
  <2>2. ASSUME NEW n, n \in Int, HasExecuted(n)
        PROVE  HasExecuted(n)'
    <3>1. CASE n <= c
      BY <1>3, <1>6, <2>2, <3>1 DEF HasExecuted
    <3>2. CASE ~ (n <= c)
      <4>1. PICK j \in InUse : rob[j].ins = n /\ rob[j].status = Executed
        BY <1>2, <2>2, <3>2 DEF HasExecuted
      <4>2. CASE j = k
        BY <1>3, <1>6, <1>9, <2>2, <4>1, <4>2 DEF HasExecuted
      <4>3. CASE j # k
        BY <1>4, <1>5, <4>1, <4>3 DEF HasExecuted, SameIns
      <4> QED
        BY <4>2, <4>3
    <3> QED
      BY <3>1, <3>2
  <2>3. \A n \in Int : HasExecuted(n) => HasExecuted(n)'
    BY <2>2
  <2> QED
    BY <1>3, <1>5, <2>1, <2>3, ReadsFrame DEF Reading, Strong
<1> QED
  BY <1>11, <1>12, <1>13 DEF Reading

\* issue_instruction: the new station waits for the last writer, by the alias table.
LEMMA IssueReading ==
  ASSUME Typed, Strong, Reading, Issue
  PROVE  Reading'
<1>1. PICK n, s, k : /\ Placed(n, s, k) /\ Issues(n, s)
                     /\ k = NextSlot /\ has_size /\ decode_buffer # <<>>
  BY IssuePlaces
<1>2. /\ n \in 1 .. Len(program) /\ s \in Stations /\ k \in Slots
      /\ ~ Held(s) /\ k \notin InUse /\ InUse' = InUse \union {k}
      /\ reservation_station'[s] = NewStation(n)
      /\ \A x \in Stations \ {s} : reservation_station'[x] = reservation_station[x]
      /\ NewStation(n).ins = n
      /\ NewStation(n).reg = [r \in Regs |-> Producer(program[n], r)]
      /\ rob'[k] = [ins |-> n, status |-> Issued, deps |-> <<>>]
      /\ \A j \in Slots \ {k} : rob'[j].ins = rob[j].ins /\ rob'[j].status = rob[j].status
      /\ reg_alias_table' = [r \in Regs |-> IF r \in program[n].wr THEN k ELSE reg_alias_table[r]]
  BY <1>1 DEF Placed
<1>3. PICK c : c = num_inst_commited
  OBVIOUS
<1>4. PICK p : p = IssuedSoFar
  OBVIOUS
<1>5. /\ UNCHANGED <<program, num_inst_fetched, num_inst_commited>>
      /\ decode_buffer' = Tail(decode_buffer)
      /\ n = Head(decode_buffer).ins
      /\ issue_ptr' = NextSlot /\ commit_ptr' = IF is_empty THEN 0 ELSE commit_ptr
  BY <1>1 DEF Issue, Issues
<1>6. InUse \subseteq Slots /\ RingOK
  BY TypedFacts
<1> DEFINE q == decode_buffer
           m == Len(q)
<1>7. /\ q \in Seq(Decoding) /\ m \in Nat /\ num_inst_fetched \in Nat
      /\ p \in Int /\ c \in Nat /\ c + SizeOf(issue_ptr, commit_ptr) = p
  BY <1>3, <1>4, Rings, Numbers
<1>8. \A i \in DOMAIN q : q[i].ins = p + i
  BY <1>4 DEF Reading, OrderOK
<1>9. /\ n = p + 1 /\ m \in Nat \ {0}
      /\ Len(decode_buffer') = m - 1 /\ DOMAIN decode_buffer' = 1 .. m - 1
      /\ \A i \in 1 .. m - 1 : decode_buffer'[i] = q[i + 1] /\ i + 1 \in DOMAIN q
  <2>1. q \in Seq(Decoding) /\ q # <<>> /\ decode_buffer' = Tail(q) /\ n = Head(q).ins
    BY <1>1, <1>5, <1>7
  <2> HIDE DEF q
  <2>2. 1 \in DOMAIN q /\ Head(q) = q[1] /\ m \in Nat \ {0}
    BY <2>1
  <2>3. /\ Len(Tail(q)) = m - 1 /\ DOMAIN Tail(q) = 1 .. m - 1
        /\ \A i \in 1 .. m - 1 : Tail(q)[i] = q[i + 1] /\ i + 1 \in DOMAIN q
    BY <2>1
  <2> QED
    BY <1>8, <2>1, <2>2, <2>3
<1>10. IssuedSoFar' = p + 1
  <2>1. Len(decode_buffer') = m - 1 /\ m \in Nat
    BY <1>9
  <2>2. num_inst_fetched' = num_inst_fetched /\ num_inst_fetched \in Nat
    BY <1>5, <1>7
  <2>3. p = num_inst_fetched - m
    BY <1>4 DEF IssuedSoFar
  <2>4. IssuedSoFar' = num_inst_fetched' - Len(decode_buffer')
    BY DEF IssuedSoFar
  <2> HIDE DEF m
  <2> QED
    BY <2>1, <2>2, <2>3, <2>4
<1>11. \A j \in InUse : j \in Slots \ {k} /\ rob'[j].ins = rob[j].ins /\ rob'[j].status = rob[j].status
  BY <1>2, <1>6
<1>12. OrderOK'
  <2>7. PICK z : z = SizeOf(issue_ptr, commit_ptr)
    OBVIOUS
  <2>6. PICK z1 : z1 = SizeOf(issue_ptr', commit_ptr')
    OBVIOUS
  <2>1. /\ z1 = z + 1
        /\ SlotAt(commit_ptr', z1) = k
        /\ \A i \in 1 .. z :
             /\ SlotAt(commit_ptr', i) = SlotAt(commit_ptr, i)
             /\ SlotAt(commit_ptr, i) \in Slots \ {k}
    BY <1>1, <1>5, <1>6, <2>6, <2>7, IssueMoves
  <2>2. \A i \in 1 .. z : rob[SlotAt(commit_ptr, i)].ins = c + i
    BY <1>3, <2>7 DEF Reading, OrderOK
  <2>3. z \in Nat /\ c + z = p
    <3>1. z \in 0 .. ROB_Size /\ ROB_Size \in Nat
      BY <2>7, Rings
    <3> QED
      BY <1>7, <2>7, <3>1
  <2>4. ASSUME NEW i \in 1 .. z1
        PROVE  rob'[SlotAt(commit_ptr', i)].ins = c + i
    <3>1. CASE i = z1
      <4>1. rob'[k].ins = n
        BY <1>2
      <4>2. n = c + z1
        BY <1>7, <1>9, <2>1, <2>3
      <4> QED
        BY <2>1, <3>1, <4>1, <4>2
    <3>2. CASE i # z1
      <4>1. i \in 1 .. z
        BY <2>1, <2>3, <3>2
      <4> QED
        BY <1>2, <2>1, <2>2, <4>1
    <3> QED
      BY <3>1, <3>2
  <2>5. \A i \in DOMAIN decode_buffer' : decode_buffer'[i].ins = (p + 1) + i
    <3>1. ASSUME NEW i \in 1 .. m - 1
          PROVE  decode_buffer'[i].ins = (p + 1) + i
      <4>1. decode_buffer'[i].ins = p + (i + 1)
        BY <1>8, <1>9
      <4> QED
        BY <1>7, <4>1
    <3> QED
      BY <1>9, <3>1
  <2> QED
    BY <1>3, <1>5, <1>10, <2>4, <2>5, <2>6 DEF OrderOK
<1>13. \A r \in Regs : \A i \in LastWriter(n, r) :
         IF reg_alias_table[r] = -1 THEN i <= c ELSE rob[reg_alias_table[r]].ins = i
  BY <1>3, <1>4, <1>9 DEF Reading, RenamingOK
<1>14. \A r \in Regs : reg_alias_table[r] # -1 => reg_alias_table[r] \in InUse
  BY DEF Strong, RenamedOK
<1>15. n \in Nat
  BY <1>2
<1>16. k # -1
  BY <1>2, RobSizeAssumption DEF Slots
<1>17. RenamingOK'
  <2>1. ASSUME NEW r \in Regs, NEW i \in LastWriter(n + 1, r)
        PROVE  IF reg_alias_table'[r] = -1 THEN i <= c
               ELSE rob'[reg_alias_table'[r]].ins = i
    <3>1. /\ i \in 1 .. n /\ r \in program[i].wr
          /\ \A j \in i + 1 .. n : r \notin program[j].wr
      <4>1. (n + 1) - 1 = n
        BY <1>15
      <4> QED
        BY <2>1, <4>1 DEF LastWriter
    <3>2. CASE r \in program[n].wr
      <4>1. i = n
        BY <1>15, <3>1, <3>2
      <4> QED
        BY <1>2, <1>16, <3>2, <4>1
    <3>3. CASE r \notin program[n].wr
      <4>1. i \in LastWriter(n, r)
        BY <1>15, <3>1, <3>3 DEF LastWriter
      <4>2. reg_alias_table'[r] = reg_alias_table[r]
        BY <1>2, <3>3
      <4> QED
        BY <1>11, <1>13, <1>14, <4>1, <4>2
    <3> QED
      BY <3>2, <3>3
  <2>2. \A r \in Regs : LastWriter(IssuedSoFar + 1, r)' = LastWriter(n + 1, r)
    BY <1>5, <1>9, <1>10 DEF LastWriter
  <2> QED
    BY <1>3, <1>5, <2>1, <2>2 DEF RenamingOK
<1>18. \A i : HasExecuted(i) => HasExecuted(i)'
  BY <1>2, <1>5, <1>11 DEF HasExecuted
<1>19. ReadsOK'
  <2>1. ASSUME NEW r \in program[n].rr, NEW i \in LastWriter(n, r)
        PROVE  IF NewStation(n).reg[r] = -1 THEN HasExecuted(i)'
               ELSE rob'[NewStation(n).reg[r]].ins = i
    <3>1. r \in Regs
      BY <1>2, Instruction DEF Typed, CoreInv
    <3>2. NewStation(n).reg[r] = IF reg_alias_table[r] = -1 THEN -1
            ELSE IF rob[reg_alias_table[r]].status = Executed THEN -1
            ELSE reg_alias_table[r]
      BY <1>2, <3>1 DEF Producer
    <3>3. IF reg_alias_table[r] = -1 THEN i <= c ELSE rob[reg_alias_table[r]].ins = i
      BY <1>13, <3>1
    <3>4. CASE reg_alias_table[r] = -1
      BY <1>3, <1>5, <3>2, <3>3, <3>4 DEF HasExecuted
    <3>5. CASE reg_alias_table[r] # -1
      <4>1. reg_alias_table[r] \in InUse
        BY <1>14, <3>1, <3>5
      <4>2. CASE rob[reg_alias_table[r]].status = Executed
        <5>1. HasExecuted(i)
          BY <3>3, <3>5, <4>1, <4>2 DEF HasExecuted
        <5> QED
          BY <1>18, <3>2, <3>5, <4>2, <5>1
      <4>3. CASE rob[reg_alias_table[r]].status # Executed
        BY <1>11, <3>2, <3>3, <3>5, <4>1, <4>3
      <4> QED
        BY <4>2, <4>3
    <3> QED
      BY <3>4, <3>5
  <2>2. ASSUME NEW x \in Stations \ {s}, Held(x),
               NEW r \in program[reservation_station[x].ins].rr,
               NEW i \in LastWriter(reservation_station[x].ins, r)
        PROVE  IF reservation_station[x].reg[r] = -1 THEN HasExecuted(i)'
               ELSE rob'[reservation_station[x].reg[r]].ins = i
    <3>1. IF reservation_station[x].reg[r] = -1 THEN HasExecuted(i)
          ELSE rob[reservation_station[x].reg[r]].ins = i
      BY <2>2 DEF Reading, ReadsOK
    <3>2. r \in Regs
      BY <2>2, HeldIns DEF Strong
    <3>3. RegistersOK
      BY DEF Strong
    <3>4. reservation_station[x].reg[r] # -1 => reservation_station[x].reg[r] \in InUse
      BY <2>2, <3>2, <3>3 DEF RegistersOK
    <3> QED
      BY <1>11, <1>18, <3>1, <3>4
  <2>3. \A j, r : LastWriter(j, r)' = LastWriter(j, r)
    BY <1>5 DEF LastWriter
  <2>4. ASSUME NEW x \in Stations, Held(x)',
               NEW r \in program[reservation_station'[x].ins].rr,
               NEW i \in LastWriter(reservation_station'[x].ins, r)
        PROVE  IF reservation_station'[x].reg[r] = -1 THEN HasExecuted(i)'
               ELSE rob'[reservation_station'[x].reg[r]].ins = i
    <3>1. CASE x = s
      <4>1. reservation_station'[x].ins = n /\ reservation_station'[x].reg = NewStation(n).reg
        BY <1>2, <3>1
      <4> QED
        BY <2>1, <2>4, <4>1
    <3>2. CASE x # s
      <4>1. x \in Stations \ {s} /\ reservation_station'[x] = reservation_station[x]
        BY <1>2, <3>2
      <4>2. Held(x)
        BY <2>4, <4>1 DEF Held
      <4> QED
        BY <2>2, <2>4, <4>1, <4>2
    <3> QED
      BY <3>1, <3>2
  <2> QED
    BY <1>5, <2>3, <2>4 DEF ReadsOK
<1> QED
  BY <1>12, <1>17, <1>19 DEF Reading

\* The order, the renaming and the reads hold at the start.
LEMMA ReadingInit ==
  ASSUME Init
  PROVE  Reading
<1>1. /\ decode_buffer = <<>> /\ num_inst_fetched = 0 /\ num_inst_commited = 0
      /\ reg_alias_table = [r \in Regs |-> -1]
      /\ \A s \in Stations : ~ Held(s)
  BY DEF Init, EmptyStation, Held
<1>2. SizeOf(issue_ptr, commit_ptr) = 0
  BY DEF Init, RobInit, SizeOf
<1>3. OrderOK
  BY <1>1, <1>2 DEF OrderOK
<1>4. IssuedSoFar + 1 = 1
  BY <1>1 DEF IssuedSoFar
<1>5. \A r : LastWriter(1, r) = {}
  BY DEF LastWriter
<1>6. RenamingOK
  BY <1>4, <1>5 DEF RenamingOK
<1>7. ReadsOK
  BY <1>1 DEF ReadsOK
<1> QED
  BY <1>3, <1>6, <1>7 DEF Reading

\* Every step keeps them, unless a store is forwarded to a pending load.
LEMMA ReadingStep ==
  ASSUME Typed, Strong, Reading, ~ ForwardsPending, [Next]_vars
  PROVE  Reading'
<1>1. CASE UNCHANGED vars
  <2>1. UNCHANGED <<rob, issue_ptr, commit_ptr, reg_alias_table, num_inst_commited, program,
                    reservation_station, num_inst_fetched, decode_buffer>>
    BY <1>1 DEF vars, stationVars, memVars, robVars, frontVars
  <2>2. SameReads
    BY <2>1 DEF SameReads, Held
  <2>3. BufferKept
    BY <2>1, BufferFrame DEF Reading
  <2> QED
    BY <2>1, <2>2, <2>3, QuietReading
<1>2. CASE Next
  <2>1. \/ Stalled \/ Begin \/ Decode \/ EndDecode \/ EndIssue \/ EndBroadcast
           \/ EndCommit \/ EndCompletion \/ EndPending \/ Age
           \/ (\E t \in Types : DispatchNothing(t) \/ CompleteNothing(t) \/ Complete(t))
        \/ CompleteAGU \/ Pending \/ (\E id \in Ids : MemoryAnswers(id))
           \/ (\E t \in Types : DispatchStalls(t))
        \/ Issue \/ Broadcast \/ Commit
        \/ \E t \in Types : Dispatch(t)
    BY <1>2 DEF Next, Core, Answer
  <2> QED
    BY <2>1, OtherReading, AnswerReading, IssueReading, BroadcastReading, CommitReading,
       DispatchReading
<1> QED
  BY <1>1, <1>2

\* The reads are those of the last writer, which no station holds any more: an entry of
\* the ring that is in a station is issued, and instructions have an entry each.
LEMMA ReadingImplies ==
  ASSUME Typed, Strong, Reading
  PROVE  ReadsLastWrite
<1>1. ASSUME NEW n, HasExecuted(n), InStation(n)
      PROVE  FALSE
  <2>1. PICK s \in Stations : Held(s) /\ reservation_station[s].ins = n
    BY <1>1 DEF InStation, Held
  <2> DEFINE k == reservation_station[s].rob
  <2>2. k \in InUse /\ rob[k].status = Issued /\ rob[k].ins = n
    BY <2>1 DEF Strong, HoldersOK
  <2>3. RingOK
    BY DEF Typed, CoreInv
  <2>4. /\ num_inst_commited \in Nat /\ SizeOf(issue_ptr, commit_ptr) \in Nat
    BY <2>3, SizeRange, RobSizeAssumption DEF RingOK, Typed, Counted
  <2>5. \A x \in InUse : \E i \in 1 .. SizeOf(issue_ptr, commit_ptr) :
          x = SlotAt(commit_ptr, i) /\ rob[x].ins = num_inst_commited + i
    BY <2>3, InUseIs DEF Reading, OrderOK
  <2>6. ~ (n <= num_inst_commited)
    BY <2>2, <2>4, <2>5
  <2>7. PICK x \in InUse : rob[x].ins = n /\ rob[x].status = Executed
    BY <1>1, <2>6 DEF HasExecuted
  <2>8. x = k
    BY <2>2, <2>4, <2>5, <2>7
  <2> QED
    BY <2>2, <2>7, <2>8 DEF Issued, Executed
<1>2. \A n : HasExecuted(n) => ~ InStation(n)
  BY <1>1
<1> QED
  BY <1>2 DEF Reading, ReadsOK, ReadsLastWrite, Held

\* The invariant holds as long as nothing is forwarded to a pending load.
LEMMA CoreInvariant ==
  ASSUME DistinctOperands
  PROVE  Spec /\ [](~ ForwardsPending) => [](Typed /\ Strong /\ Reading)
<1>1. Init => Typed /\ Strong /\ Reading
  BY TypedInit, StrongInit, ReadingInit
<1>2. Typed /\ Strong /\ Reading /\ ~ ForwardsPending /\ [Next]_vars
        => (Typed /\ Strong /\ Reading)'
  BY TypedStep, StrongStep, ReadingStep
<1> QED
  BY <1>1, <1>2, PTL DEF Spec

\* An instruction is in one place: a station holds it from its issue to its dispatch
\* (add_to_rs, dispatch), then one unit or the list of those completed, and no unit works
\* for a slot that has been given to another instruction.  It holds as long as nothing is
\* forwarded to a pending load: update_load_store_queue then makes the instruction ready
\* and may leave the load where it is.
THEOREM CorePlaces ==
  ASSUME DistinctOperands
  PROVE  Spec /\ [](~ ForwardsPending) => []SlotsAgree
<1>1. Typed /\ Strong /\ Reading => SlotsAgree
  BY StrongAgrees
<1>2. Spec /\ [](~ ForwardsPending) => [](Typed /\ Strong /\ Reading)
  BY CoreInvariant
<1> QED
  BY <1>1, <1>2, PTL

\* What an instruction waits for is on its way and wakes it up once: a register is told
\* of by broadcast_ins_complete, an operand has its turn in the AGU or is in one of the
\* two queues of loads, and an instruction that waits for nothing is ready, once.
THEOREM CoreWakeUps ==
  ASSUME DistinctOperands
  PROVE  Spec /\ [](~ ForwardsPending) => []NoLostWakeUp
<1>1. Typed /\ Strong /\ Reading => NoLostWakeUp
  BY StrongWakes
<1>2. Spec /\ [](~ ForwardsPending) => [](Typed /\ Strong /\ Reading)
  BY CoreInvariant
<1> QED
  BY <1>1, <1>2, PTL

\* Out of order as they are dispatched, instructions read a register after its last older
\* writer has executed and left its station: the alias table of add_to_rs and add_to_rob names that writer.
THEOREM CoreReads ==
  ASSUME DistinctOperands
  PROVE  Spec /\ [](~ ForwardsPending) => []ReadsLastWrite
<1>1. Typed /\ Strong /\ Reading => ReadsLastWrite
  BY ReadingImplies
<1>2. Spec /\ [](~ ForwardsPending) => [](Typed /\ Strong /\ Reading)
  BY CoreInvariant
<1> QED
  BY <1>1, <1>2, PTL
===============================================================================
