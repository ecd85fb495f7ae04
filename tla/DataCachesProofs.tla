--------------------------- MODULE DataCachesProofs ---------------------------
(***************************************************************************)
(* Theorems about DataCaches, for every number of cores, every workload    *)
(* and all sizes of caches and buffers: a load or store that the caches    *)
(* have taken is in one place, whatever the loops that erase while they    *)
(* iterate leave out; every variable keeps its type, with the buffers that *)
(* have a limit within it; and whoever waits below L1 is woken, as long as *)
(* update_l3_mshr leaves out no completed miss.                            *)
(*                                                                         *)
(* A step moves a load or store from one of three sequences of its core to *)
(* another (walks, misses with those behind them, answers), or changes     *)
(* entries without touching their ids.  The first part is about such       *)
(* sequences, the second goes through the steps.                           *)
(*                                                                         *)
(* Then the types.  The buffer of L2 has no limit; what is in it, what L1  *)
(* has still to send it and what is walking are, together, at most what    *)
(* the core has asked for.                                                 *)
(*                                                                         *)
(* The last part follows one miss through L1, L2 and L3: it has its turn   *)
(* in L2 still to come or is known to a miss of L3 that is open.  Each     *)
(* level is a sequence, about which lemmas say what is added and taken     *)
(* off; then come the steps.                                               *)
(***************************************************************************)
EXTENDS DataCaches, FiniteSetTheorems, SequenceTheorems, WellFoundedInduction,
        TLAPS

Walk == [id : Nat, line : Lines, write : BOOLEAN, wait : Int]
Miss == [id : Nat, line : Lines, write : BOOLEAN, at1 : Int, done : Int,
         dest : Seq(Nat)]

Walks  == Seq(Walk)
Misses == Seq(Miss)

\* Where id is in each of the three sequences.
AtWalk(w, i, id) == i \in DOMAIN w /\ w[i].id = id
AtMiss(m, i, id) == i \in DOMAIN m /\ m[i].id = id
Behind(m, i, j, id) ==
  i \in DOMAIN m /\ j \in DOMAIN m[i].dest /\ m[i].dest[j] = id
AtAnswer(a, i, id) == i \in DOMAIN a /\ a[i] = id

NoWalk(w, id) == \A i : ~ AtWalk(w, i, id)
OneWalk(w, id) == \E i : AtWalk(w, i, id) /\ \A k : AtWalk(w, k, id) => k = i

NoMiss(m, id) == (\A i : ~ AtMiss(m, i, id)) /\ \A i, j : ~ Behind(m, i, j, id)
OneMiss(m, id) ==
  \/ /\ \E i : AtMiss(m, i, id) /\ \A k : AtMiss(m, k, id) => k = i
     /\ \A i, j : ~ Behind(m, i, j, id)
  \/ /\ \A i : ~ AtMiss(m, i, id)
     /\ \E i, j : /\ Behind(m, i, j, id)
                  /\ \A k, l : Behind(m, k, l, id) => k = i /\ l = j

NoAnswer(a, id) == \A i : ~ AtAnswer(a, i, id)
OneAnswer(a, id) == \E i : AtAnswer(a, i, id) /\ \A k : AtAnswer(a, k, id) => k = i

None(w, m, a, id) == NoWalk(w, id) /\ NoMiss(m, id) /\ NoAnswer(a, id)

One(w, m, a, id) ==
  \/ OneWalk(w, id) /\ NoMiss(m, id) /\ NoAnswer(a, id)
  \/ NoWalk(w, id) /\ OneMiss(m, id) /\ NoAnswer(a, id)
  \/ NoWalk(w, id) /\ NoMiss(m, id) /\ OneAnswer(a, id)

\* Those in T are in one place, the others in none.
KeptIn(w, m, a, T) ==
  \A id \in Nat : IF id \in T THEN One(w, m, a, id) ELSE None(w, m, a, id)

-------------------------------------------------------------------------------
(***************************************************************************)
(* Sequences.                                                              *)
(***************************************************************************)
LEMMA Appended ==
  ASSUME NEW S, NEW s \in Seq(S), NEW e \in S
  PROVE  /\ Append(s, e) \in Seq(S)
         /\ DOMAIN Append(s, e) = 1 .. Len(s) + 1 /\ DOMAIN s = 1 .. Len(s)
         /\ Len(s) \in Nat
         /\ Append(s, e)[Len(s) + 1] = e
         /\ \A i \in DOMAIN s : Append(s, e)[i] = s[i]
OBVIOUS

LEMMA Changed ==
  ASSUME NEW S, NEW s \in Seq(S), NEW n \in DOMAIN s, NEW e \in S
  PROVE  [s EXCEPT ![n] = e] \in Seq(S)
OBVIOUS

\* What is at i of RemoveAt(s, n).
Back(n, i) == IF i < n THEN i ELSE i + 1

LEMMA Removed ==
  ASSUME NEW S, NEW s \in Seq(S), NEW n \in DOMAIN s
  PROVE  /\ RemoveAt(s, n) \in Seq(S)
         /\ Len(s) \in Nat /\ n \in 1 .. Len(s) /\ DOMAIN s = 1 .. Len(s)
         /\ DOMAIN RemoveAt(s, n) = 1 .. Len(s) - 1
         /\ \A i \in 1 .. Len(s) - 1 : RemoveAt(s, n)[i] = s[Back(n, i)]
<1>1. Len(s) \in Nat /\ n \in 1 .. Len(s) /\ DOMAIN s = 1 .. Len(s)
  OBVIOUS
<1> DEFINE l == SubSeq(s, 1, n - 1)
           r == SubSeq(s, n + 1, Len(s))
<1>2. l \in Seq(S) /\ Len(l) = n - 1 /\ \A i \in 1 .. n - 1 : l[i] = s[i]
  BY <1>1
<1>3. /\ r \in Seq(S) /\ Len(r) = Len(s) - n
      /\ \A i \in 1 .. Len(s) - n : r[i] = s[n + i]
  BY <1>1
<1>4. RemoveAt(s, n) = l \o r
  BY DEF RemoveAt
<1> HIDE DEF l, r
<1>5. /\ l \o r \in Seq(S) /\ Len(l \o r) = Len(s) - 1
      /\ DOMAIN (l \o r) = 1 .. Len(s) - 1
  <2>1. l \o r \in Seq(S) /\ Len(l \o r) = Len(l) + Len(r)
    BY <1>2, <1>3, ConcatProperties
  <2>2. Len(l) + Len(r) = Len(s) - 1
    BY <1>1, <1>2, <1>3
  <2> QED
    BY <2>1, <2>2
<1>6. ASSUME NEW i \in 1 .. Len(s) - 1
      PROVE  (l \o r)[i] = s[Back(n, i)]
  <2>1. CASE i < n
    <3>1. (l \o r)[i] = l[i]
      BY <1>1, <1>2, <1>3, <2>1
    <3> QED
      BY <1>1, <1>2, <2>1, <3>1 DEF Back
  <2>2. CASE ~ (i < n)
    <3>1. (l \o r)[i] = r[i - (n - 1)]
      BY <1>1, <1>2, <1>3, <2>2
    <3>2. i - (n - 1) \in 1 .. Len(s) - n /\ n + (i - (n - 1)) = i + 1
      BY <1>1, <2>2
    <3>3. r[i - (n - 1)] = s[n + (i - (n - 1))]
      BY <1>3, <3>2
    <3> QED
      BY <2>2, <3>1, <3>2, <3>3 DEF Back
  <2> QED
    BY <2>1, <2>2
<1> QED
  BY <1>1, <1>4, <1>5, <1>6

\* An element other than the removed one is somewhere in RemoveAt(s, n), once.
LEMMA BackOnto ==
  ASSUME NEW k \in Nat, NEW n \in 1 .. k
  PROVE  /\ \A i \in 1 .. k - 1 : Back(n, i) \in (1 .. k) \ {n}
         /\ \A i, j \in 1 .. k - 1 : Back(n, i) = Back(n, j) => i = j
         /\ \A l \in (1 .. k) \ {n} : \E i \in 1 .. k - 1 : Back(n, i) = l
<1>1. ASSUME NEW l \in (1 .. k) \ {n}
      PROVE  \E i \in 1 .. k - 1 : Back(n, i) = l
  <2>1. CASE l < n
    BY <2>1 DEF Back
  <2>2. CASE ~ (l < n)
    <3>1. l - 1 \in 1 .. k - 1 /\ Back(n, l - 1) = l
      BY <2>2 DEF Back
    <3> QED
      BY <3>1
  <2> QED
    BY <2>1, <2>2
<1> QED
  BY <1>1 DEF Back

-------------------------------------------------------------------------------
(***************************************************************************)
(* Sequences of walks, misses and answers.                                 *)
(***************************************************************************)
LEMMA WalkAdded ==
  ASSUME NEW w \in Walks, NEW r \in Walk, NEW id \in Nat
  PROVE  /\ r.id # id => /\ NoWalk(w, id) => NoWalk(Append(w, r), id)
                         /\ OneWalk(w, id) => OneWalk(Append(w, r), id)
         /\ r.id = id => (NoWalk(w, id) => OneWalk(Append(w, r), id))
<1>1. /\ DOMAIN Append(w, r) = 1 .. Len(w) + 1 /\ DOMAIN w = 1 .. Len(w)
      /\ Len(w) \in Nat
      /\ Append(w, r)[Len(w) + 1] = r
      /\ \A i \in DOMAIN w : Append(w, r)[i] = w[i]
  BY DEF Walks
<1>2. \A i : AtWalk(Append(w, r), i, id)
              <=> AtWalk(w, i, id) \/ (i = Len(w) + 1 /\ r.id = id)
  BY <1>1 DEF AtWalk
<1> QED
  BY <1>2 DEF NoWalk, OneWalk

LEMMA WalkRemoved ==
  ASSUME NEW w \in Walks, NEW n \in DOMAIN w, NEW id \in Nat
  PROVE  /\ RemoveAt(w, n) \in Walks
         /\ NoWalk(w, id) => NoWalk(RemoveAt(w, n), id)
         /\ w[n].id # id => (OneWalk(w, id) => OneWalk(RemoveAt(w, n), id))
         /\ w[n].id = id => (OneWalk(w, id) => NoWalk(RemoveAt(w, n), id))
<1> DEFINE v == RemoveAt(w, n)
<1>1. /\ v \in Walks /\ Len(w) \in Nat /\ n \in 1 .. Len(w)
      /\ DOMAIN w = 1 .. Len(w) /\ DOMAIN v = 1 .. Len(w) - 1
      /\ \A i \in 1 .. Len(w) - 1 : v[i] = w[Back(n, i)]
  BY Removed DEF Walks
<1> HIDE DEF v
<1>2. /\ \A i \in 1 .. Len(w) - 1 : Back(n, i) \in (1 .. Len(w)) \ {n}
      /\ \A i, j \in 1 .. Len(w) - 1 : Back(n, i) = Back(n, j) => i = j
      /\ \A l \in (1 .. Len(w)) \ {n} : \E i \in 1 .. Len(w) - 1 : Back(n, i) = l
  BY <1>1, BackOnto
<1>3. \A i : AtWalk(v, i, id) <=> i \in 1 .. Len(w) - 1 /\ AtWalk(w, Back(n, i), id)
  BY <1>1, <1>2 DEF AtWalk
<1>4. NoWalk(w, id) => NoWalk(v, id)
  BY <1>3 DEF NoWalk
<1>5. ASSUME w[n].id # id, OneWalk(w, id)
      PROVE  OneWalk(v, id)
  <2>1. PICK l : AtWalk(w, l, id) /\ \A k : AtWalk(w, k, id) => k = l
    BY <1>5 DEF OneWalk
  <2>2. l \in (1 .. Len(w)) \ {n}
    BY <1>1, <1>5, <2>1 DEF AtWalk
  <2>3. PICK i \in 1 .. Len(w) - 1 : Back(n, i) = l
    BY <1>2, <2>2
  <2>4. AtWalk(v, i, id) /\ \A k : AtWalk(v, k, id) => k = i
    BY <1>2, <1>3, <2>1, <2>3
  <2> QED
    BY <2>4 DEF OneWalk
<1>6. ASSUME w[n].id = id, OneWalk(w, id)
      PROVE  NoWalk(v, id)
  <2>1. AtWalk(w, n, id)
    BY <1>1, <1>6 DEF AtWalk
  <2>2. \A k : AtWalk(w, k, id) => k = n
    BY <1>6, <2>1 DEF OneWalk
  <2> QED
    BY <1>2, <1>3, <2>2 DEF NoWalk
<1> QED
  BY <1>1, <1>4, <1>5, <1>6 DEF v

LEMMA AnswerAdded ==
  ASSUME NEW a \in Seq(Nat), NEW n \in Nat, NEW id \in Nat
  PROVE  /\ Append(a, n) \in Seq(Nat)
         /\ n # id => /\ NoAnswer(a, id) => NoAnswer(Append(a, n), id)
                      /\ OneAnswer(a, id) => OneAnswer(Append(a, n), id)
         /\ n = id => (NoAnswer(a, id) => OneAnswer(Append(a, n), id))
<1>1. /\ DOMAIN Append(a, n) = 1 .. Len(a) + 1 /\ DOMAIN a = 1 .. Len(a)
      /\ Len(a) \in Nat
      /\ Append(a, n)[Len(a) + 1] = n
      /\ \A i \in DOMAIN a : Append(a, n)[i] = a[i]
  OBVIOUS
<1>2. \A i : AtAnswer(Append(a, n), i, id)
              <=> AtAnswer(a, i, id) \/ (i = Len(a) + 1 /\ n = id)
  BY <1>1 DEF AtAnswer
<1>3. n # id => /\ NoAnswer(a, id) => NoAnswer(Append(a, n), id)
                /\ OneAnswer(a, id) => OneAnswer(Append(a, n), id)
  BY <1>2 DEF NoAnswer, OneAnswer
<1>4. ASSUME n = id, NoAnswer(a, id)
      PROVE  OneAnswer(Append(a, n), id)
  <2>1. PICK k : k = Len(a) + 1
    OBVIOUS
  <2>2. AtAnswer(Append(a, n), k, id)
    BY <1>2, <1>4, <2>1
  <2>3. \A i : AtAnswer(Append(a, n), i, id) => i = k
    BY <1>2, <1>4, <2>1 DEF NoAnswer
  <2> QED
    BY <2>2, <2>3, Zenon DEF OneAnswer
<1> QED
  BY <1>3, <1>4

\* Several at once, those behind a miss.
LEMMA AnswersAdded ==
  ASSUME NEW a \in Seq(Nat), NEW b \in Seq(Nat), NEW id \in Nat,
         NEW c, c = a \o b
  PROVE  /\ c \in Seq(Nat)
         /\ NoAnswer(b, id) => /\ NoAnswer(a, id) => NoAnswer(c, id)
                               /\ OneAnswer(a, id) => OneAnswer(c, id)
         /\ OneAnswer(b, id) => (NoAnswer(a, id) => OneAnswer(c, id))
<1>1. /\ Len(a) \in Nat /\ Len(b) \in Nat
      /\ DOMAIN a = 1 .. Len(a) /\ DOMAIN b = 1 .. Len(b)
      /\ c \in Seq(Nat) /\ Len(c) = Len(a) + Len(b)
      /\ DOMAIN c = 1 .. Len(a) + Len(b)
  OBVIOUS
<1>2. /\ \A i \in 1 .. Len(a) : c[i] = a[i]
      /\ \A i \in 1 .. Len(b) : c[Len(a) + i] = b[i]
  OBVIOUS
<1>3. ASSUME NEW i
      PROVE  AtAnswer(c, i, id)
               <=> AtAnswer(a, i, id)
                   \/ (i \in Len(a) + 1 .. Len(a) + Len(b) /\ AtAnswer(b, i - Len(a), id))
  <2>1. CASE i \in 1 .. Len(a)
    BY <1>1, <1>2, <2>1 DEF AtAnswer
  <2>2. CASE i \in Len(a) + 1 .. Len(a) + Len(b)
    <3>1. i - Len(a) \in 1 .. Len(b) /\ Len(a) + (i - Len(a)) = i
      BY <1>1, <2>2
    <3>2. c[i] = b[i - Len(a)]
      BY <1>2, <3>1
    <3> QED
      BY <1>1, <2>2, <3>1, <3>2 DEF AtAnswer
  <2>3. CASE i \notin 1 .. Len(a) /\ i \notin Len(a) + 1 .. Len(a) + Len(b)
    BY <1>1, <2>3 DEF AtAnswer
  <2> QED
    BY <2>1, <2>2, <2>3
<1>4. NoAnswer(b, id) => \A i : AtAnswer(c, i, id) <=> AtAnswer(a, i, id)
  BY <1>3 DEF NoAnswer
<1>5. ASSUME OneAnswer(b, id), NoAnswer(a, id)
      PROVE  OneAnswer(c, id)
  <2>1. PICK j : AtAnswer(b, j, id) /\ \A k : AtAnswer(b, k, id) => k = j
    BY <1>5 DEF OneAnswer
  <2>2. j \in 1 .. Len(b)
    BY <1>1, <2>1 DEF AtAnswer
  <2>3. \A i : AtAnswer(c, i, id)
               => i \in Len(a) + 1 .. Len(a) + Len(b) /\ i - Len(a) = j
    BY <1>3, <1>5, <2>1 DEF NoAnswer
  <2>4. ASSUME NEW i, AtAnswer(c, i, id)
        PROVE  i = Len(a) + j
    <3>1. i \in Len(a) + 1 .. Len(a) + Len(b) /\ i - Len(a) = j
      BY <2>3, <2>4
    <3> QED
      BY <1>1, <2>2, <3>1
  <2>5. AtAnswer(c, Len(a) + j, id)
    <3>. Len(a) + j \in Len(a) + 1 .. Len(a) + Len(b) /\ (Len(a) + j) - Len(a) = j
      BY <1>1, <2>2
    <3>1. PICK n \in Len(a) + 1 .. Len(a) + Len(b) : n = Len(a) + j /\ n - Len(a) = j
      OBVIOUS
    <3>2. AtAnswer(b, n - Len(a), id)
      BY <2>1, <3>1, Zenon
    <3>3. AtAnswer(c, n, id)
      BY <1>3, <3>1, <3>2
    <3> QED
      BY <3>1, <3>3, Zenon
  <2> QED
    BY <2>4, <2>5 DEF OneAnswer
<1>6. NoAnswer(b, id) => /\ NoAnswer(a, id) => NoAnswer(c, id)
                         /\ OneAnswer(a, id) => OneAnswer(c, id)
  BY <1>4 DEF NoAnswer, OneAnswer
<1>7. c \in Seq(Nat)
  BY <1>1
<1>8. OneAnswer(b, id) => (NoAnswer(a, id) => OneAnswer(c, id))
  BY <1>5
<1> QED
  BY <1>6, <1>7, <1>8

\* Entries that keep their ids, and whom to answer with them.
SameIds(s, t) == DOMAIN t = DOMAIN s /\ \A i \in DOMAIN s : t[i].id = s[i].id

SameAnswers(m, v) == SameIds(m, v) /\ \A i \in DOMAIN m : v[i].dest = m[i].dest

LEMMA WalksKept ==
  ASSUME NEW w, NEW v, SameIds(w, v), NEW id
  PROVE  /\ NoWalk(w, id) => NoWalk(v, id)
         /\ OneWalk(w, id) => OneWalk(v, id)
<1>1. \A i : AtWalk(v, i, id) <=> AtWalk(w, i, id)
  BY DEF SameIds, AtWalk
<1> QED
  BY <1>1 DEF NoWalk, OneWalk

LEMMA SamePlaces ==
  ASSUME NEW m, NEW v, NEW id,
         \A i : AtMiss(v, i, id) <=> AtMiss(m, i, id),
         \A i, j : Behind(v, i, j, id) <=> Behind(m, i, j, id)
  PROVE  /\ NoMiss(m, id) => NoMiss(v, id)
         /\ OneMiss(m, id) => OneMiss(v, id)
BY DEF NoMiss, OneMiss

LEMMA OneBehind ==
  ASSUME NEW m, NEW id, NEW n, NEW k,
         \A i : ~ AtMiss(m, i, id), Behind(m, n, k, id),
         \A i, j : Behind(m, i, j, id) => i = n /\ j = k
  PROVE  OneMiss(m, id)
BY DEF OneMiss

LEMMA MissesKept ==
  ASSUME NEW m, NEW v, SameAnswers(m, v), NEW id
  PROVE  /\ NoMiss(m, id) => NoMiss(v, id)
         /\ OneMiss(m, id) => OneMiss(v, id)
<1>1. \A i : AtMiss(v, i, id) <=> AtMiss(m, i, id)
  BY DEF SameAnswers, SameIds, AtMiss
<1>2. \A i, j : Behind(v, i, j, id) <=> Behind(m, i, j, id)
  BY DEF SameAnswers, SameIds, Behind
<1> QED
  BY <1>1, <1>2 DEF NoMiss, OneMiss

LEMMA MissAdded ==
  ASSUME NEW m \in Misses, NEW e \in Miss, e.dest = <<>>, NEW id \in Nat
  PROVE  /\ e.id # id => /\ NoMiss(m, id) => NoMiss(Append(m, e), id)
                         /\ OneMiss(m, id) => OneMiss(Append(m, e), id)
         /\ e.id = id => (NoMiss(m, id) => OneMiss(Append(m, e), id))
<1> DEFINE v == Append(m, e)
<1>1. /\ DOMAIN v = 1 .. Len(m) + 1 /\ DOMAIN m = 1 .. Len(m)
      /\ Len(m) \in Nat
      /\ v[Len(m) + 1] = e
      /\ \A i \in DOMAIN m : v[i] = m[i]
  BY DEF Misses
<1> HIDE DEF v
<1>2. \A i : AtMiss(v, i, id) <=> AtMiss(m, i, id) \/ (i = Len(m) + 1 /\ e.id = id)
  BY <1>1 DEF AtMiss
<1>3. \A i, j : Behind(v, i, j, id) <=> Behind(m, i, j, id)
  <2>1. ASSUME NEW i, NEW j
        PROVE  Behind(v, i, j, id) <=> Behind(m, i, j, id)
    <3>1. CASE i \in 1 .. Len(m)
      BY <1>1, <3>1 DEF Behind
    <3>2. CASE i = Len(m) + 1
      <4>1. v[i].dest = <<>>
        BY <1>1, <3>2, Zenon
      <4>2. DOMAIN v[i].dest = {}
        BY <4>1
      <4>3. i \notin 1 .. Len(m)
        BY <1>1, <3>2
      <4> QED
        BY <1>1, <4>2, <4>3 DEF Behind
    <3>3. CASE i \notin 1 .. Len(m) + 1
      <4>1. i \notin 1 .. Len(m)
        BY <1>1, <3>3
      <4> QED
        BY <1>1, <3>3, <4>1 DEF Behind
    <3> QED
      BY <1>1, <3>1, <3>2, <3>3
  <2> QED
    BY <2>1
<1>4. e.id # id => /\ NoMiss(m, id) => NoMiss(v, id)
                   /\ OneMiss(m, id) => OneMiss(v, id)
  <2>1. e.id # id => \A i : AtMiss(v, i, id) <=> AtMiss(m, i, id)
    BY <1>2
  <2> QED
    BY <1>3, <2>1, SamePlaces
<1>5. ASSUME e.id = id, NoMiss(m, id)
      PROVE  OneMiss(v, id)
  <2>1. PICK k : k = Len(m) + 1
    OBVIOUS
  <2>2. AtMiss(v, k, id) /\ \A i : AtMiss(v, i, id) => i = k
    BY <1>2, <1>5, <2>1 DEF NoMiss
  <2>3. \A i, j : ~ Behind(v, i, j, id)
    BY <1>3, <1>5 DEF NoMiss
  <2> QED
    BY <2>2, <2>3, Zenon DEF OneMiss
<1> QED
  BY <1>4, <1>5 DEF v

\* One more behind the miss at n.
LEMMA BehindIt ==
  ASSUME NEW m, NEW n \in DOMAIN m, NEW x \in Nat, NEW id \in Nat,
         NEW v, m[n].dest \in Seq(Nat), SameIds(m, v),
         \A i \in DOMAIN m : i # n => v[i] = m[i],
         v[n].dest = Append(m[n].dest, x)
  PROVE  /\ x # id => /\ NoMiss(m, id) => NoMiss(v, id)
                      /\ OneMiss(m, id) => OneMiss(v, id)
         /\ x = id => (NoMiss(m, id) => OneMiss(v, id))
<1>. PICK d : d = m[n].dest
  OBVIOUS
<1>1. /\ DOMAIN Append(d, x) = 1 .. Len(d) + 1 /\ DOMAIN d = 1 .. Len(d)
      /\ Len(d) \in Nat
      /\ Append(d, x)[Len(d) + 1] = x
      /\ \A i \in DOMAIN d : Append(d, x)[i] = d[i]
  OBVIOUS
<1>2. \A i : AtMiss(v, i, id) <=> AtMiss(m, i, id)
  BY DEF AtMiss, SameIds
<1>3. ASSUME NEW i, NEW j
      PROVE  Behind(v, i, j, id)
               <=> Behind(m, i, j, id) \/ (i = n /\ j = Len(d) + 1 /\ x = id)
  <2>1. CASE i # n
    BY <2>1 DEF Behind, SameIds
  <2>2. CASE i = n
    <3>1. Behind(v, i, j, id) <=> j \in 1 .. Len(d) + 1 /\ Append(d, x)[j] = id
      BY <1>1, <2>2 DEF Behind, SameIds
    <3>2. Behind(m, i, j, id) <=> j \in 1 .. Len(d) /\ d[j] = id
      BY <1>1, <2>2 DEF Behind
    <3> QED
      BY <1>1, <2>2, <3>1, <3>2
  <2> QED
    BY <2>1, <2>2
<1>4. ASSUME x # id
      PROVE  /\ NoMiss(m, id) => NoMiss(v, id)
             /\ OneMiss(m, id) => OneMiss(v, id)
  <2>1. \A i, j : Behind(v, i, j, id) <=> Behind(m, i, j, id)
    BY <1>3, <1>4
  <2> QED
    BY <1>2, <2>1, SamePlaces
<1>5. ASSUME x = id, NoMiss(m, id)
      PROVE  OneMiss(v, id)
  <2>1. \A i : ~ AtMiss(v, i, id)
    BY <1>2, <1>5 DEF NoMiss
  <2>. PICK k \in Nat : k = Len(d) + 1
    BY <1>1
  <2>2. Behind(v, n, k, id)
    BY <1>3, <1>5
  <2>3. \A i, j : Behind(v, i, j, id) => i = n /\ j = k
    BY <1>3, <1>5 DEF NoMiss
  <2> QED
    BY <2>1, <2>2, <2>3, OneBehind
<1> QED
  BY <1>4, <1>5

LEMMA BehindAdded ==
  ASSUME NEW m \in Misses, NEW n \in DOMAIN m, NEW x \in Nat
  PROVE  LET v == [m EXCEPT ![n].dest = Append(@, x)] IN
         /\ v \in Misses
         /\ \A id \in Nat :
              /\ x # id => /\ NoMiss(m, id) => NoMiss(v, id)
                           /\ OneMiss(m, id) => OneMiss(v, id)
              /\ x = id => (NoMiss(m, id) => OneMiss(v, id))
<1> DEFINE v == [m EXCEPT ![n].dest = Append(@, x)]
<1>1. m[n] \in Miss
  BY DEF Misses
<1>2. m[n].dest \in Seq(Nat) /\ Append(m[n].dest, x) \in Seq(Nat)
  BY <1>1 DEF Miss
<1>3. [m[n] EXCEPT !.dest = Append(m[n].dest, x)] \in Miss
  BY <1>1, <1>2 DEF Miss
<1>4. PICK e \in Miss : e = [m[n] EXCEPT !.dest = Append(m[n].dest, x)]
  BY <1>3
<1>5. v = [m EXCEPT ![n] = e]
  BY <1>4
<1>6. e.id = m[n].id /\ e.dest = Append(m[n].dest, x)
  BY <1>1, <1>4 DEF Miss
<1> HIDE DEF v
<1>7. v \in Misses
  <2>1. [m EXCEPT ![n] = e] \in Seq(Miss)
    BY Changed DEF Misses
  <2> QED
    BY <1>5, <2>1, Zenon DEF Misses
<1>8. /\ SameIds(m, v) /\ v[n].dest = Append(m[n].dest, x)
      /\ \A i \in DOMAIN m : i # n => v[i] = m[i]
  BY <1>5, <1>6 DEF SameIds
<1>9. \A id \in Nat :
        /\ x # id => /\ NoMiss(m, id) => NoMiss(v, id)
                     /\ OneMiss(m, id) => OneMiss(v, id)
        /\ x = id => (NoMiss(m, id) => OneMiss(v, id))
  BY <1>2, <1>8, BehindIt
<1> QED
  BY <1>7, <1>9 DEF v

\* A miss that is over leaves with all its answers.
LEMMA MissRemoved ==
  ASSUME NEW m \in Misses, NEW n \in DOMAIN m, NEW id \in Nat
  PROVE  /\ RemoveAt(m, n) \in Misses /\ AllAnswers(m[n]) \in Seq(Nat)
         /\ NoMiss(m, id) => /\ NoMiss(RemoveAt(m, n), id)
                             /\ NoAnswer(AllAnswers(m[n]), id)
         /\ OneMiss(m, id) =>
              \/ OneMiss(RemoveAt(m, n), id) /\ NoAnswer(AllAnswers(m[n]), id)
              \/ NoMiss(RemoveAt(m, n), id) /\ OneAnswer(AllAnswers(m[n]), id)
<1>. PICK v : v = RemoveAt(m, n)
  OBVIOUS
<1>. PICK d : d = m[n].dest
  OBVIOUS
<1>. PICK b : b = AllAnswers(m[n])
  OBVIOUS
<1>1. /\ v \in Misses /\ Len(m) \in Nat /\ n \in 1 .. Len(m)
      /\ DOMAIN m = 1 .. Len(m) /\ DOMAIN v = 1 .. Len(m) - 1
      /\ \A i \in 1 .. Len(m) - 1 : v[i] = m[Back(n, i)]
  BY Removed DEF Misses
<1>2. /\ \A i \in 1 .. Len(m) - 1 : Back(n, i) \in (1 .. Len(m)) \ {n}
      /\ \A i, j \in 1 .. Len(m) - 1 : Back(n, i) = Back(n, j) => i = j
      /\ \A l \in (1 .. Len(m)) \ {n} : \E i \in 1 .. Len(m) - 1 : Back(n, i) = l
  BY <1>1, BackOnto
<1>3. \A i : AtMiss(v, i, id) <=> i \in 1 .. Len(m) - 1 /\ AtMiss(m, Back(n, i), id)
  BY <1>1, <1>2 DEF AtMiss
<1>4. \A i, j : Behind(v, i, j, id)
                <=> i \in 1 .. Len(m) - 1 /\ Behind(m, Back(n, i), j, id)
  BY <1>1, <1>2 DEF Behind
<1>5. m[n] \in Miss
  BY DEF Misses
<1>6. d \in Seq(Nat) /\ m[n].id \in Nat /\ b = Append(d, m[n].id)
  BY <1>5 DEF Miss, AllAnswers
<1>7. /\ b \in Seq(Nat) /\ DOMAIN b = 1 .. Len(d) + 1 /\ DOMAIN d = 1 .. Len(d)
      /\ Len(d) \in Nat /\ b[Len(d) + 1] = m[n].id
      /\ \A i \in DOMAIN d : b[i] = d[i]
  BY <1>6
<1>8. \A i : AtAnswer(b, i, id)
              <=> Behind(m, n, i, id) \/ (i = Len(d) + 1 /\ AtMiss(m, n, id))
  BY <1>7 DEF AtAnswer, Behind, AtMiss
<1>9. ASSUME NoMiss(m, id)
      PROVE  NoMiss(v, id) /\ NoAnswer(b, id)
  BY <1>3, <1>4, <1>8, <1>9 DEF NoMiss, NoAnswer
<1>10. ASSUME OneMiss(m, id)
       PROVE  \/ OneMiss(v, id) /\ NoAnswer(b, id)
              \/ NoMiss(v, id) /\ OneAnswer(b, id)
  <2>1. CASE /\ \E i : AtMiss(m, i, id) /\ \A k : AtMiss(m, k, id) => k = i
             /\ \A i, j : ~ Behind(m, i, j, id)
    <3>1. PICK l : AtMiss(m, l, id) /\ \A k : AtMiss(m, k, id) => k = l
      BY <2>1
    <3>2. l \in 1 .. Len(m)
      BY <1>1, <3>1 DEF AtMiss
    <3>3. \A i, j : ~ Behind(v, i, j, id)
      BY <1>4, <2>1
    <3>4. CASE l = n
      <4>1. \A i : ~ AtMiss(v, i, id)
        BY <1>2, <1>3, <3>1, <3>4
      <4>2. PICK k \in Nat : k = Len(d) + 1
        BY <1>7
      <4>3. AtAnswer(b, k, id)
        BY <1>8, <3>1, <3>4, <4>2
      <4>4. \A i : AtAnswer(b, i, id) => i = k
        BY <1>8, <2>1, <4>2
      <4>5. NoMiss(v, id)
        BY <3>3, <4>1 DEF NoMiss
      <4>6. OneAnswer(b, id)
        BY <4>3, <4>4 DEF OneAnswer
      <4> QED
        BY <4>5, <4>6
    <3>5. CASE l # n
      <4>1. PICK i \in 1 .. Len(m) - 1 : Back(n, i) = l
        BY <1>2, <3>2, <3>5
      <4>2. AtMiss(v, i, id) /\ \A k : AtMiss(v, k, id) => k = i
        BY <1>2, <1>3, <3>1, <4>1
      <4>3. NoAnswer(b, id)
        BY <1>8, <2>1, <3>1, <3>5 DEF NoAnswer
      <4>4. OneMiss(v, id)
        BY <3>3, <4>2 DEF OneMiss
      <4> QED
        BY <4>3, <4>4
    <3> QED
      BY <3>4, <3>5
  <2>2. CASE /\ \A i : ~ AtMiss(m, i, id)
             /\ \E i, j : /\ Behind(m, i, j, id)
                          /\ \A k, l : Behind(m, k, l, id) => k = i /\ l = j
    <3>1. PICK l, j : /\ Behind(m, l, j, id)
                      /\ \A k, o : Behind(m, k, o, id) => k = l /\ o = j
      BY <2>2
    <3>2. l \in 1 .. Len(m)
      BY <1>1, <3>1 DEF Behind
    <3>3. \A i : ~ AtMiss(v, i, id)
      BY <1>3, <2>2
    <3>4. CASE l = n
      <4>1. \A i, o : ~ Behind(v, i, o, id)
        BY <1>2, <1>4, <3>1, <3>4
      <4>2. AtAnswer(b, j, id)
        BY <1>8, <3>1, <3>4
      <4>3. \A i : AtAnswer(b, i, id) => i = j
        BY <1>8, <2>2, <3>1, <3>4
      <4>4. NoMiss(v, id)
        BY <3>3, <4>1 DEF NoMiss
      <4>5. OneAnswer(b, id)
        BY <4>2, <4>3 DEF OneAnswer
      <4> QED
        BY <4>4, <4>5
    <3>5. CASE l # n
      <4>1. PICK i \in 1 .. Len(m) - 1 : Back(n, i) = l
        BY <1>2, <3>2, <3>5
      <4>2. Behind(v, i, j, id)
        BY <1>4, <3>1, <4>1
      <4>3. \A k, o : Behind(v, k, o, id) => k = i /\ o = j
        BY <1>2, <1>4, <3>1, <4>1
      <4>4. NoAnswer(b, id)
        BY <1>8, <2>2, <3>1, <3>5 DEF NoAnswer
      <4>5. OneMiss(v, id)
        BY <3>3, <4>2, <4>3, OneBehind
      <4> QED
        BY <4>4, <4>5
    <3> QED
      BY <3>4, <3>5
  <2> QED
    BY <1>10, <2>1, <2>2 DEF OneMiss
<1> QED
  BY <1>1, <1>7, <1>9, <1>10

-------------------------------------------------------------------------------
(***************************************************************************)
(* What a step does to the three sequences of a core.                      *)
(***************************************************************************)
LEMMA KeptRelabelled ==
  ASSUME NEW w, NEW m, NEW a, NEW T, KeptIn(w, m, a, T),
         NEW v, NEW u, SameIds(w, v), SameAnswers(m, u)
  PROVE  KeptIn(v, u, a, T)
<1> SUFFICES ASSUME NEW id \in Nat
             PROVE  IF id \in T THEN One(v, u, a, id) ELSE None(v, u, a, id)
  BY DEF KeptIn
<1>1. IF id \in T THEN One(w, m, a, id) ELSE None(w, m, a, id)
  BY DEF KeptIn
<1>2. /\ NoWalk(w, id) => NoWalk(v, id)
      /\ OneWalk(w, id) => OneWalk(v, id)
  BY WalksKept
<1>3. /\ NoMiss(m, id) => NoMiss(u, id)
      /\ OneMiss(m, id) => OneMiss(u, id)
  BY MissesKept
<1> QED
  BY <1>1, <1>2, <1>3 DEF One, None

LEMMA KeptWalk ==
  ASSUME NEW w \in Walks, NEW m, NEW a, NEW T, KeptIn(w, m, a, T),
         NEW r \in Walk, r.id \notin T
  PROVE  KeptIn(Append(w, r), m, a, T \union {r.id})
<1> SUFFICES ASSUME NEW id \in Nat
             PROVE  IF id \in T \union {r.id} THEN One(Append(w, r), m, a, id)
                    ELSE None(Append(w, r), m, a, id)
  BY DEF KeptIn
<1>1. IF id \in T THEN One(w, m, a, id) ELSE None(w, m, a, id)
  BY DEF KeptIn
<1>2. /\ r.id # id => /\ NoWalk(w, id) => NoWalk(Append(w, r), id)
                      /\ OneWalk(w, id) => OneWalk(Append(w, r), id)
      /\ r.id = id => (NoWalk(w, id) => OneWalk(Append(w, r), id))
  BY WalkAdded
<1> QED
  BY <1>1, <1>2 DEF One, None

LEMMA KeptWithoutWalk ==
  ASSUME NEW w \in Walks, NEW m, NEW a, NEW T, KeptIn(w, m, a, T), NEW n \in DOMAIN w
  PROVE  /\ RemoveAt(w, n) \in Walks /\ w[n] \in Walk /\ w[n].id \in T
         /\ KeptIn(RemoveAt(w, n), m, a, T \ {w[n].id})
<1>. w[n] \in Walk
  BY DEF Walks
<1>1. w[n] \in Walk /\ w[n].id \in Nat
  BY DEF Walk
<1>2. AtWalk(w, n, w[n].id)
  BY DEF AtWalk
<1>3. w[n].id \in T
  BY <1>1, <1>2 DEF KeptIn, None, NoWalk
<1>4. ASSUME NEW id \in Nat
      PROVE  IF id \in T \ {w[n].id} THEN One(RemoveAt(w, n), m, a, id)
             ELSE None(RemoveAt(w, n), m, a, id)
  <2>1. IF id \in T THEN One(w, m, a, id) ELSE None(w, m, a, id)
    BY DEF KeptIn
  <2>2. /\ NoWalk(w, id) => NoWalk(RemoveAt(w, n), id)
        /\ w[n].id # id => (OneWalk(w, id) => OneWalk(RemoveAt(w, n), id))
        /\ w[n].id = id => (OneWalk(w, id) => NoWalk(RemoveAt(w, n), id))
    BY WalkRemoved
  <2>3. w[n].id = id => ~ NoWalk(w, id)
    BY <1>2 DEF NoWalk
  <2> QED
    BY <1>3, <2>1, <2>2, <2>3 DEF One, None
<1>5. RemoveAt(w, n) \in Walks
  BY WalkRemoved
<1> QED
  BY <1>1, <1>3, <1>4, <1>5 DEF KeptIn

LEMMA KeptMiss ==
  ASSUME NEW w, NEW m \in Misses, NEW a, NEW T, KeptIn(w, m, a, T),
         NEW e \in Miss, e.dest = <<>>, e.id \notin T
  PROVE  KeptIn(w, Append(m, e), a, T \union {e.id})
<1> SUFFICES ASSUME NEW id \in Nat
             PROVE  IF id \in T \union {e.id} THEN One(w, Append(m, e), a, id)
                    ELSE None(w, Append(m, e), a, id)
  BY DEF KeptIn
<1>1. IF id \in T THEN One(w, m, a, id) ELSE None(w, m, a, id)
  BY DEF KeptIn
<1>2. /\ e.id # id => /\ NoMiss(m, id) => NoMiss(Append(m, e), id)
                      /\ OneMiss(m, id) => OneMiss(Append(m, e), id)
      /\ e.id = id => (NoMiss(m, id) => OneMiss(Append(m, e), id))
  BY MissAdded
<1> QED
  BY <1>1, <1>2 DEF One, None

LEMMA KeptBehind ==
  ASSUME NEW w, NEW m \in Misses, NEW a, NEW T, KeptIn(w, m, a, T),
         NEW n \in DOMAIN m, NEW x \in Nat, x \notin T
  PROVE  LET v == [m EXCEPT ![n].dest = Append(@, x)] IN
         v \in Misses /\ KeptIn(w, v, a, T \union {x})
<1>. PICK v : v = [m EXCEPT ![n].dest = Append(@, x)]
  OBVIOUS
<1>1. /\ v \in Misses
      /\ \A id \in Nat :
           /\ x # id => /\ NoMiss(m, id) => NoMiss(v, id)
                        /\ OneMiss(m, id) => OneMiss(v, id)
           /\ x = id => (NoMiss(m, id) => OneMiss(v, id))
  BY BehindAdded
<1>2. ASSUME NEW id \in Nat
      PROVE  IF id \in T \union {x} THEN One(w, v, a, id) ELSE None(w, v, a, id)
  <2>1. IF id \in T THEN One(w, m, a, id) ELSE None(w, m, a, id)
    BY DEF KeptIn
  <2> QED
    BY <1>1, <2>1 DEF One, None
<1> QED
  BY <1>1, <1>2 DEF KeptIn

LEMMA KeptAnswer ==
  ASSUME NEW w, NEW m, NEW a \in Seq(Nat), NEW T, KeptIn(w, m, a, T),
         NEW x \in Nat, x \notin T
  PROVE  KeptIn(w, m, Append(a, x), T \union {x})
<1> SUFFICES ASSUME NEW id \in Nat
             PROVE  IF id \in T \union {x} THEN One(w, m, Append(a, x), id)
                    ELSE None(w, m, Append(a, x), id)
  BY DEF KeptIn
<1>1. IF id \in T THEN One(w, m, a, id) ELSE None(w, m, a, id)
  BY DEF KeptIn
<1>2. /\ x # id => /\ NoAnswer(a, id) => NoAnswer(Append(a, x), id)
                   /\ OneAnswer(a, id) => OneAnswer(Append(a, x), id)
      /\ x = id => (NoAnswer(a, id) => OneAnswer(Append(a, x), id))
  BY AnswerAdded
<1> QED
  BY <1>1, <1>2 DEF One, None

LEMMA KeptWithoutMiss ==
  ASSUME NEW w, NEW m \in Misses, NEW a \in Seq(Nat), NEW T, KeptIn(w, m, a, T),
         NEW n \in DOMAIN m
  PROVE  /\ RemoveAt(m, n) \in Misses /\ a \o AllAnswers(m[n]) \in Seq(Nat)
         /\ KeptIn(w, RemoveAt(m, n), a \o AllAnswers(m[n]), T)
<1>. PICK b : b = AllAnswers(m[n])
  OBVIOUS
<1>. PICK v : v = RemoveAt(m, n)
  OBVIOUS
<1>1. v \in Misses /\ b \in Seq(Nat)
  BY MissRemoved
<1>. PICK c : c = a \o b
  OBVIOUS
<1>2. ASSUME NEW id \in Nat
      PROVE  IF id \in T THEN One(w, v, c, id) ELSE None(w, v, c, id)
  <2>1. IF id \in T THEN One(w, m, a, id) ELSE None(w, m, a, id)
    BY DEF KeptIn
  <2>2. /\ NoMiss(m, id) => NoMiss(v, id) /\ NoAnswer(b, id)
        /\ OneMiss(m, id) => \/ OneMiss(v, id) /\ NoAnswer(b, id)
                             \/ NoMiss(v, id) /\ OneAnswer(b, id)
    BY MissRemoved
  <2>3. /\ NoAnswer(b, id) => /\ NoAnswer(a, id) => NoAnswer(c, id)
                              /\ OneAnswer(a, id) => OneAnswer(c, id)
        /\ OneAnswer(b, id) => (NoAnswer(a, id) => OneAnswer(c, id))
    BY <1>1, AnswersAdded
  <2> QED
    BY <2>1, <2>2, <2>3 DEF One, None
<1>3. c \in Seq(Nat)
  BY <1>1
<1> QED
  BY <1>1, <1>2, <1>3 DEF KeptIn

-------------------------------------------------------------------------------
(***************************************************************************)
(* The first position that satisfies a test, and entries that are edited.  *)
(***************************************************************************)
LEMMA FirstOf ==
  ASSUME NEW T \in SUBSET Nat, T # {}
  PROVE  Min(T) \in T /\ \A u \in T : Min(T) <= u
<1>1. OpToRel(<, Nat) = {ss \in Nat \X Nat : ss[1] < ss[2]}
  BY DEF OpToRel
<1>2. IsWellFoundedOn(OpToRel(<, Nat), Nat)
  BY NatLessThanWellFounded
<1>3. PICK t \in T : \A u \in T : ~ (<<u, t>> \in OpToRel(<, Nat))
  BY <1>2, WFMin
<1>4. ASSUME NEW u \in T, u < t
      PROVE  FALSE
  <2>1. <<u, t>> \in Nat \X Nat /\ <<u, t>>[1] < <<u, t>>[2]
    BY <1>4
  <2>2. <<u, t>> \in OpToRel(<, Nat)
    BY <2>1, <1>1
  <2> QED
    BY <2>2, <1>3
<1>5. \A u \in T : t <= u
  BY <1>4
<1> QED
  BY <1>5 DEF Min

LEMMA FirstIndex ==
  ASSUME NEW S, NEW s \in Seq(S), NEW T, T \subseteq DOMAIN s, T # {}
  PROVE  Min(T) \in T /\ Min(T) \in DOMAIN s
<1>1. DOMAIN s \subseteq Nat
  OBVIOUS
<1> QED
  BY <1>1, FirstOf

LEMMA MissEdited ==
  ASSUME NEW m \in Misses, NEW n \in DOMAIN m, NEW e \in Miss,
         e.id = m[n].id, e.dest = m[n].dest
  PROVE  /\ [m EXCEPT ![n] = e] \in Misses
         /\ SameAnswers(m, [m EXCEPT ![n] = e])
<1>1. [m EXCEPT ![n] = e] \in Misses
  BY Changed DEF Misses
<1>2. SameAnswers(m, [m EXCEPT ![n] = e])
  BY DEF SameAnswers, SameIds
<1> QED
  BY <1>1, <1>2

LEMMA ElementsTyped ==
  ASSUME NEW S, NEW s \in Seq(S)
  PROVE  \A i \in DOMAIN s : s[i] \in S
OBVIOUS

LEMMA FunctionEdited ==
  ASSUME NEW S, NEW s \in Seq(S), NEW t \in [DOMAIN s -> S]
  PROVE  t \in Seq(S)
<1>1. DOMAIN s = 1 .. Len(s) /\ Len(s) \in Nat
  OBVIOUS
<1> QED
  BY <1>1, SeqDef

LEMMA AllEdited ==
  ASSUME NEW S, NEW s \in Seq(S), NEW t, DOMAIN t = DOMAIN s,
         t = [i \in DOMAIN s |-> t[i]], \A i \in DOMAIN s : t[i] \in S
  PROVE  t \in Seq(S)
<1>1. DOMAIN s = 1 .. Len(s) /\ Len(s) \in Nat
  OBVIOUS
<1>2. t \in [1 .. Len(s) -> S]
  BY <1>1
<1> QED
  BY <1>1, <1>2, SeqDef

\* A time of a miss is set.
LEMMA DoneSet ==
  ASSUME NEW m \in Misses, NEW n \in DOMAIN m, NEW y \in Int
  PROVE  LET u == [m EXCEPT ![n].done = y] IN u \in Misses /\ SameAnswers(m, u)
<1>1. m[n] \in Miss
  BY DEF Misses
<1>. PICK f : f = [m[n] EXCEPT !.done = y]
  OBVIOUS
<1>2. f \in Miss /\ f.id = m[n].id /\ f.dest = m[n].dest
  BY <1>1 DEF Miss
<1>3. [m EXCEPT ![n].done = y] = [m EXCEPT ![n] = f]
  OBVIOUS
<1> QED
  BY <1>2, <1>3, MissEdited

LEMMA At1Set ==
  ASSUME NEW m \in Misses, NEW n \in DOMAIN m, NEW x \in Int
  PROVE  LET u == [m EXCEPT ![n].at1 = x] IN u \in Misses /\ SameAnswers(m, u)
<1>1. m[n] \in Miss
  BY DEF Misses
<1>. PICK f : f = [m[n] EXCEPT !.at1 = x]
  OBVIOUS
<1>2. f \in Miss /\ f.id = m[n].id /\ f.dest = m[n].dest
  BY <1>1 DEF Miss
<1>3. [m EXCEPT ![n].at1 = x] = [m EXCEPT ![n] = f]
  OBVIOUS
<1> QED
  BY <1>2, <1>3, MissEdited

LEMMA TimesSet ==
  ASSUME NEW m \in Misses, NEW n \in DOMAIN m, NEW x \in Int, NEW y \in Int
  PROVE  LET u == [m EXCEPT ![n] = [@ EXCEPT !.at1 = x, !.done = y]] IN
         u \in Misses /\ SameAnswers(m, u)
<1>1. m[n] \in Miss
  BY DEF Misses
<1>. PICK f : f = [m[n] EXCEPT !.at1 = x, !.done = y]
  OBVIOUS
<1>2. f \in Miss /\ f.id = m[n].id /\ f.dest = m[n].dest
  BY <1>1 DEF Miss
<1>3. [m EXCEPT ![n] = [@ EXCEPT !.at1 = x, !.done = y]] = [m EXCEPT ![n] = f]
  OBVIOUS
<1> QED
  BY <1>2, <1>3, MissEdited

-------------------------------------------------------------------------------
(***************************************************************************)
(* The inductive invariant.                                                *)
(***************************************************************************)
MissL2 == [src : Sources, id : Nat, line : Lines, write : BOOLEAN,
           at2 : Int, done : Int]

MissesL2 == Seq(MissL2)

Typed ==
  /\ work \in Workloads
  /\ at \in Cores /\ core \in Cores /\ pos \in Nat \ {0}
  /\ asked \in [Cores -> [Sources -> Nat]]
  /\ dtlb_miss_buffer \in [Cores -> Walks]
  /\ l1_miss_buffer \in [Cores -> [Sources -> Misses]]
  /\ l2_miss_buffer \in [Cores -> Seq(MissL2)]
  /\ answered \in [Cores -> Seq(Nat)]

TakenIds(c) == 0 .. asked[c]["D"] - 1

Kept ==
  \A c \in Cores : KeptIn(dtlb_miss_buffer[c], l1_miss_buffer[c]["D"],
                         answered[c], TakenIds(c))

LEMMA Start ==
  ASSUME Init
  PROVE  Typed /\ Kept
<1>1. 0 \in Cores
  BY CachesAssumption DEF Cores
<1>2. <<>> \in Walks /\ <<>> \in Misses /\ <<>> \in Seq(MissL2) /\ <<>> \in Seq(Nat)
  BY DEF Walks, Misses
<1>3. Typed
  BY <1>1, <1>2 DEF Init, Typed
<1>4. ASSUME NEW id \in Nat
      PROVE  None(<<>>, <<>>, <<>>, id)
  BY DEF None, NoWalk, NoMiss, NoAnswer, AtWalk, AtMiss, Behind, AtAnswer
<1>5. ASSUME NEW c \in Cores
      PROVE  KeptIn(dtlb_miss_buffer[c], l1_miss_buffer[c]["D"], answered[c],
                    TakenIds(c))
  <2>1. /\ dtlb_miss_buffer[c] = <<>> /\ l1_miss_buffer[c]["D"] = <<>>
        /\ answered[c] = <<>> /\ asked[c]["D"] = 0
    BY DEF Init, Sources
  <2>2. TakenIds(c) = {}
    BY <2>1 DEF TakenIds
  <2> QED
    BY <1>4, <2>1, <2>2 DEF KeptIn
<1> QED
  BY <1>3, <1>5 DEF Kept

-------------------------------------------------------------------------------
(***************************************************************************)
(* Steps that leave the three sequences alone.                             *)
(***************************************************************************)
LEMMA Turns ==
  ASSUME Typed, NEW same, NEW next,
         \/ Goto(next)
         \/ NextCore(same, next)
         \/ SameCore(next)
         \/ UNCHANGED at /\ (UNCHANGED pos \/ pos' = pos + 1)
  PROVE  at' \in Cores /\ pos' \in Nat \ {0}
<1>1. 0 \in Cores /\ NumCores \in Nat
  BY CachesAssumption DEF Cores
<1>2. at \in Cores /\ pos \in Nat \ {0}
  BY DEF Typed
<1>3. CASE Goto(next)
  BY <1>1, <1>3 DEF Goto
<1>4. CASE NextCore(same, next)
  <2>1. CASE at = NumCores - 1
    BY <1>1, <1>4, <2>1 DEF NextCore, Goto
  <2>2. CASE at # NumCores - 1
    BY <1>1, <1>2, <1>4, <2>2 DEF NextCore, Cores
  <2> QED
    BY <2>1, <2>2
<1>5. CASE SameCore(next)
  BY <1>2, <1>5 DEF SameCore
<1>6. CASE UNCHANGED at /\ (UNCHANGED pos \/ pos' = pos + 1)
  BY <1>2, <1>6
<1> QED
  BY <1>3, <1>4, <1>5, <1>6

LEMMA NextTurnIsCore ==
  ASSUME Typed
  PROVE  NextTurn \in Cores
<1>1. core \in Int /\ NumCores \in Nat \ {0}
  BY CachesAssumption DEF Typed, Cores
<1>2. core + 1 \in Int
  BY <1>1
<1>3. (core + 1) % NumCores \in 0 .. NumCores - 1
  BY <1>1, <1>2
<1> QED
  BY <1>3 DEF NextTurn, Cores

LEMMA Quiet ==
  ASSUME Typed, Kept,
         UNCHANGED <<work, asked, dtlb_miss_buffer, l1_miss_buffer, answered>>,
         at' \in Cores, core' \in Cores, pos' \in Nat \ {0},
         l2_miss_buffer' \in [Cores -> Seq(MissL2)]
  PROVE  Typed' /\ Kept'
<1>1. Typed'
  BY DEF Typed
<1>2. Kept'
  BY DEF Kept, TakenIds
<1> QED
  BY <1>1, <1>2

\* An index that a loop over a buffer has come to.
LEMMA DueIndex ==
  ASSUME NEW S, NEW s \in Seq(S), NEW p \in Nat \ {0}, Due(s, p) # {}
  PROVE  Min(Due(s, p)) \in DOMAIN s
<1>1. Due(s, p) \subseteq DOMAIN s
  BY DEF Due
<1> QED
  BY <1>1, FirstIndex

LEMMA QuietSteps ==
  ASSUME Typed, Kept,
         \/ \E t \in at_memory : MemoryReplies(t)
         \/ Begin \/ MemoryCompletes \/ EndMemory \/ NoWalkOver
         \/ LLC_to_memory \/ RemoveFromL3 \/ EndL3 \/ ForwardNextCore \/ EndForward
         \/ EndAccessL2 \/ EndL2 \/ NoIcacheFill \/ EndL1
         \/ NoFetch \/ PortTaken \/ NoSearch
  PROVE  Typed' /\ Kept'
<1>0. /\ at \in Cores /\ core \in Cores /\ pos \in Nat \ {0}
      /\ l2_miss_buffer \in [Cores -> Seq(MissL2)]
  BY DEF Typed
<1>1. CASE \E t \in at_memory : MemoryReplies(t)
  BY <1>0, <1>1, Quiet DEF MemoryReplies, missVars, turnVars, askVars
<1>2. CASE Begin
  BY <1>0, <1>2, Turns, Quiet DEF Begin, missVars, turnVars, askVars
<1>3. CASE MemoryCompletes
  BY <1>0, <1>3, Quiet DEF MemoryCompletes, turnVars, askVars
<1>4. CASE EndMemory
  BY <1>0, <1>4, Turns, Quiet DEF EndMemory, missVars, turnVars, askVars
<1>5. CASE NoWalkOver
  BY <1>0, <1>5, Turns, Quiet DEF NoWalkOver, missVars, turnVars, askVars
<1>6. CASE LLC_to_memory
  BY <1>0, <1>6, Turns, Quiet DEF LLC_to_memory, turnVars, askVars
<1>7. CASE RemoveFromL3
  <2>1. pos' = Min(Due(l3_miss_buffer, pos)) + 1 /\ Due(l3_miss_buffer, pos) # {}
    BY <1>7 DEF RemoveFromL3, NextAfterErase
  <2>2. Min(Due(l3_miss_buffer, pos)) \in Nat
    <3>1. Due(l3_miss_buffer, pos) \in SUBSET Nat
      BY <1>0 DEF Due
    <3> QED
      BY <2>1, <3>1, FirstOf
  <2> QED
    BY <1>0, <1>7, <2>1, <2>2, Quiet DEF RemoveFromL3, turnVars, askVars
<1>8. CASE EndL3
  BY <1>0, <1>8, Turns, NextTurnIsCore, Quiet DEF EndL3, missVars, askVars
<1>9. CASE ForwardNextCore
  BY <1>0, <1>9, NextTurnIsCore, Quiet DEF ForwardNextCore, missVars, askVars
<1>10. CASE EndForward
  BY <1>0, <1>10, Turns, Quiet DEF EndForward, missVars, turnVars, askVars
<1>11. CASE EndAccessL2
  BY <1>0, <1>11, Turns, Quiet DEF EndAccessL2, missVars, askVars
<1>12. CASE EndL2
  BY <1>0, <1>12, Turns, Quiet DEF EndL2, missVars, turnVars, askVars
<1>13. CASE NoIcacheFill
  BY <1>0, <1>13, Turns, Quiet DEF NoIcacheFill, missVars, turnVars, askVars
<1>14. CASE EndL1
  BY <1>0, <1>14, Turns, Quiet DEF EndL1, missVars, turnVars, askVars
<1>15. CASE NoFetch
  BY <1>0, <1>15, Turns, Quiet DEF NoFetch, missVars, turnVars, askVars
<1>16. CASE PortTaken
  BY <1>0, <1>16, Turns, Quiet DEF PortTaken, missVars, turnVars, askVars
<1>17. CASE NoSearch
  BY <1>0, <1>17, Turns, Quiet DEF NoSearch, missVars, turnVars, askVars
<1> QED
  BY <1>1, <1>2, <1>3, <1>4, <1>5, <1>6, <1>7, <1>8, <1>9, <1>10, <1>11, <1>12,
     <1>13, <1>14, <1>15, <1>16, <1>17

-------------------------------------------------------------------------------
(***************************************************************************)
(* Steps that edit entries.                                                *)
(***************************************************************************)
LEMMA MissL2Fields ==
  ASSUME NEW e \in MissL2
  PROVE  /\ e.src \in Sources /\ e.id \in Nat
         /\ \A x \in Int : [e EXCEPT !.done = x] \in MissL2
         /\ \A x \in Int : [e EXCEPT !.at2 = x] \in MissL2
         /\ \A x, y \in Int : [e EXCEPT !.at2 = x, !.done = y] \in MissL2
BY DEF MissL2

LEMMA L2Edited ==
  ASSUME NEW b \in [Cores -> Seq(MissL2)], NEW c \in Cores, NEW i \in DOMAIN b[c],
         NEW e \in MissL2
  PROVE  [b EXCEPT ![c] = [b[c] EXCEPT ![i] = e]] \in [Cores -> Seq(MissL2)]
<1>1. [b[c] EXCEPT ![i] = e] \in Seq(MissL2)
  BY Changed
<1> QED
  BY <1>1

LEMMA Relabelled ==
  ASSUME Typed, Kept, UNCHANGED <<work, answered>>,
         asked' \in [Cores -> [Sources -> Nat]],
         \A c \in Cores : asked'[c]["D"] = asked[c]["D"],
         at' \in Cores, core' \in Cores, pos' \in Nat \ {0},
         l2_miss_buffer' \in [Cores -> Seq(MissL2)],
         dtlb_miss_buffer' \in [Cores -> Walks],
         l1_miss_buffer' \in [Cores -> [Sources -> Misses]],
         \A c \in Cores :
           /\ SameIds(dtlb_miss_buffer[c], dtlb_miss_buffer'[c])
           /\ SameAnswers(l1_miss_buffer[c]["D"], l1_miss_buffer'[c]["D"])
  PROVE  Typed' /\ Kept'
<1>1. Typed'
  BY DEF Typed
<1>2. ASSUME NEW c \in Cores
      PROVE  KeptIn(dtlb_miss_buffer'[c], l1_miss_buffer'[c]["D"], answered'[c],
                    TakenIds(c)')
  <2>1. KeptIn(dtlb_miss_buffer[c], l1_miss_buffer[c]["D"], answered[c], TakenIds(c))
    BY DEF Kept
  <2>2. KeptIn(dtlb_miss_buffer'[c], l1_miss_buffer'[c]["D"], answered[c], TakenIds(c))
    BY <2>1, KeptRelabelled
  <2>3. answered'[c] = answered[c] /\ TakenIds(c)' = TakenIds(c)
    BY DEF TakenIds
  <2> QED
    BY <2>2, <2>3
<1> QED
  BY <1>1, <1>2 DEF Kept

LEMMA SameAsItself == \A s : SameIds(s, s) /\ SameAnswers(s, s)
BY DEF SameIds, SameAnswers

\* One buffer of L1 is edited, that of the instructions in any way.
LEMMA OneBufferEdited ==
  ASSUME Typed, Kept, UNCHANGED <<work, answered, dtlb_miss_buffer>>,
         asked' \in [Cores -> [Sources -> Nat]],
         \A d \in Cores : asked'[d]["D"] = asked[d]["D"],
         at' \in Cores, core' \in Cores, pos' \in Nat \ {0},
         l2_miss_buffer' \in [Cores -> Seq(MissL2)],
         NEW c \in Cores, NEW s \in Sources, NEW v \in Misses,
         s = "D" => SameAnswers(l1_miss_buffer[c][s], v),
         l1_miss_buffer' = [l1_miss_buffer EXCEPT ![c] = [l1_miss_buffer[c] EXCEPT ![s] = v]]
  PROVE  Typed' /\ Kept'
<1>1. l1_miss_buffer \in [Cores -> [Sources -> Misses]] /\ "D" \in Sources
  BY DEF Typed, Sources
<1>2. l1_miss_buffer' \in [Cores -> [Sources -> Misses]]
  BY <1>1
<1>3. ASSUME NEW d \in Cores
      PROVE  SameAnswers(l1_miss_buffer[d]["D"], l1_miss_buffer'[d]["D"])
  <2>1. CASE d = c /\ s = "D"
    <3>1. l1_miss_buffer'[d]["D"] = v
      BY <1>1, <2>1
    <3> QED
      BY <2>1, <3>1, Zenon
  <2>2. CASE ~ (d = c /\ s = "D")
    <3>1. l1_miss_buffer'[d]["D"] = l1_miss_buffer[d]["D"]
      BY <1>1, <2>2
    <3> QED
      BY <3>1, SameAsItself
  <2> QED
    BY <2>1, <2>2
<1>4. /\ dtlb_miss_buffer' \in [Cores -> Walks]
      /\ \A d \in Cores : SameIds(dtlb_miss_buffer[d], dtlb_miss_buffer'[d])
  BY SameAsItself DEF Typed
<1> QED
  BY <1>2, <1>3, <1>4, Relabelled

LEMMA ForwardHitKeeps ==
  ASSUME Typed, Kept, ForwardHit
  PROVE  Typed' /\ Kept'
<1>. PICK i, e, mine :
       /\ i = Min(Waiting) /\ e = l2_miss_buffer[core][i]
       /\ mine = Named(l1_miss_buffer[core][e.src], e.id)
  OBVIOUS
<1>1. /\ Waiting # {}
      /\ l2_miss_buffer' = [l2_miss_buffer EXCEPT
                              ![core][i].at2 = Off, ![core][i].done = L3_HIT]
      /\ l1_miss_buffer' =
           IF mine = {} THEN l1_miss_buffer
           ELSE [l1_miss_buffer EXCEPT ![core][e.src][Min(mine)].done = L3_HIT]
      /\ UNCHANGED <<work, asked, answered, dtlb_miss_buffer, at, core, pos>>
  BY DEF ForwardHit, turnVars, askVars
<1>2. /\ at \in Cores /\ core \in Cores /\ pos \in Nat \ {0}
      /\ l2_miss_buffer \in [Cores -> Seq(MissL2)]
      /\ l1_miss_buffer \in [Cores -> [Sources -> Misses]]
      /\ L3_HIT \in Int /\ Off \in Int
  BY CachesAssumption DEF Typed, Off
<1>3. i \in DOMAIN l2_miss_buffer[core]
  <2>1. Waiting \subseteq DOMAIN l2_miss_buffer[core]
    BY DEF Waiting
  <2> QED
    BY <1>1, <1>2, <2>1, FirstIndex
<1>4. e \in MissL2 /\ e.src \in Sources
  <2>1. l2_miss_buffer[core] \in Seq(MissL2)
    BY <1>2
  <2>2. e \in MissL2
    BY <1>3, <2>1
  <2> QED
    BY <2>2, MissL2Fields
<1>5. l2_miss_buffer' \in [Cores -> Seq(MissL2)]
  <2>1. PICK f \in MissL2 : f = [e EXCEPT !.at2 = Off, !.done = L3_HIT]
    BY <1>2, <1>4, MissL2Fields
  <2>2. l2_miss_buffer' = [l2_miss_buffer EXCEPT
                            ![core] = [l2_miss_buffer[core] EXCEPT ![i] = f]]
    BY <1>1, <1>2, <1>3, <2>1
  <2> QED
    BY <1>2, <1>3, <2>2, L2Edited
<1>6. CASE mine = {}
  BY <1>1, <1>2, <1>5, <1>6, Quiet
<1>7. CASE mine # {}
  <2>. PICK j : j = Min(mine)
    OBVIOUS
  <2>1. j \in DOMAIN l1_miss_buffer[core][e.src]
    <3>1. mine \subseteq DOMAIN l1_miss_buffer[core][e.src]
      BY DEF Named
    <3>2. l1_miss_buffer[core][e.src] \in Seq(Miss)
      BY <1>2, <1>4 DEF Misses
    <3> QED
      BY <1>7, <3>1, <3>2, FirstIndex
  <2>. PICK m : m = l1_miss_buffer[core][e.src]
    OBVIOUS
  <2>2. m \in Misses /\ j \in DOMAIN m
    BY <1>2, <1>4, <2>1
  <2>. PICK v : v = [m EXCEPT ![j].done = L3_HIT]
    OBVIOUS
  <2>5. v \in Misses /\ SameAnswers(l1_miss_buffer[core][e.src], v)
    BY <1>2, <2>2, DoneSet
  <2>6. l1_miss_buffer' = [l1_miss_buffer EXCEPT
                            ![core] = [l1_miss_buffer[core] EXCEPT ![e.src] = v]]
    BY <1>1, <1>7
  <2>7. /\ asked' \in [Cores -> [Sources -> Nat]]
        /\ \A d \in Cores : asked'[d]["D"] = asked[d]["D"]
    BY <1>1 DEF Typed
  <2> QED
    <3>1. UNCHANGED <<work, answered, dtlb_miss_buffer>>
      BY <1>1
    <3>2. at' \in Cores /\ core' \in Cores /\ pos' \in Nat \ {0}
      BY <1>1, <1>2
    <3> QED
      BY <1>2, <1>4, <1>5, <2>5, <2>6, <2>7, <3>1, <3>2, OneBufferEdited
<1> QED
  BY <1>6, <1>7

LEMMA ForwardMissKeeps ==
  ASSUME Typed, Kept, ForwardMiss
  PROVE  Typed' /\ Kept'
<1>. PICK i, e : i = Min(Waiting) /\ e = l2_miss_buffer[core][i]
  OBVIOUS
<1>1. /\ Waiting # {}
      /\ l2_miss_buffer' = [l2_miss_buffer EXCEPT ![core][i].at2 = Off]
      /\ UNCHANGED <<work, asked, answered, dtlb_miss_buffer, l1_miss_buffer, core>>
      /\ Goto("l2")
  BY DEF ForwardMiss, turnVars, askVars
<1>2. /\ core \in Cores /\ l2_miss_buffer \in [Cores -> Seq(MissL2)] /\ Off \in Int
  BY DEF Typed, Off
<1>3. i \in DOMAIN l2_miss_buffer[core]
  <2>1. Waiting \subseteq DOMAIN l2_miss_buffer[core]
    BY DEF Waiting
  <2> QED
    BY <1>1, <1>2, <2>1, FirstIndex
<1>4. e \in MissL2
  <2>1. l2_miss_buffer[core] \in Seq(MissL2)
    BY <1>2
  <2> QED
    BY <1>3, <2>1
<1>5. PICK f \in MissL2 : f = [e EXCEPT !.at2 = Off]
  BY <1>2, <1>4, MissL2Fields
<1>6. l2_miss_buffer' = [l2_miss_buffer EXCEPT
                          ![core] = [l2_miss_buffer[core] EXCEPT ![i] = f]]
  BY <1>1, <1>2, <1>3, <1>5
<1>7. l2_miss_buffer' \in [Cores -> Seq(MissL2)]
  BY <1>2, <1>3, <1>6, L2Edited
<1> QED
  BY <1>1, <1>2, <1>7, Turns, Quiet

LEMMA RemoveFromL2Keeps ==
  ASSUME Typed, Kept, RemoveFromL2
  PROVE  Typed' /\ Kept'
<1>. PICK i : i = Min(Due(l2_miss_buffer[at], pos))
  OBVIOUS
<1>1. /\ Due(l2_miss_buffer[at], pos) # {}
      /\ l2_miss_buffer' = [l2_miss_buffer EXCEPT ![at] = RemoveAt(@, i)]
      /\ pos' = i + 1
      /\ UNCHANGED <<work, asked, answered, dtlb_miss_buffer, l1_miss_buffer, core, at>>
  BY DEF RemoveFromL2, turnVars, askVars, NextAfterErase
<1>2. /\ core \in Cores /\ at \in Cores /\ pos \in Nat \ {0}
      /\ l2_miss_buffer \in [Cores -> Seq(MissL2)]
  BY DEF Typed
<1>3. i \in DOMAIN l2_miss_buffer[at] /\ l2_miss_buffer[at] \in Seq(MissL2)
  BY <1>1, <1>2, DueIndex
<1>4. RemoveAt(l2_miss_buffer[at], i) \in Seq(MissL2) /\ i \in Nat
  BY <1>3, Removed
<1>5. l2_miss_buffer' \in [Cores -> Seq(MissL2)] /\ pos' \in Nat \ {0}
  BY <1>1, <1>2, <1>4
<1> QED
  BY <1>1, <1>2, <1>5, Quiet

LEMMA AccessL2Keeps ==
  ASSUME Typed, Kept, AccessL2
  PROVE  Typed' /\ Kept'
<1>. PICK s, i : s = Turn(at) /\ i = Min(L1Waiting(at, s))
  OBVIOUS
<1>. PICK m : m = l1_miss_buffer[at][s]
  OBVIOUS
<1>0. s \in Sources
  BY DEF Turn, Sources
<1>1. /\ pos' = pos + 1
      /\ UNCHANGED <<work, asked, answered, dtlb_miss_buffer, core, at>>
  BY DEF AccessL2, askVars
<1>2. /\ core \in Cores /\ at \in Cores /\ pos \in Nat \ {0} /\ pos + 1 \in Nat \ {0}
      /\ l1_miss_buffer \in [Cores -> [Sources -> Misses]]
      /\ l2_miss_buffer \in [Cores -> Seq(MissL2)]
      /\ L2_HIT \in Int /\ Off \in Int
      /\ asked \in [Cores -> [Sources -> Nat]]
  BY CachesAssumption DEF Typed, Off
<1>3. CASE L1Waiting(at, s) = {}
  <2>1. UNCHANGED <<l1_miss_buffer, l2_miss_buffer>>
    BY <1>3 DEF AccessL2
  <2> QED
    BY <1>1, <1>2, <2>1, Quiet
<1>4. CASE L1Waiting(at, s) # {}
  <2>1. i \in DOMAIN m /\ m \in Misses
    <3>1. m \in Seq(Miss) /\ m \in Misses
      BY <1>0, <1>2 DEF Misses
    <3>2. L1Waiting(at, s) \subseteq DOMAIN m
      BY DEF L1Waiting
    <3> QED
      BY <1>4, <3>1, <3>2, FirstIndex
  <2>2. m[i] \in Miss
    BY <2>1 DEF Misses
  <2>3. CASE Hit(l2s[at], m[i].line)
    <3>. PICK v : v = [m EXCEPT ![i] = [@ EXCEPT !.at1 = Off, !.done = L2_HIT]]
      OBVIOUS
    <3>1. v \in Misses /\ SameAnswers(l1_miss_buffer[at][s], v)
      BY <1>2, <2>1, TimesSet
    <3>2. /\ l1_miss_buffer' = [l1_miss_buffer EXCEPT ![at][s][i] =
                    [@ EXCEPT !.at1 = Off, !.done = L2_HIT]]
          /\ UNCHANGED l2_miss_buffer
      BY <1>4, <2>3 DEF AccessL2
    <3>3. l1_miss_buffer' = [l1_miss_buffer EXCEPT
                              ![at] = [l1_miss_buffer[at] EXCEPT ![s] = v]]
      BY <3>2, <1>0, <1>2
    <3>4. l2_miss_buffer' \in [Cores -> Seq(MissL2)]
      BY <1>2, <3>2
    <3> QED
      BY <1>0, <1>1, <1>2, <3>1, <3>3, <3>4, OneBufferEdited
  <2>4. CASE ~ Hit(l2s[at], m[i].line)
    <3>. PICK v : v = [m EXCEPT ![i].at1 = Off]
      OBVIOUS
    <3>. PICK e : e = [src |-> s, id |-> m[i].id, line |-> m[i].line,
                       write |-> m[i].write, at2 |-> L2_HIT, done |-> Off]
      OBVIOUS
    <3>1. v \in Misses /\ SameAnswers(l1_miss_buffer[at][s], v)
      BY <1>2, <2>1, At1Set
    <3>2. /\ l1_miss_buffer' = [l1_miss_buffer EXCEPT ![at][s][i].at1 = Off]
          /\ l2_miss_buffer' = [l2_miss_buffer EXCEPT ![at] = Append(@, e)]
      BY <1>4, <2>4 DEF AccessL2
    <3>3. l1_miss_buffer' = [l1_miss_buffer EXCEPT
                              ![at] = [l1_miss_buffer[at] EXCEPT ![s] = v]]
      BY <3>2, <1>0, <1>2
    <3>4. e \in MissL2
      <4>1. /\ m[i].id \in Nat /\ m[i].line \in Lines /\ m[i].write \in BOOLEAN
        BY <2>2 DEF Miss
      <4> QED
        BY <1>0, <1>2, <4>1 DEF MissL2
    <3>5. l2_miss_buffer' \in [Cores -> Seq(MissL2)]
      <4>1. Append(l2_miss_buffer[at], e) \in Seq(MissL2)
        BY <1>2, <3>4, Appended
      <4> QED
        BY <1>2, <3>2, <4>1
    <3> QED
      BY <1>0, <1>1, <1>2, <3>1, <3>3, <3>5, OneBufferEdited
  <2> QED
    BY <2>3, <2>4
<1> QED
  BY <1>3, <1>4

LEMMA FillIcacheKeeps ==
  ASSUME Typed, Kept, FillIcache
  PROVE  Typed' /\ Kept'
<1>. PICK m : m = l1_miss_buffer[at]["I"]
  OBVIOUS
<1>1. /\ m # <<>>
      /\ \/ l1_miss_buffer' = [l1_miss_buffer EXCEPT ![at]["I"] = Tail(@)]
         \/ UNCHANGED l1_miss_buffer
      /\ SameCore("dcache")
      /\ UNCHANGED <<work, asked, answered, dtlb_miss_buffer, l2_miss_buffer, core>>
  BY DEF FillIcache, Iready, turnVars, askVars
<1>2. /\ core \in Cores /\ at \in Cores /\ at' \in Cores /\ pos' \in Nat \ {0}
      /\ l1_miss_buffer \in [Cores -> [Sources -> Misses]]
      /\ l2_miss_buffer \in [Cores -> Seq(MissL2)]
      /\ asked \in [Cores -> [Sources -> Nat]]
      /\ "I" \in Sources
  BY <1>1, Turns DEF Typed, Sources
<1>3. CASE UNCHANGED l1_miss_buffer
  BY <1>1, <1>2, <1>3, Quiet
<1>4. CASE l1_miss_buffer' = [l1_miss_buffer EXCEPT ![at]["I"] = Tail(@)]
  <2>1. Tail(m) \in Misses
    BY <1>1, <1>2 DEF Misses
  <2>2. l1_miss_buffer' = [l1_miss_buffer EXCEPT
                            ![at] = [l1_miss_buffer[at] EXCEPT !["I"] = Tail(m)]]
    BY <1>4
  <2>3. /\ asked' \in [Cores -> [Sources -> Nat]]
        /\ \A d \in Cores : asked'[d]["D"] = asked[d]["D"]
        /\ l2_miss_buffer' \in [Cores -> Seq(MissL2)] /\ core' \in Cores
        /\ UNCHANGED <<work, answered, dtlb_miss_buffer>>
    BY <1>1, <1>2
  <2> QED
    BY <1>2, <2>1, <2>2, <2>3, OneBufferEdited
<1> QED
  BY <1>1, <1>3, <1>4

\* Instructions come and go without a trace in what is kept of the data.
LEMMA TakenKeeps ==
  ASSUME Typed, NEW c \in Cores, NEW s \in Sources, Taken(c, s)
  PROVE  /\ asked' \in [Cores -> [Sources -> Nat]]
         /\ asked'[c][s] = asked[c][s] + 1
         /\ \A d \in Cores, t \in Sources :
              ~ (d = c /\ t = s) => asked'[d][t] = asked[d][t]
<1>1. /\ asked \in [Cores -> [Sources -> Nat]]
      /\ asked' = [asked EXCEPT ![c][s] = asked[c][s] + 1]
  BY DEF Typed, Taken
<1>2. asked[c][s] \in Nat /\ asked[c][s] + 1 \in Nat
  BY <1>1
<1> QED
  BY <1>1, <1>2

LEMMA InstructionsTyped ==
  ASSUME Typed, NEW c \in Cores
  PROVE  work["I"][c] \in Seq(Lines)
<1>. PICK R : R = [line : Lines, write : BOOLEAN]
  OBVIOUS
<1>1. Workloads \subseteq [D : [Cores -> Seq(R)], I : [Cores -> Seq(Lines)]]
  BY CachesAssumption, Zenon DEF Cores
<1>2. work["I"] \in [Cores -> Seq(Lines)]
  BY <1>1 DEF Typed
<1> QED
  BY <1>2

LEMMA FetchInstKeeps ==
  ASSUME Typed, Kept, FetchInst
  PROVE  Typed' /\ Kept'
<1>. PICK n, line, m :
       /\ n = asked[at]["I"] + 1 /\ line = work["I"][at][n]
       /\ m = l1_miss_buffer[at]["I"]
  OBVIOUS
<1>1. /\ Ahead(at, "I") /\ Taken(at, "I")
      /\ SameCore("search")
      /\ UNCHANGED <<work, answered, dtlb_miss_buffer, l2_miss_buffer, core>>
      /\ \/ UNCHANGED l1_miss_buffer
         \/ l1_miss_buffer' = [l1_miss_buffer EXCEPT ![at]["I"] =
              Append(m, [id |-> n, line |-> line, write |-> FALSE, at1 |-> L1_HIT,
                         done |-> Off, dest |-> <<>>])]
  BY DEF FetchInst, turnVars
<1>2. /\ core \in Cores /\ at \in Cores /\ at' \in Cores /\ pos' \in Nat \ {0}
      /\ l1_miss_buffer \in [Cores -> [Sources -> Misses]]
      /\ l2_miss_buffer \in [Cores -> Seq(MissL2)]
      /\ asked \in [Cores -> [Sources -> Nat]]
      /\ "I" \in Sources /\ "D" \in Sources /\ "I" # "D"
  BY <1>1, Turns DEF Typed, Sources
<1>3. /\ asked' \in [Cores -> [Sources -> Nat]]
      /\ \A d \in Cores : asked'[d]["D"] = asked[d]["D"]
      /\ l2_miss_buffer' \in [Cores -> Seq(MissL2)] /\ core' \in Cores
      /\ UNCHANGED <<work, answered, dtlb_miss_buffer>>
  <2>1. /\ asked' \in [Cores -> [Sources -> Nat]]
        /\ \A d \in Cores, t \in Sources :
             ~ (d = at /\ t = "I") => asked'[d][t] = asked[d][t]
    <3>1. at \in Cores /\ "I" \in Sources /\ Taken(at, "I")
      BY <1>1, <1>2
    <3> QED
      BY <3>1, TakenKeeps
  <2>2. \A d \in Cores : asked'[d]["D"] = asked[d]["D"]
    BY <1>2, <2>1
  <2> QED
    BY <1>1, <1>2, <2>1, <2>2
<1>4. CASE UNCHANGED l1_miss_buffer
  <2>1. /\ dtlb_miss_buffer' \in [Cores -> Walks]
        /\ l1_miss_buffer' \in [Cores -> [Sources -> Misses]]
        /\ \A c \in Cores :
             /\ SameIds(dtlb_miss_buffer[c], dtlb_miss_buffer'[c])
             /\ SameAnswers(l1_miss_buffer[c]["D"], l1_miss_buffer'[c]["D"])
    BY <1>1, <1>4, SameAsItself DEF Typed
  <2>2. UNCHANGED <<work, answered>>
    BY <1>1
  <2> QED
    BY <1>2, <1>3, <2>1, <2>2, Relabelled
<1>5. CASE ~ UNCHANGED l1_miss_buffer
  <2>1. PICK e : e = [id |-> n, line |-> line, write |-> FALSE, at1 |-> L1_HIT,
                      done |-> Off, dest |-> <<>>]
    OBVIOUS
  <2>2. line \in Lines
    <3>1. PICK s : s = work["I"][at]
      OBVIOUS
    <3>2. s \in Seq(Lines)
      BY <1>2, <3>1, InstructionsTyped
    <3>3. asked[at]["I"] \in Nat /\ asked[at]["I"] < Len(s)
      BY <1>1, <1>2, <3>1 DEF Ahead
    <3>4. n \in DOMAIN s
      BY <3>2, <3>3
    <3>5. s[n] \in Lines
      BY <3>2, <3>4, ElementsTyped
    <3> QED
      BY <3>1, <3>5
  <2>3. e \in Miss
    <3>1. n \in Nat
      <4>1. asked[at]["I"] \in Nat
        BY <1>2
      <4> QED
        BY <4>1
    <3>2. L1_HIT \in Int /\ Off \in Int /\ <<>> \in Seq(Nat)
      BY CachesAssumption DEF Off
    <3> QED
      BY <2>1, <2>2, <3>1, <3>2 DEF Miss
  <2>4. Append(m, e) \in Misses
    BY <1>2, <2>3, Appended DEF Misses
  <2>5. l1_miss_buffer' = [l1_miss_buffer EXCEPT
                            ![at] = [l1_miss_buffer[at] EXCEPT !["I"] = Append(m, e)]]
    BY <1>1, <1>5, <2>1
  <2> QED
    BY <1>2, <1>3, <2>4, <2>5, OneBufferEdited
<1> QED
  BY <1>4, <1>5

LEMMA SoonerInt ==
  ASSUME NEW t \in Int
  PROVE  Sooner(t) \in Int
BY DEF Sooner

\* One entry.
LEMMA EntryL2Woken ==
  ASSUME NEW e \in MissL2, NEW f,
         \/ f = e
         \/ f = [e EXCEPT !.done = 0]
         \/ f = [e EXCEPT !.at2 = Sooner(@), !.done = Sooner(@)]
  PROVE  f \in MissL2
<1>1. e.at2 \in Int /\ e.done \in Int
  BY DEF MissL2
<1>2. PICK x \in Int, y \in Int : x = Sooner(e.at2) /\ y = Sooner(e.done)
  BY <1>1, SoonerInt
<1>3. [e EXCEPT !.done = 0] \in MissL2 /\ [e EXCEPT !.at2 = x, !.done = y] \in MissL2
  <2>1. 0 \in Int
    OBVIOUS
  <2> QED
    BY <2>1, MissL2Fields, Zenon
<1> QED
  BY <1>2, <1>3, Zenon

LEMMA MissDone ==
  ASSUME NEW e \in Miss, NEW y \in Int
  PROVE  /\ [e EXCEPT !.done = y] \in Miss
         /\ [e EXCEPT !.done = y].id = e.id /\ [e EXCEPT !.done = y].dest = e.dest
BY DEF Miss

LEMMA MissTimes ==
  ASSUME NEW e \in Miss, NEW x \in Int, NEW y \in Int
  PROVE  /\ [e EXCEPT !.at1 = x, !.done = y] \in Miss
         /\ [e EXCEPT !.at1 = x, !.done = y].id = e.id
         /\ [e EXCEPT !.at1 = x, !.done = y].dest = e.dest
BY DEF Miss

LEMMA EntryWoken ==
  ASSUME NEW e \in Miss, NEW f,
         \/ f = e
         \/ f = [e EXCEPT !.done = 0]
         \/ f = [e EXCEPT !.at1 = Sooner(@), !.done = Sooner(@)]
  PROVE  f \in Miss /\ f.id = e.id /\ f.dest = e.dest
<1>1. e.at1 \in Int /\ e.done \in Int
  BY DEF Miss
<1>2. PICK x \in Int, y \in Int : x = Sooner(e.at1) /\ y = Sooner(e.done)
  BY <1>1, SoonerInt
<1>3. /\ [e EXCEPT !.done = 0] \in Miss /\ [e EXCEPT !.at1 = x, !.done = y] \in Miss
      /\ [e EXCEPT !.done = 0].id = e.id /\ [e EXCEPT !.done = 0].dest = e.dest
      /\ [e EXCEPT !.at1 = x, !.done = y].id = e.id
      /\ [e EXCEPT !.at1 = x, !.done = y].dest = e.dest
  <2>1. PICK z \in Int : z = 0
    OBVIOUS
  <2>2. /\ [e EXCEPT !.done = z] \in Miss
        /\ [e EXCEPT !.done = z].id = e.id /\ [e EXCEPT !.done = z].dest = e.dest
    BY MissDone, Zenon
  <2>3. /\ [e EXCEPT !.at1 = x, !.done = y] \in Miss
        /\ [e EXCEPT !.at1 = x, !.done = y].id = e.id
        /\ [e EXCEPT !.at1 = x, !.done = y].dest = e.dest
    BY MissTimes, ZenonT(60)
  <2> QED
    BY <2>1, <2>2, <2>3, Zenon
<1> QED
  BY <1>2, <1>3, Zenon

LEMMA WalkWoken ==
  ASSUME NEW e \in Walk, NEW f, f = [e EXCEPT !.wait = Sooner(@)]
  PROVE  f \in Walk /\ f.id = e.id
<1>1. e.wait \in Int
  BY DEF Walk
<1>2. PICK x \in Int : x = Sooner(e.wait)
  BY <1>1, SoonerInt
<1>3. [e EXCEPT !.wait = x] \in Walk /\ [e EXCEPT !.wait = x].id = e.id
  BY DEF Walk
<1> QED
  BY <1>2, <1>3, Zenon

\* A buffer.
LEMMA MissWoken ==
  ASSUME NEW m \in Misses, NEW t, DOMAIN t = DOMAIN m,
         t = [i \in DOMAIN m |-> t[i]],
         \A i \in DOMAIN m : \/ t[i] = m[i]
                             \/ t[i] = [m[i] EXCEPT !.done = 0]
                             \/ t[i] = [m[i] EXCEPT !.at1 = Sooner(@), !.done = Sooner(@)]
  PROVE  t \in Misses /\ SameAnswers(m, t)
<1>1. \A i \in DOMAIN m : m[i] \in Miss
  BY ElementsTyped, Zenon DEF Misses
<1>2. \A i \in DOMAIN m : t[i] \in Miss /\ t[i].id = m[i].id /\ t[i].dest = m[i].dest
  BY <1>1, EntryWoken, Zenon
<1>3. t \in Misses
  BY <1>2, AllEdited DEF Misses
<1>4. SameAnswers(m, t)
  BY <1>2, Zenon DEF SameAnswers, SameIds
<1> QED
  BY <1>3, <1>4

LEMMA WalkSooner ==
  ASSUME NEW w \in Walks, NEW t, DOMAIN t = DOMAIN w,
         t = [i \in DOMAIN w |-> t[i]],
         \A i \in DOMAIN w : t[i] = [w[i] EXCEPT !.wait = Sooner(@)]
  PROVE  t \in Walks /\ SameIds(w, t)
<1>1. \A i \in DOMAIN w : w[i] \in Walk
  BY ElementsTyped, Zenon DEF Walks
<1>2. \A i \in DOMAIN w : t[i] \in Walk /\ t[i].id = w[i].id
  BY <1>1, WalkWoken, Zenon
<1>3. t \in Walks
  BY <1>2, AllEdited DEF Walks
<1>4. SameIds(w, t)
  BY <1>2, Zenon DEF SameIds
<1> QED
  BY <1>3, <1>4

\* All entries of all buffers are edited.
LEMMA BuffersEdited ==
  ASSUME Typed, Kept, UNCHANGED <<work, asked, answered, core>>,
         NEW next, Goto(next),
         dtlb_miss_buffer' = [c \in Cores |-> dtlb_miss_buffer'[c]],
         l1_miss_buffer' = [c \in Cores |-> [s \in Sources |-> l1_miss_buffer'[c][s]]],
         l2_miss_buffer' = [c \in Cores |-> l2_miss_buffer'[c]],
         \A c \in Cores :
           /\ dtlb_miss_buffer'[c] \in Walks
           /\ SameIds(dtlb_miss_buffer[c], dtlb_miss_buffer'[c]),
         \A c \in Cores, s \in Sources :
           /\ l1_miss_buffer'[c][s] \in Misses
           /\ SameAnswers(l1_miss_buffer[c][s], l1_miss_buffer'[c][s]),
         \A c \in Cores : l2_miss_buffer'[c] \in Seq(MissL2)
  PROVE  Typed' /\ Kept'
<1>1. /\ l2_miss_buffer' \in [Cores -> Seq(MissL2)]
      /\ dtlb_miss_buffer' \in [Cores -> Walks]
      /\ l1_miss_buffer' \in [Cores -> [Sources -> Misses]]
  <2>1. l2_miss_buffer' \in [Cores -> Seq(MissL2)]
    BY Zenon
  <2>2. dtlb_miss_buffer' \in [Cores -> Walks]
    BY Zenon
  <2>3. l1_miss_buffer' \in [Cores -> [Sources -> Misses]]
    <3>1. PICK g : /\ g = l1_miss_buffer'
                   /\ g = [c \in Cores |-> [s \in Sources |-> g[c][s]]]
                   /\ \A c \in Cores, s \in Sources : g[c][s] \in Misses
      BY Zenon
    <3>2. g \in [Cores -> [Sources -> Misses]]
      BY <3>1
    <3> QED
      BY <3>1, <3>2, Zenon
  <2> QED
    BY <2>1, <2>2, <2>3
<1>2. /\ at' \in Cores /\ pos' \in Nat \ {0} /\ core' \in Cores
  <2>1. at' \in Cores /\ pos' \in Nat \ {0}
    BY Turns, Zenon
  <2> QED
    BY <2>1, Zenon DEF Typed
<1>3. /\ asked' \in [Cores -> [Sources -> Nat]]
      /\ \A c \in Cores : asked'[c]["D"] = asked[c]["D"]
  BY Zenon DEF Typed
<1>4. \A c \in Cores :
           /\ SameIds(dtlb_miss_buffer[c], dtlb_miss_buffer'[c])
           /\ SameAnswers(l1_miss_buffer[c]["D"], l1_miss_buffer'[c]["D"])
  BY Zenon DEF Sources
<1>5. UNCHANGED <<work, answered>>
  BY Zenon
<1> QED
  BY <1>1, <1>2, <1>3, <1>4, <1>5, Relabelled, Zenon

LEMMA UpdateCachesKeeps ==
  ASSUME Typed, Kept, update_caches
  PROVE  Typed' /\ Kept'
<1>1. /\ Goto("dtlb")
      /\ UNCHANGED <<work, asked, answered, core, dtlb_miss_buffer>>
      /\ l2_miss_buffer' = [c \in Cores |-> l2_miss_buffer'[c]]
      /\ l1_miss_buffer' = [c \in Cores |-> [s \in Sources |-> l1_miss_buffer'[c][s]]]
      /\ dtlb_miss_buffer' = [c \in Cores |-> dtlb_miss_buffer'[c]]
  BY DEF update_caches, turnVars, askVars, Typed
<1>2. ASSUME NEW c \in Cores
      PROVE  l2_miss_buffer'[c] \in Seq(MissL2)
  <2>. PICK b, t : b = l2_miss_buffer[c] /\ t = l2_miss_buffer'[c]
    OBVIOUS
  <2>1. b \in MissesL2
    BY DEF Typed, MissesL2
  <2>2. /\ t = [i \in DOMAIN b |-> t[i]]
        /\ DOMAIN t = DOMAIN b
        /\ \A i \in DOMAIN b : t[i] = b[i] \/ t[i] = [b[i] EXCEPT !.done = 0]
    BY Zenon DEF update_caches
  <2>3. \A i \in DOMAIN b :
          \/ t[i] = b[i]
          \/ t[i] = [b[i] EXCEPT !.done = 0]
          \/ t[i] = [b[i] EXCEPT !.at2 = Sooner(@), !.done = Sooner(@)]
    BY <2>2, Zenon
  <2>4. t \in MissesL2
    <3>1. \A i \in DOMAIN b : b[i] \in MissL2
      BY <2>1, ElementsTyped, Zenon DEF MissesL2
    <3>2. \A i \in DOMAIN b : t[i] \in MissL2
      BY <2>3, <3>1, EntryL2Woken, Zenon
    <3>3. t \in [DOMAIN b -> MissL2]
      BY <2>2, <3>2
    <3> QED
      BY <2>1, <3>3, FunctionEdited DEF MissesL2
  <2> QED
    BY <2>4, Zenon DEF MissesL2
<1>3. ASSUME NEW c \in Cores, NEW s \in Sources
      PROVE  /\ l1_miss_buffer'[c][s] \in Misses
             /\ SameAnswers(l1_miss_buffer[c][s], l1_miss_buffer'[c][s])
  <2>. PICK b, t : b = l1_miss_buffer[c][s] /\ t = l1_miss_buffer'[c][s]
    OBVIOUS
  <2>1. b \in Misses
    BY DEF Typed
  <2>2. /\ t = [i \in DOMAIN b |-> t[i]]
        /\ DOMAIN t = DOMAIN b
        /\ \A i \in DOMAIN b : t[i] = b[i] \/ t[i] = [b[i] EXCEPT !.done = 0]
    BY Zenon DEF update_caches
  <2> QED
    BY <2>1, <2>2, MissWoken, Zenon
<1>4. \A c \in Cores :
           /\ dtlb_miss_buffer'[c] \in Walks
           /\ SameIds(dtlb_miss_buffer[c], dtlb_miss_buffer'[c])
  BY <1>1, SameAsItself DEF Typed
<1>5. UNCHANGED <<work, asked, answered, core>>
  BY <1>1
<1> QED
  BY <1>1, <1>2, <1>3, <1>4, <1>5, BuffersEdited, Zenon

LEMMA TickKeeps ==
  ASSUME Typed, Kept, Tick
  PROVE  Typed' /\ Kept'
<1>1. /\ Goto("start")
      /\ UNCHANGED <<work, asked, answered, core>>
      /\ l2_miss_buffer' = [c \in Cores |-> l2_miss_buffer'[c]]
      /\ l1_miss_buffer' = [c \in Cores |-> [s \in Sources |-> l1_miss_buffer'[c][s]]]
      /\ dtlb_miss_buffer' = [c \in Cores |-> dtlb_miss_buffer'[c]]
  BY DEF Tick, turnVars, askVars
<1>2. ASSUME NEW c \in Cores
      PROVE  l2_miss_buffer'[c] \in Seq(MissL2)
  <2>. PICK b, t : b = l2_miss_buffer[c] /\ t = l2_miss_buffer'[c]
    OBVIOUS
  <2>1. b \in MissesL2
    BY DEF Typed, MissesL2
  <2>2. /\ t = [i \in DOMAIN b |-> t[i]]
        /\ DOMAIN t = DOMAIN b
        /\ \A i \in DOMAIN b :
             t[i] = [b[i] EXCEPT !.at2 = Sooner(@), !.done = Sooner(@)]
    BY Zenon DEF Tick
  <2>3. \A i \in DOMAIN b :
          \/ t[i] = b[i]
          \/ t[i] = [b[i] EXCEPT !.done = 0]
          \/ t[i] = [b[i] EXCEPT !.at2 = Sooner(@), !.done = Sooner(@)]
    BY <2>2, Zenon
  <2>4. t \in MissesL2
    <3>1. \A i \in DOMAIN b : b[i] \in MissL2
      BY <2>1, ElementsTyped, Zenon DEF MissesL2
    <3>2. \A i \in DOMAIN b : t[i] \in MissL2
      BY <2>3, <3>1, EntryL2Woken, Zenon
    <3>3. t \in [DOMAIN b -> MissL2]
      BY <2>2, <3>2
    <3> QED
      BY <2>1, <3>3, FunctionEdited DEF MissesL2
  <2> QED
    BY <2>4, Zenon DEF MissesL2
<1>3. ASSUME NEW c \in Cores, NEW s \in Sources
      PROVE  /\ l1_miss_buffer'[c][s] \in Misses
             /\ SameAnswers(l1_miss_buffer[c][s], l1_miss_buffer'[c][s])
  <2>. PICK b, t : b = l1_miss_buffer[c][s] /\ t = l1_miss_buffer'[c][s]
    OBVIOUS
  <2>1. b \in Misses
    BY DEF Typed
  <2>2. /\ t = [i \in DOMAIN b |-> t[i]]
        /\ DOMAIN t = DOMAIN b
        /\ \A i \in DOMAIN b :
             t[i] = [b[i] EXCEPT !.at1 = Sooner(@), !.done = Sooner(@)]
    BY Zenon DEF Tick
  <2> QED
    BY <2>1, <2>2, MissWoken, Zenon
<1>4. ASSUME NEW c \in Cores
      PROVE  /\ dtlb_miss_buffer'[c] \in Walks
             /\ SameIds(dtlb_miss_buffer[c], dtlb_miss_buffer'[c])
  <2>. PICK b, t : b = dtlb_miss_buffer[c] /\ t = dtlb_miss_buffer'[c]
    OBVIOUS
  <2>1. b \in Walks
    BY DEF Typed
  <2>2. /\ t = [i \in DOMAIN b |-> t[i]]
        /\ DOMAIN t = DOMAIN b
        /\ \A i \in DOMAIN b : t[i] = [b[i] EXCEPT !.wait = Sooner(@)]
    BY Zenon DEF Tick
  <2> QED
    BY <2>1, <2>2, WalkSooner, Zenon
<1> QED
  BY <1>1, <1>2, <1>3, <1>4, BuffersEdited, Zenon

-------------------------------------------------------------------------------
(***************************************************************************)
(* Steps that move a load or store.                                        *)
(***************************************************************************)
LEMMA CoreChanged ==
  ASSUME Typed, Kept, UNCHANGED <<work, core>>,
         at' \in Cores, pos' \in Nat \ {0},
         l2_miss_buffer' \in [Cores -> Seq(MissL2)],
         asked' \in [Cores -> [Sources -> Nat]],
         NEW c \in Cores, NEW w \in Walks, NEW m \in Misses, NEW a \in Seq(Nat),
         \A d \in Cores : d # c => asked'[d]["D"] = asked[d]["D"],
         dtlb_miss_buffer' = [dtlb_miss_buffer EXCEPT ![c] = w],
         l1_miss_buffer' = [l1_miss_buffer EXCEPT
                              ![c] = [l1_miss_buffer[c] EXCEPT !["D"] = m]],
         answered' = [answered EXCEPT ![c] = a],
         KeptIn(w, m, a, 0 .. asked'[c]["D"] - 1)
  PROVE  Typed' /\ Kept'
<1>1. /\ l1_miss_buffer \in [Cores -> [Sources -> Misses]] /\ "D" \in Sources
      /\ dtlb_miss_buffer \in [Cores -> Walks] /\ answered \in [Cores -> Seq(Nat)]
      /\ core' \in Cores
  BY DEF Typed, Sources
<1>2. /\ l1_miss_buffer' \in [Cores -> [Sources -> Misses]]
      /\ dtlb_miss_buffer' \in [Cores -> Walks] /\ answered' \in [Cores -> Seq(Nat)]
  BY <1>1
<1>3. Typed'
  BY <1>1, <1>2 DEF Typed
<1>4. ASSUME NEW d \in Cores
      PROVE  KeptIn(dtlb_miss_buffer'[d], l1_miss_buffer'[d]["D"], answered'[d],
                    0 .. asked'[d]["D"] - 1)
  <2>1. CASE d = c
    <3>1. /\ dtlb_miss_buffer'[d] = w /\ l1_miss_buffer'[d]["D"] = m
          /\ answered'[d] = a
      BY <1>1, <2>1
    <3> QED
      BY <2>1, <3>1
  <2>2. CASE d # c
    <3>1. /\ dtlb_miss_buffer'[d] = dtlb_miss_buffer[d]
          /\ l1_miss_buffer'[d]["D"] = l1_miss_buffer[d]["D"]
          /\ answered'[d] = answered[d] /\ asked'[d]["D"] = asked[d]["D"]
      BY <1>1, <2>2
    <3>2. KeptIn(dtlb_miss_buffer[d], l1_miss_buffer[d]["D"], answered[d],
                 0 .. asked[d]["D"] - 1)
      BY DEF Kept, TakenIds
    <3> QED
      BY <3>1, <3>2
  <2> QED
    BY <2>1, <2>2
<1> QED
  BY <1>3, <1>4 DEF Kept, TakenIds

\* dcache_hit and dcache_miss put the load or store where it is not yet.
LEMMA Entered ==
  ASSUME Typed, NEW c \in Cores, NEW r, NEW w, NEW T,
         r.id \in Nat, r.line \in Lines, r.write \in BOOLEAN, r.id \notin T,
         KeptIn(w, l1_miss_buffer[c]["D"], answered[c], T),
         dcache_hit(c, r) \/ dcache_miss(c, r)
  PROVE  \E m \in Misses, a \in Seq(Nat) :
           /\ l1_miss_buffer' = [l1_miss_buffer EXCEPT
                                   ![c] = [l1_miss_buffer[c] EXCEPT !["D"] = m]]
           /\ answered' = [answered EXCEPT ![c] = a]
           /\ KeptIn(w, m, a, T \union {r.id})
<1>. PICK m, a : m = l1_miss_buffer[c]["D"] /\ a = answered[c]
  OBVIOUS
<1>1. /\ m \in Misses /\ a \in Seq(Nat)
      /\ l1_miss_buffer \in [Cores -> [Sources -> Misses]]
      /\ answered \in [Cores -> Seq(Nat)] /\ "D" \in Sources
  BY DEF Typed, Sources
<1>2. /\ l1_miss_buffer = [l1_miss_buffer EXCEPT
                             ![c] = [l1_miss_buffer[c] EXCEPT !["D"] = m]]
      /\ answered = [answered EXCEPT ![c] = a]
  BY <1>1
<1>3. CASE dcache_hit(c, r)
  <2>1. KeptIn(w, m, Append(a, r.id), T \union {r.id})
    BY <1>1, KeptAnswer
  <2>2. Append(a, r.id) \in Seq(Nat)
    BY <1>1
  <2>3. answered' = [answered EXCEPT ![c] = Append(a, r.id)] /\ UNCHANGED l1_miss_buffer
    BY <1>3 DEF dcache_hit
  <2> QED
    BY <1>1, <1>2, <2>1, <2>2, <2>3, Zenon
<1>4. CASE dcache_miss(c, r)
  <2>. PICK same : same = SameLine(m, r.line)
    OBVIOUS
  <2>0. UNCHANGED answered
    BY <1>4 DEF dcache_miss
  <2>1. CASE same # {}
    <3>. PICK n : n = Min(same)
      OBVIOUS
    <3>1. n \in DOMAIN m
      <4>1. same \subseteq DOMAIN m /\ m \in Seq(Miss)
        BY <1>1 DEF SameLine, Misses
      <4> QED
        BY <2>1, <4>1, FirstIndex
    <3>0. l1_miss_buffer' =
            [l1_miss_buffer EXCEPT ![c]["D"] = [m EXCEPT ![n].dest = Append(@, r.id)]]
      BY <1>4, <2>1 DEF dcache_miss
    <3>. PICK v : v = [m EXCEPT ![n].dest = Append(@, r.id)]
      OBVIOUS
    <3>2. v \in Misses /\ KeptIn(w, v, a, T \union {r.id})
      <4>1. r.id \in Nat /\ r.id \notin T /\ KeptIn(w, m, a, T)
        BY Zenon
      <4> QED
        BY <1>1, <3>1, <4>1, KeptBehind, ZenonT(60)
    <3>3. l1_miss_buffer' = [l1_miss_buffer EXCEPT
                              ![c] = [l1_miss_buffer[c] EXCEPT !["D"] = v]]
      <4>1. l1_miss_buffer' = [l1_miss_buffer EXCEPT ![c]["D"] = v]
        BY <3>0, Zenon
      <4> QED
        BY <4>1
    <3> QED
      BY <1>1, <1>2, <2>0, <3>2, <3>3, Zenon
  <2>2. CASE same = {}
    <3>. PICK e : e = [id |-> r.id, line |-> r.line, write |-> r.write,
                       at1 |-> L1_HIT, done |-> Off, dest |-> <<>>]
      OBVIOUS
    <3>1. e \in Miss /\ e.dest = <<>> /\ e.id = r.id
      <4>1. L1_HIT \in Int /\ Off \in Int /\ <<>> \in Seq(Nat)
        BY CachesAssumption DEF Off
      <4> QED
        BY <4>1 DEF Miss
    <3>2. KeptIn(w, Append(m, e), a, T \union {r.id})
      <4>1. e.id \notin T
        BY <3>1, Zenon
      <4>2. KeptIn(w, Append(m, e), a, T \union {e.id})
        BY <1>1, <3>1, <4>1, KeptMiss
      <4> QED
        BY <3>1, <4>2, Zenon
    <3>3. Append(m, e) \in Misses
      BY <1>1, <3>1, Appended DEF Misses
    <3>4. l1_miss_buffer' = [l1_miss_buffer EXCEPT
                              ![c] = [l1_miss_buffer[c] EXCEPT !["D"] = Append(m, e)]]
      BY <1>4, <2>2 DEF dcache_miss
    <3> QED
      BY <1>1, <1>2, <2>0, <3>2, <3>3, <3>4, Zenon
  <2> QED
    BY <2>1, <2>2
<1> QED
  BY <1>3, <1>4

LEMMA RequestTyped ==
  ASSUME Typed, NEW c \in Cores, Ahead(c, "D")
  PROVE  /\ Request(c).id = asked[c]["D"] /\ asked[c]["D"] \in Nat
         /\ Request(c).line \in Lines /\ Request(c).write \in BOOLEAN
<1>. PICK s, n : s = work["D"][c] /\ n = asked[c]["D"] + 1
  OBVIOUS
<1>. PICK R : R = [line : Lines, write : BOOLEAN]
  OBVIOUS
<1>1. s \in Seq(R)
  <2>1. Workloads \subseteq [D : [Cores -> Seq(R)], I : [Cores -> Seq(Lines)]]
    BY CachesAssumption, Zenon DEF Cores
  <2>2. work["D"] \in [Cores -> Seq(R)]
    BY <2>1 DEF Typed
  <2> QED
    BY <2>2
<1>2. asked[c]["D"] \in Nat
  BY DEF Typed, Sources
<1>3. n \in DOMAIN s
  BY <1>1, <1>2 DEF Ahead
<1>4. s[n] \in R
  BY <1>1, <1>3, ElementsTyped
<1>5. s[n].line \in Lines /\ s[n].write \in BOOLEAN
  BY <1>4
<1>6. Request(c) = [id |-> n - 1, line |-> s[n].line, write |-> s[n].write]
  BY Zenon DEF Request
<1>7. n - 1 = asked[c]["D"]
  BY <1>2
<1> QED
  BY <1>2, <1>5, <1>6, <1>7

\* The ids of those taken, when one more is.
LEMMA OneMoreTaken ==
  ASSUME NEW n \in Nat
  PROVE  0 .. (n + 1) - 1 = (0 .. n - 1) \union {n} /\ n \notin 0 .. n - 1
OBVIOUS

LEMMA SearchL1Keeps ==
  ASSUME Typed, Kept, SearchL1
  PROVE  Typed' /\ Kept'
<1>. PICK r, n : r = Request(at) /\ n = asked[at]["D"]
  OBVIOUS
<1>1. /\ Ahead(at, "D") /\ Taken(at, "D")
      /\ dcache_hit(at, r) \/ dcache_miss(at, r)
      /\ NextCore("fetch", "end")
      /\ UNCHANGED <<work, core, dtlb_miss_buffer, l2_miss_buffer>>
  BY DEF SearchL1, turnVars
<1>2. /\ at \in Cores /\ "D" \in Sources /\ at' \in Cores /\ pos' \in Nat \ {0}
      /\ dtlb_miss_buffer \in [Cores -> Walks]
      /\ l2_miss_buffer \in [Cores -> Seq(MissL2)]
  BY <1>1, Turns DEF Typed, Sources
<1>3. /\ asked' \in [Cores -> [Sources -> Nat]] /\ asked'[at]["D"] = n + 1
      /\ \A d \in Cores : d # at => asked'[d]["D"] = asked[d]["D"]
  BY <1>1, <1>2, TakenKeeps
<1>4. r.id = n /\ n \in Nat /\ r.line \in Lines /\ r.write \in BOOLEAN
  BY <1>1, <1>2, RequestTyped
<1>5. KeptIn(dtlb_miss_buffer[at], l1_miss_buffer[at]["D"], answered[at], 0 .. n - 1)
  BY <1>2 DEF Kept, TakenIds
<1>6. n \notin 0 .. n - 1 /\ 0 .. (n + 1) - 1 = (0 .. n - 1) \union {n}
  BY <1>4, OneMoreTaken
<1>7. PICK m \in Misses, a \in Seq(Nat) :
        /\ l1_miss_buffer' = [l1_miss_buffer EXCEPT
                                ![at] = [l1_miss_buffer[at] EXCEPT !["D"] = m]]
        /\ answered' = [answered EXCEPT ![at] = a]
        /\ KeptIn(dtlb_miss_buffer[at], m, a, (0 .. n - 1) \union {n})
  <2>1. r.id \in Nat /\ r.id \notin 0 .. n - 1
    BY <1>4, <1>6
  <2>2. \E m \in Misses, a \in Seq(Nat) :
          /\ l1_miss_buffer' = [l1_miss_buffer EXCEPT
                                  ![at] = [l1_miss_buffer[at] EXCEPT !["D"] = m]]
          /\ answered' = [answered EXCEPT ![at] = a]
          /\ KeptIn(dtlb_miss_buffer[at], m, a, (0 .. n - 1) \union {r.id})
    BY <1>1, <1>2, <1>4, <1>5, <2>1, Entered, Zenon
  <2> QED
    BY <1>4, <2>2, Zenon
<1>8. KeptIn(dtlb_miss_buffer[at], m, a, 0 .. asked'[at]["D"] - 1)
  BY <1>3, <1>6, <1>7, Zenon
<1>9. /\ dtlb_miss_buffer' = [dtlb_miss_buffer EXCEPT ![at] = dtlb_miss_buffer[at]]
      /\ dtlb_miss_buffer[at] \in Walks
      /\ l2_miss_buffer' \in [Cores -> Seq(MissL2)]
      /\ UNCHANGED <<work, core>>
  BY <1>1, <1>2
<1> QED
  BY <1>2, <1>3, <1>7, <1>8, <1>9, CoreChanged, Zenon

LEMMA DtlbMissKeeps ==
  ASSUME Typed, Kept, DTLB_MISS
  PROVE  Typed' /\ Kept'
<1>. PICK r, n, w : /\ r = Request(at) /\ n = asked[at]["D"]
                    /\ w = dtlb_miss_buffer[at]
  OBVIOUS
<1>1. /\ Ahead(at, "D") /\ Taken(at, "D")
      /\ NextCore("fetch", "end")
      /\ UNCHANGED <<work, core, answered, l1_miss_buffer, l2_miss_buffer>>
  BY DEF DTLB_MISS, turnVars
<1>2. /\ at \in Cores /\ "D" \in Sources /\ at' \in Cores /\ pos' \in Nat \ {0}
      /\ dtlb_miss_buffer \in [Cores -> Walks]
      /\ l1_miss_buffer \in [Cores -> [Sources -> Misses]]
      /\ l2_miss_buffer \in [Cores -> Seq(MissL2)]
      /\ answered \in [Cores -> Seq(Nat)]
  BY <1>1, Turns DEF Typed, Sources
<1>3. /\ asked' \in [Cores -> [Sources -> Nat]] /\ asked'[at]["D"] = n + 1
      /\ \A d \in Cores : d # at => asked'[d]["D"] = asked[d]["D"]
  BY <1>1, <1>2, TakenKeeps
<1>4. r.id = n /\ n \in Nat /\ r.line \in Lines /\ r.write \in BOOLEAN
  BY <1>1, <1>2, RequestTyped
<1>5. KeptIn(w, l1_miss_buffer[at]["D"], answered[at], 0 .. n - 1)
  BY <1>2 DEF Kept, TakenIds
<1>6. n \notin 0 .. n - 1 /\ 0 .. (n + 1) - 1 = (0 .. n - 1) \union {n}
  BY <1>4, OneMoreTaken
<1>7. PICK cycles \in WalkCycles :
        dtlb_miss_buffer' = [dtlb_miss_buffer EXCEPT ![at] =
          Append(w, [id |-> r.id, line |-> r.line, write |-> r.write,
                     wait |-> cycles])]
  BY DEF DTLB_MISS
<1>8. PICK e : e = [id |-> r.id, line |-> r.line, write |-> r.write, wait |-> cycles]
  OBVIOUS
<1>9. e \in Walk /\ e.id = n
  <2>1. cycles \in Int
    BY CachesAssumption
  <2> QED
    BY <1>4, <1>8, <2>1 DEF Walk
<1>10. w \in Walks /\ Append(w, e) \in Walks
  BY <1>2, <1>9, Appended DEF Walks
<1>11. KeptIn(Append(w, e), l1_miss_buffer[at]["D"], answered[at],
              0 .. asked'[at]["D"] - 1)
  <2>1. e.id \notin 0 .. n - 1
    BY <1>6, <1>9
  <2>2. KeptIn(Append(w, e), l1_miss_buffer[at]["D"], answered[at],
               (0 .. n - 1) \union {e.id})
    BY <1>5, <1>9, <1>10, <2>1, KeptWalk
  <2> QED
    BY <1>3, <1>6, <1>9, <2>2, Zenon
<1>12. /\ l1_miss_buffer' = [l1_miss_buffer EXCEPT ![at] =
                               [l1_miss_buffer[at] EXCEPT
                                  !["D"] = l1_miss_buffer[at]["D"]]]
       /\ answered' = [answered EXCEPT ![at] = answered[at]]
       /\ l1_miss_buffer[at]["D"] \in Misses /\ answered[at] \in Seq(Nat)
       /\ l2_miss_buffer' \in [Cores -> Seq(MissL2)]
       /\ UNCHANGED <<work, core>>
  BY <1>1, <1>2
<1>13. dtlb_miss_buffer' = [dtlb_miss_buffer EXCEPT ![at] = Append(w, e)]
  BY <1>7, <1>8, Zenon
<1> QED
  BY <1>2, <1>3, <1>10, <1>11, <1>12, <1>13, CoreChanged, Zenon

LEMMA RemoveFromL1Keeps ==
  ASSUME Typed, Kept, RemoveFromL1
  PROVE  Typed' /\ Kept'
<1>. PICK m, i, a : /\ m = l1_miss_buffer[at]["D"] /\ i = Min(Due(m, pos))
                    /\ a = answered[at]
  OBVIOUS
<1>1. /\ Due(m, pos) # {}
      /\ l1_miss_buffer' = [l1_miss_buffer EXCEPT ![at]["D"] = RemoveAt(m, i)]
      /\ answered' = [answered EXCEPT ![at] = a \o AllAnswers(m[i])]
      /\ pos' = i + 1
      /\ UNCHANGED <<work, asked, core, dtlb_miss_buffer, l2_miss_buffer, at>>
  BY DEF RemoveFromL1, turnVars, NextAfterErase
<1>2. /\ at \in Cores /\ "D" \in Sources /\ pos \in Nat \ {0}
      /\ dtlb_miss_buffer \in [Cores -> Walks]
      /\ l1_miss_buffer \in [Cores -> [Sources -> Misses]]
      /\ l2_miss_buffer \in [Cores -> Seq(MissL2)]
      /\ answered \in [Cores -> Seq(Nat)]
      /\ asked \in [Cores -> [Sources -> Nat]]
  BY DEF Typed, Sources
<1>3. m \in Misses /\ a \in Seq(Nat) /\ dtlb_miss_buffer[at] \in Walks
  BY <1>2
<1>4. i \in DOMAIN m /\ i \in Nat
  <2>1. m \in Seq(Miss)
    BY <1>3 DEF Misses
  <2>2. i \in DOMAIN m
    BY <1>1, <1>2, <2>1, DueIndex
  <2> QED
    BY <2>1, <2>2
<1>5. KeptIn(dtlb_miss_buffer[at], m, a, 0 .. asked[at]["D"] - 1)
  BY <1>2 DEF Kept, TakenIds
<1>. PICK v, b : v = RemoveAt(m, i) /\ b = a \o AllAnswers(m[i])
  OBVIOUS
<1>6. /\ v \in Misses /\ b \in Seq(Nat)
      /\ KeptIn(dtlb_miss_buffer[at], v, b, 0 .. asked[at]["D"] - 1)
  BY <1>3, <1>4, <1>5, KeptWithoutMiss
<1>7. /\ l1_miss_buffer' = [l1_miss_buffer EXCEPT
                             ![at] = [l1_miss_buffer[at] EXCEPT !["D"] = v]]
      /\ answered' = [answered EXCEPT ![at] = b]
      /\ dtlb_miss_buffer' = [dtlb_miss_buffer EXCEPT ![at] = dtlb_miss_buffer[at]]
  <2>1. /\ l1_miss_buffer' = [l1_miss_buffer EXCEPT ![at]["D"] = v]
        /\ answered' = [answered EXCEPT ![at] = b]
    BY <1>1, Zenon
  <2>2. dtlb_miss_buffer' = [dtlb_miss_buffer EXCEPT ![at] = dtlb_miss_buffer[at]]
    BY <1>1, <1>2
  <2> QED
    BY <2>1, <2>2
<1>8. /\ asked' \in [Cores -> [Sources -> Nat]] /\ asked'[at]["D"] = asked[at]["D"]
      /\ \A d \in Cores : d # at => asked'[d]["D"] = asked[d]["D"]
      /\ at' \in Cores /\ pos' \in Nat \ {0}
      /\ l2_miss_buffer' \in [Cores -> Seq(MissL2)]
      /\ UNCHANGED <<work, core>>
  BY <1>1, <1>2, <1>4
<1>9. KeptIn(dtlb_miss_buffer[at], v, b, 0 .. asked'[at]["D"] - 1)
  BY <1>6, <1>8, Zenon
<1> QED
  BY <1>2, <1>3, <1>6, <1>7, <1>8, <1>9, CoreChanged, Zenon

LEMMA DtlbUpdateKeeps ==
  ASSUME Typed, Kept, dtlb_mshr_update
  PROVE  Typed' /\ Kept'
<1>. PICK i, w, r, n : /\ i = Min(WalksOver(at)) /\ w = dtlb_miss_buffer[at]
                       /\ r = w[i] /\ n = asked[at]["D"]
  OBVIOUS
<1>1. /\ WalksOver(at) # {}
      /\ NextCore("dtlb", "llc")
      /\ UNCHANGED <<work, asked, core, l2_miss_buffer>>
      /\ \/ /\ dcache_hit(at, r) \/ dcache_miss(at, r)
            /\ dtlb_miss_buffer' = [dtlb_miss_buffer EXCEPT ![at] = RemoveAt(w, i)]
         \/ UNCHANGED <<l1_miss_buffer, answered, dtlb_miss_buffer>>
  BY DEF dtlb_mshr_update, turnVars
<1>2. /\ at \in Cores /\ "D" \in Sources /\ at' \in Cores /\ pos' \in Nat \ {0}
      /\ core' \in Cores
      /\ dtlb_miss_buffer \in [Cores -> Walks]
      /\ l2_miss_buffer' \in [Cores -> Seq(MissL2)]
      /\ asked' \in [Cores -> [Sources -> Nat]]
      /\ asked'[at]["D"] = n
      /\ \A d \in Cores : d # at => asked'[d]["D"] = asked[d]["D"]
  BY <1>1, Turns DEF Typed, Sources
<1>3. CASE UNCHANGED <<l1_miss_buffer, answered, dtlb_miss_buffer>>
  BY <1>1, <1>2, <1>3, Quiet
<1>4. CASE /\ dcache_hit(at, r) \/ dcache_miss(at, r)
           /\ dtlb_miss_buffer' = [dtlb_miss_buffer EXCEPT ![at] = RemoveAt(w, i)]
  <2>1. w \in Walks
    BY <1>2
  <2>2. i \in DOMAIN w
    <3>1. WalksOver(at) \subseteq DOMAIN w /\ w \in Seq(Walk)
      BY <2>1 DEF WalksOver, Walks
    <3> QED
      BY <1>1, <3>1, FirstIndex
  <2>3. KeptIn(w, l1_miss_buffer[at]["D"], answered[at], 0 .. n - 1)
    BY <1>2 DEF Kept, TakenIds
  <2>. PICK v, T : v = RemoveAt(w, i) /\ T = (0 .. n - 1) \ {r.id}
    OBVIOUS
  <2>4. /\ v \in Walks /\ r \in Walk /\ r.id \in 0 .. n - 1
        /\ KeptIn(v, l1_miss_buffer[at]["D"], answered[at], T)
    BY <2>1, <2>2, <2>3, KeptWithoutWalk
  <2>5. r.id \in Nat /\ r.line \in Lines /\ r.write \in BOOLEAN
    BY <2>4 DEF Walk
  <2>6. r.id \notin T /\ T \union {r.id} = 0 .. n - 1
    BY <2>4
  <2>7. PICK m \in Misses, a \in Seq(Nat) :
          /\ l1_miss_buffer' = [l1_miss_buffer EXCEPT
                                  ![at] = [l1_miss_buffer[at] EXCEPT !["D"] = m]]
          /\ answered' = [answered EXCEPT ![at] = a]
          /\ KeptIn(v, m, a, T \union {r.id})
    <3>1. dcache_hit(at, r) \/ dcache_miss(at, r)
      BY <1>4, Zenon
    <3>2. at \in Cores /\ KeptIn(v, l1_miss_buffer[at]["D"], answered[at], T)
      BY <1>2, <2>4, Zenon
    <3>3. r.id \notin T
      BY <2>6, Zenon
    <3> QED
      BY <2>5, <3>1, <3>2, <3>3, Entered, ZenonT(60)
  <2>8. KeptIn(v, m, a, 0 .. asked'[at]["D"] - 1)
    BY <1>2, <2>6, <2>7, Zenon
  <2>9. /\ dtlb_miss_buffer' = [dtlb_miss_buffer EXCEPT ![at] = v]
        /\ UNCHANGED <<work, core>>
    BY <1>1, <1>4, Zenon
  <2> QED
    BY <1>2, <2>4, <2>7, <2>8, <2>9, CoreChanged, Zenon
<1> QED
  BY <1>1, <1>3, <1>4

-------------------------------------------------------------------------------
(***************************************************************************)
(* The invariant, and the property that follows from it.                   *)
(***************************************************************************)
LEMMA Steps ==
  ASSUME Typed, Kept, [Next]_vars
  PROVE  Typed' /\ Kept'
<1>1. CASE UNCHANGED vars
  <2>1. UNCHANGED <<work, asked, dtlb_miss_buffer, l1_miss_buffer, answered,
                    at, core, pos, l2_miss_buffer>>
    BY <1>1 DEF vars, missVars, askVars, turnVars
  <2>2. /\ at' \in Cores /\ core' \in Cores /\ pos' \in Nat \ {0}
        /\ l2_miss_buffer' \in [Cores -> Seq(MissL2)]
    BY <2>1 DEF Typed
  <2> QED
    BY <2>1, <2>2, Quiet
<1>2. CASE Next
  <2>1. CASE Replies
    BY <2>1, QuietSteps DEF Replies
  <2>2. CASE FetchInst
    BY <2>2, FetchInstKeeps
  <2>3. CASE Search
    BY <2>3, SearchL1Keeps, DtlbMissKeeps DEF Search
  <2>4. CASE Cycle
    <3>1. CASE Update
      <4>1. CASE update_caches
        BY <4>1, UpdateCachesKeeps
      <4>2. CASE dtlb_mshr_update
        BY <4>2, DtlbUpdateKeeps
      <4>3. CASE ForwardHit
        BY <4>3, ForwardHitKeeps
      <4>4. CASE ForwardMiss
        BY <4>4, ForwardMissKeeps
      <4>5. CASE AccessL2
        BY <4>5, AccessL2Keeps
      <4>6. CASE RemoveFromL2
        BY <4>6, RemoveFromL2Keeps
      <4>7. CASE FillIcache
        BY <4>7, FillIcacheKeeps
      <4>8. CASE RemoveFromL1
        BY <4>8, RemoveFromL1Keeps
      <4>9. CASE \/ MemoryCompletes \/ EndMemory \/ NoWalkOver \/ LLC_to_memory
                 \/ RemoveFromL3 \/ EndL3 \/ ForwardNextCore \/ EndForward
                 \/ EndAccessL2 \/ EndL2 \/ NoIcacheFill \/ EndL1
        BY <4>9, QuietSteps
      <4> QED
        BY <3>1, <4>1, <4>2, <4>3, <4>4, <4>5, <4>6, <4>7, <4>8, <4>9 DEF Update
    <3>2. CASE Tick
      BY <3>2, TickKeeps
    <3>3. CASE Begin \/ NoFetch \/ PortTaken \/ NoSearch
      BY <3>3, QuietSteps
    <3> QED
      BY <2>4, <3>1, <3>2, <3>3 DEF Cycle
  <2> QED
    BY <1>2, <2>1, <2>2, <2>3, <2>4 DEF Next
<1> QED
  BY <1>1, <1>2

\* The loads and stores a core has given to its caches are in one place each,
\* all others in none, and the buffers hold what they are made for
\* (TLB_Cache.cpp: dtlb_search, dtlb_mshr_update, update_dcache_mshr).
THEOREM CachesInvariance == Spec => [](Typed /\ Kept)
<1>1. Init => Typed /\ Kept
  BY Start
<1>2. Typed /\ Kept /\ [Next]_vars => Typed' /\ Kept'
  BY Steps
<1> QED
  BY <1>1, <1>2, PTL DEF Spec

\* The places as a set: one part for each of the three sequences.
LEMMA PlacesAre ==
  ASSUME NEW w, NEW m, NEW a, NEW id, NEW p
  PROVE  p \in PlacesIn(w, m, a, id)
           <=> \/ \E i : p = <<"walk", i, 0>> /\ AtWalk(w, i, id)
               \/ \E i : p = <<"miss", i, 0>> /\ AtMiss(m, i, id)
               \/ \E i, j : p = <<"behind", i, j>> /\ Behind(m, i, j, id)
               \/ \E i : p = <<"answered", i, 0>> /\ AtAnswer(a, i, id)
<1> DEFINE A == {<<"walk", i, 0>> : i \in Named(w, id)}
           B == {<<"miss", i, 0>> : i \in Named(m, id)}
           C == UNION {{<<"behind", i, j>> :
                         j \in {k \in DOMAIN m[i].dest : m[i].dest[k] = id}} :
                       i \in DOMAIN m}
           D == {<<"answered", i, 0>> : i \in {k \in DOMAIN a : a[k] = id}}
<1>1. p \in A <=> \E i : p = <<"walk", i, 0>> /\ AtWalk(w, i, id)
  BY DEF Named, AtWalk
<1>2. p \in B <=> \E i : p = <<"miss", i, 0>> /\ AtMiss(m, i, id)
  BY DEF Named, AtMiss
<1>3. p \in C <=> \E i, j : p = <<"behind", i, j>> /\ Behind(m, i, j, id)
  BY DEF Behind
<1>4. p \in D <=> \E i : p = <<"answered", i, 0>> /\ AtAnswer(a, i, id)
  BY DEF AtAnswer
<1>5. PlacesIn(w, m, a, id) = ((A \union B) \union C) \union D
  BY Zenon DEF PlacesIn
<1> HIDE DEF A, B, C, D
<1> QED
  BY <1>1, <1>2, <1>3, <1>4, <1>5

LEMMA NowhereIsEmpty ==
  ASSUME NEW w, NEW m, NEW a, NEW id, None(w, m, a, id)
  PROVE  Cardinality(PlacesIn(w, m, a, id)) = 0
<1>1. \A p : p \notin PlacesIn(w, m, a, id)
  BY PlacesAre, Zenon DEF None, NoWalk, NoMiss, NoAnswer
<1>2. PlacesIn(w, m, a, id) = {}
  BY <1>1
<1> QED
  BY <1>2, FS_EmptySet

LEMMA OnePlaceIsOne ==
  ASSUME NEW w, NEW m, NEW a, NEW id, One(w, m, a, id)
  PROVE  Cardinality(PlacesIn(w, m, a, id)) = 1
<1>1. PICK p : PlacesIn(w, m, a, id) = {p}
  <2>. PICK P : P = PlacesIn(w, m, a, id)
    OBVIOUS
  <2>0. \A p : p \in P
           <=> \/ \E i : p = <<"walk", i, 0>> /\ AtWalk(w, i, id)
               \/ \E i : p = <<"miss", i, 0>> /\ AtMiss(m, i, id)
               \/ \E i, j : p = <<"behind", i, j>> /\ Behind(m, i, j, id)
               \/ \E i : p = <<"answered", i, 0>> /\ AtAnswer(a, i, id)
    BY PlacesAre
  <2>1. CASE OneWalk(w, id) /\ NoMiss(m, id) /\ NoAnswer(a, id)
    <3>1. PICK i : AtWalk(w, i, id) /\ \A k : AtWalk(w, k, id) => k = i
      BY <2>1 DEF OneWalk
    <3>2. \A p : p \in P <=> p = <<"walk", i, 0>>
      BY <2>0, <2>1, <3>1, Zenon DEF NoMiss, NoAnswer
    <3>3. P = {<<"walk", i, 0>>}
      BY <3>2
    <3> QED
      BY <3>3, Zenon
  <2>2. CASE NoWalk(w, id) /\ OneMiss(m, id) /\ NoAnswer(a, id)
    <3>1. CASE /\ \E i : AtMiss(m, i, id) /\ \A k : AtMiss(m, k, id) => k = i
               /\ \A i, j : ~ Behind(m, i, j, id)
      <4>1. PICK i : AtMiss(m, i, id) /\ \A k : AtMiss(m, k, id) => k = i
        BY <3>1
      <4>2. \A p : p \in P <=> p = <<"miss", i, 0>>
        BY <2>0, <2>2, <3>1, <4>1, Zenon DEF NoWalk, NoAnswer
      <4>3. P = {<<"miss", i, 0>>}
        BY <4>2
      <4> QED
        BY <4>3, Zenon
    <3>2. CASE /\ \A i : ~ AtMiss(m, i, id)
               /\ \E i, j : /\ Behind(m, i, j, id)
                            /\ \A k, l : Behind(m, k, l, id) => k = i /\ l = j
      <4>1. PICK i, j : /\ Behind(m, i, j, id)
                        /\ \A k, l : Behind(m, k, l, id) => k = i /\ l = j
        BY <3>2
      <4>2. \A p : p \in P <=> p = <<"behind", i, j>>
        BY <2>0, <2>2, <3>2, <4>1, Zenon DEF NoWalk, NoAnswer
      <4>3. P = {<<"behind", i, j>>}
        BY <4>2
      <4> QED
        BY <4>3, Zenon
    <3> QED
      BY <2>2, <3>1, <3>2 DEF OneMiss
  <2>3. CASE NoWalk(w, id) /\ NoMiss(m, id) /\ OneAnswer(a, id)
    <3>1. PICK i : AtAnswer(a, i, id) /\ \A k : AtAnswer(a, k, id) => k = i
      BY <2>3 DEF OneAnswer
    <3>2. \A p : p \in P <=> p = <<"answered", i, 0>>
      BY <2>0, <2>3, <3>1, Zenon DEF NoWalk, NoMiss
    <3>3. P = {<<"answered", i, 0>>}
      BY <3>2
    <3> QED
      BY <3>3, Zenon
  <2> QED
    BY <2>1, <2>2, <2>3 DEF One
<1> QED
  BY <1>1, FS_Singleton

\* No load or store is lost, merged twice or answered twice on its way through
\* the caches of a core, although the loops that go through the buffers of
\* misses leave out the entry behind the one they erase (TLB_Cache.cpp:
\* dtlb_mshr_update, update_dcache_mshr, dcache_search).
THEOREM RequestsInOnePlace == Spec => []RequestsKept
<1>1. Typed /\ Kept => RequestsKept
  <2> SUFFICES ASSUME Typed, Kept, NEW c \in Cores,
                      NEW id \in 0 .. Len(work["D"][c]) - 1
               PROVE  Cardinality(Places(c, id)) = IF id < asked[c]["D"] THEN 1 ELSE 0
    BY DEF RequestsKept
  <2>1. asked[c]["D"] \in Nat
    BY DEF Typed, Sources
  <2>2. id \in Nat
    OBVIOUS
  <2>3. id \in TakenIds(c) <=> id < asked[c]["D"]
    BY <2>1, <2>2 DEF TakenIds
  <2>4. IF id \in TakenIds(c)
        THEN One(dtlb_miss_buffer[c], l1_miss_buffer[c]["D"], answered[c], id)
        ELSE None(dtlb_miss_buffer[c], l1_miss_buffer[c]["D"], answered[c], id)
    BY <2>2 DEF Kept, KeptIn
  <2> QED
    BY <2>3, <2>4, NowhereIsEmpty, OnePlaceIsOne DEF Places
<1> QED
  BY <1>1, CachesInvariance, PTL

-------------------------------------------------------------------------------
(***************************************************************************)
(* The misses of L1 that have still to go to L2.                           *)
(***************************************************************************)
\* The misses of L1 that have not been to L2 yet.
Going(m) == Cardinality({i \in DOMAIN m : m[i].at1 # Off})

LEMMA GoingIsNat ==
  ASSUME NEW m \in Misses
  PROVE  /\ IsFiniteSet({i \in DOMAIN m : m[i].at1 # Off})
         /\ Going(m) \in Nat
<1>1. DOMAIN m = 1 .. Len(m) /\ Len(m) \in Nat
  BY DEF Misses
<1>2. IsFiniteSet(DOMAIN m)
  BY <1>1, FS_Interval
<1>3. IsFiniteSet({i \in DOMAIN m : m[i].at1 # Off})
  BY <1>2, FS_Subset
<1> QED
  BY <1>3, FS_CardinalityType DEF Going

\* No miss more, and none more of those that have still to go to L2.
NoMore(m, v) == Len(v) <= Len(m) /\ Going(v) <= Going(m)

LEMMA NoMoreThanItself == \A m \in Misses : NoMore(m, m)
<1> TAKE m \in Misses
<1>1. Going(m) \in Nat
  BY GoingIsNat
<1>2. Len(m) \in Nat
  BY DEF Misses
<1> QED
  BY <1>1, <1>2 DEF NoMore

\* Entries are edited, and none gets a time for L2 again.
LEMMA NoMoreWhenEdited ==
  ASSUME NEW m \in Misses, NEW v \in Misses, DOMAIN v = DOMAIN m,
         \A i \in DOMAIN m : v[i].at1 # Off => m[i].at1 # Off
  PROVE  NoMore(m, v)
<1>1. Len(v) = Len(m) /\ Len(m) \in Nat
  BY DEF Misses
<1>2. {i \in DOMAIN v : v[i].at1 # Off} \subseteq {i \in DOMAIN m : m[i].at1 # Off}
  OBVIOUS
<1>3. Going(v) <= Going(m)
  BY <1>2, GoingIsNat, FS_Subset DEF Going
<1> QED
  BY <1>1, <1>3 DEF NoMore

\* One of them goes to L2.
LEMMA OneGone ==
  ASSUME NEW m \in Misses, NEW v \in Misses, DOMAIN v = DOMAIN m,
         NEW n \in DOMAIN m, m[n].at1 # Off, v[n].at1 = Off,
         \A i \in DOMAIN m : i # n => v[i] = m[i]
  PROVE  Len(v) = Len(m) /\ Going(v) = Going(m) - 1
<1>. PICK S : S = {i \in DOMAIN m : m[i].at1 # Off}
  OBVIOUS
<1>1. Len(v) = Len(m)
  BY DEF Misses
<1>2. {i \in DOMAIN v : v[i].at1 # Off} = S \ {n}
  OBVIOUS
<1>3. n \in S /\ IsFiniteSet(S)
  BY GoingIsNat
<1>4. Cardinality(S \ {n}) = Cardinality(S) - 1
  BY <1>3, FS_RemoveElement
<1> QED
  BY <1>1, <1>2, <1>4, Zenon DEF Going

LEMMA AtMostOneMore ==
  ASSUME NEW x \in Nat, NEW y \in Nat, NEW z, y <= z, z = x \/ z = x + 1
  PROVE  y <= x + 1
OBVIOUS

\* One is added.
LEMMA OneMoreGoing ==
  ASSUME NEW m \in Misses, NEW e \in Miss
  PROVE  /\ Append(m, e) \in Misses /\ Len(Append(m, e)) = Len(m) + 1
         /\ Going(Append(m, e)) <= Going(m) + 1
<1>. PICK v : v = Append(m, e)
  OBVIOUS
<1>1. /\ v \in Misses /\ Len(v) = Len(m) + 1
      /\ Len(m) \in Nat /\ DOMAIN m = 1 .. Len(m) /\ DOMAIN v = 1 .. Len(m) + 1
      /\ \A i \in DOMAIN m : v[i] = m[i]
  BY Appended DEF Misses
<1>. PICK S, T : /\ S = {i \in DOMAIN m : m[i].at1 # Off}
                 /\ T = {i \in DOMAIN v : v[i].at1 # Off}
  OBVIOUS
<1>. PICK n : n = Len(m) + 1
  OBVIOUS
<1>. PICK U : U = S \cup {n}
  OBVIOUS
<1>2. T \subseteq U
  BY <1>1
<1>3. IsFiniteSet(S) /\ Cardinality(S) \in Nat
  BY GoingIsNat DEF Going
<1>4. /\ IsFiniteSet(U)
      /\ Cardinality(U) = IF n \in S THEN Cardinality(S) ELSE Cardinality(S) + 1
  BY <1>3, FS_AddElement
<1>5. Cardinality(T) <= Cardinality(U) /\ Cardinality(T) \in Nat
  <2>1. Cardinality(T) <= Cardinality(U)
    BY <1>2, <1>4, FS_Subset
  <2>2. Cardinality(T) \in Nat
    <3>1. Going(v) \in Nat
      BY <1>1, GoingIsNat
    <3> QED
      BY <3>1 DEF Going
  <2> QED
    BY <2>1, <2>2
<1>6. Cardinality(T) <= Cardinality(S) + 1
  <2>1. Cardinality(U) = Cardinality(S) \/ Cardinality(U) = Cardinality(S) + 1
    BY <1>4, Zenon
  <2> QED
    BY <1>3, <1>5, <2>1, AtMostOneMore, Zenon
<1>7. Going(v) = Cardinality(T) /\ Going(m) = Cardinality(S)
  BY DEF Going
<1>8. Going(v) <= Going(m) + 1
  BY <1>6, <1>7, Zenon
<1> QED
  BY <1>1, <1>8

\* One is taken out.
LEMMA NoMoreWithout ==
  ASSUME NEW m \in Misses, NEW v \in Misses, NEW n \in DOMAIN m,
         Len(v) = Len(m) - 1,
         \A i \in 1 .. Len(m) - 1 : v[i] = m[Back(n, i)]
  PROVE  NoMore(m, v)
<1>1. /\ Len(m) \in Nat /\ n \in 1 .. Len(m)
      /\ DOMAIN m = 1 .. Len(m) /\ DOMAIN v = 1 .. Len(m) - 1
  BY DEF Misses
<1>2. /\ \A i \in 1 .. Len(m) - 1 : Back(n, i) \in (1 .. Len(m)) \ {n}
      /\ \A i, j \in 1 .. Len(m) - 1 : Back(n, i) = Back(n, j) => i = j
  BY <1>1, BackOnto
<1>. PICK S, T : /\ S = {i \in DOMAIN m : m[i].at1 # Off}
                 /\ T = {i \in DOMAIN v : v[i].at1 # Off}
  OBVIOUS
<1>. PICK f : f = [i \in T |-> Back(n, i)]
  OBVIOUS
<1>3. f \in [T -> S]
  BY <1>1, <1>2
<1>4. \A a, b \in T : f[a] = f[b] => a = b
  BY <1>1, <1>2
<1>5. f \in Injection(T, S)
  BY <1>3, <1>4 DEF Injection, IsInjective
<1>6. IsFiniteSet(S)
  BY GoingIsNat
<1>7. Cardinality(T) <= Cardinality(S)
  BY <1>5, <1>6, FS_Injection
<1>8. Going(v) <= Going(m)
  BY <1>7 DEF Going
<1> QED
  BY <1>1, <1>8 DEF NoMore

LEMMA NoMoreRemoved ==
  ASSUME NEW m \in Misses, NEW n \in DOMAIN m
  PROVE  RemoveAt(m, n) \in Misses /\ NoMore(m, RemoveAt(m, n))
<1>. PICK v : v = RemoveAt(m, n)
  OBVIOUS
<1>1. /\ v \in Misses /\ DOMAIN v = 1 .. Len(m) - 1 /\ n \in 1 .. Len(m)
      /\ Len(m) \in Nat
      /\ \A i \in 1 .. Len(m) - 1 : v[i] = m[Back(n, i)]
  BY Removed DEF Misses
<1>2. Len(v) = Len(m) - 1
  <2>1. Len(v) \in Nat /\ DOMAIN v = 1 .. Len(v)
    BY <1>1 DEF Misses
  <2> QED
    BY <1>1, <2>1
<1> QED
  BY <1>1, <1>2, NoMoreWithout

LEMMA NoMoreTail ==
  ASSUME NEW m \in Misses, m # <<>>
  PROVE  Tail(m) \in Misses /\ NoMore(m, Tail(m))
<1>. PICK v : v = Tail(m)
  OBVIOUS
<1>1. /\ v \in Misses /\ Len(v) = Len(m) - 1 /\ 1 \in DOMAIN m
      /\ \A i \in 1 .. Len(m) - 1 : v[i] = m[i + 1]
  BY DEF Misses
<1>2. \A i \in 1 .. Len(m) - 1 : v[i] = m[Back(1, i)]
  BY <1>1 DEF Back
<1> QED
  BY <1>1, <1>2, NoMoreWithout

-------------------------------------------------------------------------------
(***************************************************************************)
(* How long the buffers are.                                               *)
(***************************************************************************)
\* What a core has asked for bounds what is under way for it: a load or store
\* that waits for its translation, a miss of L1 on its way to L2, a miss of L2.
Fits(w, i, d, l, ni, nd) ==
  /\ Len(w) <= mshr /\ Len(i) <= mshr /\ Len(d) <= mshr
  /\ Len(l) + Going(i) + Going(d) + Len(w) <= ni + nd

Sized ==
  \A c \in Cores : Fits(dtlb_miss_buffer[c], l1_miss_buffer[c]["I"],
                       l1_miss_buffer[c]["D"], l2_miss_buffer[c],
                       asked[c]["I"], asked[c]["D"])

LEMMA SizesAreNat ==
  ASSUME NEW w \in Walks, NEW i \in Misses, NEW d \in Misses, NEW l \in Seq(MissL2)
  PROVE  /\ Len(w) \in Nat /\ Len(i) \in Nat /\ Len(d) \in Nat /\ Len(l) \in Nat
         /\ Going(i) \in Nat /\ Going(d) \in Nat /\ mshr \in Nat
<1>1. Going(i) \in Nat /\ Going(d) \in Nat
  BY GoingIsNat
<1>2. mshr \in Nat
  BY CachesAssumption
<1>3. Len(w) \in Nat /\ Len(i) \in Nat /\ Len(d) \in Nat /\ Len(l) \in Nat
  BY DEF Walks, Misses
<1> QED
  BY <1>1, <1>2, <1>3

LEMMA AtMostTransitive == \A x, y, z \in Nat : x <= y /\ y <= z => x <= z
OBVIOUS

LEMMA LessFits ==
  ASSUME NEW w \in Walks, NEW i \in Misses, NEW d \in Misses, NEW l \in Seq(MissL2),
         NEW v \in Walks, NEW j \in Misses, NEW e \in Misses, NEW k \in Seq(MissL2),
         NEW ni \in Nat, NEW nd \in Nat,
         Fits(w, i, d, l, ni, nd),
         Len(v) <= Len(w), NoMore(i, j), NoMore(d, e), Len(k) <= Len(l)
  PROVE  Fits(v, j, e, k, ni, nd)
<1>1. /\ Len(w) \in Nat /\ Len(i) \in Nat /\ Len(d) \in Nat /\ Len(l) \in Nat
      /\ Going(i) \in Nat /\ Going(d) \in Nat /\ mshr \in Nat
  BY SizesAreNat
<1>2. /\ Len(v) \in Nat /\ Len(j) \in Nat /\ Len(e) \in Nat /\ Len(k) \in Nat
      /\ Going(j) \in Nat /\ Going(e) \in Nat
  BY SizesAreNat
<1>3. /\ Len(v) <= Len(w) /\ Len(j) <= Len(i) /\ Len(e) <= Len(d) /\ Len(k) <= Len(l)
      /\ Going(j) <= Going(i) /\ Going(e) <= Going(d)
  BY Zenon DEF NoMore
<1>4. /\ Len(w) <= mshr /\ Len(i) <= mshr /\ Len(d) <= mshr
      /\ Len(l) + Going(i) + Going(d) + Len(w) <= ni + nd
  BY Zenon DEF Fits
<1>5. Len(v) <= mshr /\ Len(j) <= mshr /\ Len(e) <= mshr
  BY <1>1, <1>2, <1>3, <1>4, AtMostTransitive, Zenon
<1>6. Len(k) + Going(j) + Going(e) + Len(v) <= ni + nd
  <2>0. PICK a \in Nat, b \in Nat, x \in Nat, y \in Nat,
             a1 \in Nat, b1 \in Nat, x1 \in Nat, y1 \in Nat :
               /\ a = Len(k) /\ b = Going(j) /\ x = Going(e) /\ y = Len(v)
               /\ a1 = Len(l) /\ b1 = Going(i) /\ x1 = Going(d) /\ y1 = Len(w)
    BY <1>1, <1>2, Zenon
  <2>1. a <= a1 /\ b <= b1 /\ x <= x1 /\ y <= y1
    BY <1>3, <2>0, Zenon
  <2>2. a1 + b1 + x1 + y1 <= ni + nd
    BY <1>4, <2>0, Zenon
  <2>3. a + b + x + y <= ni + nd
    BY <2>1, <2>2
  <2> QED
    BY <2>0, <2>3, Zenon
<1> QED
  BY <1>5, <1>6, Zenon DEF Fits

LEMMA BuffersTyped ==
  ASSUME Typed, NEW c \in Cores
  PROVE  /\ dtlb_miss_buffer[c] \in Walks
         /\ l1_miss_buffer[c]["I"] \in Misses /\ l1_miss_buffer[c]["D"] \in Misses
         /\ l2_miss_buffer[c] \in Seq(MissL2)
         /\ asked[c]["I"] \in Nat /\ asked[c]["D"] \in Nat
BY DEF Typed, Sources

\* Steps after which no buffer is longer.
LEMMA SizedKept ==
  ASSUME Typed, Typed', Sized, UNCHANGED asked,
         \A c \in Cores : /\ Len(dtlb_miss_buffer'[c]) <= Len(dtlb_miss_buffer[c])
                          /\ Len(l2_miss_buffer'[c]) <= Len(l2_miss_buffer[c])
                          /\ NoMore(l1_miss_buffer[c]["I"], l1_miss_buffer'[c]["I"])
                          /\ NoMore(l1_miss_buffer[c]["D"], l1_miss_buffer'[c]["D"])
  PROVE  Sized'
<1> SUFFICES ASSUME NEW c \in Cores
             PROVE  Fits(dtlb_miss_buffer'[c], l1_miss_buffer'[c]["I"],
                         l1_miss_buffer'[c]["D"], l2_miss_buffer'[c],
                         asked[c]["I"], asked[c]["D"])
  BY DEF Sized
<1>1. Fits(dtlb_miss_buffer[c], l1_miss_buffer[c]["I"], l1_miss_buffer[c]["D"],
           l2_miss_buffer[c], asked[c]["I"], asked[c]["D"])
  BY DEF Sized
<1>2. /\ dtlb_miss_buffer[c] \in Walks
      /\ l1_miss_buffer[c]["I"] \in Misses /\ l1_miss_buffer[c]["D"] \in Misses
      /\ l2_miss_buffer[c] \in Seq(MissL2)
      /\ asked[c]["I"] \in Nat /\ asked[c]["D"] \in Nat
  BY BuffersTyped
<1>3. /\ dtlb_miss_buffer'[c] \in Walks
      /\ l1_miss_buffer'[c]["I"] \in Misses /\ l1_miss_buffer'[c]["D"] \in Misses
      /\ l2_miss_buffer'[c] \in Seq(MissL2)
  <2>1. /\ dtlb_miss_buffer' \in [Cores -> Walks]
        /\ l1_miss_buffer' \in [Cores -> [Sources -> Misses]]
        /\ l2_miss_buffer' \in [Cores -> Seq(MissL2)]
    BY DEF Typed
  <2>2. "I" \in Sources /\ "D" \in Sources
    BY DEF Sources
  <2> QED
    BY <2>1, <2>2
<1>4. /\ Len(dtlb_miss_buffer'[c]) <= Len(dtlb_miss_buffer[c])
      /\ Len(l2_miss_buffer'[c]) <= Len(l2_miss_buffer[c])
      /\ NoMore(l1_miss_buffer[c]["I"], l1_miss_buffer'[c]["I"])
      /\ NoMore(l1_miss_buffer[c]["D"], l1_miss_buffer'[c]["D"])
  BY Zenon
<1> QED
  BY <1>1, <1>2, <1>3, <1>4, LessFits

LEMMA QuietSized ==
  ASSUME Typed, Typed', Sized,
         UNCHANGED <<asked, dtlb_miss_buffer, l1_miss_buffer>>,
         \A c \in Cores : Len(l2_miss_buffer'[c]) <= Len(l2_miss_buffer[c])
  PROVE  Sized'
<1>1. ASSUME NEW c \in Cores
      PROVE  /\ Len(dtlb_miss_buffer'[c]) <= Len(dtlb_miss_buffer[c])
             /\ NoMore(l1_miss_buffer[c]["I"], l1_miss_buffer'[c]["I"])
             /\ NoMore(l1_miss_buffer[c]["D"], l1_miss_buffer'[c]["D"])
  <2>1. /\ dtlb_miss_buffer[c] \in Walks
        /\ l1_miss_buffer[c]["I"] \in Misses /\ l1_miss_buffer[c]["D"] \in Misses
    BY BuffersTyped
  <2>2. Len(dtlb_miss_buffer[c]) \in Nat
    BY <2>1 DEF Walks
  <2>3. Len(dtlb_miss_buffer'[c]) <= Len(dtlb_miss_buffer[c])
    BY <2>2
  <2> QED
    BY <2>1, <2>3, NoMoreThanItself
<1> QED
  BY <1>1, SizedKept

\* One core's buffers change.
LEMMA SizedAtCore ==
  ASSUME Typed, Sized, NEW c \in Cores,
         \A d \in Cores : d # c =>
           /\ dtlb_miss_buffer'[d] = dtlb_miss_buffer[d]
           /\ l1_miss_buffer'[d] = l1_miss_buffer[d]
           /\ l2_miss_buffer'[d] = l2_miss_buffer[d]
           /\ asked'[d] = asked[d],
         Fits(dtlb_miss_buffer'[c], l1_miss_buffer'[c]["I"], l1_miss_buffer'[c]["D"],
              l2_miss_buffer'[c], asked'[c]["I"], asked'[c]["D"])
  PROVE  Sized'
<1> SUFFICES ASSUME NEW d \in Cores
             PROVE  Fits(dtlb_miss_buffer'[d], l1_miss_buffer'[d]["I"],
                         l1_miss_buffer'[d]["D"], l2_miss_buffer'[d],
                         asked'[d]["I"], asked'[d]["D"])
  BY DEF Sized
<1>1. CASE d = c
  BY <1>1, Zenon
<1>2. CASE d # c
  <2>1. Fits(dtlb_miss_buffer[d], l1_miss_buffer[d]["I"], l1_miss_buffer[d]["D"],
             l2_miss_buffer[d], asked[d]["I"], asked[d]["D"])
    BY DEF Sized
  <2> QED
    BY <1>2, <2>1, Zenon
<1> QED
  BY <1>1, <1>2

\* One buffer of L1 changes and is not longer.
LEMMA OneBufferSized ==
  ASSUME Typed, Typed', Sized, UNCHANGED <<asked, dtlb_miss_buffer>>,
         \A c \in Cores : Len(l2_miss_buffer'[c]) <= Len(l2_miss_buffer[c]),
         NEW c \in Cores, NEW s \in Sources, NEW v \in Misses,
         NoMore(l1_miss_buffer[c][s], v),
         l1_miss_buffer' = [l1_miss_buffer EXCEPT ![c] = [l1_miss_buffer[c] EXCEPT ![s] = v]]
  PROVE  Sized'
<1>1. ASSUME NEW d \in Cores, NEW t \in Sources
      PROVE  NoMore(l1_miss_buffer[d][t], l1_miss_buffer'[d][t])
  <2>0. l1_miss_buffer \in [Cores -> [Sources -> Misses]]
    BY DEF Typed
  <2>1. CASE d = c /\ t = s
    <3>1. l1_miss_buffer'[d][t] = v
      BY <2>0, <2>1
    <3> QED
      BY <2>1, <3>1, Zenon
  <2>2. CASE ~ (d = c /\ t = s)
    <3>1. l1_miss_buffer'[d][t] = l1_miss_buffer[d][t] /\ l1_miss_buffer[d][t] \in Misses
      BY <2>0, <2>2
    <3> QED
      BY <3>1, NoMoreThanItself, Zenon
  <2> QED
    BY <2>1, <2>2
<1>2. ASSUME NEW d \in Cores
      PROVE  Len(dtlb_miss_buffer'[d]) <= Len(dtlb_miss_buffer[d])
  <2>1. Len(dtlb_miss_buffer[d]) \in Nat
    BY BuffersTyped DEF Walks
  <2> QED
    BY <2>1
<1>3. "I" \in Sources /\ "D" \in Sources
  BY DEF Sources
<1> QED
  BY <1>1, <1>2, <1>3, SizedKept

LEMMA L2NoLonger ==
  ASSUME Typed, UNCHANGED l2_miss_buffer
  PROVE  \A c \in Cores : Len(l2_miss_buffer'[c]) <= Len(l2_miss_buffer[c])
<1> TAKE c \in Cores
<1>1. Len(l2_miss_buffer[c]) \in Nat
  BY BuffersTyped
<1> QED
  BY <1>1

\* One entry of one buffer of L2 is edited.
LEMMA L2EntryEdited ==
  ASSUME Typed, NEW c \in Cores, NEW i \in DOMAIN l2_miss_buffer[c], NEW e \in MissL2,
         l2_miss_buffer' = [l2_miss_buffer EXCEPT ![c] = [l2_miss_buffer[c] EXCEPT ![i] = e]]
  PROVE  \A d \in Cores : Len(l2_miss_buffer'[d]) <= Len(l2_miss_buffer[d])
<1> TAKE d \in Cores
<1>1. l2_miss_buffer \in [Cores -> Seq(MissL2)]
  BY DEF Typed
<1>2. Len(l2_miss_buffer'[d]) = Len(l2_miss_buffer[d])
  <2>1. CASE d = c
    <3>1. l2_miss_buffer'[d] = [l2_miss_buffer[c] EXCEPT ![i] = e]
      BY <1>1, <2>1
    <3>2. Len([l2_miss_buffer[c] EXCEPT ![i] = e]) = Len(l2_miss_buffer[c])
      BY <1>1
    <3> QED
      BY <2>1, <3>1, <3>2
  <2>2. CASE d # c
    BY <1>1, <2>2
  <2> QED
    BY <2>1, <2>2
<1>3. Len(l2_miss_buffer[d]) \in Nat
  BY <1>1
<1> QED
  BY <1>2, <1>3

-------------------------------------------------------------------------------
(***************************************************************************)
(* The steps, and how long the buffers are after them.                     *)
(***************************************************************************)
\* One entry is edited.
LEMMA NoMoreWithEntry ==
  ASSUME NEW m \in Misses, NEW n \in DOMAIN m, NEW f \in Miss,
         f.at1 # Off => m[n].at1 # Off
  PROVE  [m EXCEPT ![n] = f] \in Misses /\ NoMore(m, [m EXCEPT ![n] = f])
<1>. PICK v : v = [m EXCEPT ![n] = f]
  OBVIOUS
<1>1. v \in Misses
  BY Changed DEF Misses
<1>2. DOMAIN v = DOMAIN m /\ \A i \in DOMAIN m : v[i].at1 # Off => m[i].at1 # Off
  OBVIOUS
<1>3. NoMore(m, v)
  BY <1>1, <1>2, NoMoreWhenEdited
<1> QED
  BY <1>1, <1>3

LEMMA DoneNoMore ==
  ASSUME NEW m \in Misses, NEW n \in DOMAIN m, NEW y \in Int
  PROVE  LET u == [m EXCEPT ![n].done = y] IN u \in Misses /\ NoMore(m, u)
<1>1. m[n] \in Miss
  BY DEF Misses
<1>. PICK f : f = [m[n] EXCEPT !.done = y]
  OBVIOUS
<1>2. f \in Miss /\ f.at1 = m[n].at1
  BY <1>1 DEF Miss
<1>3. [m EXCEPT ![n].done = y] = [m EXCEPT ![n] = f]
  OBVIOUS
<1> QED
  BY <1>2, <1>3, NoMoreWithEntry

LEMMA DestNoMore ==
  ASSUME NEW m \in Misses, NEW n \in DOMAIN m, NEW x \in Nat
  PROVE  LET u == [m EXCEPT ![n].dest = Append(@, x)] IN u \in Misses /\ NoMore(m, u)
<1>1. m[n] \in Miss
  BY DEF Misses
<1>. PICK d : d = Append(m[n].dest, x)
  OBVIOUS
<1>2. d \in Seq(Nat)
  BY <1>1 DEF Miss
<1>. PICK f : f = [m[n] EXCEPT !.dest = d]
  OBVIOUS
<1>3. f \in Miss /\ f.at1 = m[n].at1
  BY <1>1, <1>2 DEF Miss
<1>4. [m EXCEPT ![n].dest = Append(@, x)] = [m EXCEPT ![n] = f]
  OBVIOUS
<1> QED
  BY <1>3, <1>4, NoMoreWithEntry

LEMMA TimesNoMore ==
  ASSUME NEW m \in Misses, NEW n \in DOMAIN m, NEW y \in Int
  PROVE  LET u == [m EXCEPT ![n] = [@ EXCEPT !.at1 = Off, !.done = y]] IN
         u \in Misses /\ NoMore(m, u)
<1>0. Off \in Int
  BY DEF Off
<1>1. m[n] \in Miss
  BY DEF Misses
<1>. PICK f : f = [m[n] EXCEPT !.at1 = Off, !.done = y]
  OBVIOUS
<1>2. f \in Miss /\ f.at1 = Off
  BY <1>0, <1>1 DEF Miss
<1>3. [m EXCEPT ![n] = [@ EXCEPT !.at1 = Off, !.done = y]] = [m EXCEPT ![n] = f]
  OBVIOUS
<1> QED
  BY <1>2, <1>3, NoMoreWithEntry

LEMMA At1Gone ==
  ASSUME NEW m \in Misses, NEW n \in DOMAIN m, m[n].at1 # Off
  PROVE  LET u == [m EXCEPT ![n].at1 = Off] IN
         u \in Misses /\ Len(u) = Len(m) /\ Going(u) = Going(m) - 1
<1>0. Off \in Int
  BY DEF Off
<1>1. m[n] \in Miss
  BY DEF Misses
<1>. PICK f : f = [m[n] EXCEPT !.at1 = Off]
  OBVIOUS
<1>2. f \in Miss /\ f.at1 = Off
  BY <1>0, <1>1 DEF Miss
<1>. PICK v : v = [m EXCEPT ![n] = f]
  OBVIOUS
<1>3. [m EXCEPT ![n].at1 = Off] = v
  OBVIOUS
<1>4. v \in Misses
  BY <1>2, Changed DEF Misses
<1>5. DOMAIN v = DOMAIN m /\ v[n] = f /\ \A i \in DOMAIN m : i # n => v[i] = m[i]
  OBVIOUS
<1>6. v[n].at1 = Off
  BY <1>2, <1>5, Zenon
<1>7. Len(v) = Len(m) /\ Going(v) = Going(m) - 1
  BY <1>4, <1>5, <1>6, OneGone
<1> QED
  BY <1>3, <1>4, <1>7, Zenon

LEMMA QuietStepsSized ==
  ASSUME Typed, Typed', Sized,
         \/ \E t \in at_memory : MemoryReplies(t)
         \/ Begin \/ MemoryCompletes \/ EndMemory \/ NoWalkOver
         \/ LLC_to_memory \/ RemoveFromL3 \/ EndL3 \/ ForwardNextCore \/ EndForward
         \/ EndAccessL2 \/ EndL2 \/ NoIcacheFill \/ EndL1
         \/ NoFetch \/ PortTaken \/ NoSearch
  PROVE  Sized'
<1>1. UNCHANGED <<asked, dtlb_miss_buffer, l1_miss_buffer, l2_miss_buffer>>
  BY DEF MemoryReplies, Begin, MemoryCompletes, EndMemory, NoWalkOver,
         LLC_to_memory, RemoveFromL3, EndL3, ForwardNextCore, EndForward,
         EndAccessL2, EndL2, NoIcacheFill, EndL1, NoFetch, PortTaken, NoSearch,
         missVars, askVars
<1>2. \A c \in Cores : Len(l2_miss_buffer'[c]) <= Len(l2_miss_buffer[c])
  BY <1>1, L2NoLonger
<1> QED
  BY <1>1, <1>2, QuietSized

LEMMA ForwardHitSized ==
  ASSUME Typed, Typed', Sized, ForwardHit
  PROVE  Sized'
<1>. PICK i, e, mine :
       /\ i = Min(Waiting) /\ e = l2_miss_buffer[core][i]
       /\ mine = Named(l1_miss_buffer[core][e.src], e.id)
  OBVIOUS
<1>1. /\ Waiting # {}
      /\ l2_miss_buffer' = [l2_miss_buffer EXCEPT
                              ![core][i].at2 = Off, ![core][i].done = L3_HIT]
      /\ l1_miss_buffer' =
           IF mine = {} THEN l1_miss_buffer
           ELSE [l1_miss_buffer EXCEPT ![core][e.src][Min(mine)].done = L3_HIT]
      /\ UNCHANGED <<asked, dtlb_miss_buffer>>
  BY DEF ForwardHit, askVars
<1>2. /\ core \in Cores
      /\ l2_miss_buffer \in [Cores -> Seq(MissL2)]
      /\ l1_miss_buffer \in [Cores -> [Sources -> Misses]]
      /\ L3_HIT \in Int /\ Off \in Int
  <2>1. L3_HIT \in Nat \ {0}
    BY CachesAssumption, Zenon
  <2>2. /\ core \in Cores
        /\ l2_miss_buffer \in [Cores -> Seq(MissL2)]
        /\ l1_miss_buffer \in [Cores -> [Sources -> Misses]]
    BY Zenon DEF Typed
  <2> QED
    BY <2>1, <2>2 DEF Off
<1>3. i \in DOMAIN l2_miss_buffer[core]
  <2>1. Waiting \subseteq DOMAIN l2_miss_buffer[core]
    BY DEF Waiting
  <2> QED
    BY <1>1, <1>2, <2>1, FirstIndex
<1>4. e \in MissL2 /\ e.src \in Sources
  <2>1. l2_miss_buffer[core] \in Seq(MissL2)
    BY <1>2
  <2>2. e \in MissL2
    BY <1>3, <2>1
  <2> QED
    BY <2>2, MissL2Fields
<1>5. \A c \in Cores : Len(l2_miss_buffer'[c]) <= Len(l2_miss_buffer[c])
  <2>1. PICK f \in MissL2 : f = [e EXCEPT !.at2 = Off, !.done = L3_HIT]
    BY <1>2, <1>4, MissL2Fields
  <2>2. l2_miss_buffer' = [l2_miss_buffer EXCEPT
                            ![core] = [l2_miss_buffer[core] EXCEPT ![i] = f]]
    BY <1>1, <1>2, <1>3, <2>1
  <2> QED
    BY <1>2, <1>3, <2>2, L2EntryEdited
<1>6. CASE mine = {}
  BY <1>1, <1>5, <1>6, QuietSized
<1>7. CASE mine # {}
  <2>. PICK j, m : j = Min(mine) /\ m = l1_miss_buffer[core][e.src]
    OBVIOUS
  <2>1. m \in Misses /\ j \in DOMAIN m
    <3>1. mine \subseteq DOMAIN m
      BY DEF Named
    <3>2. m \in Seq(Miss) /\ m \in Misses
      BY <1>2, <1>4 DEF Misses
    <3> QED
      BY <1>7, <3>1, <3>2, FirstIndex
  <2>. PICK v : v = [m EXCEPT ![j].done = L3_HIT]
    OBVIOUS
  <2>2. v \in Misses /\ NoMore(l1_miss_buffer[core][e.src], v)
    BY <1>2, <2>1, DoneNoMore
  <2>4. l1_miss_buffer' = [l1_miss_buffer EXCEPT
                            ![core] = [l1_miss_buffer[core] EXCEPT ![e.src] = v]]
    BY <1>1, <1>7
  <2>6. UNCHANGED <<asked, dtlb_miss_buffer>>
    BY <1>1
  <2> QED
    BY <1>2, <1>4, <1>5, <2>2, <2>4, <2>6, OneBufferSized
<1> QED
  BY <1>6, <1>7

LEMMA ForwardMissSized ==
  ASSUME Typed, Typed', Sized, ForwardMiss
  PROVE  Sized'
<1>. PICK i, e : i = Min(Waiting) /\ e = l2_miss_buffer[core][i]
  OBVIOUS
<1>1. /\ Waiting # {}
      /\ l2_miss_buffer' = [l2_miss_buffer EXCEPT ![core][i].at2 = Off]
      /\ UNCHANGED <<asked, dtlb_miss_buffer, l1_miss_buffer>>
  BY DEF ForwardMiss, askVars
<1>2. /\ core \in Cores /\ l2_miss_buffer \in [Cores -> Seq(MissL2)] /\ Off \in Int
  BY DEF Typed, Off
<1>3. i \in DOMAIN l2_miss_buffer[core]
  <2>1. Waiting \subseteq DOMAIN l2_miss_buffer[core]
    BY DEF Waiting
  <2> QED
    BY <1>1, <1>2, <2>1, FirstIndex
<1>4. e \in MissL2
  <2>1. l2_miss_buffer[core] \in Seq(MissL2)
    BY <1>2
  <2> QED
    BY <1>3, <2>1
<1>5. PICK f \in MissL2 : f = [e EXCEPT !.at2 = Off]
  BY <1>2, <1>4, MissL2Fields
<1>6. l2_miss_buffer' = [l2_miss_buffer EXCEPT
                          ![core] = [l2_miss_buffer[core] EXCEPT ![i] = f]]
  BY <1>1, <1>2, <1>3, <1>5
<1>7. \A c \in Cores : Len(l2_miss_buffer'[c]) <= Len(l2_miss_buffer[c])
  BY <1>2, <1>3, <1>6, L2EntryEdited
<1> QED
  BY <1>1, <1>7, QuietSized

LEMMA RemoveFromL2Sized ==
  ASSUME Typed, Typed', Sized, RemoveFromL2
  PROVE  Sized'
<1>. PICK i : i = Min(Due(l2_miss_buffer[at], pos))
  OBVIOUS
<1>1. /\ Due(l2_miss_buffer[at], pos) # {}
      /\ l2_miss_buffer' = [l2_miss_buffer EXCEPT ![at] = RemoveAt(@, i)]
      /\ UNCHANGED <<asked, dtlb_miss_buffer, l1_miss_buffer>>
  BY DEF RemoveFromL2, askVars
<1>2. /\ at \in Cores /\ pos \in Nat \ {0}
      /\ l2_miss_buffer \in [Cores -> Seq(MissL2)]
  BY DEF Typed
<1>3. i \in DOMAIN l2_miss_buffer[at] /\ l2_miss_buffer[at] \in Seq(MissL2)
  BY <1>1, <1>2, DueIndex
<1>. PICK l, k : l = l2_miss_buffer[at] /\ k = RemoveAt(l, i)
  OBVIOUS
<1>4. Len(k) <= Len(l)
  <2>1. k \in Seq(MissL2) /\ DOMAIN k = 1 .. Len(l) - 1 /\ Len(l) \in Nat /\ i \in 1 .. Len(l)
    BY <1>3, Removed
  <2> QED
    BY <2>1
<1>5. ASSUME NEW c \in Cores
      PROVE  Len(l2_miss_buffer'[c]) <= Len(l2_miss_buffer[c])
  <2>1. CASE c = at
    <3>1. l2_miss_buffer'[c] = k
      BY <1>1, <1>2, <2>1
    <3> QED
      BY <1>4, <2>1, <3>1
  <2>2. CASE c # at
    <3>1. l2_miss_buffer'[c] = l2_miss_buffer[c] /\ Len(l2_miss_buffer[c]) \in Nat
      BY <1>1, <1>2, <2>2
    <3> QED
      BY <3>1
  <2> QED
    BY <2>1, <2>2
<1> QED
  BY <1>1, <1>5, QuietSized

LEMMA FillIcacheSized ==
  ASSUME Typed, Typed', Sized, FillIcache
  PROVE  Sized'
<1>. PICK m : m = l1_miss_buffer[at]["I"]
  OBVIOUS
<1>1. /\ m # <<>>
      /\ \/ l1_miss_buffer' = [l1_miss_buffer EXCEPT ![at]["I"] = Tail(@)]
         \/ UNCHANGED l1_miss_buffer
      /\ UNCHANGED <<asked, dtlb_miss_buffer, l2_miss_buffer>>
  BY DEF FillIcache, Iready, askVars
<1>2. /\ at \in Cores /\ l1_miss_buffer \in [Cores -> [Sources -> Misses]]
      /\ "I" \in Sources
  BY DEF Typed, Sources
<1>3. \A c \in Cores : Len(l2_miss_buffer'[c]) <= Len(l2_miss_buffer[c])
  BY <1>1, L2NoLonger
<1>4. CASE UNCHANGED l1_miss_buffer
  BY <1>1, <1>3, <1>4, QuietSized
<1>5. CASE l1_miss_buffer' = [l1_miss_buffer EXCEPT ![at]["I"] = Tail(@)]
  <2>1. Tail(m) \in Misses /\ NoMore(m, Tail(m))
    BY <1>1, <1>2, NoMoreTail
  <2>2. l1_miss_buffer' = [l1_miss_buffer EXCEPT
                            ![at] = [l1_miss_buffer[at] EXCEPT !["I"] = Tail(m)]]
    BY <1>5
  <2>3. UNCHANGED <<asked, dtlb_miss_buffer>>
    BY <1>1
  <2> QED
    BY <1>2, <1>3, <2>1, <2>2, <2>3, OneBufferSized
<1> QED
  BY <1>1, <1>4, <1>5

LEMMA RemoveFromL1Sized ==
  ASSUME Typed, Typed', Sized, RemoveFromL1
  PROVE  Sized'
<1>. PICK m, i : m = l1_miss_buffer[at]["D"] /\ i = Min(Due(m, pos))
  OBVIOUS
<1>1. /\ Due(m, pos) # {}
      /\ l1_miss_buffer' = [l1_miss_buffer EXCEPT ![at]["D"] = RemoveAt(m, i)]
      /\ UNCHANGED <<asked, dtlb_miss_buffer, l2_miss_buffer>>
  BY DEF RemoveFromL1
<1>2. /\ at \in Cores /\ "D" \in Sources /\ pos \in Nat \ {0}
      /\ l1_miss_buffer \in [Cores -> [Sources -> Misses]]
  BY DEF Typed, Sources
<1>3. m \in Misses
  BY <1>2
<1>4. i \in DOMAIN m
  <2>1. m \in Seq(Miss)
    BY <1>3 DEF Misses
  <2> QED
    BY <1>1, <1>2, <2>1, DueIndex
<1>. PICK v : v = RemoveAt(m, i)
  OBVIOUS
<1>5. v \in Misses /\ NoMore(m, v)
  BY <1>3, <1>4, NoMoreRemoved
<1>6. l1_miss_buffer' = [l1_miss_buffer EXCEPT
                          ![at] = [l1_miss_buffer[at] EXCEPT !["D"] = v]]
  <2>1. l1_miss_buffer' = [l1_miss_buffer EXCEPT ![at]["D"] = v]
    BY <1>1, Zenon
  <2> QED
    BY <2>1
<1>7. \A c \in Cores : Len(l2_miss_buffer'[c]) <= Len(l2_miss_buffer[c])
  BY <1>1, L2NoLonger
<1>8. UNCHANGED <<asked, dtlb_miss_buffer>>
  BY <1>1
<1> QED
  BY <1>2, <1>5, <1>6, <1>7, <1>8, OneBufferSized

LEMMA UpdateCachesSized ==
  ASSUME Typed, Typed', Sized, update_caches
  PROVE  Sized'
<1>1. UNCHANGED <<asked, dtlb_miss_buffer>>
  BY DEF update_caches, askVars
<1>2. ASSUME NEW c \in Cores
      PROVE  Len(l2_miss_buffer'[c]) <= Len(l2_miss_buffer[c])
  <2>. PICK b, t : b = l2_miss_buffer[c] /\ t = l2_miss_buffer'[c]
    OBVIOUS
  <2>1. b \in Seq(MissL2) /\ t \in Seq(MissL2)
    BY DEF Typed
  <2>2. DOMAIN t = DOMAIN b
    BY Zenon DEF update_caches
  <2>3. Len(t) = Len(b) /\ Len(b) \in Nat
    BY <2>1, <2>2
  <2> QED
    BY <2>3
<1>3. ASSUME NEW c \in Cores, NEW s \in Sources
      PROVE  NoMore(l1_miss_buffer[c][s], l1_miss_buffer'[c][s])
  <2>. PICK b, t : b = l1_miss_buffer[c][s] /\ t = l1_miss_buffer'[c][s]
    OBVIOUS
  <2>1. b \in Misses /\ t \in Misses
    <3>1. /\ l1_miss_buffer \in [Cores -> [Sources -> Misses]]
          /\ l1_miss_buffer' \in [Cores -> [Sources -> Misses]]
      BY DEF Typed
    <3> QED
      BY <3>1
  <2>2. /\ DOMAIN t = DOMAIN b
        /\ \A i \in DOMAIN b : t[i] = b[i] \/ t[i] = [b[i] EXCEPT !.done = 0]
    BY Zenon DEF update_caches
  <2>3. ASSUME NEW i \in DOMAIN b
        PROVE  t[i].at1 # Off => b[i].at1 # Off
    <3>1. b[i] \in Miss
      BY <2>1, ElementsTyped DEF Misses
    <3>. PICK f : f = b[i]
      OBVIOUS
    <3>2. f \in Miss /\ (t[i] = f \/ t[i] = [f EXCEPT !.done = 0])
      BY <2>2, <3>1
    <3>3. [f EXCEPT !.done = 0].at1 = f.at1
      BY <3>2 DEF Miss
    <3> QED
      BY <3>2, <3>3, Zenon
  <2> QED
    BY <2>1, <2>2, <2>3, NoMoreWhenEdited
<1>4. ASSUME NEW c \in Cores
      PROVE  Len(dtlb_miss_buffer'[c]) <= Len(dtlb_miss_buffer[c])
  <2>1. Len(dtlb_miss_buffer[c]) \in Nat
    BY BuffersTyped DEF Walks
  <2> QED
    BY <1>1, <2>1
<1>5. "I" \in Sources /\ "D" \in Sources
  BY DEF Sources
<1> QED
  BY <1>1, <1>2, <1>3, <1>4, <1>5, SizedKept

LEMMA TickSized ==
  ASSUME Typed, Typed', Sized, Tick
  PROVE  Sized'
<1>1. UNCHANGED asked
  BY DEF Tick, askVars
<1>2. ASSUME NEW c \in Cores
      PROVE  Len(l2_miss_buffer'[c]) <= Len(l2_miss_buffer[c])
  <2>. PICK b, t : b = l2_miss_buffer[c] /\ t = l2_miss_buffer'[c]
    OBVIOUS
  <2>1. b \in Seq(MissL2) /\ t \in Seq(MissL2)
    BY DEF Typed
  <2>2. DOMAIN t = DOMAIN b
    BY Zenon DEF Tick
  <2>3. Len(t) = Len(b) /\ Len(b) \in Nat
    BY <2>1, <2>2
  <2> QED
    BY <2>3
<1>3. ASSUME NEW c \in Cores, NEW s \in Sources
      PROVE  NoMore(l1_miss_buffer[c][s], l1_miss_buffer'[c][s])
  <2>. PICK b, t : b = l1_miss_buffer[c][s] /\ t = l1_miss_buffer'[c][s]
    OBVIOUS
  <2>1. b \in Misses /\ t \in Misses
    <3>1. /\ l1_miss_buffer \in [Cores -> [Sources -> Misses]]
          /\ l1_miss_buffer' \in [Cores -> [Sources -> Misses]]
      BY DEF Typed
    <3> QED
      BY <3>1
  <2>2. /\ DOMAIN t = DOMAIN b
        /\ \A i \in DOMAIN b :
             t[i] = [b[i] EXCEPT !.at1 = Sooner(@), !.done = Sooner(@)]
    BY Zenon DEF Tick
  <2>3. ASSUME NEW i \in DOMAIN b
        PROVE  t[i].at1 # Off => b[i].at1 # Off
    <3>1. b[i] \in Miss
      BY <2>1, ElementsTyped DEF Misses
    <3>. PICK f : f = b[i]
      OBVIOUS
    <3>. PICK x, y : x = Sooner(f.at1) /\ y = Sooner(f.done)
      OBVIOUS
    <3>2. f \in Miss /\ t[i] = [f EXCEPT !.at1 = x, !.done = y]
      BY <2>2, <3>1, Zenon
    <3>3. t[i].at1 = x
      BY <3>2 DEF Miss
    <3>4. Sooner(Off) = Off
      BY DEF Sooner, Off
    <3> QED
      BY <3>3, <3>4, Zenon
  <2>4. DOMAIN t = DOMAIN b
    BY <2>2, Zenon
  <2> QED
    BY <2>1, <2>3, <2>4, NoMoreWhenEdited, Zenon
<1>4. ASSUME NEW c \in Cores
      PROVE  Len(dtlb_miss_buffer'[c]) <= Len(dtlb_miss_buffer[c])
  <2>. PICK b, t : b = dtlb_miss_buffer[c] /\ t = dtlb_miss_buffer'[c]
    OBVIOUS
  <2>1. b \in Walks /\ t \in Walks
    BY DEF Typed
  <2>2. DOMAIN t = DOMAIN b
    BY Zenon DEF Tick
  <2>3. Len(t) = Len(b) /\ Len(b) \in Nat
    BY <2>1, <2>2 DEF Walks
  <2> QED
    BY <2>3
<1>5. "I" \in Sources /\ "D" \in Sources
  BY DEF Sources
<1> QED
  BY <1>1, <1>2, <1>3, <1>4, <1>5, SizedKept

\* All that is under way for a core, and buffers with a limit within it.
Under(w, i, d, l) == Len(l) + Going(i) + Going(d) + Len(w)

Within(w, i, d) == Len(w) <= mshr /\ Len(i) <= mshr /\ Len(d) <= mshr

LEMMA FitsAgain ==
  ASSUME NEW w, NEW i, NEW d, NEW l, NEW ni, NEW nd,
         Within(w, i, d), Under(w, i, d, l) <= ni + nd
  PROVE  Fits(w, i, d, l, ni, nd)
BY Zenon DEF Fits, Within, Under

LEMMA ThenUnder ==
  ASSUME NEW w, NEW i, NEW d, NEW l, NEW ni, NEW nd, Fits(w, i, d, l, ni, nd)
  PROVE  Within(w, i, d) /\ Under(w, i, d, l) <= ni + nd
BY Zenon DEF Fits, Within, Under

\* A miss of L1 becomes one of L2.
LEMMA GoneToL2 ==
  ASSUME NEW w \in Walks, NEW i \in Misses, NEW d \in Misses, NEW l \in Seq(MissL2),
         NEW j \in Misses, NEW e \in Misses, NEW k \in Seq(MissL2),
         NEW ni \in Nat, NEW nd \in Nat, Fits(w, i, d, l, ni, nd),
         Within(w, j, e), Len(k) = Len(l) + 1,
         Going(j) + Going(e) = Going(i) + Going(d) - 1
  PROVE  Fits(w, j, e, k, ni, nd)
<1>1. /\ Len(w) \in Nat /\ Len(l) \in Nat /\ Going(i) \in Nat /\ Going(d) \in Nat
  BY SizesAreNat
<1>2. Len(k) \in Nat /\ Going(j) \in Nat /\ Going(e) \in Nat
  BY SizesAreNat
<1>3. PICK a \in Nat, b \in Nat, x \in Nat, y \in Nat, b1 \in Nat, x1 \in Nat, a1 \in Nat :
        /\ a = Len(l) /\ b = Going(i) /\ x = Going(d) /\ y = Len(w)
        /\ b1 = Going(j) /\ x1 = Going(e) /\ a1 = Len(k)
  BY <1>1, <1>2, Zenon
<1>4. a + b + x + y <= ni + nd
  BY <1>3, ThenUnder, Zenon DEF Under
<1>5. a1 = a + 1 /\ b1 + x1 = b + x - 1
  BY <1>3, Zenon
<1>6. a1 + b1 + x1 + y <= ni + nd
  BY <1>4, <1>5
<1>7. Under(w, j, e, k) <= ni + nd
  BY <1>3, <1>6, Zenon DEF Under
<1> QED
  BY <1>7, FitsAgain, Zenon

\* A miss of L1 for what is asked.
LEMMA OneMoreMiss ==
  ASSUME NEW w \in Walks, NEW i \in Misses, NEW d \in Misses, NEW l \in Seq(MissL2),
         NEW j \in Misses, NEW e \in Misses, NEW mi \in Nat, NEW md \in Nat,
         NEW ni \in Nat, NEW nd \in Nat, Fits(w, i, d, l, ni, nd),
         Within(w, j, e), mi + md = ni + nd + 1,
         Going(j) + Going(e) <= Going(i) + Going(d) + 1
  PROVE  Fits(w, j, e, l, mi, md)
<1>1. /\ Len(w) \in Nat /\ Len(l) \in Nat /\ Going(i) \in Nat /\ Going(d) \in Nat
  BY SizesAreNat
<1>2. Going(j) \in Nat /\ Going(e) \in Nat
  BY SizesAreNat
<1>3. PICK a \in Nat, b \in Nat, x \in Nat, y \in Nat, b1 \in Nat, x1 \in Nat :
        /\ a = Len(l) /\ b = Going(i) /\ x = Going(d) /\ y = Len(w)
        /\ b1 = Going(j) /\ x1 = Going(e)
  BY <1>1, <1>2, Zenon
<1>4. a + b + x + y <= ni + nd
  BY <1>3, ThenUnder, Zenon DEF Under
<1>5. b1 + x1 <= b + x + 1
  BY <1>3, Zenon
<1>6. a + b1 + x1 + y <= mi + md
  BY <1>4, <1>5
<1>7. Under(w, j, e, l) <= mi + md
  BY <1>3, <1>6, Zenon DEF Under
<1> QED
  BY <1>7, FitsAgain, Zenon

\* A walk for what is asked.
LEMMA OneMoreWalk ==
  ASSUME NEW w \in Walks, NEW i \in Misses, NEW d \in Misses, NEW l \in Seq(MissL2),
         NEW v \in Walks, NEW mi \in Nat, NEW md \in Nat,
         NEW ni \in Nat, NEW nd \in Nat, Fits(w, i, d, l, ni, nd),
         Within(v, i, d), mi + md = ni + nd + 1, Len(v) = Len(w) + 1
  PROVE  Fits(v, i, d, l, mi, md)
<1>1. /\ Len(w) \in Nat /\ Len(l) \in Nat /\ Going(i) \in Nat /\ Going(d) \in Nat
  BY SizesAreNat
<1>2. Len(v) \in Nat
  BY SizesAreNat
<1>3. PICK a \in Nat, b \in Nat, x \in Nat, y \in Nat, y1 \in Nat :
        /\ a = Len(l) /\ b = Going(i) /\ x = Going(d) /\ y = Len(w)
        /\ y1 = Len(v)
  BY <1>1, <1>2, Zenon
<1>4. a + b + x + y <= ni + nd
  BY <1>3, ThenUnder, Zenon DEF Under
<1>5. y1 = y + 1
  BY <1>3, Zenon
<1>6. a + b + x + y1 <= mi + md
  BY <1>4, <1>5
<1>7. Under(v, i, d, l) <= mi + md
  BY <1>3, <1>6, Zenon DEF Under
<1> QED
  BY <1>7, FitsAgain, Zenon

\* A walk that is over becomes a miss of L1.
LEMMA WalkLeft ==
  ASSUME NEW w \in Walks, NEW i \in Misses, NEW d \in Misses, NEW l \in Seq(MissL2),
         NEW v \in Walks, NEW j \in Misses, NEW e \in Misses,
         NEW ni \in Nat, NEW nd \in Nat, Fits(w, i, d, l, ni, nd),
         Within(v, j, e), Len(v) = Len(w) - 1,
         Going(j) + Going(e) <= Going(i) + Going(d) + 1
  PROVE  Fits(v, j, e, l, ni, nd)
<1>1. /\ Len(w) \in Nat /\ Len(l) \in Nat /\ Going(i) \in Nat /\ Going(d) \in Nat
  BY SizesAreNat
<1>2. Len(v) \in Nat /\ Going(j) \in Nat /\ Going(e) \in Nat
  BY SizesAreNat
<1>3. PICK a \in Nat, b \in Nat, x \in Nat, y \in Nat, b1 \in Nat, x1 \in Nat, y1 \in Nat :
        /\ a = Len(l) /\ b = Going(i) /\ x = Going(d) /\ y = Len(w)
        /\ b1 = Going(j) /\ x1 = Going(e) /\ y1 = Len(v)
  BY <1>1, <1>2, Zenon
<1>4. a + b + x + y <= ni + nd
  BY <1>3, ThenUnder, Zenon DEF Under
<1>5. y1 = y - 1 /\ b1 + x1 <= b + x + 1
  BY <1>3, Zenon
<1>6. a + b1 + x1 + y1 <= ni + nd
  BY <1>4, <1>5
<1>7. Under(v, j, e, l) <= ni + nd
  BY <1>3, <1>6, Zenon DEF Under
<1> QED
  BY <1>7, FitsAgain, Zenon

LEMMA MissGoesToL2 ==
  ASSUME NEW w \in Walks, NEW bi \in Misses, NEW bd \in Misses, NEW l \in Seq(MissL2),
         NEW j \in Misses, NEW f \in Misses, NEW k \in Seq(MissL2),
         NEW ni \in Nat, NEW nd \in Nat, Fits(w, bi, bd, l, ni, nd),
         Len(k) = Len(l) + 1,
         \/ Len(j) = Len(bi) /\ Going(j) = Going(bi) - 1 /\ f = bd
         \/ Len(f) = Len(bd) /\ Going(f) = Going(bd) - 1 /\ j = bi
  PROVE  Fits(w, j, f, k, ni, nd)
<1>1. Going(bi) \in Nat /\ Going(bd) \in Nat
  BY SizesAreNat
<1>2. Len(w) <= mshr /\ Len(bi) <= mshr /\ Len(bd) <= mshr
  BY Zenon DEF Fits
<1>3. Going(j) \in Nat /\ Going(f) \in Nat
  BY GoingIsNat
<1>4. Going(j) + Going(f) = Going(bi) + Going(bd) - 1
  <2>1. CASE Going(j) = Going(bi) - 1 /\ f = bd
    BY <1>1, <2>1
  <2>2. CASE Going(f) = Going(bd) - 1 /\ j = bi
    BY <1>1, <2>2
  <2> QED
    BY <2>1, <2>2
<1>5. Within(w, j, f)
  BY <1>2, Zenon DEF Within
<1> QED
  BY <1>4, <1>5, GoneToL2

LEMMA SizedHere ==
  ASSUME Sized, NEW c \in Cores
  PROVE  Fits(dtlb_miss_buffer[c], l1_miss_buffer[c]["I"], l1_miss_buffer[c]["D"],
              l2_miss_buffer[c], asked[c]["I"], asked[c]["D"])
BY DEF Sized

LEMMA AccessL2Sized ==
  ASSUME Typed, Typed', Sized, AccessL2
  PROVE  Sized'
<1>. PICK s, i : s = Turn(at) /\ i = Min(L1Waiting(at, s))
  OBVIOUS
<1>. PICK m : m = l1_miss_buffer[at][s]
  OBVIOUS
<1>0. s \in Sources /\ (s = "I" \/ s = "D")
  BY DEF Turn, Sources
<1>1. UNCHANGED <<asked, dtlb_miss_buffer>>
  BY DEF AccessL2, askVars
<1>2. /\ at \in Cores
      /\ l1_miss_buffer \in [Cores -> [Sources -> Misses]]
      /\ l2_miss_buffer \in [Cores -> Seq(MissL2)]
      /\ L2_HIT \in Int /\ Off \in Int
  <2>1. L2_HIT \in Nat \ {0}
    BY CachesAssumption, Zenon
  <2>2. /\ at \in Cores
        /\ l1_miss_buffer \in [Cores -> [Sources -> Misses]]
        /\ l2_miss_buffer \in [Cores -> Seq(MissL2)]
    BY Zenon DEF Typed
  <2> QED
    BY <2>1, <2>2 DEF Off
<1>3. CASE L1Waiting(at, s) = {}
  <2>1. UNCHANGED <<l1_miss_buffer, l2_miss_buffer>>
    BY <1>3 DEF AccessL2
  <2>2. \A c \in Cores : Len(l2_miss_buffer'[c]) <= Len(l2_miss_buffer[c])
    BY <2>1, L2NoLonger
  <2> QED
    BY <1>1, <2>1, <2>2, QuietSized
<1>4. CASE L1Waiting(at, s) # {}
  <2>1. i \in DOMAIN m /\ m \in Misses /\ i \in L1Waiting(at, s)
    <3>1. m \in Seq(Miss) /\ m \in Misses
      BY <1>0, <1>2 DEF Misses
    <3>2. L1Waiting(at, s) \subseteq DOMAIN m
      BY DEF L1Waiting
    <3> QED
      BY <1>4, <3>1, <3>2, FirstIndex
  <2>2. m[i] \in Miss
    BY <2>1 DEF Misses
  <2>3. CASE Hit(l2s[at], m[i].line)
    <3>. PICK v : v = [m EXCEPT ![i] = [@ EXCEPT !.at1 = Off, !.done = L2_HIT]]
      OBVIOUS
    <3>1. v \in Misses /\ NoMore(l1_miss_buffer[at][s], v)
      BY <1>2, <2>1, TimesNoMore
    <3>2. /\ l1_miss_buffer' = [l1_miss_buffer EXCEPT ![at][s][i] =
                    [@ EXCEPT !.at1 = Off, !.done = L2_HIT]]
          /\ UNCHANGED l2_miss_buffer
      BY <1>4, <2>3 DEF AccessL2
    <3>3. l1_miss_buffer' = [l1_miss_buffer EXCEPT
                              ![at] = [l1_miss_buffer[at] EXCEPT ![s] = v]]
      BY <3>2, <1>0, <1>2
    <3>4. \A c \in Cores : Len(l2_miss_buffer'[c]) <= Len(l2_miss_buffer[c])
      BY <3>2, L2NoLonger
    <3> QED
      BY <1>0, <1>1, <1>2, <3>1, <3>3, <3>4, OneBufferSized
  <2>4. CASE ~ Hit(l2s[at], m[i].line)
    <3>. PICK v : v = [m EXCEPT ![i].at1 = Off]
      OBVIOUS
    <3>. PICK e : e = [src |-> s, id |-> m[i].id, line |-> m[i].line,
                       write |-> m[i].write, at2 |-> L2_HIT, done |-> Off]
      OBVIOUS
    <3>1. v \in Misses /\ Len(v) = Len(m) /\ Going(v) = Going(m) - 1
      <4>1. m[i].at1 = 0
        BY <2>1 DEF L1Waiting
      <4>2. m[i].at1 # Off
        BY <4>1 DEF Off
      <4> QED
        BY <2>1, <4>2, At1Gone
    <3>2. /\ l1_miss_buffer' = [l1_miss_buffer EXCEPT ![at][s][i].at1 = Off]
          /\ l2_miss_buffer' = [l2_miss_buffer EXCEPT ![at] = Append(@, e)]
      BY <1>4, <2>4 DEF AccessL2
    <3>3. l1_miss_buffer' = [l1_miss_buffer EXCEPT
                              ![at] = [l1_miss_buffer[at] EXCEPT ![s] = v]]
      BY <3>2, <1>0, <1>2
    <3>4. e \in MissL2
      <4>1. /\ m[i].id \in Nat /\ m[i].line \in Lines /\ m[i].write \in BOOLEAN
        BY <2>2 DEF Miss
      <4> QED
        BY <1>0, <1>2, <4>1 DEF MissL2
    <3>5. PICK l \in Seq(MissL2), k \in Seq(MissL2) :
            l = l2_miss_buffer[at] /\ k = Append(l, e) /\ Len(k) = Len(l) + 1
      <4>1. /\ l2_miss_buffer[at] \in Seq(MissL2)
            /\ Append(l2_miss_buffer[at], e) \in Seq(MissL2)
            /\ Len(Append(l2_miss_buffer[at], e)) = Len(l2_miss_buffer[at]) + 1
        BY <1>2, <3>4
      <4> QED
        BY <4>1, Zenon
    <3>6. PICK bi \in Misses, bd \in Misses, w \in Walks, ni \in Nat, nd \in Nat :
            /\ bi = l1_miss_buffer[at]["I"] /\ bd = l1_miss_buffer[at]["D"]
            /\ w = dtlb_miss_buffer[at] /\ ni = asked[at]["I"] /\ nd = asked[at]["D"]
            /\ Fits(w, bi, bd, l, ni, nd)
      <4>1. /\ l1_miss_buffer[at]["I"] \in Misses /\ l1_miss_buffer[at]["D"] \in Misses
            /\ dtlb_miss_buffer[at] \in Walks
            /\ asked[at]["I"] \in Nat /\ asked[at]["D"] \in Nat
        BY <1>2, BuffersTyped
      <4>2. Fits(dtlb_miss_buffer[at], l1_miss_buffer[at]["I"], l1_miss_buffer[at]["D"],
                 l2_miss_buffer[at], asked[at]["I"], asked[at]["D"])
        BY <1>2, SizedHere
      <4> QED
        BY <3>5, <4>1, <4>2, Zenon
    <3>7. \E j \in Misses, f \in Misses :
            /\ j = l1_miss_buffer'[at]["I"] /\ f = l1_miss_buffer'[at]["D"]
            /\ \/ Len(j) = Len(bi) /\ Going(j) = Going(bi) - 1 /\ f = bd
               \/ Len(f) = Len(bd) /\ Going(f) = Going(bd) - 1 /\ j = bi
      <4>0. "I" \in Sources /\ "D" \in Sources /\ "I" # "D"
        BY DEF Sources
      <4>1. CASE s = "I"
        <5>1. l1_miss_buffer'[at]["I"] = v /\ l1_miss_buffer'[at]["D"] = bd /\ m = bi
          BY <1>2, <3>3, <3>6, <4>0, <4>1
        <5> QED
          BY <3>1, <3>6, <5>1, Zenon
      <4>2. CASE s = "D"
        <5>1. l1_miss_buffer'[at]["D"] = v /\ l1_miss_buffer'[at]["I"] = bi /\ m = bd
          BY <1>2, <3>3, <3>6, <4>0, <4>2
        <5> QED
          BY <3>1, <3>6, <5>1, Zenon
      <4> QED
        BY <1>0, <4>1, <4>2
    <3>8. PICK j \in Misses, f \in Misses :
            /\ j = l1_miss_buffer'[at]["I"] /\ f = l1_miss_buffer'[at]["D"]
            /\ \/ Len(j) = Len(bi) /\ Going(j) = Going(bi) - 1 /\ f = bd
               \/ Len(f) = Len(bd) /\ Going(f) = Going(bd) - 1 /\ j = bi
      BY <3>7
    <3>9. Fits(w, j, f, k, ni, nd)
      <4>1. Len(k) = Len(l) + 1 /\ Fits(w, bi, bd, l, ni, nd)
        BY <3>5, <3>6, Zenon
      <4>2. \/ Len(j) = Len(bi) /\ Going(j) = Going(bi) - 1 /\ f = bd
            \/ Len(f) = Len(bd) /\ Going(f) = Going(bd) - 1 /\ j = bi
        BY <3>8, Zenon
      <4> QED
        BY <4>1, <4>2, MissGoesToL2
    <3>10. Fits(dtlb_miss_buffer'[at], l1_miss_buffer'[at]["I"], l1_miss_buffer'[at]["D"],
                l2_miss_buffer'[at], asked'[at]["I"], asked'[at]["D"])
      <4>1. l2_miss_buffer'[at] = k
        BY <1>2, <3>2, <3>5
      <4>2. dtlb_miss_buffer'[at] = w /\ asked'[at]["I"] = ni /\ asked'[at]["D"] = nd
        BY <1>1, <3>6
      <4> QED
        BY <3>8, <3>9, <4>1, <4>2, Zenon
    <3>11. ASSUME NEW d \in Cores, d # at
           PROVE  /\ dtlb_miss_buffer'[d] = dtlb_miss_buffer[d]
                  /\ l1_miss_buffer'[d] = l1_miss_buffer[d]
                  /\ l2_miss_buffer'[d] = l2_miss_buffer[d]
                  /\ asked'[d] = asked[d]
      BY <1>1, <1>2, <3>2, <3>3, <3>11
    <3> QED
      BY <1>2, <3>10, <3>11, SizedAtCore
  <2> QED
    BY <2>3, <2>4
<1> QED
  BY <1>3, <1>4

\* At most one more is on its way to L2, and the limit is kept.
OneMore(m, v) == Len(v) <= mshr /\ Going(v) <= Going(m) + 1

LEMMA NoMoreIsOneMore ==
  ASSUME NEW m \in Misses, NEW v \in Misses, NoMore(m, v), Len(m) <= mshr
  PROVE  OneMore(m, v)
<1>1. PICK a \in Nat, b \in Nat, x \in Nat, y \in Nat, n \in Nat :
        a = Len(m) /\ b = Going(m) /\ x = Len(v) /\ y = Going(v) /\ n = mshr
  <2>1. Len(m) \in Nat /\ Len(v) \in Nat /\ mshr \in Nat
    BY CachesAssumption DEF Misses
  <2> QED
    BY <2>1, GoingIsNat, Zenon
<1>2. x <= a /\ y <= b /\ a <= n
  BY <1>1, Zenon DEF NoMore
<1>3. x <= n /\ y <= b + 1
  BY <1>2
<1> QED
  BY <1>1, <1>3, Zenon DEF OneMore

LEMMA AppendedIsOneMore ==
  ASSUME NEW m \in Misses, NEW e \in Miss, Len(m) < mshr
  PROVE  Append(m, e) \in Misses /\ OneMore(m, Append(m, e))
<1>1. /\ Append(m, e) \in Misses /\ Len(Append(m, e)) = Len(m) + 1
      /\ Going(Append(m, e)) <= Going(m) + 1
  BY OneMoreGoing
<1>2. Len(m) \in Nat /\ mshr \in Nat
  BY CachesAssumption DEF Misses
<1>3. Len(Append(m, e)) <= mshr
  BY <1>1, <1>2
<1> QED
  BY <1>1, <1>3, Zenon DEF OneMore

LEMMA OneMoreAskedFits ==
  ASSUME NEW w \in Walks, NEW i \in Misses, NEW d \in Misses, NEW l \in Seq(MissL2),
         NEW j \in Misses, NEW e \in Misses,
         NEW ni \in Nat, NEW nd \in Nat, NEW mi \in Nat, NEW md \in Nat,
         Fits(w, i, d, l, ni, nd),
         \/ OneMore(i, j) /\ e = d /\ mi = ni + 1 /\ md = nd
         \/ OneMore(d, e) /\ j = i /\ mi = ni /\ md = nd + 1
  PROVE  Fits(w, j, e, l, mi, md)
<1>1. Going(i) \in Nat /\ Going(d) \in Nat /\ Going(j) \in Nat /\ Going(e) \in Nat
  BY GoingIsNat
<1>2. Within(w, i, d)
  BY ThenUnder
<1>3. Within(w, j, e)
  BY <1>2, Zenon DEF Within, OneMore
<1>4. Going(j) + Going(e) <= Going(i) + Going(d) + 1
  <2>1. CASE OneMore(i, j) /\ e = d
    <3>1. Going(j) <= Going(i) + 1
      BY <2>1, Zenon DEF OneMore
    <3> QED
      BY <1>1, <2>1, <3>1
  <2>2. CASE OneMore(d, e) /\ j = i
    <3>1. Going(e) <= Going(d) + 1
      BY <2>2, Zenon DEF OneMore
    <3> QED
      BY <1>1, <2>2, <3>1
  <2> QED
    BY <2>1, <2>2
<1>5. mi + md = ni + nd + 1
  OBVIOUS
<1> QED
  BY <1>3, <1>4, <1>5, OneMoreMiss

LEMMA BuffersWithin ==
  ASSUME Sized, NEW c \in Cores
  PROVE  /\ Len(dtlb_miss_buffer[c]) <= mshr
         /\ Len(l1_miss_buffer[c]["I"]) <= mshr
         /\ Len(l1_miss_buffer[c]["D"]) <= mshr
BY SizedHere, Zenon DEF Fits

\* dcache_hit and dcache_miss, in the buffer.
LEMMA EnteredSized ==
  ASSUME Typed, Sized, NEW c \in Cores, NEW r,
         r.id \in Nat, r.line \in Lines, r.write \in BOOLEAN,
         dcache_hit(c, r) \/ (RoomInL1(c) /\ dcache_miss(c, r))
  PROVE  \E v \in Misses :
           /\ OneMore(l1_miss_buffer[c]["D"], v)
           /\ l1_miss_buffer' = [l1_miss_buffer EXCEPT
                                   ![c] = [l1_miss_buffer[c] EXCEPT !["D"] = v]]
<1>. PICK m : m = l1_miss_buffer[c]["D"]
  OBVIOUS
<1>1. /\ m \in Misses /\ "D" \in Sources
      /\ l1_miss_buffer \in [Cores -> [Sources -> Misses]]
  BY DEF Typed, Sources
<1>2. Len(m) <= mshr
  BY BuffersWithin
<1>3. CASE dcache_hit(c, r)
  <2>1. OneMore(m, m)
    BY <1>1, <1>2, NoMoreThanItself, NoMoreIsOneMore
  <2>2. l1_miss_buffer' = [l1_miss_buffer EXCEPT
                             ![c] = [l1_miss_buffer[c] EXCEPT !["D"] = m]]
    <3>1. UNCHANGED l1_miss_buffer
      BY <1>3 DEF dcache_hit
    <3> QED
      BY <1>1, <3>1
  <2> QED
    BY <1>1, <2>1, <2>2, Zenon
<1>4. CASE RoomInL1(c) /\ dcache_miss(c, r)
  <2>. PICK same : same = SameLine(m, r.line)
    OBVIOUS
  <2>1. CASE same # {}
    <3>. PICK n : n = Min(same)
      OBVIOUS
    <3>1. n \in DOMAIN m
      <4>1. same \subseteq DOMAIN m /\ m \in Seq(Miss)
        BY <1>1 DEF SameLine, Misses
      <4> QED
        BY <2>1, <4>1, FirstIndex
    <3>0. l1_miss_buffer' =
            [l1_miss_buffer EXCEPT ![c]["D"] = [m EXCEPT ![n].dest = Append(@, r.id)]]
      BY <1>4, <2>1 DEF dcache_miss
    <3>. PICK x : x = r.id
      OBVIOUS
    <3>. PICK v : v = [m EXCEPT ![n].dest = Append(@, x)]
      OBVIOUS
    <3>2. v \in Misses /\ NoMore(m, v)
      BY <1>1, <3>1, DestNoMore
    <3>3. OneMore(m, v)
      BY <1>1, <1>2, <3>2, NoMoreIsOneMore
    <3>4. l1_miss_buffer' = [l1_miss_buffer EXCEPT
                              ![c] = [l1_miss_buffer[c] EXCEPT !["D"] = v]]
      <4>1. l1_miss_buffer' = [l1_miss_buffer EXCEPT ![c]["D"] = v]
        BY <3>0, Zenon
      <4> QED
        BY <4>1
    <3> QED
      BY <3>2, <3>3, <3>4, Zenon
  <2>2. CASE same = {}
    <3>. PICK e : e = [id |-> r.id, line |-> r.line, write |-> r.write,
                       at1 |-> L1_HIT, done |-> Off, dest |-> <<>>]
      OBVIOUS
    <3>1. e \in Miss
      <4>0. L1_HIT \in Nat \ {0}
        BY CachesAssumption, Zenon
      <4>1. L1_HIT \in Int /\ Off \in Int /\ <<>> \in Seq(Nat)
        BY <4>0 DEF Off
      <4> QED
        BY <4>1 DEF Miss
    <3>2. Len(m) < mshr
      BY <1>4 DEF RoomInL1
    <3>3. Append(m, e) \in Misses /\ OneMore(m, Append(m, e))
      BY <1>1, <3>1, <3>2, AppendedIsOneMore
    <3>4. l1_miss_buffer' = [l1_miss_buffer EXCEPT
                              ![c] = [l1_miss_buffer[c] EXCEPT !["D"] = Append(m, e)]]
      BY <1>4, <2>2 DEF dcache_miss
    <3> QED
      BY <3>3, <3>4, Zenon
  <2> QED
    BY <2>1, <2>2
<1> QED
  BY <1>3, <1>4

\* One more is taken, and its miss is in one buffer of L1.
LEMMA TakenSized ==
  ASSUME Typed, Sized, NEW c \in Cores, NEW s \in Sources, Taken(c, s),
         NEW v \in Misses, OneMore(l1_miss_buffer[c][s], v),
         l1_miss_buffer' = [l1_miss_buffer EXCEPT
                              ![c] = [l1_miss_buffer[c] EXCEPT ![s] = v]],
         UNCHANGED <<dtlb_miss_buffer, l2_miss_buffer>>
  PROVE  Sized'
<1>0. "I" \in Sources /\ "D" \in Sources /\ "I" # "D" /\ (s = "I" \/ s = "D")
  BY DEF Sources
<1>1. /\ l1_miss_buffer \in [Cores -> [Sources -> Misses]]
      /\ asked \in [Cores -> [Sources -> Nat]]
  BY DEF Typed
<1>2. /\ asked' \in [Cores -> [Sources -> Nat]]
      /\ asked'[c][s] = asked[c][s] + 1
      /\ \A d \in Cores, t \in Sources : ~ (d = c /\ t = s) => asked'[d][t] = asked[d][t]
  BY TakenKeeps
<1>3. PICK w \in Walks, i \in Misses, d \in Misses, l \in Seq(MissL2), ni \in Nat, nd \in Nat :
        /\ w = dtlb_miss_buffer[c] /\ l = l2_miss_buffer[c]
        /\ i = l1_miss_buffer[c]["I"] /\ d = l1_miss_buffer[c]["D"]
        /\ ni = asked[c]["I"] /\ nd = asked[c]["D"]
  BY BuffersTyped, Zenon
<1>4. PICK j \in Misses, e \in Misses, mi \in Nat, md \in Nat :
        /\ j = l1_miss_buffer'[c]["I"] /\ e = l1_miss_buffer'[c]["D"]
        /\ mi = asked'[c]["I"] /\ md = asked'[c]["D"]
  <2>1. l1_miss_buffer'[c]["I"] \in Misses /\ l1_miss_buffer'[c]["D"] \in Misses
    BY <1>0, <1>1
  <2>2. asked'[c]["I"] \in Nat /\ asked'[c]["D"] \in Nat
    BY <1>0, <1>2
  <2> QED
    BY <2>1, <2>2, Zenon
<1>5. \/ OneMore(i, j) /\ e = d /\ mi = ni + 1 /\ md = nd
      \/ OneMore(d, e) /\ j = i /\ mi = ni /\ md = nd + 1
  <2>1. CASE s = "I"
    <3>1. l1_miss_buffer'[c]["I"] = v /\ l1_miss_buffer'[c]["D"] = l1_miss_buffer[c]["D"]
      BY <1>0, <1>1, <2>1
    <3>2. asked'[c]["I"] = asked[c]["I"] + 1 /\ asked'[c]["D"] = asked[c]["D"]
      BY <1>0, <1>2, <2>1
    <3>3. OneMore(i, j)
      BY <1>3, <1>4, <2>1, <3>1, Zenon
    <3> QED
      BY <1>3, <1>4, <3>1, <3>2, <3>3
  <2>2. CASE s = "D"
    <3>1. l1_miss_buffer'[c]["D"] = v /\ l1_miss_buffer'[c]["I"] = l1_miss_buffer[c]["I"]
      BY <1>0, <1>1, <2>2
    <3>2. asked'[c]["D"] = asked[c]["D"] + 1 /\ asked'[c]["I"] = asked[c]["I"]
      BY <1>0, <1>2, <2>2
    <3>3. OneMore(d, e)
      BY <1>3, <1>4, <2>2, <3>1, Zenon
    <3> QED
      BY <1>3, <1>4, <3>1, <3>2, <3>3
  <2> QED
    BY <1>0, <2>1, <2>2
<1>6. Fits(w, i, d, l, ni, nd)
  BY <1>3, SizedHere, Zenon
<1>7. Fits(w, j, e, l, mi, md)
  BY <1>5, <1>6, OneMoreAskedFits
<1>8. Fits(dtlb_miss_buffer'[c], l1_miss_buffer'[c]["I"], l1_miss_buffer'[c]["D"],
           l2_miss_buffer'[c], asked'[c]["I"], asked'[c]["D"])
  <2>1. dtlb_miss_buffer'[c] = w /\ l2_miss_buffer'[c] = l
    BY <1>3
  <2> QED
    BY <1>4, <1>7, <2>1, Zenon
<1>9. ASSUME NEW b \in Cores, b # c
      PROVE  /\ dtlb_miss_buffer'[b] = dtlb_miss_buffer[b]
             /\ l1_miss_buffer'[b] = l1_miss_buffer[b]
             /\ l2_miss_buffer'[b] = l2_miss_buffer[b]
             /\ asked'[b] = asked[b]
  <2>1. l1_miss_buffer'[b] = l1_miss_buffer[b]
    BY <1>1, <1>9
  <2>2. asked'[b] = asked[b]
    BY <1>1, <1>9 DEF Taken
  <2> QED
    BY <2>1, <2>2
<1> QED
  BY <1>8, <1>9, SizedAtCore

LEMMA FetchInstSized ==
  ASSUME Typed, Typed', Sized, FetchInst
  PROVE  Sized'
<1>. PICK n, line, m :
       /\ n = asked[at]["I"] + 1 /\ line = work["I"][at][n]
       /\ m = l1_miss_buffer[at]["I"]
  OBVIOUS
<1>1. /\ Ahead(at, "I") /\ Taken(at, "I")
      /\ UNCHANGED <<dtlb_miss_buffer, l2_miss_buffer>>
      /\ \/ UNCHANGED l1_miss_buffer
         \/ /\ Len(m) < mshr
            /\ l1_miss_buffer' = [l1_miss_buffer EXCEPT ![at]["I"] =
                 Append(m, [id |-> n, line |-> line, write |-> FALSE, at1 |-> L1_HIT,
                            done |-> Off, dest |-> <<>>])]
  BY DEF FetchInst
<1>2. /\ at \in Cores /\ "I" \in Sources
      /\ l1_miss_buffer \in [Cores -> [Sources -> Misses]]
      /\ asked \in [Cores -> [Sources -> Nat]]
  BY DEF Typed, Sources
<1>3. m \in Misses /\ Len(m) <= mshr
  BY <1>2, BuffersWithin
<1>4. CASE UNCHANGED l1_miss_buffer
  <2>1. OneMore(l1_miss_buffer[at]["I"], m)
    BY <1>3, NoMoreThanItself, NoMoreIsOneMore
  <2>2. l1_miss_buffer' = [l1_miss_buffer EXCEPT
                            ![at] = [l1_miss_buffer[at] EXCEPT !["I"] = m]]
    BY <1>2, <1>4
  <2> QED
    BY <1>1, <1>2, <1>3, <2>1, <2>2, TakenSized
<1>5. CASE ~ UNCHANGED l1_miss_buffer
  <2>1. PICK e : e = [id |-> n, line |-> line, write |-> FALSE, at1 |-> L1_HIT,
                      done |-> Off, dest |-> <<>>]
    OBVIOUS
  <2>2. line \in Lines
    <3>1. PICK s : s = work["I"][at]
      OBVIOUS
    <3>2. s \in Seq(Lines)
      BY <1>2, <3>1, InstructionsTyped
    <3>3. asked[at]["I"] \in Nat /\ asked[at]["I"] < Len(s)
      BY <1>1, <1>2, <3>1 DEF Ahead
    <3>4. n \in DOMAIN s
      BY <3>2, <3>3
    <3>5. s[n] \in Lines
      BY <3>2, <3>4, ElementsTyped
    <3> QED
      BY <3>1, <3>5
  <2>3. e \in Miss
    <3>1. n \in Nat
      <4>1. asked[at]["I"] \in Nat
        BY <1>2
      <4> QED
        BY <4>1
    <3>2. L1_HIT \in Int /\ Off \in Int /\ <<>> \in Seq(Nat)
      BY CachesAssumption DEF Off
    <3> QED
      BY <2>1, <2>2, <3>1, <3>2 DEF Miss
  <2>4. Len(m) < mshr
    BY <1>1, <1>5
  <2>5. Append(m, e) \in Misses /\ OneMore(l1_miss_buffer[at]["I"], Append(m, e))
    BY <1>3, <2>3, <2>4, AppendedIsOneMore
  <2>6. l1_miss_buffer' = [l1_miss_buffer EXCEPT
                            ![at] = [l1_miss_buffer[at] EXCEPT !["I"] = Append(m, e)]]
    BY <1>1, <1>5, <2>1
  <2> QED
    BY <1>1, <1>2, <2>5, <2>6, TakenSized
<1> QED
  BY <1>4, <1>5

LEMMA SearchL1Sized ==
  ASSUME Typed, Typed', Sized, SearchL1
  PROVE  Sized'
<1>. PICK r : r = Request(at)
  OBVIOUS
<1>1. /\ Ahead(at, "D") /\ Taken(at, "D")
      /\ dcache_hit(at, r) \/ (RoomInL1(at) /\ dcache_miss(at, r))
      /\ UNCHANGED <<dtlb_miss_buffer, l2_miss_buffer>>
  BY DEF SearchL1
<1>2. at \in Cores /\ "D" \in Sources
  BY DEF Typed, Sources
<1>3. r.id \in Nat /\ r.line \in Lines /\ r.write \in BOOLEAN
  BY <1>1, <1>2, RequestTyped
<1>4. PICK v \in Misses :
        /\ OneMore(l1_miss_buffer[at]["D"], v)
        /\ l1_miss_buffer' = [l1_miss_buffer EXCEPT
                                ![at] = [l1_miss_buffer[at] EXCEPT !["D"] = v]]
  BY <1>1, <1>2, <1>3, EnteredSized, Zenon
<1> QED
  BY <1>1, <1>2, <1>4, TakenSized

LEMMA DtlbMissSized ==
  ASSUME Typed, Typed', Sized, DTLB_MISS
  PROVE  Sized'
<1>1. /\ Taken(at, "D") /\ Len(dtlb_miss_buffer[at]) < mshr
      /\ \E e : dtlb_miss_buffer' = [dtlb_miss_buffer EXCEPT ![at] =
                                       Append(dtlb_miss_buffer[at], e)]
      /\ UNCHANGED <<l1_miss_buffer, l2_miss_buffer>>
  BY DEF DTLB_MISS
<1>2. /\ at \in Cores /\ "I" \in Sources /\ "D" \in Sources /\ "I" # "D"
      /\ dtlb_miss_buffer \in [Cores -> Walks]
      /\ dtlb_miss_buffer' \in [Cores -> Walks]
      /\ asked \in [Cores -> [Sources -> Nat]]
  BY DEF Typed, Sources
<1>3. /\ asked'[at]["D"] = asked[at]["D"] + 1 /\ asked'[at]["I"] = asked[at]["I"]
      /\ \A d \in Cores : d # at => asked'[d] = asked[d]
  <2>1. asked' = [asked EXCEPT ![at]["D"] = asked[at]["D"] + 1]
    BY <1>1 DEF Taken
  <2> QED
    BY <1>2, <2>1
<1>4. PICK w \in Walks, i \in Misses, d \in Misses, l \in Seq(MissL2), ni \in Nat, nd \in Nat :
        /\ w = dtlb_miss_buffer[at] /\ l = l2_miss_buffer[at]
        /\ i = l1_miss_buffer[at]["I"] /\ d = l1_miss_buffer[at]["D"]
        /\ ni = asked[at]["I"] /\ nd = asked[at]["D"]
  BY <1>2, BuffersTyped, Zenon
<1>5. PICK v \in Walks, md \in Nat :
        v = dtlb_miss_buffer'[at] /\ Len(v) = Len(w) + 1 /\ md = nd + 1
  <2>1. dtlb_miss_buffer'[at] \in Walks
    BY <1>2
  <2>2. PICK e : dtlb_miss_buffer'[at] = Append(dtlb_miss_buffer[at], e)
    BY <1>1, <1>2
  <2>3. Len(dtlb_miss_buffer'[at]) = Len(w) + 1
    BY <1>4, <2>2 DEF Walks
  <2>4. nd + 1 \in Nat
    BY <1>4
  <2> QED
    BY <2>1, <2>3, <2>4, Zenon
<1>6. Fits(w, i, d, l, ni, nd)
  BY <1>2, <1>4, SizedHere, Zenon
<1>7. Within(v, i, d)
  <2>1. Len(w) < mshr /\ Len(w) \in Nat /\ mshr \in Nat
    <3>1. Len(w) < mshr
      BY <1>1, <1>4, Zenon
    <3> QED
      BY <1>4, <3>1, SizesAreNat
  <2>2. Len(v) <= mshr
    BY <1>5, <2>1
  <2>3. Within(w, i, d)
    BY <1>6, ThenUnder
  <2> QED
    BY <2>2, <2>3, Zenon DEF Within
<1>8. Fits(v, i, d, l, ni, md)
  <2>1. ni + md = ni + nd + 1 /\ Len(v) = Len(w) + 1
    BY <1>5
  <2> QED
    BY <1>6, <1>7, <2>1, OneMoreWalk
<1>9. Fits(dtlb_miss_buffer'[at], l1_miss_buffer'[at]["I"], l1_miss_buffer'[at]["D"],
           l2_miss_buffer'[at], asked'[at]["I"], asked'[at]["D"])
  <2>1. /\ l1_miss_buffer'[at]["I"] = i /\ l1_miss_buffer'[at]["D"] = d
        /\ l2_miss_buffer'[at] = l
    BY <1>1, <1>4
  <2>2. asked'[at]["I"] = ni /\ asked'[at]["D"] = md
    BY <1>3, <1>4, <1>5
  <2> QED
    BY <1>5, <1>8, <2>1, <2>2, Zenon
<1>10. ASSUME NEW b \in Cores, b # at
       PROVE  /\ dtlb_miss_buffer'[b] = dtlb_miss_buffer[b]
              /\ l1_miss_buffer'[b] = l1_miss_buffer[b]
              /\ l2_miss_buffer'[b] = l2_miss_buffer[b]
              /\ asked'[b] = asked[b]
  <2>1. dtlb_miss_buffer'[b] = dtlb_miss_buffer[b]
    BY <1>1, <1>2, <1>10
  <2> QED
    BY <1>1, <1>3, <1>10, <2>1
<1> QED
  BY <1>2, <1>9, <1>10, SizedAtCore

LEMMA WalkOverFits ==
  ASSUME NEW w \in Walks, NEW i \in Misses, NEW d \in Misses, NEW l \in Seq(MissL2),
         NEW v \in Walks, NEW e \in Misses, NEW ni \in Nat, NEW nd \in Nat,
         Fits(w, i, d, l, ni, nd), Len(v) = Len(w) - 1, OneMore(d, e)
  PROVE  Fits(v, i, e, l, ni, nd)
<1>1. /\ Going(i) \in Nat /\ Going(d) \in Nat /\ Going(e) \in Nat
      /\ Len(w) \in Nat /\ Len(v) \in Nat /\ mshr \in Nat
  BY SizesAreNat
<1>2. Within(w, i, d)
  BY ThenUnder
<1>3. Len(v) <= mshr
  <2>1. Len(w) <= mshr
    BY <1>2, Zenon DEF Within
  <2> QED
    BY <1>1, <2>1
<1>4. Within(v, i, e)
  BY <1>2, <1>3, Zenon DEF Within, OneMore
<1>5. Going(i) + Going(e) <= Going(i) + Going(d) + 1
  <2>1. Going(e) <= Going(d) + 1
    BY Zenon DEF OneMore
  <2> QED
    BY <1>1, <2>1
<1> QED
  BY <1>4, <1>5, WalkLeft

LEMMA DtlbUpdateSized ==
  ASSUME Typed, Typed', Sized, dtlb_mshr_update
  PROVE  Sized'
<1>. PICK n, r : n = Min(WalksOver(at)) /\ r = dtlb_miss_buffer[at][n]
  OBVIOUS
<1>1. /\ WalksOver(at) # {}
      /\ UNCHANGED <<asked, l2_miss_buffer>>
      /\ \/ /\ dcache_hit(at, r) \/ (RoomInL1(at) /\ dcache_miss(at, r))
            /\ dtlb_miss_buffer' = [dtlb_miss_buffer EXCEPT
                                      ![at] = RemoveAt(dtlb_miss_buffer[at], n)]
         \/ UNCHANGED <<l1_miss_buffer, dtlb_miss_buffer>>
  BY DEF dtlb_mshr_update
<1>2. /\ at \in Cores /\ "I" \in Sources /\ "D" \in Sources /\ "I" # "D"
      /\ dtlb_miss_buffer \in [Cores -> Walks]
      /\ dtlb_miss_buffer' \in [Cores -> Walks]
      /\ l1_miss_buffer \in [Cores -> [Sources -> Misses]]
  BY DEF Typed, Sources
<1>3. CASE UNCHANGED <<l1_miss_buffer, dtlb_miss_buffer>>
  <2>1. \A c \in Cores : Len(l2_miss_buffer'[c]) <= Len(l2_miss_buffer[c])
    BY <1>1, L2NoLonger
  <2> QED
    BY <1>1, <1>3, <2>1, QuietSized
<1>4. CASE /\ dcache_hit(at, r) \/ (RoomInL1(at) /\ dcache_miss(at, r))
           /\ dtlb_miss_buffer' = [dtlb_miss_buffer EXCEPT
                                     ![at] = RemoveAt(dtlb_miss_buffer[at], n)]
  <2>1. PICK w \in Walks, i \in Misses, d \in Misses, l \in Seq(MissL2), ni \in Nat, nd \in Nat :
          /\ w = dtlb_miss_buffer[at] /\ l = l2_miss_buffer[at]
          /\ i = l1_miss_buffer[at]["I"] /\ d = l1_miss_buffer[at]["D"]
          /\ ni = asked[at]["I"] /\ nd = asked[at]["D"]
    BY <1>2, BuffersTyped, Zenon
  <2>2. n \in DOMAIN w
    <3>1. WalksOver(at) \subseteq DOMAIN w /\ w \in Seq(Walk)
      BY <2>1 DEF WalksOver, Walks
    <3> QED
      BY <1>1, <3>1, FirstIndex
  <2>3. r.id \in Nat /\ r.line \in Lines /\ r.write \in BOOLEAN
    <3>1. r \in Walk
      <4>1. w[n] \in Walk
        BY <2>1, <2>2, ElementsTyped DEF Walks
      <4> QED
        BY <2>1, <4>1, Zenon
    <3> QED
      BY <3>1 DEF Walk
  <2>4. PICK e \in Misses :
          /\ OneMore(l1_miss_buffer[at]["D"], e)
          /\ l1_miss_buffer' = [l1_miss_buffer EXCEPT
                                  ![at] = [l1_miss_buffer[at] EXCEPT !["D"] = e]]
    <3>1. dcache_hit(at, r) \/ (RoomInL1(at) /\ dcache_miss(at, r))
      BY <1>4, Zenon
    <3> QED
      BY <1>2, <2>3, <3>1, EnteredSized, Zenon
  <2>5. PICK v \in Walks : v = dtlb_miss_buffer'[at] /\ Len(v) = Len(w) - 1
    <3>1. /\ Len(w) \in Nat /\ n \in 1 .. Len(w)
          /\ RemoveAt(w, n) \in Walks /\ DOMAIN RemoveAt(w, n) = 1 .. Len(w) - 1
      BY <2>1, <2>2, Removed DEF Walks
    <3>2. PICK u \in Walks : u = RemoveAt(w, n)
      BY <3>1
    <3>3. Len(u) = Len(w) - 1
      <4>1. DOMAIN u = 1 .. Len(u) /\ Len(u) \in Nat
        BY <3>2 DEF Walks
      <4>2. DOMAIN u = 1 .. Len(w) - 1
        BY <3>1, <3>2, Zenon
      <4> QED
        BY <3>1, <4>1, <4>2
    <3>4. dtlb_miss_buffer'[at] = u
      <4>1. dtlb_miss_buffer'[at] = RemoveAt(dtlb_miss_buffer[at], n)
        BY <1>2, <1>4
      <4> QED
        BY <2>1, <3>2, <4>1, Zenon
    <3> QED
      BY <3>3, <3>4
  <2>6. Fits(w, i, d, l, ni, nd)
    BY <1>2, <2>1, SizedHere, Zenon
  <2>7. OneMore(d, e)
    BY <2>1, <2>4, Zenon
  <2>8. Fits(v, i, e, l, ni, nd)
    <3>1. Len(v) = Len(w) - 1
      BY <2>5
    <3> QED
      BY <2>6, <2>7, <3>1, WalkOverFits
  <2>9. Fits(dtlb_miss_buffer'[at], l1_miss_buffer'[at]["I"], l1_miss_buffer'[at]["D"],
             l2_miss_buffer'[at], asked'[at]["I"], asked'[at]["D"])
    <3>1. l1_miss_buffer'[at]["I"] = i /\ l1_miss_buffer'[at]["D"] = e
      BY <1>2, <2>1, <2>4
    <3>2. l2_miss_buffer'[at] = l /\ asked'[at]["I"] = ni /\ asked'[at]["D"] = nd
      BY <1>1, <2>1
    <3> QED
      BY <2>5, <2>8, <3>1, <3>2, Zenon
  <2>10. ASSUME NEW b \in Cores, b # at
         PROVE  /\ dtlb_miss_buffer'[b] = dtlb_miss_buffer[b]
                /\ l1_miss_buffer'[b] = l1_miss_buffer[b]
                /\ l2_miss_buffer'[b] = l2_miss_buffer[b]
                /\ asked'[b] = asked[b]
    <3>1. dtlb_miss_buffer'[b] = dtlb_miss_buffer[b]
      BY <1>2, <1>4, <2>10
    <3>2. l1_miss_buffer'[b] = l1_miss_buffer[b]
      BY <1>2, <2>4, <2>10
    <3> QED
      BY <1>1, <3>1, <3>2
  <2> QED
    BY <1>2, <2>9, <2>10, SizedAtCore
<1> QED
  BY <1>1, <1>3, <1>4

LEMMA StartSized ==
  ASSUME Init
  PROVE  Sized
<1> SUFFICES ASSUME NEW c \in Cores
             PROVE  Fits(dtlb_miss_buffer[c], l1_miss_buffer[c]["I"],
                         l1_miss_buffer[c]["D"], l2_miss_buffer[c],
                         asked[c]["I"], asked[c]["D"])
  BY DEF Sized
<1>1. /\ dtlb_miss_buffer[c] = <<>> /\ l2_miss_buffer[c] = <<>>
      /\ l1_miss_buffer[c]["I"] = <<>> /\ l1_miss_buffer[c]["D"] = <<>>
      /\ asked[c]["I"] = 0 /\ asked[c]["D"] = 0
  BY DEF Init, Sources
<1>2. Going(<<>>) = 0
  <2>1. {i \in DOMAIN <<>> : <<>>[i].at1 # Off} = {}
    OBVIOUS
  <2> QED
    BY <2>1, FS_EmptySet, Zenon DEF Going
<1>3. Len(<<>>) = 0 /\ mshr \in Nat
  BY CachesAssumption
<1>4. Fits(<<>>, <<>>, <<>>, <<>>, 0, 0)
  BY <1>2, <1>3 DEF Fits
<1> QED
  BY <1>1, <1>4, Zenon

-------------------------------------------------------------------------------
(***************************************************************************)
(* What has been taken, and the sets of the caches.                        *)
(***************************************************************************)
\* A core takes no more than there is.
AskedWithin == \A c \in Cores, s \in Sources : asked[c][s] <= Len(work[s][c])

LEMMA WorkTyped ==
  ASSUME Typed, NEW c \in Cores, NEW s \in Sources
  PROVE  Len(work[s][c]) \in Nat /\ asked[c][s] \in Nat
<1>. PICK R : R = [line : Lines, write : BOOLEAN]
  OBVIOUS
<1>1. Workloads \subseteq [D : [Cores -> Seq(R)], I : [Cores -> Seq(Lines)]]
  BY CachesAssumption, Zenon DEF Cores
<1>2. work \in [D : [Cores -> Seq(R)], I : [Cores -> Seq(Lines)]]
  BY <1>1 DEF Typed
<1>3. Len(work["I"][c]) \in Nat /\ Len(work["D"][c]) \in Nat
  <2>1. work["I"] \in [Cores -> Seq(Lines)] /\ work["D"] \in [Cores -> Seq(R)]
    BY <1>2
  <2>2. work["I"][c] \in Seq(Lines) /\ work["D"][c] \in Seq(R)
    BY <2>1
  <2> QED
    BY <2>2
<1>4. asked[c][s] \in Nat
  BY DEF Typed
<1>5. s = "I" \/ s = "D"
  BY DEF Sources
<1> QED
  BY <1>3, <1>4, <1>5

LEMMA TakenWithin ==
  ASSUME Typed, AskedWithin, NEW c \in Cores, NEW s \in Sources,
         Ahead(c, s), Taken(c, s), UNCHANGED work
  PROVE  AskedWithin'
<1> SUFFICES ASSUME NEW d \in Cores, NEW t \in Sources
             PROVE  asked'[d][t] <= Len(work[t][d])
  BY DEF AskedWithin
<1>1. asked[d][t] \in Nat /\ Len(work[t][d]) \in Nat
  BY WorkTyped
<1>2. asked[d][t] <= Len(work[t][d])
  BY DEF AskedWithin
<1>3. /\ asked'[c][s] = asked[c][s] + 1
      /\ ~ (d = c /\ t = s) => asked'[d][t] = asked[d][t]
  BY TakenKeeps
<1>4. CASE d = c /\ t = s
  <2>1. asked[d][t] < Len(work[t][d])
    BY <1>4 DEF Ahead
  <2>2. asked[d][t] + 1 <= Len(work[t][d])
    BY <1>1, <2>1
  <2> QED
    BY <1>3, <1>4, <2>2, Zenon
<1>5. CASE ~ (d = c /\ t = s)
  BY <1>2, <1>3, <1>5, Zenon
<1> QED
  BY <1>4, <1>5

LEMMA StartWithin ==
  ASSUME Init, Typed
  PROVE  AskedWithin
<1> SUFFICES ASSUME NEW c \in Cores, NEW s \in Sources
             PROVE  asked[c][s] <= Len(work[s][c])
  BY DEF AskedWithin
<1>1. asked[c][s] = 0
  BY DEF Init
<1>2. Len(work[s][c]) \in Nat
  BY WorkTyped
<1> QED
  BY <1>1, <1>2

LEMMA AskedKept ==
  ASSUME AskedWithin, UNCHANGED <<asked, work>>
  PROVE  AskedWithin'
BY DEF AskedWithin

LEMMA StepsSized ==
  ASSUME Typed, Typed', Sized, AskedWithin, [Next]_vars
  PROVE  Sized' /\ AskedWithin'
<1>0. at \in Cores /\ "I" \in Sources /\ "D" \in Sources
  BY DEF Typed, Sources
<1>1. CASE UNCHANGED vars
  <2>1. UNCHANGED <<asked, work, dtlb_miss_buffer, l1_miss_buffer, l2_miss_buffer>>
    BY <1>1 DEF vars, missVars, askVars
  <2>2. \A c \in Cores : Len(l2_miss_buffer'[c]) <= Len(l2_miss_buffer[c])
    BY <2>1, L2NoLonger
  <2> QED
    BY <2>1, <2>2, QuietSized, AskedKept
<1>2. CASE Replies
  <2>1. UNCHANGED <<asked, work>>
    BY <1>2 DEF Replies, MemoryReplies, askVars
  <2>2. Sized'
    BY <1>2, QuietStepsSized DEF Replies
  <2> QED
    BY <2>1, <2>2, AskedKept
<1>3. CASE FetchInst
  <2>1. Ahead(at, "I") /\ Taken(at, "I") /\ UNCHANGED work
    BY <1>3 DEF FetchInst
  <2> QED
    BY <1>0, <1>3, <2>1, TakenWithin, FetchInstSized
<1>4. CASE SearchL1
  <2>1. Ahead(at, "D") /\ Taken(at, "D") /\ UNCHANGED work
    BY <1>4 DEF SearchL1
  <2> QED
    BY <1>0, <1>4, <2>1, TakenWithin, SearchL1Sized
<1>5. CASE DTLB_MISS
  <2>1. Ahead(at, "D") /\ Taken(at, "D") /\ UNCHANGED work
    BY <1>5 DEF DTLB_MISS
  <2> QED
    BY <1>0, <1>5, <2>1, TakenWithin, DtlbMissSized
<1>6. CASE Update
  <2>1. UNCHANGED <<asked, work>>
    BY <1>6 DEF Update, MemoryCompletes, EndMemory, update_caches, dtlb_mshr_update,
                NoWalkOver, LLC_to_memory, RemoveFromL3, EndL3, ForwardHit, ForwardMiss,
                ForwardNextCore, EndForward, AccessL2, EndAccessL2, RemoveFromL2, EndL2,
                FillIcache, NoIcacheFill, RemoveFromL1, EndL1, askVars
  <2>2. Sized'
    BY <1>6, QuietStepsSized, UpdateCachesSized, DtlbUpdateSized, ForwardHitSized,
       ForwardMissSized, AccessL2Sized, RemoveFromL2Sized, FillIcacheSized,
       RemoveFromL1Sized DEF Update
  <2> QED
    BY <2>1, <2>2, AskedKept
<1>7. CASE Begin \/ NoFetch \/ PortTaken \/ NoSearch \/ Tick
  <2>1. UNCHANGED <<asked, work>>
    BY <1>7 DEF Begin, NoFetch, PortTaken, NoSearch, Tick, askVars
  <2>2. Sized'
    BY <1>7, QuietStepsSized, TickSized
  <2> QED
    BY <2>1, <2>2, AskedKept
<1> QED
  BY <1>1, <1>2, <1>3, <1>4, <1>5, <1>6, <1>7 DEF Next, Cycle, Search

-------------------------------------------------------------------------------
\* A set of a cache with n ways for tags in T.
SetIn(T, n) == [tags : [1 .. n -> T \union {NoTag}], modified : [1 .. n -> BOOLEAN],
                next : 1 .. n]

LEMMA EmptyIn ==
  ASSUME NEW T, NEW n \in Nat \ {0}
  PROVE  EmptySet(n) \in SetIn(T, n)
BY DEF EmptySet, SetIn

LEMMA SetFields ==
  ASSUME NEW T, NEW n, NEW set \in SetIn(T, n)
  PROVE  /\ set.tags \in [1 .. n -> T \union {NoTag}]
         /\ set.modified \in [1 .. n -> BOOLEAN] /\ set.next \in 1 .. n
         /\ set = [tags |-> set.tags, modified |-> set.modified, next |-> set.next]
BY DEF SetIn

LEMMA AccessIn ==
  ASSUME NEW T, NEW n, NEW set \in SetIn(T, n), NEW tag, NEW store
  PROVE  Access(set, tag, store) \in SetIn(T, n)
<1>. PICK w : w = WayOf(set, tag)
  OBVIOUS
<1>. PICK f : f = [set.modified EXCEPT ![w] = TRUE]
  OBVIOUS
<1>1. f \in [1 .. n -> BOOLEAN]
  BY SetFields
<1>2. [set EXCEPT !.modified = f] \in SetIn(T, n)
  BY <1>1 DEF SetIn
<1>3. [set EXCEPT !.modified[WayOf(set, tag)] = TRUE] = [set EXCEPT !.modified = f]
  OBVIOUS
<1> QED
  BY <1>2, <1>3 DEF Access

LEMMA VictimIn ==
  ASSUME NEW T, NEW n, NEW set \in SetIn(T, n)
  PROVE  Victim(set) \in T \union {NoTag}
<1>. PICK t, x : t = set.tags /\ x = set.next
  OBVIOUS
<1>1. t \in [1 .. n -> T \union {NoTag}] /\ x \in 1 .. n
  BY SetFields
<1>2. t[x] \in T \union {NoTag}
  BY <1>1
<1> QED
  BY <1>2, Zenon DEF Victim

LEMMA ReplaceIn ==
  ASSUME NEW T, NEW n \in Nat \ {0}, NEW set \in SetIn(T, n), NEW tag \in T \union {NoTag}
  PROVE  Replace(set, tag) \in SetIn(T, n)
<1>. PICK t, m, x : t = set.tags /\ m = set.modified /\ x = set.next
  OBVIOUS
<1>1. t \in [1 .. n -> T \union {NoTag}] /\ m \in [1 .. n -> BOOLEAN] /\ x \in 1 .. n
  BY SetFields
<1>2. Len(t) = n
  <2>1. t \in Seq(T \union {NoTag})
    BY <1>1, SeqDef
  <2>2. DOMAIN t = 1 .. Len(t) /\ Len(t) \in Nat /\ DOMAIN t = 1 .. n
    BY <1>1, <2>1
  <2> QED
    BY <2>2
<1>3. /\ [t EXCEPT ![x] = tag] \in [1 .. n -> T \union {NoTag}]
      /\ [m EXCEPT ![x] = FALSE] \in [1 .. n -> BOOLEAN]
  BY <1>1
<1>4. (IF x = 1 THEN Len(t) ELSE x - 1) \in 1 .. n
  BY <1>1, <1>2
<1>5. Replace(set, tag) = [tags |-> [t EXCEPT ![x] = tag],
                           modified |-> [m EXCEPT ![x] = FALSE],
                           next |-> IF x = 1 THEN Len(t) ELSE x - 1]
  BY Zenon DEF Replace
<1> QED
  BY <1>3, <1>4, <1>5 DEF SetIn

LEMMA WaysTyped ==
  TlbWays \in Nat \ {0} /\ L1Ways \in Nat \ {0} /\ L2Ways \in Nat \ {0} /\ L3Ways \in Nat \ {0}
BY CachesAssumption, Zenon

\* What the caches of a node are filled with.
CachesIn ==
  /\ dtlb \in [Cores -> SetIn(Pages, TlbWays)]
  /\ l1s \in [Cores -> [Sources -> SetIn(Lines, L1Ways)]]
  /\ l2s \in [Cores -> SetIn(Lines, L2Ways)]
  /\ ul3 \in SetIn(Lines, L3Ways)

Sets == [l2 : SetIn(Lines, L2Ways), l3 : SetIn(Lines, L3Ways)]

LEMMA SetsEdited ==
  ASSUME NEW h \in Sets
  PROVE  /\ h.l2 \in SetIn(Lines, L2Ways) /\ h.l3 \in SetIn(Lines, L3Ways)
         /\ \A u \in SetIn(Lines, L2Ways) : [h EXCEPT !.l2 = u] \in Sets
         /\ \A u \in SetIn(Lines, L3Ways) : [h EXCEPT !.l3 = u] \in Sets
BY DEF Sets

LEMMA HierarchyTyped ==
  ASSUME CachesIn, NEW c \in Cores
  PROVE  Hierarchy(c) \in Sets
<1>1. l2s[c] \in SetIn(Lines, L2Ways) /\ ul3 \in SetIn(Lines, L3Ways)
  BY DEF CachesIn
<1> QED
  BY <1>1 DEF Hierarchy, Sets

LEMMA WriteToL3In ==
  ASSUME NEW h \in Sets, NEW line \in Lines \union {NoTag}, NEW store
  PROVE  WriteToL3(h, line, store) \in Sets
<1>. PICK l3 : l3 = Access(h.l3, line, store)
  OBVIOUS
<1>1. l3 \in SetIn(Lines, L3Ways)
  BY SetsEdited, AccessIn
<1>. PICK r : r = Replace(l3, line)
  OBVIOUS
<1>2. r \in SetIn(Lines, L3Ways)
  BY <1>1, WaysTyped, ReplaceIn
<1>3. [h EXCEPT !.l3 = r] \in Sets
  BY <1>2, SetsEdited
<1>4. WriteToL3(h, line, store) = IF Hit(l3, line) THEN [h EXCEPT !.l3 = r] ELSE h
  BY Zenon DEF WriteToL3
<1> QED
  BY <1>3, <1>4

LEMMA WriteToL2In ==
  ASSUME NEW h \in Sets, NEW line \in Lines \union {NoTag}, NEW store
  PROVE  WriteToL2(h, line, store) \in Sets
<1>. PICK l2 : l2 = Access(h.l2, line, store)
  OBVIOUS
<1>1. l2 \in SetIn(Lines, L2Ways)
  BY SetsEdited, AccessIn
<1>. PICK r, v : r = Replace(l2, line) /\ v = Victim(l2)
  OBVIOUS
<1>2. r \in SetIn(Lines, L2Ways) /\ v \in Lines \union {NoTag}
  BY <1>1, WaysTyped, ReplaceIn, VictimIn
<1>. PICK g, k : g = [h EXCEPT !.l2 = l2] /\ k = [h EXCEPT !.l2 = r]
  OBVIOUS
<1>3. g \in Sets /\ k \in Sets
  BY <1>1, <1>2, SetsEdited
<1>4. WriteToL3(h, line, store) \in Sets /\ WriteToL3(k, v, TRUE) \in Sets
  BY <1>2, <1>3, WriteToL3In
<1>5. WriteToL2(h, line, store) =
        IF ~ Hit(l2, line) THEN WriteToL3(h, line, store)
        ELSE IF store THEN g
        ELSE IF VictimModified(l2) THEN WriteToL3(k, v, TRUE) ELSE k
  BY Zenon DEF WriteToL2
<1> QED
  BY <1>3, <1>4, <1>5

LEMMA FilledL2In ==
  ASSUME CachesIn, NEW c \in Cores, NEW e, e.line \in Lines
  PROVE  FilledL2(c, e) \in Sets
<1>. PICK b, l2 : b = Hierarchy(c) /\ l2 = Access(l2s[c], e.line, e.write)
  OBVIOUS
<1>1. b \in Sets
  BY HierarchyTyped
<1>2. l2 \in SetIn(Lines, L2Ways)
  <2>1. l2s[c] \in SetIn(Lines, L2Ways)
    BY DEF CachesIn
  <2> QED
    BY <2>1, AccessIn
<1>. PICK r, v : r = Replace(l2, e.line) /\ v = Victim(l2)
  OBVIOUS
<1>3. r \in SetIn(Lines, L2Ways) /\ v \in Lines \union {NoTag}
  BY <1>2, WaysTyped, ReplaceIn, VictimIn
<1>. PICK h : h = [b EXCEPT !.l2 = l2]
  OBVIOUS
<1>4. h \in Sets
  BY <1>1, <1>2, SetsEdited
<1>. PICK f : f = [h EXCEPT !.l2 = r]
  OBVIOUS
<1>5. f \in Sets
  BY <1>3, <1>4, SetsEdited
<1>6. WriteToL3(f, v, FALSE) \in Sets
  BY <1>3, <1>5, WriteToL3In
<1>7. FilledL2(c, e) = IF Hit(l2, e.line) \/ e.write THEN h
                       ELSE IF VictimModified(l2) THEN WriteToL3(f, v, FALSE) ELSE f
  BY Zenon DEF FilledL2
<1> QED
  BY <1>4, <1>5, <1>6, <1>7

LEMMA FilledL1In ==
  ASSUME CachesIn, NEW c \in Cores, NEW e, e.line \in Lines
  PROVE  FilledL1(c, e).d \in SetIn(Lines, L1Ways) /\ FilledL1(c, e).h \in Sets
<1>. PICK b, d : b = Hierarchy(c) /\ d = Access(l1s[c]["D"], e.line, e.write)
  OBVIOUS
<1>1. b \in Sets
  BY HierarchyTyped
<1>2. d \in SetIn(Lines, L1Ways)
  <2>1. l1s[c]["D"] \in SetIn(Lines, L1Ways)
    BY DEF CachesIn, Sources
  <2> QED
    BY <2>1, AccessIn
<1>. PICK r, v : r = Replace(d, e.line) /\ v = Victim(d)
  OBVIOUS
<1>3. r \in SetIn(Lines, L1Ways) /\ v \in Lines \union {NoTag}
  BY <1>2, WaysTyped, ReplaceIn, VictimIn
<1>4. WriteToL2(b, v, FALSE) \in Sets
  BY <1>1, <1>3, WriteToL2In
<1>. PICK g : g = IF VictimModified(d) THEN WriteToL2(b, v, FALSE) ELSE b
  OBVIOUS
<1>5. g \in Sets
  BY <1>1, <1>4
<1>6. FilledL1(c, e) = IF Hit(d, e.line) \/ e.write THEN [d |-> d, h |-> b]
                       ELSE [d |-> r, h |-> g]
  BY Zenon DEF FilledL1
<1>. PICK y, z, x : y = [d |-> d, h |-> b] /\ z = [d |-> r, h |-> g] /\ x = FilledL1(c, e)
  OBVIOUS
<1>7. /\ y.d \in SetIn(Lines, L1Ways) /\ y.h \in Sets
      /\ z.d \in SetIn(Lines, L1Ways) /\ z.h \in Sets
  BY <1>1, <1>2, <1>3, <1>5
<1>8. x = y \/ x = z
  BY <1>6, Zenon
<1> QED
  BY <1>7, <1>8, Zenon

LEMMA StartIn ==
  ASSUME Init
  PROVE  CachesIn
<1>1. /\ EmptySet(TlbWays) \in SetIn(Pages, TlbWays)
      /\ EmptySet(L1Ways) \in SetIn(Lines, L1Ways)
      /\ EmptySet(L2Ways) \in SetIn(Lines, L2Ways)
      /\ EmptySet(L3Ways) \in SetIn(Lines, L3Ways)
  <2>1. \A n \in Nat \ {0} : /\ EmptySet(n) \in SetIn(Pages, n)
                              /\ EmptySet(n) \in SetIn(Lines, n)
    BY EmptyIn
  <2> QED
    BY <2>1, WaysTyped, Zenon
<1>2. /\ dtlb = [c \in Cores |-> EmptySet(TlbWays)]
      /\ l1s = [c \in Cores |-> [s \in Sources |-> EmptySet(L1Ways)]]
      /\ l2s = [c \in Cores |-> EmptySet(L2Ways)]
      /\ ul3 = EmptySet(L3Ways)
  BY Zenon DEF Init
<1> QED
  BY <1>1, <1>2 DEF CachesIn

LEMMA CachesKept ==
  ASSUME CachesIn, UNCHANGED <<dtlb, l1s, l2s, ul3>>
  PROVE  CachesIn'
BY DEF CachesIn

\* The parts that a step gives new contents.
LEMMA CachesFilled ==
  ASSUME CachesIn, NEW c \in Cores, NEW s \in Sources,
         NEW t \in SetIn(Pages, TlbWays), NEW l1 \in SetIn(Lines, L1Ways),
         NEW l2 \in SetIn(Lines, L2Ways), NEW l3 \in SetIn(Lines, L3Ways),
         dtlb' = dtlb \/ dtlb' = [dtlb EXCEPT ![c] = t],
         l1s' = l1s \/ l1s' = [l1s EXCEPT ![c][s] = l1],
         l2s' = l2s \/ l2s' = [l2s EXCEPT ![c] = l2],
         ul3' = ul3 \/ ul3' = l3
  PROVE  CachesIn'
<1>1. /\ dtlb \in [Cores -> SetIn(Pages, TlbWays)]
      /\ l1s \in [Cores -> [Sources -> SetIn(Lines, L1Ways)]]
      /\ l2s \in [Cores -> SetIn(Lines, L2Ways)]
      /\ ul3 \in SetIn(Lines, L3Ways)
  BY DEF CachesIn
<1>2. dtlb' \in [Cores -> SetIn(Pages, TlbWays)]
  BY <1>1
<1>3. l1s' \in [Cores -> [Sources -> SetIn(Lines, L1Ways)]]
  BY <1>1
<1>4. l2s' \in [Cores -> SetIn(Lines, L2Ways)]
  BY <1>1
<1>5. ul3' \in SetIn(Lines, L3Ways)
  BY <1>1
<1> QED
  BY <1>2, <1>3, <1>4, <1>5 DEF CachesIn

\* A miss of L3, and those that merged with it.
Asking == Cores \X Sources \X Nat

MissL3 == [core : Cores, src : Sources, id : Nat, line : Lines, write : BOOLEAN,
           at3 : Int, done : Int, merged : Seq(Asking)]

BehindTyped ==
  /\ l3_miss_buffer \in Seq(MissL3)
  /\ at_memory \subseteq Asking
  /\ cache_source \in [Cores -> 0 .. 1]

LEMMA StartBehind ==
  ASSUME Init
  PROVE  BehindTyped
<1>1. /\ l3_miss_buffer = <<>> /\ at_memory = {}
      /\ cache_source = [c \in Cores |-> IF c = 0 THEN 1 ELSE 0]
  BY Zenon DEF Init
<1> QED
  BY <1>1 DEF BehindTyped

\* The caches, step by step: those whose accesses and replacements they see.
LEMMA SomeWays ==
  ASSUME CachesIn
  PROVE  /\ ul3 \in SetIn(Lines, L3Ways)
         /\ \A c \in Cores : /\ dtlb[c] \in SetIn(Pages, TlbWays)
                             /\ l2s[c] \in SetIn(Lines, L2Ways)
                             /\ \A s \in Sources : l1s[c][s] \in SetIn(Lines, L1Ways)
BY DEF CachesIn

\* One store of dcache_hit, or none.
LEMMA HitIn ==
  ASSUME CachesIn, NEW c \in Cores, NEW r, dcache_hit(c, r) \/ UNCHANGED l1s
  PROVE  \E l1 \in SetIn(Lines, L1Ways) : l1s' = l1s \/ l1s' = [l1s EXCEPT ![c]["D"] = l1]
<1>. PICK l1 : l1 = Access(l1s[c]["D"], r.line, r.write)
  OBVIOUS
<1>1. l1 \in SetIn(Lines, L1Ways)
  <2>1. l1s[c]["D"] \in SetIn(Lines, L1Ways)
    BY SomeWays DEF Sources
  <2> QED
    BY <2>1, AccessIn
<1>2. l1s' = l1s \/ l1s' = [l1s EXCEPT ![c]["D"] = l1]
  BY DEF dcache_hit
<1> QED
  BY <1>1, <1>2

LEMMA SearchL1In ==
  ASSUME Typed, CachesIn, SearchL1
  PROVE  CachesIn'
<1>1. at \in Cores /\ "D" \in Sources
  BY DEF Typed, Sources
<1>. PICK r : r = Request(at)
  OBVIOUS
<1>2. UNCHANGED <<dtlb, l2s, ul3>> /\ (dcache_hit(at, r) \/ UNCHANGED l1s)
  BY DEF SearchL1, dcache_miss
<1>3. PICK l1 \in SetIn(Lines, L1Ways) : l1s' = l1s \/ l1s' = [l1s EXCEPT ![at]["D"] = l1]
  BY <1>1, <1>2, HitIn
<1>4. dtlb[at] \in SetIn(Pages, TlbWays) /\ l2s[at] \in SetIn(Lines, L2Ways)
      /\ ul3 \in SetIn(Lines, L3Ways)
  BY <1>1, SomeWays
<1> QED
  BY <1>1, <1>2, <1>3, <1>4, CachesFilled

LEMMA DtlbUpdateIn ==
  ASSUME Typed, CachesIn, dtlb_mshr_update
  PROVE  CachesIn'
<1>. PICK n, r : n = Min(WalksOver(at)) /\ r = dtlb_miss_buffer[at][n]
  OBVIOUS
<1>1. /\ at \in Cores /\ "D" \in Sources
      /\ dtlb_miss_buffer[at] \in Walks /\ WalksOver(at) # {}
  BY DEF Typed, Sources, dtlb_mshr_update
<1>2. r.line \in Lines
  <2>1. dtlb_miss_buffer[at] \in Seq(Walk) /\ WalksOver(at) \subseteq DOMAIN dtlb_miss_buffer[at]
    BY <1>1 DEF Walks, WalksOver
  <2>2. n \in DOMAIN dtlb_miss_buffer[at]
    BY <1>1, <2>1, FirstIndex
  <2>3. r \in Walk
    BY <2>1, <2>2, ElementsTyped
  <2> QED
    BY <2>3 DEF Walk
<1>. PICK page : page = PageOf[r.line]
  OBVIOUS
<1>3. page \in Pages
  <2>1. PageOf \in [Lines -> Pages]
    BY CachesAssumption, Zenon
  <2> QED
    BY <1>2, <2>1
<1>. PICK t : t = Replace(dtlb[at], page)
  OBVIOUS
<1>4. t \in SetIn(Pages, TlbWays)
  <2>1. dtlb[at] \in SetIn(Pages, TlbWays)
    BY <1>1, SomeWays
  <2> QED
    BY <1>3, <2>1, WaysTyped, ReplaceIn
<1>5. /\ dtlb' = [dtlb EXCEPT ![at] = t] /\ UNCHANGED <<l2s, ul3>>
      /\ dcache_hit(at, r) \/ UNCHANGED l1s
  BY DEF dtlb_mshr_update, dcache_miss
<1>6. PICK l1 \in SetIn(Lines, L1Ways) : l1s' = l1s \/ l1s' = [l1s EXCEPT ![at]["D"] = l1]
  BY <1>1, <1>5, HitIn
<1>7. l2s[at] \in SetIn(Lines, L2Ways) /\ ul3 \in SetIn(Lines, L3Ways)
  BY <1>1, SomeWays
<1> QED
  BY <1>1, <1>4, <1>5, <1>6, <1>7, CachesFilled

LEMMA FillIcacheIn ==
  ASSUME Typed, CachesIn, FillIcache
  PROVE  CachesIn'
<1>. PICK m : m = l1_miss_buffer[at]["I"]
  OBVIOUS
<1>1. at \in Cores /\ "I" \in Sources /\ m \in Misses /\ m # <<>>
  BY DEF Typed, Sources, FillIcache, Iready
<1>2. Head(m).line \in Lines
  <2>1. m \in Seq(Miss)
    BY <1>1 DEF Misses
  <2>2. Head(m) \in Miss
    BY <1>1, <2>1
  <2> QED
    BY <2>2 DEF Miss
<1>. PICK l1 : l1 = Replace(l1s[at]["I"], Head(m).line)
  OBVIOUS
<1>3. l1 \in SetIn(Lines, L1Ways)
  <2>1. l1s[at]["I"] \in SetIn(Lines, L1Ways)
    BY <1>1, SomeWays
  <2> QED
    BY <1>2, <2>1, WaysTyped, ReplaceIn
<1>4. UNCHANGED <<dtlb, l2s, ul3>> /\ l1s' = [l1s EXCEPT ![at]["I"] = l1]
  BY DEF FillIcache
<1>5. dtlb[at] \in SetIn(Pages, TlbWays) /\ l2s[at] \in SetIn(Lines, L2Ways)
      /\ ul3 \in SetIn(Lines, L3Ways)
  BY <1>1, SomeWays
<1> QED
  BY <1>1, <1>3, <1>4, <1>5, CachesFilled

LEMMA RemoveFromL3In ==
  ASSUME Typed, CachesIn, BehindTyped, RemoveFromL3
  PROVE  CachesIn'
<1>. PICK i, e : i = Min(Due(l3_miss_buffer, pos)) /\ e = l3_miss_buffer[i]
  OBVIOUS
<1>. PICK l3 : l3 = Access(ul3, e.line, e.write)
  OBVIOUS
<1>1. /\ l3_miss_buffer \in Seq(MissL3) /\ pos \in Nat \ {0}
      /\ Due(l3_miss_buffer, pos) # {}
  BY DEF Typed, BehindTyped, RemoveFromL3
<1>2. e.line \in Lines
  <2>1. i \in DOMAIN l3_miss_buffer
    BY <1>1, DueIndex
  <2>2. e \in MissL3
    BY <1>1, <2>1, ElementsTyped
  <2> QED
    BY <2>2 DEF MissL3
<1>3. l3 \in SetIn(Lines, L3Ways) /\ Replace(l3, e.line) \in SetIn(Lines, L3Ways)
  <2>1. l3 \in SetIn(Lines, L3Ways)
    BY SomeWays, AccessIn
  <2> QED
    BY <1>2, <2>1, WaysTyped, ReplaceIn
<1>4. /\ UNCHANGED <<dtlb, l1s, l2s>>
      /\ ul3' = l3 \/ ul3' = Replace(l3, e.line)
  BY DEF RemoveFromL3
<1>5. ul3' \in SetIn(Lines, L3Ways)
  BY <1>3, <1>4
<1> QED
  BY <1>4, <1>5 DEF CachesIn

LEMMA ForwardHitIn ==
  ASSUME CachesIn, ForwardHit
  PROVE  CachesIn'
<1>1. UNCHANGED <<dtlb, l1s, l2s>> /\ \E l, w : ul3' = Access(ul3, l, w)
  BY DEF ForwardHit
<1>2. ul3' \in SetIn(Lines, L3Ways)
  BY <1>1, SomeWays, AccessIn
<1> QED
  BY <1>1, <1>2 DEF CachesIn

LEMMA AccessL2In ==
  ASSUME Typed, CachesIn, AccessL2
  PROVE  CachesIn'
<1>1. /\ UNCHANGED <<dtlb, l1s, ul3>>
      /\ \E l, w : UNCHANGED l2s \/ l2s' = [l2s EXCEPT ![at] = Access(l2s[at], l, w)]
  BY DEF AccessL2
<1>2. at \in Cores
  BY DEF Typed
<1>3. PICK l, w : UNCHANGED l2s \/ l2s' = [l2s EXCEPT ![at] = Access(l2s[at], l, w)]
  BY <1>1
<1>4. Access(l2s[at], l, w) \in SetIn(Lines, L2Ways)
  <2>1. l2s[at] \in SetIn(Lines, L2Ways)
    BY <1>2, SomeWays
  <2> QED
    BY <2>1, AccessIn
<1>5. l2s' \in [Cores -> SetIn(Lines, L2Ways)]
  BY <1>2, <1>3, <1>4 DEF CachesIn
<1> QED
  BY <1>1, <1>5 DEF CachesIn

LEMMA RemoveFromL2In ==
  ASSUME Typed, CachesIn, RemoveFromL2
  PROVE  CachesIn'
<1>. PICK i, e : i = Min(Due(l2_miss_buffer[at], pos)) /\ e = l2_miss_buffer[at][i]
  OBVIOUS
<1>. PICK h : h = FilledL2(at, e)
  OBVIOUS
<1>1. /\ at \in Cores /\ pos \in Nat \ {0} /\ l2_miss_buffer[at] \in Seq(MissL2)
      /\ Due(l2_miss_buffer[at], pos) # {}
  BY DEF Typed, RemoveFromL2
<1>2. e.line \in Lines
  <2>1. i \in DOMAIN l2_miss_buffer[at]
    BY <1>1, DueIndex
  <2>2. e \in MissL2
    BY <1>1, <2>1, ElementsTyped
  <2> QED
    BY <2>2 DEF MissL2
<1>3. h \in Sets
  BY <1>1, <1>2, FilledL2In
<1>4. h.l2 \in SetIn(Lines, L2Ways) /\ h.l3 \in SetIn(Lines, L3Ways)
  BY <1>3, SetsEdited
<1>5. UNCHANGED <<dtlb, l1s>> /\ l2s' = [l2s EXCEPT ![at] = h.l2] /\ ul3' = h.l3
  BY DEF RemoveFromL2
<1>6. dtlb[at] \in SetIn(Pages, TlbWays) /\ l1s[at]["D"] \in SetIn(Lines, L1Ways)
      /\ "D" \in Sources
  BY <1>1, SomeWays DEF Sources
<1> QED
  BY <1>1, <1>4, <1>5, <1>6, CachesFilled

LEMMA RemoveFromL1In ==
  ASSUME Typed, CachesIn, RemoveFromL1
  PROVE  CachesIn'
<1>. PICK i, e :
       i = Min(Due(l1_miss_buffer[at]["D"], pos)) /\ e = l1_miss_buffer[at]["D"][i]
  OBVIOUS
<1>. PICK f : f = FilledL1(at, e)
  OBVIOUS
<1>1. /\ at \in Cores /\ "D" \in Sources /\ pos \in Nat \ {0}
      /\ l1_miss_buffer[at]["D"] \in Seq(Miss)
      /\ Due(l1_miss_buffer[at]["D"], pos) # {}
  BY DEF Typed, Sources, Misses, RemoveFromL1
<1>2. e.line \in Lines
  <2>1. i \in DOMAIN l1_miss_buffer[at]["D"]
    BY <1>1, DueIndex
  <2>2. e \in Miss
    BY <1>1, <2>1, ElementsTyped
  <2> QED
    BY <2>2 DEF Miss
<1>3. f.d \in SetIn(Lines, L1Ways) /\ f.h \in Sets
  BY <1>1, <1>2, FilledL1In
<1>4. f.h.l2 \in SetIn(Lines, L2Ways) /\ f.h.l3 \in SetIn(Lines, L3Ways)
  BY <1>3, SetsEdited
<1>5. /\ UNCHANGED dtlb /\ l1s' = [l1s EXCEPT ![at]["D"] = f.d]
      /\ l2s' = [l2s EXCEPT ![at] = f.h.l2] /\ ul3' = f.h.l3
  BY DEF RemoveFromL1
<1>6. dtlb[at] \in SetIn(Pages, TlbWays)
  BY <1>1, SomeWays
<1> QED
  BY <1>1, <1>3, <1>4, <1>5, <1>6, CachesFilled

-------------------------------------------------------------------------------
(***************************************************************************)
(* What is behind L2.                                                      *)
(***************************************************************************)
LEMMA MissL3Fields ==
  ASSUME NEW e \in MissL3
  PROVE  /\ First(e) \in Asking
         /\ \A x \in Int, y \in Int : /\ [e EXCEPT !.done = y] \in MissL3
                                      /\ [e EXCEPT !.at3 = x] \in MissL3
                                      /\ [e EXCEPT !.at3 = x, !.done = y] \in MissL3
         /\ e.at3 \in Int /\ e.done \in Int /\ e.merged \in Seq(Asking)
         /\ \A q \in Seq(Asking) : [e EXCEPT !.merged = q] \in MissL3
BY DEF MissL3, First, Asking

LEMMA BehindKept ==
  ASSUME BehindTyped, UNCHANGED <<l3_miss_buffer, at_memory, cache_source>>
  PROVE  BehindTyped'
BY DEF BehindTyped

\* A step of which only the buffer of L3 knows.
LEMMA BufferKept ==
  ASSUME BehindTyped, UNCHANGED <<at_memory, cache_source>>,
         l3_miss_buffer' \in Seq(MissL3)
  PROVE  BehindTyped'
BY DEF BehindTyped

LEMMA MemoryRepliesBehind ==
  ASSUME BehindTyped, NEW t, MemoryReplies(t)
  PROVE  BehindTyped'
<1>1. /\ at_memory' = at_memory \ {t} /\ UNCHANGED <<l3_miss_buffer, cache_source>>
  BY DEF MemoryReplies, missVars, turnVars
<1> QED
  BY <1>1 DEF BehindTyped

LEMMA MemoryCompletesBehind ==
  ASSUME BehindTyped, MemoryCompletes
  PROVE  BehindTyped'
<1>. PICK t, b : t = memory_completion_queue[pos] /\ b = l3_miss_buffer
  OBVIOUS
<1>1. b \in Seq(MissL3)
  BY DEF BehindTyped
<1>2. UNCHANGED <<at_memory, cache_source>>
  BY DEF MemoryCompletes, turnVars
<1>3. CASE UNCHANGED l3_miss_buffer
  BY <1>2, <1>3, BehindKept
<1>4. CASE ~ UNCHANGED l3_miss_buffer
  <2>. PICK i : i = Min(Answers(t))
    OBVIOUS
  <2>1. Answers(t) # {} /\ l3_miss_buffer' = [b EXCEPT ![i].done = 0]
    BY <1>4 DEF MemoryCompletes
  <2>2. i \in DOMAIN b
    <3>1. Answers(t) \subseteq DOMAIN b
      BY DEF Answers
    <3> QED
      BY <1>1, <2>1, <3>1, FirstIndex
  <2>3. b[i] \in MissL3
    BY <1>1, <2>2, ElementsTyped
  <2>. PICK f : f = [b[i] EXCEPT !.done = 0]
    OBVIOUS
  <2>4. f \in MissL3
    <3>. PICK g \in MissL3 : g = b[i]
      BY <2>3
    <3>1. [g EXCEPT !.done = 0] \in MissL3
      BY DEF MissL3
    <3> QED
      BY <3>1, Zenon
  <2>5. [b EXCEPT ![i].done = 0] = [b EXCEPT ![i] = f]
    OBVIOUS
  <2>6. [b EXCEPT ![i] = f] \in Seq(MissL3)
    BY <1>1, <2>2, <2>4, Changed
  <2> QED
    BY <1>2, <2>1, <2>5, <2>6, BufferKept
<1> QED
  BY <1>3, <1>4

LEMMA LLCBehind ==
  ASSUME BehindTyped, LLC_to_memory
  PROVE  BehindTyped'
<1>. PICK b, sent : b = l3_miss_buffer /\ sent = {i \in DOMAIN b : b[i].at3 = 0}
  OBVIOUS
<1>1. /\ at_memory' = at_memory \union {First(b[i]) : i \in sent}
      /\ l3_miss_buffer' = [i \in DOMAIN b |->
           IF i \in sent THEN [b[i] EXCEPT !.at3 = Off] ELSE b[i]]
      /\ UNCHANGED cache_source
  BY DEF LLC_to_memory, turnVars
<1>2. b \in Seq(MissL3) /\ at_memory \subseteq Asking /\ Off \in Int
  BY DEF BehindTyped, Off
<1>3. \A i \in DOMAIN b : b[i] \in MissL3
  BY <1>2, ElementsTyped
<1>4. at_memory' \subseteq Asking
  <2>1. \A i \in sent : First(b[i]) \in Asking
    BY <1>3, MissL3Fields
  <2> QED
    BY <1>1, <1>2, <2>1
<1>. PICK t : t = l3_miss_buffer'
  OBVIOUS
<1>5. t \in Seq(MissL3)
  <2>1. ASSUME NEW i \in DOMAIN b
        PROVE  t[i] \in MissL3
    <3>. PICK f : f = b[i]
      OBVIOUS
    <3>1. t[i] = f \/ t[i] = [f EXCEPT !.at3 = Off]
      BY <1>1, Zenon
    <3>2. f \in MissL3
      BY <1>3
    <3>3. [f EXCEPT !.at3 = Off] \in MissL3
      BY <1>2, <3>2 DEF MissL3
    <3> QED
      BY <3>1, <3>2, <3>3, Zenon
  <2>2. DOMAIN t = DOMAIN b /\ t = [i \in DOMAIN b |-> t[i]]
    BY <1>1, Zenon
  <2> QED
    BY <1>2, <2>1, <2>2, AllEdited
<1>6. UNCHANGED cache_source
  BY <1>1
<1> QED
  BY <1>4, <1>5, <1>6 DEF BehindTyped

LEMMA RemoveFromL3Behind ==
  ASSUME Typed, BehindTyped, RemoveFromL3
  PROVE  BehindTyped'
<1>. PICK b, i : b = l3_miss_buffer /\ i = Min(Due(b, pos))
  OBVIOUS
<1>1. /\ l3_miss_buffer' = RemoveAt(b, i) /\ Due(b, pos) # {}
      /\ UNCHANGED <<at_memory, cache_source>>
  BY DEF RemoveFromL3, turnVars, memVars
<1>2. b \in Seq(MissL3) /\ pos \in Nat \ {0}
  BY DEF BehindTyped, Typed
<1>3. i \in DOMAIN b
  BY <1>1, <1>2, DueIndex
<1>4. RemoveAt(b, i) \in Seq(MissL3)
  BY <1>2, <1>3, Removed
<1> QED
  BY <1>1, <1>4, BufferKept

LEMMA ForwardedTyped ==
  ASSUME BehindTyped, core \in Cores, NEW e \in MissL2
  PROVE  Forwarded(e) \in Seq(MissL3)
<1>. PICK b, same : b = l3_miss_buffer /\ same = SameLine(b, e.line)
  OBVIOUS
<1>1. b \in Seq(MissL3)
  BY DEF BehindTyped
<1>2. /\ e.src \in Sources /\ e.id \in Nat /\ e.line \in Lines /\ e.write \in BOOLEAN
  BY DEF MissL2
<1>. PICK x : x = <<core, e.src, e.id>>
  OBVIOUS
<1>3. x \in Asking
  BY <1>2 DEF Asking
<1>4. CASE same # {}
  <2>. PICK i : i = Min(same)
    OBVIOUS
  <2>1. i \in DOMAIN b
    <3>1. same \subseteq DOMAIN b
      BY DEF SameLine
    <3> QED
      BY <1>1, <1>4, <3>1, FirstIndex
  <2>2. b[i] \in MissL3
    BY <1>1, <2>1, ElementsTyped
  <2>. PICK q : q = Append(b[i].merged, x)
    OBVIOUS
  <2>3. q \in Seq(Asking)
    <3>1. b[i].merged \in Seq(Asking)
      BY <2>2, MissL3Fields
    <3> QED
      BY <1>3, <3>1, Appended
  <2>. PICK f : f = [b[i] EXCEPT !.merged = q]
    OBVIOUS
  <2>4. f \in MissL3
    BY <2>2, <2>3, MissL3Fields
  <2>5. [b EXCEPT ![i].merged = Append(@, x)] = [b EXCEPT ![i] = f]
    OBVIOUS
  <2>6. [b EXCEPT ![i] = f] \in Seq(MissL3)
    BY <1>1, <2>1, <2>4, Changed
  <2>7. Forwarded(e) = [b EXCEPT ![i].merged = Append(@, x)]
    BY <1>4, Zenon DEF Forwarded
  <2> QED
    BY <2>5, <2>6, <2>7, Zenon
<1>5. CASE same = {}
  <2>. PICK f : f = [core |-> core, src |-> e.src, id |-> e.id, line |-> e.line,
                     write |-> e.write, at3 |-> L3_HIT, done |-> Off, merged |-> <<>>]
    OBVIOUS
  <2>1. L3_HIT \in Int /\ Off \in Int /\ <<>> \in Seq(Asking)
    <3>1. L3_HIT \in Nat \ {0}
      BY CachesAssumption, Zenon
    <3> QED
      BY <3>1 DEF Off
  <2>2. f \in MissL3
    BY <1>2, <2>1 DEF MissL3
  <2>3. Append(b, f) \in Seq(MissL3)
    BY <1>1, <2>2, Appended
  <2>4. Forwarded(e) = Append(b, f)
    BY <1>5, Zenon DEF Forwarded
  <2> QED
    BY <2>3, <2>4, Zenon
<1> QED
  BY <1>4, <1>5

LEMMA ForwardMissBehind ==
  ASSUME Typed, BehindTyped, ForwardMiss
  PROVE  BehindTyped'
<1>. PICK i, e : i = Min(Waiting) /\ e = l2_miss_buffer[core][i]
  OBVIOUS
<1>1. /\ Waiting # {} /\ l3_miss_buffer' = Forwarded(e)
      /\ UNCHANGED <<at_memory, cache_source>>
  BY DEF ForwardMiss, turnVars, memVars
<1>2. core \in Cores /\ l2_miss_buffer[core] \in Seq(MissL2)
  BY DEF Typed
<1>3. e \in MissL2
  <2>1. Waiting \subseteq DOMAIN l2_miss_buffer[core]
    BY DEF Waiting
  <2>2. i \in DOMAIN l2_miss_buffer[core]
    BY <1>1, <1>2, <2>1, FirstIndex
  <2> QED
    BY <1>2, <2>2, ElementsTyped
<1>4. Forwarded(e) \in Seq(MissL3)
  BY <1>2, <1>3, ForwardedTyped
<1> QED
  BY <1>1, <1>4, BufferKept

LEMMA TurnBehind ==
  ASSUME Typed, BehindTyped, AccessL2 \/ EndAccessL2
  PROVE  BehindTyped'
<1>1. /\ cache_source' = [cache_source EXCEPT ![at] = (cache_source[at] + 1) % 2]
      /\ UNCHANGED <<l3_miss_buffer, at_memory>>
  BY DEF AccessL2, EndAccessL2, memVars, missVars
<1>2. at \in Cores /\ cache_source \in [Cores -> 0 .. 1]
  BY DEF Typed, BehindTyped
<1>3. (cache_source[at] + 1) % 2 \in 0 .. 1
  <2>1. PICK n \in 0 .. 1 : n = cache_source[at]
    BY <1>2
  <2>2. (n + 1) % 2 \in 0 .. 1
    OBVIOUS
  <2> QED
    BY <2>1, <2>2, Zenon
<1>4. cache_source' \in [Cores -> 0 .. 1]
  BY <1>1, <1>2, <1>3
<1> QED
  BY <1>1, <1>4 DEF BehindTyped

LEMMA TickBehind ==
  ASSUME BehindTyped, Tick
  PROVE  BehindTyped'
<1>. PICK b, t : b = l3_miss_buffer /\ t = l3_miss_buffer'
  OBVIOUS
<1>1. /\ t = [i \in DOMAIN b |-> [b[i] EXCEPT !.at3 = Sooner(@), !.done = Sooner(@)]]
      /\ UNCHANGED <<at_memory, cache_source>>
  BY DEF Tick, turnVars, memVars
<1>2. b \in Seq(MissL3)
  BY DEF BehindTyped
<1>3. ASSUME NEW i \in DOMAIN b
      PROVE  t[i] \in MissL3
  <2>. PICK f : f = b[i]
    OBVIOUS
  <2>1. f \in MissL3
    BY <1>2, ElementsTyped
  <2>. PICK x, y : x = Sooner(f.at3) /\ y = Sooner(f.done)
    OBVIOUS
  <2>2. x \in Int /\ y \in Int
    <3>1. f.at3 \in Int /\ f.done \in Int
      BY <2>1 DEF MissL3
    <3> QED
      BY <3>1, SoonerInt
  <2>3. t[i] = [f EXCEPT !.at3 = x, !.done = y]
    BY <1>1, Zenon
  <2>4. [f EXCEPT !.at3 = x, !.done = y] \in MissL3
    BY <2>1, <2>2 DEF MissL3
  <2> QED
    BY <2>3, <2>4, Zenon
<1>4. DOMAIN t = DOMAIN b /\ t = [i \in DOMAIN b |-> t[i]]
  BY <1>1, Zenon
<1>5. t \in Seq(MissL3)
  BY <1>2, <1>3, <1>4, AllEdited
<1> QED
  BY <1>1, <1>5, BufferKept

-------------------------------------------------------------------------------
(***************************************************************************)
(* All together.                                                           *)
(***************************************************************************)
LEMMA StepsIn ==
  ASSUME Typed, CachesIn, BehindTyped, [Next]_vars
  PROVE  CachesIn' /\ BehindTyped'
<1>1. CASE UNCHANGED vars
  <2>1. UNCHANGED <<dtlb, l1s, l2s, ul3, l3_miss_buffer, at_memory, cache_source>>
    BY <1>1 DEF vars, cacheVars, missVars, turnVars, memVars
  <2> QED
    BY <2>1, CachesKept, BehindKept
<1>2. CASE Replies
  <2>1. UNCHANGED <<dtlb, l1s, l2s, ul3>>
    BY <1>2 DEF Replies, MemoryReplies, cacheVars
  <2> QED
    BY <1>2, <2>1, CachesKept, MemoryRepliesBehind DEF Replies
<1>3. CASE SearchL1 \/ dtlb_mshr_update \/ FillIcache \/ ForwardHit \/ RemoveFromL2
           \/ RemoveFromL1
  <2>1. UNCHANGED <<l3_miss_buffer, at_memory, cache_source>>
    BY <1>3 DEF SearchL1, dtlb_mshr_update, FillIcache, ForwardHit, RemoveFromL2,
                RemoveFromL1, turnVars, memVars
  <2> QED
    BY <1>3, <2>1, BehindKept, SearchL1In, DtlbUpdateIn, FillIcacheIn, ForwardHitIn,
       RemoveFromL2In, RemoveFromL1In
<1>4. CASE MemoryCompletes \/ LLC_to_memory \/ ForwardMiss \/ EndAccessL2 \/ Tick
  <2>1. UNCHANGED <<dtlb, l1s, l2s, ul3>>
    BY <1>4 DEF MemoryCompletes, LLC_to_memory, ForwardMiss, EndAccessL2, Tick, cacheVars
  <2> QED
    BY <1>4, <2>1, CachesKept, MemoryCompletesBehind, LLCBehind, ForwardMissBehind,
       TurnBehind, TickBehind
<1>5. CASE RemoveFromL3
  BY <1>5, RemoveFromL3In, RemoveFromL3Behind
<1>6. CASE AccessL2
  BY <1>6, AccessL2In, TurnBehind
<1>7. CASE \/ Begin \/ EndMemory \/ update_caches \/ NoWalkOver \/ EndL3
           \/ ForwardNextCore \/ EndForward \/ EndL2 \/ NoIcacheFill \/ EndL1
           \/ NoFetch \/ PortTaken \/ NoSearch \/ FetchInst \/ DTLB_MISS
  <2>1. UNCHANGED <<dtlb, l1s, l2s, ul3, l3_miss_buffer, at_memory, cache_source>>
    BY <1>7 DEF Begin, EndMemory, update_caches, NoWalkOver, EndL3, ForwardNextCore,
                EndForward, EndL2, NoIcacheFill, EndL1, NoFetch, PortTaken, NoSearch,
                FetchInst, DTLB_MISS, cacheVars, missVars, turnVars, memVars
  <2> QED
    BY <2>1, CachesKept, BehindKept
<1> QED
  BY <1>1, <1>2, <1>3, <1>4, <1>5, <1>6, <1>7 DEF Next, Cycle, Update, Search

\* The inductive invariant.
CachesInv == Typed /\ Kept /\ Sized /\ AskedWithin /\ CachesIn /\ BehindTyped

LEMMA TagsIn ==
  ASSUME NEW T, NEW n, NEW set \in SetIn(T, n)
  PROVE  {set.tags[w] : w \in 1 .. n} \subseteq T \union {NoTag}
<1>1. set.tags \in [1 .. n -> T \union {NoTag}]
  BY SetFields
<1> QED
  BY <1>1

LEMMA InvTypeOK ==
  ASSUME CachesInv
  PROVE  CachesTypeOK
<1>1. Typed /\ Sized /\ AskedWithin /\ CachesIn /\ BehindTyped
  BY DEF CachesInv
<1>2. ASSUME NEW c \in Cores
      PROVE  /\ Len(dtlb_miss_buffer[c]) <= mshr
             /\ \A s \in Sources : /\ asked[c][s] \in 0 .. Len(work[s][c])
                                   /\ Len(l1_miss_buffer[c][s]) <= mshr
  <2>1. ASSUME NEW s \in Sources
        PROVE  asked[c][s] \in 0 .. Len(work[s][c])
    <3>1. Len(work[s][c]) \in Nat /\ asked[c][s] \in Nat
      BY <1>1, WorkTyped
    <3>2. asked[c][s] <= Len(work[s][c])
      BY <1>1 DEF AskedWithin
    <3> QED
      BY <3>1, <3>2
  <2> QED
    BY <1>1, <2>1, BuffersWithin DEF Sources
<1>3. ASSUME NEW c \in Cores
      PROVE  Len(l2_miss_buffer[c]) <= asked[c]["I"] + asked[c]["D"]
  <2>1. PICK w \in Walks, i \in Misses, d \in Misses, l \in Seq(MissL2), ni \in Nat, nd \in Nat :
          /\ w = dtlb_miss_buffer[c] /\ l = l2_miss_buffer[c]
          /\ i = l1_miss_buffer[c]["I"] /\ d = l1_miss_buffer[c]["D"]
          /\ ni = asked[c]["I"] /\ nd = asked[c]["D"]
    BY <1>1, BuffersTyped, Zenon
  <2>2. Under(w, i, d, l) <= ni + nd
    <3>1. Fits(w, i, d, l, ni, nd)
      BY <1>1, <2>1, SizedHere, Zenon
    <3> QED
      BY <3>1, ThenUnder
  <2>3. Len(w) \in Nat /\ Len(l) \in Nat /\ Going(i) \in Nat /\ Going(d) \in Nat
    BY SizesAreNat
  <2>4. PICK a \in Nat, b \in Nat, x \in Nat, y \in Nat :
          a = Len(l) /\ b = Going(i) /\ x = Going(d) /\ y = Len(w)
    BY <2>3, Zenon
  <2>5. a + b + x + y <= ni + nd
    BY <2>2, <2>4, Zenon DEF Under
  <2>6. a <= ni + nd
    BY <2>5
  <2> QED
    BY <2>1, <2>4, <2>6, Zenon
<1>4. /\ \A c \in Cores : /\ {dtlb[c].tags[w] : w \in 1 .. TlbWays} \subseteq Pages \union {NoTag}
                          /\ {l2s[c].tags[w] : w \in 1 .. L2Ways} \subseteq Lines \union {NoTag}
      /\ {ul3.tags[w] : w \in 1 .. L3Ways} \subseteq Lines \union {NoTag}
  BY <1>1, SomeWays, TagsIn
<1>5. /\ \A c \in Cores : cache_source[c] \in 0 .. 1
      /\ at_memory \subseteq Cores \X Sources \X Nat
  BY <1>1 DEF BehindTyped, Asking
<1>6. core \in Cores
  BY <1>1 DEF Typed
<1> QED
  BY <1>2, <1>3, <1>4, <1>5, <1>6 DEF CachesTypeOK

\* The inductive invariant is kept by every step.
LEMMA CachesInvSteps ==
  ASSUME CachesInv, [Next]_vars
  PROVE  CachesInv'
<1>1. Typed /\ Kept /\ Sized /\ AskedWithin /\ CachesIn /\ BehindTyped
  BY DEF CachesInv
<1>2. Typed' /\ Kept'
  BY <1>1, Steps
<1>3. Sized' /\ AskedWithin'
  BY <1>1, <1>2, StepsSized
<1>4. CachesIn' /\ BehindTyped'
  BY <1>1, StepsIn
<1> QED
  BY <1>2, <1>3, <1>4 DEF CachesInv

\* For every number of cores, every workload and all sizes: the caches, the TLBs
\* and the entries of all buffers stay what they are declared to be; walks and
\* the misses of L1 stay within mshr, which dtlb_search, dtlb_mshr_update and
\* icache_search test (TLB_Cache.cpp); and the buffer of L2, which nothing tests,
\* holds no more than its core has asked for.
THEOREM CachesTypes == Spec => []CachesTypeOK
<1>1. Init => CachesInv
  BY Start, StartSized, StartWithin, StartIn, StartBehind DEF CachesInv
<1>2. CachesInv /\ [Next]_vars => CachesInv'
  BY CachesInvSteps
<1>3. CachesInv => CachesTypeOK
  BY InvTypeOK
<1> QED
  BY <1>1, <1>2, <1>3, PTL DEF Spec

-------------------------------------------------------------------------------
(***************************************************************************)
(* Who wakes a miss that waits: what is in the buffers.                    *)
(***************************************************************************)
\* The misses of L1 with an id have all been to L2; one of them waits.
Gone(m, id) == \A i \in DOMAIN m : m[i].id = id => m[i].at1 = Off
Waiter(m, id) ==
  \E i \in DOMAIN m : m[i].id = id /\ m[i].at1 = Off /\ m[i].done = Off
\* What is completed has been to L2.
DoneAfterL2(m) == \A i \in DOMAIN m : m[i].at1 # Off => m[i].done = Off
IdsOnce(m) == \A i, j \in DOMAIN m : m[i].id = m[j].id => i = j

\* v is m but for what is at n.
Edited(m, v, n) == DOMAIN v = DOMAIN m /\ \A i \in DOMAIN m : i # n => v[i] = m[i]

\* The waiters are the same, and what has been to L2 stays so, but for an id.
EntersAs(m, v, id) ==
  /\ DoneAfterL2(m) => DoneAfterL2(v)
  /\ \A k \in Nat : /\ Waiter(v, k) <=> Waiter(m, k)
                    /\ k # id /\ Gone(m, k) => Gone(v, k)
SameWaiters(m, v) ==
  /\ DoneAfterL2(m) => DoneAfterL2(v)
  /\ \A k \in Nat : /\ Waiter(v, k) <=> Waiter(m, k)
                    /\ Gone(m, k) => Gone(v, k)

LEMMA SameWaitersItself == \A m : SameWaiters(m, m)
BY DEF SameWaiters

\* A miss that has not been to L2 enters.
LEMMA WaitersAppended ==
  ASSUME NEW m \in Misses, NEW e \in Miss, e.at1 # Off, e.done = Off
  PROVE  EntersAs(m, Append(m, e), e.id)
<1>. PICK v, n : v = Append(m, e) /\ n = Len(m)
  OBVIOUS
<1>1. /\ DOMAIN v = 1 .. n + 1 /\ DOMAIN m = 1 .. n /\ n \in Nat
      /\ v[n + 1] = e /\ \A i \in DOMAIN m : v[i] = m[i]
  BY Appended DEF Misses
<1>2. \A i \in DOMAIN v : i \in DOMAIN m \/ i = n + 1
  BY <1>1
<1>3. DOMAIN m \subseteq DOMAIN v
  BY <1>1
<1>4. \A k \in Nat : Waiter(v, k) <=> Waiter(m, k)
  BY <1>1, <1>2, <1>3, Zenon DEF Waiter
<1>5. \A k \in Nat : k # e.id /\ Gone(m, k) => Gone(v, k)
  BY <1>1, <1>2, <1>3, Zenon DEF Gone
<1>6. DoneAfterL2(m) => DoneAfterL2(v)
  BY <1>1, <1>2, <1>3, Zenon DEF DoneAfterL2
<1> QED
  BY <1>4, <1>5, <1>6 DEF EntersAs

\* v is m without n; b says where the others were.
Without(m, v, n, b) ==
  /\ \A i \in DOMAIN v : b[i] \in DOMAIN m /\ v[i] = m[b[i]]
  /\ \A l \in DOMAIN m : l # n => \E i \in DOMAIN v : b[i] = l

LEMMA WaitersWithout ==
  ASSUME NEW m, NEW v, NEW n, NEW b, Without(m, v, n, b), m[n].done # Off
  PROVE  SameWaiters(m, v)
<1>0. /\ \A i \in DOMAIN v : b[i] \in DOMAIN m /\ v[i] = m[b[i]]
      /\ \A l \in DOMAIN m : l # n => \E i \in DOMAIN v : b[i] = l
  BY DEF Without
<1>1. ASSUME NEW k \in Nat, Waiter(m, k)
      PROVE  Waiter(v, k)
  <2>1. PICK l \in DOMAIN m : m[l].id = k /\ m[l].at1 = Off /\ m[l].done = Off
    BY <1>1, Zenon DEF Waiter
  <2>2. PICK i \in DOMAIN v : b[i] = l
    BY <1>0, <2>1, Zenon
  <2> QED
    BY <1>0, <2>1, <2>2 DEF Waiter
<1>2. ASSUME NEW k \in Nat, Waiter(v, k)
      PROVE  Waiter(m, k)
  <2>1. PICK i \in DOMAIN v : v[i].id = k /\ v[i].at1 = Off /\ v[i].done = Off
    BY <1>2, Zenon DEF Waiter
  <2> QED
    BY <1>0, <2>1 DEF Waiter
<1>3. ASSUME NEW k \in Nat, Gone(m, k)
      PROVE  Gone(v, k)
  BY <1>0, <1>3 DEF Gone
<1>4. DoneAfterL2(m) => DoneAfterL2(v)
  BY <1>0 DEF DoneAfterL2
<1> QED
  BY <1>1, <1>2, <1>3, <1>4 DEF SameWaiters

\* A miss that is completed leaves, from anywhere or from the head.
LEMMA WaitersRemoved ==
  ASSUME NEW m \in Misses, NEW n \in DOMAIN m, m[n].done # Off
  PROVE  SameWaiters(m, RemoveAt(m, n))
<1>0. PICK v, k : v = RemoveAt(m, n) /\ k = Len(m)
  OBVIOUS
<1>1. /\ k \in Nat /\ n \in 1 .. k /\ DOMAIN m = 1 .. k
      /\ DOMAIN v = 1 .. k - 1
      /\ \A i \in 1 .. k - 1 : v[i] = m[Back(n, i)]
  BY <1>0, Removed DEF Misses
<1>2. /\ \A i \in 1 .. k - 1 : Back(n, i) \in (1 .. k) \ {n}
      /\ \A l \in (1 .. k) \ {n} : \E i \in 1 .. k - 1 : Back(n, i) = l
  BY <1>1, BackOnto
<1>3. PICK b : b = [i \in 1 .. k - 1 |-> Back(n, i)]
  OBVIOUS
<1>4. \A i \in DOMAIN v : b[i] \in DOMAIN m /\ v[i] = m[b[i]]
  BY <1>1, <1>2, <1>3
<1>5. \A l \in DOMAIN m : l # n => \E i \in DOMAIN v : b[i] = l
  BY <1>1, <1>2, <1>3
<1>6. Without(m, v, n, b)
  BY <1>4, <1>5 DEF Without
<1>7. SameWaiters(m, v)
  BY <1>6, WaitersWithout
<1> QED
  BY <1>0, <1>7

LEMMA WaitersTail ==
  ASSUME NEW m \in Misses, m # <<>>, Head(m).done # Off
  PROVE  SameWaiters(m, Tail(m)) /\ (IdsOnce(m) => IdsOnce(Tail(m)))
<1>0. PICK v, n : v = Tail(m) /\ n = Len(m)
  OBVIOUS
<1>1. /\ n \in Nat \ {0} /\ DOMAIN m = 1 .. n /\ DOMAIN v = 1 .. n - 1
      /\ Head(m) = m[1]
      /\ \A i \in 1 .. n - 1 : v[i] = m[i + 1]
  BY <1>0 DEF Misses
<1>2. \A i \in DOMAIN v : i + 1 \in DOMAIN m /\ v[i] = m[i + 1]
  BY <1>1
<1>3. PICK b : b = [i \in 1 .. n - 1 |-> i + 1]
  OBVIOUS
<1>4. \A i \in DOMAIN v : b[i] \in DOMAIN m /\ v[i] = m[b[i]]
  BY <1>1, <1>2, <1>3
<1>5. \A l \in DOMAIN m : l # 1 => \E i \in DOMAIN v : b[i] = l
  <2> SUFFICES ASSUME NEW l \in DOMAIN m, l # 1 PROVE \E i \in DOMAIN v : b[i] = l
    OBVIOUS
  <2>1. l - 1 \in DOMAIN v /\ b[l - 1] = l
    BY <1>1, <1>3
  <2> QED
    BY <2>1
<1>6. Without(m, v, 1, b) /\ m[1].done # Off
  BY <1>1, <1>4, <1>5 DEF Without
<1>7. SameWaiters(m, v)
  BY <1>6, WaitersWithout
<1>8. ASSUME IdsOnce(m) PROVE IdsOnce(v)
  <2> SUFFICES ASSUME NEW i \in DOMAIN v, NEW j \in DOMAIN v, v[i].id = v[j].id PROVE i = j
    BY DEF IdsOnce
  <2>1. i + 1 = j + 1
    BY <1>2, <1>8 DEF IdsOnce
  <2> QED
    BY <1>1, <2>1
<1> QED
  BY <1>0, <1>7, <1>8

\* Of L2: a miss that has its turn still to come, and one nobody has answered.
Live(b, s, k) == \E i \in DOMAIN b : b[i].src = s /\ b[i].id = k /\ b[i].at2 # Off
Fresh(b, s, k) == \E i \in DOMAIN b : b[i].src = s /\ b[i].id = k /\ b[i].done = Off

\* Those whose turn is still to come are behind the others, the first with the
\* least time, none answered, each once.
Ordered(b) ==
  /\ \A i \in DOMAIN b : b[i].at2 # Off => b[i].at2 \in 0 .. L2_HIT /\ b[i].done = Off
  /\ \A i, j \in DOMAIN b :
       i < j /\ b[i].at2 # Off => b[j].at2 # Off /\ b[i].at2 <= b[j].at2
  /\ \A i, j \in DOMAIN b : /\ b[i].at2 # Off /\ b[j].at2 # Off
                            /\ b[i].src = b[j].src /\ b[i].id = b[j].id
                            => i = j

SameTurns(b, v) ==
  \A s \in Sources, k \in Nat : /\ Live(v, s, k) <=> Live(b, s, k)
                                /\ Fresh(b, s, k) => Fresh(v, s, k)

LEMMA SameTurnsItself == \A b : SameTurns(b, b)
BY DEF SameTurns

\* v is b without n; p says, in their order, where the others were.
LEMMA TurnsWithout ==
  ASSUME NEW b, NEW v, NEW n, NEW p, Without(b, v, n, p),
         b[n].done # Off, Ordered(b), n \in DOMAIN b,
         \A i, j \in DOMAIN v : (i < j => p[i] < p[j]) /\ (p[i] = p[j] => i = j)
  PROVE  Ordered(v) /\ SameTurns(b, v)
<1>0. /\ \A i \in DOMAIN v : p[i] \in DOMAIN b /\ v[i] = b[p[i]]
      /\ \A l \in DOMAIN b : l # n => \E i \in DOMAIN v : p[i] = l
  BY Zenon DEF Without
<1>1. Ordered(v)
  <2>1. \A i \in DOMAIN v : v[i].at2 # Off => v[i].at2 \in 0 .. L2_HIT /\ v[i].done = Off
    BY <1>0 DEF Ordered
  <2>2. ASSUME NEW i \in DOMAIN v, NEW j \in DOMAIN v, i < j, v[i].at2 # Off
        PROVE  v[j].at2 # Off /\ v[i].at2 <= v[j].at2
    <3>1. p[i] < p[j] /\ p[i] \in DOMAIN b /\ p[j] \in DOMAIN b
          /\ v[i] = b[p[i]] /\ v[j] = b[p[j]]
      BY <1>0, <2>2
    <3>2. PICK x \in DOMAIN b, y \in DOMAIN b : x = p[i] /\ y = p[j]
      BY <3>1
    <3>3. x < y /\ v[i] = b[x] /\ v[j] = b[y]
      BY <3>1, <3>2
    <3>4. b[x].at2 # Off
      BY <2>2, <3>3
    <3>5. b[y].at2 # Off /\ b[x].at2 <= b[y].at2
      BY <3>3, <3>4, Zenon DEF Ordered
    <3> QED
      BY <3>3, <3>5, Zenon
  <2>3. ASSUME NEW i \in DOMAIN v, NEW j \in DOMAIN v, v[i].at2 # Off, v[j].at2 # Off,
               v[i].src = v[j].src, v[i].id = v[j].id
        PROVE  i = j
    <3>1. p[i] \in DOMAIN b /\ p[j] \in DOMAIN b /\ v[i] = b[p[i]] /\ v[j] = b[p[j]]
      BY <1>0
    <3>2. p[i] = p[j]
      BY <2>3, <3>1 DEF Ordered
    <3> QED
      BY <3>2
  <2> QED
    BY <2>1, <2>2, <2>3 DEF Ordered
<1>2. b[n].at2 = Off
  BY DEF Ordered
<1>3. ASSUME NEW s \in Sources, NEW k \in Nat
      PROVE  /\ Live(v, s, k) <=> Live(b, s, k)
             /\ Fresh(b, s, k) => Fresh(v, s, k)
  <2>1. ASSUME Live(v, s, k) PROVE Live(b, s, k)
    <3>1. PICK i \in DOMAIN v : v[i].src = s /\ v[i].id = k /\ v[i].at2 # Off
      BY <2>1, Zenon DEF Live
    <3> QED
      BY <1>0, <3>1 DEF Live
  <2>2. ASSUME Live(b, s, k) PROVE Live(v, s, k)
    <3>1. PICK l \in DOMAIN b : b[l].src = s /\ b[l].id = k /\ b[l].at2 # Off
      BY <2>2, Zenon DEF Live
    <3>2. PICK i \in DOMAIN v : p[i] = l
      BY <1>0, <1>2, <3>1, Zenon
    <3> QED
      BY <1>0, <3>1, <3>2 DEF Live
  <2>3. ASSUME Fresh(b, s, k) PROVE Fresh(v, s, k)
    <3>1. PICK l \in DOMAIN b : b[l].src = s /\ b[l].id = k /\ b[l].done = Off
      BY <2>3, Zenon DEF Fresh
    <3>2. PICK i \in DOMAIN v : p[i] = l
      BY <1>0, <3>1, Zenon
    <3> QED
      BY <1>0, <3>1, <3>2 DEF Fresh
  <2> QED
    BY <2>1, <2>2, <2>3
<1> QED
  BY <1>1, <1>3 DEF SameTurns

\* A miss that is completed leaves.
LEMMA TurnsRemoved ==
  ASSUME NEW b \in Seq(MissL2), NEW n \in DOMAIN b, b[n].done # Off, Ordered(b)
  PROVE  Ordered(RemoveAt(b, n)) /\ SameTurns(b, RemoveAt(b, n))
<1>0. PICK v, k : v = RemoveAt(b, n) /\ k = Len(b)
  OBVIOUS
<1>1. /\ k \in Nat /\ n \in 1 .. k /\ DOMAIN b = 1 .. k
      /\ DOMAIN v = 1 .. k - 1
      /\ \A i \in 1 .. k - 1 : v[i] = b[Back(n, i)]
  BY <1>0, Removed
<1>2. /\ \A i \in 1 .. k - 1 : Back(n, i) \in (1 .. k) \ {n}
      /\ \A i, j \in 1 .. k - 1 : Back(n, i) = Back(n, j) => i = j
      /\ \A l \in (1 .. k) \ {n} : \E i \in 1 .. k - 1 : Back(n, i) = l
  BY <1>1, BackOnto
<1>3. PICK p : p = [i \in 1 .. k - 1 |-> Back(n, i)]
  OBVIOUS
<1>4. \A i \in DOMAIN v : p[i] \in DOMAIN b /\ v[i] = b[p[i]]
  BY <1>1, <1>2, <1>3
<1>5. \A l \in DOMAIN b : l # n => \E i \in DOMAIN v : p[i] = l
  BY <1>1, <1>2, <1>3
<1>6. Without(b, v, n, p)
  BY <1>4, <1>5 DEF Without
<1>7. \A i, j \in DOMAIN v : (i < j => p[i] < p[j]) /\ (p[i] = p[j] => i = j)
  <2>1. \A i, j \in 1 .. k - 1 : i < j => Back(n, i) < Back(n, j)
    BY <1>1 DEF Back
  <2> QED
    BY <1>1, <1>2, <1>3, <2>1
<1>8. Ordered(v) /\ SameTurns(b, v)
  BY <1>6, <1>7, TurnsWithout
<1> QED
  BY <1>0, <1>8

\* A cycle passes.
LEMMA TurnsSooner ==
  ASSUME NEW b \in Seq(MissL2), NEW v, DOMAIN v = DOMAIN b, Ordered(b),
         \A i \in DOMAIN b : /\ v[i].src = b[i].src /\ v[i].id = b[i].id
                             /\ v[i].at2 = Sooner(b[i].at2)
                             /\ v[i].done = Sooner(b[i].done)
  PROVE  Ordered(v) /\ SameTurns(b, v)
<1>0. L2_HIT \in Nat
  BY CachesAssumption
<1>1. \A i \in DOMAIN b : b[i].at2 \in Int /\ b[i].done \in Int
  <2>1. \A i \in DOMAIN b : b[i] \in MissL2
    BY ElementsTyped
  <2> QED
    BY <2>1 DEF MissL2
<1>2. \A x \in Int : Sooner(x) = Off <=> x = Off
  BY DEF Sooner, Off
<1>3. /\ \A x \in 0 .. L2_HIT : Sooner(x) \in 0 .. L2_HIT
      /\ \A x, y \in 0 .. L2_HIT : x <= y => Sooner(x) <= Sooner(y)
  BY <1>0 DEF Sooner
<1>4. \A i \in DOMAIN b : (v[i].at2 = Off <=> b[i].at2 = Off) /\ (v[i].done = Off <=> b[i].done = Off)
  BY <1>1, <1>2, Zenon
<1>5. \A i \in DOMAIN v : v[i].at2 # Off => v[i].at2 \in 0 .. L2_HIT /\ v[i].done = Off
  BY <1>3, <1>4, Zenon DEF Ordered
<1>6. ASSUME NEW i \in DOMAIN v, NEW j \in DOMAIN v, i < j, v[i].at2 # Off
      PROVE  v[j].at2 # Off /\ v[i].at2 <= v[j].at2
  <2>1. b[i].at2 # Off /\ b[j].at2 # Off /\ b[i].at2 <= b[j].at2
    BY <1>4, <1>6, Zenon DEF Ordered
  <2>2. b[i].at2 \in 0 .. L2_HIT /\ b[j].at2 \in 0 .. L2_HIT
    BY <2>1, Zenon DEF Ordered
  <2> QED
    BY <1>3, <1>4, <2>1, <2>2
<1>7. ASSUME NEW i \in DOMAIN v, NEW j \in DOMAIN v, v[i].at2 # Off, v[j].at2 # Off,
             v[i].src = v[j].src, v[i].id = v[j].id
      PROVE  i = j
  BY <1>4, <1>7 DEF Ordered
<1>8. Ordered(v)
  BY <1>5, <1>6, <1>7 DEF Ordered
<1>9. SameTurns(b, v)
  BY <1>4 DEF SameTurns, Live, Fresh
<1> QED
  BY <1>8, <1>9

\* A miss comes from L1.
LEMMA TurnsAppended ==
  ASSUME NEW b \in Seq(MissL2), NEW e \in MissL2, Ordered(b),
         e.at2 = L2_HIT, e.done = Off, ~ Live(b, e.src, e.id)
  PROVE  /\ Ordered(Append(b, e))
         /\ \A s \in Sources, k \in Nat :
              /\ Live(Append(b, e), s, k) <=> Live(b, s, k) \/ (s = e.src /\ k = e.id)
              /\ Fresh(b, s, k) => Fresh(Append(b, e), s, k)
<1>0. PICK v, n : v = Append(b, e) /\ n = Len(b)
  OBVIOUS
<1>1. /\ DOMAIN v = 1 .. n + 1 /\ DOMAIN b = 1 .. n /\ n \in Nat
      /\ v[n + 1] = e /\ \A i \in DOMAIN b : v[i] = b[i]
  BY <1>0, Appended
<1>2. \A i \in DOMAIN v : i \in DOMAIN b \/ i = n + 1
  BY <1>1
<1>3. DOMAIN b \subseteq DOMAIN v /\ n + 1 \in DOMAIN v
  BY <1>1
<1>4. L2_HIT \in Nat \ {0} /\ L2_HIT # Off
  BY CachesAssumption DEF Off
<1>5. \A i \in DOMAIN v : v[i].at2 # Off => v[i].at2 \in 0 .. L2_HIT /\ v[i].done = Off
  <2>1. e.at2 \in 0 .. L2_HIT
    BY <1>4
  <2>2. \A i \in DOMAIN b : v[i].at2 # Off => v[i].at2 \in 0 .. L2_HIT /\ v[i].done = Off
    BY <1>1, Zenon DEF Ordered
  <2> QED
    BY <1>1, <1>2, <2>1, <2>2, Zenon
<1>6. ASSUME NEW i \in DOMAIN v, NEW j \in DOMAIN v, i < j, v[i].at2 # Off
      PROVE  v[j].at2 # Off /\ v[i].at2 <= v[j].at2
  <2>1. i \in DOMAIN b
    BY <1>1, <1>6
  <2>2. CASE j \in DOMAIN b
    <3>1. v[i] = b[i] /\ v[j] = b[j]
      BY <1>1, <2>1, <2>2
    <3> QED
      BY <1>6, <2>1, <2>2, <3>1, Zenon DEF Ordered
  <2>3. CASE j = n + 1
    <3>1. v[i].at2 \in 0 .. L2_HIT /\ v[j].at2 = L2_HIT
      BY <1>1, <1>5, <1>6, <2>3, Zenon
    <3> QED
      BY <1>4, <3>1
  <2> QED
    BY <1>2, <2>2, <2>3
<1>7. ASSUME NEW i \in DOMAIN v, NEW j \in DOMAIN v, v[i].at2 # Off, v[j].at2 # Off,
             v[i].src = v[j].src, v[i].id = v[j].id
      PROVE  i = j
  <2>1. ASSUME NEW x \in DOMAIN b, b[x].at2 # Off, b[x].src = e.src, b[x].id = e.id
        PROVE  FALSE
    BY <2>1 DEF Live
  <2>2. CASE i \in DOMAIN b /\ j \in DOMAIN b
    BY <1>1, <1>7, <2>2 DEF Ordered
  <2>3. CASE i = n + 1 /\ j \in DOMAIN b
    BY <1>1, <1>7, <2>1, <2>3
  <2>4. CASE i \in DOMAIN b /\ j = n + 1
    BY <1>1, <1>7, <2>1, <2>4
  <2> QED
    BY <1>2, <2>2, <2>3, <2>4
<1>8. Ordered(v)
  BY <1>5, <1>6, <1>7 DEF Ordered
<1>9. ASSUME NEW s \in Sources, NEW k \in Nat
      PROVE  /\ Live(v, s, k) <=> Live(b, s, k) \/ (s = e.src /\ k = e.id)
             /\ Fresh(b, s, k) => Fresh(v, s, k)
  <2>1. \A i \in DOMAIN b : v[i] = b[i] /\ i \in DOMAIN v
    BY <1>1, <1>3
  <2>2. e.at2 # Off
    BY <1>4
  <2> QED
    BY <1>1, <1>2, <1>3, <2>1, <2>2 DEF Live, Fresh
<1> QED
  BY <1>0, <1>8, <1>9

\* The first of those whose time has come has had its turn: its source is s, its
\* number k.
FirstDue(b, n) == b[n].at2 = 0 /\ \A i \in DOMAIN b : b[i].at2 = 0 => n <= i
TakenFrom(b, v, s, k) ==
  \A z \in Sources, x \in Nat :
    /\ Live(v, z, x) <=> Live(b, z, x) /\ ~ (z = s /\ x = k)
    /\ ~ (z = s /\ x = k) /\ Fresh(b, z, x) => Fresh(v, z, x)
FreshKept(b, v, s, k) ==
  /\ Fresh(v, s, k)
  /\ \A z \in Sources, x \in Nat : Fresh(b, z, x) => Fresh(v, z, x)

LEMMA TurnsTaken ==
  ASSUME NEW b \in Seq(MissL2), NEW n \in DOMAIN b, NEW v, Edited(b, v, n),
         Ordered(b), FirstDue(b, n),
         v[n].src = b[n].src, v[n].id = b[n].id, v[n].at2 = Off
  PROVE  /\ Ordered(v) /\ TakenFrom(b, v, b[n].src, b[n].id)
         /\ v[n].done = Off => FreshKept(b, v, b[n].src, b[n].id)
<1>. PICK f : f = v[n]
  OBVIOUS
<1>1. /\ DOMAIN v = DOMAIN b /\ v[n] = f
      /\ \A i \in DOMAIN b : i # n => v[i] = b[i]
  BY DEF Edited
<1>2. 0 # Off /\ b[n].at2 = 0 /\ b[n].at2 # Off /\ L2_HIT \in Nat /\ DOMAIN b \subseteq Nat
  BY CachesAssumption DEF Off, FirstDue
<1>3. ASSUME NEW i \in DOMAIN b, i < n, b[i].at2 # Off
      PROVE  FALSE
  <2>1. b[i].at2 <= b[n].at2 /\ b[i].at2 \in 0 .. L2_HIT
    BY <1>2, <1>3, Zenon DEF Ordered
  <2>2. b[i].at2 = 0
    BY <1>2, <2>1
  <2>3. n <= i
    BY <2>2 DEF FirstDue
  <2> QED
    BY <1>2, <1>3, <2>3
<1>4. \A i \in DOMAIN v : v[i].at2 # Off => v[i].at2 \in 0 .. L2_HIT /\ v[i].done = Off
  <2>1. \A i \in DOMAIN v : v[i].at2 # Off => i # n /\ i \in DOMAIN b
    BY <1>1
  <2> QED
    BY <1>1, <2>1, Zenon DEF Ordered
<1>5. ASSUME NEW i \in DOMAIN v, NEW j \in DOMAIN v, i < j, v[i].at2 # Off
      PROVE  v[j].at2 # Off /\ v[i].at2 <= v[j].at2
  <2>1. i # n /\ v[i] = b[i]
    BY <1>1, <1>5, Zenon
  <2>2. j # n
    BY <1>1, <1>3, <1>5, <2>1
  <2>3. v[j] = b[j]
    BY <1>1, <2>2
  <2> QED
    BY <1>1, <1>5, <2>1, <2>3, Zenon DEF Ordered
<1>6. ASSUME NEW i \in DOMAIN v, NEW j \in DOMAIN v, v[i].at2 # Off, v[j].at2 # Off,
             v[i].src = v[j].src, v[i].id = v[j].id
      PROVE  i = j
  BY <1>1, <1>6 DEF Ordered
<1>7. Ordered(v)
  BY <1>4, <1>5, <1>6 DEF Ordered
<1>8. ASSUME NEW s \in Sources, NEW k \in Nat
      PROVE  /\ Live(v, s, k) <=> Live(b, s, k) /\ ~ (s = f.src /\ k = f.id)
             /\ ~ (s = f.src /\ k = f.id) /\ Fresh(b, s, k) => Fresh(v, s, k)
  <2>1. ASSUME Live(v, s, k) PROVE Live(b, s, k) /\ ~ (s = f.src /\ k = f.id)
    <3>1. PICK i \in DOMAIN v : v[i].src = s /\ v[i].id = k /\ v[i].at2 # Off
      BY <2>1, Zenon DEF Live
    <3>2. i # n /\ v[i] = b[i] /\ i \in DOMAIN b
      BY <1>1, <3>1, Zenon
    <3>3. Live(b, s, k)
      BY <3>1, <3>2 DEF Live
    <3>4. ASSUME s = f.src, k = f.id PROVE FALSE
      <4>1. b[i].src = b[n].src /\ b[i].id = b[n].id /\ b[i].at2 # Off
        BY <3>1, <3>2, <3>4
      <4> QED
        BY <1>2, <3>2, <4>1, Zenon DEF Ordered
    <3> QED
      BY <3>3, <3>4
  <2>2. ASSUME Live(b, s, k), ~ (s = f.src /\ k = f.id) PROVE Live(v, s, k)
    <3>1. PICK i \in DOMAIN b : b[i].src = s /\ b[i].id = k /\ b[i].at2 # Off
      BY <2>2, Zenon DEF Live
    <3>2. v[i] = b[i]
      BY <1>1, <2>2, <3>1
    <3> QED
      BY <1>1, <3>1, <3>2 DEF Live
  <2>3. ASSUME Fresh(b, s, k), ~ (s = f.src /\ k = f.id) PROVE Fresh(v, s, k)
    <3>1. PICK i \in DOMAIN b : b[i].src = s /\ b[i].id = k /\ b[i].done = Off
      BY <2>3, Zenon DEF Fresh
    <3>2. v[i] = b[i]
      BY <1>1, <2>3, <3>1
    <3> QED
      BY <1>1, <3>1, <3>2 DEF Fresh
  <2> QED
    BY <2>1, <2>2, <2>3
<1>9. f.done = Off => Fresh(v, f.src, f.id)
  BY <1>1 DEF Fresh
<1>10. f.done = Off => \A s \in Sources, k \in Nat : Fresh(b, s, k) => Fresh(v, s, k)
  BY <1>8, <1>9, Zenon
<1>11. TakenFrom(b, v, f.src, f.id)
  BY <1>8, Zenon DEF TakenFrom
<1>12. f.done = Off => FreshKept(b, v, f.src, f.id)
  BY <1>9, <1>10, Zenon DEF FreshKept
<1> QED
  BY <1>7, <1>11, <1>12, Zenon

\* Misses that have had their turn are answered.
LEMMA TurnsWoken ==
  ASSUME NEW b \in Seq(MissL2), NEW v, DOMAIN v = DOMAIN b, Ordered(b),
         \A i \in DOMAIN b : /\ v[i].src = b[i].src /\ v[i].id = b[i].id
                             /\ v[i].at2 = b[i].at2
                             /\ b[i].at2 # Off => v[i] = b[i]
  PROVE  /\ Ordered(v)
         /\ \A s \in Sources, k \in Nat : Live(v, s, k) <=> Live(b, s, k)
<1>1. \A i \in DOMAIN v : v[i].at2 # Off => v[i].at2 \in 0 .. L2_HIT /\ v[i].done = Off
  BY Zenon DEF Ordered
<1>2. ASSUME NEW i \in DOMAIN v, NEW j \in DOMAIN v, i < j, v[i].at2 # Off
      PROVE  v[j].at2 # Off /\ v[i].at2 <= v[j].at2
  <2>1. b[i].at2 = v[i].at2 /\ b[j].at2 = v[j].at2
    OBVIOUS
  <2> QED
    BY <1>2, <2>1, Zenon DEF Ordered
<1>3. ASSUME NEW i \in DOMAIN v, NEW j \in DOMAIN v, v[i].at2 # Off, v[j].at2 # Off,
             v[i].src = v[j].src, v[i].id = v[j].id
      PROVE  i = j
  BY <1>3 DEF Ordered
<1>4. Ordered(v)
  BY <1>1, <1>2, <1>3 DEF Ordered
<1> QED
  BY <1>4 DEF Live

\* Of L3: a miss was made for t, or t has merged with it.  It is open until it is
\* completed and update_caches has gone through it.
Knows(e, t) == First(e) = t \/ t \in Merged(e)
Gathering(st) == st \in {"memory", "caches"}

Known(b, t) == \E i \in DOMAIN b : Knows(b[i], t)
Open(b, st, t) == \E i \in DOMAIN b : Knows(b[i], t) /\ (b[i].done = Off \/ Gathering(st))
Opens(b, st, t) ==
  \E i \in DOMAIN b : First(b[i]) = t /\ (b[i].done = Off \/ Gathering(st))

OneEach(b) == \A t \in Asking : \A i, j \in DOMAIN b : Knows(b[i], t) /\ Knows(b[j], t) => i = j

SameRequests(b, st, v, sv) ==
  \A t \in Asking : /\ Known(v, t) => Known(b, t)
                    /\ Open(v, sv, t) <=> Open(b, st, t)
                    /\ Opens(v, sv, t) => Opens(b, st, t)

\* The same, but that t0 is now waiting for a miss that is not completed.
OneRequestMore(b, v, st, t0) ==
  \A t \in Asking : /\ Known(v, t) => Known(b, t) \/ t = t0
                    /\ Open(v, st, t) <=> Open(b, st, t) \/ t = t0
                    /\ Opens(v, st, t) => Opens(b, st, t) \/ t = t0

\* One that is completed leaves.
LEMMA RequestsWithout ==
  ASSUME NEW b, NEW v, NEW n, NEW p, Without(b, v, n, p), OneEach(b),
         b[n].done # Off, NEW st, ~ Gathering(st),
         \A i, j \in DOMAIN v : p[i] = p[j] => i = j
  PROVE  OneEach(v) /\ SameRequests(b, st, v, st)
<1>0. /\ \A i \in DOMAIN v : p[i] \in DOMAIN b /\ v[i] = b[p[i]]
      /\ \A l \in DOMAIN b : l # n => \E i \in DOMAIN v : p[i] = l
  BY Zenon DEF Without
<1>1. OneEach(v)
  <2> SUFFICES ASSUME NEW t \in Asking, NEW i \in DOMAIN v, NEW j \in DOMAIN v,
                      Knows(v[i], t), Knows(v[j], t)
               PROVE  i = j
    BY DEF OneEach
  <2>1. Knows(b[p[i]], t) /\ Knows(b[p[j]], t) /\ p[i] \in DOMAIN b /\ p[j] \in DOMAIN b
    BY <1>0
  <2>2. p[i] = p[j]
    BY <2>1, Zenon DEF OneEach
  <2> QED
    BY <2>2
<1>2. ASSUME NEW t \in Asking
      PROVE  /\ Known(v, t) => Known(b, t)
             /\ Open(v, st, t) <=> Open(b, st, t)
             /\ Opens(v, st, t) => Opens(b, st, t)
  <2>1. Known(v, t) => Known(b, t)
    BY <1>0 DEF Known
  <2>2. Opens(v, st, t) => Opens(b, st, t)
    BY <1>0 DEF Opens
  <2>3. Open(v, st, t) => Open(b, st, t)
    BY <1>0 DEF Open
  <2>4. ASSUME Open(b, st, t) PROVE Open(v, st, t)
    <3>1. PICK l \in DOMAIN b : Knows(b[l], t) /\ b[l].done = Off
      BY <2>4, Zenon DEF Open
    <3>2. PICK i \in DOMAIN v : p[i] = l
      BY <1>0, <3>1, Zenon
    <3>3. v[i] = b[l]
      BY <1>0, <3>2
    <3> QED
      BY <3>1, <3>3, Zenon DEF Open
  <2> QED
    BY <2>1, <2>2, <2>3, <2>4
<1> QED
  BY <1>1, <1>2 DEF SameRequests

LEMMA RequestsRemoved ==
  ASSUME NEW b \in Seq(MissL3), NEW n \in DOMAIN b, b[n].done # Off, OneEach(b),
         NEW st, ~ Gathering(st)
  PROVE  OneEach(RemoveAt(b, n)) /\ SameRequests(b, st, RemoveAt(b, n), st)
<1>0. PICK v, k : v = RemoveAt(b, n) /\ k = Len(b)
  OBVIOUS
<1>1. /\ k \in Nat /\ n \in 1 .. k /\ DOMAIN b = 1 .. k
      /\ DOMAIN v = 1 .. k - 1
      /\ \A i \in 1 .. k - 1 : v[i] = b[Back(n, i)]
  BY <1>0, Removed
<1>2. /\ \A i \in 1 .. k - 1 : Back(n, i) \in (1 .. k) \ {n}
      /\ \A i, j \in 1 .. k - 1 : Back(n, i) = Back(n, j) => i = j
      /\ \A l \in (1 .. k) \ {n} : \E i \in 1 .. k - 1 : Back(n, i) = l
  BY <1>1, BackOnto
<1>3. PICK p : p = [i \in 1 .. k - 1 |-> Back(n, i)]
  OBVIOUS
<1>4. \A i \in DOMAIN v : p[i] \in DOMAIN b /\ v[i] = b[p[i]]
  BY <1>1, <1>2, <1>3
<1>5. \A l \in DOMAIN b : l # n => \E i \in DOMAIN v : p[i] = l
  BY <1>1, <1>2, <1>3
<1>6. Without(b, v, n, p)
  BY <1>4, <1>5 DEF Without
<1>7. \A i, j \in DOMAIN v : p[i] = p[j] => i = j
  BY <1>1, <1>2, <1>3
<1>8. OneEach(v) /\ SameRequests(b, st, v, st)
  BY <1>6, <1>7, RequestsWithout
<1> QED
  BY <1>0, <1>8

\* A miss of L2 merges with one that is not completed.
LEMMA RequestMerged ==
  ASSUME NEW b, NEW v, NEW n \in DOMAIN b, NEW t0 \in Asking, NEW st,
         OneEach(b), ~ Known(b, t0), Edited(b, v, n),
         First(v[n]) = First(b[n]), Merged(v[n]) = Merged(b[n]) \union {t0},
         v[n].done = Off, b[n].done = Off
  PROVE  OneEach(v) /\ OneRequestMore(b, v, st, t0)
<1>0. DOMAIN v = DOMAIN b /\ \A i \in DOMAIN b : i # n => v[i] = b[i]
  BY DEF Edited
<1>1. \A i \in DOMAIN b, t \in Asking : Knows(v[i], t) <=> Knows(b[i], t) \/ (i = n /\ t = t0)
  BY <1>0 DEF Knows
<1>2. \A i \in DOMAIN b : ~ Knows(b[i], t0)
  BY Zenon DEF Known
<1>3. OneEach(v)
  <2> SUFFICES ASSUME NEW t \in Asking, NEW i \in DOMAIN v, NEW j \in DOMAIN v,
                      Knows(v[i], t), Knows(v[j], t)
               PROVE  i = j
    BY DEF OneEach
  <2>1. CASE t = t0
    BY <1>0, <1>1, <1>2, <2>1
  <2>2. CASE t # t0
    <3>1. Knows(b[i], t) /\ Knows(b[j], t)
      BY <1>0, <1>1, <2>2
    <3>2. i \in DOMAIN b /\ j \in DOMAIN b
      BY <1>0
    <3> QED
      BY <3>1, <3>2, Zenon DEF OneEach
  <2> QED
    BY <2>1, <2>2
<1>4. ASSUME NEW t \in Asking
      PROVE  /\ Known(v, t) => Known(b, t) \/ t = t0
             /\ Open(v, st, t) <=> Open(b, st, t) \/ t = t0
             /\ Opens(v, st, t) => Opens(b, st, t) \/ t = t0
  <2>1. Known(v, t) => Known(b, t) \/ t = t0
    BY <1>0, <1>1, Zenon DEF Known
  <2>2. \A i \in DOMAIN b : (v[i].done = Off <=> b[i].done = Off) /\ First(v[i]) = First(b[i])
    BY <1>0
  <2>3. Opens(v, st, t) => Opens(b, st, t)
    BY <1>0, <2>2, Zenon DEF Opens
  <2>4. Open(v, st, t) => Open(b, st, t) \/ t = t0
    BY <1>0, <1>1, <2>2, Zenon DEF Open
  <2>5. Open(b, st, t) => Open(v, st, t)
    BY <1>0, <1>1, <2>2, Zenon DEF Open
  <2>6. Open(v, st, t0)
    BY <1>0, <1>1, Zenon DEF Open
  <2> QED
    BY <2>1, <2>3, <2>4, <2>5, <2>6
<1> QED
  BY <1>3, <1>4 DEF OneRequestMore

\* A miss of L3 is made for it.
LEMMA RequestAppended ==
  ASSUME NEW b \in Seq(MissL3), NEW f \in MissL3, NEW t0 \in Asking, NEW st,
         OneEach(b), ~ Known(b, t0), First(f) = t0, Merged(f) = {}, f.done = Off
  PROVE  OneEach(Append(b, f)) /\ OneRequestMore(b, Append(b, f), st, t0)
<1>0. PICK v, n : v = Append(b, f) /\ n = Len(b)
  OBVIOUS
<1>1. /\ DOMAIN v = 1 .. n + 1 /\ DOMAIN b = 1 .. n /\ n \in Nat
      /\ v[n + 1] = f /\ \A i \in DOMAIN b : v[i] = b[i]
  BY <1>0, Appended
<1>2. \A i \in DOMAIN v : i \in DOMAIN b \/ i = n + 1
  BY <1>1
<1>3. DOMAIN b \subseteq DOMAIN v /\ n + 1 \in DOMAIN v
  BY <1>1
<1>4. \A t \in Asking : Knows(f, t) <=> t = t0
  BY DEF Knows
<1>5. \A i \in DOMAIN b : ~ Knows(b[i], t0)
  BY Zenon DEF Known
<1>6. OneEach(v)
  <2> SUFFICES ASSUME NEW t \in Asking, NEW i \in DOMAIN v, NEW j \in DOMAIN v,
                      Knows(v[i], t), Knows(v[j], t)
               PROVE  i = j
    BY DEF OneEach
  <2>1. CASE t = t0
    BY <1>1, <1>2, <1>5, <2>1
  <2>2. CASE t # t0
    <3>1. i \in DOMAIN b /\ j \in DOMAIN b
      BY <1>1, <1>2, <1>4, <2>2
    <3>2. Knows(b[i], t) /\ Knows(b[j], t)
      BY <1>1, <3>1
    <3> QED
      BY <3>1, <3>2, Zenon DEF OneEach
  <2> QED
    BY <2>1, <2>2
<1>7. ASSUME NEW t \in Asking
      PROVE  /\ Known(v, t) => Known(b, t) \/ t = t0
             /\ Open(v, st, t) <=> Open(b, st, t) \/ t = t0
             /\ Opens(v, st, t) => Opens(b, st, t) \/ t = t0
  <2>0. \A i \in DOMAIN b : v[i] = b[i] /\ i \in DOMAIN v
    BY <1>1, <1>3
  <2>1. Known(v, t) => Known(b, t) \/ t = t0
    BY <1>1, <1>2, <1>4, <2>0, Zenon DEF Known
  <2>2. Opens(v, st, t) => Opens(b, st, t) \/ t = t0
    BY <1>1, <1>2, <2>0, Zenon DEF Opens
  <2>3. Open(v, st, t) => Open(b, st, t) \/ t = t0
    BY <1>1, <1>2, <1>4, <2>0, Zenon DEF Open
  <2>4. Open(b, st, t) => Open(v, st, t)
    BY <2>0, Zenon DEF Open
  <2>5. Open(v, st, t0)
    BY <1>1, <1>3, <1>4, Zenon DEF Open
  <2> QED
    BY <2>1, <2>2, <2>3, <2>4, <2>5
<1>8. OneRequestMore(b, v, st, t0)
  BY <1>7 DEF OneRequestMore
<1> QED
  BY <1>0, <1>6, <1>8

-------------------------------------------------------------------------------
(***************************************************************************)
(* Who wakes a miss that waits: the invariant, seen at each level.         *)
(***************************************************************************)
\* What the core has asked for and L1 has sent to L2; what waits below L1.
Passed(c, s, k) ==
  /\ s = "D" => k < asked[c]["D"] /\ NoWalk(dtlb_miss_buffer[c], k)
  /\ s = "I" => k <= asked[c]["I"]
  /\ Gone(l1_miss_buffer[c][s], k)
WaitsAt(c, s, k) == Waiter(l1_miss_buffer[c][s], k)

TurnAt(c, s, k)  == Live(l2_miss_buffer[c], s, k)
FreshAt(c, s, k) == Fresh(l2_miss_buffer[c], s, k)

KnownAt(c, s, k) == Known(l3_miss_buffer, <<c, s, k>>)
OpenAt(c, s, k)  == Open(l3_miss_buffer, stage, <<c, s, k>>)
OpensAt(c, s, k) == Opens(l3_miss_buffer, stage, <<c, s, k>>)

Chained(c, s, k) ==
  /\ TurnAt(c, s, k) => Passed(c, s, k) /\ WaitsAt(c, s, k) /\ ~ KnownAt(c, s, k)
  /\ KnownAt(c, s, k) => Passed(c, s, k)
  /\ OpensAt(c, s, k) => WaitsAt(c, s, k)
  /\ WaitsAt(c, s, k) => TurnAt(c, s, k) \/ OpenAt(c, s, k)
  /\ OpenAt(c, s, k) /\ ~ FreshAt(c, s, k) =>
       \A z \in Sources : z # s => Passed(c, z, k) /\ ~ TurnAt(c, z, k)

Instructions(m, n) == IdsOnce(m) /\ \A i \in DOMAIN m : m[i].id <= n

InstructionsOnce == \A c \in Cores : Instructions(l1_miss_buffer[c]["I"], asked[c]["I"])
L1Done == \A c \in Cores, s \in Sources : DoneAfterL2(l1_miss_buffer[c][s])
L2InOrder == \A c \in Cores : Ordered(l2_miss_buffer[c])
L3Done == \A i \in DOMAIN l3_miss_buffer : l3_miss_buffer[i].done \in {Off, 0}

\* The inductive invariant behind WakeUpChain.  Every miss that waits in L1 has
\* its turn in L2 still to come or is known to an open miss of L3, never both,
\* and the first of such a miss waits.  The last part is for update_caches,
\* which finds a miss of L2 by its number: a miss of the other source with that
\* number has had its turn too.
ChainInv ==
  /\ InstructionsOnce /\ L1Done /\ L2InOrder /\ OneEach(l3_miss_buffer) /\ L3Done
  /\ \A c \in Cores, s \in Sources, k \in Nat : Chained(c, s, k)

\* Steps that change nothing of it, seen at each level.
L1Still ==
  /\ InstructionsOnce' /\ (L1Done => L1Done')
  /\ \A c \in Cores, s \in Sources, k \in Nat :
       /\ Passed(c, s, k) => Passed(c, s, k)'
       /\ WaitsAt(c, s, k)' <=> WaitsAt(c, s, k)
L2Still ==
  /\ L2InOrder'
  /\ \A c \in Cores, s \in Sources, k \in Nat :
       /\ TurnAt(c, s, k)' <=> TurnAt(c, s, k)
       /\ FreshAt(c, s, k) => FreshAt(c, s, k)'
L3Still ==
  /\ OneEach(l3_miss_buffer') /\ L3Done'
  /\ \A c \in Cores, s \in Sources, k \in Nat :
       /\ KnownAt(c, s, k)' => KnownAt(c, s, k)
       /\ OpenAt(c, s, k)' <=> OpenAt(c, s, k)
       /\ OpensAt(c, s, k)' => OpensAt(c, s, k)

LEMMA ChainStill ==
  ASSUME ChainInv, L1Still, L2Still, L3Still
  PROVE  ChainInv'
<1>1. ASSUME NEW c \in Cores, NEW s \in Sources, NEW k \in Nat
      PROVE  Chained(c, s, k)'
  <2>1. Chained(c, s, k)
    BY DEF ChainInv
  <2>2. \A z \in Sources : /\ Passed(c, z, k) => Passed(c, z, k)'
                           /\ WaitsAt(c, z, k)' <=> WaitsAt(c, z, k)
                           /\ TurnAt(c, z, k)' <=> TurnAt(c, z, k)
                           /\ FreshAt(c, z, k) => FreshAt(c, z, k)'
    BY DEF L1Still, L2Still
  <2>3. /\ KnownAt(c, s, k)' => KnownAt(c, s, k)
        /\ OpenAt(c, s, k)' <=> OpenAt(c, s, k)
        /\ OpensAt(c, s, k)' => OpensAt(c, s, k)
    BY DEF L3Still
  <2> QED
    BY <2>1, <2>2, <2>3 DEF Chained
<1> QED
  BY <1>1 DEF ChainInv, L1Still, L2Still, L3Still

LEMMA L3StillIf ==
  ASSUME OneEach(l3_miss_buffer'), L3Done',
         SameRequests(l3_miss_buffer, stage, l3_miss_buffer', stage')
  PROVE  L3Still
<1>1. \A c \in Cores, s \in Sources, k \in Nat : <<c, s, k>> \in Asking
  BY DEF Asking
<1> QED
  BY <1>1 DEF L3Still, SameRequests, KnownAt, OpenAt, OpensAt

LEMMA L2StillIf ==
  ASSUME \A c \in Cores : /\ Ordered(l2_miss_buffer'[c])
                          /\ SameTurns(l2_miss_buffer[c], l2_miss_buffer'[c])
  PROVE  L2Still
BY DEF L2Still, L2InOrder, SameTurns, TurnAt, FreshAt

LEMMA L2Unchanged ==
  ASSUME L2InOrder, UNCHANGED l2_miss_buffer
  PROVE  L2Still
BY SameTurnsItself, L2StillIf DEF L2InOrder

LEMMA L1Unchanged ==
  ASSUME InstructionsOnce, UNCHANGED <<asked, dtlb_miss_buffer, l1_miss_buffer>>
  PROVE  L1Still
BY DEF L1Still, InstructionsOnce, L1Done, Passed, WaitsAt

\* Of L1 itself, and of what it has not been given.
LEMMA L1StillIf ==
  ASSUME InstructionsOnce',
         \A c \in Cores, s \in Sources :
           DoneAfterL2(l1_miss_buffer[c][s]) => DoneAfterL2(l1_miss_buffer'[c][s]),
         \A c \in Cores, s \in Sources, k \in Nat :
           /\ Waiter(l1_miss_buffer'[c][s], k) <=> Waiter(l1_miss_buffer[c][s], k)
           /\ Passed(c, s, k) => Gone(l1_miss_buffer'[c][s], k),
         \A c \in Cores, k \in Nat :
           /\ Passed(c, "D", k) => k < asked'[c]["D"] /\ NoWalk(dtlb_miss_buffer'[c], k)
           /\ Passed(c, "I", k) => k <= asked'[c]["I"]
  PROVE  L1Still
<1>1. ASSUME NEW c \in Cores, NEW s \in Sources, NEW k \in Nat
      PROVE  /\ Passed(c, s, k) => Passed(c, s, k)'
             /\ WaitsAt(c, s, k)' <=> WaitsAt(c, s, k)
  <2>1. WaitsAt(c, s, k)' <=> WaitsAt(c, s, k)
    BY DEF WaitsAt
  <2>2. ASSUME Passed(c, s, k) PROVE Passed(c, s, k)'
    <3>1. Gone(l1_miss_buffer'[c][s], k)
      BY <2>2
    <3>2. s = "D" => k < asked'[c]["D"] /\ NoWalk(dtlb_miss_buffer'[c], k)
      BY <2>2
    <3>3. s = "I" => k <= asked'[c]["I"]
      BY <2>2
    <3> QED
      BY <3>1, <3>2, <3>3 DEF Passed
  <2> QED
    BY <2>1, <2>2
<1>2. L1Done => L1Done'
  BY DEF L1Done
<1> QED
  BY <1>1, <1>2 DEF L1Still

\* One buffer of L1 changes.
LEMMA OneBuffer ==
  ASSUME Typed, NEW c \in Cores, NEW s \in Sources, NEW v,
         l1_miss_buffer' = [l1_miss_buffer EXCEPT ![c] = [l1_miss_buffer[c] EXCEPT ![s] = v]]
  PROVE  /\ l1_miss_buffer'[c][s] = v
         /\ \A d \in Cores, z \in Sources :
              ~ (d = c /\ z = s) => l1_miss_buffer'[d][z] = l1_miss_buffer[d][z]
<1>1. l1_miss_buffer \in [Cores -> [Sources -> Misses]]
  BY DEF Typed
<1> QED
  BY <1>1

LEMMA OneBufferStill ==
  ASSUME Typed, InstructionsOnce, UNCHANGED <<asked, dtlb_miss_buffer>>,
         NEW c \in Cores, NEW s \in Sources, NEW v,
         l1_miss_buffer' = [l1_miss_buffer EXCEPT ![c] = [l1_miss_buffer[c] EXCEPT ![s] = v]],
         SameWaiters(l1_miss_buffer[c][s], v),
         s = "I" => Instructions(v, asked[c]["I"])
  PROVE  L1Still
<1>0. l1_miss_buffer'[c][s] = v
  <2>1. l1_miss_buffer \in [Cores -> [Sources -> Misses]]
    BY DEF Typed
  <2> QED
    BY <2>1
<1>1. \A d \in Cores, z \in Sources : SameWaiters(l1_miss_buffer[d][z], l1_miss_buffer'[d][z])
  <2> TAKE d \in Cores, z \in Sources
  <2>1. CASE d = c /\ z = s
    <3>1. l1_miss_buffer'[d][z] = v
      BY <1>0, <2>1, Zenon
    <3> QED
      BY <2>1, <3>1, Zenon
  <2>2. CASE ~ (d = c /\ z = s)
    <3>1. l1_miss_buffer'[d][z] = l1_miss_buffer[d][z]
      BY <2>2, OneBuffer
    <3> QED
      BY <3>1, SameWaitersItself
  <2> QED
    BY <2>1, <2>2
<1>2. InstructionsOnce'
  <2> SUFFICES ASSUME NEW d \in Cores
               PROVE  Instructions(l1_miss_buffer'[d]["I"], asked'[d]["I"])
    BY DEF InstructionsOnce
  <2>0. "I" \in Sources
    BY DEF Sources
  <2>1. CASE d = c /\ s = "I"
    <3>1. l1_miss_buffer'[d]["I"] = v
      BY <1>0, <2>1, Zenon
    <3> QED
      BY <2>1, <3>1, Zenon
  <2>2. CASE ~ (d = c /\ s = "I")
    <3>1. l1_miss_buffer'[d]["I"] = l1_miss_buffer[d]["I"]
      BY <2>0, <2>2, OneBuffer
    <3> QED
      BY <3>1, Zenon DEF InstructionsOnce
  <2> QED
    BY <2>1, <2>2
<1>3. \A d \in Cores, z \in Sources, k \in Nat :
           /\ Waiter(l1_miss_buffer'[d][z], k) <=> Waiter(l1_miss_buffer[d][z], k)
           /\ Passed(d, z, k) => Gone(l1_miss_buffer'[d][z], k)
  BY <1>1, Zenon DEF SameWaiters, Passed
<1>4. \A d \in Cores, k \in Nat :
           /\ Passed(d, "D", k) => k < asked'[d]["D"] /\ NoWalk(dtlb_miss_buffer'[d], k)
           /\ Passed(d, "I", k) => k <= asked'[d]["I"]
  BY DEF Passed
<1>5. \A d \in Cores, z \in Sources :
           DoneAfterL2(l1_miss_buffer[d][z]) => DoneAfterL2(l1_miss_buffer'[d][z])
  BY <1>1, Zenon DEF SameWaiters
<1> QED
  BY <1>2, <1>3, <1>4, <1>5, L1StillIf

\* One entry of a buffer of L1 is edited.
LEMMA WaitersWithEntry ==
  ASSUME NEW m \in Misses, NEW n \in DOMAIN m, NEW f \in Miss, f.id = m[n].id,
         m[n].at1 = Off => f.at1 = Off,
         f.at1 # Off /\ m[n].done = Off => f.done = Off,
         f.at1 = Off /\ f.done = Off <=> m[n].at1 = Off /\ m[n].done = Off
  PROVE  SameWaiters(m, [m EXCEPT ![n] = f])
<1>. PICK v : v = [m EXCEPT ![n] = f]
  OBVIOUS
<1>1. /\ DOMAIN v = DOMAIN m /\ v[n] = f
      /\ \A i \in DOMAIN m : i # n => v[i] = m[i]
  OBVIOUS
<1>2. \A i \in DOMAIN m : /\ v[i].id = m[i].id
                          /\ m[i].at1 = Off => v[i].at1 = Off
                          /\ v[i].at1 # Off /\ m[i].done = Off => v[i].done = Off
                          /\ v[i].at1 = Off /\ v[i].done = Off
                               <=> m[i].at1 = Off /\ m[i].done = Off
  BY <1>1
<1>3. SameWaiters(m, v)
  BY <1>1, <1>2, Zenon DEF SameWaiters, Waiter, Gone, DoneAfterL2
<1> QED
  BY <1>3

LEMMA WaitersWithDest ==
  ASSUME NEW m \in Misses, NEW n \in DOMAIN m, NEW x \in Nat
  PROVE  LET u == [m EXCEPT ![n].dest = Append(@, x)] IN u \in Misses /\ SameWaiters(m, u)
<1>1. m[n] \in Miss
  BY DEF Misses
<1>. PICK d : d = Append(m[n].dest, x)
  OBVIOUS
<1>2. d \in Seq(Nat)
  BY <1>1 DEF Miss
<1>. PICK f : f = [m[n] EXCEPT !.dest = d]
  OBVIOUS
<1>3. f \in Miss /\ f.id = m[n].id /\ f.at1 = m[n].at1 /\ f.done = m[n].done
  BY <1>1, <1>2 DEF Miss
<1>4. [m EXCEPT ![n].dest = Append(@, x)] = [m EXCEPT ![n] = f]
  OBVIOUS
<1>5. [m EXCEPT ![n] = f] \in Misses
  BY <1>3, Changed DEF Misses
<1>6. SameWaiters(m, [m EXCEPT ![n] = f])
  BY <1>3, WaitersWithEntry
<1> QED
  BY <1>4, <1>5, <1>6, Zenon

-------------------------------------------------------------------------------
(***************************************************************************)
(* The steps of L1, of L2 and of L3 by themselves.                         *)
(***************************************************************************)
LEMMA RemoveFromL1Waits ==
  ASSUME Typed, InstructionsOnce, RemoveFromL1
  PROVE  L1Still
<1>. PICK m, i : m = l1_miss_buffer[at]["D"] /\ i = Min(Due(m, pos))
  OBVIOUS
<1>1. /\ Due(m, pos) # {}
      /\ l1_miss_buffer' = [l1_miss_buffer EXCEPT ![at]["D"] = RemoveAt(m, i)]
      /\ UNCHANGED <<asked, dtlb_miss_buffer>>
  BY DEF RemoveFromL1
<1>2. /\ at \in Cores /\ "D" \in Sources /\ pos \in Nat \ {0}
      /\ l1_miss_buffer \in [Cores -> [Sources -> Misses]]
  BY DEF Typed, Sources
<1>3. m \in Misses
  BY <1>2
<1>4. i \in DOMAIN m /\ i \in Due(m, pos)
  <2>1. m \in Seq(Miss) /\ Due(m, pos) \subseteq DOMAIN m
    BY <1>2, <1>3 DEF Misses, Due
  <2> QED
    BY <1>1, <2>1, FirstIndex
<1>5. m[i].done # Off
  BY <1>4 DEF Due, Off
<1>. PICK v : v = RemoveAt(m, i)
  OBVIOUS
<1>6. SameWaiters(l1_miss_buffer[at]["D"], v)
  BY <1>3, <1>4, <1>5, WaitersRemoved
<1>7. l1_miss_buffer' = [l1_miss_buffer EXCEPT
                          ![at] = [l1_miss_buffer[at] EXCEPT !["D"] = v]]
  <2>1. l1_miss_buffer' = [l1_miss_buffer EXCEPT ![at]["D"] = v]
    BY <1>1, Zenon
  <2> QED
    BY <2>1
<1>8. UNCHANGED <<asked, dtlb_miss_buffer>> /\ "D" # "I"
  BY <1>1
<1> QED
  BY <1>2, <1>6, <1>7, <1>8, OneBufferStill

LEMMA FillIcacheWaits ==
  ASSUME Typed, InstructionsOnce, FillIcache
  PROVE  L1Still
<1>. PICK m : m = l1_miss_buffer[at]["I"]
  OBVIOUS
<1>1. /\ m # <<>> /\ Head(m).done = 0
      /\ \/ l1_miss_buffer' = [l1_miss_buffer EXCEPT ![at]["I"] = Tail(@)]
         \/ UNCHANGED l1_miss_buffer
      /\ UNCHANGED <<asked, dtlb_miss_buffer>>
  BY DEF FillIcache, Iready, askVars
<1>2. /\ at \in Cores /\ l1_miss_buffer \in [Cores -> [Sources -> Misses]]
      /\ "I" \in Sources
  BY DEF Typed, Sources
<1>3. CASE UNCHANGED l1_miss_buffer
  BY <1>1, <1>3, L1Unchanged
<1>4. CASE l1_miss_buffer' = [l1_miss_buffer EXCEPT ![at]["I"] = Tail(@)]
  <2>1. m \in Misses /\ Head(m).done # Off
    BY <1>1, <1>2 DEF Off
  <2>2. SameWaiters(m, Tail(m)) /\ (IdsOnce(m) => IdsOnce(Tail(m)))
    BY <1>1, <2>1, WaitersTail
  <2>3. Instructions(m, asked[at]["I"])
    BY <1>2 DEF InstructionsOnce
  <2>4. Instructions(Tail(m), asked[at]["I"])
    <3>1. IdsOnce(Tail(m))
      BY <2>2, <2>3 DEF Instructions
    <3>2. \A i \in DOMAIN Tail(m) : i + 1 \in DOMAIN m /\ Tail(m)[i] = m[i + 1]
      BY <1>1, <2>1 DEF Misses
    <3>3. \A i \in DOMAIN Tail(m) : Tail(m)[i].id <= asked[at]["I"]
      BY <2>3, <3>2 DEF Instructions
    <3> QED
      BY <3>1, <3>3, Zenon DEF Instructions
  <2>5. l1_miss_buffer' = [l1_miss_buffer EXCEPT
                            ![at] = [l1_miss_buffer[at] EXCEPT !["I"] = Tail(m)]]
    BY <1>4
  <2>6. UNCHANGED <<asked, dtlb_miss_buffer>>
    BY <1>1
  <2> QED
    BY <1>2, <2>2, <2>4, <2>5, <2>6, OneBufferStill
<1> QED
  BY <1>1, <1>3, <1>4

\* dcache_hit and dcache_miss: a miss that has not been to L2, or none.
LEMMA SameEnters ==
  ASSUME NEW m, NEW v, SameWaiters(m, v), NEW x
  PROVE  EntersAs(m, v, x)
BY DEF SameWaiters, EntersAs

LEMMA EnteredWaits ==
  ASSUME Typed, NEW c \in Cores, NEW r,
         r.id \in Nat, r.line \in Lines, r.write \in BOOLEAN,
         dcache_hit(c, r) \/ dcache_miss(c, r)
  PROVE  \E v \in Misses :
           /\ EntersAs(l1_miss_buffer[c]["D"], v, r.id)
           /\ l1_miss_buffer' = [l1_miss_buffer EXCEPT
                                   ![c] = [l1_miss_buffer[c] EXCEPT !["D"] = v]]
<1>. PICK m : m = l1_miss_buffer[c]["D"]
  OBVIOUS
<1>1. /\ m \in Misses /\ "D" \in Sources
      /\ l1_miss_buffer \in [Cores -> [Sources -> Misses]]
  BY DEF Typed, Sources
<1>2. CASE dcache_hit(c, r)
  <2>1. EntersAs(m, m, r.id)
    BY SameWaitersItself, SameEnters
  <2>2. l1_miss_buffer' = [l1_miss_buffer EXCEPT
                             ![c] = [l1_miss_buffer[c] EXCEPT !["D"] = m]]
    <3>1. UNCHANGED l1_miss_buffer
      BY <1>2 DEF dcache_hit
    <3> QED
      BY <1>1, <3>1
  <2> QED
    BY <1>1, <2>1, <2>2, Zenon
<1>3. CASE dcache_miss(c, r)
  <2>. PICK same : same = SameLine(m, r.line)
    OBVIOUS
  <2>1. CASE same # {}
    <3>. PICK n, x : n = Min(same) /\ x = r.id
      OBVIOUS
    <3>1. n \in DOMAIN m
      <4>1. same \subseteq DOMAIN m /\ m \in Seq(Miss)
        BY <1>1 DEF SameLine, Misses
      <4> QED
        BY <2>1, <4>1, FirstIndex
    <3>2. l1_miss_buffer' =
            [l1_miss_buffer EXCEPT ![c]["D"] = [m EXCEPT ![n].dest = Append(@, r.id)]]
      BY <1>3, <2>1 DEF dcache_miss
    <3>. PICK v : v = [m EXCEPT ![n].dest = Append(@, x)]
      OBVIOUS
    <3>3. v \in Misses /\ SameWaiters(m, v)
      BY <1>1, <3>1, WaitersWithDest
    <3>4. EntersAs(m, v, x)
      BY <3>3, SameEnters
    <3>5. l1_miss_buffer' = [l1_miss_buffer EXCEPT
                              ![c] = [l1_miss_buffer[c] EXCEPT !["D"] = v]]
      <4>1. l1_miss_buffer' = [l1_miss_buffer EXCEPT ![c]["D"] = v]
        BY <3>2, Zenon
      <4> QED
        BY <4>1
    <3> QED
      BY <3>3, <3>4, <3>5, Zenon
  <2>2. CASE same = {}
    <3>. PICK e : e = [id |-> r.id, line |-> r.line, write |-> r.write,
                       at1 |-> L1_HIT, done |-> Off, dest |-> <<>>]
      OBVIOUS
    <3>0. L1_HIT \in Nat \ {0}
      BY CachesAssumption, Zenon
    <3>1. e \in Miss
      <4>1. L1_HIT \in Int /\ Off \in Int /\ <<>> \in Seq(Nat)
        BY <3>0 DEF Off
      <4> QED
        BY <4>1 DEF Miss
    <3>2. e.at1 # Off /\ e.done = Off /\ e.id = r.id
      BY <3>0 DEF Off
    <3>3. Append(m, e) \in Misses
      BY <1>1, <3>1, Appended DEF Misses
    <3>4. EntersAs(m, Append(m, e), r.id)
      BY <1>1, <3>1, <3>2, WaitersAppended
    <3>5. l1_miss_buffer' = [l1_miss_buffer EXCEPT
                              ![c] = [l1_miss_buffer[c] EXCEPT !["D"] = Append(m, e)]]
      BY <1>3, <2>2 DEF dcache_miss
    <3> QED
      BY <3>3, <3>4, <3>5, Zenon
  <2> QED
    BY <2>1, <2>2
<1> QED
  BY <1>2, <1>3

\* A buffer a miss may have entered, of one that had not been there.
LEMMA EntersStill ==
  ASSUME Typed, InstructionsOnce', NEW c \in Cores, NEW s \in Sources, NEW v,
         l1_miss_buffer' = [l1_miss_buffer EXCEPT ![c] = [l1_miss_buffer[c] EXCEPT ![s] = v]],
         NEW x, EntersAs(l1_miss_buffer[c][s], v, x), ~ Passed(c, s, x),
         \A d \in Cores, k \in Nat :
           /\ Passed(d, "D", k) => k < asked'[d]["D"] /\ NoWalk(dtlb_miss_buffer'[d], k)
           /\ Passed(d, "I", k) => k <= asked'[d]["I"]
  PROVE  L1Still
<1>0. l1_miss_buffer'[c][s] = v
  <2>1. l1_miss_buffer \in [Cores -> [Sources -> Misses]]
    BY DEF Typed
  <2> QED
    BY <2>1
<1>1. ASSUME NEW d \in Cores, NEW z \in Sources, NEW k \in Nat
      PROVE  /\ Waiter(l1_miss_buffer'[d][z], k) <=> Waiter(l1_miss_buffer[d][z], k)
             /\ Passed(d, z, k) => Gone(l1_miss_buffer'[d][z], k)
  <2>1. Passed(d, z, k) => Gone(l1_miss_buffer[d][z], k)
    BY DEF Passed
  <2>2. CASE d = c /\ z = s
    <3>1. /\ Waiter(v, k) <=> Waiter(l1_miss_buffer[c][s], k)
          /\ k # x /\ Gone(l1_miss_buffer[c][s], k) => Gone(v, k)
      BY Zenon DEF EntersAs
    <3> QED
      BY <1>0, <2>1, <2>2, <3>1, Zenon
  <2>3. CASE ~ (d = c /\ z = s)
    <3>1. l1_miss_buffer'[d][z] = l1_miss_buffer[d][z]
      BY <2>3, OneBuffer
    <3> QED
      BY <2>1, <3>1, Zenon
  <2> QED
    BY <2>2, <2>3
<1>2. ASSUME NEW d \in Cores, NEW z \in Sources
      PROVE  DoneAfterL2(l1_miss_buffer[d][z]) => DoneAfterL2(l1_miss_buffer'[d][z])
  <2>1. CASE d = c /\ z = s
    BY <1>0, <2>1, Zenon DEF EntersAs
  <2>2. CASE ~ (d = c /\ z = s)
    <3>1. l1_miss_buffer'[d][z] = l1_miss_buffer[d][z]
      BY <2>2, OneBuffer
    <3> QED
      BY <3>1, Zenon
  <2> QED
    BY <2>1, <2>2
<1> QED
  BY <1>1, <1>2, L1StillIf

LEMMA InstructionsKept ==
  ASSUME Typed, InstructionsOnce,
         \A c \in Cores : /\ l1_miss_buffer'[c]["I"] = l1_miss_buffer[c]["I"]
                          /\ asked'[c]["I"] = asked[c]["I"]
  PROVE  InstructionsOnce'
BY Zenon DEF InstructionsOnce

LEMMA SearchL1Waits ==
  ASSUME Typed, InstructionsOnce, SearchL1
  PROVE  L1Still
<1>. PICK r : r = Request(at)
  OBVIOUS
<1>1. /\ Ahead(at, "D") /\ Taken(at, "D")
      /\ dcache_hit(at, r) \/ dcache_miss(at, r)
      /\ UNCHANGED dtlb_miss_buffer
  BY DEF SearchL1
<1>2. /\ at \in Cores /\ "D" \in Sources /\ "I" \in Sources /\ "I" # "D"
      /\ asked \in [Cores -> [Sources -> Nat]]
  BY DEF Typed, Sources
<1>3. r.id = asked[at]["D"] /\ r.id \in Nat /\ r.line \in Lines /\ r.write \in BOOLEAN
  BY <1>1, <1>2, RequestTyped
<1>4. PICK v \in Misses :
        /\ EntersAs(l1_miss_buffer[at]["D"], v, r.id)
        /\ l1_miss_buffer' = [l1_miss_buffer EXCEPT
                                ![at] = [l1_miss_buffer[at] EXCEPT !["D"] = v]]
  BY <1>1, <1>2, <1>3, EnteredWaits, Zenon
<1>5. /\ asked'[at]["D"] = asked[at]["D"] + 1
      /\ \A d \in Cores, t \in Sources : ~ (d = at /\ t = "D") => asked'[d][t] = asked[d][t]
  BY <1>1, <1>2, TakenKeeps
<1>6. InstructionsOnce'
  <2>1. \A c \in Cores : l1_miss_buffer'[c]["I"] = l1_miss_buffer[c]["I"]
    BY <1>2, <1>4, OneBuffer
  <2>2. \A c \in Cores : asked'[c]["I"] = asked[c]["I"]
    BY <1>2, <1>5
  <2> QED
    BY <2>1, <2>2, InstructionsKept
<1>7. ~ Passed(at, "D", r.id)
  BY <1>2, <1>3 DEF Passed
<1>8. \A d \in Cores, k \in Nat :
        /\ Passed(d, "D", k) => k < asked'[d]["D"] /\ NoWalk(dtlb_miss_buffer'[d], k)
        /\ Passed(d, "I", k) => k <= asked'[d]["I"]
  <2> TAKE d \in Cores, k \in Nat
  <2>1. asked[d]["D"] \in Nat /\ asked'[d]["I"] = asked[d]["I"]
        /\ (asked'[d]["D"] = asked[d]["D"] \/ asked'[d]["D"] = asked[d]["D"] + 1)
    BY <1>2, <1>5
  <2>2. k < asked[d]["D"] => k < asked'[d]["D"]
    BY <2>1
  <2> QED
    BY <1>1, <2>1, <2>2 DEF Passed
<1> QED
  BY <1>2, <1>4, <1>6, <1>7, <1>8, EntersStill

LEMMA DtlbMissWaits ==
  ASSUME Typed, InstructionsOnce, DTLB_MISS
  PROVE  L1Still
<1>. PICK r, w : r = Request(at) /\ w = dtlb_miss_buffer[at]
  OBVIOUS
<1>1. Ahead(at, "D") /\ Taken(at, "D") /\ UNCHANGED l1_miss_buffer
  BY DEF DTLB_MISS
<1>2. /\ at \in Cores /\ "D" \in Sources /\ "I" \in Sources /\ "I" # "D"
      /\ asked \in [Cores -> [Sources -> Nat]]
      /\ dtlb_miss_buffer \in [Cores -> Walks] /\ w \in Walks
  BY DEF Typed, Sources
<1>3. r.id = asked[at]["D"] /\ r.id \in Nat /\ r.line \in Lines /\ r.write \in BOOLEAN
  BY <1>1, <1>2, RequestTyped
<1>4. PICK cycles \in WalkCycles :
        dtlb_miss_buffer' = [dtlb_miss_buffer EXCEPT ![at] =
          Append(w, [id |-> r.id, line |-> r.line, write |-> r.write,
                     wait |-> cycles])]
  BY DEF DTLB_MISS
<1>5. PICK e : e = [id |-> r.id, line |-> r.line, write |-> r.write, wait |-> cycles]
  OBVIOUS
<1>6. e \in Walk /\ e.id = asked[at]["D"]
  <2>1. cycles \in Int
    BY CachesAssumption
  <2> QED
    BY <1>3, <1>5, <2>1 DEF Walk
<1>7. /\ asked'[at]["D"] = asked[at]["D"] + 1
      /\ \A d \in Cores, t \in Sources : ~ (d = at /\ t = "D") => asked'[d][t] = asked[d][t]
  BY <1>1, <1>2, TakenKeeps
<1>8. InstructionsOnce'
  BY <1>1, <1>2, <1>7, InstructionsKept
<1>9. ASSUME NEW d \in Cores, NEW k \in Nat, Passed(d, "D", k)
      PROVE  k < asked'[d]["D"] /\ NoWalk(dtlb_miss_buffer'[d], k)
  <2>1. k < asked[d]["D"] /\ NoWalk(dtlb_miss_buffer[d], k) /\ asked[d]["D"] \in Nat
    BY <1>2, <1>9 DEF Passed
  <2>2. CASE d = at
    <3>1. dtlb_miss_buffer'[d] = Append(w, e)
      BY <1>2, <1>4, <1>5, <2>2
    <3>2. e.id # k
      BY <1>6, <2>1, <2>2
    <3>3. NoWalk(Append(w, e), k)
      <4>1. NoWalk(w, k)
        BY <2>1, <2>2
      <4> QED
        BY <1>2, <1>6, <3>2, <4>1, WalkAdded
    <3>4. k < asked'[d]["D"]
      BY <1>7, <2>1, <2>2
    <3> QED
      BY <3>1, <3>3, <3>4, Zenon
  <2>3. CASE d # at
    <3>1. dtlb_miss_buffer'[d] = dtlb_miss_buffer[d] /\ asked'[d]["D"] = asked[d]["D"]
      BY <1>2, <1>4, <1>7, <2>3
    <3> QED
      BY <2>1, <3>1, Zenon
  <2> QED
    BY <2>2, <2>3
<1>10. \A d \in Cores, k \in Nat : Passed(d, "I", k) => k <= asked'[d]["I"]
  BY <1>2, <1>7 DEF Passed
<1>11. \A c \in Cores, s \in Sources, k \in Nat :
           /\ Waiter(l1_miss_buffer'[c][s], k) <=> Waiter(l1_miss_buffer[c][s], k)
           /\ Passed(c, s, k) => Gone(l1_miss_buffer'[c][s], k)
  BY <1>1 DEF Passed
<1>12. \A c \in Cores, s \in Sources :
           DoneAfterL2(l1_miss_buffer[c][s]) => DoneAfterL2(l1_miss_buffer'[c][s])
  BY <1>1
<1> QED
  BY <1>8, <1>9, <1>10, <1>11, <1>12, L1StillIf

LEMMA DtlbUpdateWaits ==
  ASSUME Typed, InstructionsOnce, dtlb_mshr_update
  PROVE  L1Still
<1>. PICK i, w, r : i = Min(WalksOver(at)) /\ w = dtlb_miss_buffer[at] /\ r = w[i]
  OBVIOUS
<1>1. /\ WalksOver(at) # {}
      /\ UNCHANGED asked
      /\ \/ /\ dcache_hit(at, r) \/ dcache_miss(at, r)
            /\ dtlb_miss_buffer' = [dtlb_miss_buffer EXCEPT ![at] = RemoveAt(w, i)]
         \/ UNCHANGED <<l1_miss_buffer, dtlb_miss_buffer>>
  BY DEF dtlb_mshr_update
<1>2. /\ at \in Cores /\ "D" \in Sources /\ "I" \in Sources /\ "I" # "D"
      /\ dtlb_miss_buffer \in [Cores -> Walks] /\ w \in Walks
  BY DEF Typed, Sources
<1>3. CASE UNCHANGED <<l1_miss_buffer, dtlb_miss_buffer>>
  BY <1>1, <1>3, L1Unchanged
<1>4. CASE /\ dcache_hit(at, r) \/ dcache_miss(at, r)
           /\ dtlb_miss_buffer' = [dtlb_miss_buffer EXCEPT ![at] = RemoveAt(w, i)]
  <2>1. i \in DOMAIN w
    <3>1. WalksOver(at) \subseteq DOMAIN w /\ w \in Seq(Walk)
      BY <1>2 DEF WalksOver, Walks
    <3> QED
      BY <1>1, <3>1, FirstIndex
  <2>2. r \in Walk
    BY <1>2, <2>1, ElementsTyped DEF Walks
  <2>3. r.id \in Nat /\ r.line \in Lines /\ r.write \in BOOLEAN
    BY <2>2 DEF Walk
  <2>4. PICK v \in Misses :
          /\ EntersAs(l1_miss_buffer[at]["D"], v, r.id)
          /\ l1_miss_buffer' = [l1_miss_buffer EXCEPT
                                  ![at] = [l1_miss_buffer[at] EXCEPT !["D"] = v]]
    <3>1. dcache_hit(at, r) \/ dcache_miss(at, r)
      BY <1>4, Zenon
    <3> QED
      BY <1>2, <2>3, <3>1, EnteredWaits, Zenon
  <2>5. InstructionsOnce'
    <3>1. \A c \in Cores : l1_miss_buffer'[c]["I"] = l1_miss_buffer[c]["I"]
      BY <1>2, <2>4, OneBuffer
    <3> QED
      BY <1>1, <3>1, InstructionsKept
  <2>6. ~ Passed(at, "D", r.id)
    <3>1. AtWalk(w, i, r.id)
      BY <2>1 DEF AtWalk
    <3> QED
      BY <3>1, Zenon DEF Passed, NoWalk
  <2>7. ASSUME NEW d \in Cores, NEW k \in Nat
        PROVE  /\ Passed(d, "D", k) => k < asked'[d]["D"] /\ NoWalk(dtlb_miss_buffer'[d], k)
               /\ Passed(d, "I", k) => k <= asked'[d]["I"]
    <3>1. NoWalk(dtlb_miss_buffer[d], k) => NoWalk(dtlb_miss_buffer'[d], k)
      <4>1. CASE d = at
        <5>1. dtlb_miss_buffer'[d] = RemoveAt(w, i)
          BY <1>2, <1>4, <4>1
        <5>2. NoWalk(w, k) => NoWalk(RemoveAt(w, i), k)
          BY <1>2, <2>1, WalkRemoved
        <5> QED
          BY <4>1, <5>1, <5>2, Zenon
      <4>2. CASE d # at
        <5>1. dtlb_miss_buffer'[d] = dtlb_miss_buffer[d]
          BY <1>2, <1>4, <4>2
        <5> QED
          BY <5>1, Zenon
      <4> QED
        BY <4>1, <4>2
    <3> QED
      BY <1>1, <3>1 DEF Passed
  <2> QED
    BY <1>2, <2>4, <2>5, <2>6, <2>7, EntersStill
<1> QED
  BY <1>1, <1>3, <1>4

LEMMA FetchInstWaits ==
  ASSUME Typed, InstructionsOnce, FetchInst
  PROVE  L1Still
<1>. PICK n, line, m :
       /\ n = asked[at]["I"] + 1 /\ line = work["I"][at][n]
       /\ m = l1_miss_buffer[at]["I"]
  OBVIOUS
<1>1. /\ Ahead(at, "I") /\ Taken(at, "I")
      /\ UNCHANGED dtlb_miss_buffer
      /\ \/ UNCHANGED l1_miss_buffer
         \/ l1_miss_buffer' = [l1_miss_buffer EXCEPT ![at]["I"] =
              Append(m, [id |-> n, line |-> line, write |-> FALSE, at1 |-> L1_HIT,
                         done |-> Off, dest |-> <<>>])]
  BY DEF FetchInst
<1>2. /\ at \in Cores
      /\ l1_miss_buffer \in [Cores -> [Sources -> Misses]]
      /\ asked \in [Cores -> [Sources -> Nat]]
      /\ "I" \in Sources /\ "D" \in Sources /\ "I" # "D"
  BY DEF Typed, Sources
<1>3. /\ asked'[at]["I"] = n /\ n \in Nat
      /\ \A d \in Cores, t \in Sources : ~ (d = at /\ t = "I") => asked'[d][t] = asked[d][t]
  <2>1. /\ asked'[at]["I"] = asked[at]["I"] + 1
        /\ \A d \in Cores, t \in Sources : ~ (d = at /\ t = "I") => asked'[d][t] = asked[d][t]
    BY <1>1, <1>2, TakenKeeps
  <2> QED
    BY <1>2, <2>1
<1>4. \A d \in Cores, k \in Nat :
        /\ Passed(d, "D", k) => k < asked'[d]["D"] /\ NoWalk(dtlb_miss_buffer'[d], k)
        /\ Passed(d, "I", k) => k <= asked'[d]["I"]
  <2> TAKE d \in Cores, k \in Nat
  <2>1. /\ asked[d]["I"] \in Nat /\ asked'[d]["D"] = asked[d]["D"]
        /\ (asked'[d]["I"] = asked[d]["I"] \/ asked'[d]["I"] = asked[d]["I"] + 1)
    BY <1>2, <1>3
  <2>2. k <= asked[d]["I"] => k <= asked'[d]["I"]
    BY <2>1
  <2> QED
    BY <1>1, <2>1, <2>2 DEF Passed
<1>5. m \in Misses /\ Instructions(m, asked[at]["I"])
  BY <1>2 DEF InstructionsOnce
<1>6. \A i \in DOMAIN m : m[i].id \in Nat /\ m[i].id < n
  <2>0. \A i \in DOMAIN m : m[i] \in Miss
    BY <1>5, ElementsTyped DEF Misses
  <2>1. \A i \in DOMAIN m : m[i].id \in Nat
    BY <2>0 DEF Miss
  <2>2. asked[at]["I"] \in Nat
    BY <1>2
  <2> QED
    BY <1>5, <2>1, <2>2 DEF Instructions
<1>7. ASSUME NEW v, Instructions(v, n),
             l1_miss_buffer' = [l1_miss_buffer EXCEPT
                                  ![at] = [l1_miss_buffer[at] EXCEPT !["I"] = v]]
      PROVE  InstructionsOnce'
  <2> SUFFICES ASSUME NEW d \in Cores
               PROVE  Instructions(l1_miss_buffer'[d]["I"], asked'[d]["I"])
    BY DEF InstructionsOnce
  <2>1. CASE d = at
    <3>1. l1_miss_buffer'[d]["I"] = v
      BY <1>2, <1>7, <2>1
    <3> QED
      BY <1>3, <1>7, <2>1, <3>1, Zenon
  <2>2. CASE d # at
    <3>1. l1_miss_buffer'[d]["I"] = l1_miss_buffer[d]["I"] /\ asked'[d]["I"] = asked[d]["I"]
      BY <1>2, <1>3, <1>7, <2>2
    <3> QED
      BY <3>1, Zenon DEF InstructionsOnce
  <2> QED
    BY <2>1, <2>2
<1>8. ~ Passed(at, "I", n)
  <2>1. ~ (n <= asked[at]["I"])
    BY <1>2
  <2> QED
    BY <2>1 DEF Passed
<1>9. CASE UNCHANGED l1_miss_buffer
  <2>1. Instructions(m, n)
    <3>1. \A i \in DOMAIN m : m[i].id <= n
      BY <1>3, <1>6
    <3> QED
      BY <1>5, <3>1, Zenon DEF Instructions
  <2>2. l1_miss_buffer' = [l1_miss_buffer EXCEPT
                            ![at] = [l1_miss_buffer[at] EXCEPT !["I"] = m]]
    BY <1>2, <1>9
  <2>3. InstructionsOnce'
    BY <1>7, <2>1, <2>2
  <2>4. EntersAs(l1_miss_buffer[at]["I"], m, n)
    BY SameWaitersItself, SameEnters
  <2> QED
    BY <1>2, <1>4, <1>8, <2>2, <2>3, <2>4, EntersStill
<1>10. CASE ~ UNCHANGED l1_miss_buffer
  <2>1. PICK e : e = [id |-> n, line |-> line, write |-> FALSE, at1 |-> L1_HIT,
                      done |-> Off, dest |-> <<>>]
    OBVIOUS
  <2>2. line \in Lines
    <3>1. PICK s : s = work["I"][at]
      OBVIOUS
    <3>2. s \in Seq(Lines)
      BY <1>2, <3>1, InstructionsTyped
    <3>3. asked[at]["I"] \in Nat /\ asked[at]["I"] < Len(s)
      BY <1>1, <1>2, <3>1 DEF Ahead
    <3>4. n \in DOMAIN s
      BY <3>2, <3>3
    <3>5. s[n] \in Lines
      BY <3>2, <3>4, ElementsTyped
    <3> QED
      BY <3>1, <3>5
  <2>3. e \in Miss /\ e.id = n /\ e.at1 # Off /\ e.done = Off
    <3>1. L1_HIT \in Int /\ Off \in Int /\ <<>> \in Seq(Nat) /\ L1_HIT # Off
      BY CachesAssumption DEF Off
    <3> QED
      BY <1>3, <2>1, <2>2, <3>1 DEF Miss
  <2>4. PICK v : v = Append(m, e)
    OBVIOUS
  <2>5. l1_miss_buffer' = [l1_miss_buffer EXCEPT
                            ![at] = [l1_miss_buffer[at] EXCEPT !["I"] = v]]
    BY <1>1, <1>10, <2>1, <2>4
  <2>6. EntersAs(l1_miss_buffer[at]["I"], v, n)
    BY <1>5, <2>3, <2>4, WaitersAppended
  <2>7. Instructions(v, n)
    <3>1. PICK l : l = Len(m)
      OBVIOUS
    <3>2. /\ DOMAIN v = 1 .. l + 1 /\ DOMAIN m = 1 .. l /\ l \in Nat
          /\ v[l + 1] = e /\ \A i \in DOMAIN m : v[i] = m[i]
      BY <1>5, <2>3, <2>4, <3>1, Appended DEF Misses
    <3>3. \A i \in DOMAIN v : i \in DOMAIN m \/ i = l + 1
      BY <3>2
    <3>4. \A i \in DOMAIN v : v[i].id <= n
      BY <1>3, <1>6, <2>3, <3>2, <3>3
    <3>5. ASSUME NEW i \in DOMAIN v, NEW j \in DOMAIN v, v[i].id = v[j].id
          PROVE  i = j
      <4>1. \A x \in DOMAIN m : m[x].id # n
        BY <1>3, <1>6
      <4>2. CASE i \in DOMAIN m /\ j \in DOMAIN m
        BY <1>5, <3>2, <3>5, <4>2 DEF Instructions, IdsOnce
      <4>3. CASE i = l + 1 \/ j = l + 1
        BY <2>3, <3>2, <3>3, <3>5, <4>1, <4>3
      <4> QED
        BY <3>3, <4>2, <4>3
    <3> QED
      BY <3>4, <3>5 DEF Instructions, IdsOnce
  <2>8. InstructionsOnce'
    BY <1>7, <2>5, <2>7
  <2> QED
    BY <1>2, <1>4, <1>8, <2>5, <2>6, <2>8, EntersStill
<1> QED
  BY <1>9, <1>10

\* A cycle passes.
LEMMA SoonerOff == \A x \in Int : Sooner(x) = Off <=> x = Off
BY DEF Sooner, Off

LEMMA TickWaits ==
  ASSUME Typed, InstructionsOnce, Tick
  PROVE  L1Still
<1>1. UNCHANGED asked
  BY DEF Tick, askVars
<1>2. ASSUME NEW c \in Cores, NEW s \in Sources
      PROVE  /\ SameIds(l1_miss_buffer[c][s], l1_miss_buffer'[c][s])
             /\ SameWaiters(l1_miss_buffer[c][s], l1_miss_buffer'[c][s])
  <2>. PICK b, t : b = l1_miss_buffer[c][s] /\ t = l1_miss_buffer'[c][s]
    OBVIOUS
  <2>1. b \in Misses
    BY DEF Typed
  <2>2. /\ DOMAIN t = DOMAIN b
        /\ \A i \in DOMAIN b :
             t[i] = [b[i] EXCEPT !.at1 = Sooner(@), !.done = Sooner(@)]
    BY Zenon DEF Tick
  <2>3. ASSUME NEW i \in DOMAIN b
        PROVE  /\ t[i].id = b[i].id
               /\ t[i].at1 = Off <=> b[i].at1 = Off
               /\ t[i].done = Off <=> b[i].done = Off
    <3>1. b[i] \in Miss
      BY <2>1, ElementsTyped DEF Misses
    <3>. PICK f : f = b[i]
      OBVIOUS
    <3>. PICK x, y : x = Sooner(f.at1) /\ y = Sooner(f.done)
      OBVIOUS
    <3>2. f \in Miss /\ t[i] = [f EXCEPT !.at1 = x, !.done = y]
      BY <2>2, <3>1, Zenon
    <3>3. t[i].id = f.id /\ t[i].at1 = x /\ t[i].done = y /\ f.at1 \in Int /\ f.done \in Int
      BY <3>2 DEF Miss
    <3> QED
      BY <3>3, SoonerOff, Zenon
  <2>4. SameWaiters(b, t)
    <3>0. DOMAIN t = DOMAIN b
      BY <2>2
    <3>1. DoneAfterL2(b) => DoneAfterL2(t)
      BY <2>3, <3>0, Zenon DEF DoneAfterL2
    <3>2. \A k \in Nat : /\ Waiter(t, k) <=> Waiter(b, k)
                         /\ Gone(b, k) => Gone(t, k)
      BY <2>3, <3>0, Zenon DEF Waiter, Gone
    <3> QED
      BY <3>1, <3>2, Zenon DEF SameWaiters
  <2>5. SameIds(b, t)
    BY <2>2, <2>3, Zenon DEF SameIds
  <2> QED
    BY <2>4, <2>5
<1>3. ASSUME NEW c \in Cores
      PROVE  SameIds(dtlb_miss_buffer[c], dtlb_miss_buffer'[c])
  <2>. PICK b, t : b = dtlb_miss_buffer[c] /\ t = dtlb_miss_buffer'[c]
    OBVIOUS
  <2>1. b \in Walks
    BY DEF Typed
  <2>2. /\ t = [i \in DOMAIN b |-> t[i]]
        /\ DOMAIN t = DOMAIN b
        /\ \A i \in DOMAIN b : t[i] = [b[i] EXCEPT !.wait = Sooner(@)]
    BY Zenon DEF Tick
  <2> QED
    BY <2>1, <2>2, WalkSooner, Zenon
<1>4. InstructionsOnce'
  <2> SUFFICES ASSUME NEW c \in Cores
               PROVE  Instructions(l1_miss_buffer'[c]["I"], asked'[c]["I"])
    BY DEF InstructionsOnce
  <2>1. Instructions(l1_miss_buffer[c]["I"], asked[c]["I"])
    BY DEF InstructionsOnce
  <2>2. SameIds(l1_miss_buffer[c]["I"], l1_miss_buffer'[c]["I"])
    BY <1>2 DEF Sources
  <2>. PICK m, v : m = l1_miss_buffer[c]["I"] /\ v = l1_miss_buffer'[c]["I"]
    OBVIOUS
  <2>3. Instructions(v, asked[c]["I"])
    BY <2>1, <2>2 DEF Instructions, IdsOnce, SameIds
  <2> QED
    BY <1>1, <2>3
<1>5. ASSUME NEW c \in Cores, NEW k \in Nat
      PROVE  /\ Passed(c, "D", k) => k < asked'[c]["D"] /\ NoWalk(dtlb_miss_buffer'[c], k)
             /\ Passed(c, "I", k) => k <= asked'[c]["I"]
  <2>1. NoWalk(dtlb_miss_buffer[c], k) => NoWalk(dtlb_miss_buffer'[c], k)
    BY <1>3, WalksKept
  <2> QED
    BY <1>1, <2>1 DEF Passed
<1>6. \A c \in Cores, s \in Sources, k \in Nat :
        /\ Waiter(l1_miss_buffer'[c][s], k) <=> Waiter(l1_miss_buffer[c][s], k)
        /\ Passed(c, s, k) => Gone(l1_miss_buffer'[c][s], k)
  BY <1>2, Zenon DEF SameWaiters, Passed
<1>7. \A c \in Cores, s \in Sources :
        DoneAfterL2(l1_miss_buffer[c][s]) => DoneAfterL2(l1_miss_buffer'[c][s])
  BY <1>2, Zenon DEF SameWaiters
<1> QED
  BY <1>4, <1>5, <1>6, <1>7, L1StillIf

LEMMA RemoveFromL2Turns ==
  ASSUME Typed, L2InOrder, RemoveFromL2
  PROVE  L2Still
<1>. PICK i, b : i = Min(Due(l2_miss_buffer[at], pos)) /\ b = l2_miss_buffer[at]
  OBVIOUS
<1>1. /\ Due(b, pos) # {}
      /\ l2_miss_buffer' = [l2_miss_buffer EXCEPT ![at] = RemoveAt(@, i)]
  BY DEF RemoveFromL2
<1>2. /\ at \in Cores /\ pos \in Nat \ {0}
      /\ l2_miss_buffer \in [Cores -> Seq(MissL2)] /\ b \in Seq(MissL2)
  BY DEF Typed
<1>3. i \in DOMAIN b /\ b[i].done # Off
  <2>1. Due(b, pos) \subseteq DOMAIN b
    BY <1>2 DEF Due
  <2>2. i \in Due(b, pos) /\ i \in DOMAIN b
    BY <1>1, <1>2, <2>1, FirstIndex
  <2> QED
    BY <2>2 DEF Due, Off
<1>4. Ordered(b)
  BY <1>2 DEF L2InOrder
<1>5. Ordered(RemoveAt(b, i)) /\ SameTurns(b, RemoveAt(b, i))
  BY <1>2, <1>3, <1>4, TurnsRemoved
<1>6. ASSUME NEW c \in Cores
      PROVE  /\ Ordered(l2_miss_buffer'[c])
             /\ SameTurns(l2_miss_buffer[c], l2_miss_buffer'[c])
  <2>1. CASE c = at
    <3>1. l2_miss_buffer'[c] = RemoveAt(b, i)
      BY <1>1, <1>2, <2>1
    <3> QED
      BY <1>5, <2>1, <3>1, Zenon
  <2>2. CASE c # at
    <3>1. l2_miss_buffer'[c] = l2_miss_buffer[c]
      BY <1>1, <1>2, <2>2
    <3> QED
      BY <3>1, SameTurnsItself, Zenon DEF L2InOrder
  <2> QED
    BY <2>1, <2>2
<1> QED
  BY <1>6, L2StillIf

LEMMA TickTurns ==
  ASSUME Typed, L2InOrder, Tick
  PROVE  L2Still
<1>1. ASSUME NEW c \in Cores
      PROVE  /\ Ordered(l2_miss_buffer'[c])
             /\ SameTurns(l2_miss_buffer[c], l2_miss_buffer'[c])
  <2>. PICK b, t : b = l2_miss_buffer[c] /\ t = l2_miss_buffer'[c]
    OBVIOUS
  <2>1. b \in Seq(MissL2) /\ Ordered(b)
    BY DEF Typed, L2InOrder
  <2>2. /\ DOMAIN t = DOMAIN b
        /\ \A i \in DOMAIN b :
             t[i] = [b[i] EXCEPT !.at2 = Sooner(@), !.done = Sooner(@)]
    BY Zenon DEF Tick
  <2>3. ASSUME NEW i \in DOMAIN b
        PROVE  /\ t[i].src = b[i].src /\ t[i].id = b[i].id
               /\ t[i].at2 = Sooner(b[i].at2) /\ t[i].done = Sooner(b[i].done)
    <3>1. b[i] \in MissL2
      BY <2>1, ElementsTyped
    <3>. PICK f : f = b[i]
      OBVIOUS
    <3>. PICK x, y : x = Sooner(f.at2) /\ y = Sooner(f.done)
      OBVIOUS
    <3>2. f \in MissL2 /\ t[i] = [f EXCEPT !.at2 = x, !.done = y]
      BY <2>2, <3>1, Zenon
    <3>3. t[i].src = f.src /\ t[i].id = f.id /\ t[i].at2 = x /\ t[i].done = y
      BY <3>2 DEF MissL2
    <3> QED
      BY <3>3, Zenon
  <2>4. Ordered(t) /\ SameTurns(b, t)
    BY <2>1, <2>2, <2>3, TurnsSooner, Zenon
  <2> QED
    BY <2>4
<1> QED
  BY <1>1, L2StillIf

\* update_l3_mshr leaves out no miss of L3 that is completed.
NoneLeftOut ==
  stage \notin {"memory", "caches", "dtlb", "llc", "l3"} =>
    \A i \in DOMAIN l3_miss_buffer : l3_miss_buffer[i].done = Off

LEMMA RequestsItself ==
  ASSUME NEW b, NEW st, NEW sv, Gathering(sv) <=> Gathering(st)
  PROVE  SameRequests(b, st, b, sv)
BY DEF SameRequests, Open, Opens

LEMMA L3Unchanged ==
  ASSUME OneEach(l3_miss_buffer), L3Done, UNCHANGED l3_miss_buffer,
         Gathering(stage') <=> Gathering(stage)
  PROVE  L3Still
<1>1. SameRequests(l3_miss_buffer, stage, l3_miss_buffer, stage')
  BY RequestsItself
<1>2. SameRequests(l3_miss_buffer, stage, l3_miss_buffer', stage')
  BY <1>1
<1>3. L3Done' /\ OneEach(l3_miss_buffer')
  BY DEF L3Done
<1> QED
  BY <1>2, <1>3, L3StillIf

LEMMA NextStage ==
  ASSUME NEW same, NEW next, NextCore(same, next)
  PROVE  stage' = same \/ stage' = next
BY DEF NextCore, Goto

\* The steps that leave the buffer alone, within the part of the cycle they are in.
LEMMA QuietL3 ==
  ASSUME OneEach(l3_miss_buffer), L3Done,
         \/ UNCHANGED vars
         \/ \E t \in at_memory : MemoryReplies(t)
         \/ EndMemory \/ dtlb_mshr_update \/ NoWalkOver \/ EndL3
         \/ ForwardHit \/ ForwardNextCore \/ EndForward
         \/ AccessL2 \/ EndAccessL2 \/ RemoveFromL2 \/ EndL2
         \/ FillIcache \/ NoIcacheFill \/ RemoveFromL1 \/ EndL1
         \/ NoFetch \/ PortTaken \/ NoSearch \/ FetchInst \/ SearchL1 \/ DTLB_MISS
  PROVE  L3Still
<1>1. CASE UNCHANGED vars \/ \E t \in at_memory : MemoryReplies(t)
  <2>1. UNCHANGED <<l3_miss_buffer, stage>>
    BY <1>1 DEF vars, missVars, MemoryReplies
  <2> QED
    BY <2>1, L3Unchanged
<1>2. CASE EndMemory
  <2>1. UNCHANGED l3_miss_buffer /\ stage = "memory" /\ stage' = "caches"
    BY <1>2 DEF EndMemory, missVars, Goto
  <2> QED
    BY <2>1, L3Unchanged DEF Gathering
<1>3. CASE dtlb_mshr_update \/ NoWalkOver
  <2>1. UNCHANGED l3_miss_buffer /\ stage = "dtlb" /\ NextCore("dtlb", "llc")
    BY <1>3 DEF dtlb_mshr_update, NoWalkOver, missVars
  <2> QED
    BY <2>1, NextStage, L3Unchanged DEF Gathering
<1>4. CASE EndL3
  <2>1. UNCHANGED l3_miss_buffer /\ stage = "l3" /\ stage' = "forward"
    BY <1>4 DEF EndL3, missVars, Goto
  <2> QED
    BY <2>1, L3Unchanged DEF Gathering
<1>5. CASE ForwardHit \/ ForwardNextCore \/ AccessL2 \/ RemoveFromL2 \/ RemoveFromL1
  <2>1. UNCHANGED <<l3_miss_buffer, stage>>
    BY <1>5 DEF ForwardHit, ForwardNextCore, AccessL2, RemoveFromL2, RemoveFromL1, missVars
  <2> QED
    BY <2>1, L3Unchanged
<1>6. CASE EndForward
  <2>1. UNCHANGED l3_miss_buffer /\ stage = "forward" /\ stage' = "l2"
    BY <1>6 DEF EndForward, missVars, Goto
  <2> QED
    BY <2>1, L3Unchanged DEF Gathering
<1>7. CASE EndAccessL2 \/ EndL2
  <2>1. /\ UNCHANGED l3_miss_buffer /\ stage \in {"l2", "l2 fill"}
        /\ stage' \in {"l2 fill", "icache"}
    BY <1>7 DEF EndAccessL2, EndL2, missVars, SameCore
  <2> QED
    BY <2>1, L3Unchanged DEF Gathering
<1>8. CASE FillIcache \/ NoIcacheFill
  <2>1. UNCHANGED l3_miss_buffer /\ stage = "icache" /\ stage' = "dcache"
    BY <1>8 DEF FillIcache, NoIcacheFill, missVars, SameCore
  <2> QED
    BY <2>1, L3Unchanged DEF Gathering
<1>9. CASE EndL1
  <2>1. UNCHANGED l3_miss_buffer /\ stage = "dcache" /\ NextCore("l2", "fetch")
    BY <1>9 DEF EndL1, missVars
  <2> QED
    BY <2>1, NextStage, L3Unchanged DEF Gathering
<1>10. CASE NoFetch \/ FetchInst
  <2>1. UNCHANGED l3_miss_buffer /\ stage = "fetch" /\ stage' = "search"
    BY <1>10 DEF NoFetch, FetchInst, missVars, SameCore
  <2> QED
    BY <2>1, L3Unchanged DEF Gathering
<1>11. CASE PortTaken \/ NoSearch \/ SearchL1 \/ DTLB_MISS
  <2>1. UNCHANGED l3_miss_buffer /\ stage = "search" /\ NextCore("fetch", "end")
    BY <1>11 DEF PortTaken, NoSearch, SearchL1, DTLB_MISS, missVars
  <2> QED
    BY <2>1, NextStage, L3Unchanged DEF Gathering
<1> QED
  BY <1>1, <1>2, <1>3, <1>4, <1>5, <1>6, <1>7, <1>8, <1>9, <1>10, <1>11

\* The cycle begins with no completed miss in L3.
LEMMA BeginL3 ==
  ASSUME OneEach(l3_miss_buffer), L3Done, NoneLeftOut, Begin
  PROVE  L3Still
<1>1. UNCHANGED l3_miss_buffer /\ stage = "start" /\ stage' = "memory"
  BY DEF Begin, missVars, Goto
<1>2. \A i \in DOMAIN l3_miss_buffer : l3_miss_buffer[i].done = Off
  BY <1>1 DEF NoneLeftOut
<1>3. Gathering(stage')
  BY <1>1 DEF Gathering
<1>4. SameRequests(l3_miss_buffer, stage, l3_miss_buffer, stage')
  BY <1>2, <1>3, Zenon DEF SameRequests, Open, Opens
<1>5. SameRequests(l3_miss_buffer, stage, l3_miss_buffer', stage')
  BY <1>1, <1>4
<1>6. L3Done' /\ OneEach(l3_miss_buffer')
  BY <1>1 DEF L3Done
<1> QED
  BY <1>5, <1>6, L3StillIf

\* Entries are edited, and stay open or not.
SameEntry(e, f) ==
  First(f) = First(e) /\ Merged(f) = Merged(e)

LEMMA L3Edited ==
  ASSUME OneEach(l3_miss_buffer),
         NEW v, l3_miss_buffer' = v, DOMAIN v = DOMAIN l3_miss_buffer,
         \A i \in DOMAIN l3_miss_buffer :
           /\ SameEntry(l3_miss_buffer[i], v[i])
           /\ v[i].done \in {Off, 0}
           /\ v[i].done = Off \/ Gathering(stage')
                <=> l3_miss_buffer[i].done = Off \/ Gathering(stage)
  PROVE  L3Still
<1>. PICK b, st, sv : b = l3_miss_buffer /\ st = stage /\ sv = stage'
  OBVIOUS
<1>1. /\ DOMAIN v = DOMAIN b /\ OneEach(b)
      /\ \A i \in DOMAIN b : /\ First(v[i]) = First(b[i])
                             /\ Merged(v[i]) = Merged(b[i])
                             /\ v[i].done = Off \/ Gathering(sv)
                                  <=> b[i].done = Off \/ Gathering(st)
  BY DEF SameEntry
<1>2. \A i \in DOMAIN b, t \in Asking : Knows(v[i], t) <=> Knows(b[i], t)
  BY <1>1, Zenon DEF Knows
<1>3. OneEach(v)
  BY <1>1, <1>2, Zenon DEF OneEach
<1>4. SameRequests(b, st, v, sv)
  BY <1>1, <1>2, Zenon DEF SameRequests, Known, Open, Opens
<1>5. L3Done'
  BY DEF L3Done
<1> QED
  BY <1>3, <1>4, <1>5, L3StillIf

LEMMA DoneSame ==
  ASSUME NEW e \in MissL3, NEW x \in Int, NEW y \in Int
  PROVE  /\ SameEntry(e, [e EXCEPT !.done = y]) /\ [e EXCEPT !.done = y].done = y
         /\ SameEntry(e, [e EXCEPT !.at3 = x]) /\ [e EXCEPT !.at3 = x].done = e.done
         /\ SameEntry(e, [e EXCEPT !.at3 = x, !.done = y])
         /\ [e EXCEPT !.at3 = x, !.done = y].done = y
BY DEF MissL3, SameEntry, First, Merged

LEMMA MemoryCompletesL3 ==
  ASSUME BehindTyped, OneEach(l3_miss_buffer), L3Done, MemoryCompletes
  PROVE  L3Still
<1>. PICK t, b : t = memory_completion_queue[pos] /\ b = l3_miss_buffer
  OBVIOUS
<1>1. b \in Seq(MissL3)
  BY DEF BehindTyped
<1>2. stage = "memory" /\ UNCHANGED stage
  BY DEF MemoryCompletes
<1>3. CASE UNCHANGED l3_miss_buffer
  BY <1>2, <1>3, L3Unchanged
<1>4. CASE ~ UNCHANGED l3_miss_buffer
  <2>. PICK i : i = Min(Answers(t))
    OBVIOUS
  <2>1. Answers(t) # {} /\ l3_miss_buffer' = [b EXCEPT ![i].done = 0]
    BY <1>4 DEF MemoryCompletes
  <2>2. i \in DOMAIN b
    <3>1. Answers(t) \subseteq DOMAIN b
      BY DEF Answers
    <3> QED
      BY <1>1, <2>1, <3>1, FirstIndex
  <2>3. b[i] \in MissL3
    BY <1>1, <2>2, ElementsTyped
  <2>. PICK e : e = b[i]
    OBVIOUS
  <2>. PICK f : f = [e EXCEPT !.done = 0]
    OBVIOUS
  <2>4. SameEntry(e, f) /\ f.done = 0
    <3>1. e \in MissL3 /\ 0 \in Int
      BY <2>3
    <3> QED
      BY <3>1 DEF MissL3, SameEntry, First, Merged
  <2>. PICK v : v = [b EXCEPT ![i] = f]
    OBVIOUS
  <2>5. l3_miss_buffer' = v
    BY <2>1
  <2>6. DOMAIN v = DOMAIN b /\ v[i] = f /\ \A j \in DOMAIN b : j # i => v[j] = b[j]
    BY <2>2
  <2>7. Gathering(stage) /\ Gathering(stage')
    BY <1>2 DEF Gathering
  <2>8. ASSUME NEW j \in DOMAIN b
        PROVE  SameEntry(b[j], v[j]) /\ v[j].done \in {Off, 0}
    <3>1. CASE j = i
      BY <2>4, <2>6, <3>1
    <3>2. CASE j # i
      BY <2>6, <3>2 DEF L3Done, SameEntry
    <3> QED
      BY <3>1, <3>2
  <2> QED
    BY <2>5, <2>6, <2>7, <2>8, L3Edited
<1> QED
  BY <1>3, <1>4

LEMMA LLCL3 ==
  ASSUME BehindTyped, OneEach(l3_miss_buffer), L3Done, LLC_to_memory
  PROVE  L3Still
<1>. PICK b, sent : b = l3_miss_buffer /\ sent = {i \in DOMAIN b : b[i].at3 = 0}
  OBVIOUS
<1>. PICK v : v = l3_miss_buffer'
  OBVIOUS
<1>1. /\ v = [i \in DOMAIN b |->
           IF i \in sent THEN [b[i] EXCEPT !.at3 = Off] ELSE b[i]]
      /\ stage = "llc" /\ stage' = "l3"
  BY DEF LLC_to_memory, Goto
<1>2. b \in Seq(MissL3) /\ Off \in Int
  BY DEF BehindTyped, Off
<1>3. ASSUME NEW i \in DOMAIN b
      PROVE  SameEntry(b[i], v[i]) /\ v[i].done = b[i].done
  <2>. PICK f : f = b[i]
    OBVIOUS
  <2>1. v[i] = f \/ v[i] = [f EXCEPT !.at3 = Off]
    BY <1>1, Zenon
  <2>2. f \in MissL3
    BY <1>2, ElementsTyped
  <2>3. SameEntry(f, [f EXCEPT !.at3 = Off]) /\ [f EXCEPT !.at3 = Off].done = f.done
    BY <1>2, <2>2, DoneSame, Zenon
  <2>4. SameEntry(f, f)
    BY DEF SameEntry
  <2> QED
    BY <2>1, <2>3, <2>4, Zenon
<1>4. DOMAIN v = DOMAIN b
  BY <1>1, Zenon
<1>5. ~ Gathering(stage) /\ ~ Gathering(stage')
  BY <1>1 DEF Gathering
<1>6. \A i \in DOMAIN b : v[i].done \in {Off, 0}
  BY <1>3 DEF L3Done
<1> QED
  BY <1>3, <1>4, <1>5, <1>6, L3Edited

LEMMA TickL3 ==
  ASSUME BehindTyped, OneEach(l3_miss_buffer), L3Done, Tick
  PROVE  L3Still
<1>. PICK b, v : b = l3_miss_buffer /\ v = l3_miss_buffer'
  OBVIOUS
<1>1. /\ v = [i \in DOMAIN b |-> [b[i] EXCEPT !.at3 = Sooner(@), !.done = Sooner(@)]]
      /\ stage = "end" /\ stage' = "start"
  BY DEF Tick, Goto
<1>2. b \in Seq(MissL3)
  BY DEF BehindTyped
<1>3. ASSUME NEW i \in DOMAIN b
      PROVE  SameEntry(b[i], v[i]) /\ v[i].done = b[i].done
  <2>. PICK f : f = b[i]
    OBVIOUS
  <2>1. f \in MissL3
    BY <1>2, ElementsTyped
  <2>. PICK x, y : x = Sooner(f.at3) /\ y = Sooner(f.done)
    OBVIOUS
  <2>2. x \in Int /\ y \in Int /\ y = f.done
    <3>1. f.at3 \in Int /\ f.done \in Int
      BY <2>1 DEF MissL3
    <3>2. f.done \in {Off, 0}
      BY DEF L3Done
    <3>3. y = f.done
      BY <3>2 DEF Off, Sooner
    <3> QED
      BY <3>1, <3>3, SoonerInt
  <2>3. v[i] = [f EXCEPT !.at3 = x, !.done = y]
    BY <1>1, Zenon
  <2>4. SameEntry(f, [f EXCEPT !.at3 = x, !.done = y]) /\ [f EXCEPT !.at3 = x, !.done = y].done = y
    BY <2>1, <2>2 DEF MissL3, SameEntry, First, Merged
  <2> QED
    BY <2>2, <2>3, <2>4, Zenon
<1>4. DOMAIN v = DOMAIN b
  BY <1>1, Zenon
<1>5. ~ Gathering(stage) /\ ~ Gathering(stage')
  BY <1>1 DEF Gathering
<1>6. \A i \in DOMAIN b : v[i].done \in {Off, 0}
  BY <1>3 DEF L3Done
<1> QED
  BY <1>3, <1>4, <1>5, <1>6, L3Edited

LEMMA RemoveFromL3Requests ==
  ASSUME Typed, BehindTyped, OneEach(l3_miss_buffer), L3Done, RemoveFromL3
  PROVE  L3Still
<1>. PICK b, i : b = l3_miss_buffer /\ i = Min(Due(b, pos))
  OBVIOUS
<1>. PICK v : v = RemoveAt(b, i)
  OBVIOUS
<1>1. /\ l3_miss_buffer' = v /\ Due(b, pos) # {}
      /\ stage = "l3" /\ UNCHANGED stage
  BY DEF RemoveFromL3
<1>2. b \in Seq(MissL3) /\ pos \in Nat \ {0}
  BY DEF BehindTyped, Typed
<1>3. i \in DOMAIN b /\ b[i].done # Off
  <2>1. Due(b, pos) \subseteq DOMAIN b
    BY <1>2 DEF Due
  <2>2. i \in Due(b, pos) /\ i \in DOMAIN b
    BY <1>1, <1>2, <2>1, FirstIndex
  <2> QED
    BY <2>2 DEF Due, Off
<1>4. ~ Gathering(stage)
  BY <1>1 DEF Gathering
<1>5. OneEach(v) /\ SameRequests(b, stage, v, stage)
  BY <1>2, <1>3, <1>4, RequestsRemoved
<1>6. L3Done'
  <2> SUFFICES ASSUME NEW j \in DOMAIN v
               PROVE  v[j].done \in {Off, 0}
    BY <1>1 DEF L3Done
  <2>1. \E k \in DOMAIN b : v[j] = b[k]
    <3>1. /\ Len(b) \in Nat /\ i \in 1 .. Len(b) /\ DOMAIN b = 1 .. Len(b)
          /\ DOMAIN v = 1 .. Len(b) - 1 /\ v[j] = b[Back(i, j)]
      BY <1>2, <1>3, Removed
    <3>2. Back(i, j) \in DOMAIN b
      BY <3>1 DEF Back
    <3> QED
      BY <3>1, <3>2
  <2> QED
    BY <2>1 DEF L3Done
<1>7. OneEach(l3_miss_buffer') /\ SameRequests(l3_miss_buffer, stage, l3_miss_buffer', stage')
  BY <1>1, <1>5
<1> QED
  BY <1>6, <1>7, L3StillIf

-------------------------------------------------------------------------------
(***************************************************************************)
(* A miss of L1 goes to L2.                                                *)
(***************************************************************************)
\* Nothing but n has the number k.
OnlyAt(m, n, k) == \A j \in DOMAIN m : m[j].id = k => j = n

\* A miss that is in L1 is there once, and its core has asked for it.
LEMMA MissOnce ==
  ASSUME Typed, Kept, InstructionsOnce, NEW c \in Cores, NEW s \in Sources,
         NEW i \in DOMAIN l1_miss_buffer[c][s]
  PROVE  /\ OnlyAt(l1_miss_buffer[c][s], i, l1_miss_buffer[c][s][i].id)
         /\ s = "D" => /\ l1_miss_buffer[c][s][i].id < asked[c]["D"]
                       /\ NoWalk(dtlb_miss_buffer[c], l1_miss_buffer[c][s][i].id)
         /\ s = "I" => l1_miss_buffer[c][s][i].id <= asked[c]["I"]
<1>. PICK m, k : m = l1_miss_buffer[c][s] /\ k = m[i].id
  OBVIOUS
<1>1. CASE s = "I"
  <2>1. Instructions(m, asked[c]["I"])
    BY <1>1 DEF InstructionsOnce
  <2> QED
    BY <1>1, <2>1 DEF Instructions, IdsOnce, OnlyAt
<1>2. CASE s = "D"
  <2>1. /\ KeptIn(dtlb_miss_buffer[c], m, answered[c], TakenIds(c))
        /\ asked[c]["D"] \in Nat
    BY <1>2 DEF Kept, Typed, Sources
  <2>2. k \in Nat
    <3>1. m \in Misses
      BY DEF Typed
    <3>2. m[i] \in Miss
      BY <3>1, ElementsTyped DEF Misses
    <3> QED
      BY <3>2 DEF Miss
  <2>3. AtMiss(m, i, k)
    BY DEF AtMiss
  <2>4. ~ NoMiss(m, k)
    BY <2>3, Zenon DEF NoMiss
  <2>5. k \in TakenIds(c) /\ One(dtlb_miss_buffer[c], m, answered[c], k)
    BY <2>1, <2>2, <2>4, Zenon DEF KeptIn, None
  <2>6. NoWalk(dtlb_miss_buffer[c], k) /\ OneMiss(m, k)
    BY <2>4, <2>5, Zenon DEF One
  <2>7. PICK n : AtMiss(m, n, k) /\ \A l : AtMiss(m, l, k) => l = n
    BY <2>3, <2>6, Zenon DEF OneMiss
  <2>8. \A j \in DOMAIN m : m[j].id = k => j = i
    BY <2>3, <2>7, Zenon DEF AtMiss
  <2>9. k < asked[c]["D"]
    BY <2>1, <2>5 DEF TakenIds
  <2> QED
    BY <1>2, <2>6, <2>8, <2>9 DEF OnlyAt
<1> QED
  BY <1>1, <1>2 DEF Sources

\* A miss goes to L2, and waits: k of m, which becomes v.
SentIn(m, v, k) ==
  /\ DoneAfterL2(v) /\ Gone(v, k) /\ SameIds(m, v) /\ ~ Gone(m, k)
  /\ \A x \in Nat : /\ Waiter(v, x) <=> Waiter(m, x) \/ x = k
                    /\ Gone(m, x) => Gone(v, x)

LEMMA WaitersSent ==
  ASSUME NEW m, NEW v, NEW n \in DOMAIN m, NEW k, k = m[n].id, OnlyAt(m, n, k),
         Edited(m, v, n), v[n].id = k, v[n].at1 = Off, v[n].done = Off,
         m[n].at1 # Off, DoneAfterL2(m)
  PROVE  SentIn(m, v, k)
<1>. PICK f : f = v[n]
  OBVIOUS
<1>1. /\ DOMAIN v = DOMAIN m /\ v[n] = f
      /\ \A i \in DOMAIN m : i # n => v[i] = m[i]
  BY DEF Edited
<1>2. DoneAfterL2(v)
  BY <1>1 DEF DoneAfterL2
<1>3. Gone(v, k)
  BY <1>1 DEF Gone, OnlyAt
<1>4. SameIds(m, v)
  BY <1>1 DEF SameIds
<1>5. ~ Gone(m, k)
  BY DEF Gone
<1>6. ASSUME NEW x \in Nat
      PROVE  Waiter(v, x) <=> Waiter(m, x) \/ x = k
  <2>1. CASE x = k
    BY <1>1, <2>1 DEF Waiter
  <2>2. CASE x # k
    <3>1. \A i \in DOMAIN m : i = n => m[i].id = k /\ v[i].id = k
      BY <1>1
    <3> QED
      BY <1>1, <2>2, <3>1 DEF Waiter
  <2> QED
    BY <2>1, <2>2
<1>7. ASSUME NEW x \in Nat, Gone(m, x)
      PROVE  Gone(v, x)
  BY <1>1, <1>7 DEF Gone
<1> QED
  BY <1>2, <1>3, <1>4, <1>5, <1>6, <1>7 DEF SentIn

LEMMA InstructionsSame ==
  ASSUME NEW m, NEW v, NEW n, SameIds(m, v), Instructions(m, n)
  PROVE  Instructions(v, n)
BY DEF SameIds, Instructions, IdsOnce

\* L1 and L2 give a turn to the miss of source s of core c with number k.
SentToL2(c, s, k) ==
  \A d \in Cores, z \in Sources, x \in Nat :
    /\ Passed(d, z, x) => Passed(d, z, x)'
    /\ WaitsAt(d, z, x)' <=> WaitsAt(d, z, x) \/ <<d, z, x>> = <<c, s, k>>
    /\ TurnAt(d, z, x)' <=> TurnAt(d, z, x) \/ <<d, z, x>> = <<c, s, k>>
    /\ FreshAt(d, z, x) => FreshAt(d, z, x)'

\* The chain when a miss of source s and number k goes to L2.
LEMMA ChainSent ==
  ASSUME ChainInv, L3Still, NEW c \in Cores, NEW s \in Sources, NEW k \in Nat,
         ~ Passed(c, s, k), Passed(c, s, k)',
         InstructionsOnce', L1Done', L2InOrder', SentToL2(c, s, k)
  PROVE  ChainInv'
<1>0. \A d \in Cores, z \in Sources, x \in Nat :
        /\ Passed(d, z, x) => Passed(d, z, x)'
        /\ WaitsAt(d, z, x)' <=> WaitsAt(d, z, x) \/ <<d, z, x>> = <<c, s, k>>
        /\ TurnAt(d, z, x)' <=> TurnAt(d, z, x) \/ <<d, z, x>> = <<c, s, k>>
        /\ FreshAt(d, z, x) => FreshAt(d, z, x)'
  BY DEF SentToL2
<1>1. ASSUME NEW d \in Cores, NEW z \in Sources, NEW x \in Nat
      PROVE  Chained(d, z, x)'
  <2>1. Chained(d, z, x)
    BY DEF ChainInv
  <2>2. /\ KnownAt(d, z, x)' => KnownAt(d, z, x)
        /\ OpenAt(d, z, x)' <=> OpenAt(d, z, x)
        /\ OpensAt(d, z, x)' => OpensAt(d, z, x)
    BY DEF L3Still
  <2>3. TurnAt(d, z, x)' => Passed(d, z, x)' /\ WaitsAt(d, z, x)' /\ ~ KnownAt(d, z, x)'
    <3>1. CASE <<d, z, x>> = <<c, s, k>>
      <4>1. d = c /\ z = s /\ x = k
        BY <3>1
      <4> QED
        BY <1>0, <2>1, <2>2, <4>1 DEF Chained
    <3>2. CASE <<d, z, x>> # <<c, s, k>>
      BY <1>0, <2>1, <2>2, <3>2 DEF Chained
    <3> QED
      BY <3>1, <3>2
  <2>4. OpenAt(d, z, x)' /\ ~ FreshAt(d, z, x)' =>
          \A y \in Sources : y # z => Passed(d, y, x)' /\ ~ TurnAt(d, y, x)'
    <3> SUFFICES ASSUME OpenAt(d, z, x)', ~ FreshAt(d, z, x)', NEW y \in Sources, y # z
                 PROVE  Passed(d, y, x)' /\ ~ TurnAt(d, y, x)'
      OBVIOUS
    <3>1. Passed(d, y, x) /\ ~ TurnAt(d, y, x)
      BY <1>0, <2>1, <2>2 DEF Chained
    <3>2. <<d, y, x>> # <<c, s, k>>
      BY <3>1
    <3> QED
      BY <1>0, <3>1, <3>2
  <2> QED
    BY <1>0, <2>1, <2>2, <2>3, <2>4 DEF Chained
<1> QED
  BY <1>1 DEF ChainInv, L3Still

\* One buffer of L1 changes: all of them, as those conditions see them.
LEMMA OneBufferOrdered ==
  ASSUME Typed, InstructionsOnce, L1Done, UNCHANGED asked,
         NEW c \in Cores, NEW s \in Sources, NEW v,
         l1_miss_buffer' = [l1_miss_buffer EXCEPT ![c] = [l1_miss_buffer[c] EXCEPT ![s] = v]],
         SameIds(l1_miss_buffer[c][s], v), DoneAfterL2(v)
  PROVE  InstructionsOnce' /\ L1Done'
<1>1. l1_miss_buffer'[c][s] = v
  <2>1. l1_miss_buffer \in [Cores -> [Sources -> Misses]]
    BY DEF Typed
  <2> QED
    BY <2>1
<1>2. \A d \in Cores, z \in Sources :
        ~ (d = c /\ z = s) => l1_miss_buffer'[d][z] = l1_miss_buffer[d][z]
  BY OneBuffer
<1>3. InstructionsOnce'
  <2> SUFFICES ASSUME NEW d \in Cores
               PROVE  Instructions(l1_miss_buffer'[d]["I"], asked'[d]["I"])
    BY DEF InstructionsOnce
  <2>0. "I" \in Sources /\ Instructions(l1_miss_buffer[d]["I"], asked[d]["I"])
    BY DEF Sources, InstructionsOnce
  <2>1. CASE d = c /\ s = "I"
    <3>1. Instructions(v, asked[d]["I"])
      BY <2>0, <2>1, InstructionsSame
    <3> QED
      BY <1>1, <2>1, <3>1, Zenon
  <2>2. CASE ~ (d = c /\ s = "I")
    BY <1>2, <2>0, <2>2, Zenon
  <2> QED
    BY <2>1, <2>2
<1>4. L1Done'
  <2> SUFFICES ASSUME NEW d \in Cores, NEW z \in Sources
               PROVE  DoneAfterL2(l1_miss_buffer'[d][z])
    BY DEF L1Done
  <2>1. CASE d = c /\ z = s
    BY <1>1, <2>1, Zenon
  <2>2. CASE ~ (d = c /\ z = s)
    <3>1. DoneAfterL2(l1_miss_buffer[d][z])
      BY DEF L1Done
    <3> QED
      BY <1>2, <2>2, <3>1, Zenon
  <2> QED
    BY <2>1, <2>2
<1> QED
  BY <1>3, <1>4

\* L1 gives a turn to the first that waits: a hit answers it, or it goes to L2.
LEMMA AccessL2Chain ==
  ASSUME Typed, Kept, ChainInv, AccessL2
  PROVE  ChainInv'
<1>. PICK c : c = at
  OBVIOUS
<1>. PICK s, i : s = Turn(c) /\ i = Min(L1Waiting(c, s))
  OBVIOUS
<1>. PICK m : m = l1_miss_buffer[c][s]
  OBVIOUS
<1>0. s \in Sources
  BY DEF Turn, Sources
<1>1. UNCHANGED <<asked, dtlb_miss_buffer>>
  BY DEF AccessL2, askVars
<1>2. /\ c \in Cores
      /\ l1_miss_buffer \in [Cores -> [Sources -> Misses]]
      /\ l2_miss_buffer \in [Cores -> Seq(MissL2)]
      /\ m \in Misses /\ Off \in Int
  BY <1>0 DEF Typed, Off
<1>3. /\ InstructionsOnce /\ L1Done /\ L2InOrder
      /\ L3Still
  BY QuietL3 DEF ChainInv
<1>4. CASE L1Waiting(c, s) = {}
  <2>1. UNCHANGED <<l1_miss_buffer, l2_miss_buffer>>
    BY <1>4 DEF AccessL2
  <2> QED
    BY <1>1, <1>3, <2>1, L1Unchanged, L2Unchanged, ChainStill
<1>5. ASSUME L1Waiting(c, s) # {}
      PROVE  ChainInv'
  <2>1. i \in DOMAIN m /\ m[i].at1 = 0
    <3>1. m \in Seq(Miss) /\ L1Waiting(c, s) \subseteq DOMAIN m
      BY <1>2 DEF L1Waiting, Misses
    <3>2. i \in L1Waiting(c, s) /\ i \in DOMAIN m
      BY <1>5, <3>1, FirstIndex
    <3> QED
      BY <3>2 DEF L1Waiting
  <2>2. m[i] \in Miss
    BY <1>2, <2>1, ElementsTyped DEF Misses
  <2>. PICK e, k : e = m[i] /\ k = e.id
    OBVIOUS
  <2>3. /\ OnlyAt(m, i, k)
        /\ s = "D" => k < asked[c]["D"] /\ NoWalk(dtlb_miss_buffer[c], k)
        /\ s = "I" => k <= asked[c]["I"]
    BY <1>0, <1>2, <1>3, <2>1, MissOnce
  <2>4. e.at1 # Off /\ e.done = Off /\ k \in Nat /\ DoneAfterL2(m)
    <3>1. e.at1 # Off
      BY <2>1 DEF Off
    <3>2. DoneAfterL2(m)
      BY <1>0, <1>2, <1>3 DEF L1Done
    <3> QED
      BY <2>1, <2>2, <3>1, <3>2 DEF DoneAfterL2, Miss
  <2>5. CASE Hit(l2s[c], e.line)
    <3>0. L2_HIT \in Nat \ {0}
      BY CachesAssumption, Zenon
    <3>. PICK f : f = [e EXCEPT !.at1 = Off, !.done = L2_HIT]
      OBVIOUS
    <3>1. f \in Miss /\ f.id = e.id /\ f.at1 = Off /\ f.done = L2_HIT /\ L2_HIT # Off
      <4>1. L2_HIT \in Int /\ L2_HIT # Off
        BY <3>0 DEF Off
      <4>2. f \in Miss /\ f.id = e.id /\ f.at1 = Off /\ f.done = L2_HIT
        BY <1>2, <2>2, <4>1 DEF Miss
      <4> QED
        BY <4>1, <4>2
    <3>. PICK v : v = [m EXCEPT ![i] = f]
      OBVIOUS
    <3>2. /\ l1_miss_buffer' = [l1_miss_buffer EXCEPT ![c][s][i] =
                    [@ EXCEPT !.at1 = Off, !.done = L2_HIT]]
          /\ UNCHANGED l2_miss_buffer
      BY <1>5, <2>5 DEF AccessL2
    <3>3. l1_miss_buffer' = [l1_miss_buffer EXCEPT
                              ![c] = [l1_miss_buffer[c] EXCEPT ![s] = v]]
      BY <3>2, <1>0, <1>2
    <3>4. SameWaiters(l1_miss_buffer[c][s], v)
      <4>1. /\ f.id = m[i].id /\ (m[i].at1 = Off => f.at1 = Off)
            /\ (f.at1 # Off /\ m[i].done = Off => f.done = Off)
            /\ (f.at1 = Off /\ f.done = Off <=> m[i].at1 = Off /\ m[i].done = Off)
        BY <2>4, <3>1
      <4>2. SameWaiters(m, [m EXCEPT ![i] = f])
        BY <1>2, <2>1, <3>1, <4>1, WaitersWithEntry
      <4> QED
        BY <4>2
    <3>5. s = "I" => Instructions(v, asked[c]["I"])
      <4>1. SameIds(m, v)
        BY <3>1 DEF SameIds
      <4> QED
        BY <1>2, <1>3, <4>1, InstructionsSame DEF InstructionsOnce
    <3>6. L1Still
      BY <1>0, <1>1, <1>2, <1>3, <3>3, <3>4, <3>5, OneBufferStill
    <3> QED
      BY <1>3, <3>2, <3>6, L2Unchanged, ChainStill
  <2>6. CASE ~ Hit(l2s[c], e.line)
    <3>. PICK f : f = [e EXCEPT !.at1 = Off]
      OBVIOUS
    <3>1. f \in Miss /\ f.id = k /\ f.at1 = Off /\ f.done = Off
      BY <1>2, <2>2, <2>4 DEF Miss
    <3>. PICK v : v = [m EXCEPT ![i] = f]
      OBVIOUS
    <3>. PICK g : g = [src |-> s, id |-> e.id, line |-> e.line,
                       write |-> e.write, at2 |-> L2_HIT, done |-> Off]
      OBVIOUS
    <3>2. /\ l1_miss_buffer' = [l1_miss_buffer EXCEPT ![c][s][i].at1 = Off]
          /\ l2_miss_buffer' = [l2_miss_buffer EXCEPT ![c] = Append(@, g)]
      BY <1>5, <2>6 DEF AccessL2
    <3>3. l1_miss_buffer' = [l1_miss_buffer EXCEPT
                              ![c] = [l1_miss_buffer[c] EXCEPT ![s] = v]]
      BY <3>2, <1>0, <1>2
    <3>15. k = m[i].id /\ m[i].at1 # Off /\ f.id = k
      BY <2>4, <3>1
    <3>4. /\ DoneAfterL2(v) /\ Gone(v, k) /\ SameIds(m, v) /\ ~ Gone(m, k)
          /\ \A x \in Nat : /\ Waiter(v, x) <=> Waiter(m, x) \/ x = k
                            /\ Gone(m, x) => Gone(v, x)
      <4>1. /\ i \in DOMAIN m /\ k = m[i].id /\ OnlyAt(m, i, k)
            /\ v[i].id = k /\ v[i].at1 = Off /\ v[i].done = Off
            /\ m[i].at1 # Off /\ DoneAfterL2(m)
        BY <2>1, <2>3, <2>4, <3>1, <3>15
      <4>2. Edited(m, v, i)
        BY DEF Edited
      <4>3. SentIn(m, v, k)
        BY <4>1, <4>2, WaitersSent, Zenon
      <4> QED
        BY <4>3, Zenon DEF SentIn
    <3>5. InstructionsOnce' /\ L1Done'
      BY <1>0, <1>1, <1>2, <1>3, <3>3, <3>4, OneBufferOrdered
    <3>6. /\ l1_miss_buffer'[c][s] = v
          /\ \A d \in Cores, z \in Sources :
               ~ (d = c /\ z = s) => l1_miss_buffer'[d][z] = l1_miss_buffer[d][z]
      BY <1>0, <1>2, <3>3
    <3>7. ~ Passed(c, s, k) /\ Passed(c, s, k)'
      <4>1. ~ Passed(c, s, k)
        BY <3>4 DEF Passed
      <4>2. Passed(c, s, k)'
        <5>1. Gone(l1_miss_buffer'[c][s], k)
          BY <3>4, <3>6, Zenon
        <5>2. /\ s = "D" => k < asked'[c]["D"] /\ NoWalk(dtlb_miss_buffer'[c], k)
              /\ s = "I" => k <= asked'[c]["I"]
          BY <1>1, <2>3
        <5> QED
          BY <5>1, <5>2 DEF Passed
      <4> QED
        BY <4>1, <4>2
    <3>8. ASSUME NEW d \in Cores, NEW z \in Sources, NEW x \in Nat
          PROVE  /\ Passed(d, z, x) => Passed(d, z, x)'
                 /\ WaitsAt(d, z, x)' <=> WaitsAt(d, z, x) \/ <<d, z, x>> = <<c, s, k>>
      <4>1. CASE d = c /\ z = s
        <5>1. l1_miss_buffer'[d][z] = v /\ l1_miss_buffer[d][z] = m
          BY <3>6, <4>1
        <5>2. Passed(d, z, x) => Passed(d, z, x)'
          BY <1>1, <3>4, <5>1 DEF Passed
        <5>3. WaitsAt(d, z, x)' <=> WaitsAt(d, z, x) \/ x = k
          BY <3>4, <5>1 DEF WaitsAt
        <5> QED
          BY <4>1, <5>2, <5>3
      <4>2. CASE ~ (d = c /\ z = s)
        <5>1. l1_miss_buffer'[d][z] = l1_miss_buffer[d][z]
          BY <3>6, <4>2
        <5>2. Passed(d, z, x) => Passed(d, z, x)'
          BY <1>1, <5>1 DEF Passed
        <5>3. WaitsAt(d, z, x)' <=> WaitsAt(d, z, x)
          BY <5>1 DEF WaitsAt
        <5>4. <<d, z, x>> # <<c, s, k>>
          BY <4>2
        <5> QED
          BY <5>2, <5>3, <5>4
      <4> QED
        BY <4>1, <4>2
    <3>9. ~ TurnAt(c, s, k)
      BY <1>0, <1>2, <2>4, <3>7 DEF ChainInv, Chained
    <3>. PICK b : b = l2_miss_buffer[c]
      OBVIOUS
    <3>10. g \in MissL2 /\ g.at2 = L2_HIT /\ g.done = Off /\ g.src = s /\ g.id = k
      <4>1. /\ e.id \in Nat /\ e.line \in Lines /\ e.write \in BOOLEAN /\ L2_HIT \in Int
        BY <2>2, CachesAssumption DEF Miss
      <4> QED
        BY <1>0, <1>2, <4>1 DEF MissL2
    <3>11. /\ Ordered(Append(b, g))
           /\ \A z \in Sources, x \in Nat :
                /\ Live(Append(b, g), z, x) <=> Live(b, z, x) \/ (z = s /\ x = k)
                /\ Fresh(b, z, x) => Fresh(Append(b, g), z, x)
      <4>1. b \in Seq(MissL2) /\ Ordered(b) /\ ~ Live(b, g.src, g.id)
        BY <1>2, <1>3, <3>9, <3>10 DEF L2InOrder, TurnAt
      <4> QED
        BY <3>10, <4>1, TurnsAppended
    <3>12. ASSUME NEW d \in Cores, NEW z \in Sources, NEW x \in Nat
           PROVE  /\ TurnAt(d, z, x)' <=> TurnAt(d, z, x) \/ <<d, z, x>> = <<c, s, k>>
                  /\ FreshAt(d, z, x) => FreshAt(d, z, x)'
      <4>1. CASE d = c
        <5>1. l2_miss_buffer'[d] = Append(b, g) /\ l2_miss_buffer[d] = b
          BY <1>2, <3>2, <4>1
        <5>2. <<d, z, x>> = <<c, s, k>> <=> z = s /\ x = k
          BY <4>1
        <5>3. TurnAt(d, z, x)' <=> TurnAt(d, z, x) \/ (z = s /\ x = k)
          BY <3>11, <5>1 DEF TurnAt
        <5>4. FreshAt(d, z, x) => FreshAt(d, z, x)'
          BY <3>11, <5>1 DEF FreshAt
        <5> QED
          BY <5>2, <5>3, <5>4
      <4>2. CASE d # c
        <5>1. l2_miss_buffer'[d] = l2_miss_buffer[d] /\ <<d, z, x>> # <<c, s, k>>
          BY <1>2, <3>2, <4>2
        <5> QED
          BY <5>1 DEF TurnAt, FreshAt
      <4> QED
        BY <4>1, <4>2
    <3>13. L2InOrder'
      <4> SUFFICES ASSUME NEW d \in Cores PROVE Ordered(l2_miss_buffer'[d])
        BY DEF L2InOrder
      <4>1. l2_miss_buffer'[d] = Append(b, g) \/ l2_miss_buffer'[d] = l2_miss_buffer[d]
        BY <1>2, <3>2
      <4>2. Ordered(l2_miss_buffer[d])
        BY <1>3 DEF L2InOrder
      <4> QED
        BY <3>11, <4>1, <4>2, Zenon
    <3>14. SentToL2(c, s, k)
      BY <3>8, <3>12 DEF SentToL2
    <3> QED
      BY <1>0, <1>2, <1>3, <2>4, <3>5, <3>7, <3>13, <3>14, ChainSent
  <2> QED
    BY <2>5, <2>6
<1> QED
  BY <1>4, <1>5

-------------------------------------------------------------------------------
(***************************************************************************)
(* A miss of L2 goes to L3.                                                *)
(***************************************************************************)
\* The miss of source s of core c with number k has its turn in L2.
HasTurn(c, s, k) ==
  \A d \in Cores, z \in Sources, x \in Nat :
    /\ TurnAt(d, z, x)' <=> TurnAt(d, z, x) /\ <<d, z, x>> # <<c, s, k>>
    /\ FreshAt(d, z, x) /\ <<d, z, x>> # <<c, s, k>> => FreshAt(d, z, x)'
StaysFresh(c, s, k) ==
  /\ FreshAt(c, s, k)'
  /\ \A d \in Cores, z \in Sources, x \in Nat : FreshAt(d, z, x) => FreshAt(d, z, x)'

\* The search of L2 takes the first of those whose time has come.
LEMMA FirstWaiting ==
  ASSUME Typed, Waiting # {}, NEW c, c = core, NEW i, i = Min(Waiting)
  PROVE  /\ c \in Cores /\ i \in DOMAIN l2_miss_buffer[c]
         /\ l2_miss_buffer[c] \in Seq(MissL2) /\ l2_miss_buffer[c][i] \in MissL2
         /\ FirstDue(l2_miss_buffer[c], i)
<1>. PICK b : b = l2_miss_buffer[c]
  OBVIOUS
<1>1. c \in Cores /\ b \in Seq(MissL2)
  BY DEF Typed
<1>2. Waiting = {j \in DOMAIN b : b[j].at2 = 0}
  BY DEF Waiting
<1>3. Waiting \in SUBSET Nat
  BY <1>1, <1>2
<1>4. i \in Waiting /\ \A u \in Waiting : i <= u
  BY <1>3, FirstOf
<1>5. i \in DOMAIN b /\ FirstDue(b, i)
  BY <1>2, <1>4 DEF FirstDue
<1>6. b[i] \in MissL2
  BY <1>1, <1>5, ElementsTyped
<1> QED
  BY <1>1, <1>5, <1>6

LEMMA TurnTaken ==
  ASSUME Typed, L2InOrder, Waiting # {}, NEW c, c = core, NEW i, i = Min(Waiting),
         NEW s, NEW k, s = l2_miss_buffer[c][i].src, k = l2_miss_buffer[c][i].id,
         NEW f, f.src = s, f.id = k, f.at2 = Off,
         l2_miss_buffer' = [l2_miss_buffer EXCEPT ![c] = [l2_miss_buffer[c] EXCEPT ![i] = f]]
  PROVE  /\ s \in Sources /\ k \in Nat /\ TurnAt(c, s, k)
         /\ L2InOrder' /\ HasTurn(c, s, k)
         /\ f.done = Off => StaysFresh(c, s, k)
<1>. PICK b : b = l2_miss_buffer[c]
  OBVIOUS
<1>1. /\ c \in Cores /\ i \in DOMAIN b /\ b \in Seq(MissL2) /\ b[i] \in MissL2
      /\ FirstDue(b, i)
  BY FirstWaiting
<1>2. s \in Sources /\ k \in Nat
  BY <1>1 DEF MissL2
<1>3. TurnAt(c, s, k)
  <2>1. b[i].at2 # Off
    BY <1>1 DEF FirstDue, Off
  <2> QED
    BY <1>1, <2>1 DEF TurnAt, Live
<1>. PICK v : v = [b EXCEPT ![i] = f]
  OBVIOUS
<1>4. v[i] = f /\ Edited(b, v, i)
  BY <1>1 DEF Edited
<1>5. Ordered(b)
  BY <1>1 DEF L2InOrder
<1>6. /\ Ordered(v) /\ TakenFrom(b, v, b[i].src, b[i].id)
      /\ v[i].done = Off => FreshKept(b, v, b[i].src, b[i].id)
  <2>1. v[i].src = b[i].src /\ v[i].id = b[i].id /\ v[i].at2 = Off
    BY <1>4
  <2> QED
    BY <1>1, <1>4, <1>5, <2>1, TurnsTaken
<1>7. /\ Ordered(v) /\ TakenFrom(b, v, s, k)
      /\ f.done = Off => FreshKept(b, v, s, k)
  BY <1>4, <1>6
<1>8. /\ l2_miss_buffer'[c] = v
      /\ \A d \in Cores : d # c => l2_miss_buffer'[d] = l2_miss_buffer[d]
  BY <1>1 DEF Typed
<1>9. L2InOrder'
  <2> SUFFICES ASSUME NEW d \in Cores PROVE Ordered(l2_miss_buffer'[d])
    BY DEF L2InOrder
  <2>1. Ordered(l2_miss_buffer[d])
    BY DEF L2InOrder
  <2> QED
    BY <1>7, <1>8, <2>1, Zenon
<1>10. ASSUME NEW d \in Cores, NEW z \in Sources, NEW x \in Nat
       PROVE  /\ TurnAt(d, z, x)' <=> TurnAt(d, z, x) /\ <<d, z, x>> # <<c, s, k>>
              /\ FreshAt(d, z, x) /\ <<d, z, x>> # <<c, s, k>> => FreshAt(d, z, x)'
              /\ f.done = Off => (FreshAt(d, z, x) => FreshAt(d, z, x)')
  <2>1. CASE d = c
    <3>1. l2_miss_buffer'[d] = v /\ l2_miss_buffer[d] = b
      BY <1>8, <2>1
    <3>2. <<d, z, x>> = <<c, s, k>> <=> z = s /\ x = k
      BY <2>1
    <3>3. TurnAt(d, z, x)' <=> TurnAt(d, z, x) /\ ~ (z = s /\ x = k)
      BY <1>7, <3>1 DEF TurnAt, TakenFrom
    <3>4. FreshAt(d, z, x) /\ ~ (z = s /\ x = k) => FreshAt(d, z, x)'
      BY <1>7, <3>1 DEF FreshAt, TakenFrom
    <3>5. f.done = Off => (FreshAt(d, z, x) => FreshAt(d, z, x)')
      BY <1>7, <3>1 DEF FreshAt, FreshKept
    <3> QED
      BY <3>2, <3>3, <3>4, <3>5
  <2>2. CASE d # c
    <3>1. l2_miss_buffer'[d] = l2_miss_buffer[d] /\ <<d, z, x>> # <<c, s, k>>
      BY <1>8, <2>2
    <3> QED
      BY <3>1 DEF TurnAt, FreshAt
  <2> QED
    BY <2>1, <2>2
<1>11. HasTurn(c, s, k)
  BY <1>10 DEF HasTurn
<1>12. ASSUME f.done = Off PROVE StaysFresh(c, s, k)
  <2>1. FreshAt(c, s, k)'
    BY <1>7, <1>8, <1>12 DEF FreshAt, FreshKept
  <2> QED
    BY <1>10, <1>12, <2>1 DEF StaysFresh
<1> QED
  BY <1>2, <1>3, <1>9, <1>11, <1>12

LEMMA OpensIsKnown ==
  \A c, s, k : /\ OpensAt(c, s, k) => KnownAt(c, s, k)
               /\ OpenAt(c, s, k) => KnownAt(c, s, k)
BY DEF OpensAt, OpenAt, KnownAt, Opens, Open, Known, Knows

\* L3 answers the miss that has its turn, and L1 is told.
AnsweredInL1(c, s, k) ==
  \A d \in Cores, z \in Sources, x \in Nat :
    /\ Passed(d, z, x) => Passed(d, z, x)'
    /\ WaitsAt(d, z, x)' <=> WaitsAt(d, z, x) /\ <<d, z, x>> # <<c, s, k>>

LEMMA ChainAnswered ==
  ASSUME ChainInv, L3Still, NEW c \in Cores, NEW s \in Sources, NEW k \in Nat,
         TurnAt(c, s, k), InstructionsOnce', L1Done', L2InOrder',
         HasTurn(c, s, k), AnsweredInL1(c, s, k)
  PROVE  ChainInv'
<1>0. ~ KnownAt(c, s, k)
  BY DEF ChainInv, Chained
<1>1. ASSUME NEW d \in Cores, NEW z \in Sources, NEW x \in Nat
      PROVE  Chained(d, z, x)'
  <2>. PICK same : same = (<<d, z, x>> = <<c, s, k>>)
    OBVIOUS
  <2>1. Chained(d, z, x)
    BY DEF ChainInv
  <2>2. /\ KnownAt(d, z, x)' => KnownAt(d, z, x)
        /\ OpenAt(d, z, x)' <=> OpenAt(d, z, x)
        /\ OpensAt(d, z, x)' => OpensAt(d, z, x)
    BY DEF L3Still
  <2>3. KnownAt(d, z, x) => ~ (<<d, z, x>> = <<c, s, k>>)
    <3>1. <<d, z, x>> = <<c, s, k>> => d = c /\ z = s /\ x = k
      OBVIOUS
    <3> QED
      BY <1>0, <3>1
  <2>4. \A y \in Sources :
          /\ Passed(d, y, x) => Passed(d, y, x)'
          /\ WaitsAt(d, y, x)' <=> WaitsAt(d, y, x) /\ <<d, y, x>> # <<c, s, k>>
          /\ TurnAt(d, y, x)' <=> TurnAt(d, y, x) /\ <<d, y, x>> # <<c, s, k>>
          /\ FreshAt(d, y, x) /\ <<d, y, x>> # <<c, s, k>> => FreshAt(d, y, x)'
    BY DEF HasTurn, AnsweredInL1
  <2>5. /\ OpensAt(d, z, x) => KnownAt(d, z, x)
        /\ OpenAt(d, z, x) => KnownAt(d, z, x)
    BY OpensIsKnown
  <2>6. TurnAt(d, z, x)' => Passed(d, z, x)' /\ WaitsAt(d, z, x)' /\ ~ KnownAt(d, z, x)'
    BY <2>1, <2>2, <2>4 DEF Chained
  <2>7. KnownAt(d, z, x)' => Passed(d, z, x)'
    BY <2>1, <2>2, <2>4 DEF Chained
  <2>8. OpensAt(d, z, x)' => WaitsAt(d, z, x)'
    BY <2>1, <2>2, <2>3, <2>4, <2>5 DEF Chained
  <2>9. WaitsAt(d, z, x)' => TurnAt(d, z, x)' \/ OpenAt(d, z, x)'
    BY <2>1, <2>2, <2>4 DEF Chained
  <2>10. OpenAt(d, z, x)' /\ ~ FreshAt(d, z, x)' =>
           \A y \in Sources : y # z => Passed(d, y, x)' /\ ~ TurnAt(d, y, x)'
    BY <2>1, <2>2, <2>3, <2>4, <2>5 DEF Chained
  <2> QED
    BY <2>6, <2>7, <2>8, <2>9, <2>10 DEF Chained
<1> QED
  BY <1>1 DEF ChainInv, L3Still

\* It goes on to L3, where it is known from then on.
KnownInL3(c, s, k) ==
  \A d \in Cores, z \in Sources, x \in Nat :
    /\ KnownAt(d, z, x)' => KnownAt(d, z, x) \/ <<d, z, x>> = <<c, s, k>>
    /\ OpenAt(d, z, x)' <=> OpenAt(d, z, x) \/ <<d, z, x>> = <<c, s, k>>
    /\ OpensAt(d, z, x)' => OpensAt(d, z, x) \/ <<d, z, x>> = <<c, s, k>>

LEMMA ChainForwarded ==
  ASSUME ChainInv, L1Still, NEW c \in Cores, NEW s \in Sources, NEW k \in Nat,
         TurnAt(c, s, k), OneEach(l3_miss_buffer'), L3Done', L2InOrder',
         HasTurn(c, s, k), StaysFresh(c, s, k), KnownInL3(c, s, k)
  PROVE  ChainInv'
<1>0. Passed(c, s, k) /\ WaitsAt(c, s, k) /\ ~ KnownAt(c, s, k)
  BY DEF ChainInv, Chained
<1>1. ASSUME NEW d \in Cores, NEW z \in Sources, NEW x \in Nat
      PROVE  Chained(d, z, x)'
  <2>1. Chained(d, z, x)
    BY DEF ChainInv
  <2>2. /\ KnownAt(d, z, x)' => KnownAt(d, z, x) \/ <<d, z, x>> = <<c, s, k>>
        /\ OpenAt(d, z, x)' <=> OpenAt(d, z, x) \/ <<d, z, x>> = <<c, s, k>>
        /\ OpensAt(d, z, x)' => OpensAt(d, z, x) \/ <<d, z, x>> = <<c, s, k>>
    BY DEF KnownInL3
  <2>3. <<d, z, x>> = <<c, s, k>> =>
          Passed(d, z, x) /\ WaitsAt(d, z, x) /\ FreshAt(d, z, x)'
    <3>1. <<d, z, x>> = <<c, s, k>> => d = c /\ z = s /\ x = k
      OBVIOUS
    <3> QED
      BY <1>0, <3>1 DEF StaysFresh
  <2>4. \A y \in Sources :
          /\ Passed(d, y, x) => Passed(d, y, x)'
          /\ WaitsAt(d, y, x)' <=> WaitsAt(d, y, x)
          /\ TurnAt(d, y, x)' <=> TurnAt(d, y, x) /\ <<d, y, x>> # <<c, s, k>>
          /\ FreshAt(d, y, x) => FreshAt(d, y, x)'
    BY DEF HasTurn, StaysFresh, L1Still
  <2>6. TurnAt(d, z, x)' => Passed(d, z, x)' /\ WaitsAt(d, z, x)' /\ ~ KnownAt(d, z, x)'
    BY <2>1, <2>2, <2>4 DEF Chained
  <2>7. KnownAt(d, z, x)' => Passed(d, z, x)'
    BY <2>1, <2>2, <2>3, <2>4 DEF Chained
  <2>8. OpensAt(d, z, x)' => WaitsAt(d, z, x)'
    BY <2>1, <2>2, <2>3, <2>4 DEF Chained
  <2>9. WaitsAt(d, z, x)' => TurnAt(d, z, x)' \/ OpenAt(d, z, x)'
    BY <2>1, <2>2, <2>4 DEF Chained
  <2>10. OpenAt(d, z, x)' /\ ~ FreshAt(d, z, x)' =>
           \A y \in Sources : y # z => Passed(d, y, x)' /\ ~ TurnAt(d, y, x)'
    BY <2>1, <2>2, <2>3, <2>4 DEF Chained
  <2> QED
    BY <2>6, <2>7, <2>8, <2>9, <2>10 DEF Chained
<1> QED
  BY <1>1 DEF ChainInv, L1Still

\* A miss that waits is answered: k of m, which becomes v.
AnsweredIn(m, v, k) ==
  /\ DoneAfterL2(v) /\ SameIds(m, v)
  /\ \A x \in Nat : /\ Waiter(v, x) <=> Waiter(m, x) /\ x # k
                    /\ Gone(m, x) => Gone(v, x)

LEMMA WaitersAnswered ==
  ASSUME NEW m, NEW v, NEW n \in DOMAIN m, NEW k, k = m[n].id, OnlyAt(m, n, k),
         Edited(m, v, n), v[n].id = k, v[n].at1 = Off, v[n].done # Off,
         m[n].at1 = Off, DoneAfterL2(m)
  PROVE  AnsweredIn(m, v, k)
<1>. PICK f : f = v[n]
  OBVIOUS
<1>1. /\ DOMAIN v = DOMAIN m /\ v[n] = f
      /\ \A i \in DOMAIN m : i # n => v[i] = m[i]
  BY DEF Edited
<1>2. DoneAfterL2(v)
  BY <1>1 DEF DoneAfterL2
<1>3. SameIds(m, v)
  BY <1>1 DEF SameIds
<1>4. ASSUME NEW x \in Nat
      PROVE  Waiter(v, x) <=> Waiter(m, x) /\ x # k
  <2>1. CASE x = k
    <3>1. \A i \in DOMAIN v : v[i].id = k => i = n
      BY <1>1 DEF OnlyAt
    <3> QED
      BY <1>1, <2>1, <3>1 DEF Waiter
  <2>2. CASE x # k
    <3>1. \A i \in DOMAIN m : i = n => m[i].id = k /\ v[i].id = k
      BY <1>1
    <3> QED
      BY <1>1, <2>2, <3>1 DEF Waiter
  <2> QED
    BY <2>1, <2>2
<1>5. ASSUME NEW x \in Nat, Gone(m, x)
      PROVE  Gone(v, x)
  BY <1>1, <1>5 DEF Gone
<1> QED
  BY <1>2, <1>3, <1>4, <1>5 DEF AnsweredIn

\* L3 has the line: the miss of L2 and that of L1 are answered.
LEMMA ForwardHitChain ==
  ASSUME Typed, Kept, ChainInv, ForwardHit
  PROVE  ChainInv'
<1>. PICK c, i : c = core /\ i = Min(Waiting)
  OBVIOUS
<1>. PICK b : b = l2_miss_buffer[c]
  OBVIOUS
<1>. PICK e : e = b[i]
  OBVIOUS
<1>. PICK s, k : s = e.src /\ k = e.id
  OBVIOUS
<1>. PICK m : m = l1_miss_buffer[c][s]
  OBVIOUS
<1>0. InstructionsOnce /\ L1Done /\ L2InOrder /\ OneEach(l3_miss_buffer) /\ L3Done
  BY DEF ChainInv
<1>1. /\ Waiting # {}
      /\ l2_miss_buffer' = [l2_miss_buffer EXCEPT
                              ![c][i].at2 = Off, ![c][i].done = L3_HIT]
      /\ l1_miss_buffer' =
           IF Named(m, k) = {} THEN l1_miss_buffer
           ELSE [l1_miss_buffer EXCEPT ![c][s][Min(Named(m, k))].done = L3_HIT]
      /\ UNCHANGED <<asked, dtlb_miss_buffer>>
  BY DEF ForwardHit, turnVars, askVars
<1>2. /\ c \in Cores /\ i \in DOMAIN b /\ b \in Seq(MissL2) /\ e \in MissL2
  BY <1>1, FirstWaiting
<1>3. /\ l2_miss_buffer \in [Cores -> Seq(MissL2)]
      /\ l1_miss_buffer \in [Cores -> [Sources -> Misses]]
  BY DEF Typed
<1>4. L3_HIT \in Int /\ Off \in Int /\ L3_HIT # Off
  <2>1. L3_HIT \in Nat \ {0}
    BY CachesAssumption, Zenon
  <2> QED
    BY <2>1 DEF Off
<1>. PICK f : f = [e EXCEPT !.at2 = Off, !.done = L3_HIT]
  OBVIOUS
<1>5. f.src = s /\ f.id = k /\ f.at2 = Off
  BY <1>2, <1>4 DEF MissL2
<1>6. l2_miss_buffer' = [l2_miss_buffer EXCEPT ![c] = [b EXCEPT ![i] = f]]
  BY <1>1, <1>2, <1>3
<1>7. /\ s \in Sources /\ k \in Nat /\ TurnAt(c, s, k)
      /\ L2InOrder' /\ HasTurn(c, s, k)
  <2>1. /\ L2InOrder /\ Waiting # {} /\ c = core /\ i = Min(Waiting)
        /\ s = l2_miss_buffer[c][i].src /\ k = l2_miss_buffer[c][i].id
        /\ f.src = s /\ f.id = k /\ f.at2 = Off
        /\ l2_miss_buffer' = [l2_miss_buffer EXCEPT
                                ![c] = [l2_miss_buffer[c] EXCEPT ![i] = f]]
    BY <1>0, <1>1, <1>5, <1>6
  <2> QED
    BY <2>1, TurnTaken, Zenon
<1>8. /\ Passed(c, s, k) /\ WaitsAt(c, s, k)
  BY <1>2, <1>7 DEF ChainInv, Chained
<1>9. m \in Misses
  BY <1>2, <1>3, <1>7
<1>10. Named(m, k) # {} /\ Named(m, k) \subseteq DOMAIN m
  BY <1>8 DEF WaitsAt, Waiter, Named
<1>. PICK j : j = Min(Named(m, k))
  OBVIOUS
<1>11. j \in DOMAIN m /\ m[j].id = k
  <2>1. m \in Seq(Miss)
    BY <1>9 DEF Misses
  <2>2. j \in Named(m, k)
    BY <1>10, <2>1, FirstIndex
  <2> QED
    BY <2>2 DEF Named
<1>12. m[j] \in Miss /\ m[j].at1 = Off
  <2>1. m[j].at1 = Off
    BY <1>8, <1>11 DEF Passed, Gone
  <2> QED
    BY <1>9, <1>11, <2>1, ElementsTyped DEF Misses
<1>. PICK h : h = [m[j] EXCEPT !.done = L3_HIT]
  OBVIOUS
<1>13. h.id = k /\ h.at1 = Off /\ h.done = L3_HIT
  BY <1>4, <1>11, <1>12 DEF Miss
<1>. PICK v : v = [m EXCEPT ![j] = h]
  OBVIOUS
<1>14. l1_miss_buffer' = [l1_miss_buffer EXCEPT
                            ![c] = [l1_miss_buffer[c] EXCEPT ![s] = v]]
  BY <1>1, <1>10
<1>15. AnsweredIn(m, v, k)
  <2>1. OnlyAt(m, j, k)
    <3>1. /\ InstructionsOnce /\ c \in Cores /\ s \in Sources
          /\ j \in DOMAIN l1_miss_buffer[c][s]
      BY <1>0, <1>2, <1>7, <1>11
    <3>2. OnlyAt(l1_miss_buffer[c][s], j, l1_miss_buffer[c][s][j].id)
      BY <3>1, MissOnce, Zenon
    <3> QED
      BY <1>11, <3>2
  <2>2. Edited(m, v, j)
    BY DEF Edited
  <2>3. v[j].id = k /\ v[j].at1 = Off /\ v[j].done # Off
    BY <1>4, <1>11, <1>13
  <2>4. DoneAfterL2(m)
    BY <1>0, <1>2, <1>7 DEF L1Done
  <2>5. k = m[j].id /\ m[j].at1 = Off
    BY <1>11, <1>12
  <2> QED
    BY <1>11, <2>1, <2>2, <2>3, <2>4, <2>5, WaitersAnswered, Zenon
<1>16. InstructionsOnce' /\ L1Done'
  <2>1. SameIds(m, v) /\ DoneAfterL2(v)
    BY <1>15, Zenon DEF AnsweredIn
  <2> QED
    BY <1>0, <1>1, <1>2, <1>7, <1>14, <2>1, OneBufferOrdered
<1>17. AnsweredInL1(c, s, k)
  <2>1. /\ l1_miss_buffer'[c][s] = v
        /\ \A d \in Cores, z \in Sources :
             ~ (d = c /\ z = s) => l1_miss_buffer'[d][z] = l1_miss_buffer[d][z]
    BY <1>2, <1>3, <1>7, <1>14
  <2> SUFFICES ASSUME NEW d \in Cores, NEW z \in Sources, NEW x \in Nat
               PROVE  /\ Passed(d, z, x) => Passed(d, z, x)'
                      /\ WaitsAt(d, z, x)' <=>
                           WaitsAt(d, z, x) /\ <<d, z, x>> # <<c, s, k>>
    BY DEF AnsweredInL1
  <2>2. CASE d = c /\ z = s
    <3>1. l1_miss_buffer'[d][z] = v /\ l1_miss_buffer[d][z] = m
      BY <2>1, <2>2
    <3>2. <<d, z, x>> = <<c, s, k>> <=> x = k
      BY <2>2
    <3>5. /\ Waiter(v, x) <=> Waiter(m, x) /\ x # k
          /\ Gone(m, x) => Gone(v, x)
      BY <1>15, Zenon DEF AnsweredIn
    <3>3. Passed(d, z, x) => Passed(d, z, x)'
      BY <1>1, <3>1, <3>5 DEF Passed
    <3>4. WaitsAt(d, z, x)' <=> WaitsAt(d, z, x) /\ x # k
      BY <3>1, <3>5 DEF WaitsAt
    <3> QED
      BY <3>2, <3>3, <3>4
  <2>3. CASE ~ (d = c /\ z = s)
    <3>1. l1_miss_buffer'[d][z] = l1_miss_buffer[d][z]
      BY <2>1, <2>3
    <3>2. <<d, z, x>> # <<c, s, k>>
      BY <2>3
    <3>3. Passed(d, z, x) => Passed(d, z, x)'
      BY <1>1, <3>1 DEF Passed
    <3>4. WaitsAt(d, z, x)' <=> WaitsAt(d, z, x)
      BY <3>1 DEF WaitsAt
    <3> QED
      BY <3>2, <3>3, <3>4
  <2> QED
    BY <2>2, <2>3
<1>18. L3Still
  BY <1>0, QuietL3
<1> QED
  BY <1>2, <1>7, <1>16, <1>17, <1>18, ChainAnswered

\* It has not, and the miss merges with one of L3 or is one itself.
MergedWith(e, f, x) == f = [e EXCEPT !.merged = Append(e.merged, x)]

LEMMA MergedAppended ==
  ASSUME NEW e \in MissL3, NEW x \in Asking, NEW f, MergedWith(e, f, x)
  PROVE  /\ Merged(f) = Merged(e) \union {x} /\ First(f) = First(e)
         /\ f.done = e.done
<1>. PICK q : q = e.merged
  OBVIOUS
<1>. PICK u : u = Append(q, x)
  OBVIOUS
<1>1. q \in Seq(Asking)
  BY DEF MissL3
<1>2. f.merged = u /\ First(f) = First(e) /\ f.done = e.done
  BY DEF MissL3, First, MergedWith
<1>. PICK n \in Nat : n = Len(q)
  BY <1>1
<1>3. /\ DOMAIN q = 1 .. n /\ DOMAIN u = 1 .. n + 1
      /\ u[n + 1] = x /\ \A l \in 1 .. n : u[l] = q[l]
  BY <1>1
<1>4. {u[l] : l \in DOMAIN u} = {q[l] : l \in DOMAIN q} \union {x}
  <2>1. \A l \in 1 .. n + 1 : l \in 1 .. n \/ l = n + 1
    OBVIOUS
  <2>2. \A l \in 1 .. n : l \in 1 .. n + 1
    OBVIOUS
  <2>3. n + 1 \in 1 .. n + 1
    OBVIOUS
  <2> QED
    BY <1>3, <2>1, <2>2, <2>3
<1> QED
  BY <1>2, <1>4 DEF Merged

\* No miss of L3 is completed.
AllUnderWay(b) == \A i \in DOMAIN b : b[i].done = Off

LEMMA EntryMerged ==
  ASSUME NEW b \in Seq(MissL3), OneEach(b), AllUnderWay(b), NEW t0 \in Asking,
         ~ Known(b, t0), NEW i \in DOMAIN b, NEW st
  PROVE  \E v : /\ v = [b EXCEPT ![i].merged = Append(@, t0)]
                /\ OneEach(v) /\ AllUnderWay(v) /\ OneRequestMore(b, v, st, t0)
<1>1. PICK g : g = b[i]
  OBVIOUS
<1>2. PICK f : f = [g EXCEPT !.merged = Append(g.merged, t0)]
  OBVIOUS
<1>3. PICK v : v = [b EXCEPT ![i] = f]
  OBVIOUS
<1>4. g \in MissL3 /\ g.done = Off
  BY <1>1, ElementsTyped DEF AllUnderWay
<1>5. MergedWith(g, f, t0)
  BY <1>2 DEF MergedWith
<1>6. Merged(f) = Merged(g) \union {t0} /\ First(f) = First(g) /\ f.done = g.done
  BY <1>4, <1>5, MergedAppended, Zenon
<1>7. Edited(b, v, i) /\ v[i] = f
  BY <1>3 DEF Edited
<1>8. /\ First(v[i]) = First(b[i]) /\ Merged(v[i]) = Merged(b[i]) \union {t0}
      /\ v[i].done = Off /\ b[i].done = Off
  BY <1>1, <1>4, <1>6, <1>7
<1>9. OneEach(v) /\ OneRequestMore(b, v, st, t0)
  BY <1>7, <1>8, RequestMerged, Zenon
<1>10. AllUnderWay(v)
  BY <1>7, <1>8 DEF AllUnderWay, Edited
<1>11. v = [b EXCEPT ![i].merged = Append(@, t0)]
  BY <1>1, <1>2, <1>3
<1> QED
  BY <1>9, <1>10, <1>11

LEMMA ForwardedRequests ==
  ASSUME BehindTyped, OneEach(l3_miss_buffer), AllUnderWay(l3_miss_buffer),
         NEW c \in Cores, c = core, NEW e \in MissL2, NEW t0, t0 = <<c, e.src, e.id>>,
         ~ Known(l3_miss_buffer, t0), NEW st
  PROVE  /\ OneEach(Forwarded(e)) /\ AllUnderWay(Forwarded(e))
         /\ OneRequestMore(l3_miss_buffer, Forwarded(e), st, t0)
<1>. PICK b, same : b = l3_miss_buffer /\ same = SameLine(b, e.line)
  OBVIOUS
<1>1. b \in Seq(MissL3) /\ AllUnderWay(b) /\ OneEach(b) /\ ~ Known(b, t0)
  BY DEF BehindTyped
<1>2. /\ e.src \in Sources /\ e.id \in Nat /\ e.line \in Lines /\ e.write \in BOOLEAN
  BY DEF MissL2
<1>3. t0 \in Asking
  BY <1>2 DEF Asking
<1>4. CASE same # {}
  <2>. PICK i : i = Min(same)
    OBVIOUS
  <2>1. i \in DOMAIN b
    <3>1. same \subseteq DOMAIN b
      BY DEF SameLine
    <3> QED
      BY <1>1, <1>4, <3>1, FirstIndex
  <2>2. PICK v : /\ v = [b EXCEPT ![i].merged = Append(@, t0)]
                 /\ OneEach(v) /\ AllUnderWay(v) /\ OneRequestMore(b, v, st, t0)
    BY <1>1, <1>3, <2>1, EntryMerged, Zenon
  <2>3. Forwarded(e) = v
    BY <1>4, <2>2, Zenon DEF Forwarded
  <2> QED
    BY <2>2, <2>3
<1>5. CASE same = {}
  <2>. PICK f : f = [core |-> c, src |-> e.src, id |-> e.id, line |-> e.line,
                     write |-> e.write, at3 |-> L3_HIT, done |-> Off, merged |-> <<>>]
    OBVIOUS
  <2>1. L3_HIT \in Int /\ Off \in Int /\ <<>> \in Seq(Asking)
    <3>1. L3_HIT \in Nat \ {0}
      BY CachesAssumption, Zenon
    <3> QED
      BY <3>1 DEF Off
  <2>2. f \in MissL3 /\ First(f) = t0 /\ f.done = Off
    BY <1>2, <2>1 DEF MissL3, First
  <2>3. Merged(f) = {}
    BY DEF Merged
  <2>4. Forwarded(e) = Append(b, f)
    BY <1>5, Zenon DEF Forwarded
  <2>5. OneEach(Append(b, f)) /\ OneRequestMore(b, Append(b, f), st, t0)
    BY <1>1, <1>3, <2>2, <2>3, RequestAppended, Zenon
  <2>6. AllUnderWay(Append(b, f))
    <3>. PICK v, n : v = Append(b, f) /\ n = Len(b)
      OBVIOUS
    <3>1. /\ DOMAIN v = 1 .. n + 1 /\ DOMAIN b = 1 .. n /\ n \in Nat
          /\ v[n + 1] = f /\ \A l \in DOMAIN b : v[l] = b[l]
      BY <1>1
    <3>2. \A l \in DOMAIN v : l \in DOMAIN b \/ l = n + 1
      BY <3>1
    <3>3. AllUnderWay(v)
      BY <1>1, <2>2, <3>1, <3>2 DEF AllUnderWay
    <3> QED
      BY <3>3
  <2> QED
    BY <2>4, <2>5, <2>6
<1> QED
  BY <1>4, <1>5

LEMMA ForwardMissChain ==
  ASSUME Typed, BehindTyped, ChainInv, NoneLeftOut, ForwardMiss
  PROVE  ChainInv' /\ AllUnderWay(l3_miss_buffer')
<1>. PICK c, i : c = core /\ i = Min(Waiting)
  OBVIOUS
<1>. PICK b : b = l2_miss_buffer[c]
  OBVIOUS
<1>. PICK e : e = b[i]
  OBVIOUS
<1>. PICK s, k : s = e.src /\ k = e.id
  OBVIOUS
<1>. PICK t0 : t0 = <<c, s, k>>
  OBVIOUS
<1>0. InstructionsOnce /\ L1Done /\ L2InOrder /\ OneEach(l3_miss_buffer) /\ L3Done
  BY DEF ChainInv
<1>1. /\ Waiting # {}
      /\ l2_miss_buffer' = [l2_miss_buffer EXCEPT ![c][i].at2 = Off]
      /\ l3_miss_buffer' = Forwarded(e)
      /\ UNCHANGED <<asked, dtlb_miss_buffer, l1_miss_buffer>>
      /\ stage = "forward" /\ stage' = "l2"
  BY DEF ForwardMiss, askVars, Goto
<1>2. /\ c \in Cores /\ i \in DOMAIN b /\ b \in Seq(MissL2) /\ e \in MissL2
  BY <1>1, FirstWaiting
<1>3. l2_miss_buffer \in [Cores -> Seq(MissL2)] /\ Off \in Int
  BY DEF Typed, Off
<1>. PICK f : f = [e EXCEPT !.at2 = Off]
  OBVIOUS
<1>4. b[i].at2 = 0
  BY <1>1, FirstWaiting DEF FirstDue
<1>5. f.src = s /\ f.id = k /\ f.at2 = Off /\ f.done = e.done
  BY <1>2, <1>3 DEF MissL2
<1>6. f.done = Off
  <2>1. Ordered(b)
    BY <1>0, <1>2 DEF L2InOrder
  <2>2. b[i].at2 # Off
    BY <1>4 DEF Off
  <2> QED
    BY <1>2, <1>5, <2>1, <2>2 DEF Ordered
<1>7. l2_miss_buffer' = [l2_miss_buffer EXCEPT ![c] = [b EXCEPT ![i] = f]]
  BY <1>1, <1>2, <1>3
<1>8. /\ s \in Sources /\ k \in Nat /\ TurnAt(c, s, k)
      /\ L2InOrder' /\ HasTurn(c, s, k)
      /\ f.done = Off => StaysFresh(c, s, k)
  <2>1. /\ L2InOrder /\ Waiting # {} /\ c = core /\ i = Min(Waiting)
        /\ s = l2_miss_buffer[c][i].src /\ k = l2_miss_buffer[c][i].id
        /\ f.src = s /\ f.id = k /\ f.at2 = Off
        /\ l2_miss_buffer' = [l2_miss_buffer EXCEPT
                                ![c] = [l2_miss_buffer[c] EXCEPT ![i] = f]]
    BY <1>0, <1>1, <1>5, <1>7
  <2> QED
    BY <2>1, TurnTaken, Zenon
<1>9. ~ Known(l3_miss_buffer, t0)
  BY <1>2, <1>8 DEF ChainInv, Chained, KnownAt
<1>10. AllUnderWay(l3_miss_buffer)
  BY <1>1 DEF NoneLeftOut, AllUnderWay
<1>11. /\ OneEach(Forwarded(e)) /\ AllUnderWay(Forwarded(e))
       /\ \A st : OneRequestMore(l3_miss_buffer, Forwarded(e), st, t0)
  <2>1. BehindTyped /\ OneEach(l3_miss_buffer) /\ t0 = <<c, e.src, e.id>>
    BY <1>0
  <2> QED
    BY <1>2, <1>9, <1>10, <2>1, ForwardedRequests, Zenon
<1>12. OneEach(l3_miss_buffer') /\ L3Done'
  BY <1>1, <1>11 DEF AllUnderWay, L3Done
<1>13. KnownInL3(c, s, k)
  <2>. PICK b3, v, st, sv : b3 = l3_miss_buffer /\ v = l3_miss_buffer' /\ st = stage /\ sv = stage'
    OBVIOUS
  <2>1. OneRequestMore(b3, v, st, t0)
    BY <1>1, <1>11
  <2>2. ~ Gathering(st) /\ ~ Gathering(sv)
    BY <1>1 DEF Gathering
  <2>3. \A t : /\ Open(v, sv, t) <=> Open(v, st, t)
               /\ Opens(v, sv, t) <=> Opens(v, st, t)
    BY <2>2 DEF Open, Opens
  <2> SUFFICES ASSUME NEW d \in Cores, NEW z \in Sources, NEW x \in Nat
               PROVE  /\ KnownAt(d, z, x)' => KnownAt(d, z, x) \/ <<d, z, x>> = t0
                      /\ OpenAt(d, z, x)' <=> OpenAt(d, z, x) \/ <<d, z, x>> = t0
                      /\ OpensAt(d, z, x)' => OpensAt(d, z, x) \/ <<d, z, x>> = t0
    BY DEF KnownInL3
  <2>. PICK t : t = <<d, z, x>>
    OBVIOUS
  <2>4. t \in Asking
    BY DEF Asking
  <2>5. /\ Known(v, t) => Known(b3, t) \/ t = t0
        /\ Open(v, st, t) <=> Open(b3, st, t) \/ t = t0
        /\ Opens(v, st, t) => Opens(b3, st, t) \/ t = t0
    BY <2>1, <2>4, Zenon DEF OneRequestMore
  <2>6. /\ KnownAt(d, z, x)' <=> Known(v, t)
        /\ OpenAt(d, z, x)' <=> Open(v, sv, t)
        /\ OpensAt(d, z, x)' <=> Opens(v, sv, t)
        /\ KnownAt(d, z, x) <=> Known(b3, t)
        /\ OpenAt(d, z, x) <=> Open(b3, st, t)
        /\ OpensAt(d, z, x) <=> Opens(b3, st, t)
    BY DEF KnownAt, OpenAt, OpensAt
  <2> QED
    BY <2>3, <2>5, <2>6, Zenon
<1>14. L1Still
  BY <1>0, <1>1, L1Unchanged
<1>15. StaysFresh(c, s, k)
  BY <1>6, <1>8
<1>16. AllUnderWay(l3_miss_buffer')
  BY <1>1, <1>11
<1> QED
  BY <1>2, <1>8, <1>12, <1>13, <1>14, <1>15, <1>16, ChainForwarded

-------------------------------------------------------------------------------
(***************************************************************************)
(* update_caches: what is completed in L3 wakes those that wait for it.    *)
(***************************************************************************)
\* update_caches answers whatever is known to a completed miss of L3.
WokenAt(c, s, k) == <<c, s, k>> \in WokenL1

LEMMA InUnion ==
  ASSUME NEW S, NEW t
  PROVE  t \in UNION {{First(e)} \union Merged(e) : e \in S}
           <=> \E e \in S : Knows(e, t)
BY DEF Knows

LEMMA WokenAre ==
  ASSUME BehindTyped, ChainInv, stage = "caches", NEW t
  PROVE  t \in WokenL1 <=> \E i \in DOMAIN l3_miss_buffer :
                             l3_miss_buffer[i].done = 0 /\ Knows(l3_miss_buffer[i], t)
<1>. PICK b : b = l3_miss_buffer
  OBVIOUS
<1>1. b \in Seq(MissL3)
  BY DEF BehindTyped
<1>2. Due(b, 1) = {i \in DOMAIN b : b[i].done = 0}
  BY <1>1 DEF Due
<1>3. CompletedL3 = {b[i] : i \in Due(b, 1)}
  BY DEF CompletedL3
<1>. PICK S : S = {f \in CompletedL3 : Named(l1_miss_buffer[f.core][f.src], f.id) # {}}
  OBVIOUS
<1>4. t \in WokenL1 <=> \E e \in S : Knows(e, t)
  BY InUnion, Zenon DEF WokenL1
<1>5. ASSUME NEW i \in DOMAIN b, b[i].done = 0
      PROVE  b[i] \in S
  <2>1. b[i] \in MissL3
    BY <1>1, ElementsTyped
  <2>. PICK d, z, k : d = b[i].core /\ z = b[i].src /\ k = b[i].id
    OBVIOUS
  <2>2. d \in Cores /\ z \in Sources /\ k \in Nat
    BY <2>1 DEF MissL3
  <2>3. First(b[i]) = <<d, z, k>>
    BY DEF First
  <2>4. OpensAt(d, z, k)
    BY <1>5, <2>3 DEF OpensAt, Opens, Gathering
  <2>5. WaitsAt(d, z, k)
    BY <2>2, <2>4 DEF ChainInv, Chained
  <2>6. Named(l1_miss_buffer[d][z], k) # {}
    BY <2>5 DEF WaitsAt, Waiter, Named
  <2>7. b[i] \in CompletedL3
    BY <1>2, <1>3, <1>5
  <2> QED
    BY <2>6, <2>7
<1>6. \A e \in S : \E i \in DOMAIN b : e = b[i] /\ b[i].done = 0
  BY <1>2, <1>3
<1> QED
  BY <1>4, <1>5, <1>6

\* An open miss stays open unless it is completed.
WokenInL3(sv) ==
  \A t \in Asking :
    LET known == Known(l3_miss_buffer, t)
    IN /\ Open(l3_miss_buffer, stage, t) <=> known
       /\ t \in WokenL1 => known
       /\ Open(l3_miss_buffer, sv, t) <=> known /\ t \notin WokenL1
       /\ Opens(l3_miss_buffer, sv, t) =>
            Opens(l3_miss_buffer, stage, t) /\ Open(l3_miss_buffer, sv, t)

LEMMA UpdatedL3 ==
  ASSUME BehindTyped, ChainInv, stage = "caches", NEW sv, ~ Gathering(sv)
  PROVE  WokenInL3(sv)
<1>. PICK b, st : b = l3_miss_buffer /\ st = stage
  OBVIOUS
<1> SUFFICES ASSUME NEW t \in Asking
             PROVE  /\ Open(b, st, t) <=> Known(b, t)
                    /\ t \in WokenL1 => Known(b, t)
                    /\ Open(b, sv, t) <=> Known(b, t) /\ t \notin WokenL1
                    /\ Opens(b, sv, t) => Opens(b, st, t) /\ Open(b, sv, t)
  BY DEF WokenInL3
<1>1. t \in WokenL1 <=> \E i \in DOMAIN b : b[i].done = 0 /\ Knows(b[i], t)
  BY WokenAre
<1>2. \A i \in DOMAIN b : b[i].done \in {Off, 0}
  BY DEF ChainInv, L3Done
<1>3. \A i, j \in DOMAIN b : Knows(b[i], t) /\ Knows(b[j], t) => i = j
  BY DEF ChainInv, OneEach
<1>4. Gathering(st) /\ 0 # Off
  BY DEF Gathering, Off
<1>5. Open(b, st, t) <=> Known(b, t)
  BY <1>4 DEF Open, Known
<1>6. t \in WokenL1 => Known(b, t)
  BY <1>1 DEF Known
<1>7. Open(b, sv, t) <=> \E i \in DOMAIN b : Knows(b[i], t) /\ b[i].done = Off
  BY DEF Open
<1>8. Open(b, sv, t) <=> Known(b, t) /\ t \notin WokenL1
  BY <1>1, <1>2, <1>3, <1>4, <1>7 DEF Known
<1>9. Opens(b, sv, t) => Opens(b, st, t) /\ Open(b, sv, t)
  BY DEF Opens, Open, Knows
<1> QED
  BY <1>5, <1>6, <1>8, <1>9

\* The chain after update_caches, seen at each level.
UpdatedAt(c, s, k) ==
  /\ Passed(c, s, k) => Passed(c, s, k)'
  /\ WaitsAt(c, s, k)' <=> WaitsAt(c, s, k) /\ ~ WokenAt(c, s, k)
  /\ TurnAt(c, s, k)' <=> TurnAt(c, s, k)
  /\ FreshAt(c, s, k) /\ ~ FreshAt(c, s, k)' => \E z \in Sources : WokenAt(c, z, k)
  /\ OpenAt(c, s, k) <=> KnownAt(c, s, k)
  /\ WokenAt(c, s, k) => KnownAt(c, s, k)
  /\ KnownAt(c, s, k)' <=> KnownAt(c, s, k)
  /\ OpenAt(c, s, k)' <=> KnownAt(c, s, k) /\ ~ WokenAt(c, s, k)
  /\ OpensAt(c, s, k)' => OpensAt(c, s, k) /\ OpenAt(c, s, k)'

LEMMA ChainWoken ==
  ASSUME ChainInv, NEW c \in Cores, NEW s \in Sources, NEW k \in Nat,
         \A z \in Sources : UpdatedAt(c, z, k)
  PROVE  Chained(c, s, k)'
<1>1. \A z \in Sources : Chained(c, z, k)
  BY DEF ChainInv
<1>2. UpdatedAt(c, s, k) /\ Chained(c, s, k)
  BY <1>1
<1>3. TurnAt(c, s, k)' => Passed(c, s, k)' /\ WaitsAt(c, s, k)' /\ ~ KnownAt(c, s, k)'
  BY <1>2 DEF UpdatedAt, Chained
<1>4. KnownAt(c, s, k)' => Passed(c, s, k)'
  BY <1>2 DEF UpdatedAt, Chained
<1>5. OpensAt(c, s, k)' => WaitsAt(c, s, k)'
  BY <1>2 DEF UpdatedAt, Chained
<1>6. WaitsAt(c, s, k)' => TurnAt(c, s, k)' \/ OpenAt(c, s, k)'
  BY <1>2 DEF UpdatedAt, Chained
<1>7. ASSUME OpenAt(c, s, k)', ~ FreshAt(c, s, k)', NEW z \in Sources, z # s
      PROVE  Passed(c, z, k)' /\ ~ TurnAt(c, z, k)'
  <2>1. UpdatedAt(c, z, k) /\ Chained(c, z, k)
    BY <1>1
  <2>2. OpenAt(c, s, k) /\ ~ WokenAt(c, s, k)
    BY <1>2, <1>7 DEF UpdatedAt
  <2>3. CASE ~ FreshAt(c, s, k)
    <3>1. Passed(c, z, k) /\ ~ TurnAt(c, z, k)
      BY <1>2, <1>7, <2>2, <2>3 DEF Chained
    <3> QED
      BY <2>1, <3>1 DEF UpdatedAt
  <2>4. CASE FreshAt(c, s, k)
    <3>1. PICK y \in Sources : WokenAt(c, y, k)
      BY <1>2, <1>7, <2>4 DEF UpdatedAt
    <3>2. y = z
      <4>1. y # s
        BY <2>2, <3>1
      <4> QED
        BY <1>7, <4>1 DEF Sources
    <3>3. KnownAt(c, z, k)
      BY <2>1, <3>1, <3>2 DEF UpdatedAt
    <3>4. Passed(c, z, k) /\ ~ TurnAt(c, z, k)
      BY <2>1, <3>3 DEF Chained
    <3> QED
      BY <2>1, <3>4 DEF UpdatedAt
  <2> QED
    BY <2>3, <2>4
<1> QED
  BY <1>3, <1>4, <1>5, <1>6, <1>7 DEF Chained

\* update_caches in L1: those of m with a number of P are answered.
WokenMisses(m, v, P) ==
  /\ DOMAIN v = DOMAIN m
  /\ \A i \in DOMAIN m : v[i] = IF m[i].id \in P THEN [m[i] EXCEPT !.done = 0] ELSE m[i]
WokenIn(m, v, P) ==
  /\ DoneAfterL2(v) /\ SameIds(m, v)
  /\ \A k \in Nat : /\ Waiter(v, k) <=> Waiter(m, k) /\ k \notin P
                    /\ Gone(m, k) => Gone(v, k)

LEMMA WaitersWoken ==
  ASSUME NEW m \in Misses, NEW v, NEW P, WokenMisses(m, v, P), DoneAfterL2(m),
         \A k \in P : Gone(m, k)
  PROVE  WokenIn(m, v, P)
<1>1. ASSUME NEW i \in DOMAIN m
      PROVE  /\ v[i].id = m[i].id /\ v[i].at1 = m[i].at1
             /\ m[i].id \in P => v[i].done = 0
             /\ m[i].id \notin P => v[i].done = m[i].done
  <2>1. PICK e, f : e = m[i] /\ f = v[i]
    OBVIOUS
  <2>2. e \in Miss
    BY <2>1, ElementsTyped DEF Misses
  <2>3. f = IF e.id \in P THEN [e EXCEPT !.done = 0] ELSE e
    BY <2>1 DEF WokenMisses
  <2>4. /\ f.id = e.id /\ f.at1 = e.at1
        /\ e.id \in P => f.done = 0
        /\ e.id \notin P => f.done = e.done
    BY <2>2, <2>3 DEF Miss
  <2> QED
    BY <2>1, <2>4
<1>2. DOMAIN v = DOMAIN m /\ 0 # Off
  BY DEF WokenMisses, Off
<1>3. DoneAfterL2(v)
  BY <1>1, <1>2 DEF DoneAfterL2, Gone
<1>4. SameIds(m, v)
  BY <1>1, <1>2 DEF SameIds
<1>5. ASSUME NEW k \in Nat
      PROVE  /\ Waiter(v, k) <=> Waiter(m, k) /\ k \notin P
             /\ Gone(m, k) => Gone(v, k)
  BY <1>1, <1>2 DEF Waiter, Gone
<1> QED
  BY <1>3, <1>4, <1>5 DEF WokenIn

LEMMA UpdatedL1 ==
  ASSUME Typed, BehindTyped, ChainInv, update_caches
  PROVE  /\ InstructionsOnce' /\ L1Done'
         /\ \A c \in Cores, s \in Sources, k \in Nat :
              /\ Passed(c, s, k) => Passed(c, s, k)'
              /\ WaitsAt(c, s, k)' <=> WaitsAt(c, s, k) /\ ~ WokenAt(c, s, k)
<1>1. /\ stage = "caches" /\ UNCHANGED <<asked, dtlb_miss_buffer>>
  BY DEF update_caches, askVars
<1>2. ASSUME NEW c \in Cores, NEW s \in Sources
      PROVE  WokenIn(l1_miss_buffer[c][s], l1_miss_buffer'[c][s],
                     {k \in Nat : WokenAt(c, s, k)})
  <2>1. PICK m : m = l1_miss_buffer[c][s]
    OBVIOUS
  <2>2. PICK v : v = l1_miss_buffer'[c][s]
    OBVIOUS
  <2>3. PICK P : P = {k \in Nat : WokenAt(c, s, k)}
    OBVIOUS
  <2>4. m \in Misses /\ DoneAfterL2(m)
    BY <2>1 DEF Typed, ChainInv, L1Done
  <2>5. /\ DOMAIN v = DOMAIN m
        /\ \A i \in DOMAIN m :
             v[i] = IF <<c, s, m[i].id>> \in WokenL1 THEN [m[i] EXCEPT !.done = 0] ELSE m[i]
    BY <2>1, <2>2, Zenon DEF update_caches
  <2>6. ASSUME NEW i \in DOMAIN m
        PROVE  <<c, s, m[i].id>> \in WokenL1 <=> m[i].id \in P
    <3>1. m[i] \in Miss
      BY <2>4, ElementsTyped DEF Misses
    <3>2. m[i].id \in Nat
      BY <3>1 DEF Miss
    <3> QED
      BY <2>3, <3>2 DEF WokenAt
  <2>7. WokenMisses(m, v, P)
    BY <2>5, <2>6, Zenon DEF WokenMisses
  <2>8. ASSUME NEW k \in P PROVE Gone(m, k)
    <3>1. k \in Nat /\ WokenAt(c, s, k)
      BY <2>3
    <3>2. PICK i \in DOMAIN l3_miss_buffer : Knows(l3_miss_buffer[i], <<c, s, k>>)
      BY <1>1, <3>1, WokenAre DEF WokenAt
    <3>3. KnownAt(c, s, k)
      BY <3>2 DEF KnownAt, Known
    <3> QED
      BY <2>1, <3>1, <3>3 DEF ChainInv, Chained, Passed
  <2>9. WokenIn(m, v, P)
    BY <2>4, <2>7, <2>8, WaitersWoken, Zenon
  <2> QED
    BY <2>1, <2>2, <2>3, <2>9, Zenon
<1>3. ASSUME NEW c \in Cores, NEW s \in Sources
      PROVE  /\ DoneAfterL2(l1_miss_buffer'[c][s])
             /\ SameIds(l1_miss_buffer[c][s], l1_miss_buffer'[c][s])
             /\ \A k \in Nat :
                  /\ Waiter(l1_miss_buffer'[c][s], k) <=>
                       Waiter(l1_miss_buffer[c][s], k) /\ ~ WokenAt(c, s, k)
                  /\ Gone(l1_miss_buffer[c][s], k) => Gone(l1_miss_buffer'[c][s], k)
  <2>1. PICK P : P = {k \in Nat : WokenAt(c, s, k)}
    OBVIOUS
  <2>2. \A k \in Nat : k \in P <=> WokenAt(c, s, k)
    BY <2>1
  <2>3. WokenIn(l1_miss_buffer[c][s], l1_miss_buffer'[c][s], P)
    BY <1>2, <2>1, Zenon
  <2> QED
    BY <2>2, <2>3, Zenon DEF WokenIn
<1>4. L1Done'
  BY <1>3 DEF L1Done
<1>5. InstructionsOnce'
  <2> SUFFICES ASSUME NEW c \in Cores
               PROVE  Instructions(l1_miss_buffer'[c]["I"], asked'[c]["I"])
    BY DEF InstructionsOnce
  <2>1. Instructions(l1_miss_buffer[c]["I"], asked[c]["I"])
    BY DEF ChainInv, InstructionsOnce
  <2>2. SameIds(l1_miss_buffer[c]["I"], l1_miss_buffer'[c]["I"])
    BY <1>3 DEF Sources
  <2>3. Instructions(l1_miss_buffer'[c]["I"], asked[c]["I"])
    BY <2>1, <2>2, InstructionsSame, Zenon
  <2> QED
    BY <1>1, <2>3
<1>6. ASSUME NEW c \in Cores, NEW s \in Sources, NEW k \in Nat
      PROVE  /\ Passed(c, s, k) => Passed(c, s, k)'
             /\ WaitsAt(c, s, k)' <=> WaitsAt(c, s, k) /\ ~ WokenAt(c, s, k)
  <2>1. Passed(c, s, k) => Passed(c, s, k)'
    BY <1>1, <1>3 DEF Passed
  <2>2. WaitsAt(c, s, k)' <=> WaitsAt(c, s, k) /\ ~ WokenAt(c, s, k)
    BY <1>3 DEF WaitsAt
  <2> QED
    BY <2>1, <2>2
<1> QED
  BY <1>4, <1>5, <1>6

\* update_caches in L2: what it finds by the number of what it answers.
Marked(c, i) ==
  \E w \in WokenL2 : /\ w[1] = c
                     /\ Named(l2_miss_buffer[c], w[3]) # {}
                     /\ i = Min(Named(l2_miss_buffer[c], w[3]))

LEMMA WokenInBoth ==
  ASSUME BehindTyped, ChainInv, stage = "caches", NEW w \in WokenL2
  PROVE  w \in Asking /\ w \in WokenL1
<1>. PICK b : b = l3_miss_buffer
  OBVIOUS
<1>1. b \in Seq(MissL3)
  BY DEF BehindTyped
<1>2. Due(b, 1) = {i \in DOMAIN b : b[i].done = 0}
  BY <1>1 DEF Due
<1>3. CompletedL3 = {b[i] : i \in Due(b, 1)}
  BY DEF CompletedL3
<1>4. \E e \in CompletedL3 : Knows(e, w)
  BY DEF WokenL2, Knows
<1>5. PICK i \in DOMAIN b : b[i].done = 0 /\ Knows(b[i], w)
  BY <1>2, <1>3, <1>4
<1>6. w \in WokenL1
  BY <1>5, WokenAre
<1>7. b[i] \in MissL3
  BY <1>1, <1>5, ElementsTyped
<1>8. w \in Asking
  <2>1. First(b[i]) \in Asking /\ b[i].merged \in Seq(Asking)
    BY <1>7, MissL3Fields
  <2>2. Merged(b[i]) \subseteq Asking
    BY <2>1, ElementsTyped DEF Merged
  <2> QED
    BY <1>5, <2>1, <2>2 DEF Knows
<1> QED
  BY <1>6, <1>8

\* It finds none whose turn is still to come.
LEMMA MarkedHasGone ==
  ASSUME Typed, BehindTyped, ChainInv, stage = "caches",
         NEW c \in Cores, NEW i \in DOMAIN l2_miss_buffer[c], Marked(c, i)
  PROVE  /\ l2_miss_buffer[c][i].at2 = Off
         /\ \E z \in Sources : WokenAt(c, z, l2_miss_buffer[c][i].id)
<1>1. PICK w \in WokenL2 : /\ w[1] = c
                           /\ Named(l2_miss_buffer[c], w[3]) # {}
                           /\ i = Min(Named(l2_miss_buffer[c], w[3]))
  BY DEF Marked
<1>2. w \in Asking /\ w \in WokenL1
  BY WokenInBoth
<1>3. PICK b : b = l2_miss_buffer[c]
  OBVIOUS
<1>4. PICK z \in Sources, k \in Nat : w = <<c, z, k>>
  BY <1>1, <1>2 DEF Asking
<1>5. b \in Seq(MissL2) /\ DOMAIN b \subseteq Nat
  BY <1>3 DEF Typed
<1>6. /\ b[i].id = k /\ \A j \in DOMAIN b : b[j].id = k => i <= j
  <2>1. PICK T : T = Named(b, k)
    OBVIOUS
  <2>2. T \in SUBSET Nat /\ T # {} /\ i = Min(T)
    BY <1>1, <1>3, <1>4, <1>5, <2>1 DEF Named
  <2>3. i \in T /\ \A j \in T : i <= j
    BY <2>2, FirstOf, Zenon
  <2> QED
    BY <2>1, <2>3 DEF Named
<1>7. WokenAt(c, z, k)
  BY <1>2, <1>4 DEF WokenAt
<1>8. KnownAt(c, z, k) /\ OpenAt(c, z, k)
  <2>1. PICK l \in DOMAIN l3_miss_buffer : Knows(l3_miss_buffer[l], <<c, z, k>>)
    BY <1>7, WokenAre DEF WokenAt
  <2> QED
    BY <2>1 DEF KnownAt, Known, OpenAt, Open, Gathering
<1>9. Chained(c, z, k)
  BY DEF ChainInv
<1>10. ~ TurnAt(c, z, k)
  BY <1>8, <1>9 DEF Chained
<1>11. b[i] \in MissL2
  BY <1>3, <1>5, ElementsTyped
<1>12. b[i].src \in Sources
  BY <1>11 DEF MissL2
<1>13. ASSUME b[i].at2 # Off
       PROVE  FALSE
  <2>1. TurnAt(c, b[i].src, k)
    BY <1>3, <1>6, <1>13 DEF TurnAt, Live
  <2>2. b[i].src # z
    BY <1>10, <2>1
  <2>3. FreshAt(c, z, k)
    BY <1>8, <1>9, <1>12, <2>1, <2>2 DEF Chained
  <2>4. PICK j \in DOMAIN b : b[j].src = z /\ b[j].id = k
    BY <1>3, <2>3 DEF FreshAt, Fresh
  <2>5. i < j
    <3>1. i <= j /\ i # j
      BY <1>6, <2>2, <2>4
    <3>2. i \in Nat /\ j \in Nat
      BY <1>3, <1>5, <2>4
    <3> QED
      BY <3>1, <3>2
  <2>6. Ordered(b)
    BY <1>3 DEF ChainInv, L2InOrder
  <2>7. b[j].at2 # Off
    BY <1>3, <1>13, <2>4, <2>5, <2>6 DEF Ordered
  <2>8. TurnAt(c, z, k)
    BY <1>3, <2>4, <2>7 DEF TurnAt, Live
  <2> QED
    BY <1>10, <2>8
<1> QED
  BY <1>3, <1>6, <1>7, <1>13

\* So whose turn is to come stays so, and what is answered is known to L3.
LEMMA UpdatedL2 ==
  ASSUME Typed, BehindTyped, ChainInv, update_caches
  PROVE  /\ L2InOrder'
         /\ \A c \in Cores, s \in Sources, k \in Nat :
              /\ TurnAt(c, s, k)' <=> TurnAt(c, s, k)
              /\ FreshAt(c, s, k) /\ ~ FreshAt(c, s, k)' =>
                   \E z \in Sources : WokenAt(c, z, k)
<1>1. stage = "caches"
  BY DEF update_caches
<1>2. ASSUME NEW c \in Cores
      PROVE  /\ Ordered(l2_miss_buffer'[c])
             /\ \A s \in Sources, k \in Nat :
                  /\ Live(l2_miss_buffer'[c], s, k) <=> Live(l2_miss_buffer[c], s, k)
                  /\ Fresh(l2_miss_buffer[c], s, k) /\ ~ Fresh(l2_miss_buffer'[c], s, k)
                       => \E z \in Sources : WokenAt(c, z, k)
  <2>1. PICK b : b = l2_miss_buffer[c]
    OBVIOUS
  <2>2. PICK v : v = l2_miss_buffer'[c]
    OBVIOUS
  <2>3. b \in Seq(MissL2) /\ Ordered(b)
    BY <2>1 DEF Typed, ChainInv, L2InOrder
  <2>4. /\ DOMAIN v = DOMAIN b
        /\ \A i \in DOMAIN b :
             v[i] = IF Marked(c, i) THEN [b[i] EXCEPT !.done = 0] ELSE b[i]
    BY <2>1, <2>2, Zenon DEF update_caches, Marked
  <2>5. ASSUME NEW i \in DOMAIN b
        PROVE  /\ v[i].src = b[i].src /\ v[i].id = b[i].id /\ v[i].at2 = b[i].at2
               /\ ~ Marked(c, i) => v[i] = b[i]
    <3>1. PICK e, f : e = b[i] /\ f = v[i]
      OBVIOUS
    <3>2. e \in MissL2
      BY <2>3, <3>1, ElementsTyped
    <3>3. f = IF Marked(c, i) THEN [e EXCEPT !.done = 0] ELSE e
      BY <2>4, <3>1
    <3>4. /\ f.src = e.src /\ f.id = e.id /\ f.at2 = e.at2
          /\ ~ Marked(c, i) => f = e
      BY <3>2, <3>3 DEF MissL2
    <3> QED
      BY <3>1, <3>4
  <2>6. ASSUME NEW i \in DOMAIN b, Marked(c, i)
        PROVE  b[i].at2 = Off /\ \E z \in Sources : WokenAt(c, z, b[i].id)
    BY <1>1, <2>1, <2>6, MarkedHasGone
  <2>7. \A i \in DOMAIN b : b[i].at2 # Off => v[i] = b[i]
    BY <2>5, <2>6
  <2>8. /\ Ordered(v)
        /\ \A s \in Sources, k \in Nat : Live(v, s, k) <=> Live(b, s, k)
    BY <2>3, <2>4, <2>5, <2>7, TurnsWoken
  <2>9. ASSUME NEW s \in Sources, NEW k \in Nat, Fresh(b, s, k), ~ Fresh(v, s, k)
        PROVE  \E z \in Sources : WokenAt(c, z, k)
    <3>1. PICK i \in DOMAIN b : b[i].src = s /\ b[i].id = k /\ b[i].done = Off
      BY <2>9 DEF Fresh
    <3>2. Marked(c, i)
      BY <2>4, <2>5, <2>9, <3>1 DEF Fresh
    <3> QED
      BY <2>6, <3>1, <3>2
  <2> QED
    BY <2>1, <2>2, <2>8, <2>9
<1>3. L2InOrder'
  BY <1>2 DEF L2InOrder
<1>4. ASSUME NEW c \in Cores, NEW s \in Sources, NEW k \in Nat
      PROVE  /\ TurnAt(c, s, k)' <=> TurnAt(c, s, k)
             /\ FreshAt(c, s, k) /\ ~ FreshAt(c, s, k)' =>
                  \E z \in Sources : WokenAt(c, z, k)
  BY <1>2 DEF TurnAt, FreshAt
<1> QED
  BY <1>3, <1>4

\* The step.
LEMMA UpdateCachesChain ==
  ASSUME Typed, BehindTyped, ChainInv, update_caches
  PROVE  ChainInv'
<1>1. stage = "caches" /\ stage' = "dtlb" /\ UNCHANGED l3_miss_buffer
  BY DEF update_caches, Goto
<1>2. WokenInL3(stage')
  <2>1. ~ Gathering("dtlb")
    BY DEF Gathering
  <2>2. WokenInL3("dtlb")
    BY <1>1, <2>1, UpdatedL3
  <2> QED
    BY <1>1, <2>2
<1>3. ASSUME NEW c \in Cores, NEW s \in Sources, NEW k \in Nat
      PROVE  /\ OpenAt(c, s, k) <=> KnownAt(c, s, k)
             /\ WokenAt(c, s, k) => KnownAt(c, s, k)
             /\ KnownAt(c, s, k)' <=> KnownAt(c, s, k)
             /\ OpenAt(c, s, k)' <=> KnownAt(c, s, k) /\ ~ WokenAt(c, s, k)
             /\ OpensAt(c, s, k)' => OpensAt(c, s, k) /\ OpenAt(c, s, k)'
  <2>. PICK b, st, sv, t : b = l3_miss_buffer /\ st = stage /\ sv = stage' /\ t = <<c, s, k>>
    OBVIOUS
  <2>1. t \in Asking
    BY DEF Asking
  <2>2. /\ Open(b, st, t) <=> Known(b, t)
        /\ t \in WokenL1 => Known(b, t)
        /\ Open(b, sv, t) <=> Known(b, t) /\ t \notin WokenL1
        /\ Opens(b, sv, t) => Opens(b, st, t) /\ Open(b, sv, t)
    BY <1>2, <2>1 DEF WokenInL3
  <2>3. /\ OpenAt(c, s, k) <=> Open(b, st, t)
        /\ OpensAt(c, s, k) <=> Opens(b, st, t)
        /\ KnownAt(c, s, k) <=> Known(b, t)
        /\ WokenAt(c, s, k) <=> t \in WokenL1
    BY DEF OpenAt, OpensAt, KnownAt, WokenAt
  <2>4. /\ OpenAt(c, s, k)' <=> Open(b, sv, t)
        /\ OpensAt(c, s, k)' <=> Opens(b, sv, t)
        /\ KnownAt(c, s, k)' <=> Known(b, t)
    BY <1>1 DEF OpenAt, OpensAt, KnownAt
  <2> QED
    BY <2>2, <2>3, <2>4, Zenon
<1>4. \A c \in Cores, s \in Sources, k \in Nat : UpdatedAt(c, s, k)
  BY <1>3, UpdatedL1, UpdatedL2 DEF UpdatedAt
<1>5. \A c \in Cores, s \in Sources, k \in Nat : Chained(c, s, k)'
  BY <1>4, ChainWoken
<1>6. OneEach(l3_miss_buffer') /\ L3Done'
  BY <1>1 DEF ChainInv, L3Done
<1>7. InstructionsOnce' /\ L1Done' /\ L2InOrder'
  BY UpdatedL1, UpdatedL2
<1> QED
  BY <1>5, <1>6, <1>7 DEF ChainInv

-------------------------------------------------------------------------------
(***************************************************************************)
(* Every step, and the theorem.                                            *)
(***************************************************************************)
LEMMA ChainStart ==
  ASSUME Init
  PROVE  ChainInv
<1>1. /\ \A c \in Cores : l2_miss_buffer[c] = <<>> /\ l1_miss_buffer[c]["I"] = <<>>
      /\ \A c \in Cores, s \in Sources : l1_miss_buffer[c][s] = <<>>
      /\ l3_miss_buffer = <<>>
  BY DEF Init, Sources
<1>2. DOMAIN <<>> = {}
  OBVIOUS
<1>3. InstructionsOnce
  BY <1>1, <1>2 DEF InstructionsOnce, Instructions, IdsOnce
<1>4. L1Done
  BY <1>1, <1>2 DEF L1Done, DoneAfterL2
<1>5. L2InOrder
  BY <1>1, <1>2 DEF L2InOrder, Ordered
<1>6. OneEach(l3_miss_buffer) /\ L3Done
  BY <1>1, <1>2 DEF OneEach, L3Done
<1>7. ASSUME NEW c \in Cores, NEW s \in Sources, NEW k \in Nat
      PROVE  Chained(c, s, k)
  <2>1. ~ TurnAt(c, s, k)
    BY <1>1, <1>2 DEF TurnAt, Live
  <2>2. ~ KnownAt(c, s, k)
    BY <1>1, <1>2 DEF KnownAt, Known
  <2>3. ~ WaitsAt(c, s, k)
    BY <1>1, <1>2 DEF WaitsAt, Waiter
  <2> QED
    BY <2>1, <2>2, <2>3, OpensIsKnown DEF Chained
<1> QED
  BY <1>3, <1>4, <1>5, <1>6, <1>7 DEF ChainInv

\* The steps that leave the buffers of L1, or of L2, alone.
LEMMA QuietL1 ==
  ASSUME InstructionsOnce,
         \/ UNCHANGED vars
         \/ \E t \in at_memory : MemoryReplies(t)
         \/ Begin \/ MemoryCompletes \/ EndMemory \/ NoWalkOver \/ LLC_to_memory
         \/ RemoveFromL3 \/ EndL3 \/ ForwardNextCore \/ EndForward
         \/ EndAccessL2 \/ RemoveFromL2 \/ EndL2 \/ NoIcacheFill \/ EndL1
         \/ NoFetch \/ PortTaken \/ NoSearch
  PROVE  L1Still
<1>1. UNCHANGED <<asked, dtlb_miss_buffer, l1_miss_buffer>>
  BY DEF vars, missVars, askVars, MemoryReplies, Begin, MemoryCompletes, EndMemory,
         NoWalkOver, LLC_to_memory, RemoveFromL3, EndL3, ForwardNextCore, EndForward,
         EndAccessL2, RemoveFromL2, EndL2, NoIcacheFill, EndL1, NoFetch, PortTaken, NoSearch
<1> QED
  BY <1>1, L1Unchanged

LEMMA QuietL2 ==
  ASSUME L2InOrder,
         \/ UNCHANGED vars
         \/ \E t \in at_memory : MemoryReplies(t)
         \/ Begin \/ MemoryCompletes \/ EndMemory \/ dtlb_mshr_update \/ NoWalkOver
         \/ LLC_to_memory \/ RemoveFromL3 \/ EndL3 \/ ForwardNextCore \/ EndForward
         \/ EndAccessL2 \/ EndL2 \/ FillIcache \/ NoIcacheFill \/ RemoveFromL1 \/ EndL1
         \/ NoFetch \/ PortTaken \/ NoSearch \/ FetchInst \/ SearchL1 \/ DTLB_MISS
  PROVE  L2Still
<1>1. UNCHANGED l2_miss_buffer
  BY DEF vars, missVars, askVars, MemoryReplies, Begin, MemoryCompletes, EndMemory,
         dtlb_mshr_update, NoWalkOver, LLC_to_memory, RemoveFromL3, EndL3,
         ForwardNextCore, EndForward, EndAccessL2, EndL2, FillIcache, NoIcacheFill,
         RemoveFromL1, EndL1, NoFetch, PortTaken, NoSearch, FetchInst, SearchL1, DTLB_MISS
<1> QED
  BY <1>1, L2Unchanged

\* The invariant is kept, and it implies what the run checks.
LEMMA ChainSteps ==
  ASSUME Typed, Kept, BehindTyped, ChainInv, NoneLeftOut, [Next]_vars
  PROVE  ChainInv'
<1>0. InstructionsOnce /\ L1Done /\ L2InOrder /\ OneEach(l3_miss_buffer) /\ L3Done
  BY DEF ChainInv
<1>1. CASE \/ UNCHANGED vars
           \/ \E t \in at_memory : MemoryReplies(t)
           \/ EndMemory \/ NoWalkOver \/ EndL3 \/ ForwardNextCore \/ EndForward
           \/ EndAccessL2 \/ EndL2 \/ NoIcacheFill \/ EndL1
           \/ NoFetch \/ PortTaken \/ NoSearch
  <2>1. L1Still
    BY <1>0, <1>1, QuietL1
  <2>2. L2Still
    BY <1>0, <1>1, QuietL2
  <2>3. L3Still
    BY <1>0, <1>1, QuietL3
  <2> QED
    BY <2>1, <2>2, <2>3, ChainStill
<1>2. CASE Begin \/ MemoryCompletes \/ LLC_to_memory \/ RemoveFromL3
  <2>1. L1Still
    BY <1>0, <1>2, QuietL1
  <2>2. L2Still
    BY <1>0, <1>2, QuietL2
  <2>3. L3Still
    BY <1>0, <1>2, BeginL3, MemoryCompletesL3, LLCL3, RemoveFromL3Requests
  <2> QED
    BY <2>1, <2>2, <2>3, ChainStill
<1>3. CASE dtlb_mshr_update \/ FillIcache \/ RemoveFromL1 \/ FetchInst \/ SearchL1 \/ DTLB_MISS
  <2>1. L1Still
    BY <1>0, <1>3, DtlbUpdateWaits, FillIcacheWaits, RemoveFromL1Waits, FetchInstWaits,
       SearchL1Waits, DtlbMissWaits
  <2>2. L2Still
    BY <1>0, <1>3, QuietL2
  <2>3. L3Still
    BY <1>0, <1>3, QuietL3
  <2> QED
    BY <2>1, <2>2, <2>3, ChainStill
<1>4. CASE RemoveFromL2
  <2>1. L1Still /\ L2Still /\ L3Still
    BY <1>0, <1>4, QuietL1, RemoveFromL2Turns, QuietL3
  <2> QED
    BY <2>1, ChainStill
<1>5. CASE Tick
  <2>1. L1Still /\ L2Still /\ L3Still
    BY <1>0, <1>5, TickWaits, TickTurns, TickL3
  <2> QED
    BY <2>1, ChainStill
<1>6. CASE update_caches \/ ForwardHit \/ ForwardMiss \/ AccessL2
  BY <1>6, UpdateCachesChain, ForwardHitChain, ForwardMissChain, AccessL2Chain
<1>7. \/ UNCHANGED vars
      \/ \E t \in at_memory : MemoryReplies(t)
      \/ Begin \/ Update \/ NoFetch \/ PortTaken \/ NoSearch \/ Tick
      \/ FetchInst \/ SearchL1 \/ DTLB_MISS
  BY DEF Next, Cycle, Search, Replies
<1>8. Update => \/ MemoryCompletes \/ EndMemory \/ update_caches
                \/ dtlb_mshr_update \/ NoWalkOver \/ LLC_to_memory
                \/ RemoveFromL3 \/ EndL3
                \/ ForwardHit \/ ForwardMiss \/ ForwardNextCore \/ EndForward
                \/ AccessL2 \/ EndAccessL2 \/ RemoveFromL2 \/ EndL2
                \/ FillIcache \/ NoIcacheFill \/ RemoveFromL1 \/ EndL1
  BY DEF Update
<1> QED
  BY <1>1, <1>2, <1>3, <1>4, <1>5, <1>6, <1>7, <1>8, Zenon

LEMMA ChainWakes ==
  ASSUME Typed, BehindTyped, ChainInv
  PROVE  WakeUpChain
<1> SUFFICES ASSUME NEW c \in Cores, NEW s \in Sources,
                    NEW i \in DOMAIN l1_miss_buffer[c][s], Waits(c, s, i)
             PROVE  ToBeWoken(c, s, l1_miss_buffer[c][s][i].id)
  BY DEF WakeUpChain
<1>1. PICK k : k = l1_miss_buffer[c][s][i].id
  OBVIOUS
<1>2. k \in Nat
  <2>1. PICK m : m = l1_miss_buffer[c][s]
    OBVIOUS
  <2>2. m \in Misses /\ i \in DOMAIN m
    BY <2>1 DEF Typed
  <2>3. m[i] \in Miss
    BY <2>2, ElementsTyped DEF Misses
  <2> QED
    BY <1>1, <2>1, <2>3 DEF Miss
<1>3. WaitsAt(c, s, k)
  BY <1>1 DEF Waits, WaitsAt, Waiter
<1>4. TurnAt(c, s, k) \/ OpenAt(c, s, k)
  BY <1>2, <1>3 DEF ChainInv, Chained
<1>5. CASE TurnAt(c, s, k)
  <2>1. \E j \in DOMAIN l2_miss_buffer[c] :
          /\ l2_miss_buffer[c][j].src = s /\ l2_miss_buffer[c][j].id = k
          /\ l2_miss_buffer[c][j].at2 # Off
    BY <1>5 DEF TurnAt, Live
  <2> QED
    BY <1>1, <2>1 DEF ToBeWoken
<1>6. CASE OpenAt(c, s, k)
  <2>1. PICK j \in DOMAIN l3_miss_buffer :
          /\ Knows(l3_miss_buffer[j], <<c, s, k>>)
          /\ l3_miss_buffer[j].done = Off \/ Gathering(stage)
    BY <1>6 DEF OpenAt, Open
  <2>2. PICK e : e = l3_miss_buffer[j]
    OBVIOUS
  <2>3. e \in MissL3
    BY <2>2, ElementsTyped DEF BehindTyped
  <2>4. PICK d, z, x : d = e.core /\ z = e.src /\ x = e.id
    OBVIOUS
  <2>5. d \in Cores /\ z \in Sources /\ x \in Nat /\ First(e) = <<d, z, x>>
    BY <2>3, <2>4 DEF MissL3, First
  <2>6. OpensAt(d, z, x)
    BY <2>1, <2>2, <2>5 DEF OpensAt, Opens
  <2>7. WaitsAt(d, z, x)
    BY <2>5, <2>6 DEF ChainInv, Chained
  <2>8. Named(l1_miss_buffer[e.core][e.src], e.id) # {}
    BY <2>4, <2>7 DEF WaitsAt, Waiter, Named
  <2>9. /\ e.done = Off \/ stage \in {"memory", "caches"}
        /\ First(e) = <<c, s, k>> \/ <<c, s, k>> \in Merged(e)
    BY <2>1, <2>2 DEF Knows, Gathering
  <2> QED
    BY <1>1, <2>2, <2>8, <2>9, Zenon DEF ToBeWoken
<1> QED
  BY <1>4, <1>5, <1>6

\* For every number of cores, every workload and all sizes: whoever waits below
\* L1 is woken (WakeUpChain), as long as update_l3_mshr leaves out no miss of L3
\* that update_caches has completed (TLB_Cache.cpp).  The condition is not
\* idle: with one left out, a miss that comes later merges with it and waits.
THEOREM CachesWakeUps == Spec /\ []NoneLeftOut => []WakeUpChain
<1>1. Init => CachesInv /\ ChainInv
  BY Start, StartSized, StartWithin, StartIn, StartBehind, ChainStart DEF CachesInv
<1>2. CachesInv /\ [Next]_vars => CachesInv'
  BY CachesInvSteps
<1>3. CachesInv /\ ChainInv /\ NoneLeftOut /\ [Next]_vars => ChainInv'
  BY ChainSteps DEF CachesInv
<1>4. CachesInv /\ ChainInv => WakeUpChain
  BY ChainWakes DEF CachesInv
<1> QED
  BY <1>1, <1>2, <1>3, <1>4, PTL DEF Spec
===============================================================================
