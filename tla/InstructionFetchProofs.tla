------------------------ MODULE InstructionFetchProofs ------------------------
(***************************************************************************)
(* Theorems about InstructionFetch, for every program and every size of    *)
(* the buffers: what the decoder gets, in which order, and that the lines  *)
(* have come before it.                                                    *)
(*                                                                         *)
(* The instructions of the program lie in a line: the decoded ones, then   *)
(* inst_queue, then temp up to last_ins_id, then those that miss or wait,  *)
(* mixed, up to the first of core_inst_stream.  Every step moves one of    *)
(* the borders between them.                                               *)
(***************************************************************************)
EXTENDS InstructionFetch, FiniteSetTheorems, SequenceTheorems, TLAPS

(***************************************************************************)
(* The inductive invariant, for the program p: a record f of the places,   *)
(* k decoded instructions, and next, the first of the stream.              *)
(***************************************************************************)
NextFetch == INS_id - Len(core_inst_stream)

\* s is a + 1, a + 2, ...
Run(s, a) ==
  s \in Seq(Nat) /\ \A i \in 1 .. Len(s) : s[i] = a + i

First(s, n) == {s[i] : i \in 1 .. n}

Ascending(s) ==
  s \in Seq(Nat) /\ \A i, j \in 1 .. Len(s) : i < j => s[i] < s[j]

Misses == Seq([id : Nat, done : BOOLEAN])

OldestFirst(miss) ==
  miss \in Misses /\ \A i, j \in 1 .. Len(miss) : i < j => miss[i].id < miss[j].id

Ids(miss) == {miss[i].id : i \in 1 .. Len(miss)}

\* Those from last + 1 to next - 1 are in the set M or in wait.
Between(M, wait, last, next) ==
  /\ last < next
  /\ M \subseteq last + 1 .. next - 1
  /\ Ascending(wait)
  /\ \A i \in 1 .. Len(wait) : wait[i] \in last + 1 .. next - 1 /\ wait[i] \notin M
  /\ \A id \in last + 1 .. next - 1 :
       id \in M \/ \E i \in 1 .. Len(wait) : wait[i] = id

Typed(f) ==
  /\ f = [il1 |-> f.il1, miss |-> f.miss, wait |-> f.wait, temp |-> f.temp,
          queue |-> f.queue, last |-> f.last, filled |-> f.filled]
  /\ f.last \in Nat

\* What has been sent: the queue, then temp.
Sent(f, k) ==
  /\ Run(f.temp, f.last - Len(f.temp))
  /\ f.last - Len(f.temp) - k \in 0 .. iqueue_size
  /\ f.queue = k + 1 .. f.last - Len(f.temp)

\* What has been fetched and not sent.
Unsent(f, next) ==
  OldestFirst(f.miss) /\ Between(Ids(f.miss), f.wait, f.last, next)

\* A line has come before anything of it is sent; whoever waits for one that has
\* not come waits behind an older miss.
Covered(p, f) ==
  /\ \A id \in 1 .. f.last : p[id].block \in f.filled
  /\ \A j \in 1 .. Len(f.wait) :
       \/ p[f.wait[j]].block \in f.filled
       \/ \E id \in Ids(f.miss) : id < f.wait[j] /\ p[id].block = p[f.wait[j]].block
  /\ \A w \in DOMAIN f.il1.tags : f.il1.tags[w] \in f.filled \union {NoTag}

InLine(p, f, k, next) ==
  Typed(f) /\ Sent(f, k) /\ Unsent(f, next) /\ Covered(p, f)

\* temp holds something only behind a full queue.
Packed(f, k) == f.temp = <<>> \/ f.last - Len(f.temp) - k >= iqueue_size

-------------------------------------------------------------------------------
(***************************************************************************)
(* The least and the largest of a bounded set of numbers.                  *)
(***************************************************************************)
LEMMA LeastOf ==
  ASSUME NEW T \in SUBSET Nat, T # {}
  PROVE  \E t \in T : \A u \in T : t <= u
<1>1. OpToRel(<, Nat) = {ss \in Nat \X Nat : ss[1] < ss[2]}
  BY DEF OpToRel
<1>2. IsWellFoundedOn(OpToRel(<, Nat), Nat)
  BY NatLessThanWellFounded
<1>3. PICK t \in T : \A u \in T : ~ (<<u, t>> \in OpToRel(<, Nat))
  BY <1>2, WFMin
<1>4. ASSUME NEW u \in T, u < t
      PROVE  FALSE
  <2>1. <<u, t>> \in Nat \X Nat /\ <<u, t>>[1] < <<u, t>>[2]
    BY <1>4
  <2>2. <<u, t>> \in OpToRel(<, Nat)
    BY <2>1, <1>1
  <2> QED
    BY <2>2, <1>3
<1> QED
  BY <1>4

LEMMA MaxOf ==
  ASSUME NEW S \in SUBSET Nat, NEW b \in Nat, S # {}, \A x \in S : x <= b
  PROVE  Max(S) \in S /\ \A x \in S : x <= Max(S)
<1> DEFINE T == {b - x : x \in S}
<1>1. T \subseteq Nat
  OBVIOUS
<1>2. T # {}
  OBVIOUS
<1>3. \E t \in T : \A u \in T : t <= u
  <2> HIDE DEF T
  <2> QED
    BY <1>1, <1>2, LeastOf
<1>4. PICK t \in T : \A u \in T : t <= u
  BY <1>3
<1>5. PICK m \in S : t = b - m
  OBVIOUS
<1>6. \A x \in S : b - x \in T
  OBVIOUS
<1>7. \A x \in S : t <= b - x
  BY <1>4, <1>6
<1>8. \A x \in S : m >= x
  BY <1>5, <1>7
<1> DEFINE Top(x) == x \in S /\ \A y \in S : x >= y
<1>9. \E x : Top(x)
  BY <1>8
<1>10. Max(S) = CHOOSE x : Top(x)
  BY DEF Max
<1>11. Top(Max(S))
  BY <1>9, <1>10
<1> QED
  BY <1>11

LEMMA OfTwo ==
  ASSUME NEW a \in Int, NEW b \in Int
  PROVE  /\ Min({a, b}) = IF a <= b THEN a ELSE b
         /\ Max({a, b}) = IF a <= b THEN b ELSE a
BY DEF Min, Max

\* The waiting instructions that continue the program.
LEMMA ContinuingIs ==
  ASSUME NEW f, f.wait \in Seq(Nat), NEW lines
  PROVE  /\ Continuing(f, lines) \in 0 .. Len(f.wait)
         /\ \A i \in 1 .. Continuing(f, lines) :
              f.wait[i] = f.last + i /\ Block(f.wait[i]) \in lines
<1> DEFINE S == {n \in 0 .. Len(f.wait) :
                   \A i \in 1 .. n : f.wait[i] = f.last + i
                                       /\ Block(f.wait[i]) \in lines}
<1>1. Len(f.wait) \in Nat
  OBVIOUS
<1>2. 0 \in S /\ S \in SUBSET Nat /\ \A n \in S : n <= Len(f.wait)
  BY <1>1
<1>3. Max(S) \in S
  BY <1>1, <1>2, MaxOf
<1>4. Continuing(f, lines) = Max(S)
  BY DEF Continuing
<1> QED
  BY <1>3, <1>4

-------------------------------------------------------------------------------
(***************************************************************************)
(* Sequences of consecutive and of ascending numbers.                      *)
(***************************************************************************)
LEMMA RunPrefix ==
  ASSUME NEW a \in Int, NEW s, Run(s, a), NEW n \in 0 .. Len(s)
  PROVE  First(s, n) = a + 1 .. a + n
<1>1. Len(s) \in Nat
  BY DEF Run
<1>2. \A i \in 1 .. n : i \in 1 .. Len(s)
  BY <1>1
<1>3. \A i \in 1 .. n : s[i] = a + i
  BY <1>2 DEF Run
<1>4. ASSUME NEW x \in a + 1 .. a + n
      PROVE  x \in {s[i] : i \in 1 .. n}
  <2>1. x - a \in 1 .. n /\ x = a + (x - a)
    BY <1>1
  <2> QED
    BY <2>1, <1>3
<1>5. ASSUME NEW i \in 1 .. n
      PROVE  s[i] \in a + 1 .. a + n
  BY <1>1, <1>3
<1> QED
  BY <1>4, <1>5 DEF First

LEMMA RunRest ==
  ASSUME NEW a \in Int, NEW s, Run(s, a), NEW n \in 0 .. Len(s)
  PROVE  /\ Run(SubSeq(s, n + 1, Len(s)), a + n)
         /\ Len(SubSeq(s, n + 1, Len(s))) = Len(s) - n
<1> DEFINE t == SubSeq(s, n + 1, Len(s))
<1>1. s \in Seq(Nat) /\ Len(s) \in Nat
  BY DEF Run
<1>2. t \in Seq(Nat) /\ Len(t) = Len(s) - n
  BY <1>1
<1>3. ASSUME NEW i \in 1 .. Len(t)
      PROVE  t[i] = s[n + i] /\ n + i \in 1 .. Len(s)
  BY <1>1, <1>2
<1> HIDE DEF t
<1>4. ASSUME NEW i \in 1 .. Len(t)
      PROVE  t[i] = a + n + i
  <2>1. s[n + i] = a + (n + i)
    BY <1>3 DEF Run
  <2> QED
    BY <1>1, <1>2, <1>3, <2>1
<1>5. Run(t, a + n)
  BY <1>2, <1>4 DEF Run
<1> QED
  BY <1>2, <1>5 DEF t

LEMMA RunFirst ==
  ASSUME NEW s \in Seq(Nat), NEW a \in Int, NEW n \in 0 .. Len(s),
         \A i \in 1 .. n : s[i] = a + i
  PROVE  /\ Run(SubSeq(s, 1, n), a)
         /\ Len(SubSeq(s, 1, n)) = n
<1> DEFINE t == SubSeq(s, 1, n)
<1>2. t \in Seq(Nat) /\ Len(t) = n /\ \A i \in 1 .. n : t[i] = s[i]
  OBVIOUS
<1> HIDE DEF t
<1>5. Run(t, a)
  BY <1>2 DEF Run
<1> QED
  BY <1>2, <1>5 DEF t

LEMMA RunJoin ==
  ASSUME NEW a \in Int, NEW s, Run(s, a), NEW t, Run(t, a + Len(s)),
         NEW u, u = s \o t
  PROVE  Run(u, a)
<1>1. s \in Seq(Nat) /\ Len(s) \in Nat /\ t \in Seq(Nat) /\ Len(t) \in Nat
  BY DEF Run
<1>2. s \o t \in Seq(Nat) /\ Len(s \o t) = Len(s) + Len(t)
  BY <1>1
<1>3. ASSUME NEW i \in 1 .. Len(s) + Len(t)
      PROVE  (s \o t)[i] = a + i
  <2>1. CASE i <= Len(s)
    <3>1. i \in 1 .. Len(s) /\ (s \o t)[i] = s[i]
      BY <1>1, <2>1
    <3> QED
      BY <3>1 DEF Run
  <2>2. CASE ~ (i <= Len(s))
    <3>1. i - Len(s) \in 1 .. Len(t) /\ (s \o t)[i] = t[i - Len(s)]
      BY <1>1, <2>2
    <3>2. t[i - Len(s)] = a + Len(s) + (i - Len(s))
      BY <3>1 DEF Run
    <3> QED
      BY <1>1, <3>1, <3>2
  <2> QED
    BY <2>1, <2>2
<1> QED
  BY <1>2, <1>3 DEF Run

LEMMA AscendingRest ==
  ASSUME NEW s, Ascending(s), NEW n \in 0 .. Len(s)
  PROVE  LET t == SubSeq(s, n + 1, Len(s)) IN
         /\ Ascending(t) /\ Len(t) = Len(s) - n
         /\ \A i \in 1 .. Len(t) : t[i] = s[n + i] /\ n + i \in 1 .. Len(s)
<1> DEFINE t == SubSeq(s, n + 1, Len(s))
<1>1. s \in Seq(Nat) /\ Len(s) \in Nat
  BY DEF Ascending
<1>2. t \in Seq(Nat) /\ Len(t) = Len(s) - n
  BY <1>1
<1>3. ASSUME NEW i \in 1 .. Len(t)
      PROVE  t[i] = s[n + i] /\ n + i \in 1 .. Len(s)
  <2>1. i \in 1 .. Len(s) - n /\ n + i \in 1 .. Len(s)
    BY <1>1, <1>2
  <2> QED
    BY <1>1, <2>1
<1> HIDE DEF t
<1>4. ASSUME NEW i \in 1 .. Len(t), NEW j \in 1 .. Len(t), i < j
      PROVE  t[i] < t[j]
  <2>1. n + i < n + j
    BY <1>2, <1>4
  <2> QED
    BY <1>3, <2>1 DEF Ascending
<1> QED
  BY <1>2, <1>3, <1>4 DEF Ascending, t

\* A wait of n instructions that continue the program moves the border.
LEMMA BetweenRest ==
  ASSUME NEW M \in SUBSET Nat, NEW wait, NEW last \in Nat, NEW next \in Nat,
         Between(M, wait, last, next),
         NEW n \in 0 .. Len(wait), \A i \in 1 .. n : wait[i] = last + i
  PROVE  /\ Between(M, SubSeq(wait, n + 1, Len(wait)), last + n, next)
         /\ \A i \in 1 .. n : \A id \in M : ~ (id < wait[i])
<1> DEFINE t == SubSeq(wait, n + 1, Len(wait))
<1>1. Ascending(wait) /\ wait \in Seq(Nat) /\ Len(wait) \in Nat
  BY DEF Between, Ascending
<1>2. /\ Ascending(t) /\ Len(t) = Len(wait) - n
      /\ \A i \in 1 .. Len(t) : t[i] = wait[n + i] /\ n + i \in 1 .. Len(wait)
  BY <1>1, AscendingRest
<1> HIDE DEF t
<1>3. \A i \in 1 .. n : i \in 1 .. Len(wait)
  BY <1>1
<1>4. last + n < next
  <2>1. CASE n = 0
    BY <2>1 DEF Between
  <2>2. CASE n > 0
    <3>1. n \in 1 .. n /\ n \in 1 .. Len(wait)
      BY <2>2, <1>1
    <3>2. wait[n] \in last + 1 .. next - 1 /\ wait[n] = last + n
      BY <3>1 DEF Between
    <3> QED
      BY <3>2
  <2> QED
    BY <2>1, <2>2, <1>1
<1>5. ASSUME NEW id \in last + 1 .. next - 1, id \notin {wait[i] : i \in 1 .. n}
      PROVE  id \in last + n + 1 .. next - 1
  <2>1. id - last \in 1 .. n => id = wait[id - last]
    BY <1>1
  <2>2. id - last \notin 1 .. n
    BY <1>5, <2>1
  <2> QED
    BY <1>1, <2>2
<1>6. M \subseteq last + n + 1 .. next - 1
  <2>1. ASSUME NEW id \in M
        PROVE  id \in last + 1 .. next - 1 /\ id \notin {wait[i] : i \in 1 .. n}
    BY <1>3 DEF Between
  <2> QED
    BY <2>1, <1>5
<1>7. ASSUME NEW i \in 1 .. Len(t)
      PROVE  t[i] \in last + n + 1 .. next - 1 /\ t[i] \notin M
  <2>1. t[i] = wait[n + i] /\ n + i \in 1 .. Len(wait) /\ i \in Nat /\ i > 0
    BY <1>2, <1>1
  <2>2. t[i] \in last + 1 .. next - 1 /\ t[i] \notin M
    BY <2>1 DEF Between
  <2>3. ASSUME NEW j \in 1 .. n
        PROVE  wait[j] < t[i]
    <3>1. j \in 1 .. Len(wait) /\ j < n + i
      BY <2>1, <1>3
    <3> QED
      BY <3>1, <2>1, <1>1 DEF Ascending
  <2>4. t[i] \notin {wait[j] : j \in 1 .. n}
    <3>1. t[i] \in Int /\ ~ (t[i] < t[i])
      BY <2>2
    <3>2. \A j \in 1 .. n : wait[j] # t[i]
      BY <2>3, <3>1, Zenon
    <3> QED
      BY <3>2, Zenon
  <2> QED
    BY <2>2, <2>4, <1>5
<1>8. ASSUME NEW id \in last + n + 1 .. next - 1
      PROVE  id \in M \/ \E i \in 1 .. Len(t) : t[i] = id
  <2>1. id \in last + 1 .. next - 1
    BY <1>1
  <2>2. CASE \E i \in 1 .. Len(wait) : wait[i] = id
    <3>1. PICK i \in 1 .. Len(wait) : wait[i] = id
      BY <2>2
    <3>2. i \notin 1 .. n
      <4>1. i \in 1 .. n => id = last + i
        BY <3>1
      <4> QED
        BY <4>1, <1>1
    <3>3. i - n \in 1 .. Len(t) /\ n + (i - n) = i
      BY <1>1, <1>2, <3>2
    <3>4. t[i - n] = id
      BY <1>2, <3>1, <3>3
    <3> QED
      BY <3>3, <3>4
  <2> QED
    BY <2>1, <2>2 DEF Between
<1>9. Between(M, t, last + n, next)
  BY <1>2, <1>4, <1>6, <1>7, <1>8 DEF Between
<1>10. ASSUME NEW i \in 1 .. n, NEW id \in M
       PROVE  ~ (id < wait[i])
  <2>1. id \in last + n + 1 .. next - 1 /\ wait[i] = last + i
    BY <1>6
  <2> QED
    BY <2>1, <1>1
<1> QED
  BY <1>9, <1>10 DEF t

\* The oldest miss, taken off.
LEMMA OldestOff ==
  ASSUME NEW miss, OldestFirst(miss), miss # <<>>
  PROVE  /\ OldestFirst(Tail(miss)) /\ Len(Tail(miss)) = Len(miss) - 1
         /\ Head(miss).id \in Ids(miss) /\ Head(miss).id \in Nat
         /\ Ids(Tail(miss)) = Ids(miss) \ {Head(miss).id}
         /\ \A id \in Ids(miss) : id \in Nat /\ Head(miss).id <= id
<1> DEFINE t == Tail(miss)
<1>1. miss \in Misses /\ Len(miss) \in Nat /\ Len(miss) >= 1
  BY DEF OldestFirst, Misses
<1>2. /\ t \in Misses /\ Len(t) = Len(miss) - 1 /\ Head(miss) = miss[1]
      /\ \A i \in 1 .. Len(t) : t[i] = miss[i + 1]
  BY <1>1, HeadTailProperties DEF Misses
<1> HIDE DEF t
<1>3. \A i \in 1 .. Len(t) : i + 1 \in 2 .. Len(miss)
  BY <1>1, <1>2
<1>4. \A i \in 1 .. Len(miss) : miss[i].id \in Nat
  <2>1. \A i \in 1 .. Len(miss) : miss[i] \in [id : Nat, done : BOOLEAN]
    BY <1>1, ElementOfSeq DEF Misses
  <2> QED
    BY <2>1
<1>5. \A i \in 2 .. Len(miss) : miss[1].id < miss[i].id
  BY <1>1 DEF OldestFirst
<1>6. ASSUME NEW i \in 1 .. Len(t), NEW j \in 1 .. Len(t), i < j
      PROVE  t[i].id < t[j].id
  <2>1. /\ i + 1 \in 1 .. Len(miss) /\ j + 1 \in 1 .. Len(miss) /\ i + 1 < j + 1
    BY <1>1, <1>2, <1>6
  <2> QED
    BY <2>1, <1>2 DEF OldestFirst
<1>7. OldestFirst(t)
  BY <1>2, <1>6 DEF OldestFirst
<1>8. \A i \in 2 .. Len(miss) : i - 1 \in 1 .. Len(t) /\ t[i - 1] = miss[i]
  BY <1>1, <1>2
<1>9. Ids(t) = {miss[i].id : i \in 2 .. Len(miss)}
  BY <1>2, <1>3, <1>8 DEF Ids
<1>10. Ids(miss) = {miss[i].id : i \in 2 .. Len(miss)} \union {miss[1].id}
  <2>1. 1 .. Len(miss) = 2 .. Len(miss) \union {1}
    BY <1>1
  <2> QED
    BY <2>1 DEF Ids
<1>11. miss[1].id \notin {miss[i].id : i \in 2 .. Len(miss)}
  BY <1>1, <1>4, <1>5
<1>12. 1 \in 1 .. Len(miss)
  BY <1>1
<1>13. \A id \in Ids(miss) : id \in Nat /\ miss[1].id <= id
  BY <1>4, <1>5, <1>10, <1>12
<1> QED
  BY <1>2, <1>4, <1>7, <1>9, <1>10, <1>11, <1>12, <1>13 DEF t

\* A miss of the first instruction of the stream, put behind the others.
LEMMA NewestOn ==
  ASSUME NEW miss, OldestFirst(miss), NEW next \in Nat,
         \A id \in Ids(miss) : id < next
  PROVE  LET m == Append(miss, [id |-> next, done |-> FALSE]) IN
         OldestFirst(m) /\ Ids(m) = Ids(miss) \union {next}
<1> DEFINE r == [id |-> next, done |-> FALSE]
<1> DEFINE m == Append(miss, r)
<1>1. miss \in Misses /\ Len(miss) \in Nat
  BY DEF OldestFirst, Misses
<1>2. r \in [id : Nat, done : BOOLEAN] /\ r.id = next
  OBVIOUS
<1> HIDE DEF r
<1>3. /\ m \in Misses /\ Len(m) = Len(miss) + 1 /\ m[Len(miss) + 1] = r
      /\ \A i \in 1 .. Len(miss) : m[i] = miss[i]
  BY <1>1, <1>2, AppendProperties DEF Misses
<1> HIDE DEF m
<1>4. 1 .. Len(m) = 1 .. Len(miss) \union {Len(miss) + 1}
  BY <1>1, <1>3
<1>5. Ids(m) = Ids(miss) \union {next}
  BY <1>2, <1>3, <1>4 DEF Ids
<1>6. ASSUME NEW i \in 1 .. Len(m), NEW j \in 1 .. Len(m), i < j
      PROVE  m[i].id < m[j].id
  <2>1. i \in 1 .. Len(miss)
    BY <1>1, <1>3, <1>6
  <2>2. CASE j \in 1 .. Len(miss)
    BY <2>1, <2>2, <1>3, <1>6 DEF OldestFirst
  <2>3. CASE j = Len(miss) + 1
    BY <2>1, <2>3, <1>2, <1>3 DEF Ids
  <2> QED
    BY <2>2, <2>3, <1>4
<1> QED
  BY <1>3, <1>5, <1>6 DEF OldestFirst, m, r

\* An answer changes no id.
LEMMA AnswerKeeps ==
  ASSUME NEW miss, OldestFirst(miss), NEW i \in DOMAIN miss
  PROVE  LET m == [miss EXCEPT ![i].done = TRUE] IN
         OldestFirst(m) /\ Ids(m) = Ids(miss) /\ Len(m) = Len(miss)
<1> DEFINE r == [miss[i] EXCEPT !.done = TRUE]
<1> DEFINE m == [miss EXCEPT ![i] = r]
<1>1. miss \in Misses /\ Len(miss) \in Nat /\ i \in 1 .. Len(miss)
  BY DEF OldestFirst, Misses
<1>2. miss[i] \in [id : Nat, done : BOOLEAN]
  BY <1>1, ElementOfSeq DEF Misses
<1>3. r \in [id : Nat, done : BOOLEAN] /\ r.id = miss[i].id
  BY <1>2
<1> HIDE DEF r
<1>4. /\ m \in Misses /\ Len(m) = Len(miss)
      /\ \A j \in 1 .. Len(miss) : m[j] = IF j = i THEN r ELSE miss[j]
  BY <1>1, <1>3, ExceptSeq DEF Misses
<1> HIDE DEF m
<1>5. \A j \in 1 .. Len(miss) : m[j].id = miss[j].id
  BY <1>3, <1>4
<1>6. Ids(m) = Ids(miss)
  BY <1>4, <1>5 DEF Ids
<1>7. OldestFirst(m)
  BY <1>4, <1>5 DEF OldestFirst
<1> QED
  BY <1>4, <1>6, <1>7 DEF m, r

-------------------------------------------------------------------------------
(***************************************************************************)
(* The parts of update_icache_mshr.                                        *)
(***************************************************************************)
LEMMA FillLineKeeps ==
  ASSUME NEW f, NEW k \in Nat, NEW next \in Nat, InLine(program, f, k, next)
  PROVE  /\ InLine(program, FillLine(f), k, next) /\ FillLine(f).miss = f.miss
         /\ Arrived(FillLine(f)) =>
              Block(Head(FillLine(f).miss).id) \in FillLine(f).filled
<1> DEFINE b == Block(Head(f.miss).id)
<1> DEFINE tags == f.il1.tags
<1> DEFINE tags2 == [tags EXCEPT ![f.il1.next] = b]
<1>1. CASE ~ Arrived(f)
  BY <1>1 DEF FillLine
<1>2. CASE Arrived(f)
  <2> DEFINE g == FillLine(f)
  <2>1. g = [f EXCEPT !.il1 = Replace(f.il1, b), !.filled = f.filled \union {b}]
    BY <1>2 DEF FillLine
  <2>2. /\ g = [il1 |-> g.il1, miss |-> g.miss, wait |-> g.wait, temp |-> g.temp,
               queue |-> g.queue, last |-> g.last, filled |-> g.filled]
        /\ g.miss = f.miss /\ g.wait = f.wait /\ g.temp = f.temp
        /\ g.queue = f.queue /\ g.last = f.last
        /\ g.filled = f.filled \union {b} /\ g.il1 = Replace(f.il1, b)
    <3>1. f = [il1 |-> f.il1, miss |-> f.miss, wait |-> f.wait, temp |-> f.temp,
               queue |-> f.queue, last |-> f.last, filled |-> f.filled]
      BY DEF InLine, Typed
    <3> HIDE DEF b, g
    <3> QED
      BY <2>1, <3>1
  <2> HIDE DEF g, b
  <2>3. g.il1.tags = tags2
    BY <2>2 DEF Replace, b
  <2>4. \A w \in DOMAIN tags2 : w \in DOMAIN tags /\ tags2[w] \in {tags[w], b}
    OBVIOUS
  <2>5. \A w \in DOMAIN tags : tags[w] \in f.filled \union {NoTag}
    BY DEF InLine, Covered, Block
  <2>6. \A w \in DOMAIN g.il1.tags : g.il1.tags[w] \in g.filled \union {NoTag}
    <3> HIDE DEF tags, tags2
    <3> QED
      BY <2>2, <2>3, <2>4, <2>5
  <2>7. Typed(g) /\ Sent(g, k) /\ Unsent(g, next)
    BY <2>2 DEF InLine, Typed, Sent, Unsent
  <2>8. Covered(program, g)
    <3>1. \A id \in 1 .. g.last : Block(id) \in g.filled
      BY <2>2 DEF InLine, Covered, Block
    <3>2. ASSUME NEW j \in 1 .. Len(g.wait)
          PROVE  \/ Block(g.wait[j]) \in g.filled
                 \/ \E id \in Ids(g.miss) : id < g.wait[j] /\ Block(id) = Block(g.wait[j])
      BY <2>2, <3>2 DEF InLine, Covered, Block
    <3> QED
      BY <2>6, <3>1, <3>2 DEF Covered, Block
  <2>9. Block(Head(g.miss).id) \in g.filled
    BY <2>2 DEF b
  <2> QED
    BY <2>2, <2>7, <2>8, <2>9 DEF InLine, g
<1> QED
  BY <1>1, <1>2

\* How long the queue is.
LEMMA QueueLength ==
  ASSUME NEW f, NEW k \in Nat, Typed(f), Sent(f, k)
  PROVE  /\ Cardinality(f.queue) = f.last - Len(f.temp) - k
         /\ Cardinality(f.queue) \in 0 .. iqueue_size
<1> DEFINE top == f.last - Len(f.temp)
<1>1. Len(f.temp) \in Nat /\ f.last \in Nat
  BY DEF Typed, Sent, Run
<1>2. top \in Int /\ top - k \in 0 .. iqueue_size /\ f.queue = k + 1 .. top
  BY <1>1 DEF Sent
<1>3. iqueue_size \in Nat
  BY FetchAssumption
<1> HIDE DEF top
<1>4. Cardinality(k + 1 .. top) = IF k + 1 > top THEN 0 ELSE top - (k + 1) + 1
  BY <1>2, FS_Interval
<1>5. Cardinality(f.queue) = top - k
  BY <1>2, <1>3, <1>4
<1> QED
  BY <1>2, <1>5 DEF top

LEMMA FromTempKeeps ==
  ASSUME NEW f, NEW k \in Nat, NEW next \in Nat, InLine(program, f, k, next)
  PROVE  /\ InLine(program, FromTemp(f), k, next) /\ Packed(FromTemp(f), k)
         /\ FromTemp(f).miss = f.miss /\ FromTemp(f).filled = f.filled
<1> DEFINE n == Min({Len(f.temp), Max({0, iqueue_size - Cardinality(f.queue)})})
<1> DEFINE g == FromTemp(f)
<1> DEFINE top == f.last - Len(f.temp)
<1> DEFINE room == iqueue_size - (top - k)
<1>1. Typed(f) /\ Sent(f, k) /\ Unsent(f, next) /\ Covered(program, f)
  BY DEF InLine
<1>2. /\ f.temp \in Seq(Nat) /\ Len(f.temp) \in Nat /\ f.last \in Nat /\ top \in Int
      /\ Run(f.temp, top) /\ f.queue = k + 1 .. top /\ top - k \in 0 .. iqueue_size
      /\ f.last = top + Len(f.temp)
  BY <1>1 DEF Typed, Sent, Run
<1>3. iqueue_size \in Nat
  BY FetchAssumption
<1>4. Cardinality(f.queue) = top - k
  BY <1>1, QueueLength
<1>5. Max({0, iqueue_size - Cardinality(f.queue)}) = room
  <2> HIDE DEF top
  <2>1. room \in Nat /\ room \in Int /\ 0 \in Int
    BY <1>2, <1>3
  <2>2. iqueue_size - Cardinality(f.queue) = room
    BY <1>4
  <2> HIDE DEF room
  <2>3. Max({0, room}) = IF 0 <= room THEN room ELSE 0
    BY <2>1, OfTwo, Zenon
  <2> QED
    BY <2>1, <2>2, <2>3
<1>6. n \in 0 .. Len(f.temp) /\ n <= room /\ (n = Len(f.temp) \/ n = room)
  <2>1. room \in Nat /\ room \in Int
    <3> HIDE DEF top
    <3> QED
      BY <1>2, <1>3
  <2>2. Len(f.temp) \in Int
    BY <1>2
  <2> HIDE DEF room
  <2>3. Min({Len(f.temp), room}) = IF Len(f.temp) <= room THEN Len(f.temp) ELSE room
    BY <2>1, <2>2, OfTwo, Zenon
  <2>4. n = IF Len(f.temp) <= room THEN Len(f.temp) ELSE room
    BY <1>5, <2>3
  <2> HIDE DEF n
  <2> QED
    BY <1>2, <2>1, <2>4
<1>7. /\ g = [il1 |-> g.il1, miss |-> g.miss, wait |-> g.wait, temp |-> g.temp,
              queue |-> g.queue, last |-> g.last, filled |-> g.filled]
      /\ g.miss = f.miss /\ g.wait = f.wait /\ g.last = f.last
      /\ g.il1 = f.il1 /\ g.filled = f.filled
      /\ g.temp = SubSeq(f.temp, n + 1, Len(f.temp))
      /\ g.queue = f.queue \union {f.temp[i] : i \in 1 .. n}
  <2>1. f = [il1 |-> f.il1, miss |-> f.miss, wait |-> f.wait, temp |-> f.temp,
             queue |-> f.queue, last |-> f.last, filled |-> f.filled]
    BY <1>1 DEF Typed
  <2>2. g = [f EXCEPT !.queue = f.queue \union {f.temp[i] : i \in 1 .. n},
                      !.temp = SubSeq(f.temp, n + 1, Len(f.temp))]
    BY DEF FromTemp
  <2> HIDE DEF n, g
  <2> QED
    BY <2>1, <2>2
<1> HIDE DEF n, g, top
<1>8. Run(g.temp, top + n) /\ Len(g.temp) = Len(f.temp) - n
  <2>1. top \in Int /\ Run(f.temp, top) /\ n \in 0 .. Len(f.temp)
    BY <1>2, <1>6
  <2>2. /\ Run(SubSeq(f.temp, n + 1, Len(f.temp)), top + n)
        /\ Len(SubSeq(f.temp, n + 1, Len(f.temp))) = Len(f.temp) - n
    BY <2>1, RunRest, Zenon
  <2> QED
    BY <1>7, <2>2
<1>9. g.last - Len(g.temp) = top + n
  <2>1. g.last = f.last /\ Len(g.temp) = Len(f.temp) - n
    BY <1>7, <1>8, Zenon
  <2>2. f.last \in Int /\ Len(f.temp) \in Int /\ n \in Int
    BY <1>2, <1>6
  <2>3. top = f.last - Len(f.temp)
    BY DEF top
  <2> QED
    BY <2>1, <2>2, <2>3
<1>10. g.queue = k + 1 .. top + n
  <2>0. top \in Int /\ Run(f.temp, top) /\ n \in 0 .. Len(f.temp)
    BY <1>2, <1>6
  <2>1. First(f.temp, n) = top + 1 .. top + n
    BY <2>0, RunPrefix, Zenon
  <2>2. n \in Nat
    BY <1>2, <1>6
  <2>3. k + 1 .. top + n = (k + 1 .. top) \union (top + 1 .. top + n)
    BY <1>2, <1>3, <2>2
  <2> QED
    BY <1>2, <1>7, <2>1, <2>3 DEF First
<1>11. Sent(g, k)
  <2>1. (top + n) - k \in 0 .. iqueue_size
    BY <1>2, <1>3, <1>6
  <2>2. Run(g.temp, g.last - Len(g.temp))
    BY <1>8, <1>9
  <2>3. g.last - Len(g.temp) - k \in 0 .. iqueue_size
    BY <1>9, <2>1, Zenon
  <2>4. g.queue = k + 1 .. g.last - Len(g.temp)
    BY <1>9, <1>10
  <2> QED
    BY <2>2, <2>3, <2>4 DEF Sent
<1>12. Typed(g)
  BY <1>1, <1>7 DEF Typed
<1>13. Unsent(g, next) /\ Covered(program, g)
  BY <1>1, <1>7 DEF Unsent, Covered, Block
<1>14. Packed(g, k)
  <2>1. CASE n = Len(f.temp)
    <3>1. Len(g.temp) = 0 /\ g.temp \in Seq(Nat)
      BY <2>1, <1>2, <1>8 DEF Run
    <3> QED
      BY <3>1, EmptySeq DEF Packed
  <2>2. CASE n = room
    BY <2>2, <1>2, <1>3, <1>9 DEF Packed
  <2> QED
    BY <1>6, <2>1, <2>2
<1> QED
  BY <1>7, <1>11, <1>12, <1>13, <1>14 DEF InLine, g

\* Those of the waiting that continue the program go to temp: no older miss is
\* left, so their lines have come.
LEMMA TakeWaitingKeeps ==
  ASSUME NEW f, NEW k \in Nat, NEW next \in Nat, InLine(program, f, k, next),
         NEW n \in 0 .. Len(f.wait), \A i \in 1 .. n : f.wait[i] = f.last + i
  PROVE  InLine(program, TakeWaiting(f, n), k, next) /\ TakeWaiting(f, n).miss = f.miss
<1> DEFINE g == TakeWaiting(f, n)
<1>1. Typed(f) /\ Sent(f, k) /\ Unsent(f, next) /\ Covered(program, f)
  BY DEF InLine
<1>2. /\ f.last \in Nat /\ Run(f.temp, f.last - Len(f.temp)) /\ Len(f.temp) \in Nat
      /\ f.wait \in Seq(Nat) /\ Len(f.wait) \in Nat
      /\ Between(Ids(f.miss), f.wait, f.last, next)
  BY <1>1 DEF Typed, Sent, Unsent, Run, Between, Ascending
<1>3. /\ g = [il1 |-> g.il1, miss |-> g.miss, wait |-> g.wait, temp |-> g.temp,
              queue |-> g.queue, last |-> g.last, filled |-> g.filled]
      /\ g.miss = f.miss /\ g.queue = f.queue
      /\ g.il1 = f.il1 /\ g.filled = f.filled
      /\ g.temp = f.temp \o SubSeq(f.wait, 1, n)
      /\ g.wait = SubSeq(f.wait, n + 1, Len(f.wait))
      /\ g.last = f.last + n
  <2>1. f = [il1 |-> f.il1, miss |-> f.miss, wait |-> f.wait, temp |-> f.temp,
             queue |-> f.queue, last |-> f.last, filled |-> f.filled]
    BY <1>1 DEF Typed
  <2>2. g = [f EXCEPT !.temp = f.temp \o SubSeq(f.wait, 1, n),
                      !.wait = SubSeq(f.wait, n + 1, Len(f.wait)),
                      !.last = f.last + n]
    BY DEF TakeWaiting
  <2> HIDE DEF g
  <2> QED
    BY <2>1, <2>2
<1> HIDE DEF g
<1>4. Ids(f.miss) \in SUBSET Nat
  <2>1. Ids(f.miss) \subseteq f.last + 1 .. next - 1
    BY <1>2 DEF Between
  <2> QED
    BY <1>2, <2>1
<1>5. /\ Between(Ids(g.miss), g.wait, g.last, next)
      /\ \A i \in 1 .. n : \A id \in Ids(f.miss) : ~ (id < f.wait[i])
  BY <1>2, <1>3, <1>4, BetweenRest
<1> DEFINE first == SubSeq(f.wait, 1, n)
<1> DEFINE rest == SubSeq(f.wait, n + 1, Len(f.wait))
<1>6. Run(g.temp, f.last - Len(f.temp)) /\ Len(g.temp) = Len(f.temp) + n
  <2>1. f.last \in Int
    BY <1>2
  <2>2. Run(first, f.last) /\ Len(first) = n
    BY <1>2, <2>1, RunFirst, Zenon
  <2> DEFINE top == f.last - Len(f.temp)
  <2>3. top \in Int /\ top + Len(f.temp) = f.last /\ Run(f.temp, top)
    BY <1>2
  <2>4. g.temp = f.temp \o first
    BY <1>3
  <2> HIDE DEF first, top
  <2>5. Run(first, top + Len(f.temp))
    BY <2>2, <2>3, Zenon
  <2>6. Run(g.temp, top)
    BY <2>3, <2>4, <2>5, RunJoin, Zenon
  <2>7. f.temp \in Seq(Nat) /\ first \in Seq(Nat)
    BY <2>2, <2>3 DEF Run
  <2>8. Len(g.temp) = Len(f.temp) + n
    <3>1. Len(f.temp \o first) = Len(f.temp) + Len(first)
      BY <2>7, ConcatProperties
    <3> QED
      BY <3>1, <2>2, <2>4
  <2> QED
    BY <2>6, <2>8, Zenon DEF top
<1>7. g.last - Len(g.temp) = f.last - Len(f.temp)
  BY <1>2, <1>3, <1>6
<1>8. Typed(g)
  <2>1. g.last \in Nat
    <3>1. n \in Nat
      BY <1>2
    <3>2. f.last \in Nat /\ g.last = f.last + n
      BY <1>2, <1>3
    <3> QED
      BY <3>1, <3>2
  <2> QED
    BY <1>3, <2>1 DEF Typed
<1>9. Sent(g, k)
  BY <1>1, <1>3, <1>6, <1>7 DEF Sent
<1>10. Unsent(g, next)
  BY <1>1, <1>3, <1>5 DEF Unsent
<1>11. \A i \in 1 .. n : i \in 1 .. Len(f.wait) /\ Block(f.wait[i]) \in f.filled
  <2> TAKE i \in 1 .. n
  <2>1. i \in 1 .. Len(f.wait)
    BY <1>2
  <2> QED
    BY <1>1, <1>5, <2>1 DEF Covered, Block
<1>12. ASSUME NEW id \in 1 .. g.last
       PROVE  Block(id) \in g.filled
  <2>1. CASE id \in 1 .. f.last
    BY <2>1, <1>1, <1>3 DEF Covered, Block
  <2>2. CASE id \notin 1 .. f.last
    <3>1. id - f.last \in 1 .. n /\ f.last + (id - f.last) = id
      <4>1. id \in 1 .. f.last + n /\ n \in Nat
        BY <1>2, <1>3
      <4> QED
        BY <2>2, <4>1, <1>2
    <3>2. f.wait[id - f.last] = id
      BY <3>1
    <3> QED
      BY <3>1, <3>2, <1>3, <1>11
  <2> QED
    BY <2>1, <2>2
<1>13. ASSUME NEW j \in 1 .. Len(g.wait)
       PROVE  \/ Block(g.wait[j]) \in g.filled
              \/ \E id \in Ids(g.miss) : id < g.wait[j] /\ Block(id) = Block(g.wait[j])
  <2>1. n + j \in 1 .. Len(f.wait) /\ g.wait[j] = f.wait[n + j]
    <3>1. Ascending(f.wait)
      BY <1>2 DEF Between
    <3>2. \A i \in 1 .. Len(rest) : rest[i] = f.wait[n + i] /\ n + i \in 1 .. Len(f.wait)
      BY <3>1, AscendingRest, Zenon
    <3> QED
      BY <1>3, <3>2
  <2> QED
    BY <2>1, <1>1, <1>3 DEF Covered, Block
<1>14. \A w \in DOMAIN g.il1.tags : g.il1.tags[w] \in g.filled \union {NoTag}
  BY <1>1, <1>3 DEF Covered, Block
<1>15. Covered(program, g)
  BY <1>12, <1>13, <1>14 DEF Covered, Block
<1> QED
  BY <1>3, <1>8, <1>9, <1>10, <1>15 DEF InLine, g
\* The next instruction of the program is the oldest miss, and is sent.
LEMMA BetweenSent ==
  ASSUME NEW M, NEW wait, NEW last \in Nat, NEW next \in Nat,
         Between(M, wait, last, next), last + 1 \in M
  PROVE  Between(M \ {last + 1}, wait, last + 1, next)
<1>1. last + 1 < next /\ M \subseteq last + 1 .. next - 1 /\ Ascending(wait)
  BY DEF Between
<1>2. M \ {last + 1} \subseteq last + 1 + 1 .. next - 1
  BY <1>1
<1>3. ASSUME NEW i \in 1 .. Len(wait)
      PROVE  wait[i] \in last + 1 + 1 .. next - 1 /\ wait[i] \notin M \ {last + 1}
  <2>1. wait[i] \in last + 1 .. next - 1 /\ wait[i] \notin M
    BY DEF Between
  <2>2. wait[i] # last + 1
    BY <2>1
  <2> QED
    BY <2>1, <2>2
<1>4. ASSUME NEW id \in last + 1 + 1 .. next - 1
      PROVE  id \in M \ {last + 1} \/ \E i \in 1 .. Len(wait) : wait[i] = id
  BY DEF Between
<1> QED
  BY <1>1, <1>2, <1>3, <1>4 DEF Between

LEMMA FromMissKeeps ==
  ASSUME NEW f, NEW k \in Nat, NEW next \in Nat, InLine(program, f, k, next), Packed(f, k),
         Arrived(f) => Block(Head(f.miss).id) \in f.filled
  PROVE  /\ InLine(program, FromMiss(f), k, next)
         /\ Len(FromMiss(f).miss) <= Len(f.miss)
<1>0. Len(f.miss) \in Nat
  BY DEF InLine, Unsent, OldestFirst, Misses
<1>1. CASE Cardinality(f.queue) >= iqueue_size \/ ~ ReadyMiss(f)
  BY <1>0, <1>1 DEF FromMiss
<1>2. CASE ~ (Cardinality(f.queue) >= iqueue_size \/ ~ ReadyMiss(f))
  <2> DEFINE id == Head(f.miss).id
  <2> DEFINE g == [f EXCEPT !.queue = @ \union {id}, !.miss = Tail(@), !.last = id]
  <2>1. Typed(f) /\ Sent(f, k) /\ Unsent(f, next) /\ Covered(program, f)
    BY DEF InLine
  <2>2. /\ f.miss # <<>> /\ id = f.last + 1 /\ Arrived(f) /\ Block(id) \in f.filled
        /\ f.last \in Nat /\ OldestFirst(f.miss)
        /\ Between(Ids(f.miss), f.wait, f.last, next)
    BY <1>2, <2>1 DEF ReadyMiss, NextInOrder, Arrived, Typed, Unsent
  <2>3. f.temp = <<>> /\ Len(f.temp) = 0 /\ f.last - k \in 0 .. iqueue_size - 1
    <3>1. /\ Cardinality(f.queue) = f.last - Len(f.temp) - k
          /\ Cardinality(f.queue) \in 0 .. iqueue_size
      BY <2>1, QueueLength
    <3>2. iqueue_size \in Nat
      BY FetchAssumption
    <3>3. ~ (f.last - Len(f.temp) - k >= iqueue_size)
      BY <1>2, <3>1
    <3>4. f.temp = <<>>
      BY <3>3 DEF Packed
    <3>5. Len(f.temp) = 0
      BY <3>4
    <3> QED
      BY <1>2, <2>2, <3>1, <3>2, <3>4, <3>5
  <2>4. /\ g = [il1 |-> g.il1, miss |-> g.miss, wait |-> g.wait, temp |-> g.temp,
                queue |-> g.queue, last |-> g.last, filled |-> g.filled]
        /\ g.miss = Tail(f.miss) /\ g.wait = f.wait /\ g.last = f.last + 1
        /\ g.il1 = f.il1 /\ g.filled = f.filled
        /\ g.temp = f.temp
        /\ g.queue = f.queue \union {f.last + 1}
    <3>1. f = [il1 |-> f.il1, miss |-> f.miss, wait |-> f.wait, temp |-> f.temp,
               queue |-> f.queue, last |-> f.last, filled |-> f.filled]
      BY <2>1 DEF Typed
    <3>2. id = f.last + 1
      BY <2>2
    <3> HIDE DEF id
    <3>3. g = [f EXCEPT !.queue = f.queue \union {id}, !.miss = Tail(f.miss),
                        !.last = id]
      OBVIOUS
    <3> HIDE DEF g
    <3> QED
      BY <3>1, <3>2, <3>3
  <2>5. /\ OldestFirst(Tail(f.miss)) /\ f.last + 1 \in Ids(f.miss)
        /\ Ids(Tail(f.miss)) = Ids(f.miss) \ {f.last + 1}
        /\ Len(Tail(f.miss)) = Len(f.miss) - 1
    BY <2>2, OldestOff
  <2>6. FromMiss(f) = IF g.wait = <<>> \/ Block(Head(g.wait)) # Block(id) THEN g
                      ELSE TakeWaiting(g, Continuing(g, Blocks))
    BY <1>2 DEF FromMiss
  <2> HIDE DEF g, id
  <2>7. Typed(g)
    BY <2>2, <2>4 DEF Typed
  <2>8. Sent(g, k)
    <3>1. Run(g.temp, g.last - Len(g.temp))
      BY <2>3, <2>4 DEF Run
    <3>2. iqueue_size \in Nat
      BY FetchAssumption
    <3>3. f.queue = k + 1 .. f.last
      BY <2>1, <2>2, <2>3 DEF Sent
    <3>4. k + 1 .. f.last + 1 = k + 1 .. f.last \union {f.last + 1}
      BY <2>2, <2>3, <3>2
    <3>5. g.last - Len(g.temp) = f.last + 1
      BY <2>2, <2>3, <2>4
    <3>6. (f.last + 1) - k \in 0 .. iqueue_size
      BY <2>2, <2>3, <3>2
    <3> QED
      BY <3>1, <2>4, <3>3, <3>4, <3>5, <3>6 DEF Sent
  <2>9. Unsent(g, next)
    <3>1. Between(Ids(f.miss) \ {f.last + 1}, f.wait, f.last + 1, next)
      BY <2>2, <2>5, BetweenSent
    <3> QED
      BY <2>4, <2>5, <3>1 DEF Unsent
  <2>10. Covered(program, g)
    <3>1. ASSUME NEW i \in 1 .. g.last
          PROVE  Block(i) \in g.filled
      <4>1. i \in 1 .. f.last \/ i = f.last + 1
        BY <2>2, <2>4
      <4> QED
        BY <4>1, <2>1, <2>2, <2>4 DEF Covered, Block
    <3>2. ASSUME NEW j \in 1 .. Len(g.wait)
          PROVE  \/ Block(g.wait[j]) \in g.filled
                 \/ \E i \in Ids(g.miss) : i < g.wait[j] /\ Block(i) = Block(g.wait[j])
      BY <2>1, <2>2, <2>4, <2>5 DEF Covered, Block
    <3>3. \A w \in DOMAIN g.il1.tags : g.il1.tags[w] \in g.filled \union {NoTag}
      BY <2>1, <2>4 DEF Covered, Block
    <3> QED
      BY <3>1, <3>2, <3>3 DEF Covered, Block
  <2>11. InLine(program, g, k, next)
    BY <2>7, <2>8, <2>9, <2>10 DEF InLine
  <2>12. /\ InLine(program, TakeWaiting(g, Continuing(g, Blocks)), k, next)
         /\ TakeWaiting(g, Continuing(g, Blocks)).miss = g.miss
    <3>1. g.wait \in Seq(Nat)
      BY <2>9 DEF Unsent, Between, Ascending
    <3>2. /\ Continuing(g, Blocks) \in 0 .. Len(g.wait)
          /\ \A i \in 1 .. Continuing(g, Blocks) : g.wait[i] = g.last + i
      BY <3>1, ContinuingIs
    <3> QED
      BY <2>11, <3>2, TakeWaitingKeeps
  <2>13. Len(g.miss) <= Len(f.miss)
    BY <1>0, <2>4, <2>5
  <2> QED
    BY <2>6, <2>11, <2>12, <2>13
<1> QED
  BY <1>1, <1>2

LEMMA FromWaitKeeps ==
  ASSUME NEW f, NEW k \in Nat, NEW next \in Nat, InLine(program, f, k, next)
  PROVE  InLine(program, FromWait(f), k, next) /\ FromWait(f).miss = f.miss
<1> DEFINE n == Continuing(f, {Block(Head(f.wait))})
<1>1. f.wait \in Seq(Nat)
  BY DEF InLine, Unsent, Between, Ascending
<1>2. n \in 0 .. Len(f.wait) /\ \A i \in 1 .. n : f.wait[i] = f.last + i
  BY <1>1, ContinuingIs
<1>3. InLine(program, TakeWaiting(f, n), k, next) /\ TakeWaiting(f, n).miss = f.miss
  <2> HIDE DEF n
  <2> QED
    BY <1>2, TakeWaitingKeeps
<1> QED
  BY <1>3 DEF FromWait

\* All of update_icache_mshr.
LEMMA UpdateKeeps ==
  ASSUME NEW f, NEW k \in Nat, NEW next \in Nat, InLine(program, f, k, next)
  PROVE  LET g == FromTemp(FromWait(FromMiss(FromTemp(FillLine(f))))) IN
         InLine(program, g, k, next) /\ Packed(g, k) /\ Len(g.miss) <= Len(f.miss)
<1> DEFINE f1 == FillLine(f)
<1> DEFINE f2 == FromTemp(f1)
<1> DEFINE f3 == FromMiss(f2)
<1> DEFINE f4 == FromWait(f3)
<1>1. /\ InLine(program, f1, k, next) /\ f1.miss = f.miss
      /\ Arrived(f1) => Block(Head(f1.miss).id) \in f1.filled
  BY FillLineKeeps
<1> HIDE DEF f1
<1>2. /\ InLine(program, f2, k, next) /\ Packed(f2, k)
      /\ f2.miss = f1.miss /\ f2.filled = f1.filled
  BY <1>1, FromTempKeeps
<1>3. Arrived(f2) => Block(Head(f2.miss).id) \in f2.filled
  BY <1>1, <1>2 DEF Arrived
<1> HIDE DEF f2
<1>4. InLine(program, f3, k, next) /\ Len(f3.miss) <= Len(f2.miss)
  BY <1>2, <1>3, FromMissKeeps
<1> HIDE DEF f3
<1>5. InLine(program, f4, k, next) /\ f4.miss = f3.miss
  BY <1>4, FromWaitKeeps
<1> HIDE DEF f4
<1>6. /\ InLine(program, FromTemp(f4), k, next) /\ Packed(FromTemp(f4), k)
      /\ FromTemp(f4).miss = f4.miss
  BY <1>5, FromTempKeeps
<1> QED
  BY <1>1, <1>2, <1>4, <1>5, <1>6 DEF f1, f2, f3, f4
-------------------------------------------------------------------------------
(***************************************************************************)
(* What the stream hands over.                                             *)
(***************************************************************************)
\* A miss of its own,
LEMMA BetweenMiss ==
  ASSUME NEW M, NEW wait, NEW last \in Nat, NEW next \in Nat,
         Between(M, wait, last, next)
  PROVE  Between(M \union {next}, wait, last, next + 1)
<1>1. last < next /\ M \subseteq last + 1 .. next - 1 /\ Ascending(wait)
  BY DEF Between
<1>2. M \union {next} \subseteq last + 1 .. next + 1 - 1
  BY <1>1
<1>3. ASSUME NEW i \in 1 .. Len(wait)
      PROVE  wait[i] \in last + 1 .. next + 1 - 1 /\ wait[i] \notin M \union {next}
  <2>1. wait[i] \in last + 1 .. next - 1 /\ wait[i] \notin M
    BY DEF Between
  <2> QED
    BY <2>1
<1>4. ASSUME NEW id \in last + 1 .. next + 1 - 1
      PROVE  id \in M \union {next} \/ \E i \in 1 .. Len(wait) : wait[i] = id
  <2>1. id \in last + 1 .. next - 1 \/ id = next
    OBVIOUS
  <2> QED
    BY <2>1 DEF Between
<1> QED
  BY <1>1, <1>2, <1>3, <1>4 DEF Between

\* some that wait,
LEMMA BetweenWait ==
  ASSUME NEW M, NEW wait, NEW last \in Nat, NEW next \in Nat,
         Between(M, wait, last, next), NEW t, Run(t, next - 1)
  PROVE  Between(M, wait \o t, last, next + Len(t))
<1> DEFINE w == wait \o t
<1>1. /\ last < next /\ M \subseteq last + 1 .. next - 1
      /\ wait \in Seq(Nat) /\ Len(wait) \in Nat /\ t \in Seq(Nat) /\ Len(t) \in Nat
      /\ \A i, j \in 1 .. Len(wait) : i < j => wait[i] < wait[j]
  BY DEF Between, Ascending, Run
<1>2. /\ w \in Seq(Nat) /\ Len(w) = Len(wait) + Len(t)
      /\ \A i \in 1 .. Len(wait) + Len(t) :
           w[i] = IF i <= Len(wait) THEN wait[i] ELSE t[i - Len(wait)]
  BY <1>1, ConcatProperties
<1> HIDE DEF w
<1>3. ASSUME NEW i \in 1 .. Len(w)
      PROVE  \/ i \in 1 .. Len(wait) /\ w[i] = wait[i]
             \/ i \notin 1 .. Len(wait) /\ i > Len(wait)
                /\ w[i] = next + (i - Len(wait)) - 1
  <2>1. CASE i <= Len(wait)
    BY <2>1, <1>1, <1>2
  <2>2. CASE ~ (i <= Len(wait))
    <3>1. i - Len(wait) \in 1 .. Len(t) /\ w[i] = t[i - Len(wait)]
      BY <2>2, <1>1, <1>2
    <3>2. t[i - Len(wait)] = next - 1 + (i - Len(wait))
      BY <3>1 DEF Run
    <3> QED
      BY <2>2, <1>1, <3>1, <3>2
  <2> QED
    BY <2>1, <2>2
<1>4. \A i \in 1 .. Len(wait) : wait[i] \in last + 1 .. next - 1 /\ wait[i] \notin M
  BY DEF Between
<1>5. ASSUME NEW i \in 1 .. Len(w), NEW j \in 1 .. Len(w), i < j
      PROVE  w[i] < w[j]
  <2>1. CASE j \in 1 .. Len(wait)
    <3>1. i \in 1 .. Len(wait)
      BY <2>1, <1>1, <1>2, <1>5
    <3> QED
      BY <2>1, <3>1, <1>1, <1>3, <1>5
  <2>2. CASE j \notin 1 .. Len(wait)
    <3>1. w[j] = next + (j - Len(wait)) - 1 /\ j > Len(wait)
      BY <2>2, <1>3
    <3>2. CASE i \in 1 .. Len(wait)
      <4>1. w[i] = wait[i] /\ wait[i] \in last + 1 .. next - 1
        BY <3>2, <1>1, <1>3, <1>4
      <4>2. j \in Int /\ Len(wait) \in Int /\ last \in Int /\ next \in Int
        BY <1>1, <1>2
      <4> QED
        BY <3>1, <4>1, <4>2
    <3>3. CASE i \notin 1 .. Len(wait)
      <4>1. w[i] = next + (i - Len(wait)) - 1
        BY <3>3, <1>3
      <4> QED
        BY <3>1, <4>1, <1>1, <1>2, <1>5
    <3> QED
      BY <3>2, <3>3
  <2> QED
    BY <2>1, <2>2
<1>6. ASSUME NEW i \in 1 .. Len(w)
      PROVE  w[i] \in last + 1 .. next + Len(t) - 1 /\ w[i] \notin M
  <2>1. CASE i \in 1 .. Len(wait)
    <3>1. w[i] = wait[i] /\ wait[i] \in last + 1 .. next - 1 /\ wait[i] \notin M
      BY <2>1, <1>3, <1>4, <1>1
    <3> QED
      BY <3>1, <1>1
  <2>2. CASE i \notin 1 .. Len(wait)
    <3>1. w[i] = next + (i - Len(wait)) - 1 /\ i > Len(wait)
      BY <2>2, <1>3
    <3>2. w[i] \in next .. next + Len(t) - 1
      <4>1. i \in Int /\ i <= Len(wait) + Len(t) /\ Len(wait) \in Int /\ Len(t) \in Int
        BY <1>1, <1>2
      <4> QED
        BY <3>1, <4>1
    <3> QED
      BY <3>2, <1>1
  <2> QED
    BY <2>1, <2>2
<1>7. ASSUME NEW id \in last + 1 .. next + Len(t) - 1
      PROVE  id \in M \/ \E i \in 1 .. Len(w) : w[i] = id
  <2>1. CASE id \in last + 1 .. next - 1
    <3>1. id \in M \/ \E i \in 1 .. Len(wait) : wait[i] = id
      BY <2>1 DEF Between
    <3>2. \A i \in 1 .. Len(wait) : i \in 1 .. Len(w) /\ w[i] = wait[i]
      <4>1. \A i \in 1 .. Len(wait) : i \in 1 .. Len(w)
        BY <1>1, <1>2
      <4> QED
        BY <4>1, <1>3
    <3> QED
      BY <3>1, <3>2
  <2>2. CASE id \notin last + 1 .. next - 1
    <3> DEFINE i == Len(wait) + (id - next) + 1
    <3>1. i \in 1 .. Len(w) /\ i \notin 1 .. Len(wait) /\ i - Len(wait) = id - next + 1
      BY <2>2, <1>1, <1>2
    <3>2. w[i] = next + (i - Len(wait)) - 1
      <4> HIDE DEF i
      <4> QED
        BY <3>1, <1>3
    <3>3. w[i] = id
      BY <3>1, <3>2
    <3> QED
      BY <3>1, <3>3
  <2> QED
    BY <2>1, <2>2
<1>8. Ascending(w)
  BY <1>2, <1>5 DEF Ascending
<1>9. M \subseteq last + 1 .. next + Len(t) - 1 /\ last < next + Len(t)
  BY <1>1
<1>10. Between(M, w, last, next + Len(t))
  <2> DEFINE end == next + Len(t)
  <2>1. /\ \A i \in 1 .. Len(w) : w[i] \in last + 1 .. end - 1 /\ w[i] \notin M
        /\ \A id \in last + 1 .. end - 1 : id \in M \/ \E i \in 1 .. Len(w) : w[i] = id
        /\ M \subseteq last + 1 .. end - 1 /\ last < end
    <3>1. \A i \in 1 .. Len(w) : w[i] \in last + 1 .. end - 1 /\ w[i] \notin M
      BY <1>6
    <3>2. \A id \in last + 1 .. end - 1 : id \in M \/ \E i \in 1 .. Len(w) : w[i] = id
      BY <1>7
    <3> QED
      BY <3>1, <3>2, <1>9
  <2> HIDE DEF end
  <2>2. Between(M, w, last, end)
    BY <1>8, <2>1, Zenon DEF Between
  <2> QED
    BY <2>2 DEF end
<1> QED
  BY <1>10 DEF w

\* or a hit, when nothing waits.
LEMMA BetweenHit ==
  ASSUME NEW last \in Nat, NEW next \in Nat, last + 1 = next
  PROVE  Between({}, <<>>, next, next + 1)
<1>1. Ascending(<<>>)
  BY DEF Ascending
<1> QED
  BY <1>1 DEF Between

(***************************************************************************)
(* What the decoder takes.                                                 *)
(***************************************************************************)
LEMMA OldestOfQueue ==
  ASSUME NEW k \in Nat, NEW top \in Nat, inst_queue = k + 1 .. top,
         NEW n \in 0 .. top - k
  PROVE  OldestOf(n) = k + 1 .. k + n
<1>1. ASSUME NEW i \in k + 1 .. top
      PROVE  Cardinality({j \in inst_queue : j < i}) = i - 1 - k
  <2> DEFINE older == {j \in inst_queue : j < i}
  <2>1. older = k + 1 .. i - 1
    OBVIOUS
  <2>2. k + 1 \in Int /\ i - 1 \in Int
    OBVIOUS
  <2>3. Cardinality(k + 1 .. i - 1) = IF k + 1 > i - 1 THEN 0 ELSE i - 1 - (k + 1) + 1
    BY <2>2, FS_Interval
  <2> HIDE DEF older
  <2>4. Cardinality(older) = i - 1 - k
    BY <2>1, <2>3
  <2> QED
    BY <2>4 DEF older
<1>2. OldestOf(n) = {i \in k + 1 .. top : i - 1 - k < n}
  BY <1>1 DEF OldestOf
<1> QED
  BY <1>2

LEMMA InOrderIs ==
  ASSUME NEW a \in Nat, NEW n \in Nat
  PROVE  Run(InOrder(a + 1 .. a + n), a) /\ Len(InOrder(a + 1 .. a + n)) = n
<1> DEFINE ids == a + 1 .. a + n
<1> DEFINE Good(s) == /\ s \in [1 .. n -> ids]
                      /\ \A i, j \in 1 .. n : i < j => s[i] < s[j]
<1> DEFINE s == InOrder(ids)
<1>1. Cardinality(ids) = n
  <2>1. a + 1 \in Int /\ a + n \in Int
    OBVIOUS
  <2>2. Cardinality(a + 1 .. a + n) = IF a + 1 > a + n THEN 0 ELSE a + n - (a + 1) + 1
    BY <2>1, FS_Interval
  <2> QED
    BY <2>2
<1>2. s = CHOOSE u \in [1 .. n -> ids] : \A i, j \in 1 .. n : i < j => u[i] < u[j]
  <2> HIDE DEF ids
  <2> QED
    BY <1>1 DEF InOrder
<1>3. Good([i \in 1 .. n |-> a + i])
  OBVIOUS
<1>4. Good(s)
  <2>1. \E u \in [1 .. n -> ids] : \A i, j \in 1 .. n : i < j => u[i] < u[j]
    BY <1>3
  <2> HIDE DEF ids, s
  <2> QED
    BY <1>2, <2>1
<1> HIDE DEF s
<1>5. s \in [1 .. n -> ids] /\ \A i \in 1 .. n : s[i] \in a + 1 .. a + n
  BY <1>4
<1>6. \A i, j \in 1 .. n : i < j => s[i] < s[j]
  BY <1>4
<1> DEFINE Low == {i \in 1 .. n : s[i] < a + i}
<1> DEFINE High == {i \in 1 .. n : a + i < s[i]}
<1>7. Low = {}
  <2> SUFFICES ASSUME Low # {} PROVE FALSE
    OBVIOUS
  <2>1. Low \in SUBSET Nat
    OBVIOUS
  <2>2. \E t \in Low : \A u \in Low : t <= u
    <3> HIDE DEF Low
    <3> QED
      BY <2>1, LeastOf
  <2>3. PICK t \in Low : \A u \in Low : t <= u
    BY <2>2
  <2>4. t \in 1 .. n /\ s[t] < a + t
    OBVIOUS
  <2>5. t > 1
    BY <2>4, <1>5
  <2>6. t - 1 \in 1 .. n /\ t - 1 \notin Low
    BY <2>3, <2>4, <2>5
  <2>7. s[t - 1] < s[t] /\ ~ (s[t - 1] < a + (t - 1))
    BY <2>4, <2>6, <1>6
  <2>8. s[t - 1] \in Nat /\ s[t] \in Nat
    BY <2>4, <2>6, <1>5
  <2> QED
    BY <2>4, <2>7, <2>8
<1>8. High = {}
  <2> SUFFICES ASSUME High # {} PROVE FALSE
    OBVIOUS
  <2>1. High \in SUBSET Nat /\ \A x \in High : x <= n
    OBVIOUS
  <2>2. Max(High) \in High /\ \A x \in High : x <= Max(High)
    <3> HIDE DEF High
    <3> QED
      BY <2>1, MaxOf
  <2>3. PICK t \in High : \A u \in High : u <= t
    BY <2>2
  <2>4. t \in 1 .. n /\ a + t < s[t]
    OBVIOUS
  <2>5. t < n
    BY <2>4, <1>5
  <2>6. t + 1 \in 1 .. n /\ t + 1 \notin High
    BY <2>3, <2>4, <2>5
  <2>7. s[t] < s[t + 1] /\ ~ (a + (t + 1) < s[t + 1])
    BY <2>4, <2>6, <1>6
  <2>8. s[t + 1] \in Nat /\ s[t] \in Nat
    BY <2>4, <2>6, <1>5
  <2> QED
    BY <2>4, <2>7, <2>8
<1>9. ASSUME NEW i \in 1 .. n
      PROVE  s[i] = a + i
  <2>1. ~ (s[i] < a + i) /\ ~ (a + i < s[i])
    BY <1>7, <1>8, Zenon
  <2>2. s[i] \in Int /\ a + i \in Int
    BY <1>5
  <2> QED
    BY <2>1, <2>2
<1>10. s \in Seq(Nat) /\ Len(s) = n
  <2>1. s \in [1 .. n -> Nat]
    BY <1>5
  <2> QED
    BY <2>1
<1> QED
  BY <1>9, <1>10 DEF Run, s
-------------------------------------------------------------------------------
(***************************************************************************)
(* The invariant of the state, and how the steps keep it.                  *)
(***************************************************************************)
LineInv ==
  /\ program \in Programs
  /\ INS_id \in 1 .. Len(program) + 1
  /\ Run(core_inst_stream, NextFetch - 1)
  /\ Run(decoded, 0)
  /\ InLine(program, Places, Len(decoded), NextFetch)
  /\ stage = "search" => Packed(Places, Len(decoded))

LEMMA Program ==
  ASSUME program \in Programs
  PROVE  /\ Len(program) \in Nat
         /\ \A id \in 1 .. Len(program) :
              program[id] \in [block : Blocks, branch : Branches \union {NotABranch},
                               taken : BOOLEAN]
<1>1. program \in Seq([block : Blocks, branch : Branches \union {NotABranch},
                       taken : BOOLEAN])
  BY FetchAssumption
<1> QED
  BY <1>1, ElementOfSeq, LenProperties

LEMMA LineFacts ==
  ASSUME LineInv
  PROVE  /\ Len(program) \in Nat /\ INS_id \in Nat
         /\ core_inst_stream \in Seq(Nat) /\ Len(core_inst_stream) \in Nat
         /\ NextFetch \in 1 .. INS_id /\ NextFetch \in Nat /\ NextFetch - 1 \in Int
         /\ NextFetch + Len(core_inst_stream) = INS_id
         /\ last_ins_id \in Nat /\ last_ins_id < NextFetch
         /\ decoded \in Seq(Nat) /\ Len(decoded) \in Nat
         /\ OldestFirst(il1_miss_buffer)
         /\ Between(Ids(il1_miss_buffer), il1_wait_buffer, last_ins_id, NextFetch)
         /\ Run(temp, last_ins_id - Len(temp)) /\ Len(temp) \in Nat
         /\ last_ins_id - Len(temp) - Len(decoded) \in 0 .. iqueue_size
         /\ inst_queue = Len(decoded) + 1 .. last_ins_id - Len(temp)
<1>1. Len(program) \in Nat
  BY Program DEF LineInv
<1>2. INS_id \in Nat
  BY <1>1 DEF LineInv
<1>3. core_inst_stream \in Seq(Nat) /\ Len(core_inst_stream) \in Nat
  BY DEF LineInv, Run
<1>4. decoded \in Seq(Nat) /\ Len(decoded) \in Nat
  BY DEF LineInv, Run
<1>5. /\ last_ins_id \in Nat /\ OldestFirst(il1_miss_buffer)
      /\ Between(Ids(il1_miss_buffer), il1_wait_buffer, last_ins_id, NextFetch)
      /\ Run(temp, last_ins_id - Len(temp))
      /\ last_ins_id - Len(temp) - Len(decoded) \in 0 .. iqueue_size
      /\ inst_queue = Len(decoded) + 1 .. last_ins_id - Len(temp)
  BY DEF LineInv, InLine, Typed, Sent, Unsent, Places
<1>6. last_ins_id < NextFetch
  BY <1>5 DEF Between
<1>7. /\ NextFetch \in 1 .. INS_id /\ NextFetch \in Nat /\ NextFetch - 1 \in Int
      /\ NextFetch + Len(core_inst_stream) = INS_id
  BY <1>2, <1>3, <1>5, <1>6 DEF NextFetch
<1>8. Len(temp) \in Nat
  BY <1>5 DEF Run
<1> QED
  BY <1>1, <1>2, <1>3, <1>4, <1>5, <1>6, <1>7, <1>8

\* Where the instructions have not moved.
LEMMA Unmoved ==
  ASSUME LineInv, UNCHANGED <<streamVars, fetchVars, decoded>>,
         stage' = "search" => stage = "search"
  PROVE  LineInv'
<1>1. /\ program' = program /\ INS_id' = INS_id
      /\ core_inst_stream' = core_inst_stream /\ decoded' = decoded
      /\ il1' = il1 /\ il1_miss_buffer' = il1_miss_buffer
      /\ il1_wait_buffer' = il1_wait_buffer /\ temp' = temp
      /\ inst_queue' = inst_queue /\ last_ins_id' = last_ins_id /\ filled' = filled
  BY DEF streamVars, fetchVars
<1>2. Places' = Places /\ NextFetch' = NextFetch
  BY <1>1 DEF Places, NextFetch
<1>3. InLine(program', Places', Len(decoded'), NextFetch')
  BY <1>1, <1>2 DEF LineInv
<1>4. stage' = "search" => Packed(Places', Len(decoded'))
  BY <1>1, <1>2 DEF LineInv
<1> QED
  BY <1>1, <1>2, <1>3, <1>4 DEF LineInv

\* One instruction, the first of the stream, goes elsewhere.
LEMMA StreamFirst ==
  ASSUME LineInv, core_inst_stream # <<>>
  PROVE  /\ Oldest = NextFetch /\ Oldest \in 1 .. Len(program)
         /\ Oldest \in Nat /\ Block(Oldest) \in Blocks
         /\ Run(Tail(core_inst_stream), NextFetch)
         /\ INS_id - Len(Tail(core_inst_stream)) = NextFetch + 1
<1>1. /\ core_inst_stream \in Seq(Nat) /\ Len(core_inst_stream) \in Nat
      /\ Run(core_inst_stream, NextFetch - 1) /\ NextFetch \in Nat
      /\ NextFetch + Len(core_inst_stream) = INS_id /\ Len(program) \in Nat
      /\ INS_id \in 1 .. Len(program) + 1 /\ NextFetch \in 1 .. INS_id
  BY LineFacts DEF LineInv
<1>2. Len(core_inst_stream) >= 1
  BY <1>1
<1>3. /\ Oldest = core_inst_stream[1]
      /\ Tail(core_inst_stream) \in Seq(Nat)
      /\ Len(Tail(core_inst_stream)) = Len(core_inst_stream) - 1
      /\ \A i \in 1 .. Len(Tail(core_inst_stream)) :
           Tail(core_inst_stream)[i] = core_inst_stream[i + 1]
  BY <1>1, <1>2, HeadTailProperties DEF Oldest
<1>4. Oldest = NextFetch
  BY <1>1, <1>2, <1>3 DEF Run
<1>5. Run(Tail(core_inst_stream), NextFetch)
  <2>1. ASSUME NEW i \in 1 .. Len(Tail(core_inst_stream))
        PROVE  Tail(core_inst_stream)[i] = NextFetch + i
    <3>1. i + 1 \in 1 .. Len(core_inst_stream)
      BY <1>1, <1>3
    <3>2. core_inst_stream[i + 1] = NextFetch - 1 + (i + 1)
      BY <1>1, <3>1 DEF Run
    <3> QED
      BY <1>1, <1>3, <3>2
  <2> QED
    BY <1>3, <2>1 DEF Run
<1>6. Oldest \in 1 .. Len(program)
  BY <1>1, <1>2, <1>4
<1>7. Block(Oldest) \in Blocks
  BY <1>6, Program DEF LineInv, Block
<1> QED
  BY <1>1, <1>2, <1>3, <1>4, <1>5, <1>6, <1>7

LEMMA ScheduleKeeps ==
  ASSUME LineInv, NEW n \in Nat, Schedule(n)
  PROVE  LineInv'
<1> DEFINE new == [i \in 1 .. n |-> INS_id + i - 1]
<1>1. /\ INS_id + n <= Len(program) + 1 /\ program' = program
      /\ core_inst_stream' = core_inst_stream \o new /\ INS_id' = INS_id + n
      /\ decoded' = decoded /\ Places' = Places /\ stage' = "update"
  BY DEF Schedule, Advance, Following, coreVars, fetchVars, Places
<1>2. /\ INS_id \in Nat /\ Len(program) \in Nat /\ INS_id \in 1 .. Len(program) + 1
      /\ Len(core_inst_stream) \in Nat /\ core_inst_stream \in Seq(Nat)
      /\ Run(core_inst_stream, NextFetch - 1) /\ NextFetch - 1 \in Int
      /\ NextFetch \in Nat
      /\ NextFetch + Len(core_inst_stream) = INS_id
  BY LineFacts DEF LineInv
<1>3. Run(new, INS_id - 1) /\ new \in Seq(Nat) /\ Len(new) = n
  <2>1. new \in Seq(Nat) /\ Len(new) = n
    BY <1>2
  <2>2. \A i \in 1 .. n : new[i] = INS_id - 1 + i
    BY <1>2
  <2> QED
    BY <2>1, <2>2 DEF Run
<1> HIDE DEF new
<1>4. Run(core_inst_stream', NextFetch - 1)
  <2>1. NextFetch - 1 + Len(core_inst_stream) = INS_id - 1
    BY <1>2
  <2>2. Run(new, NextFetch - 1 + Len(core_inst_stream))
    BY <1>3, <2>1, Zenon
  <2> QED
    BY <1>1, <1>2, <2>2, RunJoin, Zenon
<1>5. Len(core_inst_stream') = Len(core_inst_stream) + n
  <2>1. Len(core_inst_stream \o new) = Len(core_inst_stream) + Len(new)
    BY <1>2, <1>3, ConcatProperties
  <2> QED
    BY <2>1, <1>1, <1>3
<1>6. NextFetch' = NextFetch
  BY <1>1, <1>2, <1>5 DEF NextFetch
<1>7. INS_id' \in 1 .. Len(program') + 1
  BY <1>1, <1>2
<1>8. /\ Run(core_inst_stream', NextFetch' - 1) /\ Run(decoded', 0)
      /\ InLine(program', Places', Len(decoded'), NextFetch')
      /\ program' \in Programs
  BY <1>1, <1>4, <1>6 DEF LineInv
<1> QED
  BY <1>1, <1>7, <1>8 DEF LineInv

LEMMA LineArrivesKeeps ==
  ASSUME LineInv, NEW i \in DOMAIN il1_miss_buffer, LineArrives(i)
  PROVE  LineInv' /\ Len(il1_miss_buffer') = Len(il1_miss_buffer)
<1>1. /\ il1_miss_buffer' = [il1_miss_buffer EXCEPT ![i].done = TRUE]
      /\ program' = program /\ INS_id' = INS_id
      /\ core_inst_stream' = core_inst_stream /\ decoded' = decoded
      /\ il1' = il1 /\ il1_wait_buffer' = il1_wait_buffer /\ temp' = temp
      /\ inst_queue' = inst_queue /\ last_ins_id' = last_ins_id /\ filled' = filled
      /\ stage' = stage /\ stage = "update"
  BY DEF LineArrives, streamVars, coreVars
<1>2. OldestFirst(il1_miss_buffer)
  BY LineFacts
<1>3. /\ OldestFirst(il1_miss_buffer') /\ Ids(il1_miss_buffer') = Ids(il1_miss_buffer)
      /\ Len(il1_miss_buffer') = Len(il1_miss_buffer)
  BY <1>1, <1>2, AnswerKeeps, Zenon
<1> DEFINE g == Places'
<1>4. /\ g = [il1 |-> g.il1, miss |-> g.miss, wait |-> g.wait, temp |-> g.temp,
              queue |-> g.queue, last |-> g.last, filled |-> g.filled]
      /\ g.miss = il1_miss_buffer'
      /\ g.il1 = Places.il1 /\ g.wait = Places.wait /\ g.temp = Places.temp
      /\ g.queue = Places.queue /\ g.last = Places.last /\ g.filled = Places.filled
  BY <1>1 DEF Places
<1>5. Places.miss = il1_miss_buffer
  BY DEF Places
<1> HIDE DEF g
<1>6. InLine(program, Places, Len(decoded), NextFetch)
  BY DEF LineInv
<1>7. InLine(program, g, Len(decoded), NextFetch)
  <2>1. Typed(g)
    BY <1>4, <1>6 DEF InLine, Typed
  <2>2. Sent(g, Len(decoded))
    BY <1>4, <1>6 DEF InLine, Sent
  <2>3. Unsent(g, NextFetch)
    BY <1>3, <1>4, <1>5, <1>6 DEF InLine, Unsent
  <2>4. Covered(program, g)
    BY <1>3, <1>4, <1>5, <1>6 DEF InLine, Covered
  <2> QED
    BY <2>1, <2>2, <2>3, <2>4 DEF InLine
<1>8. NextFetch' = NextFetch
  BY <1>1 DEF NextFetch
<1>9. InLine(program', Places', Len(decoded'), NextFetch')
  BY <1>1, <1>7, <1>8 DEF g
<1> QED
  BY <1>1, <1>3, <1>8, <1>9 DEF LineInv

LEMMA UpdateMshrKeeps ==
  ASSUME LineInv, update_icache_mshr
  PROVE  LineInv' /\ Len(il1_miss_buffer') <= Len(il1_miss_buffer)
<1> DEFINE f == FromTemp(FromWait(FromMiss(FromTemp(FillLine(Places)))))
<1>1. /\ il1' = f.il1 /\ il1_miss_buffer' = f.miss /\ il1_wait_buffer' = f.wait
      /\ temp' = f.temp /\ inst_queue' = f.queue /\ last_ins_id' = f.last
      /\ filled' = f.filled
      /\ program' = program /\ INS_id' = INS_id
      /\ core_inst_stream' = core_inst_stream /\ decoded' = decoded
  BY DEF update_icache_mshr, streamVars, coreVars
<1>2. NextFetch \in Nat /\ Len(decoded) \in Nat
  BY LineFacts
<1>3. /\ InLine(program, f, Len(decoded), NextFetch) /\ Packed(f, Len(decoded))
      /\ Len(f.miss) <= Len(Places.miss) /\ Places.miss = il1_miss_buffer
  BY <1>2, UpdateKeeps DEF LineInv, Places
<1> HIDE DEF f
<1>4. f = [il1 |-> f.il1, miss |-> f.miss, wait |-> f.wait, temp |-> f.temp,
           queue |-> f.queue, last |-> f.last, filled |-> f.filled]
  BY <1>3 DEF InLine, Typed
<1>5. Places' = f /\ NextFetch' = NextFetch
  BY <1>1, <1>4 DEF Places, NextFetch
<1>6. /\ InLine(program', Places', Len(decoded'), NextFetch')
      /\ Packed(Places', Len(decoded'))
  BY <1>1, <1>3, <1>5
<1> QED
  BY <1>1, <1>3, <1>5, <1>6 DEF LineInv

\* The fields of Places, in this state and in the next.
LEMMA PlacesFields ==
  /\ Places = [il1 |-> Places.il1, miss |-> Places.miss, wait |-> Places.wait,
               temp |-> Places.temp, queue |-> Places.queue, last |-> Places.last,
               filled |-> Places.filled]
  /\ Places.il1 = il1 /\ Places.miss = il1_miss_buffer
  /\ Places.wait = il1_wait_buffer /\ Places.temp = temp
  /\ Places.queue = inst_queue /\ Places.last = last_ins_id /\ Places.filled = filled
  /\ Places' = [il1 |-> (Places').il1, miss |-> (Places').miss,
                wait |-> (Places').wait, temp |-> (Places').temp,
                queue |-> (Places').queue, last |-> (Places').last,
                filled |-> (Places').filled]
  /\ (Places').il1 = il1' /\ (Places').miss = il1_miss_buffer'
  /\ (Places').wait = il1_wait_buffer' /\ (Places').temp = temp'
  /\ (Places').queue = inst_queue' /\ (Places').last = last_ins_id'
  /\ (Places').filled = filled'
BY DEF Places

LEMMA ServeHitKeeps ==
  ASSUME LineInv, ServeHit
  PROVE  LineInv'
<1> DEFINE g == Places'
<1> DEFINE k == Len(decoded)
<1>1. /\ stage = "search" /\ core_inst_stream # <<>> /\ Hit(il1, Block(Oldest))
      /\ il1_miss_buffer = <<>> /\ il1_wait_buffer = <<>>
      /\ Cardinality(inst_queue) < iqueue_size /\ last_ins_id = Oldest - 1
      /\ inst_queue' = inst_queue \union {Oldest} /\ last_ins_id' = last_ins_id + 1
      /\ core_inst_stream' = Tail(core_inst_stream)
      /\ program' = program /\ INS_id' = INS_id /\ decoded' = decoded
      /\ il1' = il1 /\ il1_miss_buffer' = il1_miss_buffer
      /\ il1_wait_buffer' = il1_wait_buffer /\ temp' = temp /\ filled' = filled
      /\ stage' = "core"
  BY DEF ServeHit, IcacheHit, Fetching, MayServe, Advance, Following, coreVars
<1>2. /\ last_ins_id \in Nat /\ NextFetch \in Nat /\ k \in Nat
      /\ last_ins_id - Len(temp) - k \in 0 .. iqueue_size
      /\ inst_queue = k + 1 .. last_ins_id - Len(temp)
  BY LineFacts
<1>3. /\ Oldest = NextFetch /\ Oldest \in Nat /\ Block(Oldest) \in Blocks
      /\ Run(Tail(core_inst_stream), NextFetch)
      /\ INS_id - Len(Tail(core_inst_stream)) = NextFetch + 1
  BY <1>1, StreamFirst
<1>4. InLine(program, Places, k, NextFetch) /\ Packed(Places, k)
  BY <1>1 DEF LineInv
<1>5. iqueue_size \in Nat
  BY FetchAssumption
<1>6. temp = <<>> /\ Len(temp) = 0 /\ last_ins_id - k \in 0 .. iqueue_size - 1
  <2>1. Cardinality(inst_queue) = last_ins_id - Len(temp) - k
    BY <1>2, <1>4, QueueLength, PlacesFields DEF InLine
  <2>2. temp = <<>>
    BY <2>1, <1>1, <1>2, <1>4, <1>5, PlacesFields DEF Packed
  <2>3. Len(temp) = 0
    BY <2>2
  <2> QED
    BY <2>1, <2>2, <2>3, <1>1, <1>2, <1>5
<1>7. last_ins_id + 1 = NextFetch /\ last_ins_id' = NextFetch
  BY <1>1, <1>2, <1>3
<1>8. NextFetch' = NextFetch + 1 /\ Run(core_inst_stream', NextFetch' - 1)
  <2>1. NextFetch' = NextFetch + 1
    BY <1>1, <1>3 DEF NextFetch
  <2>2. NextFetch' - 1 = NextFetch
    BY <1>2, <2>1
  <2> QED
    BY <1>1, <1>3, <2>1, <2>2
<1>9. Block(Oldest) \in filled
  <2>1. PICK w \in DOMAIN il1.tags : il1.tags[w] = Block(Oldest)
    BY <1>1 DEF Hit
  <2>2. il1.tags[w] \in filled \union {NoTag}
    BY <1>4, PlacesFields DEF InLine, Covered
  <2>3. Block(Oldest) # NoTag
    BY <1>3, FetchAssumption
  <2> QED
    BY <2>1, <2>2, <2>3
<1>10. /\ g.il1 = Places.il1 /\ g.miss = <<>> /\ g.wait = <<>> /\ g.temp = <<>>
       /\ g.queue = inst_queue \union {NextFetch} /\ g.last = NextFetch
       /\ g.filled = Places.filled
       /\ g = [il1 |-> g.il1, miss |-> g.miss, wait |-> g.wait, temp |-> g.temp,
               queue |-> g.queue, last |-> g.last, filled |-> g.filled]
  BY <1>1, <1>3, <1>6, <1>7, PlacesFields
<1> HIDE DEF g, k
<1>11. Typed(g)
  BY <1>2, <1>10 DEF Typed
<1>12. Sent(g, k)
  <2>1. inst_queue = k + 1 .. last_ins_id
    BY <1>2, <1>6
  <2>2. inst_queue \union {NextFetch} = k + 1 .. NextFetch
    BY <1>2, <1>5, <1>6, <1>7, <2>1
  <2>3. Run(<<>>, NextFetch) /\ NextFetch - 0 = NextFetch /\ Len(<<>>) = 0
    BY <1>2 DEF Run
  <2>4. NextFetch - k \in 0 .. iqueue_size
    BY <1>2, <1>5, <1>6, <1>7
  <2> QED
    BY <1>10, <2>2, <2>3, <2>4 DEF Sent
<1>13. Unsent(g, NextFetch + 1)
  <2>1. Ids(<<>>) = {}
    BY DEF Ids
  <2>2. OldestFirst(<<>>)
    BY DEF OldestFirst, Misses
  <2>3. Between({}, <<>>, NextFetch, NextFetch + 1)
    BY <1>2, <1>7, BetweenHit
  <2> QED
    BY <1>10, <2>1, <2>2, <2>3 DEF Unsent
<1>14. Covered(program, g)
  <2>1. ASSUME NEW id \in 1 .. NextFetch
        PROVE  program[id].block \in g.filled
    <3>1. id \in 1 .. last_ins_id \/ id = Oldest
      BY <1>2, <1>3, <1>7
    <3>2. \A i \in 1 .. last_ins_id : program[i].block \in filled
      BY <1>4, PlacesFields DEF InLine, Covered
    <3> QED
      BY <3>1, <3>2, <1>9, <1>10, PlacesFields DEF Block
  <2>2. \A j \in 1 .. Len(g.wait) : FALSE
    BY <1>10
  <2>3. \A w \in DOMAIN g.il1.tags : g.il1.tags[w] \in g.filled \union {NoTag}
    BY <1>4, <1>10 DEF InLine, Covered
  <2> QED
    BY <1>10, <2>1, <2>2, <2>3 DEF Covered
<1>15. InLine(program', Places', Len(decoded'), NextFetch')
  BY <1>1, <1>8, <1>11, <1>12, <1>13, <1>14 DEF InLine, g, k
<1> QED
  BY <1>1, <1>8, <1>15 DEF LineInv

LEMMA NewMissKeeps ==
  ASSUME LineInv, NewMiss
  PROVE  /\ LineInv' /\ Len(il1_miss_buffer') <= mshr
<1> DEFINE g == Places'
<1> DEFINE k == Len(decoded)
<1>1. /\ stage = "search" /\ core_inst_stream # <<>>
      /\ Len(il1_miss_buffer) < mshr
      /\ il1_miss_buffer' = Append(il1_miss_buffer, [id |-> Oldest, done |-> FALSE])
      /\ core_inst_stream' = Tail(core_inst_stream)
      /\ program' = program /\ INS_id' = INS_id /\ decoded' = decoded
      /\ il1' = il1 /\ il1_wait_buffer' = il1_wait_buffer /\ temp' = temp
      /\ inst_queue' = inst_queue /\ last_ins_id' = last_ins_id /\ filled' = filled
      /\ stage' = "core"
  BY DEF NewMiss, IcacheMiss, Fetching, Advance, Following, coreVars
<1>2. /\ last_ins_id \in Nat /\ NextFetch \in Nat /\ k \in Nat
      /\ OldestFirst(il1_miss_buffer)
      /\ Between(Ids(il1_miss_buffer), il1_wait_buffer, last_ins_id, NextFetch)
  BY LineFacts
<1>3. /\ Oldest = NextFetch /\ Run(Tail(core_inst_stream), NextFetch)
      /\ INS_id - Len(Tail(core_inst_stream)) = NextFetch + 1
  BY <1>1, StreamFirst
<1>4. InLine(program, Places, k, NextFetch)
  BY DEF LineInv
<1>5. NextFetch' = NextFetch + 1 /\ Run(core_inst_stream', NextFetch' - 1)
  <2>1. NextFetch' = NextFetch + 1
    BY <1>1, <1>3 DEF NextFetch
  <2>2. NextFetch' - 1 = NextFetch
    BY <1>2, <2>1
  <2> QED
    BY <1>1, <1>3, <2>1, <2>2
<1>6. /\ OldestFirst(il1_miss_buffer')
      /\ Ids(il1_miss_buffer') = Ids(il1_miss_buffer) \union {NextFetch}
  <2>1. \A id \in Ids(il1_miss_buffer) : id < NextFetch
    BY <1>2 DEF Between
  <2>2. il1_miss_buffer' = Append(il1_miss_buffer, [id |-> NextFetch, done |-> FALSE])
    BY <1>1, <1>3
  <2> QED
    BY <1>2, <2>1, <2>2, NewestOn
<1>7. /\ g.miss = il1_miss_buffer' /\ Places.miss = il1_miss_buffer
      /\ g.il1 = Places.il1 /\ g.wait = Places.wait
      /\ g.temp = Places.temp /\ g.queue = Places.queue /\ g.last = Places.last
      /\ g.filled = Places.filled
      /\ g = [il1 |-> g.il1, miss |-> g.miss, wait |-> g.wait, temp |-> g.temp,
              queue |-> g.queue, last |-> g.last, filled |-> g.filled]
      /\ Places.wait = il1_wait_buffer /\ Places.last = last_ins_id
  BY <1>1, PlacesFields
<1> HIDE DEF g, k
<1>8. Typed(g)
  BY <1>4, <1>7 DEF InLine, Typed
<1>9. Sent(g, k)
  BY <1>4, <1>7 DEF InLine, Sent
<1>10. Unsent(g, NextFetch + 1)
  BY <1>2, <1>6, <1>7, BetweenMiss DEF Unsent
<1>11. Covered(program, g)
  BY <1>4, <1>6, <1>7 DEF InLine, Covered
<1>12. InLine(program', Places', Len(decoded'), NextFetch')
  BY <1>1, <1>5, <1>8, <1>9, <1>10, <1>11 DEF InLine, g, k
<1>13. Len(il1_miss_buffer') <= mshr
  <2>1. il1_miss_buffer \in Misses /\ Len(il1_miss_buffer) \in Nat
    BY <1>2 DEF OldestFirst, Misses
  <2>2. Len(il1_miss_buffer') = Len(il1_miss_buffer) + 1
    BY <1>1, <2>1 DEF Misses
  <2> QED
    BY <1>1, <2>1, <2>2, FetchAssumption
<1> QED
  BY <1>1, <1>5, <1>12, <1>13 DEF LineInv

LEMMA SameBlockKeeps ==
  ASSUME LineInv, get_ins_in_same_block
  PROVE  LineInv' /\ Len(core_inst_stream') <= Len(core_inst_stream)
<1> DEFINE g == Places'
<1> DEFINE k == Len(decoded)
<1> DEFINE S == {m \in 1 .. Len(core_inst_stream) :
                   \A i \in 1 .. m : Block(core_inst_stream[i]) = Block(Oldest)}
<1> DEFINE n == Max(S)
<1> DEFINE first == SubSeq(core_inst_stream, 1, n)
<1> DEFINE rest == SubSeq(core_inst_stream, n + 1, Len(core_inst_stream))
<1>1. /\ stage = "search" /\ core_inst_stream # <<>> /\ Missing # {}
      /\ il1_wait_buffer' = il1_wait_buffer \o first
      /\ core_inst_stream' = rest
      /\ program' = program /\ INS_id' = INS_id /\ decoded' = decoded
      /\ il1' = il1 /\ il1_miss_buffer' = il1_miss_buffer /\ temp' = temp
      /\ inst_queue' = inst_queue /\ last_ins_id' = last_ins_id /\ filled' = filled
      /\ stage' = "core"
  BY DEF get_ins_in_same_block, IcacheMiss, Fetching, Advance, Following, coreVars
<1>2. /\ last_ins_id \in Nat /\ NextFetch \in Nat /\ k \in Nat
      /\ OldestFirst(il1_miss_buffer)
      /\ Between(Ids(il1_miss_buffer), il1_wait_buffer, last_ins_id, NextFetch)
      /\ core_inst_stream \in Seq(Nat) /\ Len(core_inst_stream) \in Nat
      /\ NextFetch - 1 \in Int /\ NextFetch + Len(core_inst_stream) = INS_id
      /\ Run(core_inst_stream, NextFetch - 1)
  BY LineFacts DEF LineInv
<1>3. Oldest = NextFetch /\ Oldest = core_inst_stream[1] /\ Len(core_inst_stream) >= 1
  BY <1>1, <1>2, StreamFirst DEF Oldest
<1>4. InLine(program, Places, k, NextFetch)
  BY DEF LineInv
<1>5. /\ n \in 1 .. Len(core_inst_stream)
      /\ \A i \in 1 .. n : Block(core_inst_stream[i]) = Block(Oldest)
  <2>1. 1 \in S
    BY <1>3
  <2>2. S \in SUBSET Nat /\ \A m \in S : m <= Len(core_inst_stream)
    BY <1>2
  <2>3. Max(S) \in S
    <3> HIDE DEF S
    <3> QED
      BY <1>2, <2>1, <2>2, MaxOf
  <2> QED
    BY <2>3
<1> HIDE DEF n
<1>6. n \in 0 .. Len(core_inst_stream) /\ n \in Nat
  BY <1>2, <1>5
<1>7. Run(first, NextFetch - 1) /\ Len(first) = n
  <2>1. \A i \in 1 .. n : core_inst_stream[i] = NextFetch - 1 + i
    <3>1. \A i \in 1 .. n : i \in 1 .. Len(core_inst_stream)
      BY <1>2, <1>5
    <3> QED
      BY <1>2, <3>1 DEF Run
  <2> QED
    BY <1>2, <1>6, <2>1, RunFirst, Zenon
<1>8. Run(rest, NextFetch - 1 + n) /\ Len(rest) = Len(core_inst_stream) - n
  BY <1>2, <1>6, RunRest, Zenon
<1> HIDE DEF first, rest
<1>9. NextFetch' = NextFetch + n /\ Run(core_inst_stream', NextFetch' - 1)
  <2>1. NextFetch' = NextFetch + n
    BY <1>1, <1>2, <1>6, <1>8 DEF NextFetch
  <2>2. NextFetch' - 1 = NextFetch - 1 + n
    BY <1>2, <1>6, <2>1
  <2> QED
    BY <1>1, <1>8, <2>1, <2>2, Zenon
<1>10. Between(Ids(il1_miss_buffer), il1_wait_buffer', last_ins_id, NextFetch + n)
  <2>1. Between(Ids(il1_miss_buffer), il1_wait_buffer \o first, last_ins_id,
                NextFetch + Len(first))
    BY <1>2, <1>7, BetweenWait, Zenon
  <2> QED
    BY <1>1, <1>7, <2>1, Zenon
<1>11. /\ g.miss = Places.miss /\ Places.miss = il1_miss_buffer
       /\ g.il1 = Places.il1 /\ g.wait = il1_wait_buffer'
       /\ g.temp = Places.temp /\ g.queue = Places.queue /\ g.last = Places.last
       /\ g.filled = Places.filled
       /\ g = [il1 |-> g.il1, miss |-> g.miss, wait |-> g.wait, temp |-> g.temp,
               queue |-> g.queue, last |-> g.last, filled |-> g.filled]
       /\ Places.wait = il1_wait_buffer /\ Places.last = last_ins_id
  BY <1>1, PlacesFields
<1> HIDE DEF g, k
<1>12. Typed(g)
  BY <1>4, <1>11 DEF InLine, Typed
<1>13. Sent(g, k)
  BY <1>4, <1>11 DEF InLine, Sent
<1>14. Unsent(g, NextFetch + n)
  BY <1>2, <1>10, <1>11 DEF Unsent
<1>15. Covered(program, g)
  <2>1. \A id \in 1 .. g.last : program[id].block \in g.filled
    BY <1>4, <1>11 DEF InLine, Covered
  <2>2. \A w \in DOMAIN g.il1.tags : g.il1.tags[w] \in g.filled \union {NoTag}
    BY <1>4, <1>11 DEF InLine, Covered
  <2>3. PICK i \in 1 .. Len(il1_miss_buffer) :
          Block(il1_miss_buffer[i].id) = Block(Oldest)
    <3>1. il1_miss_buffer \in Misses
      BY <1>2 DEF OldestFirst
    <3> QED
      BY <1>1, <3>1, LenProperties DEF Missing, Misses
  <2> DEFINE old == il1_miss_buffer[i].id
  <2>4. old \in Ids(il1_miss_buffer) /\ old \in last_ins_id + 1 .. NextFetch - 1
    BY <1>2 DEF Ids, Between
  <2>5. Block(old) = Block(Oldest)
    BY <2>3
  <2> HIDE DEF old
  <2>6. ASSUME NEW j \in 1 .. Len(g.wait)
        PROVE  \/ program[g.wait[j]].block \in g.filled
               \/ \E id \in Ids(g.miss) :
                    id < g.wait[j] /\ program[id].block = program[g.wait[j]].block
    <3>1. il1_wait_buffer \in Seq(Nat) /\ first \in Seq(Nat)
      BY <1>2, <1>7 DEF Between, Ascending, Run
    <3>2. /\ Len(il1_wait_buffer') = Len(il1_wait_buffer) + n
          /\ \A m \in 1 .. Len(il1_wait_buffer) + n :
               il1_wait_buffer'[m] = IF m <= Len(il1_wait_buffer)
                                     THEN il1_wait_buffer[m]
                                     ELSE first[m - Len(il1_wait_buffer)]
      BY <1>1, <1>7, <3>1, ConcatProperties
    <3>3. Len(il1_wait_buffer) \in Nat /\ j \in 1 .. Len(il1_wait_buffer) + n
      BY <1>11, <3>1, <3>2
    <3>4. CASE j <= Len(il1_wait_buffer)
      <4>1. g.wait[j] = il1_wait_buffer[j] /\ j \in 1 .. Len(il1_wait_buffer)
        BY <3>2, <3>3, <3>4, <1>11
      <4> QED
        BY <4>1, <1>4, <1>11 DEF InLine, Covered
    <3>5. CASE ~ (j <= Len(il1_wait_buffer))
      <4> DEFINE m == j - Len(il1_wait_buffer)
      <4>1. m \in 1 .. n /\ m \in 1 .. Len(first) /\ g.wait[j] = first[m]
        BY <3>2, <3>3, <3>5, <1>6, <1>7, <1>11
      <4> HIDE DEF m
      <4>2. first[m] = NextFetch - 1 + m
        BY <4>1, <1>7 DEF Run
      <4>3. core_inst_stream[m] = NextFetch - 1 + m
        <5>1. m \in 1 .. Len(core_inst_stream)
          BY <4>1, <1>2, <1>5
        <5> QED
          BY <5>1, <1>2 DEF Run
      <4>4. Block(g.wait[j]) = Block(Oldest)
        BY <4>1, <4>2, <4>3, <1>5
      <4>5. old < g.wait[j]
        BY <4>1, <4>2, <2>4, <1>2
      <4> QED
        BY <4>4, <4>5, <2>4, <2>5, <1>11 DEF Block
    <3> QED
      BY <3>4, <3>5
  <2> QED
    BY <2>1, <2>2, <2>6 DEF Covered
<1>16. InLine(program', Places', Len(decoded'), NextFetch')
  BY <1>1, <1>9, <1>12, <1>13, <1>14, <1>15 DEF InLine, g, k
<1>17. Len(core_inst_stream') <= Len(core_inst_stream)
  BY <1>1, <1>2, <1>6, <1>8
<1> QED
  BY <1>1, <1>9, <1>16, <1>17 DEF LineInv

LEMMA UpdateCoreKeeps ==
  ASSUME LineInv, NEW n \in Nat, update_core(n)
  PROVE  LineInv'
<1> DEFINE g == Places'
<1> DEFINE k == Len(decoded)
<1> DEFINE top == last_ins_id - Len(temp)
<1>1. /\ n <= Min({decode_width, Cardinality(inst_queue)})
      /\ decoded' = decoded \o InOrder(OldestOf(n))
      /\ inst_queue' = inst_queue \ OldestOf(n)
      /\ program' = program /\ INS_id' = INS_id
      /\ core_inst_stream' = core_inst_stream
      /\ il1' = il1 /\ il1_miss_buffer' = il1_miss_buffer
      /\ il1_wait_buffer' = il1_wait_buffer /\ temp' = temp
      /\ last_ins_id' = last_ins_id /\ filled' = filled
      /\ stage' = "end"
  BY DEF update_core, decode_ins, Advance, Following, streamVars
<1>2. /\ k \in Nat /\ top - k \in 0 .. iqueue_size /\ inst_queue = k + 1 .. top
      /\ Run(decoded, 0) /\ decoded \in Seq(Nat) /\ last_ins_id \in Nat
      /\ Len(temp) \in Nat /\ NextFetch \in Nat
  BY LineFacts DEF LineInv
<1>3. iqueue_size \in Nat /\ decode_width \in Int
  BY FetchAssumption
<1>4. InLine(program, Places, k, NextFetch)
  BY DEF LineInv
<1>5. top \in Nat /\ n \in 0 .. top - k
  <2>1. top \in Int
    BY <1>2
  <2>2. Cardinality(inst_queue) = top - k
    BY <1>2, <1>4, QueueLength, PlacesFields DEF InLine
  <2> HIDE DEF top, k
  <2>3. top - k \in Int
    BY <1>2, <2>1
  <2>4. Min({decode_width, top - k})
          = IF decode_width <= top - k THEN decode_width ELSE top - k
    BY <1>3, <2>3, OfTwo, Zenon
  <2>5. n <= Min({decode_width, top - k})
    BY <1>1, <2>2
  <2>6. n <= top - k
    BY <1>3, <2>3, <2>4, <2>5
  <2>7. top \in Nat
    BY <1>2, <1>3, <2>1
  <2> QED
    BY <2>3, <2>6, <2>7
<1> HIDE DEF top, k
<1>6. OldestOf(n) = k + 1 .. k + n
  BY <1>2, <1>5, OldestOfQueue
<1> DEFINE new == InOrder(k + 1 .. k + n)
<1>7. Run(new, k) /\ Len(new) = n
  BY <1>2, InOrderIs
<1>8. decoded' = decoded \o new /\ inst_queue' = k + n + 1 .. top
  BY <1>1, <1>2, <1>5, <1>6
<1> HIDE DEF new
<1>9. Run(decoded', 0)
  <2>1. 0 \in Int /\ 0 + Len(decoded) = k
    BY <1>2 DEF k
  <2>2. Run(new, 0 + Len(decoded))
    BY <1>7, <2>1, Zenon
  <2> QED
    BY <1>2, <1>8, <2>1, <2>2, RunJoin, Zenon
<1>10. Len(decoded') = k + n
  <2>1. new \in Seq(Nat)
    BY <1>7 DEF Run
  <2>2. Len(decoded \o new) = Len(decoded) + Len(new)
    BY <1>2, <2>1, ConcatProperties
  <2> QED
    BY <1>7, <1>8, <2>2 DEF k
<1>11. /\ g.miss = Places.miss /\ g.il1 = Places.il1 /\ g.wait = Places.wait
       /\ g.temp = Places.temp /\ g.queue = inst_queue' /\ g.last = Places.last
       /\ g.filled = Places.filled
       /\ g = [il1 |-> g.il1, miss |-> g.miss, wait |-> g.wait, temp |-> g.temp,
               queue |-> g.queue, last |-> g.last, filled |-> g.filled]
       /\ Places.temp = temp /\ Places.last = last_ins_id
  BY <1>1, PlacesFields
<1> HIDE DEF g
<1>12. Typed(g)
  BY <1>4, <1>11 DEF InLine, Typed
<1>13. Sent(g, k + n)
  <2>1. g.last - Len(g.temp) = top
    BY <1>11 DEF top
  <2>2. Run(g.temp, g.last - Len(g.temp))
    BY <1>4, <1>11 DEF InLine, Sent
  <2>3. top - (k + n) \in 0 .. iqueue_size
    BY <1>2, <1>3, <1>5
  <2> QED
    BY <1>8, <1>11, <2>1, <2>2, <2>3 DEF Sent
<1>14. Unsent(g, NextFetch) /\ Covered(program, g)
  BY <1>4, <1>11 DEF InLine, Unsent, Covered
<1>15. NextFetch' = NextFetch
  BY <1>1 DEF NextFetch
<1>16. InLine(program', Places', Len(decoded'), NextFetch')
  BY <1>1, <1>10, <1>12, <1>13, <1>14, <1>15 DEF InLine, g
<1> QED
  BY <1>1, <1>9, <1>15, <1>16 DEF LineInv

\* The other parts: the limits, and the types of what LineInv does not name.
OthersInv ==
  /\ Len(core_inst_stream) <= StreamLimit /\ Len(il1_miss_buffer) <= mshr
  /\ itlb_miss_buffer \in Seq([page : Pages, wait : Int])
  /\ Len(itlb_miss_buffer) <= 1
  /\ DOMAIN page_fault_entry \subseteq page_table
  /\ \A p \in DOMAIN page_fault_entry : page_fault_entry[p] \in Int
  /\ branch_pred_table \in [Branches -> 0 .. MAX_COUNTER]
  /\ miss_predicted \subseteq 1 .. Len(program)
  /\ penalty \in 0 .. branch_penalty

FetchInv == LineInv /\ OthersInv

LEMMA TrainKeeps ==
  ASSUME LineInv, OthersInv, NEW id \in 1 .. Len(program), Train(id)
  PROVE  branch_pred_table' \in [Branches -> 0 .. MAX_COUNTER]
<1>1. CASE IsBranch(id)
  <2> DEFINE b == program[id].branch
  <2>1. b \in Branches
    BY <1>1, Program DEF LineInv, IsBranch
  <2> DEFINE c == branch_pred_table[b]
  <2>2. branch_pred_table \in [Branches -> 0 .. MAX_COUNTER] /\ c \in 0 .. MAX_COUNTER
    BY <2>1 DEF OthersInv
  <2>3. branch_pred_table' = [branch_pred_table EXCEPT ![b] = Trained(c, program[id].taken)]
    BY <1>1 DEF Train
  <2>4. Trained(c, program[id].taken) \in 0 .. MAX_COUNTER
    <3> HIDE DEF c, b
    <3> QED
      BY <2>2 DEF Trained, MAX_COUNTER
  <2> HIDE DEF c, b
  <2> QED
    BY <2>1, <2>2, <2>3, <2>4
<1>2. CASE ~ IsBranch(id)
  BY <1>2 DEF Train, OthersInv
<1> QED
  BY <1>1, <1>2

\* The steps of itlb_search that take an instruction off the stream.
LEMMA StreamShorter ==
  ASSUME LineInv, OthersInv, core_inst_stream # <<>>
  PROVE  Len(Tail(core_inst_stream)) <= StreamLimit
<1>1. core_inst_stream \in Seq(Nat) /\ Len(core_inst_stream) \in Nat
  BY LineFacts
<1>2. Len(Tail(core_inst_stream)) = Len(core_inst_stream) - 1
  BY <1>1, HeadTailProperties
<1> QED
  BY <1>1, <1>2, FetchAssumption DEF OthersInv

LEMMA SearchKeeps ==
  ASSUME FetchInv, Search
  PROVE  FetchInv'
<1> USE DEF FetchInv
<1>1. CASE ServeHit
  <2>1. LineInv'
    BY <1>1, ServeHitKeeps
  <2>2. /\ core_inst_stream # <<>> /\ Train(Oldest) /\ Flag(Oldest)
        /\ core_inst_stream' = Tail(core_inst_stream) /\ program' = program
        /\ UNCHANGED <<tlbVars, il1_miss_buffer, coreVars>>
    BY <1>1 DEF ServeHit, IcacheHit, Fetching
  <2>3. Oldest \in 1 .. Len(program)
    BY <2>2, StreamFirst
  <2>4. branch_pred_table' \in [Branches -> 0 .. MAX_COUNTER]
    BY <2>2, <2>3, TrainKeeps
  <2>5. miss_predicted' \subseteq 1 .. Len(program)
    BY <2>2, <2>3 DEF Flag, OthersInv
  <2>6. Len(core_inst_stream') <= StreamLimit
    BY <2>2, StreamShorter
  <2> QED
    BY <2>1, <2>2, <2>4, <2>5, <2>6 DEF OthersInv, tlbVars, coreVars
<1>2. CASE NewMiss
  <2>1. LineInv' /\ Len(il1_miss_buffer') <= mshr
    BY <1>2, NewMissKeeps
  <2>2. /\ core_inst_stream # <<>> /\ Train(Oldest) /\ Flag(Oldest)
        /\ core_inst_stream' = Tail(core_inst_stream) /\ program' = program
        /\ UNCHANGED <<tlbVars, coreVars>>
    BY <1>2 DEF NewMiss, IcacheMiss, Fetching
  <2>3. Oldest \in 1 .. Len(program)
    BY <2>2, StreamFirst
  <2>4. branch_pred_table' \in [Branches -> 0 .. MAX_COUNTER]
    BY <2>2, <2>3, TrainKeeps
  <2>5. miss_predicted' \subseteq 1 .. Len(program)
    BY <2>2, <2>3 DEF Flag, OthersInv
  <2>6. Len(core_inst_stream') <= StreamLimit
    BY <2>2, StreamShorter
  <2> QED
    BY <2>1, <2>2, <2>4, <2>5, <2>6 DEF OthersInv, tlbVars, coreVars
<1>3. CASE get_ins_in_same_block
  <2>1. LineInv' /\ Len(core_inst_stream') <= Len(core_inst_stream)
    BY <1>3, SameBlockKeeps
  <2>2. /\ core_inst_stream # <<>> /\ Train(Oldest) /\ program' = program
        /\ UNCHANGED <<tlbVars, il1_miss_buffer, miss_predicted, coreVars>>
    BY <1>3 DEF get_ins_in_same_block, IcacheMiss, Fetching
  <2>3. Oldest \in 1 .. Len(program)
    BY <2>2, StreamFirst
  <2>4. branch_pred_table' \in [Branches -> 0 .. MAX_COUNTER]
    BY <2>2, <2>3, TrainKeeps
  <2>5. Len(core_inst_stream') <= StreamLimit
    <3>1. Len(core_inst_stream) \in Nat /\ StreamLimit \in Nat
      BY LineFacts, FetchAssumption
    <3>2. core_inst_stream' \in Seq(Nat)
      BY <2>1 DEF LineInv, Run
    <3>3. Len(core_inst_stream') \in Nat
      BY <3>2
    <3> QED
      BY <2>1, <3>1, <3>3 DEF OthersInv
  <2> QED
    BY <2>1, <2>2, <2>4, <2>5 DEF OthersInv, tlbVars, coreVars
<1>4. CASE Refused
  <2>1. /\ core_inst_stream # <<>> /\ Train(Oldest) /\ stage' = "core"
        /\ UNCHANGED <<streamVars, tlbVars, fetchVars, miss_predicted, coreVars>>
    BY <1>4 DEF Refused, Fetching, Advance, Following
  <2>2. LineInv'
    BY <2>1, Unmoved DEF coreVars
  <2>3. Oldest \in 1 .. Len(program)
    BY <2>1, StreamFirst
  <2>4. branch_pred_table' \in [Branches -> 0 .. MAX_COUNTER]
    BY <2>1, <2>3, TrainKeeps
  <2> QED
    BY <2>1, <2>2, <2>4 DEF OthersInv, streamVars, fetchVars, tlbVars, coreVars
<1>5. CASE ITLB_MISS
  <2> DEFINE page == PageFor(Oldest)
  <2>1. /\ core_inst_stream # <<>> /\ stage' = "core"
        /\ UNCHANGED <<streamVars, itlb, fetchVars, branchVars, coreVars>>
        /\ \/ /\ page \in DOMAIN page_fault_entry
              /\ itlb_miss_buffer' = <<[page |-> page, wait |-> page_fault_entry[page]]>>
              /\ UNCHANGED <<page_table, page_fault_entry>>
           \/ /\ itlb_miss_buffer' = <<[page |-> page, wait |-> TLB_MISS]>>
              /\ UNCHANGED <<page_table, page_fault_entry>>
           \/ /\ itlb_miss_buffer' = <<[page |-> page, wait |-> page_fault_latency]>>
              /\ page_table' = page_table \union {page}
              /\ page_fault_entry' = Extend(page_fault_entry, page, page_fault_latency)
    BY <1>5 DEF ITLB_MISS, Fetching, Advance, Following
  <2>2. LineInv'
    BY <2>1, Unmoved DEF coreVars
  <2>3. page \in Pages
    BY <2>1, StreamFirst, FetchAssumption DEF PageFor
  <2>4. TLB_MISS \in Int /\ page_fault_latency \in Int
    BY FetchAssumption
  <2>5. /\ itlb_miss_buffer' \in Seq([page : Pages, wait : Int])
        /\ Len(itlb_miss_buffer') <= 1
    <3> HIDE DEF page
    <3>1. PICK c \in Int : itlb_miss_buffer' = <<[page |-> page, wait |-> c]>>
      BY <2>1, <2>4 DEF OthersInv
    <3> QED
      BY <3>1, <2>3
  <2>6. /\ DOMAIN page_fault_entry' \subseteq page_table'
        /\ \A p \in DOMAIN page_fault_entry' : page_fault_entry'[p] \in Int
    <3> HIDE DEF page
    <3> QED
      BY <2>1, <2>4 DEF OthersInv, Extend
  <2> QED
    BY <2>1, <2>2, <2>5, <2>6 DEF OthersInv, streamVars, fetchVars, branchVars, coreVars
<1> QED
  BY <1>1, <1>2, <1>3, <1>4, <1>5 DEF Search

LEMMA NextKeeps ==
  ASSUME FetchInv, [Next]_vars
  PROVE  FetchInv'
<1> USE DEF FetchInv
<1> DEFINE Walks == Seq([page : Pages, wait : Int])
<1>1. ASSUME NEW n \in 0 .. StreamLimit, Schedule(n)
      PROVE  FetchInv'
  <2>1. n \in Nat /\ StreamLimit \in Nat
    BY FetchAssumption
  <2>2. LineInv'
    BY <1>1, <2>1, ScheduleKeeps
  <2>3. Len(core_inst_stream') <= StreamLimit
    <3> DEFINE new == [i \in 1 .. n |-> INS_id + i - 1]
    <3>1. /\ core_inst_stream \in Seq(Nat) /\ Len(core_inst_stream) \in Nat
          /\ INS_id \in Nat /\ INS_id \in 1 .. Len(program) + 1
      BY LineFacts DEF LineInv
    <3>2. new \in Seq(Nat) /\ Len(new) = n
      BY <2>1, <3>1
    <3>3. core_inst_stream' = core_inst_stream \o new
          /\ n <= StreamLimit - Len(core_inst_stream)
      BY <1>1 DEF Schedule
    <3> HIDE DEF new
    <3>4. Len(core_inst_stream \o new) = Len(core_inst_stream) + Len(new)
      BY <3>1, <3>2, ConcatProperties
    <3>5. Len(core_inst_stream') = Len(core_inst_stream) + n
      BY <3>2, <3>3, <3>4
    <3> QED
      BY <2>1, <3>1, <3>3, <3>5
  <2>4. UNCHANGED <<program, tlbVars, fetchVars, branchVars, coreVars>>
    BY <1>1 DEF Schedule
  <2> QED
    BY <2>2, <2>3, <2>4 DEF OthersInv, tlbVars, fetchVars, branchVars, coreVars
<1>2. CASE Answer
  <2>1. PICK i \in DOMAIN il1_miss_buffer : LineArrives(i)
    BY <1>2 DEF Answer
  <2>2. LineInv' /\ Len(il1_miss_buffer') = Len(il1_miss_buffer)
    BY <2>1, LineArrivesKeeps
  <2>3. UNCHANGED <<streamVars, tlbVars, branchVars, coreVars>>
    BY <2>1 DEF LineArrives
  <2> QED
    BY <2>2, <2>3 DEF OthersInv, streamVars, tlbVars, branchVars, coreVars
<1>3. CASE page_fault_entry_update
  <2>1. /\ UNCHANGED <<streamVars, itlb, itlb_miss_buffer, page_table, fetchVars,
                       branchVars, coreVars>>
        /\ stage' = "itlb"
    BY <1>3 DEF page_fault_entry_update, Advance, Following
  <2>2. /\ DOMAIN page_fault_entry' \subseteq page_table'
        /\ \A p \in DOMAIN page_fault_entry' : page_fault_entry'[p] \in Int
    BY <1>3, <2>1 DEF page_fault_entry_update, OthersInv
  <2>3. LineInv'
    BY <2>1, Unmoved DEF coreVars
  <2> QED
    BY <2>1, <2>2, <2>3 DEF OthersInv, streamVars, fetchVars, branchVars, coreVars
<1>4. CASE itlb_mshr_update
  <2>1. /\ UNCHANGED <<streamVars, page_table, page_fault_entry, fetchVars,
                       branchVars, coreVars>>
        /\ itlb_miss_buffer' \in {<<>>, itlb_miss_buffer} /\ stage' = "icache"
    BY <1>4 DEF itlb_mshr_update, Advance, Following
  <2>2. itlb_miss_buffer' \in Walks /\ Len(itlb_miss_buffer') <= 1
    <3>1. CASE itlb_miss_buffer' = <<>>
      <4>1. <<>> \in Walks /\ Len(<<>>) = 0
        OBVIOUS
      <4> HIDE DEF Walks
      <4> QED
        BY <3>1, <4>1
    <3>2. CASE itlb_miss_buffer' = itlb_miss_buffer
      BY <3>2 DEF OthersInv
    <3> QED
      BY <2>1, <3>1, <3>2
  <2>3. LineInv'
    BY <2>1, Unmoved DEF coreVars
  <2> QED
    BY <2>1, <2>2, <2>3 DEF OthersInv, streamVars, fetchVars, branchVars, coreVars
<1>5. CASE update_icache_mshr
  <2>1. LineInv' /\ Len(il1_miss_buffer') <= Len(il1_miss_buffer)
    BY <1>5, UpdateMshrKeeps
  <2>2. UNCHANGED <<streamVars, tlbVars, branchVars, coreVars>>
    BY <1>5 DEF update_icache_mshr
  <2>3. Len(il1_miss_buffer') <= mshr
    <3>1. /\ il1_miss_buffer \in Misses /\ il1_miss_buffer' \in Misses
      BY <2>1 DEF LineInv, InLine, Unsent, OldestFirst, Places
    <3>2. Len(il1_miss_buffer) \in Nat /\ Len(il1_miss_buffer') \in Nat
      BY <3>1 DEF Misses
    <3> QED
      BY <2>1, <3>2, FetchAssumption DEF OthersInv
  <2> QED
    BY <2>1, <2>2, <2>3 DEF OthersInv, streamVars, tlbVars, branchVars, coreVars
<1>6. CASE Search
  BY <1>6, SearchKeeps
<1>7. CASE NoFetch
  <2>1. /\ UNCHANGED <<streamVars, tlbVars, fetchVars, branchVars, coreVars>>
        /\ stage' = "core"
    BY <1>7 DEF NoFetch, Advance, Following
  <2>2. LineInv'
    BY <2>1, Unmoved DEF coreVars
  <2> QED
    BY <2>1, <2>2 DEF OthersInv, streamVars, tlbVars, fetchVars, branchVars, coreVars
<1>8. ASSUME NEW p \in Pages, OtherFault(p)
      PROVE  FetchInv'
  <2>1. /\ UNCHANGED <<streamVars, itlb, itlb_miss_buffer, fetchVars, branchVars,
                       coreVars, stage>>
        /\ page_table' = page_table \union {p}
        /\ page_fault_entry' = Extend(page_fault_entry, p, page_fault_latency)
    BY <1>8 DEF OtherFault
  <2>2. LineInv'
    BY <2>1, Unmoved DEF coreVars
  <2>3. page_fault_latency \in Int
    BY FetchAssumption
  <2>4. /\ DOMAIN page_fault_entry' \subseteq page_table'
        /\ \A q \in DOMAIN page_fault_entry' : page_fault_entry'[q] \in Int
    BY <2>1, <2>3 DEF OthersInv, Extend
  <2> QED
    BY <2>1, <2>2, <2>4 DEF OthersInv, streamVars, fetchVars, branchVars, coreVars
<1>9. ASSUME NEW n \in 0 .. decode_width, update_core(n)
      PROVE  FetchInv'
  <2>1. n \in Nat /\ branch_penalty \in Nat
    BY FetchAssumption
  <2>2. LineInv'
    BY <1>9, <2>1, UpdateCoreKeeps
  <2>3. /\ UNCHANGED <<streamVars, tlbVars, il1_miss_buffer, branch_pred_table>>
        /\ penalty' \in {penalty, branch_penalty} /\ miss_predicted' \subseteq miss_predicted
    BY <1>9 DEF update_core
  <2>4. penalty' \in 0 .. branch_penalty
    BY <2>1, <2>3 DEF OthersInv
  <2> QED
    BY <2>2, <2>3, <2>4 DEF OthersInv, streamVars, tlbVars
<1>10. CASE StalledCore
  <2>1. /\ UNCHANGED <<streamVars, tlbVars, fetchVars, branchVars, decoded>>
        /\ penalty > 0 /\ penalty' = penalty - 1 /\ stage' = "end"
    BY <1>10 DEF StalledCore, Advance, Following
  <2>2. LineInv'
    BY <2>1, Unmoved
  <2>3. penalty' \in 0 .. branch_penalty
    BY <2>1, FetchAssumption DEF OthersInv
  <2> QED
    BY <2>1, <2>2, <2>3 DEF OthersInv, streamVars, tlbVars, fetchVars, branchVars
<1>11. CASE Tick
  <2>1. /\ UNCHANGED <<streamVars, itlb, page_table, fetchVars, branchVars, coreVars>>
        /\ page_fault_entry' =
             [p \in DOMAIN page_fault_entry |-> page_fault_entry[p] - 1]
        /\ itlb_miss_buffer' =
             [i \in DOMAIN itlb_miss_buffer |->
                [itlb_miss_buffer[i] EXCEPT !.wait = Max({itlb_miss_buffer[i].wait - 1, Past})]]
        /\ stage' = "schedule"
    BY <1>11 DEF Tick, Advance, Following
  <2>2. LineInv'
    BY <2>1, Unmoved DEF coreVars
  <2>3. /\ DOMAIN page_fault_entry' \subseteq page_table'
        /\ \A p \in DOMAIN page_fault_entry' : page_fault_entry'[p] \in Int
    BY <2>1 DEF OthersInv
  <2>4. itlb_miss_buffer' \in Walks /\ Len(itlb_miss_buffer') <= 1
    <3> DEFINE L == Len(itlb_miss_buffer)
    <3>1. itlb_miss_buffer \in Walks /\ L \in Nat /\ L <= 1 /\ DOMAIN itlb_miss_buffer = 1 .. L
      BY DEF OthersInv
    <3>2. ASSUME NEW i \in 1 .. L
          PROVE  [itlb_miss_buffer[i] EXCEPT
                    !.wait = Max({itlb_miss_buffer[i].wait - 1, Past})]
                   \in [page : Pages, wait : Int]
      <4>1. itlb_miss_buffer[i] \in [page : Pages, wait : Int]
        BY <3>1, <3>2, ElementOfSeq
      <4>2. itlb_miss_buffer[i].wait - 1 \in Int /\ Past \in Int
        BY <4>1 DEF Past
      <4>3. Max({itlb_miss_buffer[i].wait - 1, Past}) \in Int
        BY <4>2, OfTwo
      <4> QED
        BY <4>1, <4>3
    <3> HIDE DEF L
    <3>3. itlb_miss_buffer' \in [1 .. L -> [page : Pages, wait : Int]]
      BY <2>1, <3>1, <3>2
    <3> QED
      BY <3>1, <3>3
  <2> QED
    BY <2>1, <2>2, <2>3, <2>4 DEF OthersInv, streamVars, fetchVars, branchVars, coreVars
<1>12. CASE UNCHANGED vars
  <2>1. /\ UNCHANGED <<streamVars, tlbVars, fetchVars, branchVars, coreVars, stage>>
    BY <1>12 DEF vars
  <2>2. LineInv'
    BY <2>1, Unmoved DEF coreVars
  <2> QED
    BY <2>1, <2>2 DEF OthersInv, streamVars, tlbVars, fetchVars, branchVars, coreVars
<1>13. 0 \in 0 .. StreamLimit /\ 0 \in 0 .. decode_width
       /\ 1 .. StreamLimit \subseteq 0 .. StreamLimit
       /\ 1 .. decode_width \subseteq 0 .. decode_width
  BY FetchAssumption
<1>14. CASE Arrive
  BY <1>1, <1>13, <1>14 DEF Arrive
<1>15. CASE Decode
  BY <1>9, <1>13, <1>15 DEF Decode
<1>16. CASE Cycle
  <2>1. CASE Schedule(0)
    BY <2>1, <1>1, <1>13
  <2>2. CASE update_core(0)
    BY <2>2, <1>9, <1>13
  <2> QED
    BY <2>1, <2>2, <1>16, <1>3, <1>4, <1>5, <1>6, <1>7, <1>10, <1>11 DEF Cycle
<1> QED
  BY <1>2, <1>8, <1>12, <1>14, <1>15, <1>16 DEF Next

LEMMA InitKeeps ==
  ASSUME Init
  PROVE  FetchInv
<1>1. /\ program \in Programs /\ INS_id = 1 /\ core_inst_stream = <<>>
      /\ itlb_miss_buffer = <<>> /\ page_fault_entry = <<>> /\ page_table = {}
      /\ il1 = EmptySet(L1Ways) /\ il1_miss_buffer = <<>> /\ il1_wait_buffer = <<>>
      /\ temp = <<>> /\ inst_queue = {} /\ last_ins_id = 0 /\ filled = {}
      /\ branch_pred_table = [b \in Branches |-> 0] /\ miss_predicted = {}
      /\ penalty = 0 /\ decoded = <<>> /\ stage = "schedule"
  BY DEF Init
<1>2. Len(program) \in Nat
  BY <1>1, Program
<1>3. Len(<<>>) = 0 /\ <<>> \in Seq(Nat) /\ <<>> \in Misses
      /\ <<>> \in Seq([page : Pages, wait : Int])
  BY DEF Misses
<1>4. Run(<<>>, 0)
  BY <1>3 DEF Run
<1>5. Places.miss = <<>> /\ Places.wait = <<>> /\ Places.temp = <<>>
      /\ Places.queue = {} /\ Places.last = 0 /\ Places.filled = {}
      /\ Places.il1 = EmptySet(L1Ways) /\ Typed(Places)
  BY <1>1 DEF Places, Typed
<1>6. Sent(Places, 0)
  BY <1>3, <1>4, <1>5, FetchAssumption DEF Sent
<1>7. Unsent(Places, 1)
  <2>1. Ids(<<>>) = {}
    BY <1>3 DEF Ids
  <2>2. OldestFirst(<<>>) /\ Ascending(<<>>)
    BY <1>3 DEF OldestFirst, Ascending
  <2> QED
    BY <1>3, <1>5, <2>1, <2>2 DEF Unsent, Between
<1>8. Covered(program, Places)
  BY <1>3, <1>5 DEF Covered, EmptySet
<1>9. NextFetch = 1
  BY <1>1, <1>3 DEF NextFetch
<1>10. LineInv
  <2>1. InLine(program, Places, 0, 1)
    BY <1>5, <1>6, <1>7, <1>8 DEF InLine
  <2> QED
    BY <1>1, <1>2, <1>3, <1>4, <1>9, <2>1 DEF LineInv
<1>11. OthersInv
  BY <1>1, <1>2, <1>3, FetchAssumption DEF OthersInv, MAX_COUNTER
<1> QED
  BY <1>10, <1>11 DEF FetchInv

\* The line of instructions, and the limits around it, hold in every state.
THEOREM FetchInvariance == Spec => []FetchInv
<1>1. Init => FetchInv
  BY InitKeeps
<1>2. FetchInv /\ [Next]_vars => FetchInv'
  BY NextKeeps
<1> QED
  BY <1>1, <1>2, PTL DEF Spec

-------------------------------------------------------------------------------
(***************************************************************************)
(* What follows from the line of instructions.                             *)
(***************************************************************************)
LEMMA TypedFetch ==
  ASSUME FetchInv
  PROVE  FetchTypeOK
<1>1. LineInv /\ OthersInv
  BY DEF FetchInv
<1>2. /\ last_ins_id \in Nat /\ last_ins_id < NextFetch
      /\ Run(temp, last_ins_id - Len(temp))
      /\ last_ins_id - Len(temp) - Len(decoded) \in 0 .. iqueue_size
      /\ inst_queue = Len(decoded) + 1 .. last_ins_id - Len(temp)
  BY <1>1 DEF LineInv, InLine, Typed, Sent, Unsent, Between, Places
<1>3. INS_id \in 1 .. Len(program) + 1 /\ Len(program) \in Nat
  BY <1>1, Program DEF LineInv
<1>4. Len(core_inst_stream) \in Nat /\ Len(temp) \in Nat /\ Len(decoded) \in Nat
  BY <1>1, <1>2 DEF LineInv, Run
<1>5. last_ins_id \in 0 .. Len(program)
  BY <1>2, <1>3, <1>4 DEF NextFetch
<1>6. Cardinality(inst_queue) <= iqueue_size
  <2> DEFINE a == Len(decoded) + 1
             b == last_ins_id - Len(temp)
  <2>1. a \in Int /\ b \in Int
    BY <1>2, <1>4
  <2>2. Cardinality(a .. b) = IF a > b THEN 0 ELSE b - a + 1
    BY <2>1, FS_Interval
  <2>3. b - Len(decoded) <= iqueue_size /\ iqueue_size \in Nat
    BY <1>2, FetchAssumption
  <2> QED
    BY <1>2, <1>4, <2>1, <2>2, <2>3
<1> QED
  BY <1>1, <1>3, <1>5, <1>6 DEF OthersInv, FetchTypeOK

\* The fetch state has its type, and no buffer of the front end is over its
\* limit, whatever comes in and whenever the core stops: in particular inst_queue,
\* which is filled in four different ways, two of them without a test of its own.
THEOREM FetchTyped == Spec => []FetchTypeOK
BY FetchInvariance, TypedFetch, PTL

\* No instruction reaches the decoder, or the queues before it, before its line has
\* come into the cache, though those that wait behind the miss of another one have
\* no miss of their own.
THEOREM FetchBeforeDecode == Spec => []FetchedBeforeDecoded
<1>1. FetchInv => FetchedBeforeDecoded
  <2> SUFFICES ASSUME FetchInv,
                      NEW id \in inst_queue \union {temp[i] : i \in DOMAIN temp}
                                 \union {decoded[i] : i \in DOMAIN decoded}
               PROVE  Block(id) \in filled
    BY DEF FetchedBeforeDecoded
  <2>1. LineInv
    BY DEF FetchInv
  <2>2. /\ last_ins_id \in Nat
        /\ Run(temp, last_ins_id - Len(temp)) /\ Run(decoded, 0)
        /\ last_ins_id - Len(temp) - Len(decoded) \in 0 .. iqueue_size
        /\ inst_queue = Len(decoded) + 1 .. last_ins_id - Len(temp)
        /\ \A x \in 1 .. last_ins_id : program[x].block \in filled
    BY <2>1 DEF LineInv, InLine, Typed, Sent, Covered, Places
  <2>3. /\ Len(temp) \in Nat /\ Len(decoded) \in Nat
        /\ DOMAIN temp = 1 .. Len(temp) /\ DOMAIN decoded = 1 .. Len(decoded)
    BY <2>2 DEF Run
  <2>4. last_ins_id - Len(temp) - Len(decoded) >= 0
    BY <2>2, FetchAssumption
  <2>5. id \in 1 .. last_ins_id
    <3>1. CASE id \in inst_queue
      BY <2>2, <2>3, <3>1
    <3>2. CASE id \in {temp[i] : i \in DOMAIN temp}
      <4>1. PICK i \in 1 .. Len(temp) : id = temp[i]
        BY <2>3, <3>2
      <4>2. id = (last_ins_id - Len(temp)) + i
        BY <2>2, <4>1 DEF Run
      <4> QED
        BY <2>2, <2>3, <2>4, <4>2
    <3>3. CASE id \in {decoded[i] : i \in DOMAIN decoded}
      <4>1. PICK i \in 1 .. Len(decoded) : id = decoded[i]
        BY <2>3, <3>3
      <4>2. id = 0 + i
        BY <2>2, <4>1 DEF Run
      <4> QED
        BY <2>2, <2>3, <2>4, <4>2
    <3> QED
      BY <3>1, <3>2, <3>3
  <2> QED
    BY <2>2, <2>5 DEF Block
<1> QED
  BY <1>1, FetchInvariance, PTL

\* Where an instruction is in a sequence.
At(where, s, id) == {<<where, i>> : i \in {j \in DOMAIN s : s[j] = id}}

MissAt(miss, id) == {<<"miss", i>> : i \in {j \in DOMAIN miss : miss[j].id = id}}

LEMMA AtRun ==
  ASSUME NEW a \in Int, NEW s, Run(s, a), NEW id \in Int, NEW where
  PROVE  /\ id \in a + 1 .. a + Len(s) => At(where, s, id) = {<<where, id - a>>}
         /\ id \notin a + 1 .. a + Len(s) => At(where, s, id) = {}
<1>1. /\ Len(s) \in Nat /\ DOMAIN s = 1 .. Len(s)
      /\ \A i \in 1 .. Len(s) : s[i] = a + i
  BY DEF Run
<1>2. ASSUME id \in a + 1 .. a + Len(s)
      PROVE  {j \in DOMAIN s : s[j] = id} = {id - a}
  BY <1>1, <1>2
<1>3. ASSUME id \notin a + 1 .. a + Len(s)
      PROVE  {j \in DOMAIN s : s[j] = id} = {}
  BY <1>1, <1>3
<1> QED
  BY <1>2, <1>3 DEF At

LEMMA AtAscending ==
  ASSUME NEW s, Ascending(s), NEW id \in Int, NEW where
  PROVE  \/ \E i \in 1 .. Len(s) : s[i] = id /\ At(where, s, id) = {<<where, i>>}
         \/ (\A i \in 1 .. Len(s) : s[i] # id) /\ At(where, s, id) = {}
<1>1. /\ Len(s) \in Nat /\ DOMAIN s = 1 .. Len(s)
      /\ \A i \in 1 .. Len(s) : s[i] \in Nat
      /\ \A i, j \in 1 .. Len(s) : i < j => s[i] < s[j]
  BY DEF Ascending
<1>2. ASSUME NEW i \in 1 .. Len(s), s[i] = id
      PROVE  At(where, s, id) = {<<where, i>>}
  <2>1. \A j \in 1 .. Len(s) : s[j] = id => j = i
    BY <1>1, <1>2
  <2>2. {j \in DOMAIN s : s[j] = id} = {i}
    BY <1>1, <1>2, <2>1
  <2> QED
    BY <2>2 DEF At
<1>3. ASSUME \A i \in 1 .. Len(s) : s[i] # id
      PROVE  At(where, s, id) = {}
  BY <1>1, <1>3 DEF At
<1> QED
  BY <1>2, <1>3

LEMMA AtMiss ==
  ASSUME NEW miss, OldestFirst(miss), NEW id \in Int
  PROVE  \/ id \in Ids(miss) /\ \E i \in 1 .. Len(miss) : MissAt(miss, id) = {<<"miss", i>>}
         \/ id \notin Ids(miss) /\ MissAt(miss, id) = {}
<1>1. /\ Len(miss) \in Nat /\ DOMAIN miss = 1 .. Len(miss)
      /\ \A i \in 1 .. Len(miss) : miss[i].id \in Nat
      /\ \A i, j \in 1 .. Len(miss) : i < j => miss[i].id < miss[j].id
  <2>1. miss \in Seq([id : Nat, done : BOOLEAN])
    BY DEF OldestFirst, Misses
  <2>2. ASSUME NEW i \in 1 .. Len(miss)
        PROVE  miss[i].id \in Nat
    <3>1. miss[i] \in [id : Nat, done : BOOLEAN]
      BY <2>1, <2>2, ElementOfSeq
    <3> QED
      BY <3>1
  <2> QED
    BY <2>1, <2>2 DEF OldestFirst
<1>2. ASSUME NEW i \in 1 .. Len(miss), miss[i].id = id
      PROVE  MissAt(miss, id) = {<<"miss", i>>}
  <2>1. \A j \in 1 .. Len(miss) : miss[j].id = id => j = i
    BY <1>1, <1>2
  <2>2. {j \in DOMAIN miss : miss[j].id = id} = {i}
    BY <1>1, <1>2, <2>1
  <2> QED
    BY <2>2 DEF MissAt
<1>3. ASSUME id \notin Ids(miss)
      PROVE  MissAt(miss, id) = {}
  BY <1>1, <1>3 DEF MissAt, Ids
<1> QED
  BY <1>2, <1>3 DEF Ids

LEMMA InOnePlace ==
  ASSUME LineInv, NEW id \in 1 .. INS_id - 1
  PROVE  \E x : PlacesOf(id) \union At("stream", core_inst_stream, id) = {x}
<1> DEFINE k == Len(decoded)
           last == last_ins_id
           top == last_ins_id - Len(temp)
           next == NextFetch
           M == MissAt(il1_miss_buffer, id)
           W == At("wait", il1_wait_buffer, id)
           T == At("temp", temp, id)
           Q == {<<"queue", 0>> : i \in {j \in inst_queue : j = id}}
           D == At("decoded", decoded, id)
           S == At("stream", core_inst_stream, id)
<1>1. PlacesOf(id) \union S = M \union W \union T \union Q \union D \union S
  BY DEF PlacesOf, At, MissAt
<1>2. /\ INS_id \in 1 .. Len(program) + 1 /\ last_ins_id \in Nat
      /\ Run(temp, top) /\ Run(decoded, 0) /\ Run(core_inst_stream, next - 1)
      /\ top - k \in 0 .. iqueue_size
      /\ inst_queue = k + 1 .. top
      /\ OldestFirst(il1_miss_buffer)
      /\ Between(Ids(il1_miss_buffer), il1_wait_buffer, last, next)
  BY DEF LineInv, InLine, Typed, Sent, Unsent, Places
<1>3. /\ Len(program) \in Nat /\ Len(temp) \in Nat /\ k \in Nat
      /\ Len(core_inst_stream) \in Nat
  BY <1>2, Program DEF LineInv, Run
<1>4. /\ id \in Int /\ INS_id \in Int /\ top \in Int /\ last \in Int /\ next \in Int
      /\ 1 <= id /\ id <= INS_id - 1 /\ 0 <= k /\ k <= top /\ top <= last /\ last < next
      /\ next + Len(core_inst_stream) = INS_id /\ last = top + Len(temp)
  BY <1>2, <1>3, FetchAssumption DEF NextFetch, Between
<1>5. /\ id \in 1 .. k => D = {<<"decoded", id - 0>>}
      /\ id \notin 1 .. k => D = {}
  <2>1. /\ id \in 0 + 1 .. 0 + k => D = {<<"decoded", id - 0>>}
        /\ id \notin 0 + 1 .. 0 + k => D = {}
    BY <1>2, <1>4, AtRun
  <2> HIDE DEF D
  <2> QED
    BY <1>3, <2>1
<1>6. /\ id \in top + 1 .. last => T = {<<"temp", id - top>>}
      /\ id \notin top + 1 .. last => T = {}
  <2>1. /\ id \in top + 1 .. top + Len(temp) => T = {<<"temp", id - top>>}
        /\ id \notin top + 1 .. top + Len(temp) => T = {}
    BY <1>2, <1>4, AtRun
  <2> QED
    BY <1>4, <2>1
<1>7. /\ id \in next .. INS_id - 1 => S = {<<"stream", id - (next - 1)>>}
      /\ id \notin next .. INS_id - 1 => S = {}
  <2>1. next - 1 \in Int
    BY <1>4
  <2>2. /\ id \in (next - 1) + 1 .. (next - 1) + Len(core_inst_stream)
             => S = {<<"stream", id - (next - 1)>>}
        /\ id \notin (next - 1) + 1 .. (next - 1) + Len(core_inst_stream) => S = {}
    BY <1>2, <1>4, <2>1, AtRun
  <2>3. (next - 1) + 1 = next /\ (next - 1) + Len(core_inst_stream) = INS_id - 1
    BY <1>3, <1>4
  <2> QED
    BY <2>2, <2>3
<1>8. /\ id \in k + 1 .. top => Q = {<<"queue", 0>>}
      /\ id \notin k + 1 .. top => Q = {}
  BY <1>2
<1>9. /\ id \in Ids(il1_miss_buffer) => \E i : M = {<<"miss", i>>}
      /\ id \notin Ids(il1_miss_buffer) => M = {}
  BY <1>2, <1>4, AtMiss
<1>10. \/ \E i \in 1 .. Len(il1_wait_buffer) :
            il1_wait_buffer[i] = id /\ W = {<<"wait", i>>}
       \/ (\A i \in 1 .. Len(il1_wait_buffer) : il1_wait_buffer[i] # id) /\ W = {}
  BY <1>2, <1>4, AtAscending DEF Between
<1>11. id \notin last + 1 .. next - 1 => M = {} /\ W = {}
  BY <1>2, <1>9, <1>10 DEF Between
<1>12. id \in last + 1 .. next - 1 =>
         \/ M = {} /\ \E x : W = {x}
         \/ W = {} /\ \E x : M = {x}
  BY <1>2, <1>9, <1>10 DEF Between
<1> DEFINE Where == M \union W \union T \union Q \union D \union S
<1> SUFFICES \E x : Where = {x}
  BY <1>1
<1> HIDE DEF M, W, T, Q, D, S, k, last, top, next
<1>13. CASE id \in 1 .. k
  <2>1. id \notin k + 1 .. top /\ id \notin top + 1 .. last
        /\ id \notin last + 1 .. next - 1 /\ id \notin next .. INS_id - 1
    BY <1>3, <1>4, <1>13
  <2>2. Where = {<<"decoded", id - 0>>}
    BY <1>5, <1>6, <1>7, <1>8, <1>11, <1>13, <2>1
  <2> QED
    BY <2>2
<1>14. CASE id \in k + 1 .. top
  <2>1. id \notin 1 .. k /\ id \notin top + 1 .. last
        /\ id \notin last + 1 .. next - 1 /\ id \notin next .. INS_id - 1
    BY <1>3, <1>4, <1>14
  <2>2. Where = {<<"queue", 0>>}
    BY <1>5, <1>6, <1>7, <1>8, <1>11, <1>14, <2>1
  <2> QED
    BY <2>2
<1>15. CASE id \in top + 1 .. last
  <2>1. id \notin 1 .. k /\ id \notin k + 1 .. top
        /\ id \notin last + 1 .. next - 1 /\ id \notin next .. INS_id - 1
    BY <1>3, <1>4, <1>15
  <2>2. Where = {<<"temp", id - top>>}
    BY <1>5, <1>6, <1>7, <1>8, <1>11, <1>15, <2>1
  <2> QED
    BY <2>2
<1>16. CASE id \in last + 1 .. next - 1
  <2>1. id \notin 1 .. k /\ id \notin k + 1 .. top
        /\ id \notin top + 1 .. last /\ id \notin next .. INS_id - 1
    BY <1>3, <1>4, <1>16
  <2>2. T = {} /\ Q = {} /\ D = {} /\ S = {}
    BY <1>5, <1>6, <1>7, <1>8, <2>1
  <2>3. Where = M \union W
    BY <2>2
  <2>4. \E x : M \union W = {x}
    BY <1>12, <1>16
  <2> QED
    BY <2>3, <2>4
<1>17. CASE id \in next .. INS_id - 1
  <2>1. id \notin 1 .. k /\ id \notin k + 1 .. top
        /\ id \notin top + 1 .. last /\ id \notin last + 1 .. next - 1
    BY <1>3, <1>4, <1>17
  <2>2. Where = {<<"stream", id - (next - 1)>>}
    BY <1>5, <1>6, <1>7, <1>8, <1>11, <1>17, <2>1
  <2> QED
    BY <2>2
<1> QED
  <2>1. \/ id \in 1 .. k \/ id \in k + 1 .. top \/ id \in top + 1 .. last
        \/ id \in last + 1 .. next - 1 \/ id \in next .. INS_id - 1
    BY <1>3, <1>4
  <2> QED
    BY <2>1, <1>13, <1>14, <1>15, <1>16, <1>17

\* The decoder gets the instructions of the program in their order, and every
\* instruction that has been scheduled is in one place, once: none is lost or
\* doubled on the three ways from itlb_search to inst_queue, in whichever order
\* the lines arrive.
THEOREM FetchInProgramOrder == Spec => []DecodedInOrder
<1>1. FetchInv => DecodedInOrder
  <2> SUFFICES ASSUME FetchInv
               PROVE  DecodedInOrder
    OBVIOUS
  <2>1. LineInv
    BY DEF FetchInv
  <2>2. \A i \in DOMAIN decoded : decoded[i] = i
    <3>1. Run(decoded, 0)
      BY <2>1 DEF LineInv
    <3>2. DOMAIN decoded = 1 .. Len(decoded) /\ Len(decoded) \in Nat
      BY <3>1 DEF Run
    <3> QED
      BY <3>1, <3>2 DEF Run
  <2>3. ASSUME NEW id \in 1 .. INS_id - 1
        PROVE  Cardinality(PlacesOf(id)
                   \union {<<"stream", i>> : i \in {j \in DOMAIN core_inst_stream :
                                                     core_inst_stream[j] = id}}) = 1
    <3>1. PICK x : PlacesOf(id) \union At("stream", core_inst_stream, id) = {x}
      BY <2>1, InOnePlace
    <3>2. Cardinality({x}) = 1
      BY FS_Singleton
    <3> QED
      BY <3>1, <3>2 DEF At
  <2> QED
    BY <2>2, <2>3 DEF DecodedInOrder
<1> QED
  BY <1>1, FetchInvariance, PTL
===============================================================================
