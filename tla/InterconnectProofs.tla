-------------------------- MODULE InterconnectProofs --------------------------
(***************************************************************************)
(* Theorems about Interconnect, for every number of sources and            *)
(* destinations and all sizes and delays: the queues are in order of time  *)
(* and within their sizes, the switch matches ports, every pair is a       *)
(* channel, and what can strand a packet.                                  *)
(***************************************************************************)
EXTENDS Interconnect, FiniteSetTheorems, SequenceTheorems, WellFoundedInduction,
        TLAPS

(***************************************************************************)
(* Queues of packets from A to B, in order of time, none later than hi.    *)
(***************************************************************************)
Between(A, B) == [source : A, dest : B, no : 1 .. MaxSent, size : {1, 2},
                  wait : Int, timer : Nat]

Ordered(q) == \A i, j \in DOMAIN q : i < j => q[i].wait <= q[j].wait
Below(q, hi) == \A i \in DOMAIN q : q[i].wait <= hi

InTime(q, A, B, hi) == q \in Seq(Between(A, B)) /\ Ordered(q) /\ Below(q, hi)

\* r holds the packets of q, with other times.
SamePackets(q, r) ==
  /\ Len(r) = Len(q) /\ DOMAIN r = DOMAIN q
  /\ \A i \in DOMAIN q : /\ r[i].source = q[i].source /\ r[i].dest = q[i].dest
                         /\ r[i].no = q[i].no /\ r[i].size = q[i].size

LEMMA Indices ==
  ASSUME NEW S, NEW q \in Seq(S)
  PROVE  /\ Len(q) \in Nat /\ DOMAIN q = 1 .. Len(q)
         /\ \A i \in DOMAIN q : q[i] \in S
         /\ q # <<>> => 1 \in DOMAIN q /\ Head(q) = q[1]
OBVIOUS

LEMMA PacketsOf ==
  ASSUME NEW A, NEW B, NEW q \in Seq(Between(A, B))
  PROVE  /\ Len(q) \in Nat /\ DOMAIN q = 1 .. Len(q)
         /\ \A i \in DOMAIN q :
              /\ q[i] \in Between(A, B) /\ q[i].source \in A /\ q[i].dest \in B
              /\ q[i].no \in 1 .. MaxSent /\ q[i].size \in {1, 2}
              /\ q[i].wait \in Int /\ q[i].timer \in Nat
<1>1. Len(q) \in Nat /\ DOMAIN q = 1 .. Len(q) /\ \A i \in DOMAIN q : q[i] \in Between(A, B)
  BY Indices
<1> QED
  BY <1>1 DEF Between

SameBut(p, r) ==
  /\ r.source = p.source /\ r.dest = p.dest /\ r.no = p.no /\ r.size = p.size

LEMMA WaitSet ==
  ASSUME NEW A, NEW B, NEW p \in Between(A, B), NEW w \in Int,
         NEW r, r = [p EXCEPT !.wait = w]
  PROVE  r \in Between(A, B) /\ r.wait = w /\ r.timer = p.timer /\ SameBut(p, r)
BY DEF Between, SameBut

LEMMA TimerSet ==
  ASSUME NEW A, NEW B, NEW p \in Between(A, B), NEW t \in Nat,
         NEW r, r = [p EXCEPT !.timer = t]
  PROVE  r \in Between(A, B) /\ r.wait = p.wait /\ r.timer = t /\ SameBut(p, r)
BY DEF Between, SameBut

\* The packets that Bump puts off: those due now, behind no packet to come.
Due(q) == {i \in DOMAIN q : q[i].wait = 0 /\ \A j \in 1 .. i - 1 : q[j].wait <= 0}

LEMMA BumpTyped ==
  ASSUME NEW A, NEW B, NEW q \in Seq(Between(A, B))
  PROVE  /\ Bump(q) \in Seq(Between(A, B))
         /\ SamePackets(q, Bump(q))
         /\ \A i \in DOMAIN q : /\ Bump(q)[i].timer = q[i].timer
                                /\ i \in Due(q) => Bump(q)[i].wait = 1
                                /\ i \notin Due(q) => Bump(q)[i].wait = q[i].wait
<1>1. DOMAIN q = 1 .. Len(q) /\ Len(q) \in Nat /\ \A i \in DOMAIN q : q[i] \in Between(A, B)
  BY Indices
<1> DEFINE r == Bump(q)
<1>2. /\ r = [i \in DOMAIN q |-> IF i \in Due(q) THEN [q[i] EXCEPT !.wait = 1] ELSE q[i]]
      /\ DOMAIN r = DOMAIN q
  BY DEF Bump, Due
<1> HIDE DEF r
<1>3. ASSUME NEW i \in DOMAIN q
      PROVE  /\ r[i] \in Between(A, B)
             /\ r[i].source = q[i].source /\ r[i].dest = q[i].dest
             /\ r[i].no = q[i].no /\ r[i].size = q[i].size
             /\ r[i].timer = q[i].timer
             /\ i \in Due(q) => r[i].wait = 1
             /\ i \notin Due(q) => r[i].wait = q[i].wait
  <2>1. q[i] \in Between(A, B) /\ 1 \in Int /\ 0 \in Nat
    BY <1>1
  <2>2. CASE i \in Due(q)
    <3>1. r[i] = [q[i] EXCEPT !.wait = 1]
      BY <1>2, <2>2
    <3>2. /\ r[i] \in Between(A, B) /\ r[i].wait = 1 /\ r[i].timer = q[i].timer
          /\ SameBut(q[i], r[i])
      BY <2>1, <3>1, WaitSet
    <3> QED
      BY <2>2, <3>2 DEF SameBut
  <2>3. CASE i \notin Due(q)
    <3>1. r[i] = q[i]
      BY <1>2, <2>3
    <3> QED
      BY <2>1, <2>3, <3>1
  <2> QED
    BY <2>2, <2>3
<1>4. r \in [1 .. Len(q) -> Between(A, B)]
  BY <1>1, <1>2, <1>3
<1>5. r \in Seq(Between(A, B)) /\ Len(r) = Len(q)
  BY <1>1, <1>4
<1> QED
  BY <1>2, <1>3, <1>5 DEF SamePackets, r

LEMMA BumpInTime ==
  ASSUME NEW A, NEW B, NEW hi \in Int, hi >= 1, NEW q, InTime(q, A, B, hi)
  PROVE  InTime(Bump(q), A, B, hi)
<1>. PICK r : r = Bump(q)
  OBVIOUS
<1>1. /\ r \in Seq(Between(A, B)) /\ DOMAIN r = DOMAIN q /\ DOMAIN q = 1 .. Len(q)
      /\ Len(q) \in Nat
      /\ \A i \in DOMAIN q : /\ i \in Due(q) => r[i].wait = 1
                             /\ i \notin Due(q) => r[i].wait = q[i].wait
                             /\ q[i].wait \in Int
  BY BumpTyped, PacketsOf DEF InTime, SamePackets
<1>2. Below(r, hi)
  BY <1>1 DEF InTime, Below
<1>3. ASSUME NEW i \in DOMAIN q, NEW j \in DOMAIN q, i < j
      PROVE  r[i].wait <= r[j].wait
  <2>1. q[i].wait <= q[j].wait
    BY <1>3 DEF InTime, Ordered
  <2>2. ASSUME NEW k \in 1 .. j - 1
        PROVE  k \in DOMAIN q /\ q[k].wait <= q[j].wait
    <3>1. k \in DOMAIN q /\ k < j
      BY <1>1
    <3> QED
      BY <3>1 DEF InTime, Ordered
  <2>3. CASE j \in Due(q)
    <3>1. q[i].wait <= 0
      BY <2>1, <2>3 DEF Due
    <3> QED
      BY <1>1, <2>3, <3>1
  <2>4. CASE j \notin Due(q) /\ i \in Due(q)
    <3>1. q[i].wait = 0
      BY <2>4 DEF Due
    <3>2. q[j].wait # 0
      BY <1>1, <2>2, <2>4 DEF Due
    <3> QED
      BY <1>1, <2>1, <2>4, <3>1, <3>2
  <2>5. CASE j \notin Due(q) /\ i \notin Due(q)
    BY <1>1, <2>1, <2>5
  <2> QED
    BY <2>3, <2>4, <2>5
<1> QED
  BY <1>1, <1>2, <1>3 DEF InTime, Ordered

LEMMA AgeTyped ==
  ASSUME NEW A, NEW B, NEW q \in Seq(Between(A, B))
  PROVE  /\ Age(q) \in Seq(Between(A, B))
         /\ SamePackets(q, Age(q))
         /\ \A i \in DOMAIN q :
              /\ Age(q)[i].timer = q[i].timer
              /\ Age(q)[i].wait = IF q[i].wait > LATE THEN q[i].wait - 1 ELSE LATE
<1>1. DOMAIN q = 1 .. Len(q) /\ Len(q) \in Nat /\ \A i \in DOMAIN q : q[i] \in Between(A, B)
  BY Indices
<1> DEFINE w(i) == IF q[i].wait > LATE THEN q[i].wait - 1 ELSE LATE
           r == Age(q)
<1>2. r = [i \in DOMAIN q |-> [q[i] EXCEPT !.wait = w(i)]] /\ DOMAIN r = DOMAIN q
  BY <1>1 DEF Age, Between
<1>3. \A i \in DOMAIN q : w(i) \in Int
  BY <1>1 DEF Between, LATE
<1> HIDE DEF r, w
<1>4. ASSUME NEW i \in DOMAIN q
      PROVE  /\ r[i] \in Between(A, B)
             /\ r[i].source = q[i].source /\ r[i].dest = q[i].dest
             /\ r[i].no = q[i].no /\ r[i].size = q[i].size
             /\ r[i].timer = q[i].timer /\ r[i].wait = w(i)
  <2>1. q[i] \in Between(A, B) /\ w(i) \in Int /\ 0 \in Nat
    BY <1>1, <1>3
  <2>2. r[i] = [q[i] EXCEPT !.wait = w(i)]
    BY <1>2
  <2> QED
    BY <2>1, <2>2, WaitSet DEF SameBut
<1>5. r \in [1 .. Len(q) -> Between(A, B)]
  BY <1>1, <1>2, <1>4
<1>6. r \in Seq(Between(A, B)) /\ Len(r) = Len(q)
  BY <1>1, <1>5
<1> QED
  BY <1>2, <1>4, <1>6 DEF SamePackets, r, w

LEMMA AgeInTime ==
  ASSUME NEW A, NEW B, NEW hi \in Nat, NEW q, InTime(q, A, B, hi)
  PROVE  /\ InTime(Age(q), A, B, hi)
         /\ hi = 1 => InTime(Age(q), A, B, 0)
<1>. PICK r : r = Age(q)
  OBVIOUS
<1>1. /\ r \in Seq(Between(A, B)) /\ DOMAIN r = DOMAIN q
      /\ \A i \in DOMAIN q :
           /\ r[i].wait = IF q[i].wait > -1 THEN q[i].wait - 1 ELSE -1
           /\ q[i].wait \in Int
  BY AgeTyped, PacketsOf DEF InTime, SamePackets, LATE
<1>2. Below(r, hi) /\ (hi = 1 => Below(r, 0))
  BY <1>1 DEF InTime, Below
<1>3. ASSUME NEW i \in DOMAIN q, NEW j \in DOMAIN q, i < j
      PROVE  r[i].wait <= r[j].wait
  <2>1. q[i].wait <= q[j].wait
    BY <1>3 DEF InTime, Ordered
  <2> QED
    BY <1>1, <2>1
<1> QED
  BY <1>1, <1>2, <1>3 DEF InTime, Ordered

LEMMA TailInTime ==
  ASSUME NEW A, NEW B, NEW hi \in Int, NEW q, InTime(q, A, B, hi), q # <<>>
  PROVE  InTime(Tail(q), A, B, hi)
<1>1. /\ Tail(q) \in Seq(Between(A, B)) /\ DOMAIN Tail(q) = 1 .. Len(q) - 1
      /\ Len(q) \in Nat /\ DOMAIN q = 1 .. Len(q)
      /\ \A i \in 1 .. Len(q) - 1 : Tail(q)[i] = q[i + 1]
  BY DEF InTime
<1>2. ASSUME NEW i \in DOMAIN Tail(q), NEW j \in DOMAIN Tail(q), i < j
      PROVE  Tail(q)[i].wait <= Tail(q)[j].wait
  <2>1. i + 1 \in DOMAIN q /\ j + 1 \in DOMAIN q /\ i + 1 < j + 1
    BY <1>1, <1>2
  <2>2. q[i + 1].wait <= q[j + 1].wait
    BY <2>1 DEF InTime, Ordered
  <2> QED
    BY <1>1, <2>2
<1>3. ASSUME NEW i \in DOMAIN Tail(q)
      PROVE  Tail(q)[i].wait <= hi
  <2>1. i + 1 \in DOMAIN q /\ Tail(q)[i] = q[i + 1]
    BY <1>1
  <2> QED
    BY <2>1 DEF InTime, Below
<1> QED
  BY <1>1, <1>2, <1>3 DEF InTime, Ordered, Below

LEMMA AppendInTime ==
  ASSUME NEW A, NEW B, NEW hi \in Int, NEW q, InTime(q, A, B, hi),
         NEW e \in Between(A, B), e.wait = hi
  PROVE  InTime(Append(q, e), A, B, hi)
<1>1. /\ Append(q, e) \in Seq(Between(A, B))
      /\ Len(q) \in Nat /\ DOMAIN q = 1 .. Len(q)
      /\ DOMAIN Append(q, e) = 1 .. Len(q) + 1
      /\ Append(q, e)[Len(q) + 1] = e
      /\ \A i \in 1 .. Len(q) : Append(q, e)[i] = q[i]
  BY DEF InTime
<1>2. Below(Append(q, e), hi)
  BY <1>1 DEF InTime, Below
<1>3. ASSUME NEW i \in 1 .. Len(q) + 1, NEW j \in 1 .. Len(q) + 1, i < j
      PROVE  Append(q, e)[i].wait <= Append(q, e)[j].wait
  <2>1. CASE j = Len(q) + 1
    BY <1>1, <1>3, <2>1 DEF InTime, Below
  <2>2. CASE j # Len(q) + 1
    BY <1>1, <1>3, <2>2 DEF InTime, Ordered
  <2> QED
    BY <2>1, <2>2
<1> QED
  BY <1>1, <1>2, <1>3 DEF InTime, Ordered

LEMMA ArriveInTime ==
  ASSUME NEW A, NEW B, NEW hi \in Int, NEW q, InTime(q, A, B, hi),
         NEW p \in Between(A, B)
  PROVE  InTime(Arrive(q, p, hi), A, B, hi)
<1>. PICK e : e = [p EXCEPT !.timer = 0, !.wait = hi]
  OBVIOUS
<1>1. e \in Between(A, B) /\ e.wait = hi
  BY DEF Between
<1>2. InTime(Append(q, e), A, B, hi)
  BY <1>1, AppendInTime
<1> QED
  BY <1>2 DEF Arrive

\* The front packet is at work for one cycle more.
LEMMA TimerInTime ==
  ASSUME NEW A, NEW B, NEW hi \in Int, NEW q, InTime(q, A, B, hi), q # <<>>
  PROVE  LET r == [q EXCEPT ![1].timer = @ + 1]
         IN  /\ InTime(r, A, B, hi) /\ SamePackets(q, r)
             /\ \A i \in DOMAIN q : /\ r[i].wait = q[i].wait
                                    /\ i # 1 => r[i].timer = q[i].timer
             /\ r[1].timer = q[1].timer + 1
<1>1. /\ Len(q) \in Nat /\ DOMAIN q = 1 .. Len(q) /\ 1 \in DOMAIN q
      /\ \A i \in DOMAIN q : q[i] \in Between(A, B)
  BY Indices DEF InTime
<1>. PICK e : e = [q[1] EXCEPT !.timer = q[1].timer + 1]
  OBVIOUS
<1>. PICK r : r = [q EXCEPT ![1] = e]
  OBVIOUS
<1>2. q[1].timer + 1 \in Nat /\ 0 \in Int
  BY <1>1 DEF Between
<1>3. /\ e \in Between(A, B) /\ e.wait = q[1].wait /\ e.timer = q[1].timer + 1
      /\ e.source = q[1].source /\ e.dest = q[1].dest /\ e.no = q[1].no
      /\ e.size = q[1].size
  BY <1>1, <1>2, TimerSet DEF SameBut
<1>4. r \in Seq(Between(A, B)) /\ Len(r) = Len(q) /\ DOMAIN r = DOMAIN q
  BY <1>1, <1>3 DEF InTime
<1>5. \A i \in DOMAIN q : r[i] = IF i = 1 THEN e ELSE q[i]
  BY <1>1
<1>6. \A i \in DOMAIN q : /\ r[i].wait = q[i].wait
                          /\ i # 1 => r[i].timer = q[i].timer
  BY <1>3, <1>5
<1>7. InTime(r, A, B, hi)
  BY <1>4, <1>6 DEF InTime, Ordered, Below
<1>8. SamePackets(q, r)
  BY <1>3, <1>4, <1>5 DEF SamePackets
<1>9. r = [q EXCEPT ![1].timer = @ + 1]
  BY <1>1
<1> QED
  BY <1>1, <1>3, <1>5, <1>6, <1>7, <1>8, <1>9

LEMMA SameTwice ==
  ASSUME NEW q, NEW r, NEW t, SamePackets(q, r), SamePackets(r, t)
  PROVE  SamePackets(q, t)
BY DEF SamePackets

\* A stage takes the front packet or leaves all where they are.
LEMMA ServedInTime ==
  ASSUME NEW A, NEW B, NEW hi \in Int, hi >= 1, NEW q, InTime(q, A, B, hi),
         NEW delay
  PROVE  /\ InTime(Served(q, delay), A, B, hi)
         /\ Leaves(q, delay) => q # <<>> /\ SamePackets(Tail(q), Served(q, delay))
         /\ ~ Leaves(q, delay) => SamePackets(q, Served(q, delay))
<1>1. CASE Leaves(q, delay)
  <2>1. q # <<>>
    BY <1>1 DEF Leaves, Ready
  <2>2. InTime(Tail(q), A, B, hi)
    BY <2>1, TailInTime
  <2>3. InTime(Bump(Tail(q)), A, B, hi) /\ SamePackets(Tail(q), Bump(Tail(q)))
    BY <2>2, BumpInTime, BumpTyped DEF InTime
  <2> QED
    BY <1>1, <2>1, <2>3 DEF Served
<1>2. CASE ~ Leaves(q, delay) /\ Ready(q) /\ Head(q).timer < delay
  <2>1. q # <<>>
    BY <1>2 DEF Ready
  <2>. PICK r : r = [q EXCEPT ![1].timer = @ + 1]
    OBVIOUS
  <2>2. InTime(r, A, B, hi) /\ SamePackets(q, r)
    BY <2>1, TimerInTime
  <2>3. InTime(Bump(r), A, B, hi) /\ SamePackets(r, Bump(r))
    BY <2>2, BumpInTime, BumpTyped DEF InTime
  <2>4. Served(q, delay) = Bump(r)
    BY <1>2 DEF Served
  <2> QED
    BY <1>2, <2>2, <2>3, <2>4, SameTwice
<1>3. CASE ~ Leaves(q, delay) /\ ~ (Ready(q) /\ Head(q).timer < delay)
  BY <1>3 DEF Served, SamePackets
<1> QED
  BY <1>1, <1>2, <1>3

-------------------------------------------------------------------------------
(***************************************************************************)
(* The room packets take.                                                  *)
(***************************************************************************)
LEMMA UnitsFinite ==
  ASSUME NEW S, NEW q \in Seq(S)
  PROVE  IsFiniteSet(Units(q)) /\ Bytes(q) \in Nat
<1>1. DOMAIN q = 1 .. Len(q) /\ Len(q) \in Nat
  OBVIOUS
<1>2. IsFiniteSet(DOMAIN q) /\ IsFiniteSet(1 .. 2)
  <2>1. 1 \in Int /\ 2 \in Int /\ Len(q) \in Int
    BY <1>1
  <2> QED
    BY <1>1, <2>1, FS_Interval
<1>3. IsFiniteSet((DOMAIN q) \X (1 .. 2))
  BY <1>2, FS_Product
<1>4. Units(q) \subseteq (DOMAIN q) \X (1 .. 2)
  BY DEF Units
<1>5. IsFiniteSet(Units(q))
  BY <1>3, <1>4, FS_Subset
<1> QED
  BY <1>5, FS_CardinalityType DEF Bytes

LEMMA UnitsSame ==
  ASSUME NEW q, NEW r, SamePackets(q, r)
  PROVE  Units(r) = Units(q) /\ Bytes(r) = Bytes(q)
<1>1. DOMAIN r = DOMAIN q /\ \A i \in DOMAIN q : r[i].size = q[i].size
  BY DEF SamePackets
<1>2. \A u \in (DOMAIN q) \X {1, 2} : u[2] <= r[u[1]].size <=> u[2] <= q[u[1]].size
  <2>1. \A u \in (DOMAIN q) \X {1, 2} : u[1] \in DOMAIN q
    OBVIOUS
  <2> QED
    BY <1>1, <2>1
<1>3. Units(r) = Units(q)
  BY <1>1, <1>2 DEF Units
<1> QED
  BY <1>3 DEF Bytes

\* Where a unit of Tail(q) is in q.
Behind(u) == <<u[1] + 1, u[2]>>

LEMMA UnitsBehind ==
  ASSUME NEW S, NEW q \in Seq(S), q # <<>>, NEW r, SamePackets(Tail(q), r)
  PROVE  /\ \A u \in Units(r) : Behind(u) \in Units(q)
         /\ \A u, v \in Units(r) : Behind(u) = Behind(v) => u = v
<1>1. /\ Len(q) \in Nat /\ DOMAIN q = 1 .. Len(q) /\ DOMAIN Tail(q) = 1 .. Len(q) - 1
      /\ \A i \in 1 .. Len(q) - 1 : Tail(q)[i] = q[i + 1]
  OBVIOUS
<1>2. Units(r) = Units(Tail(q))
  BY UnitsSame
<1>3. ASSUME NEW u \in Units(Tail(q))
      PROVE  Behind(u) \in Units(q) /\ u[1] \in Nat /\ u = <<u[1], u[2]>>
  <2>1. /\ u \in (1 .. Len(q) - 1) \X {1, 2} /\ u[2] <= Tail(q)[u[1]].size
    BY <1>1 DEF Units
  <2>2. /\ u[1] \in 1 .. Len(q) - 1 /\ u[2] \in {1, 2} /\ u = <<u[1], u[2]>>
    BY <2>1
  <2>3. u[1] + 1 \in DOMAIN q /\ Tail(q)[u[1]] = q[u[1] + 1]
    BY <1>1, <2>2
  <2>. PICK v : v = <<u[1] + 1, u[2]>>
    OBVIOUS
  <2>4. v \in (DOMAIN q) \X {1, 2} /\ v[1] = u[1] + 1 /\ v[2] = u[2]
    BY <2>2, <2>3
  <2>5. v[2] <= q[v[1]].size
    BY <2>1, <2>3, <2>4
  <2> QED
    BY <2>2, <2>4, <2>5 DEF Units, Behind
<1>4. ASSUME NEW u \in Units(Tail(q)), NEW v \in Units(Tail(q)), Behind(u) = Behind(v)
      PROVE  u = v
  <2>1. u[1] + 1 = v[1] + 1 /\ u[2] = v[2]
    BY <1>4 DEF Behind
  <2>2. u[1] \in Nat /\ v[1] \in Nat /\ u = <<u[1], u[2]>> /\ v = <<v[1], v[2]>>
    BY <1>3
  <2>3. u[1] = v[1]
    BY <2>1, <2>2
  <2> QED
    BY <2>1, <2>2, <2>3
<1> QED
  BY <1>2, <1>3, <1>4

LEMMA BytesTaken ==
  ASSUME NEW S, NEW q \in Seq(S), q # <<>>, NEW r, SamePackets(Tail(q), r)
  PROVE  Bytes(r) <= Bytes(q)
<1> DEFINE f == [u \in Units(r) |-> Behind(u)]
<1>1. f \in Injection(Units(r), Units(q))
  BY UnitsBehind DEF Injection, IsInjective
<1> QED
  BY <1>1, UnitsFinite, FS_Injection DEF Bytes

LEMMA UnitsArrived ==
  ASSUME NEW A, NEW B, NEW q \in Seq(Between(A, B)), NEW p \in Between(A, B),
         NEW w \in Int
  PROVE  Units(Arrive(q, p, w)) \subseteq
           Units(q) \cup {<<Len(q) + 1, u>> : u \in 1 .. p.size}
<1>. PICK e : e = [p EXCEPT !.timer = 0, !.wait = w]
  OBVIOUS
<1>1. e \in Between(A, B) /\ e.size = p.size /\ p.size \in {1, 2}
  BY DEF Between
<1>2. /\ Len(q) \in Nat /\ DOMAIN q = 1 .. Len(q)
      /\ DOMAIN Append(q, e) = 1 .. Len(q) + 1
      /\ Append(q, e)[Len(q) + 1] = e
      /\ \A i \in 1 .. Len(q) : Append(q, e)[i] = q[i]
  BY <1>1
<1>3. ASSUME NEW u \in Units(Append(q, e))
      PROVE  u \in Units(q) \cup {<<Len(q) + 1, k>> : k \in 1 .. p.size}
  <2>1. /\ u \in (1 .. Len(q) + 1) \X {1, 2} /\ u[2] <= Append(q, e)[u[1]].size
    BY <1>2 DEF Units
  <2>2. u[1] \in 1 .. Len(q) + 1 /\ u[2] \in {1, 2} /\ u = <<u[1], u[2]>>
    BY <2>1
  <2>3. CASE u[1] = Len(q) + 1
    <3>1. u[2] \in 1 .. p.size
      BY <1>1, <1>2, <2>1, <2>2, <2>3
    <3> QED
      BY <2>2, <2>3, <3>1
  <2>4. CASE u[1] # Len(q) + 1
    <3>1. u[1] \in DOMAIN q /\ u \in (DOMAIN q) \X {1, 2}
      BY <1>2, <2>2, <2>4
    <3>2. u[2] <= q[u[1]].size
      BY <1>2, <2>1, <3>1
    <3> QED
      BY <3>1, <3>2 DEF Units
  <2> QED
    BY <2>3, <2>4
<1> QED
  BY <1>3 DEF Arrive

\* One or two more elements.
LEMMA SomeMore ==
  ASSUME NEW S, IsFiniteSet(S), NEW a, NEW b, NEW n \in {1, 2},
         NEW T, T \subseteq S \cup {a, b}, n = 1 => a = b
  PROVE  IsFiniteSet(T) /\ Cardinality(T) <= Cardinality(S) + n
<1>1. /\ IsFiniteSet(S \cup {a})
      /\ Cardinality(S \cup {a}) <= Cardinality(S) + 1
      /\ Cardinality(S) \in Nat /\ Cardinality(S \cup {a}) \in Nat
  <2>1. IsFiniteSet(S \cup {a})
    BY FS_AddElement
  <2>2. Cardinality(S) \in Nat /\ Cardinality(S \cup {a}) \in Nat
    BY <2>1, FS_CardinalityType
  <2>3. Cardinality(S \cup {a}) = IF a \in S THEN Cardinality(S) ELSE Cardinality(S) + 1
    BY FS_AddElement
  <2> QED
    BY <2>1, <2>2, <2>3
<1>. PICK U : U = S \cup {a}
  OBVIOUS
<1>2. /\ IsFiniteSet(U \cup {b})
      /\ Cardinality(U \cup {b}) <= Cardinality(U) + 1
      /\ Cardinality(U \cup {b}) \in Nat
  <2>1. IsFiniteSet(U) /\ IsFiniteSet(U \cup {b})
    BY <1>1, FS_AddElement
  <2>2. Cardinality(U) \in Nat /\ Cardinality(U \cup {b}) \in Nat
    BY <2>1, FS_CardinalityType
  <2>3. Cardinality(U \cup {b}) = IF b \in U THEN Cardinality(U) ELSE Cardinality(U) + 1
    BY <2>1, FS_AddElement
  <2> QED
    BY <2>1, <2>2, <2>3
<1>3. CASE n = 1
  <2>1. T \subseteq U
    BY <1>3
  <2>2. IsFiniteSet(T) /\ Cardinality(T) <= Cardinality(U)
    BY <1>1, <2>1, FS_Subset
  <2>3. Cardinality(T) \in Nat
    BY <2>2, FS_CardinalityType
  <2> QED
    BY <1>1, <1>3, <2>2, <2>3
<1>4. CASE n = 2
  <2>1. T \subseteq U \cup {b}
    OBVIOUS
  <2>2. IsFiniteSet(T) /\ Cardinality(T) <= Cardinality(U \cup {b})
    BY <1>2, <2>1, FS_Subset
  <2>3. Cardinality(T) \in Nat
    BY <2>2, FS_CardinalityType
  <2> QED
    BY <1>1, <1>2, <1>4, <2>2, <2>3
<1> QED
  BY <1>3, <1>4

LEMMA BytesArrived ==
  ASSUME NEW A, NEW B, NEW q \in Seq(Between(A, B)), NEW p \in Between(A, B),
         NEW w \in Int
  PROVE  Bytes(Arrive(q, p, w)) <= Bytes(q) + p.size
<1>1. p.size \in {1, 2}
  BY DEF Between
<1> DEFINE a == <<Len(q) + 1, 1>>
           b == <<Len(q) + 1, p.size>>
<1>2. Units(Arrive(q, p, w)) \subseteq Units(q) \cup {a, b}
  <2>1. \A u \in 1 .. p.size : u = 1 \/ u = p.size
    BY <1>1
  <2> QED
    BY <2>1, UnitsArrived
<1>3. p.size = 1 => a = b
  OBVIOUS
<1> HIDE DEF a, b
<1> QED
  BY <1>1, <1>2, <1>3, UnitsFinite, SomeMore DEF Bytes

-------------------------------------------------------------------------------
\* The virtual queues of a port together.
UnitsOf(qs) == UNION {{d} \X Units(qs[d]) : d \in Dests}

LEMMA OfPort == \A s : PortUnits(s) = UnitsOf(input_port_queue[s])
BY DEF PortUnits, UnitsOf

LEMMA DestsFinite == IsFiniteSet(Dests) /\ IsFiniteSet(Sources)
<1>1. NumDests - 1 \in Int /\ NumSources - 1 \in Int /\ 0 \in Int
  BY SizesAssumption
<1> QED
  BY <1>1, FS_Interval DEF Dests, Sources

LEMMA InUnitsOf ==
  ASSUME NEW qs, NEW e
  PROVE  e \in UnitsOf(qs) <=> /\ e = <<e[1], e[2]>> /\ e[1] \in Dests
                               /\ e[2] \in Units(qs[e[1]])
<1>1. ASSUME e \in UnitsOf(qs)
      PROVE  e = <<e[1], e[2]>> /\ e[1] \in Dests /\ e[2] \in Units(qs[e[1]])
  <2>1. PICK d \in Dests : e \in {d} \X Units(qs[d])
    BY <1>1 DEF UnitsOf
  <2>2. e = <<e[1], e[2]>> /\ e[1] = d /\ e[2] \in Units(qs[d])
    BY <2>1
  <2> QED
    BY <2>2
<1>2. ASSUME e = <<e[1], e[2]>>, e[1] \in Dests, e[2] \in Units(qs[e[1]])
      PROVE  e \in UnitsOf(qs)
  <2>1. <<e[1], e[2]>> \in {e[1]} \X Units(qs[e[1]])
    BY <1>2
  <2>2. e \in {e[1]} \X Units(qs[e[1]])
    BY <1>2, <2>1
  <2> QED
    BY <1>2, <2>2 DEF UnitsOf
<1> QED
  BY <1>1, <1>2

LEMMA PortFinite ==
  ASSUME NEW S, NEW qs, \A d \in Dests : qs[d] \in Seq(S)
  PROVE  IsFiniteSet(UnitsOf(qs)) /\ Cardinality(UnitsOf(qs)) \in Nat
<1> DEFINE F(d) == {d} \X Units(qs[d])
           T == {F(d) : d \in Dests}
<1>1. ASSUME NEW d \in Dests
      PROVE  IsFiniteSet(F(d))
  <2>1. IsFiniteSet(Units(qs[d])) /\ IsFiniteSet({d})
    BY UnitsFinite, FS_Singleton
  <2> QED
    BY <2>1, FS_Product
<1>2. IsFiniteSet(T)
  <2> DEFINE g == [d \in Dests |-> F(d)]
  <2>1. g \in Surjection(Dests, T)
    BY DEF Surjection
  <2> HIDE DEF g, T
  <2> QED
    BY <2>1, DestsFinite, FS_Surjection
<1>3. \A t \in T : IsFiniteSet(t)
  BY <1>1
<1> HIDE DEF T
<1>4. IsFiniteSet(UNION T)
  BY <1>2, <1>3, FS_UNION
<1>5. UnitsOf(qs) = UNION T
  BY DEF UnitsOf, T
<1> QED
  BY <1>4, <1>5, FS_CardinalityType

LEMMA PortTaken ==
  ASSUME NEW S, NEW qs, NEW rs, \A d \in Dests : qs[d] \in Seq(S),
         \A d \in Dests : \/ SamePackets(qs[d], rs[d])
                          \/ qs[d] # <<>> /\ SamePackets(Tail(qs[d]), rs[d])
  PROVE  Cardinality(UnitsOf(rs)) <= Cardinality(UnitsOf(qs))
<1> DEFINE at(e) == IF SamePackets(qs[e[1]], rs[e[1]]) THEN e ELSE <<e[1], Behind(e[2])>>
           f == [e \in UnitsOf(rs) |-> at(e)]
<1>1. ASSUME NEW e \in UnitsOf(rs)
      PROVE  at(e) \in UnitsOf(qs) /\ at(e)[1] = e[1]
  <2>1. e = <<e[1], e[2]>> /\ e[1] \in Dests /\ e[2] \in Units(rs[e[1]])
    BY InUnitsOf
  <2>2. CASE SamePackets(qs[e[1]], rs[e[1]])
    <3>1. Units(rs[e[1]]) = Units(qs[e[1]])
      BY <2>2, UnitsSame
    <3> QED
      BY <2>1, <2>2, <3>1, InUnitsOf
  <2>3. CASE ~ SamePackets(qs[e[1]], rs[e[1]])
    <3>1. Behind(e[2]) \in Units(qs[e[1]])
      BY <2>1, <2>3, UnitsBehind
    <3>. PICK v : v = <<e[1], Behind(e[2])>>
      OBVIOUS
    <3>2. v[1] = e[1] /\ v[2] = Behind(e[2]) /\ v = <<v[1], v[2]>>
      OBVIOUS
    <3>3. v \in UnitsOf(qs)
      BY <2>1, <3>1, <3>2, InUnitsOf
    <3> QED
      BY <2>3, <3>2, <3>3
  <2> QED
    BY <2>2, <2>3
<1>2. ASSUME NEW e \in UnitsOf(rs), NEW g \in UnitsOf(rs), at(e) = at(g)
      PROVE  e = g
  <2>1. /\ e = <<e[1], e[2]>> /\ e[1] \in Dests /\ e[2] \in Units(rs[e[1]])
        /\ g = <<g[1], g[2]>> /\ g[1] \in Dests /\ g[2] \in Units(rs[g[1]])
    BY InUnitsOf
  <2>2. e[1] = g[1]
    BY <1>1, <1>2
  <2>3. CASE SamePackets(qs[e[1]], rs[e[1]])
    BY <1>2, <2>2, <2>3
  <2>4. CASE ~ SamePackets(qs[e[1]], rs[e[1]])
    <3>1. <<e[1], Behind(e[2])>> = <<g[1], Behind(g[2])>>
      BY <1>2, <2>2, <2>4
    <3>2. Behind(e[2]) = Behind(g[2])
      BY <3>1
    <3>3. e[2] = g[2]
      BY <2>1, <2>2, <2>4, <3>2, UnitsBehind
    <3> QED
      BY <2>1, <2>2, <3>3
  <2> QED
    BY <2>3, <2>4
<1> HIDE DEF at
<1>3. f \in Injection(UnitsOf(rs), UnitsOf(qs))
  BY <1>1, <1>2 DEF Injection, IsInjective
<1> HIDE DEF f
<1> QED
  BY <1>3, PortFinite, FS_Injection

LEMMA PortArrived ==
  ASSUME NEW A, NEW B, NEW qs, NEW rs, \A d \in Dests : qs[d] \in Seq(Between(A, B)),
         NEW p \in Between(A, B), NEW w \in Int, NEW c \in Dests,
         rs[c] = Arrive(qs[c], p, w), \A d \in Dests \ {c} : rs[d] = qs[d]
  PROVE  Cardinality(UnitsOf(rs)) <= Cardinality(UnitsOf(qs)) + p.size
<1>1. p.size \in {1, 2}
  BY DEF Between
<1> DEFINE a == <<c, <<Len(qs[c]) + 1, 1>>>>
           b == <<c, <<Len(qs[c]) + 1, p.size>>>>
<1>2. ASSUME NEW e \in UnitsOf(rs)
      PROVE  e \in UnitsOf(qs) \cup {a, b}
  <2>1. e = <<e[1], e[2]>> /\ e[1] \in Dests /\ e[2] \in Units(rs[e[1]])
    BY InUnitsOf
  <2>2. CASE e[1] = c /\ e[2] \notin Units(qs[c])
    <3>1. e[2] \in {<<Len(qs[c]) + 1, u>> : u \in 1 .. p.size}
      BY <2>1, <2>2, UnitsArrived
    <3>2. PICK u \in 1 .. p.size : e[2] = <<Len(qs[c]) + 1, u>>
      BY <3>1
    <3>3. u = 1 \/ u = p.size
      BY <1>1
    <3> QED
      BY <2>1, <2>2, <3>2, <3>3
  <2>3. CASE ~ (e[1] = c /\ e[2] \notin Units(qs[c]))
    <3>1. e[2] \in Units(qs[e[1]])
      BY <2>1, <2>3
    <3> QED
      BY <2>1, <3>1, InUnitsOf
  <2> QED
    BY <2>2, <2>3
<1>3. p.size = 1 => a = b
  OBVIOUS
<1> HIDE DEF a, b
<1>4. IsFiniteSet(UnitsOf(qs))
  BY PortFinite
<1>5. UnitsOf(rs) \subseteq UnitsOf(qs) \cup {a, b}
  BY <1>2
<1> QED
  BY <1>1, <1>3, <1>4, <1>5, SomeMore

-------------------------------------------------------------------------------
(***************************************************************************)
(* The packets of a pair.                                                  *)
(***************************************************************************)
LEMMA FirstOf ==
  ASSUME NEW T \in SUBSET Nat, T # {}
  PROVE  \E t \in T : \A u \in T : t <= u
<1>1. OpToRel(<, Nat) = {ss \in Nat \X Nat : ss[1] < ss[2]}
  BY DEF OpToRel
<1>2. IsWellFoundedOn(OpToRel(<, Nat), Nat)
  BY NatLessThanWellFounded
<1>3. PICK t \in T : \A u \in T : ~ (<<u, t>> \in OpToRel(<, Nat))
  BY <1>2, WFMin
<1>4. ASSUME NEW u \in T, u < t
      PROVE  FALSE
  <2>1. <<u, t>> \in Nat \X Nat /\ <<u, t>>[1] < <<u, t>>[2]
    BY <1>4
  <2>2. <<u, t>> \in OpToRel(<, Nat)
    BY <2>1, <1>1
  <2> QED
    BY <2>2, <1>3
<1> QED
  BY <1>4

\* Induction, for a set of numbers.
LEMMA AllNumbers ==
  ASSUME NEW T, 0 \in T, \A k \in Nat : k \in T => k + 1 \in T
  PROVE  Nat \subseteq T
<1>1. SUFFICES ASSUME Nat \ T # {}
               PROVE  FALSE
  OBVIOUS
<1>2. PICK k \in Nat \ T : \A u \in Nat \ T : k <= u
  BY <1>1, FirstOf
<1>3. k - 1 \in Nat /\ (k - 1) + 1 = k
  BY <1>2
<1>4. k - 1 \in T
  BY <1>2, <1>3
<1> QED
  BY <1>2, <1>3, <1>4

OfThem(p, s, d) == p.source = s /\ p.dest = d

\* f[i] are the packets from s to d among the first i of q.
Counts(f, q, s, d, k) ==
  /\ f[0] = <<>>
  /\ \A i \in 1 .. k : f[i] = IF OfThem(q[i], s, d) THEN Append(f[i - 1], q[i].no)
                              ELSE f[i - 1]

LEMMA CountsOnce ==
  ASSUME NEW q, NEW s, NEW d, NEW n \in Nat, NEW f, NEW g,
         Counts(f, q, s, d, n), Counts(g, q, s, d, n)
  PROVE  f[n] = g[n]
<1> DEFINE T == {k \in Nat : k <= n => f[k] = g[k]}
<1>1. 0 \in T
  BY DEF Counts
<1>2. ASSUME NEW k \in Nat, k \in T
      PROVE  k + 1 \in T
  <2>1. CASE k + 1 <= n
    <3>1. k + 1 \in 1 .. n /\ (k + 1) - 1 = k /\ f[k] = g[k]
      BY <1>2, <2>1
    <3> QED
      BY <3>1 DEF Counts
  <2> QED
    BY <2>1
<1> HIDE DEF T
<1>3. n \in T
  BY <1>1, <1>2, AllNumbers
<1> QED
  BY <1>3 DEF T

\* The function that OfPair defines.
Firsts(f, q, s, d, k) ==
  f = [i \in 0 .. k |-> IF i = 0 THEN <<>>
                        ELSE IF q[i].source = s /\ q[i].dest = d
                          THEN Append(f[i - 1], q[i].no)
                          ELSE f[i - 1]]

LEMMA FirstsCount ==
  ASSUME NEW q, NEW s, NEW d, NEW n \in Nat, NEW f, Firsts(f, q, s, d, n)
  PROVE  Counts(f, q, s, d, n)
<1>1. \A i \in 0 .. n : f[i] = IF i = 0 THEN <<>>
                                ELSE IF q[i].source = s /\ q[i].dest = d
                                  THEN Append(f[i - 1], q[i].no)
                                  ELSE f[i - 1]
  BY DEF Firsts
<1> QED
  BY <1>1 DEF Counts, OfThem

LEMMA CountsExists ==
  ASSUME NEW q, NEW s, NEW d, NEW n \in Nat
  PROVE  \E f : Firsts(f, q, s, d, n)
<1> DEFINE Is(f, k) == Firsts(f, q, s, d, k)
           T == {k \in Nat : \E f : Is(f, k)}
<1>1. 0 \in T
  <2>. PICK f : f = [i \in 0 .. 0 |-> <<>>]
    OBVIOUS
  <2>1. Is(f, 0)
    BY DEF Firsts
  <2> QED
    BY <2>1
<1>2. ASSUME NEW k \in Nat, k \in T
      PROVE  k + 1 \in T
  <2>1. PICK f : Is(f, k)
    BY <1>2
  <2>. PICK g : g = [i \in 0 .. k + 1 |->
                       IF i <= k THEN f[i]
                       ELSE IF q[i].source = s /\ q[i].dest = d
                         THEN Append(f[k], q[i].no)
                         ELSE f[k]]
    OBVIOUS
  <2>2. \A i \in 0 .. k : g[i] = f[i]
    OBVIOUS
  <2>5. \A i \in 0 .. k : f[i] = IF i = 0 THEN <<>>
                                  ELSE IF q[i].source = s /\ q[i].dest = d
                                    THEN Append(f[i - 1], q[i].no)
                                    ELSE f[i - 1]
    BY <2>1 DEF Firsts
  <2>3. \A i \in 0 .. k + 1 :
          g[i] = IF i = 0 THEN <<>>
                 ELSE IF q[i].source = s /\ q[i].dest = d
                   THEN Append(g[i - 1], q[i].no)
                   ELSE g[i - 1]
    <3>1. ASSUME NEW i \in 0 .. k
          PROVE  g[i] = IF i = 0 THEN <<>>
                        ELSE IF q[i].source = s /\ q[i].dest = d
                          THEN Append(g[i - 1], q[i].no)
                          ELSE g[i - 1]
      <4> HIDE DEF Is
      <4>1. g[i] = f[i]
        BY <2>2
      <4>2. i # 0 => i - 1 \in 0 .. k /\ g[i - 1] = f[i - 1]
        BY <2>2
      <4> QED
        BY <2>5, <4>1, <4>2
    <3>2. /\ k + 1 # 0 /\ (k + 1) - 1 = k /\ g[k] = f[k]
          /\ g[k + 1] = IF q[k + 1].source = s /\ q[k + 1].dest = d
                        THEN Append(f[k], q[k + 1].no)
                        ELSE f[k]
      BY <2>2
    <3>3. ASSUME NEW i \in 0 .. k + 1, i \notin 0 .. k
          PROVE  i = k + 1
      BY <3>3
    <3> QED
      BY <3>1, <3>2, <3>3
  <2>4. Is(g, k + 1)
    BY <2>3 DEF Firsts
  <2> QED
    BY <2>4
<1> HIDE DEF T
<1>3. n \in T
  BY <1>1, <1>2, AllNumbers
<1> QED
  BY <1>3 DEF T

LEMMA OfPairExists ==
  ASSUME NEW q, NEW s, NEW d, Len(q) \in Nat
  PROVE  \E f : Counts(f, q, s, d, Len(q)) /\ OfPair(q, s, d) = f[Len(q)]
<1> DEFINE g == CHOOSE f : Firsts(f, q, s, d, Len(q))
<1>1. OfPair(q, s, d) = IF q = <<>> THEN <<>> ELSE g[Len(q)]
  BY DEF OfPair, Firsts
<1>2. \E f : Firsts(f, q, s, d, Len(q))
  BY CountsExists
<1>3. Firsts(g, q, s, d, Len(q))
  BY <1>2
<1> HIDE DEF g
<1>4. Counts(g, q, s, d, Len(q))
  BY <1>3, FirstsCount
<1>5. q = <<>> => g[Len(q)] = <<>>
  BY <1>4 DEF Counts
<1> QED
  BY <1>1, <1>4, <1>5

LEMMA OfPairIs ==
  ASSUME NEW q, NEW s, NEW d, Len(q) \in Nat, NEW f, Counts(f, q, s, d, Len(q))
  PROVE  OfPair(q, s, d) = f[Len(q)]
BY OfPairExists, CountsOnce

LEMMA CountsTyped ==
  ASSUME NEW A, NEW B, NEW q \in Seq(Between(A, B)), NEW s, NEW d, NEW f,
         Counts(f, q, s, d, Len(q))
  PROVE  \A i \in 0 .. Len(q) : f[i] \in Seq(1 .. MaxSent)
<1>1. Len(q) \in Nat /\ \A i \in 1 .. Len(q) : q[i].no \in 1 .. MaxSent
  BY PacketsOf
<1> DEFINE T == {k \in Nat : k <= Len(q) => f[k] \in Seq(1 .. MaxSent)}
<1>2. 0 \in T
  <2>1. f[0] = <<>> /\ <<>> \in Seq(1 .. MaxSent)
    BY DEF Counts
  <2> QED
    BY <2>1
<1>3. ASSUME NEW k \in Nat, k \in T
      PROVE  k + 1 \in T
  <2>1. CASE k + 1 <= Len(q)
    <3>1. k + 1 \in 1 .. Len(q) /\ (k + 1) - 1 = k /\ f[k] \in Seq(1 .. MaxSent)
      BY <1>1, <1>3, <2>1
    <3>2. f[k + 1] = IF OfThem(q[k + 1], s, d) THEN Append(f[k], q[k + 1].no) ELSE f[k]
      BY <3>1 DEF Counts
    <3>3. Append(f[k], q[k + 1].no) \in Seq(1 .. MaxSent)
      BY <1>1, <3>1
    <3>4. f[k + 1] \in Seq(1 .. MaxSent)
      BY <3>1, <3>2, <3>3
    <3> QED
      BY <3>4
  <2> QED
    BY <2>1
<1> HIDE DEF T
<1>4. ASSUME NEW i \in 0 .. Len(q)
      PROVE  i \in T /\ i \in Nat /\ i <= Len(q)
  BY <1>1, <1>2, <1>3, AllNumbers
<1> QED
  BY <1>4 DEF T

LEMMA OfPairTyped ==
  ASSUME NEW A, NEW B, NEW q \in Seq(Between(A, B)), NEW s, NEW d
  PROVE  OfPair(q, s, d) \in Seq(1 .. MaxSent)
<1>1. Len(q) \in Nat
  BY PacketsOf
<1>2. PICK f : Counts(f, q, s, d, Len(q)) /\ OfPair(q, s, d) = f[Len(q)]
  BY <1>1, OfPairExists
<1>3. Len(q) \in 0 .. Len(q)
  BY <1>1
<1> QED
  BY <1>2, <1>3, CountsTyped

LEMMA OfPairEmpty == \A s, d : OfPair(<<>>, s, d) = <<>>
<1> SUFFICES ASSUME NEW s, NEW d
             PROVE  OfPair(<<>>, s, d) = <<>>
  OBVIOUS
<1>1. Len(<<>>) = 0
  OBVIOUS
<1> QED
  BY <1>1, OfPairExists DEF Counts

LEMMA OfPairSame ==
  ASSUME NEW A, NEW B, NEW q \in Seq(Between(A, B)), NEW r, SamePackets(q, r),
         NEW s, NEW d
  PROVE  OfPair(r, s, d) = OfPair(q, s, d)
<1>1. Len(q) \in Nat /\ DOMAIN q = 1 .. Len(q) /\ Len(r) = Len(q)
  BY PacketsOf DEF SamePackets
<1>2. PICK f : Counts(f, q, s, d, Len(q)) /\ OfPair(q, s, d) = f[Len(q)]
  BY <1>1, OfPairExists
<1>3. Counts(f, r, s, d, Len(r))
  BY <1>1, <1>2 DEF Counts, SamePackets, OfThem
<1> QED
  BY <1>1, <1>2, <1>3, OfPairIs

LEMMA OfPairAppend ==
  ASSUME NEW A, NEW B, NEW q \in Seq(Between(A, B)), NEW p \in Between(A, B),
         NEW s, NEW d
  PROVE  OfPair(Append(q, p), s, d) = IF OfThem(p, s, d)
                                      THEN Append(OfPair(q, s, d), p.no)
                                      ELSE OfPair(q, s, d)
<1>. PICK r : r = Append(q, p)
  OBVIOUS
<1>1. /\ Len(q) \in Nat /\ Len(r) = Len(q) + 1 /\ r[Len(q) + 1] = p
      /\ \A i \in 1 .. Len(q) : r[i] = q[i]
  OBVIOUS
<1>2. PICK f : Counts(f, q, s, d, Len(q)) /\ OfPair(q, s, d) = f[Len(q)]
  BY <1>1, OfPairExists
<1>. PICK g : g = [i \in 0 .. Len(q) + 1 |->
                     IF i <= Len(q) THEN f[i]
                     ELSE IF OfThem(p, s, d) THEN Append(f[Len(q)], p.no)
                     ELSE f[Len(q)]]
  OBVIOUS
<1>3. /\ \A i \in 0 .. Len(q) : g[i] = f[i]
      /\ g[Len(q) + 1] = IF OfThem(p, s, d) THEN Append(f[Len(q)], p.no) ELSE f[Len(q)]
  BY <1>1
<1>4. ASSUME NEW i \in 1 .. Len(q) + 1
      PROVE  g[i] = IF OfThem(r[i], s, d) THEN Append(g[i - 1], r[i].no) ELSE g[i - 1]
  <2>1. CASE i = Len(q) + 1
    <3>1. i - 1 = Len(q) /\ i - 1 \in 0 .. Len(q)
      BY <1>1, <2>1
    <3> QED
      BY <1>1, <1>3, <2>1, <3>1
  <2>2. CASE i # Len(q) + 1
    <3>1. i \in 1 .. Len(q) /\ i \in 0 .. Len(q) /\ i - 1 \in 0 .. Len(q)
      BY <1>1, <2>2
    <3>2. f[i] = IF OfThem(q[i], s, d) THEN Append(f[i - 1], q[i].no) ELSE f[i - 1]
      BY <1>2, <3>1 DEF Counts
    <3> QED
      BY <1>1, <1>3, <3>1, <3>2
  <2> QED
    BY <2>1, <2>2
<1>5. g[0] = <<>>
  BY <1>1, <1>2, <1>3 DEF Counts
<1>6. Counts(g, r, s, d, Len(r))
  BY <1>1, <1>4, <1>5 DEF Counts
<1>7. OfPair(r, s, d) = g[Len(q) + 1]
  BY <1>1, <1>6, OfPairIs
<1> QED
  BY <1>2, <1>3, <1>7

LEMMA ConcatAppend ==
  ASSUME NEW a \in Seq(1 .. MaxSent), NEW b \in Seq(1 .. MaxSent),
         NEW x \in 1 .. MaxSent
  PROVE  Append(a \o b, x) = a \o Append(b, x)
OBVIOUS

LEMMA OfPairBehind ==
  ASSUME NEW A, NEW B, NEW q \in Seq(Between(A, B)), NEW t \in Seq(Between(A, B)),
         Len(q) = Len(t) + 1, \A i \in 1 .. Len(t) : t[i] = q[i + 1], NEW s, NEW d
  PROVE  OfPair(q, s, d) = IF OfThem(q[1], s, d)
                           THEN <<q[1].no>> \o OfPair(t, s, d)
                           ELSE OfPair(t, s, d)
<1>1. Len(t) \in Nat /\ Len(q) \in Nat /\ 1 \in 1 .. Len(q)
  OBVIOUS
<1>2. \A i \in 1 .. Len(q) : q[i].no \in 1 .. MaxSent
  BY PacketsOf
<1>3. PICK f : Counts(f, t, s, d, Len(t)) /\ OfPair(t, s, d) = f[Len(t)]
  BY <1>1, OfPairExists
<1>4. \A i \in 0 .. Len(t) : f[i] \in Seq(1 .. MaxSent)
  BY <1>3, CountsTyped
<1> DEFINE pre == IF OfThem(q[1], s, d) THEN <<q[1].no>> ELSE <<>>
<1>5. pre \in Seq(1 .. MaxSent)
  <2>1. <<q[1].no>> \in Seq(1 .. MaxSent) /\ <<>> \in Seq(1 .. MaxSent)
    BY <1>1, <1>2
  <2> QED
    BY <2>1
<1>6. /\ OfThem(q[1], s, d) => pre = <<q[1].no>> /\ Append(<<>>, q[1].no) = pre
      /\ ~ OfThem(q[1], s, d) => pre = <<>>
  OBVIOUS
<1> HIDE DEF pre
<1> DEFINE c(i) == pre \o f[i - 1]
           g == [i \in 0 .. Len(q) |-> IF i = 0 THEN <<>> ELSE c(i)]
<1>7. g[0] = <<>> /\ \A i \in 1 .. Len(q) : g[i] = pre \o f[i - 1]
  <2> HIDE DEF c
  <2>1. g[0] = <<>> /\ \A i \in 1 .. Len(q) : g[i] = c(i)
    BY <1>1
  <2> HIDE DEF g
  <2> QED
    BY <2>1 DEF c
<1> HIDE DEF g
<1>8. ASSUME NEW i \in 1 .. Len(q)
      PROVE  g[i] = IF OfThem(q[i], s, d) THEN Append(g[i - 1], q[i].no) ELSE g[i - 1]
  <2>1. CASE i = 1
    <3>1. g[1] = pre \o f[0] /\ f[0] = <<>> /\ i - 1 = 0
      <4>1. g[i] = pre \o f[i - 1]
        BY <1>7
      <4>2. i - 1 = 0 /\ i = 1
        BY <2>1
      <4>3. f[0] = <<>>
        BY <1>3 DEF Counts
      <4> QED
        BY <4>1, <4>2, <4>3
    <3>2. pre \o <<>> = pre
      BY <1>5
    <3> QED
      BY <1>6, <1>7, <2>1, <3>1, <3>2
  <2>2. CASE i # 1
    <3>1. /\ i - 1 \in 1 .. Len(t) /\ i - 1 \in 1 .. Len(q)
          /\ (i - 1) - 1 \in 0 .. Len(t) /\ (i - 1) + 1 = i
      BY <1>1, <2>2
    <3>2. t[i - 1] = q[i]
      BY <3>1
    <3>3. f[i - 1] = IF OfThem(q[i], s, d) THEN Append(f[(i - 1) - 1], q[i].no)
                     ELSE f[(i - 1) - 1]
      BY <1>3, <3>1, <3>2 DEF Counts
    <3>4. g[i] = pre \o f[i - 1] /\ g[i - 1] = pre \o f[(i - 1) - 1]
      BY <1>7, <3>1
    <3>5. f[(i - 1) - 1] \in Seq(1 .. MaxSent)
      BY <1>4, <3>1
    <3>6. Append(pre \o f[(i - 1) - 1], q[i].no) = pre \o Append(f[(i - 1) - 1], q[i].no)
      BY <1>2, <1>5, <3>5, ConcatAppend
    <3> QED
      BY <3>3, <3>4, <3>6
  <2> QED
    BY <2>1, <2>2
<1>9. Counts(g, q, s, d, Len(q))
  BY <1>7, <1>8 DEF Counts
<1>10. OfPair(q, s, d) = g[Len(q)]
  BY <1>1, <1>9, OfPairIs
<1>11. g[Len(q)] = pre \o OfPair(t, s, d)
  <2>1. Len(q) \in 1 .. Len(q) /\ Len(q) - 1 = Len(t)
    BY <1>1
  <2> QED
    BY <1>3, <1>7, <2>1
<1>12. <<>> \o OfPair(t, s, d) = OfPair(t, s, d)
  BY OfPairTyped
<1> QED
  BY <1>6, <1>10, <1>11, <1>12

LEMMA OfPairTail ==
  ASSUME NEW A, NEW B, NEW q \in Seq(Between(A, B)), q # <<>>, NEW s, NEW d
  PROVE  OfPair(q, s, d) = IF OfThem(Head(q), s, d)
                           THEN <<Head(q).no>> \o OfPair(Tail(q), s, d)
                           ELSE OfPair(Tail(q), s, d)
<1>1. /\ Tail(q) \in Seq(Between(A, B)) /\ Len(q) = Len(Tail(q)) + 1 /\ q[1] = Head(q)
      /\ \A i \in 1 .. Len(Tail(q)) : Tail(q)[i] = q[i + 1]
  OBVIOUS
<1>2. \A t \in Seq(Between(A, B)) :
        Len(q) = Len(t) + 1 /\ (\A i \in 1 .. Len(t) : t[i] = q[i + 1])
          => OfPair(q, s, d) = IF OfThem(q[1], s, d)
                               THEN <<q[1].no>> \o OfPair(t, s, d)
                               ELSE OfPair(t, s, d)
  BY OfPairBehind
<1> QED
  BY <1>1, <1>2

-------------------------------------------------------------------------------
(***************************************************************************)
(* The turns of the input ports.                                           *)
(***************************************************************************)
LEMMA WrapOnce ==
  ASSUME NEW n \in Nat \ {0}, NEW x \in 0 .. 2 * n - 1
  PROVE  x % n = IF x < n THEN x ELSE x - n
OBVIOUS

LEMMA InRange ==
  ASSUME NEW n \in Nat \ {0}, NEW x \in Int
  PROVE  x % n \in 0 .. n - 1
OBVIOUS

\* The input port whose turn comes j ports after the first one's.
PortAt(j) ==
  IF arbitrator + j < NumSources THEN arbitrator + j ELSE arbitrator + j - NumSources

Turn == [port : Sources, vq : [Sources -> Dests], count : Nat, open : SUBSET Dests,
         granted : SUBSET (Sources \X Dests), ready : Int]

\* Ports have their turn in the order of PortAt, and an output port that has been
\* granted is open no more.
TurnInv(t) ==
  /\ t \in Turn /\ t.count >= 1
  /\ t.count <= NumSources => t.port = PortAt(t.count - 1)
  /\ t.open \subseteq OpenPorts
  /\ \A e \in t.granted :
       /\ Ready(input_port_queue[e[1]][e[2]])
       /\ e[2] \in OpenPorts \ t.open
       /\ \E j \in 0 .. NumSources - 1 : j <= t.count - 2 /\ e[1] = PortAt(j)
  /\ \A e, f \in t.granted : e[1] = f[1] \/ e[2] = f[2] => e = f

LEMMA PortsApart ==
  ASSUME arbitrator \in Sources, NEW j \in 0 .. NumSources - 1,
         NEW k \in 0 .. NumSources - 1
  PROVE  PortAt(j) \in Sources /\ (PortAt(j) = PortAt(k) => j = k)
BY SizesAssumption DEF PortAt, Sources

LEMMA NextPort ==
  ASSUME arbitrator \in Sources, NEW j \in 0 .. NumSources - 1, NEW d \in {1, 2}
  PROVE  /\ (PortAt(j) + d) % NumSources \in Sources
         /\ j + d <= NumSources - 1 => (PortAt(j) + d) % NumSources = PortAt(j + d)
<1>1. PortAt(j) \in 0 .. NumSources - 1 /\ NumSources \in Nat \ {0}
  <2>1. PortAt(j) \in Sources
    BY PortsApart
  <2> QED
    BY <2>1, SizesAssumption DEF Sources
<1>2. (PortAt(j) + d) % NumSources \in Sources
  <2>1. PortAt(j) + d \in Int
    BY <1>1
  <2>2. (PortAt(j) + d) % NumSources \in 0 .. NumSources - 1
    BY <1>1, <2>1, InRange
  <2> QED
    BY <2>2 DEF Sources
<1>3. ASSUME j + d <= NumSources - 1
      PROVE  (PortAt(j) + d) % NumSources = PortAt(j + d)
  <2>1. PortAt(j) + d \in 0 .. 2 * NumSources - 1
    BY <1>1, <1>3
  <2>2. (PortAt(j) + d) % NumSources = IF PortAt(j) + d < NumSources THEN PortAt(j) + d
                                       ELSE PortAt(j) + d - NumSources
    BY <1>1, <2>1, WrapOnce
  <2>3. arbitrator \in 0 .. NumSources - 1
    BY DEF Sources
  <2> QED
    BY <1>1, <1>3, <2>2, <2>3 DEF PortAt
<1> QED
  BY <1>2, <1>3

LEMMA FirstTurnKept ==
  ASSUME arbitrator \in Sources, vq_arbitrator_input_queue \in [Sources -> Dests]
  PROVE  TurnInv(FirstTurn)
<1> DEFINE r == {e \in Sources \X Dests : Ready(input_port_queue[e[1]][e[2]])}
<1>1. Cardinality(r) \in Nat
  <2>1. IsFiniteSet(Sources \X Dests)
    BY DestsFinite, FS_Product
  <2>2. IsFiniteSet(r)
    BY <2>1, FS_Subset
  <2> QED
    BY <2>2, FS_CardinalityType
<1>2. FirstTurn = [port |-> arbitrator, vq |-> vq_arbitrator_input_queue, count |-> 1,
                   open |-> OpenPorts, granted |-> {}, ready |-> Cardinality(r)]
  BY DEF FirstTurn
<1> HIDE DEF r
<1>3. OpenPorts \subseteq Dests
  BY DEF OpenPorts
<1>4. PortAt(0) = arbitrator
  BY SizesAssumption DEF PortAt, Sources
<1>5. FirstTurn \in Turn
  BY <1>1, <1>2, <1>3 DEF Turn
<1>6. /\ FirstTurn.count = 1 /\ FirstTurn.port = arbitrator /\ FirstTurn.open = OpenPorts
      /\ FirstTurn.granted = {}
  BY <1>2
<1> HIDE DEF FirstTurn
<1> QED
  BY <1>4, <1>5, <1>6 DEF TurnInv

LEMMA RoundKept ==
  ASSUME arbitrator \in Sources, NEW t, TurnInv(t)
  PROVE  TurnInv(Round(t))
<1>1. CASE ~ (t.open # {} /\ t.ready > 0 /\ t.count <= NumSources)
  BY <1>1 DEF Round
<1>2. CASE t.open # {} /\ t.ready > 0 /\ t.count <= NumSources
  <2> DEFINE vq(k)  == (t.vq[t.port] + k) % NumDests
             offers == {k \in Dests : Ready(input_port_queue[t.port][vq(k)])
                                      /\ vq(k) \in t.open}
             d      == vq(Min(offers))
  <2>1. /\ t \in Turn /\ t.port \in Sources /\ t.vq \in [Sources -> Dests] /\ t.count \in Nat
        /\ t.open \subseteq Dests /\ t.granted \subseteq Sources \X Dests /\ t.ready \in Int
        /\ t.port = PortAt(t.count - 1) /\ t.count - 1 \in 0 .. NumSources - 1
    BY <1>2, SizesAssumption DEF TurnInv, Turn
  <2>2. CASE offers = {}
    <3>11. PICK r : r = [t EXCEPT !.port = (t.port + 1) % NumSources, !.count = t.count + 1]
      OBVIOUS
    <3>1. Round(t) = r
      BY <1>2, <2>2, <3>11 DEF Round, PortTurn
    <3>10. (t.port + 1) % NumSources \in Sources
      <4>1. PICK j \in 0 .. NumSources - 1 : j = t.count - 1
        BY <2>1
      <4>2. (PortAt(j) + 1) % NumSources \in Sources
        BY NextPort
      <4> QED
        BY <2>1, <4>1, <4>2
    <3>2. /\ r.port = (t.port + 1) % NumSources /\ r.count = t.count + 1
          /\ r.open = t.open /\ r.granted = t.granted /\ r \in Turn
      <4>1. PICK p, c : p = (t.port + 1) % NumSources /\ c = t.count + 1
        OBVIOUS
      <4>2. p \in Sources /\ c \in Nat
        BY <2>1, <3>10, <4>1
      <4>3. r = [t EXCEPT !.port = p, !.count = c]
        BY <3>11, <4>1
      <4>4. /\ r.port = p /\ r.count = c /\ r.open = t.open /\ r.granted = t.granted
            /\ r \in Turn
        BY <2>1, <4>2, <4>3 DEF Turn
      <4> QED
        BY <4>1, <4>4
    <3>3. /\ r.count <= NumSources => r.port = PortAt(r.count - 1)
      <4>1. PICK j \in 0 .. NumSources - 1 : j = t.count - 1
        BY <2>1
      <4>2. /\ (PortAt(j) + 1) % NumSources \in Sources
            /\ j + 1 <= NumSources - 1 => (PortAt(j) + 1) % NumSources = PortAt(j + 1)
        BY NextPort
      <4>3. r.count - 1 = j + 1 /\ (r.count <= NumSources => j + 1 <= NumSources - 1)
        BY <2>1, <3>2, <4>1, SizesAssumption
      <4> QED
        BY <2>1, <3>2, <4>1, <4>2, <4>3
    <3>4. ASSUME NEW e \in r.granted
          PROVE  /\ Ready(input_port_queue[e[1]][e[2]]) /\ e[2] \in OpenPorts \ r.open
                 /\ \E j \in 0 .. NumSources - 1 : j <= r.count - 2 /\ e[1] = PortAt(j)
      <4>1. /\ Ready(input_port_queue[e[1]][e[2]]) /\ e[2] \in OpenPorts \ t.open
            /\ \E j \in 0 .. NumSources - 1 : j <= t.count - 2 /\ e[1] = PortAt(j)
        BY <3>2 DEF TurnInv
      <4>2. \A j \in Int : j <= t.count - 2 => j <= r.count - 2
        BY <2>1, <3>2
      <4> QED
        BY <3>2, <4>1, <4>2
    <3>5. r.count >= 1
      BY <2>1, <3>2
    <3> QED
      BY <3>1, <3>2, <3>3, <3>4, <3>5 DEF TurnInv
  <2>3. CASE offers # {}
    <3> DEFINE g == <<t.port, d>>
    <3>11. PICK r : r = [t EXCEPT !.port = (t.port + 2) % NumSources, !.count = t.count + 2,
                                  !.vq = [t.vq EXCEPT ![t.port] = d], !.open = t.open \ {d},
                                  !.ready = t.ready - 1, !.granted = t.granted \cup {g}]
      OBVIOUS
    <3>1. Round(t) = r
      <4>1. Round(t) = PortTurn(t)
        BY <1>2 DEF Round
      <4>2. PortTurn(t) = [t EXCEPT !.port = (@ + 2) % NumSources, !.count = @ + 2,
                                    !.vq = [t.vq EXCEPT ![t.port] = d], !.open = @ \ {d},
                                    !.ready = @ - 1, !.granted = @ \cup {g}]
        BY <2>3 DEF PortTurn
      <4> HIDE DEF d, g
      <4> QED
        BY <3>11, <4>1, <4>2
    <3>2. d \in t.open /\ Ready(input_port_queue[t.port][d]) /\ d \in Dests
      <4>1. offers \subseteq Nat
        BY SizesAssumption DEF Dests
      <4>2. \E k \in offers : \A u \in offers : k <= u
        BY <2>3, <4>1, FirstOf
      <4>3. Min(offers) \in offers
        BY <4>2 DEF Min
      <4> QED
        BY <2>1, <4>3
    <3> HIDE DEF offers, d, vq
    <3>3. g \in Sources \X Dests /\ g[1] = t.port /\ g[2] = d
      BY <2>1, <3>2
    <3> HIDE DEF g
    <3>10. (t.port + 2) % NumSources \in Sources
      <4>1. PICK j \in 0 .. NumSources - 1 : j = t.count - 1
        BY <2>1
      <4>2. (PortAt(j) + 2) % NumSources \in Sources
        BY NextPort
      <4> QED
        BY <2>1, <4>1, <4>2
    <3>4. /\ r.port = (t.port + 2) % NumSources /\ r.count = t.count + 2
          /\ r.open = t.open \ {d} /\ r.granted = t.granted \cup {g} /\ r \in Turn
      <4>1. PICK p, c, v, o, y, h :
              /\ p = (t.port + 2) % NumSources /\ c = t.count + 2
              /\ v = [t.vq EXCEPT ![t.port] = d] /\ o = t.open \ {d}
              /\ y = t.ready - 1 /\ h = t.granted \cup {g}
        OBVIOUS
      <4>2. /\ p \in Sources /\ c \in Nat /\ v \in [Sources -> Dests]
            /\ o \in SUBSET Dests /\ y \in Int /\ h \in SUBSET (Sources \X Dests)
        BY <2>1, <3>2, <3>3, <3>10, <4>1
      <4>3. r = [t EXCEPT !.port = p, !.count = c, !.vq = v, !.open = o,
                          !.ready = y, !.granted = h]
        BY <3>11, <4>1
      <4>4. r \in Turn /\ r.port = p /\ r.count = c /\ r.open = o /\ r.granted = h
        BY <2>1, <4>2, <4>3 DEF Turn
      <4> QED
        BY <4>1, <4>4
    <3>5. /\ r.count <= NumSources => r.port = PortAt(r.count - 1)
      <4>1. PICK j \in 0 .. NumSources - 1 : j = t.count - 1
        BY <2>1
      <4>2. /\ (PortAt(j) + 2) % NumSources \in Sources
            /\ j + 2 <= NumSources - 1 => (PortAt(j) + 2) % NumSources = PortAt(j + 2)
        BY NextPort
      <4>3. r.count - 1 = j + 2 /\ (r.count <= NumSources => j + 2 <= NumSources - 1)
        BY <2>1, <3>4, <4>1, SizesAssumption
      <4> QED
        BY <2>1, <3>4, <4>1, <4>2, <4>3
    <3>6. ASSUME NEW e \in t.granted
          PROVE  /\ Ready(input_port_queue[e[1]][e[2]]) /\ e[2] \in OpenPorts \ r.open
                 /\ e[1] # t.port /\ e[2] # d
                 /\ \E j \in 0 .. NumSources - 1 : j <= r.count - 2 /\ e[1] = PortAt(j)
      <4>1. /\ Ready(input_port_queue[e[1]][e[2]]) /\ e[2] \in OpenPorts \ t.open
            /\ \E j \in 0 .. NumSources - 1 : j <= t.count - 2 /\ e[1] = PortAt(j)
        BY DEF TurnInv
      <4>2. PICK j \in 0 .. NumSources - 1 : j <= t.count - 2 /\ e[1] = PortAt(j)
        BY <4>1
      <4>3. j <= r.count - 2 /\ j # t.count - 1
        BY <2>1, <3>4, <4>2
      <4>4. PortAt(j) # PortAt(t.count - 1)
        BY <2>1, <4>3, PortsApart
      <4>5. e[1] # t.port
        BY <2>1, <4>2, <4>4
      <4> QED
        BY <3>2, <3>4, <4>1, <4>2, <4>3, <4>5
    <3>7. /\ Ready(input_port_queue[g[1]][g[2]]) /\ g[2] \in OpenPorts \ r.open
          /\ \E j \in 0 .. NumSources - 1 : j <= r.count - 2 /\ g[1] = PortAt(j)
      <4>1. t.count - 1 <= r.count - 2
        BY <2>1, <3>4
      <4>2. d \in OpenPorts
        BY <3>2 DEF TurnInv
      <4> QED
        BY <2>1, <3>2, <3>3, <3>4, <4>1, <4>2
    <3>8. \A e, f \in r.granted : e[1] = f[1] \/ e[2] = f[2] => e = f
      <4>1. \A e, f \in t.granted : e[1] = f[1] \/ e[2] = f[2] => e = f
        BY DEF TurnInv
      <4> QED
        BY <3>3, <3>4, <3>6, <4>1
    <3>9. r.count >= 1 /\ r.open \subseteq OpenPorts
      BY <2>1, <3>4 DEF TurnInv
    <3> QED
      BY <3>1, <3>4, <3>5, <3>6, <3>7, <3>8, <3>9 DEF TurnInv
  <2> QED
    BY <2>2, <2>3
<1> QED
  BY <1>1, <1>2

\* The function that Turns defines.
IsTurns(f, k) ==
  f = [j \in 0 .. k |-> IF j = 0 THEN {FirstTurn} ELSE {Round(t) : t \in f[j - 1]}]

LEMMA IsTurnsAt ==
  ASSUME NEW n \in Nat, NEW f, IsTurns(f, n)
  PROVE  f[0] = {FirstTurn} /\ \A j \in 1 .. n : f[j] = {Round(t) : t \in f[j - 1]}
<1> DEFINE next(j) == {Round(t) : t \in f[j - 1]}
<1>1. \A j \in 0 .. n : f[j] = IF j = 0 THEN {FirstTurn} ELSE next(j)
  BY DEF IsTurns
<1> HIDE DEF next
<1>2. f[0] = {FirstTurn} /\ \A j \in 1 .. n : f[j] = next(j)
  BY <1>1
<1> QED
  BY <1>2 DEF next

LEMMA TurnsExist ==
  ASSUME NEW n \in Nat
  PROVE  \E f : IsTurns(f, n)
<1> DEFINE T == {k \in Nat : \E f : IsTurns(f, k)}
<1>1. 0 \in T
  <2>. PICK f : f = [i \in 0 .. 0 |-> {FirstTurn}]
    OBVIOUS
  <2>1. IsTurns(f, 0)
    BY DEF IsTurns
  <2> QED
    BY <2>1
<1>2. ASSUME NEW k \in Nat, k \in T
      PROVE  k + 1 \in T
  <2>1. PICK f : IsTurns(f, k)
    BY <1>2
  <2>2. f[0] = {FirstTurn} /\ \A j \in 1 .. k : f[j] = {Round(t) : t \in f[j - 1]}
    BY <2>1, IsTurnsAt
  <2> DEFINE next == {Round(t) : t \in f[k]}
  <2>. PICK g : g = [j \in 0 .. k + 1 |-> IF j <= k THEN f[j] ELSE next]
    OBVIOUS
  <2>3. (\A j \in 0 .. k : g[j] = f[j]) /\ g[k + 1] = next
    <3> HIDE DEF next
    <3> QED
      OBVIOUS
  <2>4. ASSUME NEW j \in 0 .. k + 1
        PROVE  g[j] = IF j = 0 THEN {FirstTurn} ELSE {Round(t) : t \in g[j - 1]}
    <3>1. CASE j = 0
      BY <2>2, <2>3, <3>1
    <3>2. CASE j \in 1 .. k
      <4>1. g[j] = f[j] /\ g[j - 1] = f[j - 1]
        BY <2>3, <3>2
      <4> QED
        BY <2>2, <3>2, <4>1
    <3>3. CASE j = k + 1
      <4>1. j - 1 = k /\ j # 0 /\ g[j - 1] = f[k]
        BY <2>3, <3>3
      <4> QED
        BY <2>3, <3>3, <4>1
    <3> QED
      BY <3>1, <3>2, <3>3
  <2>5. IsTurns(g, k + 1)
    BY <2>4 DEF IsTurns
  <2> QED
    BY <2>5
<1> HIDE DEF T
<1>3. n \in T
  BY <1>1, <1>2, AllNumbers
<1> QED
  BY <1>3 DEF T

LEMMA TurnsSound ==
  ASSUME arbitrator \in Sources, vq_arbitrator_input_queue \in [Sources -> Dests],
         NEW t \in Turns
  PROVE  TurnInv(t)
<1> DEFINE f == CHOOSE g : IsTurns(g, NumSources)
<1>1. Turns = f[NumSources]
  BY DEF Turns, IsTurns
<1>2. NumSources \in Nat
  BY SizesAssumption
<1>3. \E g : IsTurns(g, NumSources)
  BY <1>2, TurnsExist
<1>4. IsTurns(f, NumSources)
  BY <1>3
<1> HIDE DEF f
<1>5. /\ f[0] = {FirstTurn}
      /\ \A j \in 1 .. NumSources : f[j] = {Round(r) : r \in f[j - 1]}
  BY <1>2, <1>4, IsTurnsAt
<1> DEFINE T == {k \in Nat : k <= NumSources => \A r \in f[k] : TurnInv(r)}
<1>6. 0 \in T
  BY <1>5, FirstTurnKept
<1>7. ASSUME NEW k \in Nat, k \in T
      PROVE  k + 1 \in T
  <2>1. CASE k + 1 <= NumSources
    <3>1. k + 1 \in 1 .. NumSources /\ (k + 1) - 1 = k /\ k <= NumSources
      BY <1>2, <2>1
    <3>2. f[k + 1] = {Round(r) : r \in f[k]}
      BY <1>5, <3>1
    <3>3. \A r \in f[k] : TurnInv(r)
      BY <1>7, <3>1
    <3>4. \A r \in f[k + 1] : TurnInv(r)
      BY <3>2, <3>3, RoundKept
    <3> QED
      BY <3>4
  <2> QED
    BY <2>1
<1> HIDE DEF T
<1>8. NumSources \in T
  BY <1>2, <1>6, <1>7, AllNumbers
<1> QED
  BY <1>1, <1>2, <1>8 DEF T

-------------------------------------------------------------------------------
(***************************************************************************)
(* The inductive invariant: every queue holds packets of its source and    *)
(* destination, in order of time, and what it is made for.                 *)
(***************************************************************************)
SourceQueues(f, hi) ==
  f \in [Sources -> Seq(Packet)] /\ \A s \in Sources : InTime(f[s], {s}, Dests, hi)
DestQueues(f, hi) ==
  f \in [Dests -> Seq(Packet)] /\ \A d \in Dests : InTime(f[d], Sources, {d}, hi)
PortQueues(f) ==
  /\ f \in [Sources -> [Dests -> Seq(Packet)]]
  /\ \A s \in Sources, d \in Dests : InTime(f[s][d], {s}, {d}, PropDelay + SwitchProcDelay)

SourcesWithin(f) == \A s \in Sources : Bytes(f[s]) <= NicSize
DestsWithin(f, n) == \A d \in Dests : Bytes(f[d]) <= n
PortsWithin(f) == \A s \in Sources : Cardinality(UnitsOf(f[s])) <= PortSize

\* A packet enters the NIC of its source due, when those that wait there are not
\* raised.
NicHi(st) == IF st \in {"nodes", "nic"} THEN 0 ELSE 1

SentInv(f) ==
  f \in [Sources -> Nat] /\ Cardinality(UNION {{s} \X (1 .. f[s]) : s \in Sources}) <= MaxSent

RestInv ==
  /\ arbitrator \in Sources
  /\ vq_arbitrator_input_queue \in [Sources -> Dests]
  /\ network_flow \in {0, 1}
  /\ stage \in {"nodes", "nic", "input", "output", "dest_nic", "deliver"}
  /\ SentInv(sent)
  /\ cycle \in 0 .. SendCycles

NetInv ==
  /\ SourceQueues(packet_queue_source, PacketisationTime)
  /\ SourceQueues(nic_queue_source, NicHi(stage))
  /\ SourcesWithin(nic_queue_source)
  /\ PortQueues(input_port_queue)
  /\ PortsWithin(input_port_queue)
  /\ DestQueues(output_port_queue, SwitchingDelay)
  /\ DestsWithin(output_port_queue, PortSize + 1)
  /\ DestQueues(nic_queue_dest, PropDelay)
  /\ DestsWithin(nic_queue_dest, NicSize)
  /\ DestQueues(packet_queue_dest, PacketisationTime)
  /\ RestInv

LEMMA Delays ==
  /\ PacketisationTime \in Nat \ {0} /\ PropDelay \in Nat \ {0}
  /\ SwitchingDelay \in Nat \ {0} /\ SwitchProcDelay \in Nat \ {0}
  /\ PropDelay + SwitchProcDelay \in Nat \ {0}
  /\ NumSources \in Nat \ {0} /\ NumDests \in Nat \ {0} /\ NicSize \in Nat
  /\ PortSize \in Nat /\ MaxSent \in Nat /\ SendCycles \in Nat
BY SizesAssumption, DelaysAssumption

LEMMA InPackets ==
  ASSUME NEW A, NEW B, NEW hi, NEW q, InTime(q, A, B, hi), A \subseteq Sources,
         B \subseteq Dests
  PROVE  q \in Seq(Packet)
<1>1. q \in Seq(Between(A, B))
  BY DEF InTime
<1>2. Between(A, B) \subseteq Packet
  BY DEF Between, Packet
<1> QED
  BY <1>1, <1>2

LEMMA EmptyInTime ==
  \A A, B : \A hi \in Int : InTime(<<>>, A, B, hi) /\ Bytes(<<>>) = 0
<1>1. Bytes(<<>>) = 0
  <2>1. Units(<<>>) = {}
    BY DEF Units
  <2> QED
    BY <2>1, FS_EmptySet DEF Bytes
<1>2. \A A, B : \A hi \in Int : InTime(<<>>, A, B, hi)
  BY DEF InTime, Ordered, Below
<1> QED
  BY <1>1, <1>2

LEMMA SentPairs ==
  ASSUME NEW f \in [Sources -> Nat]
  PROVE  /\ IsFiniteSet(UNION {{s} \X (1 .. f[s]) : s \in Sources})
         /\ \A s \in Sources :
              f[s] <= Cardinality(UNION {{r} \X (1 .. f[r]) : r \in Sources})
<1> DEFINE T == UNION {{s} \X (1 .. f[s]) : s \in Sources}
<1>1. IsFiniteSet(T)
  <2> DEFINE F(s) == {s} \X (1 .. f[s])
             U == {F(s) : s \in Sources}
  <2>1. ASSUME NEW s \in Sources
        PROVE  IsFiniteSet(F(s))
    <3>1. f[s] \in Int /\ 1 \in Int
      OBVIOUS
    <3>2. IsFiniteSet({s}) /\ IsFiniteSet(1 .. f[s])
      BY <3>1, FS_Singleton, FS_Interval
    <3> QED
      BY <3>2, FS_Product
  <2>2. IsFiniteSet(U)
    <3> DEFINE g == [s \in Sources |-> F(s)]
    <3>1. g \in Surjection(Sources, U)
      BY DEF Surjection
    <3> HIDE DEF g, U
    <3> QED
      BY <3>1, DestsFinite, FS_Surjection
  <2>3. \A x \in U : IsFiniteSet(x)
    BY <2>1
  <2> HIDE DEF U
  <2>4. IsFiniteSet(UNION U)
    BY <2>2, <2>3, FS_UNION
  <2> QED
    BY <2>4 DEF U
<1>2. ASSUME NEW s \in Sources
      PROVE  f[s] <= Cardinality(T)
  <2>1. IsFiniteSet({s} \X (1 .. f[s])) /\ Cardinality({s} \X (1 .. f[s])) = f[s]
    <3>1. IsFiniteSet({s}) /\ Cardinality({s}) = 1
      BY FS_Singleton
    <3>2. IsFiniteSet(1 .. f[s]) /\ Cardinality(1 .. f[s]) = f[s] /\ f[s] \in Nat
      BY FS_Interval
    <3>3. /\ IsFiniteSet({s} \X (1 .. f[s]))
          /\ Cardinality({s} \X (1 .. f[s])) = Cardinality({s}) * Cardinality(1 .. f[s])
      BY <3>1, <3>2, FS_Product
    <3> QED
      BY <3>1, <3>2, <3>3
  <2>2. {s} \X (1 .. f[s]) \subseteq T
    OBVIOUS
  <2> QED
    BY <1>1, <2>1, <2>2, FS_Subset
<1> QED
  BY <1>1, <1>2

LEMMA SentOne ==
  ASSUME NEW f, SentInv(f), NEW s \in Sources,
         Cardinality(UNION {{r} \X (1 .. f[r]) : r \in Sources}) < MaxSent
  PROVE  /\ f[s] + 1 \in 1 .. MaxSent
         /\ SentInv([f EXCEPT ![s] = @ + 1])
<1> DEFINE T(g) == UNION {{r} \X (1 .. g[r]) : r \in Sources}
<1>. PICK g : g = [f EXCEPT ![s] = @ + 1]
  OBVIOUS
<1>1. f \in [Sources -> Nat] /\ g \in [Sources -> Nat] /\ MaxSent \in Nat
  BY SizesAssumption DEF SentInv
<1>2. IsFiniteSet(T(f)) /\ Cardinality(T(f)) \in Nat /\ f[s] <= Cardinality(T(f))
  BY <1>1, SentPairs, FS_CardinalityType
<1>3. T(g) \subseteq T(f) \cup {<<s, f[s] + 1>>}
  <2>1. ASSUME NEW e \in T(g)
        PROVE  e \in T(f) \cup {<<s, f[s] + 1>>}
    <3>1. PICK r \in Sources : e \in {r} \X (1 .. g[r])
      OBVIOUS
    <3>2. e = <<r, e[2]>> /\ e[2] \in 1 .. g[r]
      BY <3>1
    <3>3. e[2] \in 1 .. f[r] \/ (r = s /\ e[2] = f[s] + 1)
      BY <1>1, <3>2
    <3>4. e[2] \in 1 .. f[r] => e \in {r} \X (1 .. f[r])
      BY <3>2
    <3> QED
      BY <3>2, <3>3, <3>4
  <2> QED
    BY <2>1
<1>4. Cardinality(T(g)) <= Cardinality(T(f)) + 1
  <2> HIDE DEF T
  <2> QED
    BY <1>2, <1>3, SomeMore
<1>5. Cardinality(T(g)) \in Nat
  BY <1>1, SentPairs, FS_CardinalityType
<1>6. Cardinality(T(f)) < MaxSent
  OBVIOUS
<1>7. f[s] \in Nat
  BY <1>1
<1> HIDE DEF T
<1>8. f[s] + 1 \in 1 .. MaxSent /\ Cardinality(T(g)) <= MaxSent
  BY <1>1, <1>2, <1>4, <1>5, <1>6, <1>7
<1> QED
  BY <1>1, <1>8 DEF SentInv, T

LEMMA NetInit ==
  Init => NetInv
<1> SUFFICES ASSUME Init PROVE NetInv
  OBVIOUS
<1> USE DEF Init
<1>1. \A A, B : \A hi \in Int : InTime(<<>>, A, B, hi)
  BY EmptyInTime
<1>2. <<>> \in Seq(Packet)
  OBVIOUS
<1>3. /\ SourceQueues(packet_queue_source, PacketisationTime)
      /\ SourceQueues(nic_queue_source, NicHi(stage))
  BY <1>1, <1>2, Delays DEF SourceQueues, NicHi
<1>4. /\ DestQueues(output_port_queue, SwitchingDelay)
      /\ DestQueues(nic_queue_dest, PropDelay)
      /\ DestQueues(packet_queue_dest, PacketisationTime)
  BY <1>1, <1>2, Delays DEF DestQueues
<1>5. PortQueues(input_port_queue)
  BY <1>1, <1>2, Delays DEF PortQueues
<1>6. /\ SourcesWithin(nic_queue_source) /\ DestsWithin(output_port_queue, PortSize + 1)
      /\ DestsWithin(nic_queue_dest, NicSize)
  BY EmptyInTime, Delays DEF SourcesWithin, DestsWithin
<1>7. PortsWithin(input_port_queue)
  <2>1. ASSUME NEW s \in Sources
        PROVE  Cardinality(UnitsOf(input_port_queue[s])) = 0
    <3>1. \A d \in Dests : input_port_queue[s][d] = <<>>
      OBVIOUS
    <3>2. Units(<<>>) = {}
      BY DEF Units
    <3>3. UnitsOf(input_port_queue[s]) = {}
      BY <3>1, <3>2 DEF UnitsOf
    <3> QED
      BY <3>3, FS_EmptySet
  <2> QED
    BY <2>1, Delays DEF PortsWithin
<1>8. RestInv
  <2>1. sent \in [Sources -> Nat] /\ \A s \in Sources : sent[s] = 0
    OBVIOUS
  <2>2. UNION {{s} \X (1 .. sent[s]) : s \in Sources} = {}
    <3>1. \A s \in Sources : {s} \X (1 .. sent[s]) = {}
      BY <2>1
    <3> QED
      BY <3>1
  <2>3. SentInv(sent)
    <3>1. Cardinality(UNION {{s} \X (1 .. sent[s]) : s \in Sources}) = 0
      BY <2>2, FS_EmptySet
    <3>2. 0 <= MaxSent
      BY Delays
    <3> QED
      BY <2>1, <3>1, <3>2 DEF SentInv
  <2>4. 0 \in Sources /\ 0 \in Dests
    BY Delays DEF Sources, Dests
  <2> QED
    BY <2>3, <2>4, Delays DEF RestInv
<1> QED
  BY <1>3, <1>4, <1>5, <1>6, <1>7, <1>8 DEF NetInv

LEMMA Front ==
  ASSUME NEW A, NEW B, NEW hi, NEW q, InTime(q, A, B, hi), q # <<>>
  PROVE  /\ Head(q) \in Between(A, B) /\ Head(q).size \in {1, 2}
         /\ Head(q).source \in A /\ Head(q).dest \in B
<1>1. q \in Seq(Between(A, B))
  BY DEF InTime
<1>2. Head(q) \in Between(A, B)
  BY <1>1
<1> QED
  BY <1>2 DEF Between

LEMMA SendNet ==
  ASSUME NetInv, NEW s \in Sources, NEW d \in Dests, NEW size \in {1, 2},
         to_trans_layer(s, d, size)
  PROVE  NetInv'
<1>0. PICK p : p = [source |-> s, dest |-> d, no |-> sent[s] + 1, size |-> size,
                    wait |-> PacketisationTime, timer |-> 0]
  OBVIOUS
<1>1. /\ SumSent < MaxSent /\ stage = "nodes" /\ cycle < SendCycles
      /\ packet_queue_source' = [packet_queue_source EXCEPT ![s] = Append(@, p)]
      /\ sent' = [sent EXCEPT ![s] = @ + 1]
      /\ UNCHANGED <<nic_queue_source, input_port_queue, output_port_queue,
                     nic_queue_dest, packet_queue_dest, arbitrator,
                     vq_arbitrator_input_queue, network_flow, stage, cycle>>
  BY <1>0 DEF to_trans_layer, arbiter
<1>2. sent[s] + 1 \in 1 .. MaxSent /\ SentInv(sent')
  BY <1>1, SentOne DEF NetInv, RestInv, SumSent
<1>3. p \in Between({s}, Dests) /\ p.wait = PacketisationTime
  BY <1>0, <1>2, Delays DEF Between
<1>4. packet_queue_source \in [Sources -> Seq(Packet)]
      /\ \A r \in Sources : InTime(packet_queue_source[r], {r}, Dests, PacketisationTime)
  BY DEF NetInv, SourceQueues
<1>5. InTime(Append(packet_queue_source[s], p), {s}, Dests, PacketisationTime)
  <2>1. PacketisationTime \in Int
    BY Delays
  <2>2. InTime(packet_queue_source[s], {s}, Dests, PacketisationTime)
    BY <1>4
  <2> QED
    BY <1>3, <2>1, <2>2, AppendInTime
<1>6. Append(packet_queue_source[s], p) \in Seq(Packet)
  BY <1>5, InPackets
<1>7. SourceQueues(packet_queue_source', PacketisationTime)
  BY <1>1, <1>4, <1>5, <1>6 DEF SourceQueues
<1>8. RestInv'
  BY <1>1, <1>2 DEF NetInv, RestInv
<1>9. /\ SourceQueues(nic_queue_source, NicHi(stage))' /\ SourcesWithin(nic_queue_source)'
      /\ PortQueues(input_port_queue)' /\ PortsWithin(input_port_queue)'
      /\ DestQueues(output_port_queue, SwitchingDelay)'
      /\ DestsWithin(output_port_queue, PortSize + 1)'
      /\ DestQueues(nic_queue_dest, PropDelay)' /\ DestsWithin(nic_queue_dest, NicSize)'
      /\ DestQueues(packet_queue_dest, PacketisationTime)'
  BY <1>1 DEF NetInv
<1> QED
  BY <1>7, <1>8, <1>9 DEF NetInv

LEMMA SourceNicNet ==
  ASSUME NetInv, send_to_source_nic_queue
  PROVE  NetInv'
<1> DEFINE pq(s) == packet_queue_source[s]
           nq(s) == nic_queue_source[s]
           space(s) == pq(s) # <<>> => NicHasSpace(nq(s), Head(pq(s)))
           goes(s)  == space(s) /\ Leaves(pq(s), NicProcDelay)
           a(s) == IF space(s) THEN Served(pq(s), NicProcDelay) ELSE Bump(pq(s))
           b(s) == IF goes(s) THEN Arrive(nq(s), Head(pq(s)), 0) ELSE nq(s)
<1>1. /\ stage = "nodes" /\ stage' = "nic"
      /\ packet_queue_source' = [s \in Sources |-> a(s)]
      /\ nic_queue_source' = [s \in Sources |-> b(s)]
      /\ UNCHANGED <<input_port_queue, output_port_queue, nic_queue_dest,
                     packet_queue_dest, arbitrator, vq_arbitrator_input_queue,
                     network_flow, sent, cycle>>
  BY DEF send_to_source_nic_queue, Stage, arbiter
<1>2. ASSUME NEW s \in Sources
      PROVE  /\ InTime(a(s), {s}, Dests, PacketisationTime) /\ InTime(b(s), {s}, Dests, 0)
             /\ Bytes(b(s)) <= NicSize
  <2>1. InTime(pq(s), {s}, Dests, PacketisationTime) /\ InTime(nq(s), {s}, Dests, 0)
    BY <1>1 DEF NetInv, SourceQueues, NicHi
  <2>2. Bytes(nq(s)) <= NicSize
    BY DEF NetInv, SourcesWithin
  <2>3. InTime(a(s), {s}, Dests, PacketisationTime)
    <3>1. InTime(Served(pq(s), NicProcDelay), {s}, Dests, PacketisationTime)
      BY <2>1, Delays, ServedInTime
    <3>2. InTime(Bump(pq(s)), {s}, Dests, PacketisationTime)
      BY <2>1, Delays, BumpInTime
    <3> QED
      BY <3>1, <3>2
  <2>4. CASE goes(s)
    <3>1. pq(s) # <<>> /\ NicHasSpace(nq(s), Head(pq(s)))
      BY <2>4 DEF Leaves, Ready
    <3>2. Head(pq(s)) \in Between({s}, Dests) /\ Head(pq(s)).size \in {1, 2}
      BY <2>1, <3>1, Front
    <3>3. InTime(Arrive(nq(s), Head(pq(s)), 0), {s}, Dests, 0)
      BY <2>1, <3>2, ArriveInTime
    <3>4. Bytes(Arrive(nq(s), Head(pq(s)), 0)) <= NicSize
      <4>1. nq(s) \in Seq(Between({s}, Dests))
        BY <2>1 DEF InTime
      <4>2. Bytes(Arrive(nq(s), Head(pq(s)), 0)) <= Bytes(nq(s)) + Head(pq(s)).size
        BY <3>2, <4>1, BytesArrived
      <4>3. Bytes(nq(s)) \in Nat
        BY <4>1, UnitsFinite
      <4>4. Bytes(Arrive(nq(s), Head(pq(s)), 0)) \in Nat
        BY <3>3, UnitsFinite DEF InTime
      <4>5. Bytes(nq(s)) + Head(pq(s)).size <= NicSize
        BY <3>1 DEF NicHasSpace
      <4> QED
        BY <3>2, <4>2, <4>3, <4>4, <4>5, Delays
    <3> QED
      BY <2>3, <2>4, <3>3, <3>4
  <2>5. CASE ~ goes(s)
    BY <2>1, <2>2, <2>3, <2>5
  <2> QED
    BY <2>4, <2>5
<1>3. \A s \in Sources : a(s) \in Seq(Packet) /\ b(s) \in Seq(Packet)
  BY <1>2, InPackets
<1> HIDE DEF a, b
<1>4. SourceQueues(packet_queue_source', PacketisationTime)
  BY <1>1, <1>2, <1>3 DEF SourceQueues
<1>5. SourceQueues(nic_queue_source', NicHi(stage')) /\ SourcesWithin(nic_queue_source')
  BY <1>1, <1>2, <1>3 DEF SourceQueues, SourcesWithin, NicHi
<1>6. RestInv'
  BY <1>1 DEF NetInv, RestInv
<1>7. /\ PortQueues(input_port_queue)' /\ PortsWithin(input_port_queue)'
      /\ DestQueues(output_port_queue, SwitchingDelay)'
      /\ DestsWithin(output_port_queue, PortSize + 1)'
      /\ DestQueues(nic_queue_dest, PropDelay)' /\ DestsWithin(nic_queue_dest, NicSize)'
      /\ DestQueues(packet_queue_dest, PacketisationTime)'
  BY <1>1 DEF NetInv
<1> QED
  BY <1>4, <1>5, <1>6, <1>7 DEF NetInv

LEMMA WiderSeq ==
  ASSUME NEW S, NEW T, S \subseteq T, NEW q \in Seq(S)
  PROVE  q \in Seq(T)
OBVIOUS

LEMMA ServedBytes ==
  ASSUME NEW A, NEW B, NEW hi \in Int, hi >= 1, NEW q, InTime(q, A, B, hi),
         NEW delay
  PROVE  /\ Bytes(q) \in Nat /\ Bytes(Served(q, delay)) \in Nat
         /\ Bytes(Served(q, delay)) <= Bytes(q)
<1>1. /\ InTime(Served(q, delay), A, B, hi)
      /\ Leaves(q, delay) => q # <<>> /\ SamePackets(Tail(q), Served(q, delay))
      /\ ~ Leaves(q, delay) => SamePackets(q, Served(q, delay))
  BY ServedInTime
<1>2. q \in Seq(Between(A, B)) /\ Served(q, delay) \in Seq(Between(A, B))
  BY <1>1 DEF InTime
<1>3. Bytes(q) \in Nat /\ Bytes(Served(q, delay)) \in Nat
  BY <1>2, UnitsFinite
<1>4. Bytes(Served(q, delay)) <= Bytes(q)
  <2>1. CASE Leaves(q, delay)
    BY <1>1, <1>2, <2>1, BytesTaken
  <2>2. CASE ~ Leaves(q, delay)
    <3>1. Bytes(Served(q, delay)) = Bytes(q)
      BY <1>1, <2>2, UnitsSame
    <3> QED
      BY <1>3, <3>1
  <2> QED
    BY <2>1, <2>2
<1> QED
  BY <1>3, <1>4

LEMMA PortMade ==
  ASSUME NEW qs, NEW rs, \A d \in Dests : rs[d] = qs[d]
  PROVE  UnitsOf(rs) = UnitsOf(qs)
BY DEF UnitsOf

LEMMA InputNet ==
  ASSUME NetInv, source_to_switch_input_port
  PROVE  NetInv'
<1> DEFINE hi == PropDelay + SwitchProcDelay
           nq(s) == nic_queue_source[s]
           iq(s) == input_port_queue[s]
           front(s) == Head(nq(s))
           delay(s) == NicTransDelay(front(s).size)
           space(s) == nq(s) # <<>> => PortHasSpace(s, front(s))
           goes(s)  == nq(s) # <<>> /\ space(s) /\ Leaves(nq(s), delay(s))
           a(s) == IF nq(s) = <<>> THEN <<>>
                   ELSE IF space(s) THEN Served(nq(s), delay(s)) ELSE Bump(nq(s))
           b(s, d) == IF goes(s) /\ front(s).dest = d THEN Arrive(iq(s)[d], front(s), hi)
                      ELSE iq(s)[d]
           c(s) == [d \in Dests |-> b(s, d)]
<1>1. /\ stage = "nic" /\ stage' = "input"
      /\ nic_queue_source' = [s \in Sources |-> a(s)]
      /\ input_port_queue' = [s \in Sources |-> c(s)]
      /\ UNCHANGED <<packet_queue_source, output_port_queue, nic_queue_dest,
                     packet_queue_dest, arbitrator, vq_arbitrator_input_queue,
                     network_flow, sent, cycle>>
  BY DEF source_to_switch_input_port, Stage, arbiter
<1>2. ASSUME NEW s \in Sources
      PROVE  /\ InTime(a(s), {s}, Dests, 1) /\ Bytes(a(s)) <= NicSize
             /\ \A d \in Dests : InTime(b(s, d), {s}, {d}, hi)
             /\ Cardinality(UnitsOf(c(s))) <= PortSize
  <2>1. InTime(nq(s), {s}, Dests, 0)
    BY <1>1 DEF NetInv, SourceQueues, NicHi
  <2>2. InTime(nq(s), {s}, Dests, 1) /\ nq(s) \in Seq(Between({s}, Dests))
    <3>1. nq(s) \in Seq(Between({s}, Dests)) /\ Ordered(nq(s)) /\ Below(nq(s), 0)
      BY <2>1 DEF InTime
    <3>2. \A i \in DOMAIN nq(s) : nq(s)[i].wait \in Int
      BY <3>1, PacketsOf
    <3>3. Below(nq(s), 1)
      BY <3>1, <3>2 DEF Below
    <3> QED
      BY <3>1, <3>3 DEF InTime
  <2>3. Bytes(nq(s)) <= NicSize /\ Bytes(nq(s)) \in Nat
    BY <2>2, UnitsFinite DEF NetInv, SourcesWithin
  <2>4. \A d \in Dests : InTime(iq(s)[d], {s}, {d}, hi)
    BY DEF NetInv, PortQueues
  <2>5. InTime(a(s), {s}, Dests, 1) /\ Bytes(a(s)) <= NicSize
    <3>1. InTime(Served(nq(s), delay(s)), {s}, Dests, 1)
      <4>1. 1 \in Int /\ 1 >= 1
        OBVIOUS
      <4> HIDE DEF nq, delay
      <4> QED
        BY <2>2, <4>1, ServedInTime
    <3>2. Bytes(Served(nq(s), delay(s))) <= NicSize
      <4>1. 1 \in Int /\ 1 >= 1
        OBVIOUS
      <4>2. /\ Bytes(Served(nq(s), delay(s))) \in Nat
            /\ Bytes(Served(nq(s), delay(s))) <= Bytes(nq(s))
        <5> HIDE DEF nq, delay
        <5> QED
          BY <2>2, <4>1, ServedBytes
      <4> QED
        BY <2>3, <4>2, Delays
    <3>3. InTime(Bump(nq(s)), {s}, Dests, 1) /\ Bytes(Bump(nq(s))) <= NicSize
      BY <2>2, <2>3, BumpInTime, BumpTyped, UnitsSame
    <3>4. InTime(<<>>, {s}, Dests, 1) /\ Bytes(<<>>) <= NicSize
      BY EmptyInTime, Delays
    <3> QED
      BY <3>1, <3>2, <3>3, <3>4
  <2>6. CASE goes(s)
    <3>1. front(s) \in Between({s}, Dests) /\ front(s).size \in {1, 2} /\ front(s).dest \in Dests
      BY <2>2, <2>6, Front
    <3> DEFINE e == front(s).dest
    <3>2. front(s) \in Between({s}, {e})
      BY <3>1 DEF Between
    <3>3. InTime(Arrive(iq(s)[e], front(s), hi), {s}, {e}, hi)
      <4>1. InTime(iq(s)[e], {s}, {e}, hi) /\ hi \in Int
        BY <2>4, <3>1, Delays
      <4> HIDE DEF e, front, hi
      <4> QED
        BY <3>2, <4>1, ArriveInTime
    <3>4. \A d \in Dests : InTime(b(s, d), {s}, {d}, hi)
      BY <2>4, <3>3
    <3>5. Cardinality(UnitsOf(c(s))) <= Cardinality(UnitsOf(iq(s))) + front(s).size
      <4>1. \A d \in Dests : iq(s)[d] \in Seq(Between({s}, Dests))
        <5>1. ASSUME NEW d \in Dests
              PROVE  iq(s)[d] \in Seq(Between({s}, Dests))
          <6>1. Between({s}, {d}) \subseteq Between({s}, Dests)
            BY DEF Between
          <6>2. iq(s)[d] \in Seq(Between({s}, {d}))
            BY <2>4 DEF InTime
          <6> HIDE DEF iq
          <6> QED
            BY <6>1, <6>2, WiderSeq
        <5> QED
          BY <5>1
      <4>2. c(s)[e] = Arrive(iq(s)[e], front(s), hi) /\ \A d \in Dests \ {e} : c(s)[d] = iq(s)[d]
        BY <2>6, <3>1
      <4>3. hi \in Int
        BY Delays
      <4> HIDE DEF c, e, front, hi, iq
      <4> QED
        BY <3>1, <4>1, <4>2, <4>3, PortArrived DEF e
    <3>6. Cardinality(UnitsOf(iq(s))) + front(s).size <= PortSize
      BY <2>6, OfPort DEF PortHasSpace, PortBytes
    <3>7. Cardinality(UnitsOf(iq(s))) \in Nat
      <4>1. \A d \in Dests : iq(s)[d] \in Seq(Packet)
        BY DEF NetInv, PortQueues
      <4>2. \A qs : (\A d \in Dests : qs[d] \in Seq(Packet))
                       => Cardinality(UnitsOf(qs)) \in Nat
        BY PortFinite
      <4> HIDE DEF iq
      <4> QED
        BY <4>1, <4>2
    <3>8. Cardinality(UnitsOf(c(s))) \in Nat
      <4>1. ASSUME NEW d \in Dests
            PROVE  c(s)[d] \in Seq(Packet)
        <5>1. c(s)[d] = b(s, d) /\ InTime(b(s, d), {s}, {d}, hi)
          BY <3>4
        <5> HIDE DEF b
        <5>2. b(s, d) \in Seq(Packet)
          BY <5>1, InPackets
        <5> QED
          BY <5>1, <5>2
      <4> HIDE DEF c
      <4> QED
        BY <4>1, PortFinite
    <3> HIDE DEF c, front, iq
    <3>9. Cardinality(UnitsOf(c(s))) <= PortSize
      BY <3>1, <3>5, <3>6, <3>7, <3>8, Delays
    <3> QED
      BY <2>5, <3>4, <3>9
  <2>7. CASE ~ goes(s)
    <3>1. \A d \in Dests : b(s, d) = iq(s)[d] /\ c(s)[d] = iq(s)[d]
      BY <2>7
    <3>2. UnitsOf(c(s)) = UnitsOf(iq(s))
      BY <3>1, PortMade
    <3>3. Cardinality(UnitsOf(iq(s))) <= PortSize
      BY DEF NetInv, PortsWithin
    <3> QED
      BY <2>4, <2>5, <3>1, <3>2, <3>3
  <2> QED
    BY <2>6, <2>7
<1>3. \A s \in Sources : a(s) \in Seq(Packet) /\ \A d \in Dests : b(s, d) \in Seq(Packet)
  <2>1. \A s \in Sources : a(s) \in Seq(Packet)
    BY <1>2, InPackets
  <2>2. ASSUME NEW s \in Sources, NEW d \in Dests
        PROVE  b(s, d) \in Seq(Packet)
    <3>1. InTime(b(s, d), {s}, {d}, hi)
      BY <1>2
    <3> HIDE DEF b
    <3> QED
      BY <3>1, InPackets
  <2> QED
    BY <2>1, <2>2
<1>4. \A s \in Sources : c(s) \in [Dests -> Seq(Packet)] /\ \A d \in Dests : c(s)[d] = b(s, d)
  BY <1>3
<1> HIDE DEF a, b, c
<1>5. SourceQueues(nic_queue_source', NicHi(stage')) /\ SourcesWithin(nic_queue_source')
  BY <1>1, <1>2, <1>3 DEF SourceQueues, SourcesWithin, NicHi
<1>6. PortQueues(input_port_queue') /\ PortsWithin(input_port_queue')
  BY <1>1, <1>2, <1>4 DEF PortQueues, PortsWithin
<1>7. RestInv'
  BY <1>1 DEF NetInv, RestInv
<1>8. /\ SourceQueues(packet_queue_source, PacketisationTime)'
      /\ DestQueues(output_port_queue, SwitchingDelay)'
      /\ DestsWithin(output_port_queue, PortSize + 1)'
      /\ DestQueues(nic_queue_dest, PropDelay)' /\ DestsWithin(nic_queue_dest, NicSize)'
      /\ DestQueues(packet_queue_dest, PacketisationTime)'
  BY <1>1 DEF NetInv
<1> QED
  BY <1>5, <1>6, <1>7, <1>8 DEF NetInv

LEMMA SwitchNet ==
  ASSUME NetInv, switch_input_port_to_output_port
  PROVE  NetInv'
<1> DEFINE hi == PropDelay + SwitchProcDelay
           iq(s) == input_port_queue[s]
           oq(d) == output_port_queue[d]
<1>1. arbitrator \in Sources /\ vq_arbitrator_input_queue \in [Sources -> Dests]
  BY DEF NetInv, RestInv
<1>2. PICK t \in Turns :
        LET from(d) == CHOOSE s \in Sources : <<s, d>> \in t.granted
        IN  /\ Stage("input", "output")
            /\ arbitrator' = t.port
            /\ vq_arbitrator_input_queue' = t.vq
            /\ input_port_queue' =
                 [s \in Sources |->
                    [d \in Dests |-> Bump(IF <<s, d>> \in t.granted
                                          THEN Tail(input_port_queue[s][d])
                                          ELSE input_port_queue[s][d])]]
            /\ output_port_queue' =
                 [d \in Dests |-> IF \E s \in Sources : <<s, d>> \in t.granted
                                  THEN Arrive(output_port_queue[d],
                                              Head(input_port_queue[from(d)][d]),
                                              SwitchingDelay)
                                  ELSE output_port_queue[d]]
            /\ UNCHANGED <<packet_queue_source, nic_queue_source, nic_queue_dest,
                           packet_queue_dest, cycle>>
  BY DEF switch_input_port_to_output_port
<1> DEFINE from(d) == CHOOSE s \in Sources : <<s, d>> \in t.granted
           a(s, d) == Bump(IF <<s, d>> \in t.granted THEN Tail(iq(s)[d]) ELSE iq(s)[d])
           b(d) == IF \E s \in Sources : <<s, d>> \in t.granted
                   THEN Arrive(oq(d), Head(iq(from(d))[d]), SwitchingDelay)
                   ELSE oq(d)
           c(s) == [d \in Dests |-> a(s, d)]
<1>3. /\ stage = "input" /\ stage' = "output"
      /\ arbitrator' = t.port /\ vq_arbitrator_input_queue' = t.vq
      /\ input_port_queue' = [s \in Sources |-> c(s)]
      /\ output_port_queue' = [d \in Dests |-> b(d)]
      /\ UNCHANGED <<packet_queue_source, nic_queue_source, nic_queue_dest,
                     packet_queue_dest, network_flow, sent, cycle>>
  BY <1>2 DEF Stage
<1>4. TurnInv(t)
  BY <1>1, TurnsSound
<1>5. /\ t.port \in Sources /\ t.vq \in [Sources -> Dests]
      /\ t.granted \subseteq Sources \X Dests
      /\ \A s \in Sources, d \in Dests : <<s, d>> \in t.granted =>
           Ready(iq(s)[d]) /\ d \in OpenPorts
  BY <1>4 DEF TurnInv, Turn
<1>6. hi \in Int /\ hi >= 1 /\ SwitchingDelay \in Int
  BY Delays
<1>7. \A s \in Sources, d \in Dests : InTime(iq(s)[d], {s}, {d}, hi)
  BY DEF NetInv, PortQueues
<1>8. ASSUME NEW s \in Sources, NEW d \in Dests
      PROVE  /\ InTime(a(s, d), {s}, {d}, hi) /\ a(s, d) \in Seq(Packet)
             /\ \/ SamePackets(iq(s)[d], a(s, d))
                \/ iq(s)[d] # <<>> /\ SamePackets(Tail(iq(s)[d]), a(s, d))
  <2>1. InTime(iq(s)[d], {s}, {d}, hi)
    BY <1>7
  <2>2. CASE <<s, d>> \in t.granted
    <3>1. iq(s)[d] # <<>> /\ a(s, d) = Bump(Tail(iq(s)[d]))
      BY <1>5, <2>2 DEF Ready
    <3> HIDE DEF a, iq, hi
    <3>2. InTime(Tail(iq(s)[d]), {s}, {d}, hi)
      BY <1>6, <2>1, <3>1, TailInTime
    <3>3. InTime(Bump(Tail(iq(s)[d])), {s}, {d}, hi)
      BY <1>6, <3>2, BumpInTime
    <3>4. SamePackets(Tail(iq(s)[d]), Bump(Tail(iq(s)[d])))
      BY <3>2, BumpTyped DEF InTime
    <3> QED
      BY <3>1, <3>3, <3>4, InPackets
  <2>3. CASE <<s, d>> \notin t.granted
    <3>1. a(s, d) = Bump(iq(s)[d])
      BY <2>3
    <3> HIDE DEF a, iq, hi
    <3>2. InTime(Bump(iq(s)[d]), {s}, {d}, hi)
      BY <1>6, <2>1, BumpInTime
    <3>3. SamePackets(iq(s)[d], Bump(iq(s)[d]))
      BY <2>1, BumpTyped DEF InTime
    <3> QED
      BY <3>1, <3>2, <3>3, InPackets
  <2> QED
    BY <2>2, <2>3
<1>9. ASSUME NEW s \in Sources
      PROVE  Cardinality(UnitsOf(c(s))) <= PortSize
  <2>1. \A d \in Dests : iq(s)[d] \in Seq(Packet)
    BY DEF NetInv, PortQueues
  <2>2. \A d \in Dests : c(s)[d] = a(s, d) /\ c(s)[d] \in Seq(Packet)
    BY <1>8
  <2>3. \A d \in Dests : \/ SamePackets(iq(s)[d], c(s)[d])
                         \/ iq(s)[d] # <<>> /\ SamePackets(Tail(iq(s)[d]), c(s)[d])
    BY <1>8, <2>2
  <2> HIDE DEF c, iq
  <2>4. Cardinality(UnitsOf(c(s))) <= Cardinality(UnitsOf(iq(s)))
    BY <2>1, <2>3, PortTaken
  <2>5. Cardinality(UnitsOf(c(s))) \in Nat /\ Cardinality(UnitsOf(iq(s))) \in Nat
    BY <2>1, <2>2, PortFinite
  <2>6. Cardinality(UnitsOf(iq(s))) <= PortSize
    BY DEF NetInv, PortsWithin, iq
  <2> QED
    BY <2>4, <2>5, <2>6, Delays
<1>10. ASSUME NEW d \in Dests
       PROVE  /\ InTime(b(d), Sources, {d}, SwitchingDelay) /\ b(d) \in Seq(Packet)
              /\ Bytes(b(d)) <= PortSize + 1
  <2>1. InTime(oq(d), Sources, {d}, SwitchingDelay) /\ oq(d) \in Seq(Packet)
    BY DEF NetInv, DestQueues
  <2>2. CASE \E s \in Sources : <<s, d>> \in t.granted
    <3>1. from(d) \in Sources /\ <<from(d), d>> \in t.granted
      BY <2>2
    <3> HIDE DEF from
    <3> DEFINE p == Head(iq(from(d))[d])
    <3>2. iq(from(d))[d] # <<>> /\ d \in OpenPorts
      BY <1>5, <3>1 DEF Ready
    <3>3. p \in Between({from(d)}, {d}) /\ p.size \in {1, 2}
      <4> HIDE DEF iq, hi
      <4> QED
        BY <1>7, <3>1, <3>2, Front
    <3>4. p \in Between(Sources, {d})
      BY <3>1, <3>3 DEF Between
    <3>5. b(d) = Arrive(oq(d), p, SwitchingDelay)
      BY <2>2
    <3> HIDE DEF b, oq, p
    <3>6. InTime(b(d), Sources, {d}, SwitchingDelay)
      BY <1>6, <2>1, <3>4, <3>5, ArriveInTime
    <3>7. Bytes(b(d)) <= Bytes(oq(d)) + p.size
      BY <1>6, <2>1, <3>4, <3>5, BytesArrived DEF InTime
    <3>8. Bytes(oq(d)) \in Nat /\ Bytes(b(d)) \in Nat
      BY <2>1, <3>6, UnitsFinite DEF InTime
    <3>9. Bytes(oq(d)) + 1 <= PortSize
      BY <3>2 DEF OpenPorts, oq
    <3>10. Bytes(b(d)) <= PortSize + 1
      BY <3>3, <3>7, <3>8, <3>9, Delays
    <3> QED
      BY <3>6, <3>10, InPackets
  <2>3. CASE ~ \E s \in Sources : <<s, d>> \in t.granted
    BY <2>1, <2>3 DEF NetInv, DestsWithin
  <2> QED
    BY <2>2, <2>3
<1>11. \A s \in Sources : c(s) \in [Dests -> Seq(Packet)] /\ \A d \in Dests : c(s)[d] = a(s, d)
  BY <1>8
<1> HIDE DEF a, b, c
<1>12. PortQueues(input_port_queue') /\ PortsWithin(input_port_queue')
  BY <1>3, <1>8, <1>9, <1>11 DEF PortQueues, PortsWithin
<1>13. /\ DestQueues(output_port_queue', SwitchingDelay)
       /\ DestsWithin(output_port_queue', PortSize + 1)
  BY <1>3, <1>10 DEF DestQueues, DestsWithin
<1>14. RestInv'
  BY <1>3, <1>5 DEF NetInv, RestInv
<1>15. /\ SourceQueues(packet_queue_source, PacketisationTime)'
       /\ SourceQueues(nic_queue_source, NicHi(stage))' /\ SourcesWithin(nic_queue_source)'
       /\ DestQueues(nic_queue_dest, PropDelay)' /\ DestsWithin(nic_queue_dest, NicSize)'
       /\ DestQueues(packet_queue_dest, PacketisationTime)'
  BY <1>3 DEF NetInv, NicHi
<1> QED
  BY <1>12, <1>13, <1>14, <1>15 DEF NetInv

LEMMA DestNicNet ==
  ASSUME NetInv, switch_to_dest_nic_queue
  PROVE  NetInv'
<1> DEFINE oq(d) == output_port_queue[d]
           nq(d) == nic_queue_dest[d]
           front(d) == Head(oq(d))
           delay(d) == SwitchTransDelay(front(d).size)
           space(d) == oq(d) # <<>> /\ NicHasSpace(nq(d), front(d))
           a(d) == IF space(d) THEN Served(oq(d), delay(d)) ELSE oq(d)
           b(d) == IF space(d) /\ Leaves(oq(d), delay(d))
                   THEN Arrive(nq(d), front(d), PropDelay) ELSE nq(d)
<1>1. /\ stage = "output" /\ stage' = "dest_nic"
      /\ output_port_queue' = [d \in Dests |-> a(d)]
      /\ nic_queue_dest' = [d \in Dests |-> b(d)]
      /\ UNCHANGED <<packet_queue_source, nic_queue_source, input_port_queue,
                     packet_queue_dest, arbitrator, vq_arbitrator_input_queue,
                     network_flow, sent, cycle>>
  BY DEF switch_to_dest_nic_queue, Stage, arbiter
<1>2. /\ SwitchingDelay \in Int /\ SwitchingDelay >= 1 /\ PropDelay \in Int
  BY Delays
<1>3. ASSUME NEW d \in Dests
      PROVE  /\ InTime(a(d), Sources, {d}, SwitchingDelay) /\ Bytes(a(d)) <= PortSize + 1
             /\ InTime(b(d), Sources, {d}, PropDelay) /\ Bytes(b(d)) <= NicSize
  <2>1. /\ InTime(oq(d), Sources, {d}, SwitchingDelay) /\ Bytes(oq(d)) <= PortSize + 1
        /\ InTime(nq(d), Sources, {d}, PropDelay) /\ Bytes(nq(d)) <= NicSize
    BY DEF NetInv, DestQueues, DestsWithin
  <2>2. InTime(a(d), Sources, {d}, SwitchingDelay) /\ Bytes(a(d)) <= PortSize + 1
    <3>1. \A dl : /\ InTime(Served(oq(d), dl), Sources, {d}, SwitchingDelay)
                  /\ Bytes(oq(d)) \in Nat /\ Bytes(Served(oq(d), dl)) \in Nat
                  /\ Bytes(Served(oq(d), dl)) <= Bytes(oq(d))
      BY <1>2, <2>1, ServedInTime, ServedBytes
    <3>2. \A dl : Bytes(Served(oq(d), dl)) <= PortSize + 1
      BY <2>1, <3>1, Delays
    <3> QED
      BY <2>1, <3>1, <3>2
  <2>3. CASE space(d)
    <3> DEFINE r == Arrive(nq(d), front(d), PropDelay)
    <3>1. front(d) \in Between(Sources, {d}) /\ front(d).size \in {1, 2}
      BY <2>1, <2>3, Front
    <3>2. InTime(r, Sources, {d}, PropDelay)
      <4> HIDE DEF front
      <4> QED
        BY <1>2, <2>1, <3>1, ArriveInTime
    <3>3. Bytes(r) <= Bytes(nq(d)) + front(d).size
      <4> HIDE DEF front
      <4> QED
        BY <1>2, <2>1, <3>1, BytesArrived DEF InTime
    <3>4. Bytes(nq(d)) + front(d).size <= NicSize
      BY <2>3 DEF NicHasSpace
    <3>5. Bytes(nq(d)) \in Nat /\ Bytes(r) \in Nat
      <4> HIDE DEF r
      <4> QED
        BY <2>1, <3>2, UnitsFinite DEF InTime
    <3> HIDE DEF r, front
    <3>6. Bytes(r) <= NicSize
      BY <3>1, <3>3, <3>4, <3>5, Delays
    <3> QED
      BY <2>1, <2>2, <3>2, <3>6 DEF r, front
  <2>4. CASE ~ space(d)
    BY <2>1, <2>2, <2>4
  <2> QED
    BY <2>3, <2>4
<1>4. \A d \in Dests : a(d) \in Seq(Packet) /\ b(d) \in Seq(Packet)
  <2> HIDE DEF a, b
  <2> QED
    BY <1>3, InPackets
<1> HIDE DEF a, b
<1>5. DestQueues(output_port_queue', SwitchingDelay) /\ DestsWithin(output_port_queue', PortSize + 1)
  BY <1>1, <1>3, <1>4 DEF DestQueues, DestsWithin
<1>6. DestQueues(nic_queue_dest', PropDelay) /\ DestsWithin(nic_queue_dest', NicSize)
  BY <1>1, <1>3, <1>4 DEF DestQueues, DestsWithin
<1>7. RestInv'
  BY <1>1 DEF NetInv, RestInv
<1>8. /\ SourceQueues(packet_queue_source, PacketisationTime)'
      /\ SourceQueues(nic_queue_source, NicHi(stage))' /\ SourcesWithin(nic_queue_source)'
      /\ PortQueues(input_port_queue)' /\ PortsWithin(input_port_queue)'
      /\ DestQueues(packet_queue_dest, PacketisationTime)'
  BY <1>1 DEF NetInv, NicHi
<1> QED
  BY <1>5, <1>6, <1>7, <1>8 DEF NetInv

LEMMA CollectorNet ==
  ASSUME NetInv, send_to_dest_collector_queue
  PROVE  NetInv'
<1> DEFINE nq(d) == nic_queue_dest[d]
           pq(d) == packet_queue_dest[d]
           a(d) == Served(nq(d), NicProcDelay)
           b(d) == IF Leaves(nq(d), NicProcDelay)
                   THEN Arrive(pq(d), Head(nq(d)), PacketisationTime) ELSE pq(d)
<1>1. /\ stage = "dest_nic" /\ stage' = "deliver"
      /\ nic_queue_dest' = [d \in Dests |-> a(d)]
      /\ packet_queue_dest' = [d \in Dests |-> b(d)]
      /\ UNCHANGED <<packet_queue_source, nic_queue_source, input_port_queue,
                     output_port_queue, arbitrator, vq_arbitrator_input_queue,
                     network_flow, sent, cycle>>
  BY DEF send_to_dest_collector_queue, Stage, arbiter
<1>2. /\ PropDelay \in Int /\ PropDelay >= 1 /\ PacketisationTime \in Int
  BY Delays
<1>3. ASSUME NEW d \in Dests
      PROVE  /\ InTime(a(d), Sources, {d}, PropDelay) /\ Bytes(a(d)) <= NicSize
             /\ InTime(b(d), Sources, {d}, PacketisationTime)
  <2>1. /\ InTime(nq(d), Sources, {d}, PropDelay) /\ Bytes(nq(d)) <= NicSize
        /\ InTime(pq(d), Sources, {d}, PacketisationTime)
    BY DEF NetInv, DestQueues, DestsWithin
  <2>2. InTime(a(d), Sources, {d}, PropDelay) /\ Bytes(a(d)) <= NicSize
    <3>1. /\ InTime(a(d), Sources, {d}, PropDelay)
          /\ Bytes(nq(d)) \in Nat /\ Bytes(a(d)) \in Nat /\ Bytes(a(d)) <= Bytes(nq(d))
      BY <1>2, <2>1, ServedInTime, ServedBytes
    <3> HIDE DEF a
    <3> QED
      BY <2>1, <3>1, Delays
  <2>3. CASE Leaves(nq(d), NicProcDelay)
    <3>1. nq(d) # <<>>
      BY <2>3 DEF Leaves, Ready
    <3>2. Head(nq(d)) \in Between(Sources, {d})
      BY <2>1, <3>1, Front
    <3>3. InTime(Arrive(pq(d), Head(nq(d)), PacketisationTime), Sources, {d}, PacketisationTime)
      BY <1>2, <2>1, <3>2, ArriveInTime
    <3> QED
      BY <2>2, <2>3, <3>3
  <2>4. CASE ~ Leaves(nq(d), NicProcDelay)
    BY <2>1, <2>2, <2>4
  <2> QED
    BY <2>3, <2>4
<1>4. \A d \in Dests : a(d) \in Seq(Packet) /\ b(d) \in Seq(Packet)
  <2> HIDE DEF a, b
  <2> QED
    BY <1>3, InPackets
<1> HIDE DEF a, b
<1>5. DestQueues(nic_queue_dest', PropDelay) /\ DestsWithin(nic_queue_dest', NicSize)
  BY <1>1, <1>3, <1>4 DEF DestQueues, DestsWithin
<1>6. DestQueues(packet_queue_dest', PacketisationTime)
  BY <1>1, <1>3, <1>4 DEF DestQueues
<1>7. RestInv'
  BY <1>1 DEF NetInv, RestInv
<1>8. /\ SourceQueues(packet_queue_source, PacketisationTime)'
      /\ SourceQueues(nic_queue_source, NicHi(stage))' /\ SourcesWithin(nic_queue_source)'
      /\ PortQueues(input_port_queue)' /\ PortsWithin(input_port_queue)'
      /\ DestQueues(output_port_queue, SwitchingDelay)'
      /\ DestsWithin(output_port_queue, PortSize + 1)'
  BY <1>1 DEF NetInv, NicHi
<1> QED
  BY <1>5, <1>6, <1>7, <1>8 DEF NetInv

\* A delivery of either kind.
Delivers(d) ==
  /\ stage = "deliver" /\ packet_queue_dest[d] # <<>>
  /\ packet_queue_dest' = [packet_queue_dest EXCEPT ![d] = Tail(@)]
  /\ UNCHANGED <<packet_queue_source, nic_queue_source, input_port_queue,
                 output_port_queue, nic_queue_dest, arbitrator,
                 vq_arbitrator_input_queue, network_flow, stage, sent, cycle>>

LEMMA EitherDelivers ==
  \A d : remote_memory_add(d) \/ network_memory_completion(d) => Delivers(d)
BY DEF remote_memory_add, network_memory_completion, Deliverable, Delivers, Ready, arbiter

LEMMA DeliverNet ==
  ASSUME NetInv, NEW d \in Dests, Delivers(d)
  PROVE  NetInv'
<1>1. /\ packet_queue_dest \in [Dests -> Seq(Packet)]
      /\ \A e \in Dests : InTime(packet_queue_dest[e], Sources, {e}, PacketisationTime)
  BY DEF NetInv, DestQueues
<1>2. InTime(Tail(packet_queue_dest[d]), Sources, {d}, PacketisationTime)
  BY <1>1, Delays, TailInTime DEF Delivers
<1>3. Tail(packet_queue_dest[d]) \in Seq(Packet)
  BY <1>2, InPackets
<1>4. DestQueues(packet_queue_dest', PacketisationTime)
  BY <1>1, <1>2, <1>3 DEF DestQueues, Delivers
<1>5. RestInv'
  BY DEF NetInv, RestInv, Delivers
<1>6. /\ SourceQueues(packet_queue_source, PacketisationTime)'
      /\ SourceQueues(nic_queue_source, NicHi(stage))' /\ SourcesWithin(nic_queue_source)'
      /\ PortQueues(input_port_queue)' /\ PortsWithin(input_port_queue)'
      /\ DestQueues(output_port_queue, SwitchingDelay)'
      /\ DestsWithin(output_port_queue, PortSize + 1)'
      /\ DestQueues(nic_queue_dest, PropDelay)' /\ DestsWithin(nic_queue_dest, NicSize)'
  BY DEF NetInv, Delivers
<1> QED
  BY <1>4, <1>5, <1>6 DEF NetInv

LEMMA TickNet ==
  ASSUME NetInv, Tick
  PROVE  NetInv'
<1>1. /\ stage = "deliver" /\ stage' = "nodes"
      /\ cycle' = IF cycle < SendCycles THEN cycle + 1 ELSE cycle
      /\ packet_queue_source' = [s \in Sources |-> Age(packet_queue_source[s])]
      /\ nic_queue_source' = [s \in Sources |-> Age(nic_queue_source[s])]
      /\ input_port_queue' = [s \in Sources |-> [d \in Dests |-> Age(input_port_queue[s][d])]]
      /\ output_port_queue' = [d \in Dests |-> Age(output_port_queue[d])]
      /\ nic_queue_dest' = [d \in Dests |-> Age(nic_queue_dest[d])]
      /\ packet_queue_dest' = [d \in Dests |-> Age(packet_queue_dest[d])]
      /\ UNCHANGED <<arbitrator, vq_arbitrator_input_queue, network_flow, sent>>
  BY DEF Tick, Stage, arbiter
<1>2. \A A, B : \A hi \in Nat : \A q :
        InTime(q, A, B, hi) => /\ InTime(Age(q), A, B, hi) /\ Bytes(Age(q)) = Bytes(q)
                               /\ SamePackets(q, Age(q))
                               /\ hi = 1 => InTime(Age(q), A, B, 0)
  BY AgeInTime, AgeTyped, UnitsSame DEF InTime
<1>3. SourceQueues(packet_queue_source', PacketisationTime)
  <2>1. \A s \in Sources : InTime(Age(packet_queue_source[s]), {s}, Dests, PacketisationTime)
    BY <1>2, Delays DEF NetInv, SourceQueues
  <2>2. \A s \in Sources : Age(packet_queue_source[s]) \in Seq(Packet)
    BY <2>1, InPackets
  <2> QED
    BY <1>1, <2>1, <2>2 DEF SourceQueues
<1>4. SourceQueues(nic_queue_source', NicHi(stage')) /\ SourcesWithin(nic_queue_source')
  <2>1. \A s \in Sources : InTime(nic_queue_source[s], {s}, Dests, 1)
    BY <1>1 DEF NetInv, SourceQueues, NicHi
  <2>2. \A s \in Sources : /\ InTime(Age(nic_queue_source[s]), {s}, Dests, 0)
                           /\ Bytes(Age(nic_queue_source[s])) <= NicSize
    BY <1>2, <2>1 DEF NetInv, SourcesWithin
  <2>3. \A s \in Sources : Age(nic_queue_source[s]) \in Seq(Packet)
    BY <2>2, InPackets
  <2> QED
    BY <1>1, <2>2, <2>3 DEF SourceQueues, SourcesWithin, NicHi
<1>5. PortQueues(input_port_queue') /\ PortsWithin(input_port_queue')
  <2> DEFINE hi == PropDelay + SwitchProcDelay
             c(s) == [d \in Dests |-> Age(input_port_queue[s][d])]
  <2>1. \A s \in Sources, d \in Dests : InTime(input_port_queue[s][d], {s}, {d}, hi)
    BY DEF NetInv, PortQueues
  <2>2. \A s \in Sources, d \in Dests :
          /\ InTime(Age(input_port_queue[s][d]), {s}, {d}, hi)
          /\ SamePackets(input_port_queue[s][d], Age(input_port_queue[s][d]))
    BY <1>2, <2>1, Delays
  <2>3. \A s \in Sources, d \in Dests : Age(input_port_queue[s][d]) \in Seq(Packet)
    <3> HIDE DEF hi
    <3>1. ASSUME NEW s \in Sources, NEW d \in Dests
          PROVE  Age(input_port_queue[s][d]) \in Seq(Packet)
      <4>1. InTime(Age(input_port_queue[s][d]), {s}, {d}, hi)
        BY <2>2
      <4> QED
        BY <4>1, InPackets
    <3> QED
      BY <3>1
  <2>4. \A s \in Sources : /\ c(s) \in [Dests -> Seq(Packet)]
                           /\ \A d \in Dests : c(s)[d] = Age(input_port_queue[s][d])
    BY <2>3
  <2> HIDE DEF c, hi
  <2>5. ASSUME NEW s \in Sources
        PROVE  Cardinality(UnitsOf(c(s))) <= PortSize
    <3>1. \A d \in Dests : SamePackets(input_port_queue[s][d], c(s)[d])
      BY <2>2, <2>4
    <3>2. \A d \in Dests : input_port_queue[s][d] \in Seq(Packet) /\ c(s)[d] \in Seq(Packet)
      BY <2>4 DEF NetInv, PortQueues
    <3>3. Cardinality(UnitsOf(c(s))) <= Cardinality(UnitsOf(input_port_queue[s]))
      BY <3>1, <3>2, PortTaken
    <3>4. /\ Cardinality(UnitsOf(c(s))) \in Nat
          /\ Cardinality(UnitsOf(input_port_queue[s])) \in Nat
      BY <3>2, PortFinite
    <3>5. Cardinality(UnitsOf(input_port_queue[s])) <= PortSize
      BY DEF NetInv, PortsWithin
    <3> QED
      BY <3>3, <3>4, <3>5, Delays
  <2>6. input_port_queue' = [s \in Sources |-> c(s)]
    BY <1>1 DEF c
  <2> QED
    BY <2>2, <2>4, <2>5, <2>6 DEF PortQueues, PortsWithin, hi
<1>6. ASSUME NEW f, NEW n, NEW hi \in Nat, DestQueues(f, hi)
      PROVE  /\ DestQueues([d \in Dests |-> Age(f[d])], hi)
             /\ DestsWithin(f, n) => DestsWithin([d \in Dests |-> Age(f[d])], n)
  <2>1. \A d \in Dests : InTime(Age(f[d]), Sources, {d}, hi) /\ Bytes(Age(f[d])) = Bytes(f[d])
    BY <1>2, <1>6 DEF DestQueues
  <2>2. \A d \in Dests : Age(f[d]) \in Seq(Packet)
    BY <2>1, InPackets
  <2> QED
    BY <2>1, <2>2 DEF DestQueues, DestsWithin
<1>7. /\ DestQueues(output_port_queue', SwitchingDelay)
      /\ DestsWithin(output_port_queue', PortSize + 1)
      /\ DestQueues(nic_queue_dest', PropDelay) /\ DestsWithin(nic_queue_dest', NicSize)
      /\ DestQueues(packet_queue_dest', PacketisationTime)
  BY <1>1, <1>6, Delays DEF NetInv
<1>8. RestInv'
  BY <1>1, Delays DEF NetInv, RestInv
<1> QED
  BY <1>3, <1>4, <1>5, <1>7, <1>8 DEF NetInv

LEMMA NetNext ==
  NetInv /\ [Next]_vars => NetInv'
<1> SUFFICES ASSUME NetInv, [Next]_vars PROVE NetInv'
  OBVIOUS
<1>1. ASSUME NEW s \in Sources, NEW d \in Dests, NEW size \in Sizes,
             to_trans_layer(s, d, size)
      PROVE  NetInv'
  <2>1. size \in {1, 2}
    BY DEF Sizes
  <2> QED
    BY <1>1, <2>1, SendNet
<1>2. CASE simulate_network
  <2>1. CASE \E d \in Dests : remote_memory_add(d) \/ network_memory_completion(d)
    BY <2>1, EitherDelivers, DeliverNet
  <2> QED
    BY <1>2, <2>1, SourceNicNet, InputNet, SwitchNet, DestNicNet, CollectorNet, TickNet
    DEF simulate_network
<1>3. CASE UNCHANGED vars
  BY <1>3 DEF vars, queues, arbiter, NetInv, RestInv
<1> QED
  BY <1>1, <1>2, <1>3 DEF Next

\* The invariant holds in every state the network can reach.
THEOREM NetAlways == Spec => []NetInv
<1> QED
  BY NetInit, NetNext, PTL DEF Spec

-------------------------------------------------------------------------------
LEMMA NetTyped == NetInv => TypeOK
<1> SUFFICES ASSUME NetInv PROVE TypeOK
  OBVIOUS
<1>1. sent \in [Sources -> 0 .. MaxSent]
  <2>1. sent \in [Sources -> Nat]
    BY DEF NetInv, RestInv, SentInv
  <2> DEFINE n == Cardinality(UNION {{r} \X (1 .. sent[r]) : r \in Sources})
  <2>2. n \in Nat /\ n <= MaxSent
    BY <2>1, SentPairs, FS_CardinalityType DEF NetInv, RestInv, SentInv
  <2>3. \A s \in Sources : sent[s] <= n
    BY <2>1, SentPairs
  <2> HIDE DEF n
  <2>4. \A s \in Sources : sent[s] \in 0 .. MaxSent
    BY <2>1, <2>2, <2>3, Delays
  <2> QED
    BY <2>1, <2>4
<1> QED
  BY <1>1 DEF NetInv, RestInv, SourceQueues, DestQueues, PortQueues, TypeOK

LEMMA NetOrdered == NetInv => QueuesInOrder
<1> SUFFICES ASSUME NetInv PROVE QueuesInOrder
  OBVIOUS
<1>1. \A q \in AllQueues : Ordered(q)
  BY DEF NetInv, SourceQueues, DestQueues, PortQueues, InTime, AllQueues
<1>2. QueuesTimeOrdered
  BY <1>1 DEF QueuesTimeOrdered, Ordered
<1>3. QueuesWithinSize
  BY OfPort DEF NetInv, SourcesWithin, PortsWithin, DestsWithin, QueuesWithinSize, PortBytes
<1> QED
  BY <1>2, <1>3 DEF QueuesInOrder

\* Every queue holds packets of its own source and destination, and the
\* arbiters, the counters and the stage are what they should be.
THEOREM NetworkTyped == Spec => []TypeOK
<1> QED
  BY NetAlways, NetTyped, PTL

\* Every queue is ordered by cycle, and no queue of bounded size holds more than
\* it is made for.
THEOREM NetworkInOrder == Spec => []QueuesInOrder
<1> QED
  BY NetAlways, NetOrdered, PTL

-------------------------------------------------------------------------------
LEMMA OnlyTheSwitch ==
  ASSUME [Next]_vars, stage = "input", stage' = "output"
  PROVE  switch_input_port_to_output_port
<1>1. ~ UNCHANGED vars
  BY DEF vars
<1>2. \A s, d, size : ~ to_trans_layer(s, d, size)
  BY DEF to_trans_layer
<1>3. \A d : ~ remote_memory_add(d) /\ ~ network_memory_completion(d)
  BY DEF remote_memory_add, network_memory_completion
<1>4. /\ ~ send_to_source_nic_queue /\ ~ source_to_switch_input_port
      /\ ~ switch_to_dest_nic_queue /\ ~ send_to_dest_collector_queue /\ ~ Tick
  BY DEF send_to_source_nic_queue, source_to_switch_input_port, switch_to_dest_nic_queue,
         send_to_dest_collector_queue, Tick, Stage
<1> QED
  BY <1>1, <1>2, <1>3, <1>4 DEF Next, simulate_network

LEMMA SwitchMatches ==
  ASSUME NetInv, switch_input_port_to_output_port
  PROVE  LET from == {e \in Sources \X Dests : Len(input_port_queue'[e[1]][e[2]])
                                                 < Len(input_port_queue[e[1]][e[2]])}
         IN  \A e, f \in from : e[1] = f[1] \/ e[2] = f[2] => e = f
<1>1. arbitrator \in Sources /\ vq_arbitrator_input_queue \in [Sources -> Dests]
  BY DEF NetInv, RestInv
<1>2. PICK t \in Turns :
        input_port_queue' =
          [s \in Sources |->
             [d \in Dests |-> Bump(IF <<s, d>> \in t.granted
                                   THEN Tail(input_port_queue[s][d])
                                   ELSE input_port_queue[s][d])]]
  BY DEF switch_input_port_to_output_port
<1>3. TurnInv(t)
  BY <1>1, TurnsSound
<1> DEFINE from == {e \in Sources \X Dests : Len(input_port_queue'[e[1]][e[2]])
                                               < Len(input_port_queue[e[1]][e[2]])}
<1>4. ASSUME NEW e \in from
      PROVE  e \in t.granted
  <2>1. e \in Sources \X Dests /\ e = <<e[1], e[2]>> /\ e[1] \in Sources /\ e[2] \in Dests
    OBVIOUS
  <2> SUFFICES ASSUME e \notin t.granted PROVE FALSE
    OBVIOUS
  <2>2. input_port_queue'[e[1]][e[2]] = Bump(input_port_queue[e[1]][e[2]])
    BY <1>2, <2>1
  <2>3. input_port_queue[e[1]][e[2]] \in Seq(Between({e[1]}, {e[2]}))
    BY <2>1 DEF NetInv, PortQueues, InTime
  <2>4. SamePackets(input_port_queue[e[1]][e[2]], Bump(input_port_queue[e[1]][e[2]]))
    BY <2>3, BumpTyped
  <2>5. Len(input_port_queue'[e[1]][e[2]]) = Len(input_port_queue[e[1]][e[2]])
    BY <2>2, <2>4 DEF SamePackets
  <2>6. Len(input_port_queue[e[1]][e[2]]) \in Nat
    BY <2>3
  <2> QED
    BY <2>5, <2>6
<1> HIDE DEF from
<1>5. \A e, f \in from : e[1] = f[1] \/ e[2] = f[2] => e = f
  BY <1>3, <1>4 DEF TurnInv
<1> QED
  BY <1>5 DEF from

\* In one cycle an input port sends to one output port at most and an output
\* port receives from one input port at most.
THEOREM SwitchMatchesPorts == Spec => SwitchMatching
<1>1. NetInv /\ [Next]_vars =>
        [stage = "input" /\ stage' = "output" =>
           LET from == {e \in Sources \X Dests : Len(input_port_queue'[e[1]][e[2]])
                                                   < Len(input_port_queue[e[1]][e[2]])}
           IN  \A e, f \in from : e[1] = f[1] \/ e[2] = f[2] => e = f]_vars
  BY OnlyTheSwitch, SwitchMatches
<1> QED
  BY <1>1, NetAlways, PTL DEF Spec, SwitchMatching

-------------------------------------------------------------------------------
(***************************************************************************)
(* Every pair is a channel.  A step inside the network takes a packet from *)
(* the front of what one queue holds of a pair to the back of what the     *)
(* queue before it holds, so that both together stay what they were.       *)
(***************************************************************************)
Nos == Seq(1 .. MaxSent)

Moves(a, b, a1, b1) ==
  /\ a \in Nos /\ b \in Nos /\ a1 \in Nos /\ b1 \in Nos
  /\ \/ a1 = a /\ b1 = b
     \/ \E x \in 1 .. MaxSent : a1 = Append(a, x) /\ b = <<x>> \o b1

Join(a, b) == a \o b

LEMMA Joined ==
  /\ \A a, b \in Nos : Join(a, b) \in Nos
  /\ \A a, b, c \in Nos : Join(Join(a, b), c) = Join(a, Join(b, c))
<1>1. ASSUME NEW a \in Nos, NEW b \in Nos
      PROVE  Join(a, b) \in Nos
  BY DEF Nos, Join
<1>2. ASSUME NEW a \in Nos, NEW b \in Nos, NEW c \in Nos
      PROVE  (a \o b) \o c = a \o (b \o c)
  BY DEF Nos
<1> QED
  BY <1>1, <1>2 DEF Join

LEMMA MovesOver ==
  ASSUME NEW a, NEW b, NEW a1, NEW b1, Moves(a, b, a1, b1)
  PROVE  Join(a1, b1) = Join(a, b)
<1>1. a \in Nos /\ b \in Nos /\ a1 \in Nos /\ b1 \in Nos
  BY DEF Moves
<1>2. CASE a1 = a /\ b1 = b
  BY <1>2
<1>3. ASSUME NEW x \in 1 .. MaxSent, a1 = Append(a, x), b = <<x>> \o b1
      PROVE  Join(a1, b1) = Join(a, b)
  <2>1. a1 = Join(a, <<x>>) /\ <<x>> \in Nos /\ b = Join(<<x>>, b1)
    BY <1>1, <1>3 DEF Nos, Join
  <2> QED
    BY <1>1, <2>1, Joined
<1> QED
  BY <1>2, <1>3 DEF Moves

LEMMA MovesBefore ==
  ASSUME NEW a, NEW b, NEW a1, NEW b1, Moves(a, b, a1, b1), NEW c \in Nos
  PROVE  Join(a1, Join(b1, c)) = Join(a, Join(b, c))
<1>1. a \in Nos /\ b \in Nos /\ a1 \in Nos /\ b1 \in Nos
  BY DEF Moves
<1>2. Join(a1, b1) = Join(a, b)
  BY MovesOver
<1> QED
  BY <1>1, <1>2, Joined

LEMMA OfPairArrive ==
  ASSUME NEW A, NEW B, NEW q \in Seq(Between(A, B)), NEW p \in Between(A, B),
         NEW w \in Int, NEW s, NEW d
  PROVE  OfPair(Arrive(q, p, w), s, d) = IF OfThem(p, s, d)
                                         THEN Append(OfPair(q, s, d), p.no)
                                         ELSE OfPair(q, s, d)
<1>0. PICK e : e = [p EXCEPT !.timer = 0, !.wait = w]
  OBVIOUS
<1>1. e \in Between(A, B) /\ e.source = p.source /\ e.dest = p.dest /\ e.no = p.no
  BY <1>0 DEF Between
<1>2. Arrive(q, p, w) = Append(q, e)
  BY <1>0 DEF Arrive
<1>3. OfPair(Append(q, e), s, d) = IF OfThem(e, s, d)
                                   THEN Append(OfPair(q, s, d), e.no)
                                   ELSE OfPair(q, s, d)
  BY <1>1, OfPairAppend
<1> QED
  BY <1>1, <1>2, <1>3 DEF OfThem

LEMMA Hop ==
  ASSUME NEW A, NEW B, NEW q \in Seq(Between(A, B)), q # <<>>,
         NEW q1, SamePackets(Tail(q), q1),
         NEW C, NEW D, NEW r \in Seq(Between(C, D)), Head(q) \in Between(C, D),
         NEW w \in Int, NEW r1, r1 = Arrive(r, Head(q), w), NEW s, NEW d
  PROVE  Moves(OfPair(r, s, d), OfPair(q, s, d), OfPair(r1, s, d), OfPair(q1, s, d))
<1>1. Tail(q) \in Seq(Between(A, B))
  OBVIOUS
<1>2. OfPair(q1, s, d) = OfPair(Tail(q), s, d)
  <2>1. \A t \in Seq(Between(A, B)) : SamePackets(t, q1) => OfPair(q1, s, d) = OfPair(t, s, d)
    BY OfPairSame
  <2> QED
    BY <1>1, <2>1
<1>3. OfPair(q, s, d) = IF OfThem(Head(q), s, d)
                        THEN <<Head(q).no>> \o OfPair(q1, s, d)
                        ELSE OfPair(q1, s, d)
  BY <1>2, OfPairTail
<1>4. OfPair(r1, s, d) = IF OfThem(Head(q), s, d)
                         THEN Append(OfPair(r, s, d), Head(q).no)
                         ELSE OfPair(r, s, d)
  BY OfPairArrive
<1>5. Head(q).no \in 1 .. MaxSent
  BY DEF Between
<1>6. OfPair(q, s, d) \in Nos /\ OfPair(r, s, d) \in Nos
  BY OfPairTyped DEF Nos
<1>7. OfPair(q1, s, d) \in Nos
  <2>1. OfPair(Tail(q), s, d) \in Nos
    BY <1>1, OfPairTyped DEF Nos
  <2> QED
    BY <1>2, <2>1
<1>8. OfPair(r1, s, d) \in Nos
  <2>1. \A a \in Nos, x \in 1 .. MaxSent : Append(a, x) \in Nos
    BY DEF Nos
  <2> QED
    BY <1>4, <1>5, <1>6, <2>1
<1> QED
  BY <1>3, <1>4, <1>5, <1>6, <1>7, <1>8 DEF Moves

\* What the queues hold of a pair, from the destination back to the source.
Atpd(s, d) == OfPair(packet_queue_dest[d], s, d)
Atnd(s, d) == OfPair(nic_queue_dest[d], s, d)
Atop(s, d) == OfPair(output_port_queue[d], s, d)
Atip(s, d) == OfPair(input_port_queue[s][d], s, d)
Atns(s, d) == OfPair(nic_queue_source[s], s, d)
Atps(s, d) == OfPair(packet_queue_source[s], s, d)

WayInv ==
  \A s, d : OnTheWay(s, d) =
    Join(Atpd(s, d), Join(Atnd(s, d), Join(Atop(s, d),
      Join(Atip(s, d), Join(Atns(s, d), Atps(s, d))))))

LEMMA Way == WayInv
BY DEF WayInv, Join, OnTheWay, Atpd, Atnd, Atop, Atip, Atns, Atps

LEMMA WayNext == WayInv'
BY Way, PTL

PartsInv ==
  \A s \in Sources, d \in Dests :
    /\ Atpd(s, d) \in Nos /\ Atnd(s, d) \in Nos /\ Atop(s, d) \in Nos
    /\ Atip(s, d) \in Nos /\ Atns(s, d) \in Nos /\ Atps(s, d) \in Nos

LEMMA PartsTyped == NetInv => PartsInv
<1> SUFFICES ASSUME NetInv, NEW s \in Sources, NEW d \in Dests
             PROVE  /\ Atpd(s, d) \in Nos /\ Atnd(s, d) \in Nos /\ Atop(s, d) \in Nos
                    /\ Atip(s, d) \in Nos /\ Atns(s, d) \in Nos /\ Atps(s, d) \in Nos
  BY DEF PartsInv
<1>1. \A A, B : \A hi : \A q : InTime(q, A, B, hi) => OfPair(q, s, d) \in Nos
  BY OfPairTyped DEF InTime, Nos
<1>2. /\ InTime(packet_queue_source[s], {s}, Dests, PacketisationTime)
      /\ InTime(nic_queue_source[s], {s}, Dests, NicHi(stage))
      /\ InTime(input_port_queue[s][d], {s}, {d}, PropDelay + SwitchProcDelay)
      /\ InTime(output_port_queue[d], Sources, {d}, SwitchingDelay)
      /\ InTime(nic_queue_dest[d], Sources, {d}, PropDelay)
      /\ InTime(packet_queue_dest[d], Sources, {d}, PacketisationTime)
  BY DEF NetInv, SourceQueues, DestQueues, PortQueues
<1> QED
  BY <1>1, <1>2 DEF Atpd, Atnd, Atop, Atip, Atns, Atps

LEMMA PartsTypedNext == NetInv' => PartsInv'
BY PartsTyped, PTL

Six(x1, x2, x3, x4, x5, x6, y1, y2, y3, y4, y5, y6) ==
  /\ {x1, x2, x3, x4, x5, x6} \subseteq Nos
  /\ \/ Moves(x1, x2, y1, y2) /\ y3 = x3 /\ y4 = x4 /\ y5 = x5 /\ y6 = x6
     \/ Moves(x2, x3, y2, y3) /\ y1 = x1 /\ y4 = x4 /\ y5 = x5 /\ y6 = x6
     \/ Moves(x3, x4, y3, y4) /\ y1 = x1 /\ y2 = x2 /\ y5 = x5 /\ y6 = x6
     \/ Moves(x4, x5, y4, y5) /\ y1 = x1 /\ y2 = x2 /\ y3 = x3 /\ y6 = x6
     \/ Moves(x5, x6, y5, y6) /\ y1 = x1 /\ y2 = x2 /\ y3 = x3 /\ y4 = x4

LEMMA SixKept ==
  ASSUME NEW x1, NEW x2, NEW x3, NEW x4, NEW x5, NEW x6,
         NEW y1, NEW y2, NEW y3, NEW y4, NEW y5, NEW y6,
         Six(x1, x2, x3, x4, x5, x6, y1, y2, y3, y4, y5, y6)
  PROVE  Join(y1, Join(y2, Join(y3, Join(y4, Join(y5, y6))))) =
           Join(x1, Join(x2, Join(x3, Join(x4, Join(x5, x6)))))
<1>1. x1 \in Nos /\ x2 \in Nos /\ x3 \in Nos /\ x4 \in Nos /\ x5 \in Nos /\ x6 \in Nos
  BY DEF Six
<1>2. PICK r5 \in Nos : r5 = Join(x5, x6)
  BY <1>1, Joined
<1>3. PICK r4 \in Nos : r4 = Join(x4, r5)
  BY <1>1, Joined
<1>4. PICK r3 \in Nos : r3 = Join(x3, r4)
  BY <1>1, Joined
<1>5. CASE Moves(x1, x2, y1, y2) /\ y3 = x3 /\ y4 = x4 /\ y5 = x5 /\ y6 = x6
  <2>1. Join(y1, Join(y2, r3)) = Join(x1, Join(x2, r3))
    BY <1>5, MovesBefore
  <2> QED
    BY <1>2, <1>3, <1>4, <1>5, <2>1
<1>6. CASE Moves(x2, x3, y2, y3) /\ y1 = x1 /\ y4 = x4 /\ y5 = x5 /\ y6 = x6
  <2>1. Join(y2, Join(y3, r4)) = Join(x2, Join(x3, r4))
    BY <1>6, MovesBefore
  <2> QED
    BY <1>2, <1>3, <1>6, <2>1
<1>7. CASE Moves(x3, x4, y3, y4) /\ y1 = x1 /\ y2 = x2 /\ y5 = x5 /\ y6 = x6
  <2>1. Join(y3, Join(y4, r5)) = Join(x3, Join(x4, r5))
    BY <1>7, MovesBefore
  <2> QED
    BY <1>2, <1>7, <2>1
<1>8. CASE Moves(x4, x5, y4, y5) /\ y1 = x1 /\ y2 = x2 /\ y3 = x3 /\ y6 = x6
  <2>1. Join(y4, Join(y5, x6)) = Join(x4, Join(x5, x6))
    BY <1>1, <1>8, MovesBefore
  <2> QED
    BY <1>8, <2>1
<1>9. CASE Moves(x5, x6, y5, y6) /\ y1 = x1 /\ y2 = x2 /\ y3 = x3 /\ y4 = x4
  <2>1. Join(y5, y6) = Join(x5, x6)
    BY <1>9, MovesOver
  <2> QED
    BY <1>9, <2>1
<1> QED
  BY <1>5, <1>6, <1>7, <1>8, <1>9 DEF Six

LEMMA Steady ==
  ASSUME NetInv, NEW s \in Sources, NEW d \in Dests,
         \/ /\ Moves(Atpd(s, d), Atnd(s, d), Atpd(s, d)', Atnd(s, d)')
            /\ Atop(s, d)' = Atop(s, d) /\ Atip(s, d)' = Atip(s, d)
            /\ Atns(s, d)' = Atns(s, d) /\ Atps(s, d)' = Atps(s, d)
         \/ /\ Moves(Atnd(s, d), Atop(s, d), Atnd(s, d)', Atop(s, d)')
            /\ Atpd(s, d)' = Atpd(s, d) /\ Atip(s, d)' = Atip(s, d)
            /\ Atns(s, d)' = Atns(s, d) /\ Atps(s, d)' = Atps(s, d)
         \/ /\ Moves(Atop(s, d), Atip(s, d), Atop(s, d)', Atip(s, d)')
            /\ Atpd(s, d)' = Atpd(s, d) /\ Atnd(s, d)' = Atnd(s, d)
            /\ Atns(s, d)' = Atns(s, d) /\ Atps(s, d)' = Atps(s, d)
         \/ /\ Moves(Atip(s, d), Atns(s, d), Atip(s, d)', Atns(s, d)')
            /\ Atpd(s, d)' = Atpd(s, d) /\ Atnd(s, d)' = Atnd(s, d)
            /\ Atop(s, d)' = Atop(s, d) /\ Atps(s, d)' = Atps(s, d)
         \/ /\ Moves(Atns(s, d), Atps(s, d), Atns(s, d)', Atps(s, d)')
            /\ Atpd(s, d)' = Atpd(s, d) /\ Atnd(s, d)' = Atnd(s, d)
            /\ Atop(s, d)' = Atop(s, d) /\ Atip(s, d)' = Atip(s, d)
  PROVE  OnTheWay(s, d)' = OnTheWay(s, d)
<1>1. /\ Atpd(s, d) \in Nos /\ Atnd(s, d) \in Nos /\ Atop(s, d) \in Nos
      /\ Atip(s, d) \in Nos /\ Atns(s, d) \in Nos /\ Atps(s, d) \in Nos
  BY PartsTyped DEF PartsInv
<1>2. Six(Atpd(s, d), Atnd(s, d), Atop(s, d), Atip(s, d), Atns(s, d), Atps(s, d),
          Atpd(s, d)', Atnd(s, d)', Atop(s, d)', Atip(s, d)', Atns(s, d)', Atps(s, d)')
  BY <1>1 DEF Six
<1>3. OnTheWay(s, d) = Join(Atpd(s, d), Join(Atnd(s, d), Join(Atop(s, d),
                         Join(Atip(s, d), Join(Atns(s, d), Atps(s, d))))))
  BY Way DEF WayInv
<1>4. OnTheWay(s, d)' = Join(Atpd(s, d)', Join(Atnd(s, d)', Join(Atop(s, d)',
                          Join(Atip(s, d)', Join(Atns(s, d)', Atps(s, d)')))))
  BY WayNext DEF WayInv
<1> QED
  BY <1>2, <1>3, <1>4, SixKept

LEMMA HopServed ==
  ASSUME NEW A, NEW B, NEW hi \in Int, hi >= 1, NEW q, InTime(q, A, B, hi),
         NEW delay, Leaves(q, delay), NEW C, NEW D, NEW r \in Seq(Between(C, D)),
         Head(q) \in Between(C, D), NEW w \in Int, NEW s, NEW d
  PROVE  Moves(OfPair(r, s, d), OfPair(q, s, d), OfPair(Arrive(r, Head(q), w), s, d),
               OfPair(Served(q, delay), s, d))
<1>1. /\ q # <<>> /\ SamePackets(Tail(q), Served(q, delay)) /\ q \in Seq(Between(A, B))
  BY ServedInTime DEF InTime
<1> QED
  BY <1>1, Hop

LEMMA Stays ==
  ASSUME NEW A, NEW B, NEW hi \in Int, hi >= 1, NEW q, InTime(q, A, B, hi), NEW s, NEW d
  PROVE  /\ \A delay : ~ Leaves(q, delay) =>
              OfPair(Served(q, delay), s, d) = OfPair(q, s, d)
         /\ OfPair(Bump(q), s, d) = OfPair(q, s, d)
         /\ OfPair(Age(q), s, d) = OfPair(q, s, d)
<1>1. q \in Seq(Between(A, B))
  BY DEF InTime
<1>2. \A r : SamePackets(q, r) => OfPair(r, s, d) = OfPair(q, s, d)
  BY <1>1, OfPairSame
<1>3. SamePackets(q, Bump(q)) /\ SamePackets(q, Age(q))
  BY <1>1, BumpTyped, AgeTyped
<1>4. \A delay : ~ Leaves(q, delay) => SamePackets(q, Served(q, delay))
  BY ServedInTime
<1> QED
  BY <1>2, <1>3, <1>4

\* A step that takes nothing from these two.
LEMMA MovesNothing ==
  ASSUME NEW a \in Nos, NEW b \in Nos, NEW a1, NEW b1, a1 = a, b1 = b
  PROVE  Moves(a, b, a1, b1)
BY DEF Moves

Quiet == \A s \in Sources, d \in Dests : OnTheWay(s, d)' = OnTheWay(s, d)

LEMMA SourceNicQuiet ==
  ASSUME NetInv, send_to_source_nic_queue
  PROVE  Quiet
<1> DEFINE pq(s) == packet_queue_source[s]
           nq(s) == nic_queue_source[s]
           space(s) == pq(s) # <<>> => NicHasSpace(nq(s), Head(pq(s)))
           goes(s)  == space(s) /\ Leaves(pq(s), NicProcDelay)
           a(s) == IF space(s) THEN Served(pq(s), NicProcDelay) ELSE Bump(pq(s))
           b(s) == IF goes(s) THEN Arrive(nq(s), Head(pq(s)), 0) ELSE nq(s)
<1>1. /\ stage = "nodes"
      /\ packet_queue_source' = [s \in Sources |-> a(s)]
      /\ nic_queue_source' = [s \in Sources |-> b(s)]
      /\ UNCHANGED <<input_port_queue, output_port_queue, nic_queue_dest, packet_queue_dest>>
  BY DEF send_to_source_nic_queue, Stage
<1> SUFFICES ASSUME NEW s \in Sources, NEW d \in Dests
             PROVE  OnTheWay(s, d)' = OnTheWay(s, d)
  BY DEF Quiet
<1>2. /\ InTime(pq(s), {s}, Dests, PacketisationTime) /\ InTime(nq(s), {s}, Dests, 0)
      /\ PacketisationTime \in Int /\ PacketisationTime >= 1
  BY <1>1, Delays DEF NetInv, SourceQueues, NicHi
<1>3. /\ Atps(s, d)' = OfPair(a(s), s, d) /\ Atps(s, d) = OfPair(pq(s), s, d)
      /\ Atns(s, d)' = OfPair(b(s), s, d) /\ Atns(s, d) = OfPair(nq(s), s, d)
      /\ Atpd(s, d)' = Atpd(s, d) /\ Atnd(s, d)' = Atnd(s, d) /\ Atop(s, d)' = Atop(s, d)
      /\ Atip(s, d)' = Atip(s, d)
  BY <1>1 DEF Atps, Atns, Atip, Atop, Atnd, Atpd
<1>4. Moves(Atns(s, d), Atps(s, d), Atns(s, d)', Atps(s, d)')
  <2>1. CASE goes(s)
    <3>1. pq(s) # <<>>
      BY <2>1 DEF Leaves, Ready
    <3>2. Head(pq(s)) \in Between({s}, Dests) /\ nq(s) \in Seq(Between({s}, Dests))
      BY <1>2, <3>1, Front DEF InTime
    <3>3. a(s) = Served(pq(s), NicProcDelay) /\ b(s) = Arrive(nq(s), Head(pq(s)), 0)
          /\ Leaves(pq(s), NicProcDelay)
      BY <2>1
    <3> HIDE DEF a, b, pq, nq
    <3>4. Moves(OfPair(nq(s), s, d), OfPair(pq(s), s, d),
                OfPair(Arrive(nq(s), Head(pq(s)), 0), s, d),
                OfPair(Served(pq(s), NicProcDelay), s, d))
      BY <1>2, <3>2, <3>3, HopServed
    <3> QED
      BY <1>3, <3>3, <3>4
  <2>2. CASE ~ goes(s)
    <3>1. OfPair(a(s), s, d) = OfPair(pq(s), s, d)
      BY <1>2, <2>2, Stays
    <3>2. b(s) = nq(s)
      BY <2>2
    <3>3. Atns(s, d) \in Nos /\ Atps(s, d) \in Nos
      BY PartsTyped DEF PartsInv
    <3> QED
      BY <1>3, <3>1, <3>2, <3>3, MovesNothing
  <2> QED
    BY <2>1, <2>2
<1> QED
  BY <1>3, <1>4, Steady

LEMMA InputQuiet ==
  ASSUME NetInv, source_to_switch_input_port
  PROVE  Quiet
<1> DEFINE hi == PropDelay + SwitchProcDelay
           nq(s) == nic_queue_source[s]
           iq(s) == input_port_queue[s]
           front(s) == Head(nq(s))
           delay(s) == NicTransDelay(front(s).size)
           space(s) == nq(s) # <<>> => PortHasSpace(s, front(s))
           goes(s)  == nq(s) # <<>> /\ space(s) /\ Leaves(nq(s), delay(s))
           a(s) == IF nq(s) = <<>> THEN <<>>
                   ELSE IF space(s) THEN Served(nq(s), delay(s)) ELSE Bump(nq(s))
           b(s, d) == IF goes(s) /\ front(s).dest = d THEN Arrive(iq(s)[d], front(s), hi)
                      ELSE iq(s)[d]
<1>1. /\ stage = "nic"
      /\ nic_queue_source' = [s \in Sources |-> a(s)]
      /\ input_port_queue' = [s \in Sources |-> [d \in Dests |-> b(s, d)]]
      /\ UNCHANGED <<packet_queue_source, output_port_queue, nic_queue_dest,
                     packet_queue_dest>>
  BY DEF source_to_switch_input_port, Stage
<1> SUFFICES ASSUME NEW s \in Sources, NEW d \in Dests
             PROVE  OnTheWay(s, d)' = OnTheWay(s, d)
  BY DEF Quiet
<1>2. InTime(nq(s), {s}, Dests, 1)
  <2>1. nq(s) \in Seq(Between({s}, Dests)) /\ Ordered(nq(s)) /\ Below(nq(s), 0)
    BY <1>1 DEF NetInv, SourceQueues, NicHi, InTime
  <2>2. \A i \in DOMAIN nq(s) : nq(s)[i].wait \in Int
    BY <2>1, PacketsOf
  <2>3. Below(nq(s), 1)
    BY <2>1, <2>2 DEF Below
  <2> QED
    BY <2>1, <2>3 DEF InTime
<1>3. InTime(iq(s)[d], {s}, {d}, hi) /\ hi \in Int /\ 1 \in Int /\ 1 >= 1
  <2>1. InTime(iq(s)[d], {s}, {d}, hi)
    BY DEF NetInv, PortQueues
  <2>2. hi \in Int
    BY Delays
  <2> QED
    BY <2>1, <2>2
<1>4. /\ Atns(s, d)' = OfPair(a(s), s, d) /\ Atns(s, d) = OfPair(nq(s), s, d)
      /\ Atip(s, d)' = OfPair(b(s, d), s, d) /\ Atip(s, d) = OfPair(iq(s)[d], s, d)
      /\ Atpd(s, d)' = Atpd(s, d) /\ Atnd(s, d)' = Atnd(s, d) /\ Atop(s, d)' = Atop(s, d)
      /\ Atps(s, d)' = Atps(s, d)
  BY <1>1 DEF Atps, Atns, Atip, Atop, Atnd, Atpd
<1>5. Atns(s, d) \in Nos /\ Atip(s, d) \in Nos
  BY PartsTyped DEF PartsInv
<1>6. Moves(Atip(s, d), Atns(s, d), Atip(s, d)', Atns(s, d)')
  <2>1. CASE goes(s)
    <3>1. /\ front(s) \in Between({s}, Dests)
      BY <1>2, <2>1, Front
    <3>2. a(s) = Served(nq(s), delay(s)) /\ Leaves(nq(s), delay(s)) /\ nq(s) # <<>>
      BY <2>1
    <3>3. CASE front(s).dest = d
      <4>1. front(s) \in Between({s}, {d}) /\ iq(s)[d] \in Seq(Between({s}, {d}))
        BY <1>3, <3>1, <3>3 DEF Between, InTime
      <4>2. b(s, d) = Arrive(iq(s)[d], Head(nq(s)), hi)
        BY <2>1, <3>3
      <4>3. Head(nq(s)) \in Between({s}, {d})
        BY <4>1
      <4> HIDE DEF a, b, nq, iq, delay, hi, front
      <4>4. Moves(OfPair(iq(s)[d], s, d), OfPair(nq(s), s, d),
                  OfPair(Arrive(iq(s)[d], Head(nq(s)), hi), s, d),
                  OfPair(Served(nq(s), delay(s)), s, d))
        BY <1>2, <1>3, <3>2, <4>1, <4>3, HopServed
      <4> QED
        BY <1>4, <3>2, <4>2, <4>4
    <3>4. CASE front(s).dest # d
      <4>1. b(s, d) = iq(s)[d]
        BY <3>4
      <4>2. ~ OfThem(Head(nq(s)), s, d)
        BY <3>4 DEF OfThem
      <4> HIDE DEF a, b, nq, iq, delay, hi, front
      <4>3. nq(s) \in Seq(Between({s}, Dests))
        BY <1>2 DEF InTime
      <4>4. OfPair(nq(s), s, d) = OfPair(Tail(nq(s)), s, d)
        BY <3>2, <4>2, <4>3, OfPairTail
      <4>5. SamePackets(Tail(nq(s)), Served(nq(s), delay(s)))
        BY <1>2, <1>3, <3>2, ServedInTime
      <4>6. \A t \in Seq(Between({s}, Dests)) : \A r :
              SamePackets(t, r) => OfPair(r, s, d) = OfPair(t, s, d)
        BY OfPairSame
      <4>7. Tail(nq(s)) \in Seq(Between({s}, Dests))
        BY <3>2, <4>3
      <4>8. OfPair(Served(nq(s), delay(s)), s, d) = OfPair(Tail(nq(s)), s, d)
        BY <4>5, <4>6, <4>7
      <4> QED
        BY <1>4, <1>5, <3>2, <4>1, <4>4, <4>8, MovesNothing
    <3> QED
      BY <3>3, <3>4
  <2>2. CASE ~ goes(s)
    <3>1. b(s, d) = iq(s)[d]
      BY <2>2
    <3>2. OfPair(a(s), s, d) = OfPair(nq(s), s, d)
      <4>1. \A dl : ~ Leaves(nq(s), dl) => OfPair(Served(nq(s), dl), s, d) = OfPair(nq(s), s, d)
        BY <1>2, <1>3, Stays
      <4>2. OfPair(Bump(nq(s)), s, d) = OfPair(nq(s), s, d)
        BY <1>2, <1>3, Stays
      <4>3. \/ nq(s) = <<>> /\ a(s) = nq(s)
            \/ a(s) = Bump(nq(s))
            \/ a(s) = Served(nq(s), delay(s)) /\ ~ Leaves(nq(s), delay(s))
        BY <2>2
      <4> HIDE DEF a, nq, delay
      <4> QED
        BY <4>1, <4>2, <4>3
    <3> QED
      BY <1>4, <1>5, <3>1, <3>2, MovesNothing
  <2> QED
    BY <2>1, <2>2
<1> QED
  BY <1>4, <1>6, Steady

LEMMA SwitchQuiet ==
  ASSUME NetInv, switch_input_port_to_output_port
  PROVE  Quiet
<1> DEFINE hi == PropDelay + SwitchProcDelay
           iq(s) == input_port_queue[s]
           oq(d) == output_port_queue[d]
<1>1. arbitrator \in Sources /\ vq_arbitrator_input_queue \in [Sources -> Dests]
  BY DEF NetInv, RestInv
<1>2. PICK t \in Turns :
        LET from(d) == CHOOSE s \in Sources : <<s, d>> \in t.granted
        IN  /\ input_port_queue' =
                 [s \in Sources |->
                    [d \in Dests |-> Bump(IF <<s, d>> \in t.granted
                                          THEN Tail(input_port_queue[s][d])
                                          ELSE input_port_queue[s][d])]]
            /\ output_port_queue' =
                 [d \in Dests |-> IF \E s \in Sources : <<s, d>> \in t.granted
                                  THEN Arrive(output_port_queue[d],
                                              Head(input_port_queue[from(d)][d]),
                                              SwitchingDelay)
                                  ELSE output_port_queue[d]]
            /\ UNCHANGED <<packet_queue_source, nic_queue_source, nic_queue_dest,
                           packet_queue_dest>>
  BY DEF switch_input_port_to_output_port
<1> SUFFICES ASSUME NEW s \in Sources, NEW d \in Dests
             PROVE  OnTheWay(s, d)' = OnTheWay(s, d)
  BY DEF Quiet
<1> DEFINE f == CHOOSE r \in Sources : <<r, d>> \in t.granted
           a == Bump(IF <<s, d>> \in t.granted THEN Tail(iq(s)[d]) ELSE iq(s)[d])
           b == IF \E r \in Sources : <<r, d>> \in t.granted
                THEN Arrive(oq(d), Head(iq(f)[d]), SwitchingDelay)
                ELSE oq(d)
<1>3. /\ Atip(s, d)' = OfPair(a, s, d) /\ Atip(s, d) = OfPair(iq(s)[d], s, d)
      /\ Atop(s, d)' = OfPair(b, s, d) /\ Atop(s, d) = OfPair(oq(d), s, d)
      /\ Atpd(s, d)' = Atpd(s, d) /\ Atnd(s, d)' = Atnd(s, d) /\ Atns(s, d)' = Atns(s, d)
      /\ Atps(s, d)' = Atps(s, d)
  BY <1>2 DEF Atps, Atns, Atip, Atop, Atnd, Atpd
<1>4. TurnInv(t)
  BY <1>1, TurnsSound
<1>5. /\ \A r \in Sources : <<r, d>> \in t.granted => Ready(iq(r)[d])
      /\ \A r \in Sources : <<r, d>> \in t.granted /\ <<s, d>> \in t.granted => r = s
  <2>1. /\ \A e \in t.granted : Ready(input_port_queue[e[1]][e[2]])
        /\ \A e, g \in t.granted : e[1] = g[1] \/ e[2] = g[2] => e = g
    BY <1>4 DEF TurnInv
  <2>2. ASSUME NEW r \in Sources, <<r, d>> \in t.granted
        PROVE  Ready(iq(r)[d])
    <3>1. Ready(input_port_queue[<<r, d>>[1]][<<r, d>>[2]])
      BY <2>1, <2>2
    <3> QED
      BY <3>1
  <2>3. ASSUME NEW r \in Sources, <<r, d>> \in t.granted, <<s, d>> \in t.granted
        PROVE  r = s
    <3>1. <<r, d>>[2] = <<s, d>>[2] => <<r, d>> = <<s, d>>
      BY <2>1, <2>3
    <3> QED
      BY <3>1
  <2> QED
    BY <2>2, <2>3
<1>6. SwitchingDelay \in Int /\ hi \in Int /\ hi >= 1
  BY Delays
<1>7. /\ \A r \in Sources : InTime(iq(r)[d], {r}, {d}, hi)
      /\ oq(d) \in Seq(Between(Sources, {d}))
  BY DEF NetInv, PortQueues, DestQueues, InTime
<1>8. Atip(s, d) \in Nos /\ Atop(s, d) \in Nos
  BY PartsTyped DEF PartsInv
<1>9. \A r \in Sources : <<r, d>> \in t.granted =>
        /\ iq(r)[d] # <<>> /\ Head(iq(r)[d]) \in Between({r}, {d})
        /\ Head(iq(r)[d]) \in Between(Sources, {d}) /\ Head(iq(r)[d]).source = r
  <2>1. ASSUME NEW r \in Sources, <<r, d>> \in t.granted
        PROVE  /\ iq(r)[d] # <<>> /\ Head(iq(r)[d]) \in Between({r}, {d})
               /\ Head(iq(r)[d]) \in Between(Sources, {d}) /\ Head(iq(r)[d]).source = r
    <3>1. iq(r)[d] # <<>>
      BY <1>5, <2>1 DEF Ready
    <3>2. InTime(iq(r)[d], {r}, {d}, hi)
      BY <1>7
    <3> HIDE DEF iq, hi
    <3>3. Head(iq(r)[d]) \in Between({r}, {d})
      BY <3>1, <3>2, Front
    <3> QED
      BY <3>1, <3>3 DEF Between
  <2> QED
    BY <2>1
<1>10. Moves(Atop(s, d), Atip(s, d), Atop(s, d)', Atip(s, d)')
  <2>1. CASE <<s, d>> \in t.granted
    <3>1. f = s
      BY <1>5, <2>1
    <3>2. a = Bump(Tail(iq(s)[d])) /\ b = Arrive(oq(d), Head(iq(s)[d]), SwitchingDelay)
      BY <2>1, <3>1
    <3>3. iq(s)[d] # <<>> /\ Head(iq(s)[d]) \in Between(Sources, {d})
      BY <1>9, <2>1
    <3>4. iq(s)[d] \in Seq(Between({s}, {d}))
      BY <1>7 DEF InTime
    <3> HIDE DEF a, b, f, iq, oq, hi
    <3>5. Tail(iq(s)[d]) \in Seq(Between({s}, {d}))
      BY <3>3, <3>4
    <3>6. \A q \in Seq(Between({s}, {d})) : SamePackets(q, Bump(q))
      BY BumpTyped
    <3>7. SamePackets(Tail(iq(s)[d]), Bump(Tail(iq(s)[d])))
      BY <3>5, <3>6
    <3>8. Moves(OfPair(oq(d), s, d), OfPair(iq(s)[d], s, d),
                OfPair(Arrive(oq(d), Head(iq(s)[d]), SwitchingDelay), s, d),
                OfPair(Bump(Tail(iq(s)[d])), s, d))
      BY <1>6, <1>7, <3>3, <3>4, <3>7, Hop
    <3> QED
      BY <1>3, <3>2, <3>8
  <2>2. CASE <<s, d>> \notin t.granted
    <3>1. OfPair(a, s, d) = OfPair(iq(s)[d], s, d)
      <4>1. a = Bump(iq(s)[d])
        BY <2>2
      <4>2. InTime(iq(s)[d], {s}, {d}, hi)
        BY <1>7
      <4> HIDE DEF a, iq, hi
      <4> QED
        BY <1>6, <4>1, <4>2, Stays
    <3>2. OfPair(b, s, d) = OfPair(oq(d), s, d)
      <4>1. CASE \E r \in Sources : <<r, d>> \in t.granted
        <5>1. f \in Sources /\ <<f, d>> \in t.granted
          BY <4>1
        <5>2. b = Arrive(oq(d), Head(iq(f)[d]), SwitchingDelay)
          BY <4>1
        <5>3. f # s
          BY <2>2, <5>1
        <5> HIDE DEF f, iq, oq, b
        <5>4. Head(iq(f)[d]) \in Between(Sources, {d}) /\ ~ OfThem(Head(iq(f)[d]), s, d)
          BY <1>9, <5>1, <5>3 DEF OfThem
        <5>5. OfPair(Arrive(oq(d), Head(iq(f)[d]), SwitchingDelay), s, d) = OfPair(oq(d), s, d)
          BY <1>6, <1>7, <5>4, OfPairArrive
        <5> QED
          BY <5>2, <5>5
      <4>2. CASE ~ \E r \in Sources : <<r, d>> \in t.granted
        BY <4>2
      <4> QED
        BY <4>1, <4>2
    <3> QED
      BY <1>3, <1>8, <3>1, <3>2, MovesNothing
  <2> QED
    BY <2>1, <2>2
<1> QED
  BY <1>3, <1>10, Steady

LEMMA DestNicQuiet ==
  ASSUME NetInv, switch_to_dest_nic_queue
  PROVE  Quiet
<1> DEFINE oq(d) == output_port_queue[d]
           nq(d) == nic_queue_dest[d]
           front(d) == Head(oq(d))
           delay(d) == SwitchTransDelay(front(d).size)
           space(d) == oq(d) # <<>> /\ NicHasSpace(nq(d), front(d))
           a(d) == IF space(d) THEN Served(oq(d), delay(d)) ELSE oq(d)
           b(d) == IF space(d) /\ Leaves(oq(d), delay(d))
                   THEN Arrive(nq(d), front(d), PropDelay) ELSE nq(d)
<1>1. /\ output_port_queue' = [d \in Dests |-> a(d)]
      /\ nic_queue_dest' = [d \in Dests |-> b(d)]
      /\ UNCHANGED <<packet_queue_source, nic_queue_source, input_port_queue,
                     packet_queue_dest>>
  BY DEF switch_to_dest_nic_queue
<1> SUFFICES ASSUME NEW s \in Sources, NEW d \in Dests
             PROVE  OnTheWay(s, d)' = OnTheWay(s, d)
  BY DEF Quiet
<1>2. /\ Atop(s, d)' = OfPair(a(d), s, d) /\ Atop(s, d) = OfPair(oq(d), s, d)
      /\ Atnd(s, d)' = OfPair(b(d), s, d) /\ Atnd(s, d) = OfPair(nq(d), s, d)
      /\ Atpd(s, d)' = Atpd(s, d) /\ Atip(s, d)' = Atip(s, d) /\ Atns(s, d)' = Atns(s, d)
      /\ Atps(s, d)' = Atps(s, d)
  BY <1>1 DEF Atps, Atns, Atip, Atop, Atnd, Atpd
<1>3. /\ InTime(oq(d), Sources, {d}, SwitchingDelay) /\ nq(d) \in Seq(Between(Sources, {d}))
      /\ SwitchingDelay \in Int /\ SwitchingDelay >= 1 /\ PropDelay \in Int
  <2>1. /\ InTime(oq(d), Sources, {d}, SwitchingDelay)
        /\ InTime(nq(d), Sources, {d}, PropDelay)
    BY DEF NetInv, DestQueues
  <2>2. nq(d) \in Seq(Between(Sources, {d}))
    BY <2>1 DEF InTime
  <2> QED
    BY <2>1, <2>2, Delays
<1>4. Atop(s, d) \in Nos /\ Atnd(s, d) \in Nos
  BY PartsTyped DEF PartsInv
<1>5. Moves(Atnd(s, d), Atop(s, d), Atnd(s, d)', Atop(s, d)')
  <2>1. CASE space(d) /\ Leaves(oq(d), delay(d))
    <3>1. front(d) \in Between(Sources, {d})
      BY <1>3, <2>1, Front
    <3>2. a(d) = Served(oq(d), delay(d)) /\ b(d) = Arrive(nq(d), Head(oq(d)), PropDelay)
          /\ Leaves(oq(d), delay(d)) /\ Head(oq(d)) \in Between(Sources, {d})
      BY <2>1, <3>1
    <3> HIDE DEF a, b, nq, oq, delay, front, space
    <3>3. Moves(OfPair(nq(d), s, d), OfPair(oq(d), s, d),
                OfPair(Arrive(nq(d), Head(oq(d)), PropDelay), s, d),
                OfPair(Served(oq(d), delay(d)), s, d))
      BY <1>3, <3>2, HopServed
    <3> QED
      BY <1>2, <3>2, <3>3
  <2>2. CASE ~ (space(d) /\ Leaves(oq(d), delay(d)))
    <3>1. b(d) = nq(d) /\ \/ a(d) = oq(d)
                          \/ a(d) = Served(oq(d), delay(d)) /\ ~ Leaves(oq(d), delay(d))
      BY <2>2
    <3> HIDE DEF a, b, nq, oq, delay, front, space
    <3>2. \A dl : ~ Leaves(oq(d), dl) => OfPair(Served(oq(d), dl), s, d) = OfPair(oq(d), s, d)
      BY <1>3, Stays
    <3>3. OfPair(a(d), s, d) = OfPair(oq(d), s, d)
      BY <3>1, <3>2
    <3> QED
      BY <1>2, <1>4, <3>1, <3>3, MovesNothing
  <2> QED
    BY <2>1, <2>2
<1> QED
  BY <1>2, <1>5, Steady

LEMMA CollectorQuiet ==
  ASSUME NetInv, send_to_dest_collector_queue
  PROVE  Quiet
<1> DEFINE nq(d) == nic_queue_dest[d]
           pq(d) == packet_queue_dest[d]
           a(d) == Served(nq(d), NicProcDelay)
           b(d) == IF Leaves(nq(d), NicProcDelay)
                   THEN Arrive(pq(d), Head(nq(d)), PacketisationTime) ELSE pq(d)
<1>1. /\ nic_queue_dest' = [d \in Dests |-> a(d)]
      /\ packet_queue_dest' = [d \in Dests |-> b(d)]
      /\ UNCHANGED <<packet_queue_source, nic_queue_source, input_port_queue,
                     output_port_queue>>
  BY DEF send_to_dest_collector_queue
<1> SUFFICES ASSUME NEW s \in Sources, NEW d \in Dests
             PROVE  OnTheWay(s, d)' = OnTheWay(s, d)
  BY DEF Quiet
<1>2. /\ Atnd(s, d)' = OfPair(a(d), s, d) /\ Atnd(s, d) = OfPair(nq(d), s, d)
      /\ Atpd(s, d)' = OfPair(b(d), s, d) /\ Atpd(s, d) = OfPair(pq(d), s, d)
      /\ Atop(s, d)' = Atop(s, d) /\ Atip(s, d)' = Atip(s, d) /\ Atns(s, d)' = Atns(s, d)
      /\ Atps(s, d)' = Atps(s, d)
  BY <1>1 DEF Atps, Atns, Atip, Atop, Atnd, Atpd
<1>3. /\ InTime(nq(d), Sources, {d}, PropDelay) /\ pq(d) \in Seq(Between(Sources, {d}))
      /\ PropDelay \in Int /\ PropDelay >= 1 /\ PacketisationTime \in Int
  <2>1. /\ InTime(nq(d), Sources, {d}, PropDelay)
        /\ InTime(pq(d), Sources, {d}, PacketisationTime)
    BY DEF NetInv, DestQueues
  <2>2. pq(d) \in Seq(Between(Sources, {d}))
    BY <2>1 DEF InTime
  <2> QED
    BY <2>1, <2>2, Delays
<1>4. Atnd(s, d) \in Nos /\ Atpd(s, d) \in Nos
  BY PartsTyped DEF PartsInv
<1>5. Moves(Atpd(s, d), Atnd(s, d), Atpd(s, d)', Atnd(s, d)')
  <2>1. CASE Leaves(nq(d), NicProcDelay)
    <3>1. nq(d) # <<>>
      BY <2>1 DEF Leaves, Ready
    <3>2. b(d) = Arrive(pq(d), Head(nq(d)), PacketisationTime)
      BY <2>1
    <3> HIDE DEF b, nq, pq
    <3>3. Head(nq(d)) \in Between(Sources, {d})
      BY <1>3, <3>1, Front
    <3>4. Moves(OfPair(pq(d), s, d), OfPair(nq(d), s, d),
                OfPair(Arrive(pq(d), Head(nq(d)), PacketisationTime), s, d),
                OfPair(Served(nq(d), NicProcDelay), s, d))
      BY <1>3, <2>1, <3>3, HopServed
    <3> QED
      BY <1>2, <3>2, <3>4
  <2>2. CASE ~ Leaves(nq(d), NicProcDelay)
    <3>1. b(d) = pq(d)
      BY <2>2
    <3> HIDE DEF b, nq, pq
    <3>2. OfPair(Served(nq(d), NicProcDelay), s, d) = OfPair(nq(d), s, d)
      BY <1>3, <2>2, Stays
    <3> QED
      BY <1>2, <1>4, <3>1, <3>2, MovesNothing
  <2> QED
    BY <2>1, <2>2
<1> QED
  BY <1>2, <1>5, Steady

LEMMA TickQuiet ==
  ASSUME NetInv, Tick
  PROVE  Quiet
<1> SUFFICES ASSUME NEW s \in Sources, NEW d \in Dests
             PROVE  OnTheWay(s, d)' = OnTheWay(s, d)
  BY DEF Quiet
<1>1. /\ InTime(packet_queue_source[s], {s}, Dests, PacketisationTime)
      /\ nic_queue_source[s] \in Seq(Between({s}, Dests))
      /\ InTime(input_port_queue[s][d], {s}, {d}, PropDelay + SwitchProcDelay)
      /\ InTime(output_port_queue[d], Sources, {d}, SwitchingDelay)
      /\ InTime(nic_queue_dest[d], Sources, {d}, PropDelay)
      /\ InTime(packet_queue_dest[d], Sources, {d}, PacketisationTime)
  BY DEF NetInv, SourceQueues, DestQueues, PortQueues, InTime
<1>2. \A A, B : \A q \in Seq(Between(A, B)) : OfPair(Age(q), s, d) = OfPair(q, s, d)
  BY AgeTyped, OfPairSame
<1>3. /\ packet_queue_source'[s] = Age(packet_queue_source[s])
      /\ nic_queue_source'[s] = Age(nic_queue_source[s])
      /\ input_port_queue'[s][d] = Age(input_port_queue[s][d])
      /\ output_port_queue'[d] = Age(output_port_queue[d])
      /\ nic_queue_dest'[d] = Age(nic_queue_dest[d])
      /\ packet_queue_dest'[d] = Age(packet_queue_dest[d])
  BY DEF Tick
<1>4. /\ OfPair(Age(packet_queue_source[s]), s, d) = OfPair(packet_queue_source[s], s, d)
      /\ OfPair(Age(nic_queue_source[s]), s, d) = OfPair(nic_queue_source[s], s, d)
      /\ OfPair(Age(input_port_queue[s][d]), s, d) = OfPair(input_port_queue[s][d], s, d)
      /\ OfPair(Age(output_port_queue[d]), s, d) = OfPair(output_port_queue[d], s, d)
      /\ OfPair(Age(nic_queue_dest[d]), s, d) = OfPair(nic_queue_dest[d], s, d)
      /\ OfPair(Age(packet_queue_dest[d]), s, d) = OfPair(packet_queue_dest[d], s, d)
  BY <1>1, <1>2 DEF InTime
<1> QED
  BY <1>3, <1>4 DEF OnTheWay

\* What enters behind the last part enters behind the whole.
SixNos(x1, x2, x3, x4, x5, x6) == {x1, x2, x3, x4, x5, x6} \subseteq Nos

LEMMA SixLonger ==
  ASSUME NEW x1, NEW x2, NEW x3, NEW x4, NEW x5, NEW x6,
         SixNos(x1, x2, x3, x4, x5, x6), NEW n \in 1 .. MaxSent
  PROVE  Join(x1, Join(x2, Join(x3, Join(x4, Join(x5, Append(x6, n)))))) =
           Append(Join(x1, Join(x2, Join(x3, Join(x4, Join(x5, x6))))), n)
<1>1. x1 \in Nos /\ x2 \in Nos /\ x3 \in Nos /\ x4 \in Nos /\ x5 \in Nos /\ x6 \in Nos
  BY DEF SixNos
<1>2. \A a, b \in Nos : Join(a, Append(b, n)) = Append(Join(a, b), n)
  <2>1. ASSUME NEW a \in Nos, NEW b \in Nos
        PROVE  Append(a \o b, n) = a \o Append(b, n)
    BY ConcatAppend DEF Nos
  <2> QED
    BY <2>1 DEF Join
<1>3. PICK r5 \in Nos : r5 = Join(x5, x6)
  BY <1>1, Joined
<1>4. PICK r4 \in Nos : r4 = Join(x4, r5)
  BY <1>1, Joined
<1>5. PICK r3 \in Nos : r3 = Join(x3, r4)
  BY <1>1, Joined
<1>6. PICK r2 \in Nos : r2 = Join(x2, r3)
  BY <1>1, Joined
<1>7. Join(x5, Append(x6, n)) = Append(r5, n)
  BY <1>1, <1>2, <1>3
<1>8. Join(x4, Append(r5, n)) = Append(r4, n)
  BY <1>1, <1>2, <1>4
<1>9. Join(x3, Append(r4, n)) = Append(r3, n)
  BY <1>1, <1>2, <1>5
<1>10. Join(x2, Append(r3, n)) = Append(r2, n)
  BY <1>1, <1>2, <1>6
<1>11. Join(x1, Append(r2, n)) = Append(Join(x1, r2), n)
  BY <1>1, <1>2
<1> QED
  BY <1>3, <1>4, <1>5, <1>6, <1>7, <1>8, <1>9, <1>10, <1>11

LEMMA Sends ==
  ASSUME NetInv, NEW s \in Sources, NEW d \in Dests, NEW size \in {1, 2},
         to_trans_layer(s, d, size)
  PROVE  \E n \in 1 .. MaxSent :
           /\ OnTheWay(s, d)' = Append(OnTheWay(s, d), n)
           /\ \A r \in Sources, e \in Dests :
                <<r, e>> # <<s, d>> => OnTheWay(r, e)' = OnTheWay(r, e)
<1>0. PICK p : p = [source |-> s, dest |-> d, no |-> sent[s] + 1, size |-> size,
                    wait |-> PacketisationTime, timer |-> 0]
  OBVIOUS
<1>1. /\ SumSent < MaxSent
      /\ packet_queue_source' = [packet_queue_source EXCEPT ![s] = Append(@, p)]
      /\ UNCHANGED <<nic_queue_source, input_port_queue, output_port_queue,
                     nic_queue_dest, packet_queue_dest>>
  BY <1>0 DEF to_trans_layer
<1>2. sent[s] + 1 \in 1 .. MaxSent
  BY <1>1, SentOne DEF NetInv, RestInv, SumSent
<1>3. p \in Between({s}, Dests) /\ p.no \in 1 .. MaxSent
      /\ \A r, e : OfThem(p, r, e) <=> r = s /\ e = d
  BY <1>0, <1>2, Delays DEF Between, OfThem
<1>4. packet_queue_source \in [Sources -> Seq(Packet)]
      /\ packet_queue_source[s] \in Seq(Between({s}, Dests))
  BY DEF NetInv, SourceQueues, InTime
<1>5. \A r, e : OfPair(Append(packet_queue_source[s], p), r, e) =
                  IF OfThem(p, r, e) THEN Append(OfPair(packet_queue_source[s], r, e), p.no)
                  ELSE OfPair(packet_queue_source[s], r, e)
  BY <1>3, <1>4, OfPairAppend
<1>6. \A r, e : /\ Atpd(r, e)' = Atpd(r, e) /\ Atnd(r, e)' = Atnd(r, e)
                /\ Atop(r, e)' = Atop(r, e) /\ Atip(r, e)' = Atip(r, e)
                /\ Atns(r, e)' = Atns(r, e)
  BY <1>1 DEF Atns, Atip, Atop, Atnd, Atpd
<1>7. ASSUME NEW r \in Sources, NEW e \in Dests, <<r, e>> # <<s, d>>
      PROVE  OnTheWay(r, e)' = OnTheWay(r, e)
  <2>1. Atps(r, e)' = Atps(r, e)
    <3>1. CASE r = s
      <4>1. packet_queue_source'[s] = Append(packet_queue_source[s], p)
        BY <1>1, <1>4
      <4>2. ~ OfThem(p, r, e)
        BY <1>3, <1>7, <3>1
      <4> QED
        BY <1>5, <3>1, <4>1, <4>2 DEF Atps
    <3>2. CASE r # s
      BY <1>1, <1>4, <3>2 DEF Atps
    <3> QED
      BY <3>1, <3>2
  <2>2. OnTheWay(r, e)' = Join(Atpd(r, e)', Join(Atnd(r, e)', Join(Atop(r, e)',
                            Join(Atip(r, e)', Join(Atns(r, e)', Atps(r, e)')))))
    BY WayNext DEF WayInv
  <2>3. OnTheWay(r, e) = Join(Atpd(r, e), Join(Atnd(r, e), Join(Atop(r, e),
                           Join(Atip(r, e), Join(Atns(r, e), Atps(r, e))))))
    BY Way DEF WayInv
  <2> QED
    BY <1>6, <2>1, <2>2, <2>3
<1>8. OnTheWay(s, d)' = Append(OnTheWay(s, d), p.no)
  <2>1. Atps(s, d)' = Append(Atps(s, d), p.no)
    <3>1. packet_queue_source'[s] = Append(packet_queue_source[s], p)
      BY <1>1, <1>4
    <3> QED
      BY <1>3, <1>5, <3>1 DEF Atps
  <2>2. OnTheWay(s, d)' = Join(Atpd(s, d)', Join(Atnd(s, d)', Join(Atop(s, d)',
                            Join(Atip(s, d)', Join(Atns(s, d)', Atps(s, d)')))))
    BY WayNext DEF WayInv
  <2>3. OnTheWay(s, d) = Join(Atpd(s, d), Join(Atnd(s, d), Join(Atop(s, d),
                           Join(Atip(s, d), Join(Atns(s, d), Atps(s, d))))))
    BY Way DEF WayInv
  <2>4. SixNos(Atpd(s, d), Atnd(s, d), Atop(s, d), Atip(s, d), Atns(s, d), Atps(s, d))
    BY PartsTyped DEF PartsInv, SixNos
  <2>5. Join(Atpd(s, d), Join(Atnd(s, d), Join(Atop(s, d), Join(Atip(s, d),
          Join(Atns(s, d), Append(Atps(s, d), p.no)))))) =
        Append(Join(Atpd(s, d), Join(Atnd(s, d), Join(Atop(s, d), Join(Atip(s, d),
          Join(Atns(s, d), Atps(s, d)))))), p.no)
    BY <1>3, <2>4, SixLonger
  <2> QED
    BY <1>6, <2>1, <2>2, <2>3, <2>5
<1> QED
  BY <1>3, <1>7, <1>8

LEMMA Receives ==
  ASSUME NetInv, NEW d \in Dests, Delivers(d)
  PROVE  \E s \in Sources :
           /\ OnTheWay(s, d) # <<>> /\ OnTheWay(s, d)' = Tail(OnTheWay(s, d))
           /\ \A r \in Sources, e \in Dests :
                <<r, e>> # <<s, d>> => OnTheWay(r, e)' = OnTheWay(r, e)
<1>1. /\ packet_queue_dest \in [Dests -> Seq(Packet)]
      /\ InTime(packet_queue_dest[d], Sources, {d}, PacketisationTime)
      /\ packet_queue_dest[d] # <<>>
  BY DEF NetInv, DestQueues, Delivers
<1>2. PICK q \in Seq(Between(Sources, {d})) : q = packet_queue_dest[d]
  BY <1>1 DEF InTime
<1>3. PICK p \in Between(Sources, {d}) : p = Head(q)
  BY <1>1, <1>2
<1>4. p.source \in Sources /\ p.dest = d /\ p.no \in 1 .. MaxSent
  BY DEF Between
<1> DEFINE s == p.source
<1>5. \A r, e : OfPair(q, r, e) = IF OfThem(p, r, e) THEN <<p.no>> \o OfPair(Tail(q), r, e)
                                  ELSE OfPair(Tail(q), r, e)
  BY <1>1, <1>2, <1>3, OfPairTail
<1>6. packet_queue_dest' = [packet_queue_dest EXCEPT ![d] = Tail(q)]
  BY <1>2 DEF Delivers
<1>7. \A r, e : /\ Atnd(r, e)' = Atnd(r, e) /\ Atop(r, e)' = Atop(r, e)
                /\ Atip(r, e)' = Atip(r, e) /\ Atns(r, e)' = Atns(r, e)
                /\ Atps(r, e)' = Atps(r, e)
  BY DEF Delivers, Atps, Atns, Atip, Atop, Atnd
<1>8. ASSUME NEW r \in Sources, NEW e \in Dests, <<r, e>> # <<s, d>>
      PROVE  OnTheWay(r, e)' = OnTheWay(r, e)
  <2>1. Atpd(r, e)' = Atpd(r, e)
    <3>1. CASE e = d
      <4>1. packet_queue_dest'[d] = Tail(q)
        BY <1>1, <1>6
      <4>2. ~ OfThem(p, r, e)
        BY <1>8, <3>1 DEF OfThem
      <4> QED
        BY <1>2, <1>5, <3>1, <4>1, <4>2 DEF Atpd
    <3>2. CASE e # d
      BY <1>1, <1>6, <3>2 DEF Atpd
    <3> QED
      BY <3>1, <3>2
  <2>2. OnTheWay(r, e)' = Join(Atpd(r, e)', Join(Atnd(r, e)', Join(Atop(r, e)',
                            Join(Atip(r, e)', Join(Atns(r, e)', Atps(r, e)')))))
    BY WayNext DEF WayInv
  <2>3. OnTheWay(r, e) = Join(Atpd(r, e), Join(Atnd(r, e), Join(Atop(r, e),
                           Join(Atip(r, e), Join(Atns(r, e), Atps(r, e))))))
    BY Way DEF WayInv
  <2> QED
    BY <1>7, <2>1, <2>2, <2>3
<1>9. OnTheWay(s, d) = <<p.no>> \o OnTheWay(s, d)' /\ OnTheWay(s, d)' \in Nos
  <2>1. Atpd(s, d) = Join(<<p.no>>, Atpd(s, d)') /\ Atpd(s, d)' \in Nos
    <3>1. packet_queue_dest'[d] = Tail(q)
      BY <1>1, <1>6
    <3>2. OfThem(p, s, d)
      BY <1>4 DEF OfThem
    <3>3. Tail(q) \in Seq(Between(Sources, {d}))
      BY <1>1, <1>2
    <3>4. OfPair(Tail(q), s, d) \in Nos
      BY <3>3, OfPairTyped DEF Nos
    <3> QED
      BY <1>2, <1>5, <3>1, <3>2, <3>4 DEF Atpd, Join
  <2>2. PICK r2 \in Nos : r2 = Join(Atnd(s, d), Join(Atop(s, d), Join(Atip(s, d),
                                 Join(Atns(s, d), Atps(s, d)))))
    <3>1. /\ Atnd(s, d) \in Nos /\ Atop(s, d) \in Nos
          /\ Atip(s, d) \in Nos /\ Atns(s, d) \in Nos /\ Atps(s, d) \in Nos
      BY <1>4, PartsTyped DEF PartsInv
    <3> QED
      BY <3>1, Joined
  <2>3. OnTheWay(s, d) = Join(Atpd(s, d), r2)
    BY <2>2, Way DEF WayInv
  <2>4. OnTheWay(s, d)' = Join(Atpd(s, d)', r2)
    BY <1>7, <2>2, WayNext DEF WayInv
  <2>5. <<p.no>> \in Nos
    BY <1>4 DEF Nos
  <2>6. Join(Join(<<p.no>>, Atpd(s, d)'), r2) = Join(<<p.no>>, Join(Atpd(s, d)', r2))
    BY <2>1, <2>5, Joined
  <2>7. Join(Atpd(s, d)', r2) \in Nos
    BY <2>1, Joined
  <2>8. OnTheWay(s, d) = Join(<<p.no>>, OnTheWay(s, d)')
    BY <2>1, <2>3, <2>4, <2>6
  <2> QED
    BY <2>4, <2>7, <2>8 DEF Join
<1>10. OnTheWay(s, d) # <<>> /\ OnTheWay(s, d)' = Tail(OnTheWay(s, d))
  <2>1. ASSUME NEW y \in Nos, NEW x, x = <<p.no>> \o y
        PROVE  x # <<>> /\ Tail(x) = y
    BY <1>4, <2>1 DEF Nos
  <2> QED
    BY <1>9, <2>1
<1> QED
  BY <1>4, <1>8, <1>10

Chan == [s \in Sources |-> [d \in Dests |-> OnTheWay(s, d)]]

LEMMA ChannelsEmpty == Init => Pair!Init
<1> SUFFICES ASSUME Init PROVE Pair!Init
  OBVIOUS
<1>1. ASSUME NEW s \in Sources, NEW d \in Dests
      PROVE  OnTheWay(s, d) = <<>>
  <2>1. /\ packet_queue_dest[d] = <<>> /\ nic_queue_dest[d] = <<>>
        /\ output_port_queue[d] = <<>> /\ input_port_queue[s][d] = <<>>
        /\ nic_queue_source[s] = <<>> /\ packet_queue_source[s] = <<>>
    BY DEF Init
  <2>2. <<>> \o <<>> = <<>>
    OBVIOUS
  <2> QED
    BY <2>1, <2>2, OfPairEmpty DEF OnTheWay
<1>2. Chan = [s \in Sources |-> [d \in Dests |-> <<>>]]
  BY <1>1 DEF Chan
<1> QED
  BY <1>2 DEF Pair!Init, Chan

LEMMA ChannelStep ==
  ASSUME NetInv, [Next]_vars
  PROVE  [Pair!Next]_Chan
<1>1. Chan' = [s \in Sources |-> [d \in Dests |-> OnTheWay(s, d)']]
  BY DEF Chan
<1>2. ASSUME Quiet
      PROVE  Chan' = Chan
  BY <1>1, <1>2 DEF Quiet, Chan
<1>3. ASSUME NEW s \in Sources, NEW d \in Dests, NEW size \in Sizes,
             to_trans_layer(s, d, size)
      PROVE  Pair!Next
  <2>1. size \in {1, 2}
    BY DEF Sizes
  <2>2. PICK n \in 1 .. MaxSent :
          /\ OnTheWay(s, d)' = Append(OnTheWay(s, d), n)
          /\ \A r \in Sources, e \in Dests :
               <<r, e>> # <<s, d>> => OnTheWay(r, e)' = OnTheWay(r, e)
    BY <1>3, <2>1, Sends
  <2>3. Chan' = [Chan EXCEPT ![s][d] = Append(@, n)]
    BY <1>1, <2>2 DEF Chan
  <2>4. Pair!Send(s, d)
    BY <2>3 DEF Pair!Send, Chan
  <2> QED
    BY <2>4 DEF Pair!Next
<1>4. ASSUME NEW d \in Dests, Delivers(d)
      PROVE  Pair!Next
  <2>1. PICK s \in Sources :
           /\ OnTheWay(s, d) # <<>> /\ OnTheWay(s, d)' = Tail(OnTheWay(s, d))
           /\ \A r \in Sources, e \in Dests :
                <<r, e>> # <<s, d>> => OnTheWay(r, e)' = OnTheWay(r, e)
    BY <1>4, Receives
  <2>2. Chan[s][d] # <<>> /\ Chan' = [Chan EXCEPT ![s][d] = Tail(@)]
    BY <1>1, <2>1 DEF Chan
  <2>3. Pair!Receive(s, d)
    BY <2>2 DEF Pair!Receive, Chan
  <2> QED
    BY <2>3 DEF Pair!Next
<1>5. CASE simulate_network
  <2>1. CASE \E d \in Dests : remote_memory_add(d) \/ network_memory_completion(d)
    BY <1>4, <2>1, EitherDelivers
  <2>2. CASE ~ \E d \in Dests : remote_memory_add(d) \/ network_memory_completion(d)
    <3>1. Quiet
      BY <1>5, <2>2, SourceNicQuiet, InputQuiet, SwitchQuiet, DestNicQuiet, CollectorQuiet,
         TickQuiet DEF simulate_network
    <3> QED
      BY <1>2, <3>1
  <2> QED
    BY <2>1, <2>2
<1>6. CASE UNCHANGED vars
  <2>1. Quiet
    BY <1>6 DEF vars, queues, Quiet, OnTheWay
  <2> QED
    BY <1>2, <2>1
<1> QED
  BY <1>3, <1>5, <1>6 DEF Next

\* Whatever the sizes, the delays and the arbitration, packets between a source
\* and a destination are neither lost nor duplicated and arrive in the order they
\* were sent: the network implements a first-in first-out channel for every pair.
THEOREM NetworkIsChannels == Spec => ImplementsChannels
<1>1. NetInv /\ [Next]_vars =>
        [Pair!Next]_([s \in Sources |-> [d \in Dests |-> OnTheWay(s, d)]])
  BY ChannelStep DEF Chan
<1> QED
  BY <1>1, NetAlways, ChannelsEmpty, PTL DEF Spec, ImplementsChannels, Pair!Spec

-------------------------------------------------------------------------------
(***************************************************************************)
(* What can strand a packet.  After its stage has run a queue holds no     *)
(* packet whose cycle is this one, so that none is behind the clock when   *)
(* it ticks; only an output port before a full NIC is an exception.        *)
(***************************************************************************)
WorkOf(p, n1, n2) == p.timer <= IF p.size = 1 THEN n1 ELSE n2

\* No packet's cycle is before "lo", and none is at work longer than it takes.
AtWork(q, lo, n1, n2) ==
  \A i \in DOMAIN q : q[i].wait >= lo /\ WorkOf(q[i], n1, n2)

LEMMA WorkEmpty == \A lo, n1, n2 : AtWork(<<>>, lo, n1, n2)
BY DEF AtWork

LEMMA WorkTail ==
  ASSUME NEW A, NEW B, NEW q \in Seq(Between(A, B)), q # <<>>, NEW lo, NEW n1, NEW n2,
         AtWork(q, lo, n1, n2)
  PROVE  AtWork(Tail(q), lo, n1, n2)
<1>1. /\ DOMAIN q = 1 .. Len(q) /\ Len(q) \in Nat
      /\ DOMAIN Tail(q) = 1 .. Len(q) - 1
      /\ \A i \in 1 .. Len(q) - 1 : Tail(q)[i] = q[i + 1]
  OBVIOUS
<1>2. \A i \in 1 .. Len(q) - 1 : i + 1 \in 1 .. Len(q)
  BY <1>1
<1> QED
  BY <1>1, <1>2 DEF AtWork

LEMMA WorkAppend ==
  ASSUME NEW A, NEW B, NEW q \in Seq(Between(A, B)), NEW e \in Between(A, B),
         NEW lo \in Int, e.wait >= lo, e.timer = 0, NEW n1 \in Nat, NEW n2 \in Nat,
         AtWork(q, lo, n1, n2)
  PROVE  AtWork(Append(q, e), lo, n1, n2)
<1>1. WorkOf(e, n1, n2)
  BY DEF WorkOf
<1>2. /\ DOMAIN q = 1 .. Len(q) /\ Len(q) \in Nat
      /\ DOMAIN Append(q, e) = 1 .. Len(q) + 1 /\ Append(q, e)[Len(q) + 1] = e
      /\ \A i \in 1 .. Len(q) : Append(q, e)[i] = q[i]
  OBVIOUS
<1> QED
  BY <1>1, <1>2 DEF AtWork

LEMMA WorkArrive ==
  ASSUME NEW A, NEW B, NEW q \in Seq(Between(A, B)), NEW p \in Between(A, B),
         NEW w \in Int, NEW lo \in Int, w >= lo, NEW n1 \in Nat, NEW n2 \in Nat,
         AtWork(q, lo, n1, n2)
  PROVE  AtWork(Arrive(q, p, w), lo, n1, n2)
<1>0. PICK e : e = [p EXCEPT !.timer = 0, !.wait = w]
  OBVIOUS
<1>1. e \in Between(A, B) /\ e.wait = w /\ e.timer = 0
  BY <1>0 DEF Between
<1>2. Arrive(q, p, w) = Append(q, e)
  BY <1>0 DEF Arrive
<1>3. AtWork(Append(q, e), lo, n1, n2)
  BY <1>1, WorkAppend
<1> QED
  BY <1>2, <1>3

\* Nothing is due in a queue whose front packet is not.
LEMMA WorkIdle ==
  ASSUME NEW A, NEW B, NEW hi, NEW q, InTime(q, A, B, hi), ~ Ready(q), NEW n1, NEW n2,
         AtWork(q, 0, n1, n2)
  PROVE  AtWork(q, 1, n1, n2)
<1>1. /\ Ordered(q) /\ DOMAIN q = 1 .. Len(q) /\ Len(q) \in Nat
      /\ \A i \in DOMAIN q : q[i].wait \in Int
      /\ q # <<>> => 1 \in DOMAIN q /\ Head(q) = q[1]
  BY PacketsOf, Indices DEF InTime
<1>2. CASE q = <<>>
  BY <1>2, WorkEmpty
<1>3. CASE q # <<>>
  <2>1. q[1].wait >= 1
    BY <1>1, <1>3 DEF Ready, AtWork
  <2>2. ASSUME NEW i \in DOMAIN q
        PROVE  q[i].wait >= 1
    <3>1. CASE i = 1
      BY <2>1, <3>1
    <3>2. CASE i # 1
      <4>1. 1 < i /\ q[1].wait <= q[i].wait
        BY <1>1, <1>3, <3>2 DEF Ordered
      <4> QED
        BY <1>1, <1>3, <2>1, <4>1
    <3> QED
      BY <3>1, <3>2
  <2> QED
    BY <2>2 DEF AtWork
<1> QED
  BY <1>2, <1>3

LEMMA WorkAge ==
  ASSUME NEW A, NEW B, NEW q \in Seq(Between(A, B)), NEW n1, NEW n2, AtWork(q, 1, n1, n2)
  PROVE  AtWork(Age(q), 0, n1, n2)
<1>1. /\ DOMAIN Age(q) = DOMAIN q
      /\ \A i \in DOMAIN q : /\ Age(q)[i].timer = q[i].timer /\ Age(q)[i].size = q[i].size
                             /\ Age(q)[i].wait = IF q[i].wait > LATE THEN q[i].wait - 1
                                                 ELSE LATE
                             /\ q[i].wait \in Int
  BY AgeTyped, PacketsOf DEF SamePackets
<1> QED
  BY <1>1 DEF AtWork, WorkOf, LATE

LEMMA WorkBump ==
  ASSUME NEW A, NEW B, NEW hi, NEW q, InTime(q, A, B, hi), NEW n1, NEW n2,
         AtWork(q, 0, n1, n2)
  PROVE  AtWork(Bump(q), 1, n1, n2)
<1>1. q \in Seq(Between(A, B)) /\ Ordered(q)
  BY DEF InTime
<1>2. /\ DOMAIN Bump(q) = DOMAIN q
      /\ \A i \in DOMAIN q : /\ Bump(q)[i].timer = q[i].timer /\ Bump(q)[i].size = q[i].size
                             /\ i \in Due(q) => Bump(q)[i].wait = 1
                             /\ i \notin Due(q) => Bump(q)[i].wait = q[i].wait
  BY <1>1, BumpTyped DEF SamePackets
<1>3. /\ DOMAIN q = 1 .. Len(q) /\ Len(q) \in Nat /\ \A i \in DOMAIN q : q[i].wait \in Int
  BY <1>1, PacketsOf
<1>4. ASSUME NEW i \in DOMAIN q
      PROVE  Bump(q)[i].wait >= 1 /\ WorkOf(Bump(q)[i], n1, n2)
  <2>1. WorkOf(Bump(q)[i], n1, n2)
    BY <1>2 DEF AtWork, WorkOf
  <2>2. CASE q[i].wait = 0
    <3>1. \A j \in 1 .. i - 1 : q[j].wait <= 0
      <4>1. ASSUME NEW j \in 1 .. i - 1
            PROVE  q[j].wait <= 0
        <5>1. j \in DOMAIN q /\ j < i
          BY <1>3
        <5> QED
          BY <1>1, <2>2, <5>1 DEF Ordered
      <4> QED
        BY <4>1
    <3>2. i \in Due(q)
      BY <2>2, <3>1 DEF Due
    <3> QED
      BY <1>2, <2>1, <3>2
  <2>3. CASE q[i].wait # 0
    <3>1. q[i].wait >= 1
      BY <1>3, <2>3 DEF AtWork
    <3>2. Bump(q)[i].wait = q[i].wait
      BY <1>2, <2>3 DEF Due
    <3> QED
      BY <2>1, <3>1, <3>2
  <2> QED
    BY <2>2, <2>3
<1> QED
  BY <1>2, <1>4 DEF AtWork

LEMMA WorkServed ==
  ASSUME NEW A, NEW B, NEW hi \in Int, NEW q, InTime(q, A, B, hi),
         NEW n1 \in Nat, NEW n2 \in Nat, NEW delay \in Nat,
         q # <<>> => delay = (IF Head(q).size = 1 THEN n1 ELSE n2),
         AtWork(q, 0, n1, n2)
  PROVE  AtWork(Served(q, delay), 1, n1, n2)
<1>1. /\ q \in Seq(Between(A, B)) /\ Ordered(q)
      /\ DOMAIN q = 1 .. Len(q) /\ Len(q) \in Nat
      /\ \A i \in DOMAIN q : q[i].wait \in Int /\ q[i].timer \in Nat /\ q[i].size \in {1, 2}
      /\ q # <<>> => 1 \in DOMAIN q /\ Head(q) = q[1]
  BY PacketsOf, Indices DEF InTime
<1>2. CASE Leaves(q, delay)
  <2>1. q # <<>>
    BY <1>2 DEF Leaves, Ready
  <2>2. InTime(Tail(q), A, B, hi) /\ AtWork(Tail(q), 0, n1, n2)
    BY <1>1, <2>1, TailInTime, WorkTail
  <2>3. AtWork(Bump(Tail(q)), 1, n1, n2)
    BY <2>2, WorkBump
  <2> QED
    BY <1>2, <2>3 DEF Served
<1>3. CASE ~ Leaves(q, delay) /\ Ready(q) /\ Head(q).timer < delay
  <2>1. q # <<>>
    BY <1>3 DEF Ready
  <2>2. PICK r : r = [q EXCEPT ![1].timer = @ + 1]
    OBVIOUS
  <2>3. /\ InTime(r, A, B, hi) /\ SamePackets(q, r)
        /\ \A i \in DOMAIN q : /\ r[i].wait = q[i].wait
                               /\ i # 1 => r[i].timer = q[i].timer
        /\ r[1].timer = q[1].timer + 1
    BY <2>1, <2>2, TimerInTime
  <2>4. AtWork(r, 0, n1, n2)
    <3>1. ASSUME NEW i \in DOMAIN q
          PROVE  r[i].wait >= 0 /\ WorkOf(r[i], n1, n2)
      <4>1. r[i].wait = q[i].wait /\ r[i].size = q[i].size
        BY <2>3 DEF SamePackets
      <4>2. CASE i = 1
        <5>1. r[i].timer = q[1].timer + 1 /\ q[1].timer < delay
              /\ delay = (IF q[1].size = 1 THEN n1 ELSE n2) /\ q[1].timer \in Nat
          BY <1>1, <1>3, <2>1, <2>3, <4>2
        <5>2. WorkOf(r[i], n1, n2)
          BY <4>1, <4>2, <5>1 DEF WorkOf
        <5> QED
          BY <4>1, <5>2 DEF AtWork
      <4>3. CASE i # 1
        BY <2>3, <4>1, <4>3 DEF AtWork, WorkOf
      <4> QED
        BY <4>2, <4>3
    <3> QED
      BY <2>3, <3>1 DEF AtWork, SamePackets
  <2>5. AtWork(Bump(r), 1, n1, n2)
    BY <2>3, <2>4, WorkBump
  <2> QED
    BY <1>3, <2>2, <2>5 DEF Served
<1>4. CASE ~ Leaves(q, delay) /\ ~ (Ready(q) /\ Head(q).timer < delay)
  <2>1. Served(q, delay) = q
    BY <1>4 DEF Served
  <2>2. CASE q = <<>>
    BY <2>1, <2>2, WorkEmpty
  <2>3. CASE q # <<>>
    <3>1. q[1].timer <= delay
      BY <1>1, <2>3 DEF AtWork, WorkOf
    <3>2. ~ Ready(q)
      BY <1>1, <1>4, <2>3, <3>1 DEF Leaves
    <3> QED
      BY <2>1, <3>2, WorkIdle
  <2> QED
    BY <2>2, <2>3
<1> QED
  BY <1>2, <1>3, <1>4

LEMMA WorkLater ==
  ASSUME NEW A, NEW B, NEW q \in Seq(Between(A, B)), NEW n1, NEW n2, AtWork(q, 1, n1, n2)
  PROVE  AtWork(q, 0, n1, n2)
<1>1. \A i \in DOMAIN q : q[i].wait \in Int
  BY PacketsOf
<1> QED
  BY <1>1 DEF AtWork

SourcesAtWork(f, lo, n1, n2) == \A s \in Sources : AtWork(f[s], lo, n1, n2)
DestsAtWork(f, lo, n1, n2) == \A d \in Dests : AtWork(f[d], lo, n1, n2)
PortsAtWork(f, lo) == \A s \in Sources, d \in Dests : AtWork(f[s][d], lo, 0, 0)

\* The earliest cycle in a queue whose stage has not run yet in the stages S.
Lo(S) == IF stage \in S THEN 0 ELSE 1

WorkInv ==
  /\ SourcesAtWork(packet_queue_source, Lo({"nodes"}), NicProcDelay, NicProcDelay)
  /\ SourcesAtWork(nic_queue_source, Lo({"nodes", "nic"}),
                   NicTransDelay(1), NicTransDelay(2))
  /\ PortsAtWork(input_port_queue, Lo({"nodes", "nic", "input"}))
  /\ DestsAtWork(output_port_queue, Lo({"nodes", "nic", "input", "output"}),
                 SwitchTransDelay(1), SwitchTransDelay(2))
  /\ DestsAtWork(nic_queue_dest, Lo({"nodes", "nic", "input", "output", "dest_nic"}),
                 NicProcDelay, NicProcDelay)
  /\ DestsAtWork(packet_queue_dest, 0, 0, 0)

\* When the NIC of a destination takes from its output port, it has room for the
\* packet that is due there.
Room ==
  \A d \in Dests : stage = "output" /\ Ready(output_port_queue[d]) =>
                     NicHasSpace(nic_queue_dest[d], Head(output_port_queue[d]))

LEMMA MoreDelays ==
  /\ NicProcDelay \in Nat
  /\ \A size \in {1, 2} : NicTransDelay(size) \in Nat /\ SwitchTransDelay(size) \in Nat
BY DelaysAssumption

LEMMA WorkInit == Init => WorkInv
<1> SUFFICES ASSUME Init PROVE WorkInv
  OBVIOUS
<1>1. \A lo, n1, n2 : AtWork(<<>>, lo, n1, n2)
  BY WorkEmpty
<1> QED
  BY <1>1 DEF Init, WorkInv, SourcesAtWork, DestsAtWork, PortsAtWork

LEMMA SendWork ==
  ASSUME NetInv, WorkInv, NEW s \in Sources, NEW d \in Dests, NEW size \in {1, 2},
         to_trans_layer(s, d, size)
  PROVE  WorkInv'
<1>0. PICK p : p = [source |-> s, dest |-> d, no |-> sent[s] + 1, size |-> size,
                    wait |-> PacketisationTime, timer |-> 0]
  OBVIOUS
<1>1. /\ SumSent < MaxSent /\ stage = "nodes"
      /\ packet_queue_source' = [packet_queue_source EXCEPT ![s] = Append(@, p)]
      /\ UNCHANGED <<nic_queue_source, input_port_queue, output_port_queue,
                     nic_queue_dest, packet_queue_dest, stage>>
  BY <1>0 DEF to_trans_layer
<1>2. sent[s] + 1 \in 1 .. MaxSent
  BY <1>1, SentOne DEF NetInv, RestInv, SumSent
<1>3. p \in Between({s}, Dests) /\ p.wait >= 0 /\ p.timer = 0
  BY <1>0, <1>2, Delays DEF Between
<1>4. /\ packet_queue_source \in [Sources -> Seq(Packet)]
      /\ packet_queue_source[s] \in Seq(Between({s}, Dests))
  BY DEF NetInv, SourceQueues, InTime
<1>5. \A r \in Sources : AtWork(packet_queue_source[r], 0, NicProcDelay, NicProcDelay)
  BY <1>1 DEF WorkInv, SourcesAtWork, Lo
<1>6. AtWork(Append(packet_queue_source[s], p), 0, NicProcDelay, NicProcDelay)
  <2>1. 0 \in Int
    OBVIOUS
  <2> QED
    BY <1>3, <1>4, <1>5, <2>1, MoreDelays, WorkAppend
<1>7. SourcesAtWork(packet_queue_source', 0, NicProcDelay, NicProcDelay)
  BY <1>1, <1>4, <1>5, <1>6 DEF SourcesAtWork
<1>8. Lo({"nodes"})' = 0
  BY <1>1 DEF Lo
<1> QED
  BY <1>1, <1>7, <1>8 DEF WorkInv, Lo

LEMMA SourceNicWork ==
  ASSUME NetInv, WorkInv, send_to_source_nic_queue
  PROVE  WorkInv'
<1> DEFINE pq(s) == packet_queue_source[s]
           nq(s) == nic_queue_source[s]
           space(s) == pq(s) # <<>> => NicHasSpace(nq(s), Head(pq(s)))
           goes(s)  == space(s) /\ Leaves(pq(s), NicProcDelay)
           a(s) == IF space(s) THEN Served(pq(s), NicProcDelay) ELSE Bump(pq(s))
           b(s) == IF goes(s) THEN Arrive(nq(s), Head(pq(s)), 0) ELSE nq(s)
<1>1. /\ stage = "nodes" /\ stage' = "nic"
      /\ packet_queue_source' = [s \in Sources |-> a(s)]
      /\ nic_queue_source' = [s \in Sources |-> b(s)]
      /\ UNCHANGED <<input_port_queue, output_port_queue, nic_queue_dest,
                     packet_queue_dest>>
  BY DEF send_to_source_nic_queue, Stage
<1>2. /\ NicProcDelay \in Nat /\ NicTransDelay(1) \in Nat /\ NicTransDelay(2) \in Nat
      /\ PacketisationTime \in Int
  BY MoreDelays, Delays
<1>3. ASSUME NEW s \in Sources
      PROVE  /\ AtWork(a(s), 1, NicProcDelay, NicProcDelay)
             /\ AtWork(b(s), 0, NicTransDelay(1), NicTransDelay(2))
  <2>1. InTime(pq(s), {s}, Dests, PacketisationTime) /\ InTime(nq(s), {s}, Dests, 0)
    BY <1>1 DEF NetInv, SourceQueues, NicHi
  <2>2. /\ AtWork(pq(s), 0, NicProcDelay, NicProcDelay)
        /\ AtWork(nq(s), 0, NicTransDelay(1), NicTransDelay(2))
    BY <1>1 DEF WorkInv, SourcesAtWork, Lo
  <2>3. AtWork(Served(pq(s), NicProcDelay), 1, NicProcDelay, NicProcDelay)
    BY <1>2, <2>1, <2>2, WorkServed
  <2>4. AtWork(Bump(pq(s)), 1, NicProcDelay, NicProcDelay)
    BY <2>1, <2>2, WorkBump
  <2>5. AtWork(b(s), 0, NicTransDelay(1), NicTransDelay(2))
    <3>1. CASE goes(s)
      <4>1. Head(pq(s)) \in Between({s}, Dests)
        BY <2>1, <3>1, Front DEF Leaves, Ready
      <4>2. nq(s) \in Seq(Between({s}, Dests)) /\ 0 \in Int /\ 0 >= 0
        BY <2>1 DEF InTime
      <4>3. AtWork(Arrive(nq(s), Head(pq(s)), 0), 0, NicTransDelay(1), NicTransDelay(2))
        <5> HIDE DEF nq, pq
        <5> QED
          BY <1>2, <2>2, <4>1, <4>2, WorkArrive
      <4> QED
        BY <3>1, <4>3
    <3>2. CASE ~ goes(s)
      BY <2>2, <3>2
    <3> QED
      BY <3>1, <3>2
  <2> QED
    BY <2>3, <2>4, <2>5
<1> HIDE DEF a, b
<1>4. /\ SourcesAtWork(packet_queue_source', 1, NicProcDelay, NicProcDelay)
      /\ SourcesAtWork(nic_queue_source', 0, NicTransDelay(1), NicTransDelay(2))
  BY <1>1, <1>3 DEF SourcesAtWork
<1>5. Lo({"nodes"})' = 1 /\ Lo({"nodes", "nic"})' = 0
  BY <1>1 DEF Lo
<1>6. /\ PortsAtWork(input_port_queue, Lo({"nodes", "nic", "input"}))'
      /\ DestsAtWork(output_port_queue, Lo({"nodes", "nic", "input", "output"}),
                     SwitchTransDelay(1), SwitchTransDelay(2))'
      /\ DestsAtWork(nic_queue_dest, Lo({"nodes", "nic", "input", "output", "dest_nic"}),
                     NicProcDelay, NicProcDelay)'
      /\ DestsAtWork(packet_queue_dest, 0, 0, 0)'
  BY <1>1 DEF WorkInv, Lo
<1> QED
  BY <1>4, <1>5, <1>6 DEF WorkInv

LEMMA InputWork ==
  ASSUME NetInv, WorkInv, source_to_switch_input_port
  PROVE  WorkInv'
<1> DEFINE hi == PropDelay + SwitchProcDelay
           nq(s) == nic_queue_source[s]
           iq(s) == input_port_queue[s]
           front(s) == Head(nq(s))
           delay(s) == NicTransDelay(front(s).size)
           space(s) == nq(s) # <<>> => PortHasSpace(s, front(s))
           goes(s)  == nq(s) # <<>> /\ space(s) /\ Leaves(nq(s), delay(s))
           a(s) == IF nq(s) = <<>> THEN <<>>
                   ELSE IF space(s) THEN Served(nq(s), delay(s)) ELSE Bump(nq(s))
           b(s, d) == IF goes(s) /\ front(s).dest = d THEN Arrive(iq(s)[d], front(s), hi)
                      ELSE iq(s)[d]
<1>1. /\ stage = "nic" /\ stage' = "input"
      /\ nic_queue_source' = [s \in Sources |-> a(s)]
      /\ input_port_queue' = [s \in Sources |-> [d \in Dests |-> b(s, d)]]
      /\ UNCHANGED <<packet_queue_source, output_port_queue, nic_queue_dest,
                     packet_queue_dest>>
  BY DEF source_to_switch_input_port, Stage
<1>2. /\ NicTransDelay(1) \in Nat /\ NicTransDelay(2) \in Nat /\ hi \in Int /\ hi >= 0
      /\ 0 \in Nat /\ 0 \in Int
  BY MoreDelays, Delays
<1>3. ASSUME NEW s \in Sources
      PROVE  /\ AtWork(a(s), 1, NicTransDelay(1), NicTransDelay(2))
             /\ \A d \in Dests : AtWork(b(s, d), 0, 0, 0)
  <2>1. InTime(nq(s), {s}, Dests, 0)
    BY <1>1 DEF NetInv, SourceQueues, NicHi
  <2>2. AtWork(nq(s), 0, NicTransDelay(1), NicTransDelay(2))
    BY <1>1 DEF WorkInv, SourcesAtWork, Lo
  <2>3. \A d \in Dests : InTime(iq(s)[d], {s}, {d}, hi) /\ AtWork(iq(s)[d], 0, 0, 0)
    BY <1>1 DEF NetInv, PortQueues, WorkInv, PortsAtWork, Lo
  <2>4. AtWork(a(s), 1, NicTransDelay(1), NicTransDelay(2))
    <3>1. CASE nq(s) = <<>>
      BY <3>1, WorkEmpty
    <3>2. CASE nq(s) # <<>>
      <4>1. front(s).size \in {1, 2}
        BY <2>1, <3>2, Front
      <4>2. /\ delay(s) = IF front(s).size = 1 THEN NicTransDelay(1) ELSE NicTransDelay(2)
            /\ delay(s) \in Nat
        BY <1>2, <4>1
      <4>3. AtWork(Served(nq(s), delay(s)), 1, NicTransDelay(1), NicTransDelay(2))
        <5> HIDE DEF nq, delay
        <5> QED
          BY <1>2, <2>1, <2>2, <4>2, WorkServed DEF front
      <4>4. AtWork(Bump(nq(s)), 1, NicTransDelay(1), NicTransDelay(2))
        BY <2>1, <2>2, WorkBump
      <4> QED
        BY <3>2, <4>3, <4>4
    <3> QED
      BY <3>1, <3>2
  <2>5. ASSUME NEW d \in Dests
        PROVE  AtWork(b(s, d), 0, 0, 0)
    <3>1. CASE goes(s) /\ front(s).dest = d
      <4>1. front(s) \in Between({s}, Dests)
        BY <2>1, <3>1, Front
      <4>2. front(s) \in Between({s}, {d})
        BY <3>1, <4>1 DEF Between
      <4>3. iq(s)[d] \in Seq(Between({s}, {d})) /\ AtWork(iq(s)[d], 0, 0, 0)
        BY <2>3 DEF InTime
      <4>4. AtWork(Arrive(iq(s)[d], front(s), hi), 0, 0, 0)
        <5> HIDE DEF iq, front, hi
        <5> QED
          BY <1>2, <4>2, <4>3, WorkArrive
      <4> QED
        BY <3>1, <4>4
    <3>2. CASE ~ (goes(s) /\ front(s).dest = d)
      BY <2>3, <3>2
    <3> QED
      BY <3>1, <3>2
  <2> QED
    BY <2>4, <2>5
<1> HIDE DEF a, b
<1>4. /\ SourcesAtWork(nic_queue_source', 1, NicTransDelay(1), NicTransDelay(2))
      /\ PortsAtWork(input_port_queue', 0)
  BY <1>1, <1>3 DEF SourcesAtWork, PortsAtWork
<1>5. Lo({"nodes", "nic"})' = 1 /\ Lo({"nodes", "nic", "input"})' = 0
  BY <1>1 DEF Lo
<1>6. /\ SourcesAtWork(packet_queue_source, Lo({"nodes"}), NicProcDelay, NicProcDelay)'
      /\ DestsAtWork(output_port_queue, Lo({"nodes", "nic", "input", "output"}),
                     SwitchTransDelay(1), SwitchTransDelay(2))'
      /\ DestsAtWork(nic_queue_dest, Lo({"nodes", "nic", "input", "output", "dest_nic"}),
                     NicProcDelay, NicProcDelay)'
      /\ DestsAtWork(packet_queue_dest, 0, 0, 0)'
  BY <1>1 DEF WorkInv, Lo
<1> QED
  BY <1>4, <1>5, <1>6 DEF WorkInv

LEMMA SwitchWork ==
  ASSUME NetInv, WorkInv, switch_input_port_to_output_port
  PROVE  WorkInv'
<1> DEFINE hi == PropDelay + SwitchProcDelay
           iq(s) == input_port_queue[s]
           oq(d) == output_port_queue[d]
<1>1. arbitrator \in Sources /\ vq_arbitrator_input_queue \in [Sources -> Dests]
  BY DEF NetInv, RestInv
<1>2. PICK t \in Turns :
        LET from(d) == CHOOSE s \in Sources : <<s, d>> \in t.granted
        IN  /\ Stage("input", "output")
            /\ input_port_queue' =
                 [s \in Sources |->
                    [d \in Dests |-> Bump(IF <<s, d>> \in t.granted
                                          THEN Tail(input_port_queue[s][d])
                                          ELSE input_port_queue[s][d])]]
            /\ output_port_queue' =
                 [d \in Dests |-> IF \E s \in Sources : <<s, d>> \in t.granted
                                  THEN Arrive(output_port_queue[d],
                                              Head(input_port_queue[from(d)][d]),
                                              SwitchingDelay)
                                  ELSE output_port_queue[d]]
            /\ UNCHANGED <<packet_queue_source, nic_queue_source, nic_queue_dest,
                           packet_queue_dest>>
  BY DEF switch_input_port_to_output_port
<1> DEFINE from(d) == CHOOSE s \in Sources : <<s, d>> \in t.granted
           a(s, d) == Bump(IF <<s, d>> \in t.granted THEN Tail(iq(s)[d]) ELSE iq(s)[d])
           b(d) == IF \E s \in Sources : <<s, d>> \in t.granted
                   THEN Arrive(oq(d), Head(iq(from(d))[d]), SwitchingDelay)
                   ELSE oq(d)
<1>3. /\ stage = "input" /\ stage' = "output"
      /\ input_port_queue' = [s \in Sources |-> [d \in Dests |-> a(s, d)]]
      /\ output_port_queue' = [d \in Dests |-> b(d)]
      /\ UNCHANGED <<packet_queue_source, nic_queue_source, nic_queue_dest,
                     packet_queue_dest>>
  BY <1>2 DEF Stage
<1>4. TurnInv(t)
  BY <1>1, TurnsSound
<1>5. \A s \in Sources, d \in Dests : <<s, d>> \in t.granted => Ready(iq(s)[d])
  BY <1>4 DEF TurnInv
<1>6. /\ hi \in Int /\ SwitchingDelay \in Int /\ SwitchingDelay >= 0 /\ 0 \in Int
      /\ SwitchTransDelay(1) \in Nat /\ SwitchTransDelay(2) \in Nat
  BY MoreDelays, Delays
<1>7. \A s \in Sources, d \in Dests :
        InTime(iq(s)[d], {s}, {d}, hi) /\ AtWork(iq(s)[d], 0, 0, 0)
  BY <1>3 DEF NetInv, PortQueues, WorkInv, PortsAtWork, Lo
<1>8. ASSUME NEW s \in Sources, NEW d \in Dests
      PROVE  AtWork(a(s, d), 1, 0, 0)
  <2>1. InTime(iq(s)[d], {s}, {d}, hi) /\ AtWork(iq(s)[d], 0, 0, 0)
    BY <1>7
  <2>2. CASE <<s, d>> \in t.granted
    <3>1. iq(s)[d] # <<>> /\ a(s, d) = Bump(Tail(iq(s)[d]))
      BY <1>5, <2>2 DEF Ready
    <3> HIDE DEF a, iq, hi
    <3>2. InTime(Tail(iq(s)[d]), {s}, {d}, hi) /\ AtWork(Tail(iq(s)[d]), 0, 0, 0)
      BY <1>6, <2>1, <3>1, TailInTime, WorkTail DEF InTime
    <3> QED
      BY <3>1, <3>2, WorkBump
  <2>3. CASE <<s, d>> \notin t.granted
    <3>1. a(s, d) = Bump(iq(s)[d])
      BY <2>3
    <3> HIDE DEF a, iq, hi
    <3> QED
      BY <2>1, <3>1, WorkBump
  <2> QED
    BY <2>2, <2>3
<1>9. ASSUME NEW d \in Dests
      PROVE  AtWork(b(d), 0, SwitchTransDelay(1), SwitchTransDelay(2))
  <2>1. /\ oq(d) \in Seq(Between(Sources, {d}))
        /\ AtWork(oq(d), 0, SwitchTransDelay(1), SwitchTransDelay(2))
    BY <1>3 DEF NetInv, DestQueues, InTime, WorkInv, DestsAtWork, Lo
  <2>2. CASE \E s \in Sources : <<s, d>> \in t.granted
    <3> DEFINE p == Head(iq(from(d))[d])
    <3>1. from(d) \in Sources /\ <<from(d), d>> \in t.granted
      BY <2>2
    <3> HIDE DEF from
    <3>2. InTime(iq(from(d))[d], {from(d)}, {d}, hi) /\ iq(from(d))[d] # <<>>
      BY <1>5, <1>7, <3>1 DEF Ready
    <3>3. p \in Between({from(d)}, {d})
      <4> HIDE DEF iq
      <4> QED
        BY <3>2, Front
    <3> HIDE DEF p
    <3>4. p \in Between(Sources, {d})
      BY <3>1, <3>3 DEF Between
    <3>5. AtWork(Arrive(oq(d), p, SwitchingDelay), 0, SwitchTransDelay(1), SwitchTransDelay(2))
      BY <1>6, <2>1, <3>4, WorkArrive
    <3> QED
      BY <2>2, <3>5 DEF p
  <2>3. CASE ~ \E s \in Sources : <<s, d>> \in t.granted
    BY <2>1, <2>3
  <2> QED
    BY <2>2, <2>3
<1> HIDE DEF a, b
<1>10. /\ PortsAtWork(input_port_queue', 1)
       /\ DestsAtWork(output_port_queue', 0, SwitchTransDelay(1), SwitchTransDelay(2))
  BY <1>3, <1>8, <1>9 DEF PortsAtWork, DestsAtWork
<1>11. /\ Lo({"nodes", "nic", "input"})' = 1
       /\ Lo({"nodes", "nic", "input", "output"})' = 0
  BY <1>3 DEF Lo
<1>12. /\ SourcesAtWork(packet_queue_source, Lo({"nodes"}), NicProcDelay, NicProcDelay)'
       /\ SourcesAtWork(nic_queue_source, Lo({"nodes", "nic"}),
                        NicTransDelay(1), NicTransDelay(2))'
       /\ DestsAtWork(nic_queue_dest, Lo({"nodes", "nic", "input", "output", "dest_nic"}),
                      NicProcDelay, NicProcDelay)'
       /\ DestsAtWork(packet_queue_dest, 0, 0, 0)'
  BY <1>3 DEF WorkInv, Lo
<1> QED
  BY <1>10, <1>11, <1>12 DEF WorkInv

LEMMA DestNicWork ==
  ASSUME NetInv, WorkInv, Room, switch_to_dest_nic_queue
  PROVE  WorkInv'
<1> DEFINE oq(d) == output_port_queue[d]
           nq(d) == nic_queue_dest[d]
           front(d) == Head(oq(d))
           delay(d) == SwitchTransDelay(front(d).size)
           space(d) == oq(d) # <<>> /\ NicHasSpace(nq(d), front(d))
           a(d) == IF space(d) THEN Served(oq(d), delay(d)) ELSE oq(d)
           b(d) == IF space(d) /\ Leaves(oq(d), delay(d))
                   THEN Arrive(nq(d), front(d), PropDelay) ELSE nq(d)
<1>1. /\ stage = "output" /\ stage' = "dest_nic"
      /\ output_port_queue' = [d \in Dests |-> a(d)]
      /\ nic_queue_dest' = [d \in Dests |-> b(d)]
      /\ UNCHANGED <<packet_queue_source, nic_queue_source, input_port_queue,
                     packet_queue_dest>>
  BY DEF switch_to_dest_nic_queue, Stage
<1>2. /\ SwitchTransDelay(1) \in Nat /\ SwitchTransDelay(2) \in Nat /\ NicProcDelay \in Nat
      /\ SwitchingDelay \in Int /\ PropDelay \in Int /\ PropDelay >= 0 /\ 0 \in Int
  BY MoreDelays, Delays
<1>3. ASSUME NEW d \in Dests
      PROVE  /\ AtWork(a(d), 1, SwitchTransDelay(1), SwitchTransDelay(2))
             /\ AtWork(b(d), 0, NicProcDelay, NicProcDelay)
  <2>1. InTime(oq(d), Sources, {d}, SwitchingDelay) /\ InTime(nq(d), Sources, {d}, PropDelay)
    BY DEF NetInv, DestQueues
  <2>2. /\ AtWork(oq(d), 0, SwitchTransDelay(1), SwitchTransDelay(2))
        /\ AtWork(nq(d), 0, NicProcDelay, NicProcDelay)
    BY <1>1 DEF WorkInv, DestsAtWork, Lo
  <2>3. CASE space(d)
    <3>1. front(d) \in Between(Sources, {d}) /\ front(d).size \in {1, 2}
      BY <2>1, <2>3, Front
    <3>2. /\ delay(d) = IF front(d).size = 1 THEN SwitchTransDelay(1)
                        ELSE SwitchTransDelay(2)
          /\ delay(d) \in Nat
      BY <1>2, <3>1
    <3>3. AtWork(Served(oq(d), delay(d)), 1, SwitchTransDelay(1), SwitchTransDelay(2))
      <4> HIDE DEF oq, delay
      <4> QED
        BY <1>2, <2>1, <2>2, <3>2, WorkServed DEF front
    <3>4. AtWork(Arrive(nq(d), front(d), PropDelay), 0, NicProcDelay, NicProcDelay)
      <4>1. nq(d) \in Seq(Between(Sources, {d}))
        BY <2>1 DEF InTime
      <4> HIDE DEF nq, front
      <4> QED
        BY <1>2, <2>2, <3>1, <4>1, WorkArrive
    <3> QED
      BY <2>2, <2>3, <3>3, <3>4
  <2>4. CASE ~ space(d)
    <3>1. ~ Ready(oq(d))
      BY <1>1, <2>4 DEF Room, Ready
    <3>2. AtWork(oq(d), 1, SwitchTransDelay(1), SwitchTransDelay(2))
      BY <2>1, <2>2, <3>1, WorkIdle
    <3> QED
      BY <2>2, <2>4, <3>2
  <2> QED
    BY <2>3, <2>4
<1> HIDE DEF a, b
<1>4. /\ DestsAtWork(output_port_queue', 1, SwitchTransDelay(1), SwitchTransDelay(2))
      /\ DestsAtWork(nic_queue_dest', 0, NicProcDelay, NicProcDelay)
  BY <1>1, <1>3 DEF DestsAtWork
<1>5. /\ Lo({"nodes", "nic", "input", "output"})' = 1
      /\ Lo({"nodes", "nic", "input", "output", "dest_nic"})' = 0
  BY <1>1 DEF Lo
<1>6. /\ SourcesAtWork(packet_queue_source, Lo({"nodes"}), NicProcDelay, NicProcDelay)'
      /\ SourcesAtWork(nic_queue_source, Lo({"nodes", "nic"}),
                       NicTransDelay(1), NicTransDelay(2))'
      /\ PortsAtWork(input_port_queue, Lo({"nodes", "nic", "input"}))'
      /\ DestsAtWork(packet_queue_dest, 0, 0, 0)'
  BY <1>1 DEF WorkInv, Lo
<1> QED
  BY <1>4, <1>5, <1>6 DEF WorkInv

LEMMA CollectorWork ==
  ASSUME NetInv, WorkInv, send_to_dest_collector_queue
  PROVE  WorkInv'
<1> DEFINE nq(d) == nic_queue_dest[d]
           pq(d) == packet_queue_dest[d]
           a(d) == Served(nq(d), NicProcDelay)
           b(d) == IF Leaves(nq(d), NicProcDelay)
                   THEN Arrive(pq(d), Head(nq(d)), PacketisationTime) ELSE pq(d)
<1>1. /\ stage = "dest_nic" /\ stage' = "deliver"
      /\ nic_queue_dest' = [d \in Dests |-> a(d)]
      /\ packet_queue_dest' = [d \in Dests |-> b(d)]
      /\ UNCHANGED <<packet_queue_source, nic_queue_source, input_port_queue,
                     output_port_queue>>
  BY DEF send_to_dest_collector_queue, Stage
<1>2. /\ NicProcDelay \in Nat /\ PropDelay \in Int /\ 0 \in Int /\ 0 \in Nat
      /\ PacketisationTime \in Int /\ PacketisationTime >= 0
  BY MoreDelays, Delays
<1>3. ASSUME NEW d \in Dests
      PROVE  AtWork(a(d), 1, NicProcDelay, NicProcDelay) /\ AtWork(b(d), 0, 0, 0)
  <2>1. /\ InTime(nq(d), Sources, {d}, PropDelay)
        /\ pq(d) \in Seq(Between(Sources, {d}))
    BY DEF NetInv, DestQueues, InTime
  <2>2. AtWork(nq(d), 0, NicProcDelay, NicProcDelay) /\ AtWork(pq(d), 0, 0, 0)
    BY <1>1 DEF WorkInv, DestsAtWork, Lo
  <2>3. AtWork(a(d), 1, NicProcDelay, NicProcDelay)
    BY <1>2, <2>1, <2>2, WorkServed
  <2>4. CASE Leaves(nq(d), NicProcDelay)
    <3>1. Head(nq(d)) \in Between(Sources, {d})
      BY <2>1, <2>4, Front DEF Leaves, Ready
    <3>2. AtWork(Arrive(pq(d), Head(nq(d)), PacketisationTime), 0, 0, 0)
      <4> HIDE DEF nq, pq
      <4> QED
        BY <1>2, <2>1, <2>2, <3>1, WorkArrive
    <3> QED
      BY <2>3, <2>4, <3>2
  <2>5. CASE ~ Leaves(nq(d), NicProcDelay)
    BY <2>2, <2>3, <2>5
  <2> QED
    BY <2>4, <2>5
<1> HIDE DEF a, b
<1>4. /\ DestsAtWork(nic_queue_dest', 1, NicProcDelay, NicProcDelay)
      /\ DestsAtWork(packet_queue_dest', 0, 0, 0)
  BY <1>1, <1>3 DEF DestsAtWork
<1>5. Lo({"nodes", "nic", "input", "output", "dest_nic"})' = 1
  BY <1>1 DEF Lo
<1>6. /\ SourcesAtWork(packet_queue_source, Lo({"nodes"}), NicProcDelay, NicProcDelay)'
      /\ SourcesAtWork(nic_queue_source, Lo({"nodes", "nic"}),
                       NicTransDelay(1), NicTransDelay(2))'
      /\ PortsAtWork(input_port_queue, Lo({"nodes", "nic", "input"}))'
      /\ DestsAtWork(output_port_queue, Lo({"nodes", "nic", "input", "output"}),
                     SwitchTransDelay(1), SwitchTransDelay(2))'
  BY <1>1 DEF WorkInv, Lo
<1> QED
  BY <1>4, <1>5, <1>6 DEF WorkInv

LEMMA DeliverWork ==
  ASSUME NetInv, WorkInv, NEW d \in Dests, Delivers(d)
  PROVE  WorkInv'
<1>1. /\ packet_queue_dest \in [Dests -> Seq(Packet)]
      /\ packet_queue_dest[d] \in Seq(Between(Sources, {d}))
      /\ packet_queue_dest[d] # <<>>
      /\ \A e \in Dests : AtWork(packet_queue_dest[e], 0, 0, 0)
  BY DEF NetInv, DestQueues, InTime, WorkInv, DestsAtWork, Delivers
<1>2. AtWork(Tail(packet_queue_dest[d]), 0, 0, 0)
  BY <1>1, WorkTail
<1>3. DestsAtWork(packet_queue_dest', 0, 0, 0)
  BY <1>1, <1>2 DEF DestsAtWork, Delivers
<1> QED
  BY <1>3 DEF Delivers, WorkInv, Lo

LEMMA TickWork ==
  ASSUME NetInv, WorkInv, Tick
  PROVE  WorkInv'
<1>1. /\ stage = "deliver" /\ stage' = "nodes"
      /\ \A d \in Dests : ~ Deliverable(d)
      /\ packet_queue_source' = [s \in Sources |-> Age(packet_queue_source[s])]
      /\ nic_queue_source' = [s \in Sources |-> Age(nic_queue_source[s])]
      /\ input_port_queue' = [s \in Sources |-> [d \in Dests |-> Age(input_port_queue[s][d])]]
      /\ output_port_queue' = [d \in Dests |-> Age(output_port_queue[d])]
      /\ nic_queue_dest' = [d \in Dests |-> Age(nic_queue_dest[d])]
      /\ packet_queue_dest' = [d \in Dests |-> Age(packet_queue_dest[d])]
  BY DEF Tick, Stage
<1>2. \A S : stage \notin S => Lo(S) = 1
  BY DEF Lo
<1>3. \A f, n1, n2, hi : SourceQueues(f, hi) /\ SourcesAtWork(f, 1, n1, n2)
        => SourcesAtWork([s \in Sources |-> Age(f[s])], 0, n1, n2)
  BY WorkAge DEF SourceQueues, InTime, SourcesAtWork
<1>4. \A f, n1, n2, hi : DestQueues(f, hi) /\ DestsAtWork(f, 1, n1, n2)
        => DestsAtWork([d \in Dests |-> Age(f[d])], 0, n1, n2)
  BY WorkAge DEF DestQueues, InTime, DestsAtWork
<1>5. \A d \in Dests : AtWork(packet_queue_dest[d], 1, 0, 0)
  <2>1. ASSUME NEW d \in Dests
        PROVE  AtWork(packet_queue_dest[d], 1, 0, 0)
    <3>1. InTime(packet_queue_dest[d], Sources, {d}, PacketisationTime)
      BY DEF NetInv, DestQueues
    <3>2. AtWork(packet_queue_dest[d], 0, 0, 0) /\ ~ Ready(packet_queue_dest[d])
      BY <1>1 DEF WorkInv, DestsAtWork, Deliverable
    <3> QED
      BY <3>1, <3>2, WorkIdle
  <2> QED
    BY <2>1
<1>6. /\ SourcesAtWork(packet_queue_source', 0, NicProcDelay, NicProcDelay)
      /\ SourcesAtWork(nic_queue_source', 0, NicTransDelay(1), NicTransDelay(2))
  <2>1. /\ SourcesAtWork(packet_queue_source, 1, NicProcDelay, NicProcDelay)
        /\ SourcesAtWork(nic_queue_source, 1, NicTransDelay(1), NicTransDelay(2))
    BY <1>1, <1>2 DEF WorkInv
  <2>2. /\ SourceQueues(packet_queue_source, PacketisationTime)
        /\ SourceQueues(nic_queue_source, NicHi(stage))
    BY DEF NetInv
  <2> QED
    BY <1>1, <1>3, <2>1, <2>2
<1>7. PortsAtWork(input_port_queue', 0)
  <2>1. ASSUME NEW s \in Sources, NEW d \in Dests
        PROVE  AtWork(Age(input_port_queue[s][d]), 0, 0, 0)
    <3>1. /\ input_port_queue[s][d] \in Seq(Between({s}, {d}))
          /\ AtWork(input_port_queue[s][d], 1, 0, 0)
      BY <1>1, <1>2 DEF NetInv, PortQueues, InTime, WorkInv, PortsAtWork
    <3> QED
      BY <3>1, WorkAge
  <2> QED
    BY <1>1, <2>1 DEF PortsAtWork
<1>8. /\ DestsAtWork(output_port_queue', 0, SwitchTransDelay(1), SwitchTransDelay(2))
      /\ DestsAtWork(nic_queue_dest', 0, NicProcDelay, NicProcDelay)
      /\ DestsAtWork(packet_queue_dest', 0, 0, 0)
  <2>1. /\ DestsAtWork(output_port_queue, 1, SwitchTransDelay(1), SwitchTransDelay(2))
        /\ DestsAtWork(nic_queue_dest, 1, NicProcDelay, NicProcDelay)
        /\ DestsAtWork(packet_queue_dest, 1, 0, 0)
    BY <1>1, <1>2, <1>5 DEF WorkInv, DestsAtWork
  <2>2. /\ DestQueues(output_port_queue, SwitchingDelay)
        /\ DestQueues(nic_queue_dest, PropDelay)
        /\ DestQueues(packet_queue_dest, PacketisationTime)
    BY DEF NetInv
  <2> QED
    BY <1>1, <1>4, <2>1, <2>2
<1>9. \A S : "nodes" \in S => Lo(S)' = 0
  BY <1>1 DEF Lo
<1> QED
  BY <1>6, <1>7, <1>8, <1>9 DEF WorkInv, Lo

LEMMA WorkNext ==
  NetInv /\ WorkInv /\ Room /\ [Next]_vars => WorkInv'
<1> SUFFICES ASSUME NetInv, WorkInv, Room, [Next]_vars PROVE WorkInv'
  OBVIOUS
<1>1. ASSUME NEW s \in Sources, NEW d \in Dests, NEW size \in Sizes,
             to_trans_layer(s, d, size)
      PROVE  WorkInv'
  <2>1. size \in {1, 2}
    BY DEF Sizes
  <2> QED
    BY <1>1, <2>1, SendWork
<1>2. CASE simulate_network
  <2>1. CASE \E d \in Dests : remote_memory_add(d) \/ network_memory_completion(d)
    BY <2>1, EitherDelivers, DeliverWork
  <2> QED
    BY <1>2, <2>1, SourceNicWork, InputWork, SwitchWork, DestNicWork, CollectorWork,
       TickWork DEF simulate_network
<1>3. CASE UNCHANGED vars
  BY <1>3 DEF vars, queues, WorkInv, Lo
<1> QED
  BY <1>1, <1>2, <1>3 DEF Next

LEMMA NoneLeft == NetInv /\ WorkInv => NoPacketLeftBehind
<1> SUFFICES ASSUME NetInv, WorkInv, NEW q \in AllQueues, NEW i \in DOMAIN q
             PROVE  q[i].wait >= 0
  BY DEF NoPacketLeftBehind
<1>1. \A S : Lo(S) \in {0, 1}
  BY DEF Lo
<1>2. ASSUME NEW lo \in {0, 1}, NEW n1, NEW n2, q \in Seq(Packet), AtWork(q, lo, n1, n2)
      PROVE  q[i].wait >= 0
  <2>1. q[i] \in Packet /\ q[i].wait >= lo
    BY <1>2 DEF AtWork
  <2> QED
    BY <2>1 DEF Packet
<1>3. CASE \E s \in Sources : q = packet_queue_source[s] \/ q = nic_queue_source[s]
  BY <1>1, <1>2, <1>3 DEF NetInv, SourceQueues, WorkInv, SourcesAtWork
<1>4. CASE \E s \in Sources, d \in Dests : q = input_port_queue[s][d]
  BY <1>1, <1>2, <1>4 DEF NetInv, PortQueues, WorkInv, PortsAtWork
<1>5. CASE \E d \in Dests : q = output_port_queue[d] \/ q = nic_queue_dest[d]
  BY <1>1, <1>2, <1>5 DEF NetInv, DestQueues, WorkInv, DestsAtWork
<1>6. CASE \E d \in Dests : q = packet_queue_dest[d]
  BY <1>2, <1>6 DEF NetInv, DestQueues, WorkInv, DestsAtWork
<1> QED
  BY <1>3, <1>4, <1>5, <1>6 DEF AllQueues

\* Only a destination's NIC without room strands a packet: as long as the NIC has
\* room whenever the packet at the front of its output port is due, no packet's
\* cycle is ever behind the clock, whatever the sizes, the delays and the traffic.
\* (Without that room one may be: switch_to_dest_nic_queue raises no cycle.)
THEOREM OnlyAFullNicStrands == Spec /\ []Room => []NoPacketLeftBehind
<1>1. NetInv /\ WorkInv /\ Room /\ [Next]_vars => WorkInv'
  BY WorkNext
<1> QED
  BY <1>1, NetAlways, WorkInit, NoneLeft, PTL DEF Spec

===============================================================================
