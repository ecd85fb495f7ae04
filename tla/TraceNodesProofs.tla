--------------------------- MODULE TraceNodesProofs ---------------------------
(***************************************************************************)
(* Theorems about TraceNodes, for every number of nodes and pools and      *)
(* whatever the traces: what the barrier is there for (ThreadsInStep), and *)
(* where pages are placed (ChunksInTurn).                                  *)
(*                                                                         *)
(* As long as the traces end together all threads are in the same phase:   *)
(* before the first barrier of a cycle, between the first and the second,  *)
(* behind the second, on the way out of the loop, or in the second loop.   *)
(***************************************************************************)
EXTENDS TraceNodes, FiniteSetTheorems, SequenceTheorems, TLAPS

LEMMA NodeZero == 0 \in Nodes
BY TraceNodesAssumption DEF Nodes

LEMMA Numbers == /\ max_cycle_num \in Nat /\ extra_cycles \in Nat
                 /\ freq_ratio \in Nat \ {0}
BY TraceNodesAssumption

-------------------------------------------------------------------------------
(***************************************************************************)
(* The inductive invariant.                                                *)
(***************************************************************************)
Pcs == {"test", "issue", "update", "pools", "tick", "leave", "drain", "left",
        "pool_error"} \union Waits

Types ==
  /\ pc \in [Nodes -> Pcs] /\ common_clock \in Nat
  /\ trace \in [Nodes -> Traces] /\ temp \in [Nodes -> Nat]
  /\ eof \in [Nodes -> BOOLEAN] /\ trace_complete \in [Nodes -> BOOLEAN]
  /\ end_cycle \in [Nodes -> Int]
  /\ updates \in [Nodes -> Nat] /\ pool_updates \in Nat

\* Where a thread is in its trace: eof shows only on the last record.
Reading(n) ==
  /\ temp[n] \in 1 .. Len(trace[n])
  /\ eof[n] => temp[n] = Len(trace[n])

EndOf(n) == trace[n][Len(trace[n])].cycle

Ahead(n)  == ~ trace_complete[n] => Record(n).cycle >= common_clock
Beyond(n) == ~ trace_complete[n] => Record(n).cycle > common_clock

Starting(n) ==
  /\ pc[n] \in {"test", "wait1"} /\ ~ Draining(n)
  /\ ~ trace_complete[n] /\ Ahead(n)
  /\ common_clock < LastCycle(n)

Issuing(n) ==
  /\ pc[n] \in {"issue", "wait2", "pool_error"} /\ ~ Draining(n)
  /\ common_clock < LastCycle(n)
  /\ trace_complete[n] => common_clock = EndOf(n)
  /\ Ahead(n)
  /\ pc[n] = "wait2" => Beyond(n)

\* Thread 0 moves the clock on its way to the third barrier.
Ticked == pc[0] = "wait3"

Clocking(n) ==
  /\ pc[n] \in {"update", "wait3"} \/ (n = 0 /\ pc[n] \in {"pools", "tick"})
  /\ ~ Draining(n)
  /\ IF Ticked
     THEN /\ common_clock <= LastCycle(n) /\ Ahead(n)
          /\ trace_complete[n] => common_clock = EndOf(n) + 1
     ELSE /\ common_clock < LastCycle(n) /\ Beyond(n)
          /\ trace_complete[n] => common_clock = EndOf(n)

Leaving(n) ==
  /\ \/ pc[n] \in {"test", "leave"} /\ ~ Draining(n) /\ Ahead(n)
     \/ pc[n] \in {"drain", "drain1", "left"} /\ Draining(n)
  /\ common_clock >= LastCycle(n)
  /\ trace_complete[n] \/ common_clock >= max_cycle_num

InSecondLoop(n) ==
  /\ pc[n] \in {"drain", "drain1", "drain2", "update", "pools", "tick", "left"}
  /\ Draining(n)

Phases ==
  \/ \A n \in Nodes : Starting(n)
  \/ \A n \in Nodes : Issuing(n)
  \/ \A n \in Nodes : Clocking(n)
  \/ \A n \in Nodes : Leaving(n)
  \/ \A n \in Nodes : InSecondLoop(n)

ClockedOnce ==
  /\ updates[0] =
       DueBefore(common_clock + IF pc[0] \in {"pools", "tick"} THEN 1 ELSE 0)
  /\ pool_updates = DueBefore(common_clock + IF pc[0] = "tick" THEN 1 ELSE 0)

Steps ==
  /\ Types /\ \A n \in Nodes : Reading(n)
  /\ Together => Phases
  /\ ClockedOnce

-------------------------------------------------------------------------------
(***************************************************************************)
(* Facts about traces and about counting cycles.                           *)
(***************************************************************************)
LEMMA TraceFacts ==
  ASSUME Types, NEW n \in Nodes
  PROVE  /\ Len(trace[n]) \in Nat \ {0} /\ EndOf(n) \in Nat
         /\ \A i \in 1 .. Len(trace[n]) :
              trace[n][i].cycle \in Nat /\ trace[n][i].cycle <= EndOf(n)
         /\ \A i, j \in 1 .. Len(trace[n]) :
              i <= j => trace[n][i].cycle <= trace[n][j].cycle
<1>1. trace[n] \in Traces
  BY DEF Types
<1>2. /\ trace[n] \in Seq([cycle : Nat, page : VPages]) /\ trace[n] # <<>>
      /\ \A i, j \in 1 .. Len(trace[n]) :
           i <= j => trace[n][i].cycle <= trace[n][j].cycle
  BY <1>1, TraceNodesAssumption
<1>3. Len(trace[n]) \in Nat \ {0}
  BY <1>2
<1>4. \A i \in 1 .. Len(trace[n]) : trace[n][i] \in [cycle : Nat, page : VPages]
  BY <1>2, ElementOfSeq
<1> QED
  BY <1>2, <1>3, <1>4 DEF EndOf

LEMMA LastCycleIs ==
  ASSUME Types, NEW n \in Nodes
  PROVE  /\ LastCycle(n) \in Nat
         /\ LastCycle(n) <= EndOf(n) + 1 /\ LastCycle(n) <= max_cycle_num
         /\ LastCycle(n) \in {EndOf(n) + 1, max_cycle_num}
BY TraceFacts, TraceNodesAssumption DEF LastCycle, EndOf

\* One more cycle, clocked or not.
LEMMA OneMoreCycle ==
  ASSUME NEW k \in Nat
  PROVE  /\ DueBefore(k) \in Nat
         /\ DueBefore(k + 1) =
              DueBefore(k) + (IF k % freq_ratio = freq_ratio - 1 THEN 1 ELSE 0)
<1> DEFINE Due_(m) == {c \in 0 .. m - 1 : c % freq_ratio = freq_ratio - 1}
<1>1. IsFiniteSet(0 .. k - 1)
  BY FS_Interval
<1>2. IsFiniteSet(Due_(k))
  BY <1>1, FS_Subset
<1>3. k \notin Due_(k)
  OBVIOUS
<1>4. CASE k % freq_ratio = freq_ratio - 1
  <2>1. Due_(k + 1) = Due_(k) \union {k}
    BY <1>4
  <2>2. Cardinality(Due_(k + 1)) = Cardinality(Due_(k)) + 1
    BY <1>2, <1>3, <2>1, FS_AddElement
  <2> QED
    BY <1>2, <1>4, <2>2, FS_CardinalityType DEF DueBefore
<1>5. CASE k % freq_ratio # freq_ratio - 1
  <2>1. Due_(k + 1) = Due_(k)
    BY <1>5
  <2>2. DueBefore(k) = Cardinality(Due_(k)) /\ DueBefore(k + 1) = Cardinality(Due_(k + 1))
    BY DEF DueBefore
  <2>3. Cardinality(Due_(k)) \in Nat
    BY <1>2, FS_CardinalityType
  <2> HIDE DEF Due_
  <2> QED
    BY <1>5, <2>1, <2>2, <2>3
<1> QED
  BY <1>4, <1>5

-------------------------------------------------------------------------------
(***************************************************************************)
(* The steps.                                                              *)
(***************************************************************************)
\* A record is issued, with a fault or without: what that does to the thread.
RecordRead(n) ==
  /\ Due(n) /\ ReadNext(n)
  /\ \E there \in {"issue", "pool_error"} : pc' = [pc EXCEPT ![n] = there]

ThreadStep(n) ==
  \/ Test(n) \/ RecordRead(n) \/ IssueDone(n) \/ Update(n) \/ Leave(n) \/ Drain(n)
  \/ n = 0 /\ (PoolsAndNetwork \/ Tick)

LEMMA StepIs ==
  ASSUME Types, NEW n \in Nodes, Thread(n)
  PROVE  ThreadStep(n)
<1>1. ASSUME NEW page, Access(n, page), Due(n)
      PROVE  RecordRead(n)
  <2>1. pc = [pc EXCEPT ![n] = pc[n]] /\ pc[n] = "issue"
    BY <1>1 DEF Types, Due
  <2>2. \E there \in {"issue", "pool_error"} : pc' = [pc EXCEPT ![n] = there]
    BY <1>1, <2>1 DEF Access
  <2> QED
    BY <1>1, <2>2 DEF Access, RecordRead
<1>2. ASSUME Hit(n) \/ FaultLocal(n) \/ FaultRemote(n) \/ FaultWithChunk(n)
      PROVE  RecordRead(n)
  BY <1>1, <1>2 DEF Hit, FaultLocal, FaultRemote, FaultWithChunk, Fault,
                    allocate_remote_page
<1> QED
  BY <1>2 DEF Thread, Issue, ThreadStep

LEMMA TypesKept ==
  ASSUME Types, Release \/ (\E n \in Nodes : ThreadStep(n)) \/ UNCHANGED vars
  PROVE  Types'
<1>1. CASE Release
  <2>1. \A n \in Nodes : Behind(pc[n]) \in Pcs
    BY <1>1 DEF Release, Waits, Behind, Pcs
  <2> QED
    BY <1>1, <2>1 DEF Release, Types, traceVars, clockVars
<1>2. ASSUME NEW n \in Nodes, ThreadStep(n)
      PROVE  Types'
  <2>1. CASE Test(n)
    BY <2>1 DEF Test, Goto, Types, Pcs, Waits, traceVars, clockVars
  <2>2. CASE RecordRead(n)
    BY <2>2 DEF RecordRead, ReadNext, Types, Pcs, clockVars
  <2>3. CASE IssueDone(n)
    BY <2>3 DEF IssueDone, Goto, Types, Pcs, Waits, traceVars, clockVars
  <2>4. CASE Update(n)
    <3>1. Clocked \in Nat
      BY DEF Clocked
    <3>2. pc' \in [Nodes -> Pcs]
      BY <2>4 DEF Update, Goto, LastWait, Types, Pcs, Waits
    <3>3. updates' \in [Nodes -> Nat]
      BY <2>4, <3>1 DEF Update, Types
    <3>4. UNCHANGED <<common_clock, pool_updates, traceVars>>
      BY <2>4 DEF Update
    <3> QED
      BY <3>2, <3>3, <3>4 DEF Types, traceVars
  <2>5. CASE Leave(n)
    <3>1. common_clock + extra_cycles \in Int
      BY TraceNodesAssumption DEF Types
    <3>2. pc' \in [Nodes -> Pcs]
      BY <2>5 DEF Leave, Goto, Types, Pcs
    <3>3. end_cycle' \in [Nodes -> Int]
      BY <2>5, <3>1 DEF Leave, Types
    <3> QED
      BY <2>5, <3>2, <3>3 DEF Leave, Types, clockVars
  <2>6. CASE Drain(n)
    BY <2>6 DEF Drain, Goto, Types, Pcs, Waits, traceVars, clockVars
  <2>7. CASE n = 0 /\ PoolsAndNetwork
    <3>1. Clocked \in Nat
      BY DEF Clocked
    <3> QED
      BY <2>7, <3>1 DEF PoolsAndNetwork, Goto, Types, Pcs, Waits, traceVars
  <2>8. CASE n = 0 /\ Tick
    BY <2>8 DEF Tick, Goto, LastWait, Types, Pcs, Waits, traceVars
  <2> QED
    BY <1>2, <2>1, <2>2, <2>3, <2>4, <2>5, <2>6, <2>7, <2>8 DEF ThreadStep
<1>3. CASE UNCHANGED vars
  BY <1>3 DEF vars, Types, traceVars, clockVars
<1> QED
  BY <1>1, <1>2, <1>3

\* The traces, and where they end, stay the same.
LEMMA SameTraces ==
  ASSUME trace' = trace
  PROVE  /\ \A n \in Nodes : LastCycle(n)' = LastCycle(n) /\ EndOf(n)' = EndOf(n)
         /\ Together' = Together
BY DEF LastCycle, EndOf, Together

LEMMA ReadingKept ==
  ASSUME Types, Types', \A n \in Nodes : Reading(n),
         Release \/ (\E n \in Nodes : ThreadStep(n)) \/ UNCHANGED vars
  PROVE  trace' = trace /\ \A n \in Nodes : Reading(n)'
<1>1. ASSUME UNCHANGED <<trace, temp, eof>>
      PROVE  \A n \in Nodes : Reading(n)'
  BY <1>1 DEF Reading
<1>2. ASSUME NEW n \in Nodes, RecordRead(n)
      PROVE  trace' = trace /\ \A m \in Nodes : Reading(m)'
  <2> SUFFICES ASSUME NEW m \in Nodes PROVE Reading(m)'
    BY <1>2 DEF RecordRead, ReadNext
  <2>1. trace' = trace /\ Len(trace[m]) \in Nat
    BY <1>2, TraceFacts DEF RecordRead, ReadNext
  <2>2. CASE m = n
    BY <1>2, <2>1, <2>2 DEF RecordRead, ReadNext, Reading, Types
  <2>3. CASE m # n
    BY <1>2, <2>1, <2>3 DEF RecordRead, ReadNext, Reading, Types
  <2> QED
    BY <2>2, <2>3
<1>3. ASSUME NEW n \in Nodes, ThreadStep(n), ~ RecordRead(n)
      PROVE  UNCHANGED <<trace, temp, eof>>
  BY <1>3 DEF ThreadStep, Test, IssueDone, Update, Leave, Drain, PoolsAndNetwork,
              Tick, traceVars
<1>4. CASE Release \/ UNCHANGED vars
  BY <1>1, <1>4 DEF Release, vars, traceVars
<1> QED
  BY <1>1, <1>2, <1>3, <1>4

-------------------------------------------------------------------------------
(***************************************************************************)
(* The phases, as long as the traces end together.                         *)
(***************************************************************************)
\* All are as far as the last cycle of the traces, or none is.
LEMMA AllTogether ==
  ASSUME Together, NEW n \in Nodes, NEW m \in Nodes
  PROVE  LastCycle(n) = LastCycle(m)
BY DEF Together

\* The barrier takes all of them to the next phase.
LEMMA ReleaseKeeps ==
  ASSUME Types, \A n \in Nodes : Reading(n), Together, Phases, Release
  PROVE  Phases'
<1>1. /\ \A n \in Nodes : /\ pc[n] \in Waits
                          /\ pc'[n] = Behind(pc[n])
      /\ UNCHANGED <<common_clock, trace, temp, trace_complete, end_cycle>>
  BY DEF Release, traceVars, clockVars
<1>2. \A n \in Nodes : LastCycle(n)' = LastCycle(n) /\ EndOf(n)' = EndOf(n)
  BY <1>1, SameTraces
<1>3. \A n \in Nodes : /\ LastCycle(n) \in Nat /\ EndOf(n) \in Nat
                      /\ LastCycle(n) \in {EndOf(n) + 1, max_cycle_num}
                      /\ LastCycle(n) <= EndOf(n) + 1
                      /\ Record(n).cycle \in Nat /\ Record(n).cycle <= EndOf(n)
  BY LastCycleIs, TraceFacts DEF Record, Reading
<1>4. CASE \A n \in Nodes : Starting(n)
  <2>1. \A n \in Nodes : pc'[n] = "issue"
    BY <1>1, <1>4 DEF Starting, Waits, Behind
  <2>2. \A n \in Nodes : Issuing(n)'
    BY <1>1, <1>2, <1>4, <2>1 DEF Starting, Issuing, Draining, Ahead, Record
  <2> QED
    BY <2>2 DEF Phases
<1>5. CASE \A n \in Nodes : Issuing(n)
  <2>1. \A n \in Nodes : pc'[n] = "update" /\ pc[n] = "wait2"
    BY <1>1, <1>5 DEF Issuing, Waits, Behind
  <2>2. \A n \in Nodes : Clocking(n)'
    BY <1>1, <1>2, <1>5, <2>1, NodeZero
       DEF Issuing, Clocking, Ticked, Draining, Beyond, Record
  <2> QED
    BY <2>2 DEF Phases
<1>6. CASE \A n \in Nodes : Clocking(n)
  <2>1. \A n \in Nodes : pc'[n] = "test" /\ pc[n] = "wait3"
    BY <1>1, <1>6 DEF Clocking, Waits, Behind
  <2>2. Ticked
    BY <2>1, NodeZero DEF Ticked
  <2>3. CASE common_clock < LastCycle(0)
    <3>1. \A n \in Nodes : common_clock < LastCycle(n)
      BY <2>3, AllTogether, NodeZero
    <3>2. \A n \in Nodes : ~ trace_complete[n]
      BY <1>3, <1>6, <2>2, <3>1 DEF Clocking
    <3>3. \A n \in Nodes : Starting(n)'
      BY <1>1, <1>2, <1>6, <2>1, <2>2, <3>1, <3>2
         DEF Clocking, Starting, Draining, Ahead, Record
    <3> QED
      BY <3>3 DEF Phases
  <2>4. CASE ~ (common_clock < LastCycle(0))
    <3>1. \A n \in Nodes : common_clock = LastCycle(n)
      <4>1. \A n \in Nodes : ~ (common_clock < LastCycle(n)) /\ common_clock <= LastCycle(n)
        BY <1>6, <2>2, <2>4, AllTogether, NodeZero DEF Clocking
      <4> QED
        BY <1>3, <4>1 DEF Types
    <3>2. \A n \in Nodes : trace_complete[n] \/ common_clock >= max_cycle_num
      <4> SUFFICES ASSUME NEW n \in Nodes, ~ trace_complete[n]
                   PROVE  common_clock >= max_cycle_num
        OBVIOUS
      <4>1. Record(n).cycle >= common_clock
        BY <1>6, <2>2 DEF Clocking, Ahead
      <4>2. common_clock = LastCycle(n) /\ Record(n).cycle <= EndOf(n)
        BY <1>3, <3>1
      <4>3. LastCycle(n) # EndOf(n) + 1
        BY <1>3, <4>1, <4>2
      <4> QED
        BY <1>3, <4>2, <4>3, Numbers
    <3>3. \A n \in Nodes : Leaving(n)'
      BY <1>1, <1>2, <1>3, <1>6, <2>1, <2>2, <3>1, <3>2
         DEF Clocking, Leaving, Draining, Ahead, Record
    <3> QED
      BY <3>3 DEF Phases
  <2> QED
    BY <2>3, <2>4
<1>7. CASE \A n \in Nodes : Leaving(n) \/ InSecondLoop(n)
  <2>1. \A n \in Nodes : pc[n] \in {"drain1", "drain2"} /\ Draining(n)
    BY <1>1, <1>7 DEF Leaving, InSecondLoop, Waits
  <2>2. \A n \in Nodes : pc'[n] \in {"update", "drain"}
    BY <1>1, <2>1 DEF Behind
  <2>3. \A n \in Nodes : InSecondLoop(n)'
    BY <1>1, <2>1, <2>2 DEF InSecondLoop, Draining
  <2> QED
    BY <2>3 DEF Phases
<1> QED
  BY <1>4, <1>5, <1>6, <1>7 DEF Phases

\* The first loop is left by all or by none.
LEMMA TestKeeps ==
  ASSUME Types, Together, Phases, NEW n \in Nodes, Test(n)
  PROVE  Phases'
<1>1. /\ pc[n] = "test"
      /\ pc' = [pc EXCEPT ![n] = IF common_clock < max_cycle_num /\ ~trace_complete[n]
                                THEN "wait1" ELSE "leave"]
      /\ UNCHANGED <<common_clock, trace, temp, trace_complete, end_cycle>>
  BY DEF Test, Goto, traceVars, clockVars
<1>2. \A m \in Nodes : LastCycle(m)' = LastCycle(m)
  BY <1>1, SameTraces
<1>3. CASE \A m \in Nodes : Starting(m)
  <2>1. pc' = [pc EXCEPT ![n] = "wait1"]
    <3>1. /\ common_clock < LastCycle(n) /\ ~ trace_complete[n]
          /\ LastCycle(n) <= max_cycle_num /\ LastCycle(n) \in Nat
      BY <1>3, LastCycleIs DEF Starting
    <3>2. common_clock < max_cycle_num
      BY <3>1, Numbers DEF Types
    <3> QED
      BY <1>1, <3>1, <3>2
  <2>2. \A m \in Nodes : Starting(m)'
    BY <1>1, <1>2, <1>3, <2>1 DEF Starting, Draining, Ahead, Record, Types
  <2> QED
    BY <2>2 DEF Phases
<1>4. CASE \A m \in Nodes : Leaving(m)
  <2>1. pc' = [pc EXCEPT ![n] = "leave"]
    <3>1. trace_complete[n] \/ ~ (common_clock < max_cycle_num)
      BY <1>4, Numbers DEF Leaving, Types
    <3> QED
      BY <1>1, <3>1
  <2>2. \A m \in Nodes : Leaving(m)'
    BY <1>1, <1>2, <1>4, <2>1 DEF Leaving, Draining, Ahead, Record, Types
  <2> QED
    BY <2>2 DEF Phases
<1> QED
  BY <1>1, <1>3, <1>4 DEF Phases, Issuing, Clocking, InSecondLoop

\* What a thread whose record is due has to do with its trace.
LEMMA RecordReadKeeps ==
  ASSUME Types, \A m \in Nodes : Reading(m), Phases, NEW n \in Nodes, RecordRead(n)
  PROVE  Phases'
<1>1. /\ pc[n] = "issue" /\ Record(n).cycle = common_clock /\ ~ trace_complete[n]
      /\ UNCHANGED <<common_clock, trace, end_cycle>>
  BY DEF RecordRead, Due, ReadNext, clockVars
<1>2. PICK there \in {"issue", "pool_error"} : pc' = [pc EXCEPT ![n] = there]
  BY DEF RecordRead
<1>3. \A m \in Nodes : Issuing(m)
  BY <1>1 DEF Phases, Starting, Clocking, Leaving, InSecondLoop
<1>4. \A m \in Nodes : LastCycle(m)' = LastCycle(m) /\ EndOf(m)' = EndOf(m)
  BY <1>1, SameTraces
<1>5. ASSUME NEW m \in Nodes, m # n
      PROVE  Issuing(m)'
  <2>1. pc'[m] = pc[m] /\ temp'[m] = temp[m] /\ trace_complete'[m] = trace_complete[m]
    BY <1>2, <1>5 DEF RecordRead, ReadNext, Types
  <2> QED
    BY <1>1, <1>3, <1>4, <2>1 DEF Issuing, Draining, Ahead, Beyond, Record
<1>6. Issuing(n)'
  <2>1. /\ pc'[n] \in {"issue", "pool_error"}
        /\ trace_complete'[n] = eof[n]
        /\ temp'[n] = IF temp[n] < Len(trace[n]) THEN temp[n] + 1 ELSE temp[n]
    BY <1>2 DEF RecordRead, ReadNext, Types
  <2>2. eof[n] => common_clock = EndOf(n)
    BY <1>1 DEF Reading, Record, EndOf
  <2>3. trace[n][temp'[n]].cycle >= common_clock
    <3>1. temp[n] \in 1 .. Len(trace[n]) /\ temp'[n] \in 1 .. Len(trace[n])
      BY <2>1, TraceFacts DEF Reading
    <3>2. temp[n] <= temp'[n]
      BY <2>1, <3>1, TraceFacts
    <3>3. trace[n][temp[n]].cycle <= trace[n][temp'[n]].cycle
      BY <3>1, <3>2, TraceFacts
    <3>4. trace[n][temp[n]].cycle \in Nat /\ trace[n][temp'[n]].cycle \in Nat
      BY <3>1, TraceFacts
    <3> QED
      BY <1>1, <3>3, <3>4 DEF Record
  <2> QED
    BY <1>1, <1>3, <1>4, <2>1, <2>2, <2>3 DEF Issuing, Draining, Ahead, Record
<1> QED
  BY <1>5, <1>6 DEF Phases

LEMMA IssueDoneKeeps ==
  ASSUME Types, \A m \in Nodes : Reading(m), Phases, NEW n \in Nodes, IssueDone(n)
  PROVE  Phases'
<1>1. /\ pc[n] = "issue" /\ pc' = [pc EXCEPT ![n] = "wait2"]
      /\ ~ trace_complete[n] => Record(n).cycle # common_clock
      /\ UNCHANGED <<common_clock, trace, temp, trace_complete, end_cycle>>
  BY DEF IssueDone, Due, Goto, traceVars, clockVars
<1>2. \A m \in Nodes : Issuing(m)
  BY <1>1 DEF Phases, Starting, Clocking, Leaving, InSecondLoop
<1>3. \A m \in Nodes : LastCycle(m)' = LastCycle(m) /\ EndOf(m)' = EndOf(m)
  BY <1>1, SameTraces
<1>4. Record(n).cycle \in Nat
  BY TraceFacts DEF Reading, Record
<1>5. Beyond(n)
  BY <1>1, <1>2, <1>4 DEF Issuing, Ahead, Beyond, Types
<1>6. \A m \in Nodes : Issuing(m)'
  BY <1>1, <1>2, <1>3, <1>5 DEF Issuing, Draining, Ahead, Beyond, Record, Types
<1> QED
  BY <1>6 DEF Phases

\* Thread 0 clocks its memory before it waits, and is not at the third barrier
\* while anyone else clocks theirs before the tick.
LEMMA UpdateKeeps ==
  ASSUME Types, Phases, NEW n \in Nodes, Update(n)
  PROVE  Phases'
<1>1. /\ pc[n] = "update"
      /\ pc' = [pc EXCEPT ![n] = IF n = 0 THEN "pools" ELSE LastWait(n)]
      /\ UNCHANGED <<common_clock, trace, temp, trace_complete, end_cycle>>
  BY DEF Update, Goto, traceVars
<1>2. \A m \in Nodes : LastCycle(m)' = LastCycle(m) /\ EndOf(m)' = EndOf(m)
  BY <1>1, SameTraces
<1>3. CASE \A m \in Nodes : Clocking(m)
  <2>1. pc' = [pc EXCEPT ![n] = IF n = 0 THEN "pools" ELSE "wait3"]
    BY <1>1, <1>3 DEF Clocking, LastWait
  <2>2. Ticked' = Ticked
    BY <1>1, <2>1, NodeZero DEF Ticked, Types
  <2>3. \A m \in Nodes : Clocking(m)'
    BY <1>1, <1>2, <1>3, <2>1, <2>2 DEF Clocking, Draining, Ahead, Beyond, Record, Types
  <2> QED
    BY <2>3 DEF Phases
<1>4. CASE \A m \in Nodes : InSecondLoop(m)
  <2>1. \A m \in Nodes : InSecondLoop(m)'
    BY <1>1, <1>4 DEF InSecondLoop, LastWait, Draining, Types
  <2> QED
    BY <2>1 DEF Phases
<1> QED
  BY <1>1, <1>3, <1>4 DEF Phases, Starting, Issuing, Leaving

LEMMA PoolsKeep ==
  ASSUME Types, Phases, PoolsAndNetwork
  PROVE  Phases'
<1>1. /\ pc[0] = "pools" /\ pc' = [pc EXCEPT ![0] = "tick"]
      /\ UNCHANGED <<common_clock, trace, temp, trace_complete, end_cycle>>
  BY DEF PoolsAndNetwork, Goto, traceVars
<1>2. \A m \in Nodes : LastCycle(m)' = LastCycle(m) /\ EndOf(m)' = EndOf(m)
  BY <1>1, SameTraces
<1>3. CASE \A m \in Nodes : Clocking(m)
  <2>1. ~ Ticked /\ ~ Ticked'
    BY <1>1, NodeZero DEF Ticked, Types
  <2>2. \A m \in Nodes : Clocking(m)'
    BY <1>1, <1>2, <1>3, <2>1 DEF Clocking, Draining, Beyond, Record, Types
  <2> QED
    BY <2>2 DEF Phases
<1>4. CASE \A m \in Nodes : InSecondLoop(m)
  <2>1. \A m \in Nodes : InSecondLoop(m)'
    BY <1>1, <1>4 DEF InSecondLoop, Draining, Types
  <2> QED
    BY <2>1 DEF Phases
<1> QED
  BY <1>1, <1>3, <1>4, NodeZero DEF Phases, Starting, Issuing, Leaving

\* What was beyond this cycle is not behind the next.
LEMMA TickKeeps ==
  ASSUME Types, \A m \in Nodes : Reading(m), Phases, Tick
  PROVE  Phases'
<1>1. /\ pc[0] = "tick" /\ pc' = [pc EXCEPT ![0] = LastWait(0)]
      /\ common_clock' = common_clock + 1
      /\ UNCHANGED <<trace, temp, trace_complete, end_cycle>>
  BY DEF Tick, Goto, traceVars
<1>2. \A m \in Nodes : LastCycle(m)' = LastCycle(m) /\ EndOf(m)' = EndOf(m)
  BY <1>1, SameTraces
<1>3. CASE \A m \in Nodes : Clocking(m)
  <2>1. /\ pc' = [pc EXCEPT ![0] = "wait3"] /\ ~ Ticked /\ Ticked'
    BY <1>1, <1>3, NodeZero DEF Clocking, LastWait, Ticked, Types
  <2>2. ASSUME NEW m \in Nodes
        PROVE  Clocking(m)'
    <3>1. /\ LastCycle(m) \in Nat /\ EndOf(m) \in Nat /\ Record(m).cycle \in Nat
          /\ common_clock \in Nat
      BY LastCycleIs, TraceFacts DEF Reading, Record, Types
    <3>2. /\ ~ Draining(m) /\ common_clock < LastCycle(m) /\ Beyond(m)
          /\ trace_complete[m] => common_clock = EndOf(m)
          /\ pc[m] \in {"update", "wait3"} \/ (m = 0 /\ pc[m] \in {"pools", "tick"})
      BY <1>3, <2>1 DEF Clocking
    <3>3. common_clock' <= LastCycle(m)'
      BY <1>1, <1>2, <3>1, <3>2
    <3>4. Ahead(m)'
      BY <1>1, <3>1, <3>2 DEF Ahead, Beyond, Record
    <3>5. trace_complete'[m] => common_clock' = EndOf(m)' + 1
      BY <1>1, <1>2, <3>2
    <3>6. pc'[m] \in {"update", "wait3"}
      BY <2>1, <3>2 DEF Types
    <3>7. ~ Draining(m)'
      BY <1>1, <3>2 DEF Draining
    <3> QED
      BY <2>1, <3>3, <3>4, <3>5, <3>6, <3>7 DEF Clocking
  <2> QED
    BY <2>2 DEF Phases
<1>4. CASE \A m \in Nodes : InSecondLoop(m)
  <2>1. \A m \in Nodes : InSecondLoop(m)'
    BY <1>1, <1>4, NodeZero DEF InSecondLoop, LastWait, Draining, Types
  <2> QED
    BY <2>1 DEF Phases
<1> QED
  BY <1>1, <1>3, <1>4, NodeZero DEF Phases, Starting, Issuing, Leaving

LEMMA LeaveKeeps ==
  ASSUME Types, Phases, NEW n \in Nodes, Leave(n)
  PROVE  Phases'
<1>1. /\ pc[n] = "leave" /\ pc' = [pc EXCEPT ![n] = "drain"]
      /\ end_cycle' = [end_cycle EXCEPT ![n] = common_clock + extra_cycles]
      /\ UNCHANGED <<common_clock, trace, temp, trace_complete>>
  BY DEF Leave, Goto, clockVars
<1>2. \A m \in Nodes : LastCycle(m)' = LastCycle(m)
  BY <1>1, SameTraces
<1>3. \A m \in Nodes : Leaving(m)
  BY <1>1 DEF Phases, Starting, Issuing, Clocking, InSecondLoop
<1>4. common_clock + extra_cycles # NoCycle
  BY Numbers DEF Types, NoCycle
<1>5. \A m \in Nodes : Leaving(m)'
  BY <1>1, <1>2, <1>3, <1>4 DEF Leaving, Draining, Ahead, Record, Types
<1> QED
  BY <1>5 DEF Phases

LEMMA DrainKeeps ==
  ASSUME Types, Phases, NEW n \in Nodes, Drain(n)
  PROVE  Phases'
<1>1. /\ pc[n] = "drain"
      /\ pc' = [pc EXCEPT ![n] = IF common_clock < end_cycle[n] THEN "drain1" ELSE "left"]
      /\ UNCHANGED <<common_clock, trace, temp, trace_complete, end_cycle>>
  BY DEF Drain, Goto, traceVars, clockVars
<1>2. \A m \in Nodes : LastCycle(m)' = LastCycle(m)
  BY <1>1, SameTraces
<1>3. CASE \A m \in Nodes : Leaving(m)
  <2>1. \A m \in Nodes : Leaving(m)'
    BY <1>1, <1>2, <1>3 DEF Leaving, Draining, Ahead, Record, Types
  <2> QED
    BY <2>1 DEF Phases
<1>4. CASE \A m \in Nodes : InSecondLoop(m)
  <2>1. \A m \in Nodes : InSecondLoop(m)'
    BY <1>1, <1>4 DEF InSecondLoop, Draining, Types
  <2> QED
    BY <2>1 DEF Phases
<1> QED
  BY <1>1, <1>3, <1>4 DEF Phases, Starting, Issuing, Clocking

LEMMA PhasesStutter ==
  ASSUME Phases, UNCHANGED vars
  PROVE  Phases'
<1>1. /\ UNCHANGED <<pc, common_clock, trace, temp, trace_complete, end_cycle>>
  BY DEF vars, traceVars, clockVars
<1>2. \A m \in Nodes : LastCycle(m)' = LastCycle(m) /\ EndOf(m)' = EndOf(m)
  BY <1>1, SameTraces
<1>3. \A m \in Nodes : Draining(m)' = Draining(m) /\ Ahead(m)' = Ahead(m)
                           /\ Beyond(m)' = Beyond(m)
  BY <1>1 DEF Draining, Ahead, Beyond, Record
<1>4. \A m \in Nodes : Starting(m)' = Starting(m) /\ Issuing(m)' = Issuing(m)
  BY <1>1, <1>2, <1>3 DEF Starting, Issuing
<1>5. \A m \in Nodes : Clocking(m)' = Clocking(m)
  BY <1>1, <1>2, <1>3 DEF Clocking, Ticked
<1>6. \A m \in Nodes : Leaving(m)' = Leaving(m) /\ InSecondLoop(m)' = InSecondLoop(m)
  BY <1>1, <1>2, <1>3 DEF Leaving, InSecondLoop
<1> QED
  BY <1>4, <1>5, <1>6 DEF Phases

-------------------------------------------------------------------------------
(***************************************************************************)
(* The clocks, whatever the traces.                                        *)
(***************************************************************************)
LEMMA ClockedKept ==
  ASSUME Types, ClockedOnce,
         Release \/ (\E n \in Nodes : ThreadStep(n)) \/ UNCHANGED vars
  PROVE  ClockedOnce'
<1> DEFINE On(step) == IF step THEN 1 ELSE 0
           Same == UNCHANGED <<common_clock, pool_updates>> /\ updates'[0] = updates[0]
<1>1. DueBefore(common_clock + 1) = DueBefore(common_clock) + Clocked
  BY OneMoreCycle DEF Types, Clocked
<1>2. common_clock + 0 = common_clock
  BY DEF Types
<1>3. ASSUME Same, pc[0] \notin {"pools", "tick"}, pc'[0] \notin {"pools", "tick"}
      PROVE  ClockedOnce'
  BY <1>3 DEF ClockedOnce, DueBefore
<1>4. ASSUME Same, pc'[0] = pc[0]
      PROVE  ClockedOnce'
  BY <1>4 DEF ClockedOnce, DueBefore
<1>5. CASE Release
  BY <1>3, <1>5, NodeZero DEF Release, Waits, Behind, clockVars
<1>6. ASSUME NEW n \in Nodes, Test(n) \/ RecordRead(n) \/ IssueDone(n) \/ Leave(n) \/ Drain(n)
      PROVE  ClockedOnce'
  <2>1. Same
    BY <1>6 DEF Test, RecordRead, ReadNext, IssueDone, Leave, Drain, clockVars
  <2>2. CASE n = 0
    BY <1>3, <1>6, <2>1, <2>2
       DEF Test, RecordRead, Due, IssueDone, Leave, Drain, Goto, Types
  <2>3. CASE n # 0
    BY <1>4, <1>6, <2>1, <2>3, NodeZero
       DEF Test, RecordRead, IssueDone, Leave, Drain, Goto, Types
  <2> QED
    BY <2>2, <2>3
<1>7. ASSUME NEW n \in Nodes, Update(n), n # 0
      PROVE  ClockedOnce'
  BY <1>4, <1>7, NodeZero DEF Update, Goto, Types
<1>8. CASE Update(0)
  <2>1. /\ pc[0] = "update" /\ pc'[0] = "pools" /\ updates'[0] = updates[0] + Clocked
        /\ UNCHANGED <<common_clock, pool_updates>>
    BY <1>8, NodeZero DEF Update, Goto, Types
  <2> QED
    BY <1>1, <1>2, <2>1 DEF ClockedOnce, DueBefore
<1>9. CASE PoolsAndNetwork
  <2>1. /\ pc[0] = "pools" /\ pc'[0] = "tick" /\ pool_updates' = pool_updates + Clocked
        /\ UNCHANGED <<common_clock, updates>>
    BY <1>9, NodeZero DEF PoolsAndNetwork, Goto, Types
  <2> QED
    BY <1>1, <1>2, <2>1 DEF ClockedOnce, DueBefore
<1>10. CASE Tick
  <2>1. /\ pc[0] = "tick" /\ pc'[0] \in {"wait3", "drain2"}
        /\ common_clock' = common_clock + 1 /\ common_clock' + 0 = common_clock'
        /\ UNCHANGED <<updates, pool_updates>>
    BY <1>10, NodeZero DEF Tick, Goto, LastWait, Types
  <2> QED
    BY <2>1 DEF ClockedOnce, DueBefore
<1>11. CASE UNCHANGED vars
  BY <1>4, <1>11 DEF vars, clockVars
<1> QED
  BY <1>5, <1>6, <1>7, <1>8, <1>9, <1>10, <1>11 DEF ThreadStep

-------------------------------------------------------------------------------
LEMMA StepsInit ==
  ASSUME Init
  PROVE  Steps
<1>1. Types
  BY DEF Init, Types, Pcs, NoCycle
<1>2. \A n \in Nodes : Reading(n)
  BY <1>1, TraceFacts DEF Init, Reading
<1>3. ASSUME NEW n \in Nodes
      PROVE  /\ ~ Draining(n) /\ Ahead(n) /\ ~ trace_complete[n] /\ pc[n] = "test"
             /\ LastCycle(n) \in Nat /\ LastCycle(n) <= max_cycle_num
             /\ LastCycle(n) \in {EndOf(n) + 1, max_cycle_num} /\ EndOf(n) \in Nat
  BY <1>1, <1>2, LastCycleIs, TraceFacts DEF Init, Draining, Ahead, Reading, Record
<1>4. ASSUME Together
      PROVE  Phases
  <2>1. CASE 0 < LastCycle(0)
    <3>1. \A n \in Nodes : Starting(n)
      BY <1>3, <1>4, <2>1, AllTogether, NodeZero DEF Init, Starting
    <3> QED
      BY <3>1 DEF Phases
  <2>2. CASE ~ (0 < LastCycle(0))
    <3>1. \A n \in Nodes : LastCycle(n) = 0
      BY <1>3, <1>4, <2>2, AllTogether, NodeZero
    <3>2. common_clock = 0 /\ max_cycle_num = 0
      BY <1>3, <3>1, NodeZero DEF Init
    <3>3. \A n \in Nodes : common_clock >= LastCycle(n) /\ common_clock >= max_cycle_num
      BY <3>1, <3>2
    <3>4. \A n \in Nodes : Leaving(n)
      BY <1>3, <3>3 DEF Leaving
    <3> QED
      BY <3>4 DEF Phases
  <2> QED
    BY <2>1, <2>2
<1>5. DueBefore(0) = 0 /\ 0 + 0 = 0
  BY FS_EmptySet DEF DueBefore
<1>6. ClockedOnce
  BY <1>5, NodeZero DEF Init, ClockedOnce, DueBefore
<1> QED
  BY <1>1, <1>2, <1>4, <1>6 DEF Steps

LEMMA StepsNext ==
  ASSUME Steps, [Next]_vars
  PROVE  Steps'
<1>1. Types /\ (\A n \in Nodes : Reading(n)) /\ ClockedOnce
  BY DEF Steps
<1>2. Release \/ (\E n \in Nodes : ThreadStep(n)) \/ UNCHANGED vars
  BY <1>1, StepIs DEF Next
<1>3. Types' /\ ClockedOnce'
  BY <1>1, <1>2, TypesKept, ClockedKept
<1>4. trace' = trace /\ \A n \in Nodes : Reading(n)'
  BY <1>1, <1>2, <1>3, ReadingKept
<1>5. ASSUME Together, Phases
      PROVE  Phases'
  <2>1. CASE Release
    BY <1>1, <1>5, <2>1, ReleaseKeeps
  <2>2. ASSUME NEW n \in Nodes, ThreadStep(n)
        PROVE  Phases'
    BY <1>1, <1>5, <2>2, TestKeeps, RecordReadKeeps, IssueDoneKeeps, UpdateKeeps,
       PoolsKeep, TickKeeps, LeaveKeeps, DrainKeeps DEF ThreadStep
  <2>3. CASE UNCHANGED vars
    BY <1>5, <2>3, PhasesStutter
  <2> QED
    BY <1>2, <2>1, <2>2, <2>3
<1>6. Together' = Together
  BY <1>4, SameTraces
<1> QED
  BY <1>3, <1>4, <1>5, <1>6 DEF Steps

\* While the traces of all nodes end together, no thread issues records while
\* thread 0 moves packets or the clock, and the clock never passes a record;
\* whatever the traces, the pools and the memory of node 0 are clocked once in
\* freq_ratio cycles.
THEOREM ThreadsInStep == Spec => []InStep
<1>1. Init => Steps
  BY StepsInit
<1>2. Steps /\ [Next]_vars => Steps'
  BY StepsNext
<1>3. Steps => InStep
  <2> SUFFICES ASSUME Steps
               PROVE  InStep
    OBVIOUS
  <2>1. ASSUME Together, NEW n \in Nodes, Phases
        PROVE  /\ pc[n] = "issue" => pc[0] \notin {"pools", "tick"}
               /\ ~trace_complete[n] /\ ~Draining(n) => Record(n).cycle >= common_clock
    <3>1. Record(n).cycle \in Nat /\ common_clock \in Nat
      BY TraceFacts DEF Steps, Reading, Record, Types
    <3>2. pc[n] = "issue" => pc[0] \notin {"pools", "tick"}
      BY <2>1, NodeZero DEF Phases, Starting, Issuing, Clocking, Leaving, InSecondLoop
    <3>3. Ahead(n) \/ Draining(n)
      <4>1. Ahead(n) \/ Beyond(n) \/ Draining(n)
        BY <2>1 DEF Phases, Starting, Issuing, Clocking, Leaving, InSecondLoop
      <4> QED
        BY <3>1, <4>1 DEF Ahead, Beyond
    <3> QED
      BY <3>2, <3>3 DEF Ahead
  <2> QED
    BY <2>1 DEF Steps, InStep, ClockedOnce
<1> QED
  BY <1>1, <1>2, <1>3, PTL DEF Spec

-------------------------------------------------------------------------------
(***************************************************************************)
(* Where pages are placed.  The second inductive invariant, Placed: each   *)
(* node has counted the pages it mapped and mapped each once; a region     *)
(* begins where those handed out of its pool before it end; the chunks of  *)
(* a pool are as many as its counter says; the pools are at most one chunk *)
(* apart, those before the next in turn being ahead, until all have run    *)
(* out at once.                                                            *)
(***************************************************************************)
Entries == [mem_pool_no : Pools, remote_base : Nat]

PlaceTypes ==
  /\ page_table \in [Nodes -> [VPages -> Nat \cup {NoPage}]]
  /\ local_allocated_pages \in [Nodes -> Nat]
  /\ remote_allocated_pages \in [Nodes -> Nat]
  /\ remote_map \in [Nodes -> Seq(Entries)]
  /\ pool_allocated_pages \in [Pools -> Nat]
  /\ round_robin_last \in 1 .. NumPools + 1
  /\ NumPools = 1 => round_robin_last = 1

\* The local pages up to local_allocated_pages, and as many behind LocalPages as are
\* counted remote.
Allocated(n, page) ==
  /\ page \in Nat
  /\ \/ page < local_allocated_pages[n]
     \/ LocalPages <= page /\ page < LocalPages + remote_allocated_pages[n]

PagesOnce(n) ==
  /\ local_allocated_pages[n] <= LocalPages
  /\ pc[n] # "pool_error" => remote_allocated_pages[n] <= remote_pages(n)
  /\ \A v \in VPages : page_table[n][v] # NoPage => Allocated(n, page_table[n][v])
  /\ \A v, w \in VPages :
       page_table[n][v] = page_table[n][w] /\ page_table[n][v] # NoPage => v = w

Apart(r, s) ==
  r.mem_pool_no = s.mem_pool_no =>
    \/ r.remote_base + ChunkPages <= s.remote_base
    \/ s.remote_base + ChunkPages <= r.remote_base

RegionsApart ==
  /\ \A n \in Nodes : \A i \in DOMAIN remote_map[n] :
       remote_map[n][i].remote_base + ChunkPages
         <= pool_allocated_pages[remote_map[n][i].mem_pool_no]
  /\ \A n, m \in Nodes : \A i \in DOMAIN remote_map[n], j \in DOMAIN remote_map[m] :
       n # m \/ i # j => Apart(remote_map[n][i], remote_map[m][j])

Given(p) == Cardinality(Chunks(p))

ChunksCounted ==
  \A p \in Pools : /\ IsFiniteSet(Chunks(p))
                   /\ pool_allocated_pages[p] = ChunkPages * Given(p)
                   /\ pool_allocated_pages[p] <= PoolPages

NextPool == IF round_robin_last > NumPools THEN 0 ELSE round_robin_last - 1

\* The pools before NextPool have given one chunk more, or all have run out.
InTurn(c) ==
  \/ \A p \in Pools : Given(p) = c + (IF p < NextPool THEN 1 ELSE 0)
  \/ \A p \in Pools : Given(p) = c /\ PoolPages - pool_allocated_pages[p] < ChunkPages

Placed ==
  /\ PlaceTypes
  /\ \A n \in Nodes : PagesOnce(n)
  /\ RegionsApart
  /\ ChunksCounted
  /\ \E c \in Nat : InTurn(c)

-------------------------------------------------------------------------------
\* A page and the region it is in.
LEMMA Division ==
  ASSUME NEW a \in Nat, NEW k \in Nat
  PROVE  /\ a \div ChunkPages \in Nat /\ a % ChunkPages \in 0 .. ChunkPages - 1
         /\ a = ChunkPages * (a \div ChunkPages) + (a % ChunkPages)
         /\ a < ChunkPages * k <=> a \div ChunkPages < k
<1> DEFINE c == ChunkPages  d == a \div c  r == a % c
<1>1. c \in Nat \ {0}
  BY TraceNodesAssumption
<1>2. d \in Nat /\ r \in 0 .. c - 1 /\ a = c * d + r
  <2> HIDE DEF c
  <2> QED
    BY <1>1
<1> HIDE DEF c, d, r
<1>3. ASSUME d < k
      PROVE  a < c * k
  <2>1. c * d + c <= c * k
    BY <1>1, <1>2, <1>3
  <2> QED
    BY <2>1, <1>1, <1>2
<1>4. ASSUME k <= d
      PROVE  c * k <= a
  <2>1. c * k <= c * d
    BY <1>1, <1>2, <1>4
  <2> QED
    BY <2>1, <1>1, <1>2
<1>5. c * k \in Nat
  BY <1>1
<1> QED
  BY <1>2, <1>3, <1>4, <1>5 DEF c, d, r

LEMMA PagesMultiply ==
  ASSUME NEW k \in Nat
  PROVE  /\ ChunkPages * k \in Nat
         /\ ChunkPages * (k + 1) = ChunkPages * k + ChunkPages
BY TraceNodesAssumption

LEMMA PoolNumbers == /\ NumPools \in Nat \ {0} /\ LocalPages \in Nat /\ PoolPages \in Nat
                     /\ ChunkPages \in Nat \ {0}
BY TraceNodesAssumption

\* The pools are selected in a circle.
LEMMA NextSelected ==
  ASSUME PlaceTypes
  PROVE  /\ round_robin_pool_select = NextPool /\ NextPool \in Pools
         /\ NumPools > 1 =>
              /\ NextLast \in 1 .. NumPools + 1
              /\ NextLast - 1 = NextPool + 1
<1>1. NumPools \in Nat \ {0} /\ round_robin_last \in 1 .. NumPools + 1
  BY PoolNumbers DEF PlaceTypes
<1>2. CASE NumPools = 1
  BY <1>1, <1>2 DEF PlaceTypes, round_robin_pool_select, NextPool, Pools
<1>3. CASE NumPools # 1
  <2>1. (NumPools + 1) % NumPools = 1
    BY <1>1, <1>3
  <2>2. CASE round_robin_last = NumPools + 1
    BY <2>1, <2>2, <1>1, <1>3 DEF round_robin_pool_select, NextPool, Pools, NextLast
  <2>3. CASE round_robin_last <= NumPools
    BY <2>3, <1>1, <1>3 DEF round_robin_pool_select, NextPool, Pools, NextLast
  <2> QED
    BY <1>1, <2>2, <2>3
<1> QED
  BY <1>2, <1>3

\* What is in a list of chunks.
LEMMA ChunkIs ==
  ASSUME NEW p, NEW e
  PROVE  e \in Chunks(p) <=>
           \E n \in Nodes : \E i \in DOMAIN remote_map[n] :
             e = <<n, i>> /\ remote_map[n][i].mem_pool_no = p
BY DEF Chunks

-------------------------------------------------------------------------------
LEMMA ErrorStays ==
  ASSUME Types, [Next]_vars, NEW n \in Nodes, pc'[n] # "pool_error"
  PROVE  pc[n] # "pool_error"
<1>1. CASE Release
  BY <1>1 DEF Release, Waits
<1>2. CASE UNCHANGED vars
  BY <1>2 DEF vars
<1>3. ASSUME NEW m \in Nodes, Thread(m)
      PROVE  pc[n] # "pool_error"
  <2>1. pc[m] # "pool_error" /\ \E there : pc' = [pc EXCEPT ![m] = there]
    BY <1>3, StepIs DEF ThreadStep, Test, RecordRead, Due, IssueDone, Update, Leave, Drain,
                        PoolsAndNetwork, Tick, Goto
  <2> QED
    BY <2>1 DEF Types
<1> QED
  BY <1>1, <1>2, <1>3 DEF Next

\* What leaves memory alone keeps it in order.
LEMMA PlacedUnchanged ==
  ASSUME Types, Placed, [Next]_vars, UNCHANGED memoryVars
  PROVE  Placed'
<1>1. UNCHANGED <<page_table, local_allocated_pages, remote_allocated_pages, remote_map,
                  pool_allocated_pages, round_robin_last>>
  BY DEF memoryVars
<1>2. PlaceTypes'
  BY <1>1 DEF Placed, PlaceTypes
<1>3. \A n \in Nodes : PagesOnce(n)'
  BY <1>1, ErrorStays DEF Placed, PagesOnce, Allocated, remote_pages
<1>4. RegionsApart'
  BY <1>1 DEF Placed, RegionsApart
<1>5. \A p \in Pools : Chunks(p)' = Chunks(p) /\ Given(p)' = Given(p)
  BY <1>1 DEF Chunks, Given
<1>6. ChunksCounted'
  BY <1>1, <1>5 DEF Placed, ChunksCounted
<1>7. \A c \in Nat : InTurn(c) => InTurn(c)'
  BY <1>1, <1>5 DEF InTurn, NextPool
<1> QED
  BY <1>2, <1>3, <1>4, <1>6, <1>7 DEF Placed

-------------------------------------------------------------------------------
\* A fault enters a page.
LEMMA FaultFacts ==
  ASSUME Types, PlaceTypes, NEW n \in Nodes, Reading(n), NEW page, Fault(n, page)
  PROVE  /\ \E v \in VPages : /\ page_table[n][v] = NoPage
                              /\ page_table' = [page_table EXCEPT ![n][v] = page]
         /\ pc'[n] # "pool_error" =>
              is_local(page) \/ find_remote_pool(remote_map'[n], page) # NoPool
         /\ pc[n] # "pool_error"
         /\ \A m \in Nodes \ {n} : pc'[m] = pc[m]
<1>1. pc \in [Nodes -> Pcs] /\ pc[n] = "issue"
  BY DEF Fault, Due, Types
<1>2. Record(n).page \in VPages
  <2>1. trace[n] \in Seq([cycle : Nat, page : VPages])
    BY TraceNodesAssumption DEF Types
  <2>2. temp[n] \in 1 .. Len(trace[n])
    BY DEF Reading
  <2>3. trace[n][temp[n]] \in [cycle : Nat, page : VPages]
    BY <2>1, <2>2, ElementOfSeq
  <2> QED
    BY <2>3 DEF Record
<1>3. /\ page_table[n][Record(n).page] = NoPage
      /\ page_table' = [page_table EXCEPT ![n][Record(n).page] = page]
  BY DEF Fault, page_table_walk
<1> QED
  BY <1>1, <1>2, <1>3 DEF Fault, Access

\* Grown counters leave pages allocated that were.
Grown(n) ==
  /\ local_allocated_pages[n] <= local_allocated_pages'[n]
  /\ remote_allocated_pages[n] <= remote_allocated_pages'[n]

LEMMA PageEntered ==
  ASSUME PlaceTypes, PlaceTypes', NEW n \in Nodes, PagesOnce(n), Grown(n),
         NEW v \in VPages, NEW page, ~ Allocated(n, page), Allocated(n, page)',
         page_table' = [page_table EXCEPT ![n][v] = page]
  PROVE  /\ \A w \in VPages : page_table'[n][w] # NoPage =>
                                Allocated(n, page_table[n][w])'
         /\ \A w, x \in VPages :
              page_table'[n][w] = page_table'[n][x] /\ page_table'[n][w] # NoPage => w = x
<1>1. /\ page_table'[n][v] = page
      /\ \A w \in VPages \ {v} : page_table'[n][w] = page_table[n][w]
  BY DEF PlaceTypes
<1>2. ASSUME NEW w \in VPages \ {v}, page_table[n][w] # NoPage
      PROVE  Allocated(n, page_table[n][w]) /\ Allocated(n, page_table[n][w])'
  <2>1. PICK q : q = page_table[n][w]
    OBVIOUS
  <2>2. Allocated(n, q)
    BY <1>2, <2>1 DEF PagesOnce
  <2>3. /\ local_allocated_pages[n] \in Nat /\ local_allocated_pages'[n] \in Nat
        /\ remote_allocated_pages[n] \in Nat /\ remote_allocated_pages'[n] \in Nat
        /\ LocalPages \in Nat
    BY PoolNumbers DEF PlaceTypes
  <2>4. Allocated(n, q)'
    BY <2>2, <2>3 DEF Allocated, Grown
  <2>5. page_table'[n][w] = q
    BY <1>1, <2>1
  <2> QED
    BY <2>1, <2>2, <2>4, <2>5 DEF Allocated
<1>3. \A w \in VPages \ {v} : page_table[n][w] # NoPage => page_table[n][w] # page
  BY <1>2
<1>4. Allocated(n, page_table[n][v])'
  BY <1>1 DEF Allocated
<1>5. \A w \in VPages : page_table'[n][w] # NoPage => Allocated(n, page_table[n][w])'
  BY <1>1, <1>2, <1>4
<1>6. \A w, x \in VPages :
        page_table[n][w] = page_table[n][x] /\ page_table[n][w] # NoPage => w = x
  BY DEF PagesOnce
<1>7. ASSUME NEW w \in VPages, NEW x \in VPages,
             page_table'[n][w] = page_table'[n][x], page_table'[n][w] # NoPage
      PROVE  w = x
  BY <1>1, <1>3, <1>6, <1>7
<1> QED
  BY <1>5, <1>7

\* The other nodes.
LEMMA OthersKept ==
  ASSUME NEW n \in Nodes, PagesOnce(n), pc'[n] # "pool_error" => pc[n] # "pool_error",
         UNCHANGED <<page_table[n], local_allocated_pages[n], remote_allocated_pages[n],
                     remote_map[n]>>
  PROVE  PagesOnce(n)'
BY DEF PagesOnce, Allocated, remote_pages

\* What a fault that takes a remote page leaves of the pages, given room for them.
LEMMA RemotePage ==
  ASSUME Types, \A m \in Nodes : Reading(m), PlaceTypes, PlaceTypes', [Next]_vars,
         \A m \in Nodes : PagesOnce(m),
         NEW n \in Nodes, allocate_remote_page(n),
         \A m \in Nodes \ {n} : remote_map'[m] = remote_map[m],
         pc'[n] # "pool_error" => remote_allocated_pages[n] < remote_pages(n)'
  PROVE  \A m \in Nodes : PagesOnce(m)'
<1>1. PICK a, page : a = remote_allocated_pages[n] /\ page = LocalPages + a
  OBVIOUS
<1>2. /\ Fault(n, page) /\ remote_allocated_pages'[n] = a + 1
      /\ UNCHANGED local_allocated_pages
      /\ \A m \in Nodes \ {n} : remote_allocated_pages'[m] = remote_allocated_pages[m]
  BY <1>1 DEF allocate_remote_page, PlaceTypes
<1>3. a \in Nat /\ page \in Nat /\ local_allocated_pages[n] \in Nat /\ LocalPages \in Nat
  BY <1>1, PoolNumbers DEF PlaceTypes
<1>4. local_allocated_pages[n] <= LocalPages
  BY DEF PagesOnce
<1>5. ~ Allocated(n, page)
  BY <1>1, <1>3, <1>4 DEF Allocated
<1>6. Allocated(n, page)'
  BY <1>1, <1>2, <1>3 DEF Allocated
<1>7. Grown(n)
  BY <1>1, <1>2, <1>3 DEF Grown
<1>8. PICK v \in VPages : page_table' = [page_table EXCEPT ![n][v] = page]
  BY <1>2, FaultFacts
<1>9. PagesOnce(n)'
  <2>1. local_allocated_pages'[n] <= LocalPages
    BY <1>2, <1>4
  <2>2. pc'[n] # "pool_error" => remote_allocated_pages'[n] <= remote_pages(n)'
    <3>1. remote_pages(n)' \in Nat
      BY PagesMultiply DEF remote_pages, PlaceTypes
    <3> QED
      BY <3>1, <1>1, <1>2, <1>3
  <2> QED
    BY <2>1, <2>2, <1>5, <1>6, <1>7, <1>8, PageEntered DEF PagesOnce
<1>10. ASSUME NEW m \in Nodes \ {n}
       PROVE  PagesOnce(m)'
  <2>1. page_table'[m] = page_table[m]
    BY <1>8, <1>10 DEF PlaceTypes
  <2> QED
    BY <2>1, <1>2, <1>10, ErrorStays, OthersKept
<1> QED
  BY <1>9, <1>10

\* Pools and regions stay the same when no chunk is requested.
LEMMA PoolsAlone ==
  ASSUME RegionsApart, ChunksCounted, NEW c \in Nat, InTurn(c),
         UNCHANGED <<remote_map, pool_allocated_pages, round_robin_last>>
  PROVE  RegionsApart' /\ ChunksCounted' /\ InTurn(c)'
<1>1. \A p \in Pools : Chunks(p)' = Chunks(p) /\ Given(p)' = Given(p)
  BY DEF Chunks, Given
<1> QED
  BY <1>1 DEF RegionsApart, ChunksCounted, InTurn, NextPool

LEMMA TypesAfterFault ==
  ASSUME Types, PlaceTypes, NEW n \in Nodes, Reading(n), NEW page \in Nat, Fault(n, page)
  PROVE  page_table' \in [Nodes -> [VPages -> Nat \cup {NoPage}]]
<1>1. PICK v \in VPages : page_table' = [page_table EXCEPT ![n][v] = page]
  BY FaultFacts
<1> QED
  BY <1>1 DEF PlaceTypes

LEMMA LocalFaultStep ==
  ASSUME Types, \A m \in Nodes : Reading(m), Placed, [Next]_vars,
         NEW n \in Nodes, FaultLocal(n)
  PROVE  Placed'
<1>1. PICK page : page = local_allocated_pages[n]
  OBVIOUS
<1>2. /\ Fault(n, page) /\ page < LocalPages
      /\ local_allocated_pages' = [local_allocated_pages EXCEPT ![n] = @ + 1]
      /\ UNCHANGED <<remote_allocated_pages, remote_map, pool_allocated_pages,
                     round_robin_last>>
  BY <1>1 DEF FaultLocal, PlacedLocally, free_local
<1>3. /\ PlaceTypes /\ page \in Nat /\ LocalPages \in Nat
      /\ remote_allocated_pages[n] \in Nat
  BY <1>1, PoolNumbers DEF Placed, PlaceTypes
<1>4. PlaceTypes'
  <2>1. page_table' \in [Nodes -> [VPages -> Nat \cup {NoPage}]]
    BY <1>2, <1>3, TypesAfterFault
  <2> QED
    BY <2>1, <1>2, <1>3 DEF PlaceTypes
<1>5. local_allocated_pages'[n] = page + 1
  BY <1>1, <1>2, <1>3 DEF PlaceTypes
<1>6. PICK v \in VPages : page_table' = [page_table EXCEPT ![n][v] = page]
  BY <1>2, <1>3, FaultFacts
<1>7. PagesOnce(n)
  BY DEF Placed
<1>8. PagesOnce(n)'
  <2>1. ~ Allocated(n, page) /\ Allocated(n, page)'
    BY <1>1, <1>2, <1>3, <1>5 DEF Allocated
  <2>2. Grown(n)
    BY <1>1, <1>2, <1>3, <1>5 DEF Grown
  <2>3. local_allocated_pages'[n] <= LocalPages
    BY <1>2, <1>3, <1>5
  <2>4. pc'[n] # "pool_error" => remote_allocated_pages'[n] <= remote_pages(n)'
    BY <1>2, <1>7, ErrorStays DEF PagesOnce, remote_pages
  <2> QED
    BY <2>1, <2>2, <2>3, <2>4, <1>3, <1>4, <1>6, <1>7, PageEntered DEF PagesOnce
<1>9. ASSUME NEW m \in Nodes \ {n}
      PROVE  PagesOnce(m)'
  <2>1. page_table'[m] = page_table[m] /\ local_allocated_pages'[m] = local_allocated_pages[m]
    BY <1>2, <1>3, <1>6, <1>9 DEF PlaceTypes
  <2>2. PagesOnce(m)
    BY DEF Placed
  <2> QED
    BY <2>1, <2>2, <1>2, <1>9, ErrorStays, OthersKept
<1> QED
  BY <1>2, <1>4, <1>8, <1>9, PoolsAlone DEF Placed

LEMMA RemoteFaultStep ==
  ASSUME Types, \A m \in Nodes : Reading(m), Placed, [Next]_vars,
         NEW n \in Nodes, FaultRemote(n)
  PROVE  Placed'
<1>1. PICK page : page = LocalPages + remote_allocated_pages[n]
  OBVIOUS
<1>2. /\ Fault(n, page) /\ allocate_remote_page(n)
      /\ remote_allocated_pages[n] < remote_pages(n)
      /\ remote_allocated_pages' = [remote_allocated_pages EXCEPT ![n] = @ + 1]
      /\ UNCHANGED <<local_allocated_pages, remote_map, pool_allocated_pages,
                     round_robin_last>>
  BY <1>1 DEF FaultRemote, free_remote, allocate_remote_page
<1>3. PlaceTypes /\ page \in Nat /\ \A m \in Nodes : PagesOnce(m)
  BY <1>1, PoolNumbers DEF Placed, PlaceTypes
<1>4. PlaceTypes'
  <2>1. page_table' \in [Nodes -> [VPages -> Nat \cup {NoPage}]]
    BY <1>2, <1>3, TypesAfterFault
  <2> QED
    BY <2>1, <1>2, <1>3 DEF PlaceTypes
<1>5. remote_allocated_pages[n] < remote_pages(n)'
  BY <1>2 DEF remote_pages
<1>6. \A m \in Nodes : PagesOnce(m)'
  BY <1>2, <1>3, <1>4, <1>5, RemotePage
<1> QED
  BY <1>2, <1>4, <1>6, PoolsAlone DEF Placed

-------------------------------------------------------------------------------
(***************************************************************************)
(* A chunk is granted or refused.                                          *)
(***************************************************************************)
\* What a granted chunk does to the regions of the nodes.
Granted(n, p, last) ==
  /\ last = Len(remote_map[n]) + 1 /\ DOMAIN remote_map'[n] = 1 .. last
  /\ DOMAIN remote_map[n] = 1 .. last - 1
  /\ \A i \in 1 .. last - 1 : remote_map'[n][i] = remote_map[n][i]
  /\ remote_map'[n][last].mem_pool_no = p
  /\ remote_map'[n][last].remote_base = pool_allocated_pages[p]
  /\ \A m \in Nodes \ {n} : remote_map'[m] = remote_map[m]
  /\ pool_allocated_pages' = [pool_allocated_pages EXCEPT ![p] = @ + ChunkPages]
  /\ pool_allocated_pages[p] + ChunkPages <= PoolPages

LEMMA GrantIs ==
  ASSUME PlaceTypes, NEW n \in Nodes, NEW p \in Pools, Grant(n, p)
  PROVE  /\ remote_map' \in [Nodes -> Seq(Entries)]
         /\ pool_allocated_pages' \in [Pools -> Nat]
         /\ Len(remote_map[n]) \in Nat /\ Len(remote_map'[n]) = Len(remote_map[n]) + 1
         /\ Granted(n, p, Len(remote_map[n]) + 1)
<1>1. PICK map, r : /\ map = remote_map[n]
                    /\ r = [mem_pool_no |-> p, remote_base |-> pool_allocated_pages[p]]
  OBVIOUS
<1>2. /\ pool_allocated_pages[p] \in Nat /\ ChunkPages \in Nat /\ PoolPages \in Nat
      /\ map \in Seq(Entries)
      /\ remote_map \in [Nodes -> Seq(Entries)] /\ pool_allocated_pages \in [Pools -> Nat]
  BY <1>1, PoolNumbers DEF PlaceTypes
<1>3. r \in Entries
  BY <1>1, <1>2 DEF Entries
<1>4. remote_map' = [remote_map EXCEPT ![n] = Append(map, r)]
  BY <1>1 DEF Grant
<1>5. /\ Append(map, r) \in Seq(Entries) /\ Len(Append(map, r)) = Len(map) + 1
      /\ Len(map) \in Nat
      /\ DOMAIN Append(map, r) = 1 .. Len(map) + 1 /\ DOMAIN map = 1 .. Len(map)
      /\ \A i \in 1 .. Len(map) : Append(map, r)[i] = map[i]
      /\ Append(map, r)[Len(map) + 1] = r
  BY <1>2, <1>3
<1>6. remote_map'[n] = Append(map, r)
  BY <1>2, <1>4
<1>7. pool_allocated_pages' = [pool_allocated_pages EXCEPT ![p] = @ + ChunkPages]
  BY DEF Grant
<1>8. /\ remote_map' \in [Nodes -> Seq(Entries)]
      /\ \A m \in Nodes \ {n} : remote_map'[m] = remote_map[m]
  BY <1>2, <1>4, <1>5
<1>9. pool_allocated_pages' \in [Pools -> Nat]
  BY <1>2, <1>7
<1>10. pool_allocated_pages[p] + ChunkPages <= PoolPages
  <2>1. PoolPages - pool_allocated_pages[p] >= ChunkPages
    BY DEF Grant
  <2> QED
    BY <2>1, <1>2
<1>11. /\ Len(map) + 1 - 1 = Len(map)
       /\ r.mem_pool_no = p /\ r.remote_base = pool_allocated_pages[p]
  BY <1>1, <1>5
<1> QED
  BY <1>1, <1>5, <1>6, <1>7, <1>8, <1>9, <1>10, <1>11 DEF Granted

\* The new region begins where those of its pool end.
LEMMA RegionsAfterGrant ==
  ASSUME PlaceTypes, PlaceTypes', RegionsApart, NEW n \in Nodes, NEW p \in Pools,
         NEW last \in Nat, Granted(n, p, last)
  PROVE  RegionsApart'
<1>1. \A m \in Nodes : \A i \in DOMAIN remote_map[m] :
        /\ remote_map[m][i].mem_pool_no \in Pools /\ remote_map[m][i].remote_base \in Nat
        /\ remote_map[m][i].remote_base + ChunkPages
             <= pool_allocated_pages[remote_map[m][i].mem_pool_no]
  <2> SUFFICES ASSUME NEW m \in Nodes, NEW i \in DOMAIN remote_map[m]
               PROVE  /\ remote_map[m][i].mem_pool_no \in Pools
                      /\ remote_map[m][i].remote_base \in Nat
    BY DEF RegionsApart
  <2>1. remote_map[m] \in Seq(Entries)
    BY DEF PlaceTypes
  <2>2. remote_map[m][i] \in Entries
    BY <2>1
  <2> QED
    BY <2>2 DEF Entries
<1>2. ASSUME NEW m \in Nodes, NEW i \in DOMAIN remote_map'[m], m # n \/ i # last
      PROVE  i \in DOMAIN remote_map[m] /\ remote_map'[m][i] = remote_map[m][i]
  BY <1>2 DEF Granted
<1>3. /\ pool_allocated_pages[p] \in Nat /\ ChunkPages \in Nat
      /\ pool_allocated_pages'[p] = pool_allocated_pages[p] + ChunkPages
      /\ \A q \in Pools \ {p} : pool_allocated_pages'[q] = pool_allocated_pages[q]
      /\ \A q \in Pools : pool_allocated_pages[q] \in Nat
  BY PoolNumbers DEF Granted, PlaceTypes
<1>4. /\ last \in DOMAIN remote_map'[n]
      /\ remote_map'[n][last].mem_pool_no = p
      /\ remote_map'[n][last].remote_base = pool_allocated_pages[p]
  BY DEF Granted, PlaceTypes
<1>5. ASSUME NEW m \in Nodes, NEW i \in DOMAIN remote_map'[m]
      PROVE  remote_map'[m][i].remote_base + ChunkPages
               <= pool_allocated_pages'[remote_map'[m][i].mem_pool_no]
  <2>1. CASE m = n /\ i = last
    BY <2>1, <1>3, <1>4
  <2>2. CASE m # n \/ i # last
    <3>1. PICK q, b : /\ q = remote_map[m][i].mem_pool_no
                      /\ b = remote_map[m][i].remote_base
      OBVIOUS
    <3>2. q \in Pools /\ b \in Nat /\ b + ChunkPages <= pool_allocated_pages[q]
      BY <3>1, <2>2, <1>1, <1>2
    <3>3. b + ChunkPages <= pool_allocated_pages'[q]
      BY <3>2, <1>3
    <3> QED
      BY <3>1, <3>3, <2>2, <1>2
  <2> QED
    BY <2>1, <2>2
\* A region of before against the new one.
<1>6. ASSUME NEW m \in Nodes, NEW i \in DOMAIN remote_map[m]
      PROVE  /\ Apart(remote_map[m][i], remote_map'[n][last])
             /\ Apart(remote_map'[n][last], remote_map[m][i])
  BY <1>1, <1>3, <1>4 DEF Apart
<1>7. ASSUME NEW m \in Nodes, NEW k \in Nodes,
             NEW i \in DOMAIN remote_map'[m], NEW j \in DOMAIN remote_map'[k],
             m # k \/ i # j
      PROVE  Apart(remote_map'[m][i], remote_map'[k][j])
  <2>1. CASE m = n /\ i = last
    BY <2>1, <1>2, <1>6, <1>7
  <2>2. CASE k = n /\ j = last
    BY <2>2, <1>2, <1>6, <1>7
  <2>3. CASE (m # n \/ i # last) /\ (k # n \/ j # last)
    BY <2>3, <1>2, <1>7 DEF RegionsApart
  <2> QED
    BY <2>1, <2>2, <2>3
<1>8. \A r, s : Apart(r, s)' <=> Apart(r, s)
  BY DEF Apart
<1> QED
  BY <1>5, <1>7, <1>8 DEF RegionsApart, Apart

\* One more chunk of the pool, the same of the others.
LEMMA ChunkAdded ==
  ASSUME PlaceTypes, PlaceTypes', ChunksCounted, NEW n \in Nodes, NEW p \in Pools,
         NEW last \in Nat, Granted(n, p, last)
  PROVE  /\ ChunksCounted'
         /\ Given(p)' = Given(p) + 1 /\ Given(p) \in Nat
         /\ \A q \in Pools \ {p} : Given(q)' = Given(q)
<1>a. \A m \in Nodes : \A i \in DOMAIN remote_map'[m] :
        \/ m = n /\ i = last
        \/ i \in DOMAIN remote_map[m] /\ remote_map'[m][i] = remote_map[m][i]
  BY DEF Granted
<1>b. \A m \in Nodes : \A i \in DOMAIN remote_map[m] :
        i \in DOMAIN remote_map'[m] /\ remote_map'[m][i] = remote_map[m][i]
  BY DEF Granted
<1>c. remote_map'[n][last].mem_pool_no = p
  BY DEF Granted
<1>1. <<n, last>> \notin Chunks(p)
  BY ChunkIs DEF Granted
<1>2. Chunks(p)' = Chunks(p) \cup {<<n, last>>}
  <2>1. ASSUME NEW e
        PROVE  e \in Chunks(p)' <=> e \in Chunks(p) \/ e = <<n, last>>
    <3>1. e \in Chunks(p)' <=>
            \E m \in Nodes : \E i \in DOMAIN remote_map'[m] :
              e = <<m, i>> /\ remote_map'[m][i].mem_pool_no = p
      BY DEF Chunks
    <3>2. e \in Chunks(p) <=>
            \E m \in Nodes : \E i \in DOMAIN remote_map[m] :
              e = <<m, i>> /\ remote_map[m][i].mem_pool_no = p
      BY ChunkIs
    <3>3. ASSUME NEW m \in Nodes, NEW i \in DOMAIN remote_map'[m],
                 e = <<m, i>>, remote_map'[m][i].mem_pool_no = p
          PROVE  \/ e = <<n, last>>
                 \/ i \in DOMAIN remote_map[m] /\ remote_map[m][i].mem_pool_no = p
      BY <3>3, <1>a
    <3>4. ASSUME NEW m \in Nodes, NEW i \in DOMAIN remote_map[m],
                 e = <<m, i>>, remote_map[m][i].mem_pool_no = p
          PROVE  i \in DOMAIN remote_map'[m] /\ remote_map'[m][i].mem_pool_no = p
      BY <3>4, <1>b
    <3>5. last \in DOMAIN remote_map'[n]
      BY DEF Granted
    <3> QED
      BY <3>1, <3>2, <3>3, <3>4, <3>5, <1>c, Zenon
  <2> QED
    BY <2>1
<1>3. ASSUME NEW q \in Pools \ {p}
      PROVE  Chunks(q)' = Chunks(q)
  <2>1. ASSUME NEW e
        PROVE  e \in Chunks(q)' <=> e \in Chunks(q)
    <3>1. e \in Chunks(q)' <=>
            \E m \in Nodes : \E i \in DOMAIN remote_map'[m] :
              e = <<m, i>> /\ remote_map'[m][i].mem_pool_no = q
      BY DEF Chunks
    <3>2. e \in Chunks(q) <=>
            \E m \in Nodes : \E i \in DOMAIN remote_map[m] :
              e = <<m, i>> /\ remote_map[m][i].mem_pool_no = q
      BY ChunkIs
    <3>3. q # p
      BY <1>3
    <3>4. ASSUME NEW m \in Nodes, NEW i \in DOMAIN remote_map'[m],
                 e = <<m, i>>, remote_map'[m][i].mem_pool_no = q
          PROVE  i \in DOMAIN remote_map[m] /\ remote_map[m][i].mem_pool_no = q
      BY <3>3, <3>4, <1>a, <1>c
    <3>5. ASSUME NEW m \in Nodes, NEW i \in DOMAIN remote_map[m],
                 e = <<m, i>>, remote_map[m][i].mem_pool_no = q
          PROVE  i \in DOMAIN remote_map'[m] /\ remote_map'[m][i].mem_pool_no = q
      BY <3>5, <1>b
    <3> QED
      BY <3>1, <3>2, <3>4, <3>5, Zenon
  <2> QED
    BY <2>1
<1>4. /\ IsFiniteSet(Chunks(p)) /\ pool_allocated_pages[p] = ChunkPages * Given(p)
      /\ Given(p) \in Nat
  BY FS_CardinalityType DEF ChunksCounted, Given
<1>5. IsFiniteSet(Chunks(p)') /\ Given(p)' = Given(p) + 1
  <2>1. PICK S, e : S = Chunks(p) /\ e = <<n, last>>
    OBVIOUS
  <2>2. /\ IsFiniteSet(S \cup {e})
        /\ Cardinality(S \cup {e}) = Cardinality(S) + 1
    BY <2>1, <1>1, <1>4, FS_AddElement
  <2>3. Given(p)' = Cardinality(Chunks(p)') /\ Given(p) = Cardinality(S)
    BY <2>1 DEF Given
  <2>4. Chunks(p)' = S \cup {e}
    BY <2>1, <1>2, Zenon
  <2> QED
    BY <2>2, <2>3, <2>4, Zenon
<1>6. \A q \in Pools \ {p} : Given(q)' = Given(q)
  BY <1>3 DEF Given
<1>7. /\ pool_allocated_pages'[p] = pool_allocated_pages[p] + ChunkPages
      /\ pool_allocated_pages'[p] <= PoolPages
      /\ \A q \in Pools \ {p} : pool_allocated_pages'[q] = pool_allocated_pages[q]
  BY DEF Granted, PlaceTypes
<1>8. pool_allocated_pages'[p] = ChunkPages * Given(p)'
  BY <1>4, <1>5, <1>7, PagesMultiply
<1> QED
  BY <1>3, <1>4, <1>5, <1>6, <1>7, <1>8 DEF ChunksCounted

\* The pool selected after this one is the next of the circle.
NextAfter(k) == IF k = NumPools - 1 THEN 0 ELSE k + 1

LEMMA SelectionMoves ==
  ASSUME PlaceTypes, NEW n \in Nodes,
         round_robin_last' = IF NumPools = 1 THEN round_robin_last ELSE NextLast
  PROVE  /\ round_robin_last' \in 1 .. NumPools + 1
         /\ NumPools = 1 => round_robin_last' = 1
         /\ NextPool' = NextAfter(NextPool)
<1>1. NumPools \in Nat \ {0} /\ round_robin_last \in 1 .. NumPools + 1
  BY PoolNumbers DEF PlaceTypes
<1>2. NextPool \in 0 .. NumPools - 1
  BY NextSelected DEF Pools
<1>3. CASE NumPools = 1
  BY <1>1, <1>2, <1>3 DEF PlaceTypes, NextPool, NextAfter
<1>4. CASE NumPools # 1
  <2>1. NextLast \in 1 .. NumPools + 1 /\ NextLast - 1 = NextPool + 1
    BY <1>1, <1>4, NextSelected
  <2>2. PICK l, k : l = NextLast /\ k = NextPool
    OBVIOUS
  <2>3. round_robin_last' = l
    BY <1>4, <2>2
  <2>4. NextPool' = IF l > NumPools THEN 0 ELSE l - 1
    BY <2>3 DEF NextPool
  <2>5. l \in 1 .. NumPools + 1 /\ l - 1 = k + 1 /\ k \in 0 .. NumPools - 1
    BY <1>2, <2>1, <2>2
  <2>6. (IF l > NumPools THEN 0 ELSE l - 1) = NextAfter(k)
    BY <1>1, <2>5 DEF NextAfter
  <2> QED
    BY <1>4, <2>2, <2>3, <2>4, <2>5, <2>6
<1> QED
  BY <1>3, <1>4

LEMMA TurnAfterGrant ==
  ASSUME PlaceTypes, ChunksCounted, NEW c \in Nat, InTurn(c),
         NEW k \in Pools, k = NextPool,
         PoolPages - pool_allocated_pages[k] >= ChunkPages,
         NextPool' = NextAfter(k), Given(k)' = Given(k) + 1,
         \A q \in Pools \ {k} : Given(q)' = Given(q)
  PROVE  \E d \in Nat : InTurn(d)'
<1>1. k = NextPool
  OBVIOUS
<1>2. /\ NumPools \in Nat \ {0} /\ k \in 0 .. NumPools - 1 /\ Pools = 0 .. NumPools - 1
      /\ PoolPages \in Nat /\ ChunkPages \in Nat /\ pool_allocated_pages[k] \in Nat
  BY <1>1, PoolNumbers DEF Pools, PlaceTypes
<1>3. \A p \in Pools : Given(p) = c + (IF p < k THEN 1 ELSE 0)
  <2>1. ~ (PoolPages - pool_allocated_pages[k] < ChunkPages)
    BY <1>1, <1>2
  <2> QED
    BY <2>1, <1>1, <1>2 DEF InTurn
<1>4. \A p \in Pools : Given(p)' = c + (IF p < k \/ p = k THEN 1 ELSE 0)
  <2> SUFFICES ASSUME NEW p \in Pools
               PROVE  Given(p)' = c + (IF p < k \/ p = k THEN 1 ELSE 0)
    OBVIOUS
  <2>1. CASE p = k
    <3>1. Given(k)' = Given(k) + 1
      OBVIOUS
    <3>2. Given(k) = c
      BY <1>2, <1>3
    <3> QED
      BY <2>1, <3>1, <3>2
  <2>2. CASE p # k
    BY <2>2, <1>1, <1>3
  <2> QED
    BY <2>1, <2>2
<1>5. CASE k = NumPools - 1
  <2>1. NextPool' = 0
    BY <1>1, <1>5 DEF NextAfter
  <2>2. \A p \in Pools : Given(p)' = (c + 1) + (IF p < 0 THEN 1 ELSE 0)
    BY <1>2, <1>4, <1>5
  <2>3. InTurn(c + 1)'
    BY <2>1, <2>2 DEF InTurn
  <2> QED
    BY <2>3
<1>6. CASE k # NumPools - 1
  <2>1. NextPool' = k + 1
    BY <1>1, <1>6 DEF NextAfter
  <2>2. \A p \in Pools : Given(p)' = c + (IF p < k + 1 THEN 1 ELSE 0)
    BY <1>2, <1>4
  <2>3. InTurn(c)'
    BY <2>1, <2>2 DEF InTurn
  <2> QED
    BY <2>3
<1> QED
  BY <1>5, <1>6

\* A refusal shows that all pools have run out.
LEMMA TurnAfterRefusal ==
  ASSUME PlaceTypes, ChunksCounted, NEW c \in Nat, InTurn(c),
         NEW k \in Pools, k = NextPool,
         PoolPages - pool_allocated_pages[k] < ChunkPages
  PROVE  \A p \in Pools : /\ Given(p) = c
                          /\ PoolPages - pool_allocated_pages[p] < ChunkPages
<1>1. k = NextPool
  OBVIOUS
<1>2. SUFFICES ASSUME \A p \in Pools : Given(p) = c + (IF p < k THEN 1 ELSE 0)
               PROVE  \A p \in Pools : /\ Given(p) = c
                                       /\ PoolPages - pool_allocated_pages[p] < ChunkPages
  BY <1>1 DEF InTurn
<1>3. /\ NumPools \in Nat \ {0} /\ k \in Pools /\ Pools = 0 .. NumPools - 1
      /\ PoolPages \in Nat /\ ChunkPages \in Nat
  BY <1>1, PoolNumbers DEF Pools
<1>4. ChunkPages * c \in Nat /\ ChunkPages * (c + 1) = ChunkPages * c + ChunkPages
  BY PagesMultiply
<1>5. Given(k) = c /\ pool_allocated_pages[k] = ChunkPages * c
  BY <1>2, <1>3 DEF ChunksCounted
<1>6. PoolPages - ChunkPages * c < ChunkPages
  BY <1>1, <1>5
<1>7. ASSUME NEW p \in Pools
      PROVE  ~ (p < k)
  <2> SUFFICES ASSUME p < k
               PROVE  FALSE
    OBVIOUS
  <2>1. Given(p) = c + 1
    BY <1>2
  <2>2. /\ pool_allocated_pages[p] = ChunkPages * (c + 1)
        /\ pool_allocated_pages[p] <= PoolPages
    BY <2>1 DEF ChunksCounted
  <2>3. ChunkPages * c + ChunkPages <= PoolPages
    BY <2>2, <1>4
  <2>4. PICK x : x = ChunkPages * c
    OBVIOUS
  <2> QED
    BY <2>3, <2>4, <1>3, <1>4, <1>6
<1>8. \A p \in Pools : Given(p) = c
  BY <1>2, <1>7
<1>9. \A p \in Pools : pool_allocated_pages[p] = ChunkPages * c
  BY <1>8 DEF ChunksCounted
<1> QED
  BY <1>6, <1>8, <1>9

LEMMA ChunkFaultStep ==
  ASSUME Types, \A m \in Nodes : Reading(m), Placed, [Next]_vars,
         NEW n \in Nodes, FaultWithChunk(n)
  PROVE  Placed'
<1>1. PICK page, a, k : /\ a = remote_allocated_pages[n] /\ page = LocalPages + a
                        /\ k = NextPool
  OBVIOUS
<1>2. /\ PlaceTypes /\ RegionsApart /\ ChunksCounted
      /\ \A m \in Nodes : PagesOnce(m)
  BY DEF Placed
<1>3. PICK c \in Nat : InTurn(c)
  BY DEF Placed
<1>4. /\ k \in Pools /\ page \in Nat /\ a \in Nat /\ LocalPages \in Nat
  BY <1>1, <1>2, NextSelected, PoolNumbers DEF PlaceTypes
<1>5. /\ Fault(n, page) /\ allocate_remote_page(n) /\ ~ free_remote(n)
      /\ remote_allocated_pages' = [remote_allocated_pages EXCEPT ![n] = @ + 1]
      /\ UNCHANGED local_allocated_pages
      /\ round_robin_last' = IF NumPools = 1 THEN round_robin_last ELSE NextLast
      /\ Grant(n, k) \/ Refuse(k)
  BY <1>1, <1>2, NextSelected DEF FaultWithChunk, allocate_remote_page
<1>6. /\ round_robin_last' \in 1 .. NumPools + 1
      /\ NumPools = 1 => round_robin_last' = 1
      /\ NextPool' = NextAfter(k)
  BY <1>1, <1>2, <1>5, SelectionMoves
<1>7. page_table' \in [Nodes -> [VPages -> Nat \cup {NoPage}]]
  BY <1>2, <1>4, <1>5, TypesAfterFault
<1>8. /\ remote_allocated_pages' \in [Nodes -> Nat]
      /\ local_allocated_pages' \in [Nodes -> Nat]
  BY <1>2, <1>5 DEF PlaceTypes
<1>9. ~ (a < remote_pages(n))
  BY <1>1, <1>5 DEF free_remote
<1>10. remote_map[n] \in Seq(Entries) /\ Len(remote_map[n]) \in Nat
  BY <1>2 DEF PlaceTypes
<1>11. CASE Grant(n, k)
  <2>1. PICK last : last = Len(remote_map[n]) + 1
    OBVIOUS
  <2>2. /\ remote_map' \in [Nodes -> Seq(Entries)]
        /\ pool_allocated_pages' \in [Pools -> Nat]
        /\ last \in Nat /\ Len(remote_map'[n]) = last
        /\ Granted(n, k, last)
    BY <1>2, <1>4, <1>11, <2>1, GrantIs
  <2>3. PlaceTypes'
    BY <1>6, <1>7, <1>8, <2>2 DEF PlaceTypes
  <2>4. pc'[n] # "pool_error" => a < remote_pages(n)'
    <3> SUFFICES ASSUME pc'[n] # "pool_error"
                 PROVE  a < remote_pages(n)'
      OBVIOUS
    <3>1. a <= ChunkPages * Len(remote_map[n])
      BY <1>1, <1>2, ErrorStays DEF PagesOnce, remote_pages
    <3>2. PICK x : x = ChunkPages * Len(remote_map[n])
      OBVIOUS
    <3>3. x \in Nat /\ remote_pages(n)' = x + ChunkPages
      BY <1>10, <2>1, <2>2, <3>2, PagesMultiply DEF remote_pages
    <3> QED
      BY <3>1, <3>2, <3>3, <1>4, PoolNumbers
  <2>5. \A m \in Nodes : PagesOnce(m)'
    <3>1. \A m \in Nodes \ {n} : remote_map'[m] = remote_map[m]
      BY <2>2 DEF Granted
    <3> QED
      BY <3>1, <1>1, <1>2, <1>5, <2>3, <2>4, RemotePage
  <2>6. RegionsApart'
    BY <1>2, <1>4, <2>2, <2>3, RegionsAfterGrant
  <2>7. /\ ChunksCounted' /\ Given(k)' = Given(k) + 1
        /\ \A q \in Pools \ {k} : Given(q)' = Given(q)
    BY <1>2, <1>4, <2>2, <2>3, ChunkAdded
  <2>8. PoolPages - pool_allocated_pages[k] >= ChunkPages
    BY <1>11 DEF Grant
  <2>9. \E d \in Nat : InTurn(d)'
    BY <1>1, <1>2, <1>3, <1>4, <1>6, <2>7, <2>8, TurnAfterGrant
  <2> QED
    BY <2>3, <2>5, <2>6, <2>7, <2>9 DEF Placed
<1>12. CASE Refuse(k)
  <2>1. /\ UNCHANGED <<remote_map, pool_allocated_pages>>
        /\ PoolPages - pool_allocated_pages[k] < ChunkPages
    BY <1>12 DEF Refuse
  <2>2. PlaceTypes'
    BY <1>2, <1>6, <1>7, <1>8, <2>1 DEF PlaceTypes
  \* The page lies in no region.
  <2>3. pc'[n] = "pool_error"
    <3>1. /\ a \div ChunkPages \in Nat
          /\ ~ (a \div ChunkPages < Len(remote_map[n]))
      BY <1>4, <1>9, <1>10, Division DEF remote_pages
    <3>2. Region(page) = a \div ChunkPages + 1
      <4>1. page - LocalPages = a
        BY <1>1, <1>4
      <4> QED
        BY <4>1 DEF Region
    <3>3. Region(page) \notin DOMAIN remote_map[n]
      BY <3>1, <3>2, <1>10
    <3>4. find_remote_pool(remote_map'[n], page) = NoPool
      BY <3>3, <2>1 DEF find_remote_pool
    <3>5. ~ is_local(page)
      BY <1>1, <1>4 DEF is_local
    <3> QED
      BY <3>4, <3>5, <1>2, <1>5, FaultFacts
  <2>4. \A m \in Nodes : PagesOnce(m)'
    BY <2>1, <2>2, <2>3, <1>2, <1>5, RemotePage
  <2>5. \A p \in Pools : Chunks(p)' = Chunks(p) /\ Given(p)' = Given(p)
    BY <2>1 DEF Chunks, Given
  <2>6. RegionsApart' /\ ChunksCounted'
    BY <1>2, <2>1, <2>5 DEF RegionsApart, ChunksCounted
  <2>7. \A p \in Pools : /\ Given(p) = c
                         /\ PoolPages - pool_allocated_pages[p] < ChunkPages
    BY <1>1, <1>2, <1>3, <1>4, <2>1, TurnAfterRefusal
  <2>8. InTurn(c)'
    BY <2>1, <2>5, <2>7 DEF InTurn
  <2> QED
    BY <2>2, <2>4, <2>6, <2>8 DEF Placed
<1> QED
  BY <1>5, <1>11, <1>12

-------------------------------------------------------------------------------
LEMMA PlacedInit ==
  ASSUME Init
  PROVE  Placed
<1>1. PlaceTypes
  <2>1. << >> \in Seq(Entries)
    OBVIOUS
  <2> QED
    BY <2>1, PoolNumbers DEF Init, PlaceTypes
<1>2. \A p \in Pools : Chunks(p) = {} /\ Given(p) = 0
  <2>1. \A p \in Pools : Chunks(p) = {}
    BY DEF Init, Chunks
  <2> QED
    BY <2>1, FS_EmptySet DEF Given
<1>3. RegionsApart
  BY DEF Init, RegionsApart
<1>4. ChunksCounted
  <2>1. ChunkPages * 0 = 0 /\ 0 <= PoolPages
    BY PoolNumbers
  <2>2. \A p \in Pools : pool_allocated_pages[p] = 0
    BY DEF Init
  <2>3. \A p \in Pools : IsFiniteSet(Chunks(p))
    BY <1>2, FS_EmptySet
  <2> QED
    BY <1>2, <2>1, <2>2, <2>3 DEF ChunksCounted
<1>5. \A n \in Nodes : PagesOnce(n)
  <2>1. ASSUME NEW n \in Nodes
        PROVE  remote_pages(n) = 0
    BY PoolNumbers DEF Init, remote_pages
  <2> QED
    BY <2>1, PoolNumbers DEF Init, PagesOnce
<1>6. InTurn(0)
  BY <1>2, PoolNumbers DEF Init, InTurn, NextPool, Pools
<1> QED
  BY <1>1, <1>3, <1>4, <1>5, <1>6 DEF Placed

LEMMA PlacedNext ==
  ASSUME Steps, Placed, [Next]_vars
  PROVE  Placed'
<1>1. Types /\ \A n \in Nodes : Reading(n)
  BY DEF Steps
<1>2. \/ UNCHANGED memoryVars
      \/ \E n \in Nodes : FaultLocal(n) \/ FaultRemote(n) \/ FaultWithChunk(n)
  BY DEF Next, Thread, Issue, Release, Test, Hit, IssueDone, Update, PoolsAndNetwork, Tick,
         Leave, Drain, vars
<1> QED
  BY <1>1, <1>2, PlacedUnchanged, LocalFaultStep, RemoteFaultStep, ChunkFaultStep

-------------------------------------------------------------------------------
(***************************************************************************)
(* What the invariant says of places.                                      *)
(***************************************************************************)
\* A remote page is in a region of its node, at an offset of less than a chunk.
LEMMA WherePageIs ==
  ASSUME Placed, NEW n \in Nodes, NEW v \in VPages, pc[n] # "pool_error",
         NEW page, page = page_table[n][v], page # NoPage, ~ is_local(page)
  PROVE  \E i \in DOMAIN remote_map[n], off \in 0 .. ChunkPages - 1 :
           /\ remote_map[n][i].remote_base \in Nat
           /\ page = LocalPages + ChunkPages * (i - 1) + off
           /\ Place(n, v) = <<"pool", remote_map[n][i].mem_pool_no,
                              remote_map[n][i].remote_base + off>>
<1>1. PICK a : a = page - LocalPages
  OBVIOUS
<1>2. /\ Allocated(n, page) /\ local_allocated_pages[n] <= LocalPages
      /\ remote_allocated_pages[n] <= remote_pages(n)
  BY DEF Placed, PagesOnce
<1>3. /\ remote_map[n] \in Seq(Entries) /\ remote_allocated_pages[n] \in Nat
      /\ local_allocated_pages[n] \in Nat /\ LocalPages \in Nat
      /\ Len(remote_map[n]) \in Nat
  BY PoolNumbers DEF Placed, PlaceTypes
<1>4. /\ page \in Nat /\ LocalPages <= page
      /\ page < LocalPages + remote_allocated_pages[n]
  BY <1>2, <1>3 DEF Allocated, is_local
<1>5. a \in Nat /\ page = LocalPages + a /\ a < remote_allocated_pages[n]
  BY <1>1, <1>3, <1>4
<1>6. a < ChunkPages * Len(remote_map[n])
  <2>1. ChunkPages * Len(remote_map[n]) \in Nat
    BY <1>3, PagesMultiply
  <2> QED
    BY <2>1, <1>2, <1>3, <1>5 DEF remote_pages
<1>7. PICK d, off : d = a \div ChunkPages /\ off = a % ChunkPages
  OBVIOUS
<1>8. /\ d \in Nat /\ off \in 0 .. ChunkPages - 1 /\ d < Len(remote_map[n])
      /\ a = ChunkPages * d + off
  BY <1>3, <1>5, <1>6, <1>7, Division
<1>9. Region(page) = d + 1
  BY <1>1, <1>7 DEF Region
<1>10. d + 1 \in DOMAIN remote_map[n]
  BY <1>3, <1>8
<1>11. remote_map[n][d + 1].remote_base \in Nat
  <2>1. remote_map[n][d + 1] \in Entries
    BY <1>3, <1>10
  <2> QED
    BY <2>1 DEF Entries
<1>12. page = LocalPages + ChunkPages * ((d + 1) - 1) + off
  <2>1. (d + 1) - 1 = d
    BY <1>8
  <2>2. ChunkPages * d \in Nat
    BY <1>8, PagesMultiply
  <2> QED
    BY <2>1, <2>2, <1>3, <1>5, <1>8
<1>13. Place(n, v) = <<"pool", remote_map[n][d + 1].mem_pool_no,
                       remote_map[n][d + 1].remote_base + off>>
  BY <1>1, <1>7, <1>9, <1>10 DEF Place, find_remote_pool, remote_page_addr
<1> QED
  BY <1>8, <1>10, <1>11, <1>12, <1>13

LEMMA SamePlace ==
  ASSUME NEW a, NEW b, NEW c, NEW d, NEW e, <<a, b, c>> = <<a, d, e>>
  PROVE  b = d /\ c = e
OBVIOUS

LEMMA PlacesDiffer ==
  ASSUME Placed, NEW n \in Nodes, NEW v \in VPages, NEW m \in Nodes, NEW w \in VPages,
         pc[n] # "pool_error", pc[m] # "pool_error",
         page_table[n][v] # NoPage, page_table[m][w] # NoPage,
         Place(n, v) = Place(m, w)
  PROVE  n = m /\ v = w
<1>1. PICK p, q : p = page_table[n][v] /\ q = page_table[m][w]
  OBVIOUS
<1>2. ASSUME n = m, p = q
      PROVE  n = m /\ v = w
  BY <1>1, <1>2 DEF Placed, PagesOnce
<1>3. is_local(p) => Place(n, v) = <<"local", n, p>>
  BY <1>1 DEF Place
<1>4. is_local(q) => Place(m, w) = <<"local", m, q>>
  BY <1>1 DEF Place
<1>5. CASE is_local(p) /\ is_local(q)
  BY <1>2, <1>3, <1>4, <1>5
<1>6. CASE ~ is_local(p) /\ is_local(q)
  <2>1. \E a, b : Place(n, v) = <<"pool", a, b>>
    BY <1>1, <1>6, WherePageIs
  <2> QED
    BY <2>1, <1>4, <1>6
<1>7. CASE is_local(p) /\ ~ is_local(q)
  <2>1. \E a, b : Place(m, w) = <<"pool", a, b>>
    BY <1>1, <1>7, WherePageIs
  <2> QED
    BY <2>1, <1>3, <1>7
<1>8. CASE ~ is_local(p) /\ ~ is_local(q)
  <2>1. PICK i \in DOMAIN remote_map[n], x \in 0 .. ChunkPages - 1 :
          /\ remote_map[n][i].remote_base \in Nat
          /\ p = LocalPages + ChunkPages * (i - 1) + x
          /\ Place(n, v) = <<"pool", remote_map[n][i].mem_pool_no,
                             remote_map[n][i].remote_base + x>>
    BY <1>1, <1>8, WherePageIs
  <2>2. PICK j \in DOMAIN remote_map[m], y \in 0 .. ChunkPages - 1 :
          /\ remote_map[m][j].remote_base \in Nat
          /\ q = LocalPages + ChunkPages * (j - 1) + y
          /\ Place(m, w) = <<"pool", remote_map[m][j].mem_pool_no,
                             remote_map[m][j].remote_base + y>>
    BY <1>1, <1>8, WherePageIs
  <2>3. PICK a, b : a = remote_map[n][i].remote_base /\ b = remote_map[m][j].remote_base
    OBVIOUS
  <2>4. /\ remote_map[n][i].mem_pool_no = remote_map[m][j].mem_pool_no
        /\ a + x = b + y
    <3>1. PICK r, s, t, u : /\ r = remote_map[n][i].mem_pool_no /\ s = a + x
                            /\ t = remote_map[m][j].mem_pool_no /\ u = b + y
      OBVIOUS
    <3>2. Place(n, v) = <<"pool", r, s>> /\ Place(m, w) = <<"pool", t, u>>
      BY <2>1, <2>2, <2>3, <3>1
    <3>3. <<"pool", r, s>> = <<"pool", t, u>>
      BY <3>2, Zenon
    <3>4. r = t /\ s = u
      BY <3>3, SamePlace, Zenon
    <3> QED
      BY <3>1, <3>4, Zenon
  <2>5. a \in Nat /\ b \in Nat /\ ChunkPages \in Nat
    BY <2>1, <2>2, <2>3, PoolNumbers
  <2>6. n = m /\ i = j
    <3> SUFFICES ASSUME n # m \/ i # j
                 PROVE  FALSE
      OBVIOUS
    <3>1. a + ChunkPages <= b \/ b + ChunkPages <= a
      BY <2>3, <2>4 DEF Placed, RegionsApart, Apart
    <3> QED
      BY <3>1, <2>4, <2>5
  <2>7. x = y
    <3>1. a = b
      BY <2>3, <2>6
    <3> QED
      BY <3>1, <2>4, <2>5
  <2>8. p = q
    BY <2>1, <2>2, <2>6, <2>7
  <2> QED
    BY <1>2, <2>6, <2>8
<1> QED
  BY <1>5, <1>6, <1>7, <1>8

\* The chunks that nodes ask for come from the pools in turn, in whatever order the
\* nodes fault and whatever they are refused, and no two pages of the rack are at the
\* same place, but for nodes whose pool has run out.
THEOREM ChunksInTurn == Spec => []PlacedInTurn
<1>1. Placed => PlacedInTurn
  <2> SUFFICES ASSUME Placed
               PROVE  PlacedInTurn
    OBVIOUS
  <2>1. \A p, q \in Pools : Given(p) <= Given(q) + 1
    <3>1. PICK c \in Nat : InTurn(c)
      BY DEF Placed
    <3> QED
      BY <3>1 DEF InTurn
  <2>2. ASSUME NEW e \in Nodes \X VPages, NEW f \in Nodes \X VPages,
               pc[e[1]] # "pool_error", page_table[e[1]][e[2]] # NoPage,
               pc[f[1]] # "pool_error", page_table[f[1]][f[2]] # NoPage,
               Place(e[1], e[2]) = Place(f[1], f[2])
        PROVE  e = f
    <3>1. e[1] = f[1] /\ e[2] = f[2]
      BY <2>2, PlacesDiffer
    <3> QED
      BY <3>1
  <2> QED
    BY <2>1, <2>2 DEF PlacedInTurn, Given
<1>2. Init => Steps /\ Placed
  BY StepsInit, PlacedInit
<1>3. (Steps /\ Placed) /\ [Next]_vars => (Steps /\ Placed)'
  BY StepsNext, PlacedNext
<1> QED
  BY <1>1, <1>2, <1>3, PTL DEF Spec
===============================================================================
