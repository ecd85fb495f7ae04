-------------------------- MODULE NodeThreadsProofs --------------------------
(***************************************************************************)
(* Proofs about NodeThreads, for every number of nodes and every workload: *)
(* the three barriers keep the threads in one of three phases, and from    *)
(* the phases, the loop over Sim_complete and the clock the threads have   *)
(* seen follow the safety properties the run checks.                       *)
(***************************************************************************)
EXTENDS NodeThreads, TLAPS

USE DEF Nodes

LEMMA ZeroIsNode == 0 \in Nodes
BY ThreadsAssumption

\* What is handed to the cores is there, and there is room for it.
LEMMA ScheduledFits ==
  ASSUME TypeOK, NEW n \in Nodes
  PROVE  /\ Scheduled(n) \in Nat
         /\ Scheduled(n) <= inst_stream[n]
         /\ core_inst_stream[n] + Scheduled(n) <= Batch
<1>1. inst_stream[n] \in Nat /\ core_inst_stream[n] \in 0 .. Batch
  BY DEF TypeOK
<1>2. Batch - core_inst_stream[n] \in Nat
  BY <1>1, ThreadsAssumption
<1>3. QED
  BY <1>1, <1>2, ThreadsAssumption DEF Scheduled

\* One cycle of a node, spelled out for that node and the others.
LEMMA SimulateEffect ==
  ASSUME TypeOK, NEW n \in Nodes, Simulate(n)
  PROVE  \E taken \in Nat, done \in Nat :
           /\ taken <= core_inst_stream[n] + Scheduled(n)
           /\ done <= TakenIn(n) - committed[n]
           /\ inst_stream' = [inst_stream EXCEPT ![n] = @ - Scheduled(n)]
           /\ core_inst_stream' =
                [core_inst_stream EXCEPT ![n] = @ + Scheduled(n) - taken]
           /\ committed' = [committed EXCEPT ![n] = @ + done]
<1>1. PICK taken \in 0 .. core_inst_stream[n] + Scheduled(n) :
        core_inst_stream' = [core_inst_stream EXCEPT ![n] = @ + Scheduled(n) - taken]
  BY DEF Simulate, SimulateAs
<1>2. PICK done \in 0 .. TakenIn(n) - committed[n] :
        committed' = [committed EXCEPT ![n] = @ + done]
  BY DEF Simulate, SimulateAs
<1>3. inst_stream' = [inst_stream EXCEPT ![n] = @ - Scheduled(n)]
  BY DEF Simulate, SimulateAs
<1>4. core_inst_stream[n] + Scheduled(n) \in Nat
  <2>1. core_inst_stream[n] \in Nat /\ Scheduled(n) \in Nat
    BY ScheduledFits DEF TypeOK
  <2>2. QED
    BY <2>1
<1>5. TakenIn(n) - committed[n] \in Int
  <2>1. /\ inst_stream[n] \in Nat /\ core_inst_stream[n] \in Int
        /\ committed[n] \in Nat /\ Workload[n] \in Nat
    BY ThreadsAssumption DEF TypeOK
  <2>2. QED
    BY <2>1 DEF TakenIn
<1>6. taken \in Nat /\ taken <= core_inst_stream[n] + Scheduled(n)
  BY <1>4
<1>7. done \in Nat /\ done <= TakenIn(n) - committed[n]
  BY <1>5
<1>8. QED
  BY <1>1, <1>2, <1>3, <1>6, <1>7

-------------------------------------------------------------------------------
\* The variables keep their types: the queues of the cores never grow beyond
\* Batch, the counter not beyond its bound, and the loop over Sim_complete never
\* looks at a node that does not exist.
THEOREM TypeCorrect == Spec => []TypeOK
<1>1. Init => TypeOK
  <2>1. 0 \in 0 .. ClockModulus - 1 /\ 0 \in 0 .. Batch /\ 0 \in 0 .. MaxCounter + 1
    BY ThreadsAssumption
  <2>2. "top" \in PcStates /\ FALSE \in BOOLEAN
    BY DEF PcStates
  <2>3. Workload \in [Nodes -> Nat]
    BY ThreadsAssumption
  <2>4. Init => /\ pc \in [Nodes -> PcStates]
                /\ inst_stream \in [Nodes -> Nat]
                /\ core_inst_stream \in [Nodes -> 0 .. Batch]
                /\ committed \in [Nodes -> Nat]
                /\ now \in [Nodes -> 0 .. ClockModulus - 1]
    BY <2>1, <2>2, <2>3 DEF Init
  <2>5. Init => /\ loaded \in [Nodes -> 0 .. MaxCounter + 1]
                /\ Sim_complete \in [Nodes -> {0, 1}]
                /\ i \in [Nodes -> Nodes]
    BY <2>1, ZeroIsNode DEF Init
  <2>6. Init => /\ common_clock \in 0 .. ClockModulus - 1
                /\ counter \in 0 .. MaxCounter + 1
                /\ allSim_complete \in BOOLEAN
    BY <2>1 DEF Init
  <2>7. QED
    BY <2>4, <2>5, <2>6 DEF TypeOK
<1>2. TypeOK /\ [Next]_vars => TypeOK'
  <2> SUFFICES ASSUME TypeOK, [Next]_vars PROVE TypeOK'
    OBVIOUS
  <2>a. /\ NumNodes \in Nat /\ Batch \in Nat /\ MaxCounter \in Nat
        /\ ClockModulus \in Nat \ {0, 1}
    BY ThreadsAssumption
  <2>t. ASSUME NEW n \in Nodes, NEW from, NEW to \in PcStates, Goto(n, from, to)
        PROVE  pc' \in [Nodes -> PcStates]
    BY <2>t DEF Goto, TypeOK
  <2>p. /\ "wait1" \in PcStates /\ "wait2" \in PcStates /\ "wait3" \in PcStates
        /\ "left" \in PcStates /\ "reached" \in PcStates /\ "top" \in PcStates
        /\ "check" \in PcStates /\ "body" \in PcStates /\ "network" \in PcStates
        /\ "tick" \in PcStates /\ "count" \in PcStates /\ "store" \in PcStates
        /\ "compare" \in PcStates /\ "complete" \in PcStates /\ "agree" \in PcStates
    BY DEF PcStates, Waits, Ended
  <2>1. ASSUME NEW n \in Nodes, Test(n) PROVE TypeOK'
    <3>1. pc' \in [Nodes -> PcStates]
      BY <2>1, <2>t, <2>p DEF Test
    <3>2. QED
      BY <2>1, <3>1 DEF Test, TypeOK, work, ends
  <2>2. ASSUME NEW n \in Nodes, CheckComplete(n) PROVE TypeOK'
    <3>1. pc' \in [Nodes -> PcStates]
      BY <2>2, <2>t, <2>p DEF CheckComplete
    <3>2. QED
      BY <2>2, <3>1 DEF CheckComplete, TypeOK, work, ends
  <2>3. ASSUME NEW n \in Nodes, Simulate(n) PROVE TypeOK'
    <3>1. pc' \in [Nodes -> PcStates]
      BY <2>3, <2>t, <2>p DEF Simulate, SimulateAs
    <3>2. PICK taken \in Nat, done \in Nat :
            /\ taken <= core_inst_stream[n] + Scheduled(n)
            /\ inst_stream' = [inst_stream EXCEPT ![n] = @ - Scheduled(n)]
            /\ core_inst_stream' =
                 [core_inst_stream EXCEPT ![n] = @ + Scheduled(n) - taken]
            /\ committed' = [committed EXCEPT ![n] = @ + done]
      BY <2>3, SimulateEffect
    <3>3. inst_stream' \in [Nodes -> Nat]
      <4>1. inst_stream[n] - Scheduled(n) \in Nat
        <5>1. /\ inst_stream[n] \in Nat
              /\ Scheduled(n) \in Nat /\ Scheduled(n) <= inst_stream[n]
          BY ScheduledFits DEF TypeOK
        <5>2. QED
          BY <5>1
      <4>2. QED
        BY <3>2, <4>1 DEF TypeOK
    <3>4. core_inst_stream' \in [Nodes -> 0 .. Batch]
      <4>1. core_inst_stream[n] + Scheduled(n) - taken \in 0 .. Batch
        <5>1. /\ core_inst_stream[n] \in Nat
              /\ Scheduled(n) \in Nat /\ core_inst_stream[n] + Scheduled(n) <= Batch
          BY ScheduledFits DEF TypeOK
        <5>2. QED
          BY <3>2, <5>1, <2>a
      <4>2. QED
        BY <3>2, <4>1 DEF TypeOK
    <3>5. committed' \in [Nodes -> Nat]
      <4>1. committed[n] + done \in Nat
        <5>1. committed[n] \in Nat
          BY DEF TypeOK
        <5>2. QED
          BY <5>1
      <4>2. QED
        BY <3>2, <4>1 DEF TypeOK
    <3>6. now' \in [Nodes -> 0 .. ClockModulus - 1]
      BY <2>3 DEF Simulate, SimulateAs, TypeOK
    <3>7. QED
      BY <2>3, <3>1, <3>3, <3>4, <3>5, <3>6 DEF Simulate, SimulateAs, TypeOK, ends
  <2>4. ASSUME NEW n \in Nodes, Network(n) PROVE TypeOK'
    <3>1. pc' \in [Nodes -> PcStates]
      BY <2>4, <2>t, <2>p DEF Network
    <3>2. QED
      BY <2>4, <3>1 DEF Network, TypeOK, work, ends
  <2>5. ASSUME NEW n \in Nodes, Tick(n) PROVE TypeOK'
    <3>1. pc' \in [Nodes -> PcStates]
      BY <2>5, <2>t, <2>p DEF Tick
    <3>2. common_clock' \in 0 .. ClockModulus - 1
      <4>1. common_clock \in Nat
        BY DEF TypeOK
      <4>2. ClockModulus \in Nat /\ ClockModulus > 0
        BY <2>a
      <4>3. (common_clock + 1) % ClockModulus \in 0 .. ClockModulus - 1
        BY <4>1, <4>2
      <4>4. QED
        BY <2>5, <4>3 DEF Tick
    <3>3. QED
      BY <2>5, <3>1, <3>2 DEF Tick, TypeOK, work, ends
  <2>6. ASSUME NEW n \in Nodes, CountBusy(n) PROVE TypeOK'
    <3>1. pc' \in [Nodes -> PcStates]
      BY <2>6, <2>t, <2>p DEF CountBusy
    <3>2. QED
      <4>1. 0 \in 0 .. MaxCounter + 1
        BY <2>a
      <4>2. QED
        BY <2>6, <3>1, <4>1 DEF CountBusy, TypeOK, work
  <2>7. ASSUME NEW n \in Nodes, LoadCounter(n) PROVE TypeOK'
    <3>1. pc' \in [Nodes -> PcStates]
      BY <2>7, <2>t, <2>p DEF LoadCounter
    <3>2. QED
      BY <2>7, <3>1 DEF LoadCounter, TypeOK, work
  <2>8. ASSUME NEW n \in Nodes, StoreCounter(n) PROVE TypeOK'
    <3>1. pc' \in [Nodes -> PcStates]
      BY <2>8, <2>t, <2>p DEF StoreCounter
    <3>2. counter' \in 0 .. MaxCounter + 1
      <4>1. loaded[n] \in 0 .. MaxCounter + 1
        BY DEF TypeOK
      <4>2. QED
        BY <2>8, <2>a, <4>1 DEF StoreCounter
    <3>3. loaded' \in [Nodes -> 0 .. MaxCounter + 1]
      <4>1. 0 \in 0 .. MaxCounter + 1
        BY <2>a
      <4>2. QED
        BY <2>8, <4>1 DEF StoreCounter, TypeOK
    <3>4. QED
      BY <2>8, <3>1, <3>2, <3>3 DEF StoreCounter, TypeOK, work
  <2>9. ASSUME NEW n \in Nodes, CompareCounter(n) PROVE TypeOK'
    <3>1. pc' \in [Nodes -> PcStates]
      BY <2>9, <2>t, <2>p DEF CompareCounter
    <3>2. QED
      BY <2>9, <3>1 DEF CompareCounter, TypeOK, work, ends
  <2>10. ASSUME NEW n \in Nodes, Complete(n) PROVE TypeOK'
    <3>1. pc' \in [Nodes -> PcStates]
      BY <2>10, <2>t, <2>p DEF Complete
    <3>2. QED
      BY <2>10, <3>1, ZeroIsNode DEF Complete, TypeOK, work
  <2>11. ASSUME NEW n \in Nodes, Agree(n) PROVE TypeOK'
    <3>1. pc' \in [Nodes -> PcStates]
      BY <2>11, <2>t, <2>p DEF Agree
    <3>2. i' \in [Nodes -> Nodes]
      <4>1. i[n] \in Nodes
        BY DEF TypeOK
      <4>2. i[n] + 1 < NumNodes => i[n] + 1 \in Nodes
        BY <4>1, <2>a
      <4>3. QED
        BY <2>11, <4>2, ZeroIsNode DEF Agree, TypeOK
    <3>3. QED
      BY <2>11, <3>1, <3>2 DEF Agree, TypeOK, work
  <2>12. CASE Release
    <3>1. ASSUME NEW n \in Nodes PROVE Behind(pc[n], n) \in PcStates
      <4>1. pc[n] \in {"wait1", "wait2", "wait3"}
        BY <2>12 DEF Release, Waits
      <4>2. QED
        BY <4>1, <2>p DEF Behind
    <3>2. pc' \in [Nodes -> PcStates]
      BY <2>12, <3>1 DEF Release
    <3>3. QED
      BY <2>12, <3>2 DEF Release, TypeOK, work, ends
  <2>13. CASE UNCHANGED vars
    BY <2>13 DEF TypeOK, vars, work, ends
  <2>14. QED
    BY <2>1, <2>2, <2>3, <2>4, <2>5, <2>6, <2>7, <2>8, <2>9, <2>10, <2>11, <2>12, <2>13
       DEF Next, Thread, Terminating
<1>3. QED
  BY <1>1, <1>2, PTL DEF Spec
-------------------------------------------------------------------------------
\* A thread inside one of the phases tells which phase all the threads are in.
LEMMA PhaseOf ==
  ASSUME InPhase, NEW n \in Nodes
  PROVE  /\ pc[n] \in {"tick", "count", "store", "compare", "complete", "agree", "top",
                       "reached", "wait1"} => BetweenCycles
         /\ pc[n] \in {"check", "body", "wait2", "left"} => InCycle
         /\ pc[n] \in {"network", "wait3"} => InNetwork
<1>1. BetweenCycles => pc[n] \notin {"check", "body", "wait2", "left", "network", "wait3"}
  BY DEF BetweenCycles
<1>2. InCycle => pc[n] \in {"check", "body", "wait2", "left"}
  BY DEF InCycle
<1>3. InNetwork => pc[n] \in {"network", "wait3"}
  BY DEF InNetwork
<1>4. QED
  BY <1>1, <1>2, <1>3 DEF InPhase

\* Between the barriers a thread moves inside its phase; the barrier moves all the
\* threads from one phase to the next.
LEMMA PhaseStep ==
  ASSUME TypeOK, InPhase, [Next]_vars
  PROVE  InPhase'
<1> USE DEF Goto
<1>p. pc \in [Nodes -> PcStates]
  BY DEF TypeOK
<1>t. ASSUME NEW n \in Nodes,
             \/ Test(n) \/ CountBusy(n) \/ LoadCounter(n) \/ StoreCounter(n)
             \/ CompareCounter(n) \/ Complete(n) \/ Agree(n) \/ Tick(n)
      PROVE  InPhase'
  <2>1. /\ pc[n] \in {"tick", "count", "store", "compare", "complete", "agree", "top"}
        /\ \E to \in {"count", "store", "compare", "complete", "agree", "top", "reached",
                      "wait1"} : pc' = [pc EXCEPT ![n] = to]
    <3>1. Test(n) => pc[n] = "top" /\ \E to \in {"wait1", "reached"} : pc' = [pc EXCEPT ![n] = to]
      BY DEF Test
    <3>2. CountBusy(n) => pc[n] = "count" /\ pc' = [pc EXCEPT ![n] = "top"]
      BY DEF CountBusy
    <3>3. LoadCounter(n) => pc[n] = "count" /\ pc' = [pc EXCEPT ![n] = "store"]
      BY DEF LoadCounter
    <3>4. StoreCounter(n) => pc[n] = "store" /\ pc' = [pc EXCEPT ![n] = "compare"]
      BY DEF StoreCounter
    <3>5. CompareCounter(n) =>
            pc[n] = "compare" /\ \E to \in {"complete", "top"} : pc' = [pc EXCEPT ![n] = to]
      BY DEF CompareCounter
    <3>6. Complete(n) => pc[n] = "complete" /\ pc' = [pc EXCEPT ![n] = "agree"]
      BY DEF Complete
    <3>7. Agree(n) => pc[n] = "agree" /\ \E to \in {"agree", "top"} : pc' = [pc EXCEPT ![n] = to]
      BY DEF Agree
    <3>8. Tick(n) => pc[n] = "tick" /\ pc' = [pc EXCEPT ![n] = "count"]
      BY DEF Tick
    <3>9. QED
      BY <1>t, <3>1, <3>2, <3>3, <3>4, <3>5, <3>6, <3>7, <3>8
  <2>2. BetweenCycles
    BY <2>1, PhaseOf
  <2>3. BetweenCycles'
    BY <1>p, <2>1, <2>2 DEF BetweenCycles
  <2>4. QED
    BY <2>3 DEF InPhase
<1>2. ASSUME NEW n \in Nodes, CheckComplete(n) PROVE InPhase'
  <2>1. InCycle
    BY <1>2, PhaseOf DEF CheckComplete
  <2>2. InCycle'
    BY <1>p, <1>2, <2>1 DEF CheckComplete, InCycle, ends
  <2>3. QED
    BY <2>2 DEF InPhase
<1>3. ASSUME NEW n \in Nodes, Simulate(n) PROVE InPhase'
  <2>1. InCycle
    BY <1>3, PhaseOf DEF Simulate, SimulateAs
  <2>2. InCycle'
    BY <1>p, <1>3, <2>1 DEF Simulate, SimulateAs, InCycle, ends
  <2>3. QED
    BY <2>2 DEF InPhase
<1>4. ASSUME NEW n \in Nodes, Network(n) PROVE InPhase'
  <2>1. InNetwork
    BY <1>4, PhaseOf DEF Network
  <2>2. InNetwork'
    BY <1>p, <1>4, <2>1 DEF Network, InNetwork
  <2>3. QED
    BY <2>2 DEF InPhase
<1>5. CASE Release
  <2>1. \A n \in Nodes : pc[n] \in {"wait1", "wait2", "wait3"} /\ pc'[n] = Behind(pc[n], n)
    BY <1>5 DEF Release, Waits
  <2>2. allSim_complete' = allSim_complete
    BY <1>5 DEF Release, ends
  <2>3. CASE BetweenCycles
    <3>1. \A n \in Nodes : pc[n] = "wait1"
      BY <2>1, <2>3 DEF BetweenCycles
    <3>2. InCycle'
      BY <2>1, <3>1 DEF Behind, InCycle
    <3>3. QED
      BY <3>2 DEF InPhase
  <2>4. CASE InCycle
    <3>1. \A n \in Nodes : pc[n] = "wait2"
      BY <2>1, <2>4 DEF InCycle
    <3>2. InNetwork'
      BY <2>1, <3>1 DEF Behind, InNetwork
    <3>3. QED
      BY <3>2 DEF InPhase
  <2>5. CASE InNetwork
    <3>1. \A n \in Nodes : pc[n] = "wait3"
      BY <2>1, <2>5 DEF InNetwork
    <3>2. BetweenCycles'
      BY <2>1, <3>1 DEF Behind, BetweenCycles
    <3>3. QED
      BY <3>2 DEF InPhase
  <2>6. QED
    BY <2>3, <2>4, <2>5 DEF InPhase
<1>6. CASE UNCHANGED vars
  BY <1>6 DEF vars, ends, InPhase, BetweenCycles, InCycle, InNetwork
<1>7. QED
  BY <1>t, <1>2, <1>3, <1>4, <1>5, <1>6 DEF Next, Thread, Terminating

\* The only steps that touch the flag, Sim_complete or the loop over it are
\* Complete and Agree; no other step takes a thread into the loop or out of it.
LEMMA LoopStep ==
  ASSUME TypeOK, InPhase, LoopSound, [Next]_vars
  PROVE  LoopSound'
<1> USE DEF Goto
<1>p. /\ pc \in [Nodes -> PcStates] /\ Sim_complete \in [Nodes -> {0, 1}]
      /\ i \in [Nodes -> Nodes] /\ NumNodes \in Nat
  BY ThreadsAssumption DEF TypeOK
<1>l. \A n \in Nodes : pc[n] = "agree" => \A k \in 0 .. i[n] - 1 : Sim_complete[k] = 1
  BY DEF LoopSound
<1>f. allSim_complete => AllComplete \/ \E n \in Nodes : pc[n] = "agree"
  BY DEF LoopSound
<1>1. ASSUME UNCHANGED <<Sim_complete, allSim_complete, i>>,
             \A n \in Nodes : pc'[n] = "agree" <=> pc[n] = "agree"
      PROVE  LoopSound'
  BY <1>1, <1>l, <1>f DEF LoopSound, AllComplete
<1>2. ASSUME NEW n \in Nodes, Complete(n) PROVE LoopSound'
  <2>1. /\ pc'[n] = "agree" /\ i'[n] = 0
        /\ \A m \in Nodes \ {n} : pc'[m] = pc[m] /\ i'[m] = i[m]
        /\ \A k \in Nodes : Sim_complete[k] = 1 => Sim_complete'[k] = 1
    BY <1>2, <1>p DEF Complete
  <2>2. ASSUME NEW m \in Nodes, pc'[m] = "agree", NEW k \in 0 .. i'[m] - 1
        PROVE  Sim_complete'[k] = 1
    <3>1. m # n /\ pc[m] = "agree" /\ k \in 0 .. i[m] - 1
      BY <2>1, <2>2
    <3>2. i[m] \in Nodes
      BY <1>p
    <3>3. k \in Nodes
      BY <1>p, <3>1, <3>2
    <3>4. QED
      BY <2>1, <3>1, <3>3, <1>l
  <2>3. QED
    BY <2>1, <2>2 DEF LoopSound
<1>3. ASSUME NEW n \in Nodes, Agree(n) PROVE LoopSound'
  <2> DEFINE another == Sim_complete[i[n]] = 1 /\ i[n] + 1 < NumNodes
  <2>1. /\ pc[n] = "agree" /\ pc'[n] = IF another THEN "agree" ELSE "top"
        /\ i'[n] = IF another THEN i[n] + 1 ELSE 0
        /\ allSim_complete' = (Sim_complete[i[n]] = 1)
        /\ Sim_complete' = Sim_complete
        /\ \A m \in Nodes \ {n} : pc'[m] = pc[m] /\ i'[m] = i[m]
    BY <1>3, <1>p DEF Agree
  <2>n. i[n] \in Nodes
    BY <1>p
  <2>2. ASSUME NEW m \in Nodes, pc'[m] = "agree", NEW k \in 0 .. i'[m] - 1
        PROVE  Sim_complete'[k] = 1
    <3>1. CASE m # n
      BY <2>1, <2>2, <3>1, <1>l
    <3>2. CASE m = n
      <4>1. another /\ i'[n] = i[n] + 1
        BY <2>1, <2>2, <3>2
      <4>2. k \in 0 .. i[n] - 1 \/ k = i[n]
        BY <2>n, <3>2, <4>1
      <4>3. QED
        BY <2>1, <4>1, <4>2, <1>l
    <3>3. QED
      BY <3>1, <3>2
  <2>3. ASSUME allSim_complete', ~another PROVE AllComplete'
    <3>1. Sim_complete[i[n]] = 1
      BY <2>1, <2>3
    <3>2. i[n] = NumNodes - 1
      <4>1. ~(i[n] + 1 < NumNodes)
        BY <2>3, <3>1
      <4>2. NumNodes \in Nat
        BY <1>p
      <4>3. QED
        BY <4>1, <4>2, <2>n
    <3>3. \A k \in Nodes : k \in 0 .. i[n] - 1 \/ k = i[n]
      BY <3>2, <1>p
    <3>4. \A k \in Nodes : Sim_complete[k] = 1
      BY <2>1, <3>1, <3>3, <1>l
    <3>5. QED
      BY <2>1, <3>4 DEF AllComplete
  <2>4. another => pc'[n] = "agree"
    BY <2>1
  <2>5. QED
    BY <2>2, <2>3, <2>4 DEF LoopSound
<1>4. CASE Release
  <2>1. \A n \in Nodes : pc[n] \in {"wait1", "wait2", "wait3"} /\ pc'[n] = Behind(pc[n], n)
    BY <1>4 DEF Release, Waits
  <2>2. \A n \in Nodes : pc'[n] # "agree" /\ pc[n] # "agree"
    BY <2>1 DEF Behind
  <2>3. QED
    BY <1>1, <1>4, <2>2 DEF Release, ends
<1>5. ASSUME NEW n \in Nodes, Test(n) PROVE LoopSound'
  BY <1>5, <1>p, <1>1 DEF Test, ends
<1>6. ASSUME NEW n \in Nodes, CheckComplete(n) PROVE LoopSound'
  BY <1>6, <1>p, <1>1 DEF CheckComplete, ends
<1>7. ASSUME NEW n \in Nodes, Simulate(n) PROVE LoopSound'
  BY <1>7, <1>p, <1>1 DEF Simulate, SimulateAs, ends
<1>8. ASSUME NEW n \in Nodes, Network(n) PROVE LoopSound'
  BY <1>8, <1>p, <1>1 DEF Network, ends
<1>9. ASSUME NEW n \in Nodes, Tick(n) PROVE LoopSound'
  BY <1>9, <1>p, <1>1 DEF Tick, ends
<1>10. ASSUME NEW n \in Nodes, CountBusy(n) PROVE LoopSound'
  BY <1>10, <1>p, <1>1 DEF CountBusy
<1>11. ASSUME NEW n \in Nodes, LoadCounter(n) PROVE LoopSound'
  BY <1>11, <1>p, <1>1 DEF LoadCounter
<1>12. ASSUME NEW n \in Nodes, StoreCounter(n) PROVE LoopSound'
  BY <1>12, <1>p, <1>1 DEF StoreCounter
<1>13. ASSUME NEW n \in Nodes, CompareCounter(n) PROVE LoopSound'
  BY <1>13, <1>p, <1>1 DEF CompareCounter, ends
<1>14. CASE UNCHANGED vars
  BY <1>14, <1>1 DEF vars, ends
<1>15. QED
  BY <1>2, <1>3, <1>4, <1>5, <1>6, <1>7, <1>8, <1>9, <1>10, <1>11, <1>12, <1>13, <1>14 DEF Next, Thread, Terminating

\* What a node takes in or commits in a cycle leaves its books in balance.
LEMMA ConservedStep ==
  ASSUME TypeOK, Conserved, [Next]_vars
  PROVE  Conserved'
<1>1. ASSUME UNCHANGED work PROVE Conserved'
  BY <1>1 DEF Conserved, TakenIn, work
<1>2. ASSUME NEW n \in Nodes, Simulate(n) PROVE Conserved'
  <2>1. PICK taken \in Nat, done \in Nat :
          /\ taken <= core_inst_stream[n] + Scheduled(n)
          /\ done <= TakenIn(n) - committed[n]
          /\ inst_stream' = [inst_stream EXCEPT ![n] = @ - Scheduled(n)]
          /\ core_inst_stream' = [core_inst_stream EXCEPT ![n] = @ + Scheduled(n) - taken]
          /\ committed' = [committed EXCEPT ![n] = @ + done]
    BY <1>2, SimulateEffect
  <2>t. /\ inst_stream \in [Nodes -> Nat] /\ core_inst_stream \in [Nodes -> 0 .. Batch]
        /\ committed \in [Nodes -> Nat] /\ Workload \in [Nodes -> Nat]
    BY ThreadsAssumption DEF TypeOK
  <2>2. committed'[n] <= TakenIn(n)'
    <3>1. Scheduled(n) \in Nat
      BY ScheduledFits
    <3>2. /\ inst_stream'[n] = inst_stream[n] - Scheduled(n)
          /\ core_inst_stream'[n] = core_inst_stream[n] + Scheduled(n) - taken
          /\ committed'[n] = committed[n] + done
      BY <2>1, <2>t
    <3>3. /\ inst_stream[n] \in Int /\ core_inst_stream[n] \in Int
          /\ committed[n] \in Int /\ Workload[n] \in Int
      BY <2>t
    <3>4. done <= Workload[n] - inst_stream[n] - core_inst_stream[n] - committed[n]
      BY <2>1 DEF TakenIn
    <3>5. committed[n] + done <=
            Workload[n] - (inst_stream[n] - Scheduled(n))
              - (core_inst_stream[n] + Scheduled(n) - taken)
      BY <3>1, <3>3, <3>4
    <3>6. QED
      BY <3>2, <3>5 DEF TakenIn
  <2>3. ASSUME NEW m \in Nodes, m # n PROVE committed'[m] <= TakenIn(m)'
    <3>1. /\ inst_stream'[m] = inst_stream[m]
          /\ core_inst_stream'[m] = core_inst_stream[m]
          /\ committed'[m] = committed[m]
      BY <2>1, <2>3, <2>t
    <3>2. QED
      BY <3>1 DEF Conserved, TakenIn
  <2>4. QED
    BY <2>2, <2>3 DEF Conserved
<1>3. QED
  BY <1>1, <1>2
     DEF Next, Thread, Terminating, vars, Release, Test, CheckComplete, Network, Tick,
         CountBusy, LoadCounter, StoreCounter, CompareCounter, Complete, Agree

\* The clock moves only while no thread has simulated a cycle that is not over.
LEMMA ClockStep ==
  ASSUME TypeOK, InPhase, ClockSeen, [Next]_vars
  PROVE  ClockSeen'
<1> USE DEF Goto
<1>p. pc \in [Nodes -> PcStates] /\ now \in [Nodes -> 0 .. ClockModulus - 1]
  BY DEF TypeOK
<1>1. ASSUME UNCHANGED <<now, common_clock>>,
             \A n \in Nodes : pc'[n] \in {"wait2", "network", "wait3"}
                               => pc[n] \in {"wait2", "network", "wait3"}
      PROVE  ClockSeen'
  BY <1>1 DEF ClockSeen
<1>2. ASSUME NEW n \in Nodes, Simulate(n) PROVE ClockSeen'
  <2>1. /\ now'[n] = common_clock /\ common_clock' = common_clock
        /\ \A m \in Nodes \ {n} : pc'[m] = pc[m] /\ now'[m] = now[m]
    BY <1>2, <1>p DEF Simulate, SimulateAs
  <2>2. QED
    BY <2>1 DEF ClockSeen
<1>3. ASSUME NEW n \in Nodes, Tick(n) PROVE ClockSeen'
  <2>1. BetweenCycles
    BY <1>3, PhaseOf DEF Tick
  <2>2. \A m \in Nodes : pc'[m] \notin {"wait2", "network", "wait3"}
    BY <1>3, <1>p, <2>1 DEF Tick, BetweenCycles
  <2>3. QED
    BY <2>2 DEF ClockSeen
<1>4. CASE Release
  <2>1. \A n \in Nodes : pc[n] \in {"wait1", "wait2", "wait3"} /\ pc'[n] = Behind(pc[n], n)
    BY <1>4 DEF Release, Waits
  <2>2. \A n \in Nodes : pc'[n] \in {"wait2", "network", "wait3"} => pc[n] = "wait2"
    BY <2>1 DEF Behind
  <2>3. QED
    BY <1>1, <1>4, <2>2 DEF Release, work
<1>5. ASSUME NEW n \in Nodes, Test(n) PROVE ClockSeen'
  BY <1>5, <1>p, <1>1 DEF Test, work
<1>6. ASSUME NEW n \in Nodes, CheckComplete(n) PROVE ClockSeen'
  BY <1>6, <1>p, <1>1 DEF CheckComplete, work
<1>7. ASSUME NEW n \in Nodes, Network(n) PROVE ClockSeen'
  BY <1>7, <1>p, <1>1 DEF Network, work
<1>8. ASSUME NEW n \in Nodes, CountBusy(n) PROVE ClockSeen'
  BY <1>8, <1>p, <1>1 DEF CountBusy, work
<1>9. ASSUME NEW n \in Nodes, LoadCounter(n) PROVE ClockSeen'
  BY <1>9, <1>p, <1>1 DEF LoadCounter, work
<1>10. ASSUME NEW n \in Nodes, StoreCounter(n) PROVE ClockSeen'
  BY <1>10, <1>p, <1>1 DEF StoreCounter, work
<1>11. ASSUME NEW n \in Nodes, CompareCounter(n) PROVE ClockSeen'
  BY <1>11, <1>p, <1>1 DEF CompareCounter, work
<1>12. ASSUME NEW n \in Nodes, Complete(n) PROVE ClockSeen'
  BY <1>12, <1>p, <1>1 DEF Complete, work
<1>13. ASSUME NEW n \in Nodes, Agree(n) PROVE ClockSeen'
  BY <1>13, <1>p, <1>1 DEF Agree, work
<1>14. CASE UNCHANGED vars
  BY <1>14, <1>1 DEF vars, work
<1>15. QED
  BY <1>2, <1>3, <1>4, <1>5, <1>6, <1>7, <1>8, <1>9, <1>10, <1>11, <1>12, <1>13, <1>14
     DEF Next, Thread, Terminating

-------------------------------------------------------------------------------
\* The inductive invariant: the phases of main.cpp's three barriers, the loop over
\* Sim_complete, the books of every node and the clock its thread has seen.
THEOREM Inductive == Spec => []IInv
<1>1. Init => IInv
  <2> SUFFICES ASSUME Init PROVE IInv
    OBVIOUS
  <2>1. BetweenCycles
    BY DEF Init, BetweenCycles
  <2>2. LoopSound /\ ClockSeen
    BY DEF Init, LoopSound, ClockSeen
  <2>3. Conserved
    <3>1. ASSUME NEW n \in Nodes PROVE committed[n] <= TakenIn(n)
      <4>1. Workload[n] \in Nat
        BY ThreadsAssumption
      <4>2. committed[n] = 0 /\ TakenIn(n) = Workload[n] - Workload[n] - 0
        BY DEF Init, TakenIn
      <4>3. QED
        BY <4>1, <4>2
    <3>2. QED
      BY <3>1 DEF Conserved
  <2>4. QED
    BY <2>1, <2>2, <2>3 DEF IInv, InPhase
<1>2. TypeOK /\ IInv /\ [Next]_vars => IInv'
  BY PhaseStep, LoopStep, ConservedStep, ClockStep DEF IInv
<1>3. QED
  BY <1>1, <1>2, TypeCorrect, PTL DEF Spec

\* Thread 0 has the network, the clock and the statistics to itself.
THEOREM NetworkIsAlone == Spec => []NetworkAlone
<1>1. IInv => NetworkAlone
  BY ZeroIsNode, PhaseOf DEF IInv, NetworkAlone, BetweenCycles, InNetwork
<1>2. QED
  BY <1>1, Inductive, PTL

\* All nodes that have simulated a cycle have simulated the same one.
THEOREM NodesInStep == Spec => []SameCycle
<1>1. IInv => SameCycle
  BY DEF IInv, ClockSeen, SameCycle
<1>2. QED
  BY <1>1, Inductive, PTL

\* The races on allSim_complete never let a thread leave before every node has been
\* found complete.
THEOREM AgreedEnd == Spec => []EndIsAgreed
<1>1. IInv => EndIsAgreed
  <2> SUFFICES ASSUME IInv, NEW n \in Nodes, pc[n] = "left"
               PROVE  \A m \in Nodes : Sim_complete[m] = 1
    BY DEF EndIsAgreed
  <2>1. InCycle
    BY PhaseOf DEF IInv
  <2>2. allSim_complete
    BY <2>1 DEF InCycle
  <2>3. \A m \in Nodes : pc[m] # "agree"
    BY <2>1 DEF InCycle
  <2>4. QED
    BY <2>2, <2>3 DEF IInv, LoopSound, AllComplete
<1>2. QED
  BY <1>1, Inductive, PTL

\* No thread goes on to a barrier that another thread has left for good.
THEOREM LeftTogether == Spec => []LeaveTogether
<1>1. IInv => LeaveTogether
  <2> SUFFICES ASSUME IInv, NEW n \in Nodes, NEW m \in Nodes, pc[n] = "left"
               PROVE  pc[m] \in {"check", "left"}
    BY DEF LeaveTogether
  <2>1. InCycle
    BY PhaseOf DEF IInv
  <2>2. allSim_complete
    BY <2>1 DEF InCycle
  <2>3. QED
    BY <2>1, <2>2 DEF InCycle
<1>2. QED
  BY <1>1, Inductive, PTL
===============================================================================
