------------------------------ MODULE NodeThreads ------------------------------
(***************************************************************************)
(* The threads of DRACKSim-Detailed: one per compute node, each running    *)
(* node_stream_handler (main.cpp), in step with each other by one barrier  *)
(* that every thread passes three times in a simulated cycle:              *)
(*                                                                         *)
(*   wait1  the end of the cycle before                                    *)
(*     body    the node: trace, schedule, memories, caches and cores       *)
(*   wait2  every node has sent what it sends in this cycle                *)
(*     network thread 0 alone: simulate_network, simulate_network_reverse  *)
(*   wait3  every packet due in this cycle has moved                       *)
(*     tick    thread 0 alone: print_stats, common_clock++                 *)
(*     count   every thread: has every workload come to its end?           *)
(*                                                                         *)
(* The counter that decides the end is one static variable of all the      *)
(* threads and no lock guards it or allSim_complete: every load and store  *)
(* is a step of its own.  What a node does in a cycle (its cores and its   *)
(* caches) is abstracted to how many instructions its cores take off their *)
(* queues and commit.                                                      *)
(***************************************************************************)
EXTENDS Integers

CONSTANTS
  NumNodes,     \* num_nodes
  Workload,     \* instructions in the trace of each node
  Batch,        \* 10 * core_count: what the queues of the cores are filled up to
  MaxInsts,     \* max_insts_to_simulate
  MaxCounter,   \* 2000 in the code
  ClockModulus  \* bound: common_clock is kept modulo this

Nodes == 0 .. NumNodes - 1

ASSUME ThreadsAssumption ==
  /\ NumNodes \in Nat \ {0}
  /\ Workload \in [Nodes -> Nat]
  /\ Batch \in Nat \ {0}
  /\ MaxInsts \in Nat
  /\ MaxCounter \in Nat
  /\ ClockModulus \in Nat \ {0, 1}

VARIABLES
  pc,
  inst_stream,      \* instructions of a node not yet handed to its cores
  core_inst_stream, \* in the queues of its cores, all cores together
  committed,        \* total_num_inst_commited
  now,              \* common_clock as the node's body saw it
  common_clock,
  counter, loaded,  \* the static counter; a thread's register
  Sim_complete, allSim_complete,
  i                 \* the index of the loop over Sim_complete

work  == <<inst_stream, core_inst_stream, committed, now>>
ends  == <<counter, loaded, Sim_complete, allSim_complete, i>>
vars  == <<pc, work, common_clock, ends>>

Waits == {"wait1", "wait2", "wait3"}

\* Mutant: the third barrier is passed by thread 0 only.
BehindTwo(wait, n) ==
  CASE wait = "wait1" -> "check"
    [] wait = "wait2" -> IF n = 0 THEN "network" ELSE "count"
    [] wait = "wait3" -> IF n = 0 THEN "tick" ELSE "count"

\* What thread 0 does alone the others pass by.
Behind(wait, n) ==
  CASE wait = "wait1" -> "check"
    [] wait = "wait2" -> IF n = 0 THEN "network" ELSE "wait3"
    [] wait = "wait3" -> IF n = 0 THEN "tick" ELSE "count"

Init ==
  /\ pc = [n \in Nodes |-> "top"]
  /\ inst_stream = Workload
  /\ core_inst_stream = [n \in Nodes |-> 0]
  /\ committed = [n \in Nodes |-> 0]
  /\ now = [n \in Nodes |-> 0]
  /\ common_clock = 0
  /\ counter = 0
  /\ loaded = [n \in Nodes |-> 0]
  /\ Sim_complete = [n \in Nodes |-> 0]
  /\ allSim_complete = FALSE
  /\ i = [n \in Nodes |-> 0]

Goto(n, from, to) == pc[n] = from /\ pc' = [pc EXCEPT ![n] = to]

-------------------------------------------------------------------------------
\* Mutant: the flag is tested before the first barrier.
TestFlag(n) ==
  /\ Goto(n, "top", IF allSim_complete THEN "left" ELSE "wait1")
  /\ UNCHANGED <<work, common_clock, ends>>

\* while(total_num_inst_commited<=max_insts_to_simulate)
Test(n) ==
  /\ Goto(n, "top", IF committed[n] <= MaxInsts THEN "wait1" ELSE "reached")
  /\ UNCHANGED <<work, common_clock, ends>>

\* pthread_barrier_wait: the last thread to arrive releases all, wherever in the
\* loop each of them waits.
Release ==
  /\ \A n \in Nodes : pc[n] \in Waits
  /\ pc' = [n \in Nodes |-> Behind(pc[n], n)]
  /\ UNCHANGED <<work, common_clock, ends>>

CheckComplete(n) ==
  /\ Goto(n, "check", IF allSim_complete THEN "left" ELSE "body")
  /\ UNCHANGED <<work, common_clock, ends>>

\* Schedule_Instruction_on_cpu_cores fills the queues of the cores up to Batch.
Scheduled(n) ==
  LET room == Batch - core_inst_stream[n]
  IN  IF room <= inst_stream[n] THEN room ELSE inst_stream[n]

\* Instructions of n that its cores have taken off their queues.
TakenIn(n) == Workload[n] - inst_stream[n] - core_inst_stream[n]

\* One cycle of the node: the queues are filled, the cores take any number of
\* instructions off them and commit any number of those they have taken before.
SimulateAs(n, most) ==
  /\ Goto(n, "body", "wait2")
  /\ inst_stream' = [inst_stream EXCEPT ![n] = @ - Scheduled(n)]
  /\ \E taken \in 0 .. core_inst_stream[n] + Scheduled(n) :
       core_inst_stream' = [core_inst_stream EXCEPT ![n] = @ + Scheduled(n) - taken]
  /\ \E done \in 0 .. most :
       committed' = [committed EXCEPT ![n] = @ + done]
  /\ now' = [now EXCEPT ![n] = common_clock]
  /\ UNCHANGED ends

\* Mutants: an instruction commits again; thread 0 moves the clock.
SimulateRecommits(n) == SimulateAs(n, TakenIn(n)) /\ UNCHANGED common_clock
SimulateTicks(n) ==
  /\ SimulateAs(n, TakenIn(n) - committed[n])
  /\ common_clock' = (common_clock + (IF n = 0 THEN 1 ELSE 0)) % ClockModulus

Simulate(n) ==
  /\ SimulateAs(n, TakenIn(n) - committed[n])
  /\ UNCHANGED common_clock

Network(n) ==
  /\ Goto(n, "network", "wait3")
  /\ UNCHANGED <<work, common_clock, ends>>

Tick(n) ==
  /\ Goto(n, "tick", "count")
  /\ common_clock' = (common_clock + 1) % ClockModulus
  /\ UNCHANGED <<work, ends>>

-------------------------------------------------------------------------------
(***************************************************************************)
(* The end of the simulation.                                              *)
(***************************************************************************)
\* The queues of the cores are not empty, or are.
CountBusy(n) ==
  /\ core_inst_stream[n] > 0
  /\ Goto(n, "count", "top")
  /\ counter' = 0
  /\ UNCHANGED <<work, common_clock, loaded, Sim_complete, allSim_complete, i>>

LoadCounter(n) ==
  /\ core_inst_stream[n] = 0
  /\ Goto(n, "count", "store")
  /\ loaded' = [loaded EXCEPT ![n] = counter]
  /\ UNCHANGED <<work, common_clock, counter, Sim_complete, allSim_complete, i>>

\* counter is bounded by MaxCounter + 1: what follows tells no values above it
\* apart.
StoreCounter(n) ==
  /\ Goto(n, "store", "compare")
  /\ counter' = IF loaded[n] <= MaxCounter THEN loaded[n] + 1 ELSE loaded[n]
  /\ loaded' = [loaded EXCEPT ![n] = 0]
  /\ UNCHANGED <<work, common_clock, Sim_complete, allSim_complete, i>>

\* Mutant: the counter has to hit the limit.
CompareCounterEqual(n) ==
  /\ Goto(n, "compare", IF counter = MaxCounter THEN "complete" ELSE "top")
  /\ UNCHANGED <<work, common_clock, ends>>

CompareCounter(n) ==
  /\ Goto(n, "compare", IF counter > MaxCounter THEN "complete" ELSE "top")
  /\ UNCHANGED <<work, common_clock, ends>>

Complete(n) ==
  /\ Goto(n, "complete", "agree")
  /\ Sim_complete' = [Sim_complete EXCEPT ![n] = 1]
  /\ i' = [i EXCEPT ![n] = 0]
  /\ UNCHANGED <<work, common_clock, counter, loaded, allSim_complete>>

\* Mutants: the loop looks at one node too many; and the flag is not taken back.
AgreeOneMore(n) ==
  LET another == Sim_complete[i[n]] = 1 /\ i[n] < NumNodes
  IN  /\ Goto(n, "agree", IF another THEN "agree" ELSE "top")
      /\ allSim_complete' = (Sim_complete[i[n]] = 1)
      /\ i' = [i EXCEPT ![n] = IF another THEN @ + 1 ELSE 0]
      /\ UNCHANGED <<work, common_clock, counter, loaded, Sim_complete>>
AgreeUncorrected(n) ==
  LET another == Sim_complete[i[n]] = 1 /\ i[n] + 1 < NumNodes
  IN  /\ Goto(n, "agree", IF another THEN "agree" ELSE "top")
      /\ allSim_complete' = (allSim_complete \/ Sim_complete[i[n]] = 1)
      /\ i' = [i EXCEPT ![n] = IF another THEN @ + 1 ELSE 0]
      /\ UNCHANGED <<work, common_clock, counter, loaded, Sim_complete>>

\* One turn of the loop that looks at every node.
Agree(n) ==
  LET another == Sim_complete[i[n]] = 1 /\ i[n] + 1 < NumNodes
  IN  /\ Goto(n, "agree", IF another THEN "agree" ELSE "top")
      /\ allSim_complete' = (Sim_complete[i[n]] = 1)
      /\ i' = [i EXCEPT ![n] = IF another THEN @ + 1 ELSE 0]
      /\ UNCHANGED <<work, common_clock, counter, loaded, Sim_complete>>

-------------------------------------------------------------------------------
Thread(n) ==
  \/ Test(n)
  \/ CheckComplete(n)
  \/ Simulate(n)
  \/ Network(n)
  \/ Tick(n)
  \/ CountBusy(n)
  \/ LoadCounter(n)
  \/ StoreCounter(n)
  \/ CompareCounter(n)
  \/ Complete(n)
  \/ Agree(n)

Ended == {"left", "reached"}

Terminating == (\A n \in Nodes : pc[n] \in Ended) /\ UNCHANGED vars

Next == (\E n \in Nodes : Thread(n)) \/ Release \/ Terminating

TakesIn(n) ==
  /\ Simulate(n)
  /\ inst_stream'[n] + core_inst_stream'[n] < inst_stream[n] + core_inst_stream[n]

\* Threads run, the barrier opens, and the cores of a node do not stall for ever.
Fairness == /\ \A n \in Nodes : WF_vars(Thread(n)) /\ SF_vars(TakesIn(n))
            /\ WF_vars(Release)

Spec == Init /\ [][Next]_vars /\ Fairness
-------------------------------------------------------------------------------
(***************************************************************************)
(* Properties.                                                             *)
(***************************************************************************)
PcStates == Waits \cup Ended \cup
              {"top", "check", "body", "network", "tick", "count", "store", "compare",
               "complete", "agree"}

TypeOK ==
  /\ pc \in [Nodes -> PcStates]
  /\ inst_stream \in [Nodes -> Nat]
  /\ core_inst_stream \in [Nodes -> 0 .. Batch]
  /\ committed \in [Nodes -> Nat]
  /\ now \in [Nodes -> 0 .. ClockModulus - 1]
  /\ common_clock \in 0 .. ClockModulus - 1
  /\ counter \in 0 .. MaxCounter + 1
  /\ loaded \in [Nodes -> 0 .. MaxCounter + 1]
  /\ Sim_complete \in [Nodes -> {0, 1}]
  /\ allSim_complete \in BOOLEAN
  /\ i \in [Nodes -> Nodes]

AllComplete == \A n \in Nodes : Sim_complete[n] = 1

\* Where the threads are: all between the third barrier and the first, all between
\* the first and the second, or all between the second and the third.  Behind the
\* first barrier the flag has one value, and every thread goes where it says.
BetweenCycles ==
  \A n \in Nodes :
    /\ pc[n] \in {"tick", "count", "store", "compare", "complete", "agree", "top",
                  "reached", "wait1"}
    /\ pc[n] = "tick" => n = 0

InCycle ==
  \A n \in Nodes :
    pc[n] \in {"check"} \cup (IF allSim_complete THEN {"left"} ELSE {"body", "wait2"})

InNetwork == \A n \in Nodes : pc[n] \in {"network", "wait3"} /\ (pc[n] = "network" => n = 0)

InPhase == BetweenCycles \/ InCycle \/ InNetwork

\* The loop over Sim_complete has found its first i nodes complete, and the flag
\* can be wrong only while some thread is still in the loop.
LoopSound ==
  /\ \A n \in Nodes : pc[n] = "agree" => \A k \in 0 .. i[n] - 1 : Sim_complete[k] = 1
  /\ allSim_complete => AllComplete \/ \E n \in Nodes : pc[n] = "agree"

\* No instruction is committed before it has been taken in, or twice.
Conserved == \A n \in Nodes : committed[n] <= TakenIn(n)

\* A node that has simulated the cycle has seen the clock as it is.
ClockSeen ==
  \A n \in Nodes : pc[n] \in {"wait2", "network", "wait3"} => now[n] = common_clock

\* The inductive invariant behind the safety properties below.
IInv == InPhase /\ LoopSound /\ Conserved /\ ClockSeen

\* The queues of the network, the clock and the statistics have no lock: thread
\* 0 has them to itself because no other thread is in its body, nor can get
\* there, while thread 0 moves packets, and none is there when the clock moves.
NetworkAlone ==
  pc[0] \in {"network", "tick"} =>
    \A n \in Nodes \ {0} : pc[n] \notin {"check", "body"}

\* Nodes that have simulated a cycle have simulated the same one, and the packets
\* they sent in it are moved in that cycle.
SameCycle ==
  \A n, m \in Nodes :
    pc[n] \in {"wait2", "network"} /\ pc[m] \in {"wait2", "wait3", "network"} =>
      now[n] = now[m] /\ now[n] = common_clock

\* Whatever the races on the counter and on allSim_complete, which every thread
\* writes TRUE before it has looked at all nodes: a thread leaves the loop because
\* of the flag only when every node has been found complete.
EndIsAgreed ==
  \A n \in Nodes : pc[n] = "left" => \A m \in Nodes : Sim_complete[m] = 1

\* The flag is written without a lock by threads that have passed the third
\* barrier and read behind the first: all read the same, so no thread leaves
\* while another goes on to a barrier that will never open.
LeaveTogether ==
  \A n, m \in Nodes : pc[n] = "left" => pc[m] \in {"check", "left"}

\* "The simulation will start and continue until the exit condition arrives"
\* (DRACKSim-Detailed/readme.md:48): in the end every thread has left.
SimulationEnds == <>(\A n \in Nodes : pc[n] \in Ended)
===============================================================================
