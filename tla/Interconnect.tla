------------------------------ MODULE Interconnect ------------------------------
(***************************************************************************)
(* The interconnect of DRACKSim-Detailed: packets go from the queue of a   *)
(* source through its NIC, the virtual queues of a switch input port, a    *)
(* switch output port and the destination's NIC to the destination.  The   *)
(* program runs the same six functions over two sets of queues, requests   *)
(* from nodes to pools (network_flow = 0) and responses back (1); a        *)
(* behaviour of this module is one of the two.                             *)
(*                                                                         *)
(* A packet carries the cycle at which its next stage may take it, and a   *)
(* stage takes the front of a queue only if that cycle EQUALS the clock:   *)
(* a packet that waits must have its cycle raised in every cycle, or it is *)
(* never looked at again.  "wait" is that cycle less the clock, so a tick  *)
(* of the clock lowers it; LATE stands for every cycle that has passed.    *)
(*                                                                         *)
(* Thread 0 runs the stages while the other threads stand at a barrier;    *)
(* the threads send packets before that, in the first part of the cycle.   *)
(* RDMA packets are never sent by this version (the call is commented      *)
(* out) and are left out; RDMA_PKT_SIZE is 64 bytes.                       *)
(***************************************************************************)
EXTENDS Integers, Sequences, FiniteSets, FiniteSetsExt

CONSTANTS
  NumSources, NumDests,   \* num_nodes and num_mem_pools, or the reverse
  NicSize,                \* nic_queue_size, in units of 64 bytes
  PortSize,               \* tx_/rx_input_port_queue_size and _output_, likewise
  PacketisationTime,
  NicProcDelay, NicTransDelay(_), SwitchTransDelay(_),
  PropDelay, SwitchProcDelay, SwitchingDelay,
  MaxSent,                \* bound: packets sent in a behaviour, by all sources
  SendCycles              \* bound: the first cycles, in which it sends them

ASSUME SizesAssumption ==
  /\ NumSources \in Nat \ {0}
  /\ NumDests \in Nat \ {0}
  /\ NicSize \in Nat
  /\ PortSize \in Nat
  /\ MaxSent \in Nat
  /\ SendCycles \in Nat

ASSUME DelaysAssumption ==
  /\ {PacketisationTime, NicProcDelay, PropDelay, SwitchProcDelay,
      SwitchingDelay} \subseteq Nat \ {0}
  /\ \A size \in {1, 2} : {NicTransDelay(size), SwitchTransDelay(size)}
                             \subseteq Nat \ {0}

Sources == 0 .. NumSources - 1
Dests   == 0 .. NumDests - 1
LATE    == -1

VARIABLES
  packet_queue_source,       \* [Sources -> Seq(packet)]
  nic_queue_source,          \* [Sources -> Seq(packet)]
  input_port_queue,          \* [Sources -> [Dests -> Seq(packet)]]
  output_port_queue,         \* [Dests -> Seq(packet)]
  nic_queue_dest,            \* [Dests -> Seq(packet)]
  packet_queue_dest,         \* [Dests -> Seq(packet)]
  arbitrator,                \* the input port that is served first
  vq_arbitrator_input_queue, \* the virtual queue a port looks at first
  network_flow,              \* the direction
  stage,                     \* what the cycle has come to
  sent,                      \* packets sent so far by each source
  cycle                      \* cycles so far, up to SendCycles

queues == <<packet_queue_source, nic_queue_source, input_port_queue,
            output_port_queue, nic_queue_dest, packet_queue_dest>>
arbiter == <<arbitrator, vq_arbitrator_input_queue>>
vars == <<queues, arbiter, network_flow, stage, sent, cycle>>

-------------------------------------------------------------------------------
(***************************************************************************)
(* Queues of packets.                                                      *)
(***************************************************************************)

\* Requests are 64 bytes and writebacks 128; every response is 128.
Sizes == IF network_flow = 0 THEN {1, 2} ELSE {2}

\* 64 bytes for every packet and 64 more for every large one.
Units(q) == {u \in (DOMAIN q) \X {1, 2} : u[2] <= q[u[1]].size}
Bytes(q) == Cardinality(Units(q))

\* The virtual queues of an input port share its buffer.
PortUnits(s) == UNION {{d} \X Units(input_port_queue[s][d]) : d \in Dests}
PortBytes(s) == Cardinality(PortUnits(s))

Ready(q) == q # <<>> /\ Head(q).wait = 0

\* Mutants: only the front packet is put off; it is put off twice.
BumpFront(q) == IF Ready(q) THEN [q EXCEPT ![1].wait = 1] ELSE q
BumpFrontTwice(q) ==
  [i \in DOMAIN q |-> IF q[i].wait = 0 THEN [q[i] EXCEPT !.wait = IF i = 1 THEN 2 ELSE 1]
                      ELSE q[i]]

\* The loop that ends every stage: the packets that could have gone in this
\* cycle may go in the next, up to the first that is not due yet.
Bump(q) ==
  [i \in DOMAIN q |-> IF q[i].wait = 0 /\ \A j \in 1 .. i - 1 : q[j].wait <= 0
                      THEN [q[i] EXCEPT !.wait = 1]
                      ELSE q[i]]

\* The front packet occupies the stage for "delay" cycles after the first one.
Leaves(q, delay) == Ready(q) /\ Head(q).timer = delay

Served(q, delay) ==
  IF Leaves(q, delay) THEN Bump(Tail(q))
  ELSE IF Ready(q) /\ Head(q).timer < delay THEN Bump([q EXCEPT ![1].timer = @ + 1])
  ELSE q

\* Mutants: the timer is not reset; a packet overtakes those that wait.
ArriveTimerKept(q, p, wait) == Append(q, [p EXCEPT !.wait = wait])
ArriveInFront(q, p, wait) == <<[p EXCEPT !.timer = 0, !.wait = wait]>> \o q

Arrive(q, p, wait) == Append(q, [p EXCEPT !.timer = 0, !.wait = wait])

\* Mutant: the packet's own size is left out.
NicHasSpaceWithout(q, p) == Bytes(q) < NicSize

NicHasSpace(q, p) == Bytes(q) + p.size <= NicSize
PortHasSpace(s, p) == PortBytes(s) + p.size <= PortSize

-------------------------------------------------------------------------------
Init ==
  /\ packet_queue_source = [s \in Sources |-> <<>>]
  /\ nic_queue_source = [s \in Sources |-> <<>>]
  /\ input_port_queue = [s \in Sources |-> [d \in Dests |-> <<>>]]
  /\ output_port_queue = [d \in Dests |-> <<>>]
  /\ nic_queue_dest = [d \in Dests |-> <<>>]
  /\ packet_queue_dest = [d \in Dests |-> <<>>]
  /\ arbitrator = 0
  /\ vq_arbitrator_input_queue = [s \in Sources |-> 0]
  /\ network_flow \in {0, 1}
  /\ stage = "nodes"
  /\ sent = [s \in Sources |-> 0]
  /\ cycle = 0

SumSent == Cardinality(UNION {{s} \X (1 .. sent[s]) : s \in Sources})

\* to_trans_layer: a miss, a writeback or a memory's response enters the queue
\* of its source.
to_trans_layer(s, d, size) ==
  /\ stage = "nodes"
  /\ SumSent < MaxSent
  /\ cycle < SendCycles
  /\ packet_queue_source' =
       [packet_queue_source EXCEPT
          ![s] = Append(@, [source |-> s, dest |-> d, no |-> sent[s] + 1,
                            size |-> size, wait |-> PacketisationTime, timer |-> 0])]
  /\ sent' = [sent EXCEPT ![s] = @ + 1]
  /\ UNCHANGED <<nic_queue_source, input_port_queue, output_port_queue,
                 nic_queue_dest, packet_queue_dest, arbiter, network_flow, stage, cycle>>

Stage(from, to) ==
  stage = from /\ stage' = to /\ UNCHANGED <<network_flow, sent>>

send_to_source_nic_queue ==
  LET space(s) == packet_queue_source[s] # <<>> =>
                    NicHasSpace(nic_queue_source[s], Head(packet_queue_source[s]))
      goes(s)  == space(s) /\ Leaves(packet_queue_source[s], NicProcDelay)
  IN  /\ Stage("nodes", "nic")
      /\ packet_queue_source' =
           [s \in Sources |-> IF space(s)
                              THEN Served(packet_queue_source[s], NicProcDelay)
                              ELSE Bump(packet_queue_source[s])]
      /\ nic_queue_source' =
           [s \in Sources |-> IF goes(s)
                              THEN Arrive(nic_queue_source[s],
                                          Head(packet_queue_source[s]), 0)
                              ELSE nic_queue_source[s]]
      /\ UNCHANGED <<input_port_queue, output_port_queue, nic_queue_dest,
                     packet_queue_dest, arbiter, cycle>>

\* (The code tests the space again after the packet has gone and raises the
\* cycles again if there is none left: the packets it finds are raised already.)
source_to_switch_input_port ==
  LET front(s) == Head(nic_queue_source[s])
      delay(s) == NicTransDelay(front(s).size)
      space(s) == nic_queue_source[s] # <<>> => PortHasSpace(s, front(s))
      goes(s)  == /\ nic_queue_source[s] # <<>>
                  /\ space(s)
                  /\ Leaves(nic_queue_source[s], delay(s))
  IN  /\ Stage("nic", "input")
      /\ nic_queue_source' =
           [s \in Sources |-> IF nic_queue_source[s] = <<>> THEN <<>>
                              ELSE IF space(s) THEN Served(nic_queue_source[s], delay(s))
                              ELSE Bump(nic_queue_source[s])]
      /\ input_port_queue' =
           [s \in Sources |->
              [d \in Dests |-> IF goes(s) /\ front(s).dest = d
                               THEN Arrive(input_port_queue[s][d], front(s),
                                           PropDelay + SwitchProcDelay)
                               ELSE input_port_queue[s][d]]]
      /\ UNCHANGED <<packet_queue_source, output_port_queue, nic_queue_dest,
                     packet_queue_dest, arbiter, cycle>>

-------------------------------------------------------------------------------
(***************************************************************************)
(* switch_input_port_to_output_port: one turn looks at one input port and  *)
(* sends the first ready packet of its virtual queues, from the one its    *)
(* own arbitrator names, whose output port is open.  "granted" holds the   *)
(* <<input port, output port>> pairs of this cycle.                        *)
(***************************************************************************)

\* Output ports with room for a packet of 64 bytes (RDMA_PKT_SIZE; the test for
\* 128 bytes comes second and is never reached).
OpenPorts == {d \in Dests : Bytes(output_port_queue[d]) + 1 <= PortSize}

FirstTurn ==
  [port |-> arbitrator, vq |-> vq_arbitrator_input_queue, count |-> 1,
   open |-> OpenPorts, granted |-> {},
   ready |-> Cardinality({e \in Sources \X Dests :
                            Ready(input_port_queue[e[1]][e[2]])})]

\* Mutants: the arbitrator of the virtual queues is not wrapped; an output port
\* that has received stays open.
PortTurnUnwrapped(t) ==
  LET vq(k)  == (t.vq[t.port] + k) % NumDests
      offers == {k \in Dests : Ready(input_port_queue[t.port][vq(k)]) /\ vq(k) \in t.open}
      d      == vq(Min(offers))
  IN  IF offers = {}
      THEN [t EXCEPT !.port = (@ + 1) % NumSources, !.count = @ + 1]
      ELSE [t EXCEPT !.port = (@ + 2) % NumSources, !.count = @ + 2,
                     !.vq[t.port] = d + 1, !.open = @ \ {d}, !.ready = @ - 1,
                     !.granted = @ \cup {<<t.port, d>>}]
PortTurnStillOpen(t) ==
  LET vq(k)  == (t.vq[t.port] + k) % NumDests
      offers == {k \in Dests : Ready(input_port_queue[t.port][vq(k)]) /\ vq(k) \in t.open}
      d      == vq(Min(offers))
  IN  IF offers = {}
      THEN [t EXCEPT !.port = (@ + 1) % NumSources, !.count = @ + 1]
      ELSE [t EXCEPT !.port = (@ + 1) % NumSources, !.count = @ + 1,
                     !.vq[t.port] = d, !.ready = @ - 1,
                     !.granted = @ \cup {<<t.port, d>>}]

\* A port that has sent moves the arbitrator on twice: before it leaves the
\* loop over its virtual queues and again behind the loop.
PortTurn(t) ==
  LET vq(k)  == (t.vq[t.port] + k) % NumDests
      offers == {k \in Dests : Ready(input_port_queue[t.port][vq(k)]) /\ vq(k) \in t.open}
      d      == vq(Min(offers))
  IN  IF offers = {}
      THEN [t EXCEPT !.port = (@ + 1) % NumSources, !.count = @ + 1]
      ELSE [t EXCEPT !.port = (@ + 2) % NumSources, !.count = @ + 2,
                     !.vq = [t.vq EXCEPT ![t.port] = d],
                     !.open = @ \ {d}, !.ready = @ - 1,
                     !.granted = @ \cup {<<t.port, d>>}]

\* One round of the while loop, which ends when nothing can move or all ports
\* have had their turn.
Round(t) ==
  IF t.open # {} /\ t.ready > 0 /\ t.count <= NumSources THEN PortTurn(t) ELSE t

\* The turns of one cycle: turn[k] holds the state after at most k of them.
Turns ==
  LET turn[k \in 0 .. NumSources] ==
        IF k = 0 THEN {FirstTurn} ELSE {Round(t) : t \in turn[k - 1]}
  IN  turn[NumSources]

switch_input_port_to_output_port ==
  \E t \in Turns :
    LET from(d) == CHOOSE s \in Sources : <<s, d>> \in t.granted
    IN  /\ Stage("input", "output")
        /\ arbitrator' = t.port
        /\ vq_arbitrator_input_queue' = t.vq
        /\ input_port_queue' =
             [s \in Sources |->
                [d \in Dests |-> Bump(IF <<s, d>> \in t.granted
                                      THEN Tail(input_port_queue[s][d])
                                      ELSE input_port_queue[s][d])]]
        /\ output_port_queue' =
             [d \in Dests |-> IF \E s \in Sources : <<s, d>> \in t.granted
                              THEN Arrive(output_port_queue[d],
                                          Head(input_port_queue[from(d)][d]),
                                          SwitchingDelay)
                              ELSE output_port_queue[d]]
        /\ UNCHANGED <<packet_queue_source, nic_queue_source, nic_queue_dest,
                       packet_queue_dest, cycle>>

-------------------------------------------------------------------------------
\* No cycle is raised when the NIC has no room: the "else" that should do it
\* belongs to the test for an empty queue.
switch_to_dest_nic_queue ==
  LET front(d) == Head(output_port_queue[d])
      delay(d) == SwitchTransDelay(front(d).size)
      space(d) == /\ output_port_queue[d] # <<>>
                  /\ NicHasSpace(nic_queue_dest[d], front(d))
  IN  /\ Stage("output", "dest_nic")
      /\ output_port_queue' =
           [d \in Dests |-> IF space(d) THEN Served(output_port_queue[d], delay(d))
                            ELSE output_port_queue[d]]
      /\ nic_queue_dest' =
           [d \in Dests |-> IF space(d) /\ Leaves(output_port_queue[d], delay(d))
                            THEN Arrive(nic_queue_dest[d], front(d), PropDelay)
                            ELSE nic_queue_dest[d]]
      /\ UNCHANGED <<packet_queue_source, nic_queue_source, input_port_queue,
                     packet_queue_dest, arbiter, cycle>>

send_to_dest_collector_queue ==
  /\ Stage("dest_nic", "deliver")
  /\ nic_queue_dest' = [d \in Dests |-> Served(nic_queue_dest[d], NicProcDelay)]
  /\ packet_queue_dest' =
       [d \in Dests |-> IF Leaves(nic_queue_dest[d], NicProcDelay)
                        THEN Arrive(packet_queue_dest[d], Head(nic_queue_dest[d]),
                                    PacketisationTime)
                        ELSE packet_queue_dest[d]]
  /\ UNCHANGED <<packet_queue_source, nic_queue_source, input_port_queue,
                 output_port_queue, arbiter, cycle>>

Deliverable(d) == \/ Ready(packet_queue_dest[d])
                  \/ network_flow = 1 /\ packet_queue_dest[d] # <<>>

\* A request is handed to the pool's memory when it is due.
remote_memory_add(d) ==
  /\ stage = "deliver"
  /\ network_flow = 0
  /\ Deliverable(d)
  /\ packet_queue_dest' = [packet_queue_dest EXCEPT ![d] = Tail(@)]
  /\ UNCHANGED <<packet_queue_source, nic_queue_source, input_port_queue,
                 output_port_queue, nic_queue_dest, arbiter, network_flow, stage, sent,
                 cycle>>

\* A response is handed to its node at once, due or not.
network_memory_completion(d) ==
  /\ stage = "deliver"
  /\ network_flow = 1
  /\ Deliverable(d)
  /\ packet_queue_dest' = [packet_queue_dest EXCEPT ![d] = Tail(@)]
  /\ UNCHANGED <<packet_queue_source, nic_queue_source, input_port_queue,
                 output_port_queue, nic_queue_dest, arbiter, network_flow, stage, sent,
                 cycle>>

\* common_clock++
Age(q) == [i \in DOMAIN q |-> [q[i] EXCEPT !.wait = IF @ > LATE THEN @ - 1 ELSE LATE]]

Tick ==
  /\ Stage("deliver", "nodes")
  /\ cycle' = IF cycle < SendCycles THEN cycle + 1 ELSE cycle
  /\ \A d \in Dests : ~Deliverable(d)
  /\ packet_queue_source' = [s \in Sources |-> Age(packet_queue_source[s])]
  /\ nic_queue_source' = [s \in Sources |-> Age(nic_queue_source[s])]
  /\ input_port_queue' =
       [s \in Sources |-> [d \in Dests |-> Age(input_port_queue[s][d])]]
  /\ output_port_queue' = [d \in Dests |-> Age(output_port_queue[d])]
  /\ nic_queue_dest' = [d \in Dests |-> Age(nic_queue_dest[d])]
  /\ packet_queue_dest' = [d \in Dests |-> Age(packet_queue_dest[d])]
  /\ UNCHANGED arbiter

simulate_network ==
  \/ send_to_source_nic_queue
  \/ source_to_switch_input_port
  \/ switch_input_port_to_output_port
  \/ switch_to_dest_nic_queue
  \/ send_to_dest_collector_queue
  \/ \E d \in Dests : remote_memory_add(d)
  \/ \E d \in Dests : network_memory_completion(d)
  \/ Tick

Next ==
  \/ \E s \in Sources, d \in Dests, size \in Sizes : to_trans_layer(s, d, size)
  \/ simulate_network

\* The simulation goes on: thread 0 runs the network in every cycle.
Spec == Init /\ [][Next]_vars /\ WF_vars(simulate_network)
-------------------------------------------------------------------------------
(***************************************************************************)
(* Properties.                                                             *)
(***************************************************************************)
Packet == [source : Sources, dest : Dests, no : 1 .. MaxSent, size : {1, 2},
           wait : Int, timer : Nat]

TypeOK ==
  /\ packet_queue_source \in [Sources -> Seq(Packet)]
  /\ nic_queue_source \in [Sources -> Seq(Packet)]
  /\ input_port_queue \in [Sources -> [Dests -> Seq(Packet)]]
  /\ output_port_queue \in [Dests -> Seq(Packet)]
  /\ nic_queue_dest \in [Dests -> Seq(Packet)]
  /\ packet_queue_dest \in [Dests -> Seq(Packet)]
  /\ arbitrator \in Sources
  /\ vq_arbitrator_input_queue \in [Sources -> Dests]
  /\ network_flow \in {0, 1}
  /\ stage \in {"nodes", "nic", "input", "output", "dest_nic", "deliver"}
  /\ sent \in [Sources -> 0 .. MaxSent]
  /\ cycle \in 0 .. SendCycles

AllQueues ==
  {packet_queue_source[s] : s \in Sources} \cup {nic_queue_source[s] : s \in Sources}
    \cup (UNION {{input_port_queue[s][d] : d \in Dests} : s \in Sources})
    \cup {output_port_queue[d] : d \in Dests} \cup {nic_queue_dest[d] : d \in Dests}
    \cup {packet_queue_dest[d] : d \in Dests}

\* "appropriate cycles added to all waiting packets" (inter_connect.cpp:500): no
\* packet's cycle is ever behind the clock, which would leave it, and all behind
\* it in the queue, where they are for ever.
NoPacketLeftBehind ==
  \A q \in AllQueues : \A i \in DOMAIN q : q[i].wait >= 0

\* Every queue is ordered by cycle ("time-ordered manner", inter_connect.cpp:55):
\* what makes it right that the loops stop at the first packet not due yet.
QueuesTimeOrdered ==
  \A q \in AllQueues : \A i, j \in DOMAIN q : i < j => q[i].wait <= q[j].wait

\* No queue of bounded size holds more than it is made for, but for 64 bytes in
\* an output port, whose room is tested for the smallest packet only.
QueuesWithinSize ==
  /\ \A s \in Sources :
       /\ Bytes(nic_queue_source[s]) <= NicSize
       /\ PortBytes(s) <= PortSize
  /\ \A d \in Dests : /\ Bytes(nic_queue_dest[d]) <= NicSize
                      /\ Bytes(output_port_queue[d]) <= PortSize + 1

\* What the loops of every stage take for granted of a queue: its order, and that
\* what was pushed had room.
QueuesInOrder == QueuesTimeOrdered /\ QueuesWithinSize

\* In one cycle an input port sends to one output port at most and an output
\* port receives from one input port at most.
SwitchMatching ==
  [][stage = "input" /\ stage' = "output" =>
       LET from == {e \in Sources \X Dests : Len(input_port_queue'[e[1]][e[2]])
                                               < Len(input_port_queue[e[1]][e[2]])}
       IN  \A e, f \in from : e[1] = f[1] \/ e[2] = f[2] => e = f]_vars

\* The numbers of the packets in a queue that go from s to d.
OfPair(q, s, d) ==
  LET first[i \in 0 .. Len(q)] ==
        IF i = 0 THEN <<>>
        ELSE IF q[i].source = s /\ q[i].dest = d
          THEN Append(first[i - 1], q[i].no)
          ELSE first[i - 1]
  IN  IF q = <<>> THEN <<>> ELSE first[Len(q)]

\* The numbers of the packets on their way from s to d, the next to arrive first.
OnTheWay(s, d) ==
  OfPair(packet_queue_dest[d], s, d) \o (OfPair(nic_queue_dest[d], s, d)
    \o (OfPair(output_port_queue[d], s, d) \o (OfPair(input_port_queue[s][d], s, d)
      \o (OfPair(nic_queue_source[s], s, d) \o OfPair(packet_queue_source[s], s, d)))))

Pair == INSTANCE Channels WITH
          Packets <- 1 .. MaxSent,
          channel <- [s \in Sources |-> [d \in Dests |-> OnTheWay(s, d)]]

\* Whatever the queues, the arbitration and the bounds, packets between a source
\* and a destination are neither lost nor duplicated and arrive in the order they
\* were sent.
ImplementsChannels == Pair!Spec

\* Every packet arrives: once the sources have fallen silent, the network and its
\* collector queues run empty.
PacketsArrive == cycle = SendCycles ~> AllQueues = {<<>>}
===============================================================================
