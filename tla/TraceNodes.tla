------------------------------ MODULE TraceNodes ------------------------------
(***************************************************************************)
(* DRackSim-Trace: the threads that replay memory traces (main.cpp,        *)
(* node_handler), one per node, with the clock and the page faults they    *)
(* share.  In a cycle a thread passes one barrier three times:             *)
(*                                                                         *)
(*   wait1   the end of the cycle before                                   *)
(*     issue   every record of the trace that has this cycle               *)
(*   wait2                                                                 *)
(*     update  the node's memory is clocked                                *)
(*     pools   thread 0 alone: the pools, simulate_network, ..._reverse    *)
(*     tick    thread 0 alone: common_clock++                              *)
(*   wait3                                                                 *)
(*                                                                         *)
(* A thread whose trace is over goes on for extra_cycles without issuing,  *)
(* and passes the barrier twice in a cycle (drain1, drain2): threads whose *)
(* traces end in different cycles are out of step from there on.  The      *)
(* clock is read without a lock, so every look at it is a step; a fault    *)
(* selects a pool and requests a chunk under lock_mem, in one step.        *)
(*                                                                         *)
(* The network is Interconnect, whose code this program shares.            *)
(***************************************************************************)
EXTENDS Integers, Sequences, FiniteSets, FiniteSetsExt

CONSTANTS
  NumNodes, NumPools,
  LocalPages, PoolPages, ChunkPages,
  Traces,         \* the traces a node may have: records of a cycle and a page
  VPages,
  max_cycle_num, extra_cycles, freq_ratio

Nodes == 0 .. NumNodes - 1
Pools == 0 .. NumPools - 1

ASSUME TraceNodesAssumption ==
  /\ NumNodes \in Nat \ {0} /\ NumPools \in Nat \ {0}
  /\ LocalPages \in Nat /\ PoolPages \in Nat /\ ChunkPages \in Nat \ {0}
  /\ max_cycle_num \in Nat /\ extra_cycles \in Nat /\ freq_ratio \in Nat \ {0}
  /\ \A t \in Traces :
       /\ t \in Seq([cycle : Nat, page : VPages]) /\ t # <<>>
       /\ \A i, j \in 1 .. Len(t) : i <= j => t[i].cycle <= t[j].cycle

VARIABLES
  pc, common_clock,
  trace, temp, eof, trace_complete, end_cycle,    \* a thread's own
  page_table, page_counter,                       \* a node's memory
  local_allocated_pages, remote_allocated_pages, remote_map,
  pool_allocated_pages, round_robin_last,         \* shared, under lock_mem
  updates, pool_updates                           \* how often memory was clocked

traceVars  == <<trace, temp, eof, trace_complete, end_cycle>>
memoryVars == <<page_table, page_counter, local_allocated_pages,
                remote_allocated_pages, remote_map, pool_allocated_pages,
                round_robin_last>>
clockVars  == <<common_clock, updates, pool_updates>>
vars == <<pc, traceVars, memoryVars, clockVars>>

NoPage  == -1
NoPool  == -1
NoCycle == -1

Init ==
  /\ pc = [n \in Nodes |-> "test"]
  /\ common_clock = 0
  /\ trace \in [Nodes -> Traces]
  /\ temp = [n \in Nodes |-> 1]
  /\ eof = [n \in Nodes |-> FALSE]
  /\ trace_complete = [n \in Nodes |-> FALSE]
  /\ end_cycle = [n \in Nodes |-> NoCycle]
  /\ page_table = [n \in Nodes |-> [v \in VPages |-> NoPage]]
  /\ page_counter = [n \in Nodes |-> 0]
  /\ local_allocated_pages = [n \in Nodes |-> 0]
  /\ remote_allocated_pages = [n \in Nodes |-> 0]
  /\ remote_map = [n \in Nodes |-> <<>>]
  /\ pool_allocated_pages = [p \in Pools |-> 0]
  /\ round_robin_last = 1
  /\ updates = [n \in Nodes |-> 0]
  /\ pool_updates = 0

Goto(n, from, to) == pc[n] = from /\ pc' = [pc EXCEPT ![n] = to]

Waits == {"wait1", "wait2", "wait3", "drain1", "drain2"}

Behind(wait) ==
  CASE wait = "wait1"  -> "issue"
    [] wait \in {"wait2", "drain1"} -> "update"
    [] wait = "wait3"  -> "test"
    [] wait = "drain2" -> "drain"

\* pthread_barrier_wait: the last of num_nodes threads releases all, wherever
\* each of them waits.
Release ==
  /\ \A n \in Nodes : pc[n] \in Waits
  /\ pc' = [n \in Nodes |-> Behind(pc[n])]
  /\ UNCHANGED <<traceVars, memoryVars, clockVars>>

\* while((common_clock < max_cycle_num) && !trace_complete)
Test(n) ==
  /\ Goto(n, "test", IF common_clock < max_cycle_num /\ ~trace_complete[n]
                     THEN "wait1" ELSE "leave")
  /\ UNCHANGED <<traceVars, memoryVars, clockVars>>

-------------------------------------------------------------------------------
(***************************************************************************)
(* A record of the trace.                                                  *)
(***************************************************************************)
Record(n) == trace[n][temp[n]]

Due(n) ==
  pc[n] = "issue" /\ Record(n).cycle = common_clock /\ ~trace_complete[n]

\* A version that does not look for the end of the file.
ReadNextForever(n) ==
  /\ temp' = [temp EXCEPT ![n] = IF @ < Len(trace[n]) THEN @ + 1 ELSE @]
  /\ UNCHANGED <<trace, eof, trace_complete, end_cycle, clockVars>>

\* The next record is read.  The end of the file shows only when a read has
\* failed, which leaves the last record in temp: it is issued a second time.
ReadNext(n) ==
  /\ trace_complete' = [trace_complete EXCEPT ![n] = eof[n]]
  /\ eof' = [eof EXCEPT ![n] = @ \/ temp[n] = Len(trace[n])]
  /\ temp' = [temp EXCEPT ![n] = IF @ < Len(trace[n]) THEN @ + 1 ELSE @]
  /\ UNCHANGED <<trace, end_cycle, clockVars>>

is_local(page) == page < LocalPages

remote_pages(n) == ChunkPages * Len(remote_map[n])

\* The region of a remote page: regions of ChunkPages follow each other.
Region(page) == (page - LocalPages) \div ChunkPages + 1

find_remote_pool(regions, page) ==
  IF Region(page) \in DOMAIN regions
  THEN regions[Region(page)].mem_pool_no ELSE NoPool

remote_page_addr(n, page) ==
  remote_map[n][Region(page)].remote_base + ((page - LocalPages) % ChunkPages)

\* The access: a local one, a packet to the pool, or "pool error", where the
\* thread waits for a key.
Access(n, page) ==
  /\ pc' = [pc EXCEPT ![n] =
               IF ~is_local(page) /\ find_remote_pool(remote_map'[n], page) = NoPool
               THEN "pool_error" ELSE @]
  /\ ReadNext(n)

page_table_walk(n) == page_table[n][Record(n).page]

Hit(n) ==
  /\ Due(n) /\ page_table_walk(n) # NoPage
  /\ UNCHANGED memoryVars
  /\ Access(n, page_table_walk(n))

free_local(n)  == local_allocated_pages[n] < LocalPages
free_remote(n) == remote_allocated_pages[n] < remote_pages(n)

\* Pages go to local memory and to the pools in turn, local first, until local
\* memory is full.
PlacedLocally(n) == page_counter[n] % 2 = 0 /\ free_local(n)

Fault(n, page) ==
  /\ Due(n) /\ page_table_walk(n) = NoPage
  /\ page_table' = [page_table EXCEPT ![n][Record(n).page] = page]
  /\ page_counter' = [page_counter EXCEPT ![n] = @ + 1]
  /\ Access(n, page)

FaultLocal(n) ==
  /\ PlacedLocally(n)
  /\ local_allocated_pages' = [local_allocated_pages EXCEPT ![n] = @ + 1]
  /\ UNCHANGED <<remote_allocated_pages, remote_map, pool_allocated_pages,
                 round_robin_last>>
  /\ Fault(n, local_allocated_pages[n])

allocate_remote_page(n) ==
  /\ remote_allocated_pages' = [remote_allocated_pages EXCEPT ![n] = @ + 1]
  /\ UNCHANGED local_allocated_pages
  /\ Fault(n, LocalPages + remote_allocated_pages[n])

FaultRemote(n) ==
  /\ ~PlacedLocally(n) /\ free_remote(n)
  /\ UNCHANGED <<remote_map, pool_allocated_pages, round_robin_last>>
  /\ allocate_remote_page(n)

\* A version whose round_robin_last is not static.
NextLastLocal == 2

NextLast ==
  (IF round_robin_last > NumPools
   THEN round_robin_last % NumPools ELSE round_robin_last) + 1

round_robin_pool_select == IF NumPools = 1 THEN 0 ELSE NextLast - 2

\* request_remote_memory: a chunk of the pool becomes a region of the node, ...
Grant(n, p) ==
  /\ PoolPages - pool_allocated_pages[p] >= ChunkPages
  /\ remote_map' = [remote_map EXCEPT ![n] =
       Append(@, [mem_pool_no |-> p, remote_base |-> pool_allocated_pages[p]])]
  /\ pool_allocated_pages' = [pool_allocated_pages EXCEPT ![p] = @ + ChunkPages]

\* ... or is refused, and a page is allocated all the same.
Refuse(p) ==
  /\ PoolPages - pool_allocated_pages[p] < ChunkPages
  /\ UNCHANGED <<remote_map, pool_allocated_pages>>

\* Under lock_mem: select a pool, request a chunk of it.
FaultWithChunk(n) ==
  LET p == round_robin_pool_select IN
  /\ ~PlacedLocally(n) /\ ~free_remote(n)
  /\ round_robin_last' = IF NumPools = 1 THEN round_robin_last ELSE NextLast
  /\ Grant(n, p) \/ Refuse(p)
  /\ allocate_remote_page(n)

\* A version without the barrier behind the records.
IssueDoneAlone(n) ==
  /\ ~Due(n)
  /\ Goto(n, "issue", "update")
  /\ UNCHANGED <<traceVars, memoryVars, clockVars>>

IssueDone(n) ==
  /\ ~Due(n)
  /\ Goto(n, "issue", "wait2")
  /\ UNCHANGED <<traceVars, memoryVars, clockVars>>

-------------------------------------------------------------------------------
(***************************************************************************)
(* The rest of the cycle, in both loops.                                   *)
(***************************************************************************)
Draining(n) == end_cycle[n] # NoCycle

\* Where the loop the thread is in waits for the last time.
LastWait(n) == IF Draining(n) THEN "drain2" ELSE "wait3"

Clocked == IF common_clock % freq_ratio = freq_ratio - 1 THEN 1 ELSE 0

Update(n) ==
  /\ Goto(n, "update", IF n = 0 THEN "pools" ELSE LastWait(n))
  /\ updates' = [updates EXCEPT ![n] = @ + Clocked]
  /\ UNCHANGED <<common_clock, pool_updates, traceVars, memoryVars>>

PoolsAndNetwork ==
  /\ Goto(0, "pools", "tick")
  /\ pool_updates' = pool_updates + Clocked
  /\ UNCHANGED <<common_clock, updates, traceVars, memoryVars>>

Tick ==
  /\ Goto(0, "tick", LastWait(0))
  /\ common_clock' = common_clock + 1
  /\ UNCHANGED <<updates, pool_updates, traceVars, memoryVars>>

\* end_cycle = common_clock + extra_cycles
Leave(n) ==
  /\ Goto(n, "leave", "drain")
  /\ end_cycle' = [end_cycle EXCEPT ![n] = common_clock + extra_cycles]
  /\ UNCHANGED <<trace, temp, eof, trace_complete, memoryVars, clockVars>>

\* while(common_clock < end_cycle)
Drain(n) ==
  /\ Goto(n, "drain", IF common_clock < end_cycle[n] THEN "drain1" ELSE "left")
  /\ UNCHANGED <<traceVars, memoryVars, clockVars>>

Issue(n) ==
  Hit(n) \/ FaultLocal(n) \/ FaultRemote(n) \/ FaultWithChunk(n) \/ IssueDone(n)

Thread(n) ==
  \/ Test(n) \/ Issue(n) \/ Update(n) \/ Leave(n) \/ Drain(n)
  \/ n = 0 /\ (PoolsAndNetwork \/ Tick)

Next == Release \/ \E n \in Nodes : Thread(n)

\* The threads run; a barrier opens when all have come.
Spec == /\ Init /\ [][Next]_vars
        /\ WF_vars(Release) /\ \A n \in Nodes : WF_vars(Thread(n))

-------------------------------------------------------------------------------
AllLeft == \A n \in Nodes : pc[n] = "left"

\* The cycle after the one in which the trace of n ends or is cut off.
LastCycle(n) ==
  LET end == trace[n][Len(trace[n])].cycle + 1
  IN  IF end < max_cycle_num THEN end ELSE max_cycle_num

\* All traces end in the same cycle, or are cut off.
Together == \A n, m \in Nodes : LastCycle(n) = LastCycle(m)

\* The program ends only if the traces of all nodes end together, and then it
\* does, unless a pool has run out: else the first thread to leave is missing at
\* the barrier for ever.
EndsIffTogether ==
  /\ [](AllLeft => Together)
  /\ Together ~> (AllLeft \/ \E n \in Nodes : pc[n] = "pool_error")

\* What the barrier is there for.  While traces end together: no thread sends while
\* thread 0 moves packets or the clock, and no record is left behind by the clock,
\* which the loop over records compares for equality.  Whatever the traces: the
\* pools, and the memory of node 0, are clocked once in freq_ratio cycles.
DueBefore(cycle) ==
  Cardinality({c \in 0 .. cycle - 1 : c % freq_ratio = freq_ratio - 1})

InStep ==
  /\ Together =>
       \A n \in Nodes :
         /\ pc[n] = "issue" => pc[0] \notin {"pools", "tick"}
         /\ ~trace_complete[n] /\ ~Draining(n) => Record(n).cycle >= common_clock
  /\ updates[0] =
       DueBefore(common_clock + IF pc[0] \in {"pools", "tick"} THEN 1 ELSE 0)
  /\ pool_updates = DueBefore(common_clock + IF pc[0] = "tick" THEN 1 ELSE 0)

\* Whatever the order in which nodes fault, their chunks come from the pools in
\* turn, and no two pages of the rack are at the same place, but for nodes whose
\* pool has run out.
Chunks(p) ==
  UNION {{<<n, i>> : i \in {j \in DOMAIN remote_map[n] :
                            remote_map[n][j].mem_pool_no = p}} : n \in Nodes}

Place(n, v) ==
  LET page == page_table[n][v] IN
  IF is_local(page) THEN <<"local", n, page>>
  ELSE <<"pool", find_remote_pool(remote_map[n], page), remote_page_addr(n, page)>>

PlacedInTurn ==
  /\ \A p, q \in Pools : Cardinality(Chunks(p)) <= Cardinality(Chunks(q)) + 1
  /\ LET placed == {e \in Nodes \X VPages : /\ pc[e[1]] # "pool_error"
                                             /\ page_table[e[1]][e[2]] # NoPage}
     IN  \A e, f \in placed : Place(e[1], e[2]) = Place(f[1], f[2]) => e = f
===============================================================================
