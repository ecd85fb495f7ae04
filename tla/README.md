# A verification project for DRackSim

DRackSim simulates a rack of compute nodes that share pools of remote memory over a
switched network. This directory holds TLA+ modules translated from its source, the TLC
configurations that check them on small instances, and theorems about them proved with
TLAPS for every value of the constants. Most of it is about `DRACKSim-Detailed`, the
cycle-level simulator (paths below are relative to that directory unless they begin with
`DRackSim-Trace`); the module `TraceNodes` is about the second program of the repository, the
trace-driven `DRackSim-Trace`.

`PROJECT.json` is the index: which definition models which lines, which run checks which
properties, which wrong variant of the code each property detects, the findings and the
hazards.

## 1. The system

| Part | State | Operations | Talks to |
| --- | --- | --- | --- |
| Node threads (`main.cpp`) | `inst_stream`, `common_clock`, `Sim_complete`, `allSim_complete`, the static `counter`, one pthread barrier | `node_stream_handler`: one cycle of a node, three barriers, the clock, the end | calls everything else, shares the clock and the network with all nodes |
| Rack memory (`mmap.cpp`, `allocator.cpp`, `handle_page_fault` in `TLB_Cache.cpp`) | per node the free lists, counters and `remote_map`; per pool the counters and `shared_mem_table`; `round_robin_last` | place a page, select a pool, request a chunk, allocate a page, translate an address | called on a TLB miss; read by `send_to_memory`; pools shared by all nodes under `lock_mem` |
| Interconnect (`inter_connect.cpp`) | six kinds of packet queue for each direction, two arbiters | enqueue (by the node threads), six stages and delivery (by thread 0) | `send_to_memory` and the memory callback put packets in, remote pools and `update_mshr` take them out |
| Instruction fetch (`itlb_search`, `icache_search`, `update_icache_mshr` in `TLB_Cache.cpp`, `branch_predictor.cpp`) | the stream of a core, its instruction TLB and cache, `il1_miss_buffer`, `il1_wait_buffer`, `temp`, `inst_queue`, a table of two-bit counters | translate, look up, miss or wait behind a miss, hand on in order, predict | L2 below, the page fault entries of the node, the decoder |
| Out-of-order core (`OOO_core.cpp`) | decode buffer, alias table, reorder buffer, reservation stations, ready queues, execution units, load/store queue | decode, issue, dispatch, complete, broadcast, commit | takes instructions from `inst_queue`, loads and stores through the data TLB and cache |
| Caches and miss handling (`TLB_Cache.cpp`, `ID_Cache.h`, `TLB.h`) | data TLB, three cache levels, a miss buffer for each, write-backs | look up, miss, merge, complete, wake up, replace, write back | memory requests to the local memory or the interconnect |
| Page tables (`MMU.cpp`) | a four-level table for each node | walk, enter a page | the page fault handler |
| Tracer (`Ins_Tracer.cpp`) and its reader (`main.cpp:144-174`) | trace files, `num_ins` and `main_start` in shared memory | record an instruction, close a file, read a file, remove it | another process; files and two shared words |
| Memory callbacks (`mem_defs.cpp`) | latency sums, the reverse packets | completion of a DRAM transaction | DRAMSim2 (a library), the interconnect, the caches |
| `DRackSim-Trace` | a clock, a trace per node, the page tables, regions and pools of the rack | replay a trace, fault pages in, clock the memories, drain | the same interconnect; threads share the clock and the pools |

### What is hard about it, and what makes it correct

* **Node threads.** One thread per node; thread 0 alone moves packets and the clock, with no
  lock on either. The only protection is one barrier used three times in a cycle. The end of
  the simulation is agreed on through two variables without a lock. Correct means: thread 0 is
  alone when it thinks it is, all nodes simulate the same cycle, all leave together and only
  when all are done, and they do leave.
* **Rack memory.** The pool is selected outside the lock, the node's and the pool's half of a
  region are written in different functions, and the translation searches the regions by two
  different conditions. Correct means: no two pages share a frame, whatever the interleaving;
  every mapped page is backed by a region both tables know; the counters of pools and nodes
  agree with the tables; every fault is served.
* **Interconnect.** A stage takes a packet only when the packet's cycle equals the clock, so
  every stage must raise the cycle of every packet it makes wait. Queues have sizes, packets
  have two, and an arbiter with two indices matches input and output ports. Correct means:
  each source and destination see a reliable FIFO channel, no packet is stranded, queues stay
  in time order and within their size, the switch grants a port once.
* **Instruction fetch.** Lines arrive in any order, an instruction reaches `inst_queue` by a
  miss, behind the miss of another one or by a hit, and the end of a page walk is looked for by
  equality with the clock while other cores' faults change its time. Correct means: the decoder
  gets each instruction once, in program order, after its line, and no walk is missed.
* **Out-of-order core.** A circular buffer with two pointers and -1 for "none"; operands
  found by broadcast; loads answered by stores in a queue with a second queue behind it.
  Correct means: the buffer is a bounded FIFO queue, an operand comes from the last earlier
  writer, nobody waits for what will not come or is woken twice, the program ends.
* **Caches.** Misses merged by line, completed by instruction id from the level below, in
  three buffers that are edited while they are iterated: a loop that erases the entry it is at
  leaves out the next. Correct means: no load or store is lost or answered twice, whoever waits
  is known to somebody who will be answered, every miss ends.
* **Tracer.** Two processes, a counter in shared memory and files that are removed while
  they may be open. Correct means: every instruction recorded is read once and in order, and
  neither side waits for the other for ever.
* **Trace-driven threads.** The barrier is passed three times in a cycle while a trace lasts
  and twice afterwards; the clock is read without a lock. Correct means: threads stay in step,
  no record is passed by the clock, the program ends.

Nothing is persisted and no node can fail, so there is no crash recovery; the network of the
program does not lose packets by design, and whether the code does is one of the questions.

## 2. Modules

| Module | What it is |
| --- | --- |
| `RackMemory` | the fault handler, pools and translation; one action per step another thread can observe |
| `PageFrames` | what rack memory promises: each page gets one frame, once, that no other page has |
| `RackMemoryProofs` | types, frames and the refinement of `PageFrames`; the tables of nodes and pools agree and the counters are exact |
| `Interconnect` | the six stages, both arbiters, both directions |
| `Channels` | what the interconnect promises: a reliable FIFO channel for every pair |
| `InterconnectProofs` | time order and sizes, the switch's matching, the refinement of `Channels`, and what strands a packet |
| `NodeThreads` | the threads, the barrier, the clock and the end of the simulation |
| `NodeThreadsProofs` | theorems about `NodeThreads` |
| `ReorderBuffer` | `circular_queue`: the ring and its two pointers |
| `BoundedQueue` | what the reorder buffer promises: a queue of limited length |
| `OOOCore` | the core, cycle by cycle; extends `ReorderBuffer` |
| `OOOCoreProofs` | the ring is a bounded queue, the types; places, wake-ups and reads of the core, and on what condition |
| `CacheSets` | one set of a cache or a TLB, its replacement and the write-back between levels |
| `DataCaches` | data TLB, L1, L2, the shared L3, their misses and the answers of the memory; extends `CacheSets` |
| `DataCachesProofs` | every load and store of a core is in one place; the types, and how full the buffers get; who wakes a miss that waits, and on what condition |
| `InstructionFetch` | from the stream of a node to the decoder; extends `CacheSets` |
| `InstructionFetchProofs` | the decoder gets every instruction once, in order, after its line |
| `TraceFiles` | the tracer, its files and the reader |
| `TraceFilesProofs` | records are read in order whatever the timing, and lost in one way only |
| `TraceNodes` | the threads, faults and pools of `DRackSim-Trace` |
| `TraceNodesProofs` | those threads stay in step, and the pools give chunks in turn |
| `MC*` | the instances: two cfgs each for `MCRackMemory`, `MCInterconnect`, `MCDataCaches` and `MCOOOCore`, one each for the others |

**How they compose.** `OOOCore`, `InstructionFetch` and `DataCaches` are what `Simulate` of
`NodeThreads` abstracts as "takes in some instructions, commits some". `InstructionFetch` hands
`decoded` to what `OOOCore` takes from `program`; `OOOCore` sends loads and stores which
`DataCaches` takes as a workload and answers in an order `OOOCore` leaves open. `DataCaches`
sends requests to memory, which `RackMemory` translates (`Frame`) and `Interconnect` carries.
`Interconnect` is what the step `network` of `NodeThreads` and the step `pools` of `TraceNodes`
stand for, and that it runs alone is proved (`NetworkIsAlone`). Each module leaves its
surroundings open in the direction the next one is entitled to use: the answers arrive in any
order and after any time.

### RackMemory

`L[n]` is the first group of variables, each a function of the node; `R[p]` the second, each
a function of the pool. Page numbers stand for addresses (the code divides by `Page_Size`
everywhere) and the page table is a map. `pc[n]` is where thread `n` stands in
`handle_page_fault`:

    idle -> (select -> [wrap -> wrap_store ->] incr -> incr_store -> return -> lock
             -> request -> [share ->] unlock ->) map -> idle

The part in parentheses runs for a remote page when the node has no free remote page.
`select` to `return` are the loads and stores of `round_robin_last` in
`round_robin_pool_select`: the function takes no lock and the makefile does not optimise, so
each is a step; with one pool `select` returns it at once. `request` and `share` are the two
halves of `request_remote_memory`, which write the node's table and the pool's. Indexing `R[]` with a pool that does not exist, and
taking element 0 of an empty vector, are undefined; the model records the fact in `undefined`
and stops there, and every safety property is about what happened up to then.

`Frame(n, page)` is the translation `send_to_memory` makes, with the code's two searches of
`remote_map` and their different conditions.

### Interconnect

The program runs the same functions over two sets of queues; a behaviour is one of the two
directions. In the program a packet carries the cycle at which the next stage may take it. The model keeps
the difference to the clock (`wait`), which a tick lowers, so the clock itself needs no bound;
`LATE` stands for all cycles that have passed, which the code's tests for equality cannot tell
apart. One action per stage, in the order of `simulate_network`, and the clock last. Packets
are one or two units of 64 bytes.

### NodeThreads

`pc[n]` is where thread `n` stands in the body of the loop; `wait1`, `wait2` and `wait3` are
the three calls of `pthread_barrier_wait` on one barrier. `Release` opens the barrier when
all threads stand at *some* call of it: that they stand at the same one is not assumed but
proved. `counter++` is a load and a store; each turn of the loop over `Sim_complete` is a
step. The work of a cycle (`Simulate`) fills the queues of the cores and then takes any
number of instructions off them and commits any number of those taken before: an
over-approximation of the core and the caches.

### ReorderBuffer and OOOCore

`ReorderBuffer` is the class with its two pointers, its test for room (`has_size`, with the
remainder C++ takes of a negative number) and its two ways to move on. `OOOCore` runs the
stages in the order of `update_core`, one iteration of a stage's loop per step: decode,
issue, dispatch to the execution units of every type, completion (the AGU last), broadcast to
the stations, commit, the answers to loads and stores, the queue of pending ones, and the
ageing of what is at work. Ids of loads and stores number the operands as the code numbers them. A
mispredicted branch stops the core for its penalty in place of all stages. What lies outside
is open: when the decoder gets an instruction (`Decode`) and when the caches answer
(`Answer`), before the cycle or in it. Latencies are one number per type of instruction.

### CacheSets and DataCaches

A set maps ways to tags with a modified flag and replaces them in turn. `DataCaches` goes
through `update_mshr` and then through the searches of every core in their order. A miss is a
record in a buffer of its level; its clock is a countdown, `Off` when the code has the time not
set. The loops over L3, L2 and the TLB erase the entry they are at and then advance: the model
leaves the next one out as they do, and the question is whether that does harm. Merged misses
keep the list of whom to wake. `work` is what the cores ask for; `Replies` is the memory, which
answers what was sent to it in any order. Instructions of a core are kept as misses of L1,
because they share L2 with its loads; their way to the decoder is in `InstructionFetch`.

### InstructionFetch

An instruction is its number in the program, and every place it can be in holds numbers. The
stages of a cycle follow the calls in `main.cpp` and `TLB_Cache.cpp`: the stream is filled,
misses are updated, the walk of the instruction TLB is completed, temp and the wait buffer are
emptied into `inst_queue` as room allows, the next instructions are looked up, and the core
decodes. The branch predictor is here, since a lookup trains it, including lookups that are
refused and repeated. `OtherFault` is what other cores and the data TLB do to the shared page
fault entries.

### TraceFiles

An instruction is the number of the call of `InsRef` that records it. `buffer` is what
`ofstream` has not written out; it goes to the file by itself (`WriteOut`) or when the file is
closed, and nowhere when the file has been removed. The tracer raises `num_ins` above `max_ins`
with the last instruction of a file and closes it with the *next*, so a reader that looks in
between reads a file that is not complete and removes it. Nothing in the program forbids that:
the reader sleeps for a second after a look that fails, but it looks before it sleeps
(`main.cpp:150`). So a look in this gap (`InGap`) is a step of the model like any other. The
history variable `tooSoon`, which no guard reads, remembers it. `RecordsKept` says what holds
whatever the timing (what is read is in order, each instruction once), and that until `tooSoon`
nothing is lost: the gap is the only way to lose a record. `EverythingRead` says that nobody
waits for ever, `tooSoon` or not, and that all is read otherwise.

### TraceNodes

`pc[n]` is where thread `n` stands in `node_handler` of `DRackSim-Trace`; `drain1` and `drain2`
are the two barriers of the loop that runs after a trace. The clock is shared without a lock,
so each look at it is a step. A fault that needs a chunk runs under `lock_mem` in one step: in
this program the selection is inside the lock. `Together` says that the traces of all nodes end
in the same cycle or are all cut off by `max_cycle_num`; the program cannot end otherwise, which is
part of what is checked. A pool error stops the thread in the model; the code waits for a key
at `cin.get` and goes on, which leaves it nothing to do that is defined.

## 3. Runs

| Run | Instance | States | Shows |
| --- | --- | --- | --- |
| `rack_memory` | 2 nodes, 2 pools of 5 pages, chunks of 2, 2 local pages, 6 virtual pages that a node touches in order | 8,348 | `IInv`, `NoSharedFrame`, `MappedPageBacked`, the two tables agree (`TablesAgree`), the counters are exact (`CountersExact`), implements `PageFrames`; every fault is served unless a missing or an exhausted pool was asked (`FaultServed`) |
| `rack_pool_race` | 1 local page, 4 virtual pages in any order, else as above | violation | `SelectedPoolExists` |
| `interconnect` | 2 sources, 2 destinations, NICs of 4 units, ports of 2, 4 packets in 2 cycles, both directions | 288,320 | no packet is left behind, time order and sizes (`QueuesInOrder`), the switch's matching, implements `Channels`, all packets arrive |
| `net_nic_full` | NICs of 3 units | violation | `NoPacketLeftBehind` |
| `node_threads` | 3 nodes with workloads of 2, 1 and 0 instructions, limit 2 for the counter | 225,778 | `IInv`, thread 0 is alone, one cycle for all, an agreed end, together; the simulation ends |
| `ooo_core` | 5 programs of 4 to 6 instructions, ring of 4, 3 stations, load/store queue of 2, 3 types | 576,891 | an instruction is in one place (`SlotsAgree`), `NoLostWakeUp`, `ReadsLastWrite`, the ring is a bounded queue (`RobIsFifo`), every program ends |
| `core_pending_load` | 1 program of 5 instructions, ring of 6, 5 stations, load/store queue of 2 | violation | `ProgramCompletes` |
| `data_caches` | 2 cores, 4 lines in 2 pages, 2 misses a level, one-way L1, L2 and TLB, two-way L3, 3 workloads | 594,416 | a request is in one place (`RequestsKept`), `WakeUpChain`, every miss ends |
| `cache_shared_line` | 3 misses a level, two-way TLB, a line asked for by both cores, behind two others in one | violation | `EveryMissEnds` |
| `instruction_fetch` | 3 programs of 5 or 6 instructions, 3 lines in 2 pages, 2 misses, `inst_queue` of 2, one-way TLB, two-way cache | 45,115 | `DecodedInOrder`, `FetchedBeforeDecoded`, every instruction is decoded |
| `trace_files` | files of 2, a program of 11 instructions, 8 to simulate | 3,168 | `RecordsKept`; nobody waits for ever, all is read but for a look in the gap (`EverythingRead`) |
| `trace_nodes` | 3 nodes, 2 pools of 4, chunks of 2, every combination of 3 traces | 184,698 | `InStep`, chunks come from the pools in turn (`PlacedInTurn`), the program ends exactly when the traces end together (`EndsIffTogether`) |

Each module's type invariant is checked with the others where the module has one. Deadlock is
checked in every passing run but `trace_nodes`: threads whose traces end in different cycles do
wait at the barrier for ever, and `EndsIffTogether` says that this happens then and only then.

**Why the bounds are enough.**

* `rack_memory`: pages go to remote and local memory in turn (both kinds twice, so `turn` goes round),
  then to remote memory only, so each node needs two chunks; the pools together have four, and five
  pages leave a rest that is no chunk. Chunks of both nodes alternate in both pools, pools run out, and
  the unlocked selection goes out of range. The virtual pages of a node are interchangeable; in
  place of a symmetry set, which is not sound for liveness, each node touches them in one order
  (`InOrder`), which does not order the nodes.
* `interconnect`: with four packets of either size every queue fills: the source NIC, the input
  and the output port have been seen full with a packet waiting, two sources compete for a port,
  a port offers two packets at once and the 64-byte overrun of the output port happens. The
  destination NIC never fills; `net_nic_full` is the instance where it does.
* `node_threads`: three threads make the barrier and the loop over `Sim_complete` more than a
  pair, workloads of different length make one node finish while another resets the counter,
  and the longer one is drained in a cycle with an instruction left. `MaxCounter` is 2 for the
  code's 2000, and `counter` and the clock are capped (`MaxCounter + 1`, `ClockModulus`):
  nothing tells larger values apart.
* `ooo_core`: the ring, the stations and the load/store queue are smaller than the programs, so
  the ring wraps, is full around its end (`Ring`) and empties; a register is written again before it
  is read (`Rename`); a store replaces an older one to its address and forwards to a load (`Stores`,
  `Chain`); loads and stores overflow into the second queue and move up from it beside loads and stores
  of other addresses (`Loads`); a branch stops the core. A load that moves up and finds a store
  to its address breaks the core (finding 4): `core_pending_load` is the smallest program that
  gets there, and the programs of `ooo_core` do not. No program reads one address by both operands.
* `data_caches`: one way makes every new line throw out another, modified ones included; two
  misses a level fill L1 (`ManyLines`); both cores miss on one line (`OneLine`), so that misses
  merge in L3 across cores; and an instruction and a load of one core meet in L2 (`Apart`). The
  instance stays below the three misses that the finding of `cache_shared_line` needs.
* `instruction_fetch`: two misses at a time and three lines give a full miss buffer, a wait
  behind a miss, lines that arrive in the wrong order and a queue that is full with the rest in
  `temp`; a one-way TLB and two pages make walks repeat, with page fault entries that others left.
* `trace_files`: two files that are filled and a third that is cut off by the end, in a program
  that reaches its limit of instructions; the reader may look at any moment, so the gap is met in
  each of the three files, in the last one also between `main_start` and the close.
* `trace_nodes`: two of the three traces end in the same cycle, one is cut off by
  `max_cycle_num` and counts as ending there; all 27 combinations give equal and unequal ends
  with two and with three threads alike.

**Fairness.** `RackMemory`: a thread never stops inside the handler (weak fairness of its
steps; the lock is free whenever nobody is between `lock` and `unlock`, so weak fairness and
two nodes are enough for the run's question). `Interconnect`: thread 0 runs the network in
every cycle (weak fairness of the stages together). `NodeThreads`: threads run, the barrier
opens when all have come (weak), and the cores of a node that can take in instructions in
cycle after cycle do so in some cycle (strong fairness of `TakesIn`: the core does not stall
for ever; that it does not is `ProgramCompletes`, `EveryMissEnds` and
`EveryInstructionDecoded`). `OOOCore`, `DataCaches` and `InstructionFetch`: the thread of the
node goes through its cycles (weak fairness of the stages), and whatever is outside gets its turn in
some cycle (strong fairness, because the turn is open only at certain stages of a cycle): the
decoder is given the next instruction, the caches answer a request, the memory answers, a core
that has a load gives it to the TLB. `TraceFiles`: the traced program runs and the reader polls
(weak), each at any speed. `TraceNodes`: threads run
and the barrier opens (weak).

Every property of every passing run has a mutant in `PROJECT.json`: a definition and a wrong
form of it, the way a slip in that code would look (a bound off by one, a missing reset, a
lock not taken, a wake-up left out), with which TLC finds the property violated.

## 4. Findings

1. `rack_pool_race`: `round_robin_pool_select` is called outside `lock_mem`
   (`TLB_Cache.cpp:1578`); two threads can make it return a pool that does not exist.
2. `net_nic_full`: the branch that should raise the cycles of packets waiting for the
   destination's NIC hangs on the wrong `if` (`inter_connect.cpp:558`): a packet that meets a
   full NIC stays where it is for ever. With the sizes in `param.cpp` (1 MB) this needs a long
   burst to one destination.
3. `cache_shared_line`: the loop that removes completed misses of L3 leaves out the entry after
   one it erases (`TLB_Cache.cpp:1045`). A miss of another core to that line that comes in the
   same call merges with the entry, whose wake-up has been sent: it is never woken.
4. `core_pending_load`: a load that moves from the pending queue and finds an older store to its address is
   answered by forwarding, and its station is pushed onto the ready queue, but the function
   returns before the load is taken off the pending ones (`OOO_core.cpp:599`). In every later
   cycle it is answered again: its station, freed and cleared by then and not tested for `valid`,
   is dispatched for a slot of the ring it has no more, and nothing behind the load leaves the queue,
   so the program does not end. (One whose instruction waits for something else goes
   on to the caches although it has been answered.) It takes a load that waits for room while an
   older store to its address is put in the queue. `SlotsAgree` and `NoLostWakeUp` are violated by the same
   program. `ReadsLastWrite` holds with that one; with a ring of 5, 5 stations, a queue of two and eleven
   instructions (the same with four more that fill the ring, then one that loads into a register and
   one that reads it) TLC finds it violated as well: the slot is given to the writer by then and
   is marked executed while the writer waits for its load, so the reader is let go too early.

### Seen while modelling, and not claimed by a run

* `update_caches` finds the entry of L2 that an answer completes by `ins_id` alone and stops at the
  first (`TLB_Cache.cpp:1178`), although instructions and loads are numbered by two counters (`main.cpp:79`,
  `OOO_core.cpp:541`). A load that hits in L3 is done in L2, but the loop that erases can leave its entry
  out for a cycle; when the memory answers an instruction of the same number in that cycle, the
  load's entry is completed once more and the instruction's is not. L1 is answered, but the entry
  stays in L2 for ever. TLC shows it with one core, loads of lines 1, 2 and 1 and instructions in lines
  3 and 4, in `DataCaches` with two misses a level, one-way L1 and L2, two-way TLB and four-way L3. So
  L2's buffer is not bounded by the misses that L1 and the instruction side can have at a time;
  `CachesTypeOK` bounds it by what has been asked for.
* The port arbiter advances twice after a grant (`inter_connect.cpp:439, 470`), so a ready
  packet with a free output port can be passed over for a cycle.
* A refused chunk is only logged, and the fault goes on to take a page from an empty vector
  (`TLB_Cache.cpp:1605-1613`). `FaultServed` excuses that fault and says that nothing else keeps one
  from its page: when `undefined` is set, a pool was missing or had no room for a chunk.
* "The workload exits" is inferred from empty core queues (`main.cpp:279`), which can be empty
  at the end of a cycle with instructions waiting to be handed out; the real counter needs
  2000 / `num_nodes` such cycles in a row.
* The instruction limit is tested by each thread for itself (`main.cpp:136`): with several
  nodes the first to reach it leaves the others at the barrier. The readme gives no example of
  such a run, and `SimulationEnds` is about limits that are not reached.
* An instruction that reads the same bytes by both its operands has two turns in the AGU and
  two loads, and whichever is answered first answers both (`OOO_core.cpp:648-656`): the
  instruction is ready, and becomes ready again with the second. TLC finds `SlotsAgree`,
  `NoLostWakeUp` and `ReadsLastWrite` violated in an instance with such a program; the ring is
  a queue all the same. The programs of `ooo_core` have two different addresses or one
  (`DistinctOperands`).
* `nic_trans_delay` is an integer division (`inter_connect.cpp:272`) and a cycle goes through
  `float` (`278`): zero above 512 Gbps, rounded above 2^24 cycles.
* A line written back to a level that has it already is entered there a second time, in place of
  the next victim and without its modified flag (`TLB_Cache.cpp:1284`, `1300`); `CacheSets` does
  as the code does.
* `InsRef` returns on a register number above 1024 without releasing `Mutex1`
  (`Ins_Tracer.cpp:216`).
* `DRackSim-Trace`: nodes other than 0 look at the clock behind the barrier behind which
  thread 0 moves it, so their memory can miss a turn or have two; the last record of a trace is issued
  twice, because the end of the file shows only after a read has failed; threads whose traces
  end in different cycles wait for ever (`TraceNodes` states this, `EndsIffTogether`).

## 5. Proofs

`RackMemoryProofs`, from `SizesAssumption` (pools and chunks are not empty) and
`NodesAssumption` (no node is -1), for every number of nodes, pools and pages:

* `TypeInvariant`: `Spec => []TypeOK`.
* `InductiveInvariant`: `Spec => []IInv`. The safety properties are not inductive: that two
  pages never share a frame depends on why a page on a free list is not mapped, why the
  regions of a pool do not overlap, and what holds between the two halves of a request.
  `IInv` says so: a thread past the lock holds it; pool counters balance; regions of a node
  lie one after the other and leave no page uncovered; a region is in the pool's table, or
  pending, in which case it starts where the pool's handed-out part ends; regions of a pool
  are disjoint; free lists are sorted and of their kind; mapped pages are mapped once and not
  free. One lemma per kind of step: the node's half of a grant, the pool's half, entering a
  page, everything that leaves memory alone.
* `FramesNeverShared`, `MappedPagesBacked`: `NoSharedFrame` and `MappedPageBacked` from `IInv`,
  through lemmas about `find_remote_pool` and `remote_page_addr`: under `IInv` the two
  searches find the same region.
* `Refinement`: `Spec => ImplementsPageFrames`, a step is an `Assign` or a stutter; the new
  frame is free because regions are disjoint, and old translations stay because regions are
  only appended.

The same module, on the tables and the counters, from the same assumptions and from `IInv`:

* `TablesInAgreement`: `Spec => []TablesAgree`. The invariant `TablesInv` adds to `IInv` that every
  share of a pool is a region its node has, that shares are whole chunks one after the other,
  and that the regions a node has of one pool are in the order of their pages; so that both
  tables have the same regions in the same order, the one that is pending excepted.
* `CountersTrue`: `Spec => []CountersExact`. `CountersInv` counts, with the cardinality of finite sets:
  the pages of a node in a pool are its regions there times the size of a chunk, less what is free of
  the newest; the counters of free pages are the lengths of the lists; and the parity of the turn
  tells how many pages have gone to either side.

`InterconnectProofs`, from `SizesAssumption` and `DelaysAssumption` (delays are at least one
cycle), for every number of sources and destinations, all sizes, delays and traffic:

* `NetAlways`: the inductive invariant `NetInv`. Every queue holds packets of its own source and
  destination, ordered by cycle and none later than the last delay it was given (`InTime`); those of
  bounded size are within it. A packet enters the NIC of its source due at once, which keeps the
  order only because nothing that waits there has been put off to the next cycle yet: the bound of
  that queue (`NicHi`) depends on the stage. Sizes are cardinalities, so that each move changes
  them by one packet.
* `NetworkTyped`, `NetworkInOrder`: `TypeOK` and `QueuesInOrder` from `NetInv`.
* `SwitchMatchesPorts`: `Spec => SwitchMatching`. The turns of a cycle are a recursive function of the
  number of turns; that it exists, and that `TurnInv` holds of each of its values (a port that was
  granted is closed, an input port that has sent is behind the arbitrator, which passes each once), is an
  induction over that number, from the well-foundedness of the numbers.
* `NetworkIsChannels`: `Spec => ImplementsChannels`. A channel is the six queues behind one another, and of
  each the packets of one pair (`OfPair`, recursive along the queue). Lemmas say what appending, taking
  the front and changing times do to `OfPair`; a stage takes a packet from the front of one queue to the end of the next, which
  leaves the whole as it is (`Quiet`); only sending and delivering change a channel, and that of one pair.
* `OnlyAFullNicStrands`: `Spec /\ []Room => []NoPacketLeftBehind`. `Room` says that a destination's NIC has room
  whenever the packet at the front of its output port is due. `WorkInv` follows the
  stage through the cycle: before a stage has run no packet of its queue is behind the clock,
  afterwards none is due any more, and no packet is at work longer than its size takes. So the branch on the wrong `if`
  (finding 2) is the only thing in the network that can strand a packet. TLC finds `Room` true throughout the
  instance of `interconnect`, and false in that of `net_nic_full`.

`NodeThreadsProofs`, from `ThreadsAssumption`, for every number of nodes and all workloads:

* `TypeCorrect`, and `Inductive`: `Spec => []IInv`. The one idea is `InPhase`: all threads are
  between the third barrier and the first, or the first and the second, or the second and the
  third, and behind the first barrier the flag is constant. From it follow that all stand at
  the same call when the barrier opens, that nobody is in the loop over `Sim_complete` when
  the flag is read, hence that the flag, which is wrong only while some thread is in that loop
  (`LoopSound`), is right.
* `NetworkIsAlone`, `NodesInStep`, `AgreedEnd`, `LeftTogether`: the four safety properties.

`OOOCoreProofs`, from `RobSizeAssumption` (the ring has more than two slots: with two the code
takes it for full when it holds one instruction) and `CoreAssumption` (no size is zero, registers
are finitely many, programs are sequences of `Instructions`):

* `RingIsQueue`: `Spec => RobIsFifo`, for every program and every order of answers. The
  contents of the ring are a function of the two pointers; lemmas about `SizeOf` and `SlotAt`
  do the arithmetic around the end of the ring once. Issue appends, commit takes the head, and
  each of the other steps of the core writes only inside entries in use, which leaves
  the queue as it is.
* `CoreTypes`: `Spec => []CoreTypeOK`. The invariant is `Typed`. The bound on the ids of loads and
  stores is the part that needs an argument (`Counted`): an address in the AGU's queue or units
  has no id yet, so the ids given and these together are two per instruction issued and one per
  instruction committed at most; and what has been issued is what has been committed and what is
  in the ring.
* `CorePlaces`, `CoreWakeUps`, `CoreReads`: `SlotsAgree`, `NoLostWakeUp` and `ReadsLastWrite` in
  every behavior in which no pending load that moves finds a store to its address
  (`Spec /\ [](~ ForwardsPending) => ...`), of programs in which no instruction reads an address
  twice (`DistinctOperands`). The load/store queue has any size. The conditions are those under which the
  three hold at all: without the first `core_pending_load` and the longer program of finding 4 are
  counterexamples, without the second section 4 has one.
  `ReadsLastWrite` does not take the ring's word for what has executed: the last older writer of a register
  has its slot marked executed or has committed, and it has left its station besides, so a slot
  that was marked for another instruction does not count.

  The inductive invariant is `Typed /\ Strong /\ Reading`. None of the three properties is
  inductive: that an instruction is dispatched once depends on its being ready once, which
  depends on every wake-up being counted once. `Strong` counts: with `Count(q, S)`, how many
  elements of a queue are in a set, a station is in the list of dependents of a slot as often as it has
  registers that wait for it (`DependentsOK`), in the queue and the units of the AGU as often
  as it has operands without an address (`TurnsOK`), in the two queues of loads, per address,
  as often as it has operands asked for (`LoadsOK`), and in the queue of its type once if it
  waits for nothing (`ReadyOK`); a slot in use is held by one station or counted once
  at one place of work (`HoldersOK`, `WorkOK`). Lemmas say how a count changes when an element
  is appended, taken off or removed in the middle, and each step moves one element. `Reading` has
  the order of the instructions in the ring and behind it, that the alias table names the last
  writer of each register or that one has committed (`RenamingOK`), and that a station waits
  for the last writer before it or that one has executed (`ReadsOK`): a slot is used again
  only after its instruction has committed, which takes it out of the table and finds nobody waiting.

`InstructionFetchProofs`, from `FetchAssumption`, for every program and all sizes of the queues:

* `FetchInvariance`: the inductive invariant `FetchInv`. The instructions of the program are one line:
  first the decoded ones, then `inst_queue`, then `temp` up to `last_ins_id`, then those that
  miss and those that wait behind a miss, mixed but each in ascending order, then
  `core_inst_stream` (`LineInv`). Every stage moves one of the borders, which lemmas about such
  sequences say once; `OthersInv` has the limits of the buffers, the page fault entries and the
  predictor.
* `FetchTyped`, `FetchBeforeDecode`, `FetchInProgramOrder`: the three invariants of the run. That
  an instruction that waits has its line when it is handed on needs that the misses before it
  are done, which is part of the line.

`DataCachesProofs`, from `CachesAssumption`, for every number of cores, workload and size:

* `CachesInvariance`: `Spec => [](Typed /\ Kept)`. What a core has given to its caches is in
  three sequences, the walks, the misses with the list of those behind each, and the answers,
  and `Kept` says that every id a core has given is in exactly one of them and there once, all other ids in none.
  A step moves one id from one sequence to another or changes entries without their ids;
  lemmas say what appending, removing and merging do to the places of an id. The
  loops that erase and advance go one entry per step (`pos`); that they leave entries out
  does not matter to `Kept`. The first position that passes a test exists because the
  numbers are well-founded.
* `RequestsInOnePlace`: `Spec => []RequestsKept`: a load or store is in as many places as it has
  been given, one, and it is there once.
* `CachesTypes`: `Spec => []CachesTypeOK`. The inductive invariant is `CachesInv`: `Typed` and `Kept`, the
  lengths (`Sized`), what has been taken of the workload (`AskedWithin`), the sets of the caches
  (`CachesIn`) and what is behind L2 (`BehindTyped`). Walks and misses of L1 are within `mshr`
  because every place that adds one tests it. The buffer of L2 has no limit in the code, entries
  stay in it after L1 is done with them, and some for ever (section 4), so that
  no invariant about the other buffers bounds it. What does is a count (`Under`): the entries of
  L2, the misses of L1 that have still to go to L2 and the walks are together at most what
  the core has asked for. A walk becomes a miss, a miss goes to L2 once, since its time is `Off`
  afterwards, and only a request of the core adds to the sum.
* `CachesWakeUps`: `Spec /\ []NoneLeftOut => []WakeUpChain`. `NoneLeftOut` says that `update_l3_mshr`
  has left out no miss of L3 that is completed, which its loop does when two such misses are next to each
  other (section 4). The condition is one on the behavior: with an entry left out, a later miss that merges with it
  waits for ever, and `cache_shared_line` has that behavior. The inductive invariant is `CachesInv /\ ChainInv`.
  For each load, store or instruction of a core, `Chained` relates three buffers: a miss that waits in
  L1 has its turn in L2 still to come or is known to an open miss of L3, as the first or
  merged, and never both; the first of an open miss waits, so that `update_caches` finds it; and no two misses
  of L3 know the same one (`OneEach`). The last clause of `Chained` is for the search
  by number alone: `update_caches` finds an entry of L2 by `ins_id`, which instructions and loads
  count apart, so the entry found may be of the other source, when the own one was answered
  by a miss of that number before. Then the other has had its turn too, and taking its turn away takes nothing.

`TraceFilesProofs`, from `TraceAssumption`, for every length of file, program and limit and
every timing of the two processes:

* `NoRecordLost`: `Spec => []RecordsKept`. That what is read is in order and read once needs no
  assumption on when the reader looks. The invariant `InOrder` is that the reader's file number never falls
  behind the tracer's, so that the only file it can find is the tracer's own; whatever is there
  is younger than all that has been read and older than what is still in the buffer. The other half, that nothing is
  lost until a file is read in the gap, is `HandOff`: until then the reader's file is the tracer's
  and closed before it is read, `num_ins` tells the two whether the file is being written
  or read (`Turns`), and the instructions in the buffer, on disk and in the stream are as many as
  were recorded (`Counted`), which needs that each is a call made before.

`TraceNodesProofs`, from `TraceNodesAssumption` (traces are not empty and sorted by cycle):

* `ThreadsInStep`: `Spec => []InStep`, for every number of nodes and pools. The invariant
  `Steps`: what has been read of a trace and the clock agree (`Reading`); while the traces end
  together all threads are in the same phase, of five (`Phases`: before the first barrier,
  issuing, clocking, leaving, in the second loop); and the count of clockings is a function of
  the clock and of where thread 0 stands, whatever the traces (`ClockedOnce`).
* `ChunksInTurn`: `Spec => []PlacedInTurn`. The invariant `Placed`: a page of a node is in its
  table once; the regions of a pool are disjoint, whosever they are; the chunks of a pool are
  what it has handed out; and the pools before `NextPool` have given one chunk more than the
  others, until all have too little left for another. That no two pages are at one place then
  follows by the division of a page number by the size of a chunk.

**Model-checked only.**

* Liveness (`FaultServed`, `PacketsArrive`, `SimulationEnds`, `ProgramCompletes`,
  `EveryMissEnds`, `EveryInstructionDecoded`, `EverythingRead`, `EndsIffTogether`): beyond the
  prover.
* `NoPacketLeftBehind` is no theorem by itself: with a NIC of three units it is violated
  (`net_nic_full`). `OnlyAFullNicStrands` says under what it holds.
* `WakeUpChain` without `NoneLeftOut`: no theorem, since with a line that both
  cores ask for the chain breaks (`cache_shared_line`). In `data_caches`, too, two misses are completed
  in one cycle and one of them is left out, but the chain is whole in every state.

* `SlotsAgree`, `NoLostWakeUp` and `ReadsLastWrite` without their conditions: no theorem, since TLC
  has counterexamples (section 4).

## 6. Not modelled, and what is left

* **Page tables** (`MMU.cpp`, and those of the trace variant): a map from pages to pages in
  `RackMemory` and `TraceNodes`; the four levels and their indices are data structure only.
* **Replacement by LRU and LFU** (`ID_Cache.h`, `TLB.h`): the caches are built with
  `ROUND_ROBIN`. A cache is one set, and an access stays within a line.
* **DRAMSim2**: a library that answers every transaction it has accepted, in any order.
* **Pin, decoding, and the start of tracing with several threads** (`Ins_Tracer.cpp`): an
  instruction is what the record says; single-thread mode only.
* **Allocation policies that are not called**: commented out in `allocator.cpp`; in the trace
  variant, round robin per node, smart idle and uniform selection.
* **The interconnect of the trace variant**: the same stages as `Interconnect`.
* **Statistics, latency sums, reports, scripts, the gem5 patches and the trace tool**: nothing
  the simulated machine does depends on them.
* RDMA packets of the interconnect: never sent by this version.

**Abstractions that lose detail.** A cycle that goes through `float` (`inter_connect.cpp:278, 517`)
is added exactly in `Interconnect`; the two latencies of a page walk in `InstructionFetch`, of a fault
with and without a new chunk, are one constant; registers an instruction reads are a set in `OOOCore`
(one named twice gives two dependencies in the code, which are added and removed together).

What could be added: a run of the core with an instruction that reads one address by both operands
(`OOO_core.cpp:648`), which shows that it becomes ready twice.
