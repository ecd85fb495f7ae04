--------------------------- MODULE InstructionFetch ---------------------------
(***************************************************************************)
(* The front end of one core of DRACKSim-Detailed (TLB_Cache.cpp,          *)
(* branch_predictor.cpp): itlb_search translates the oldest instruction of *)
(* core_inst_stream and looks its line up in the instruction cache;        *)
(* instructions whose lines are missing wait in three places, in           *)
(* il1_miss_buffer, il1_wait_buffer and temp, and inst_queue has to hand   *)
(* them to the decoder in the order of the program.                        *)
(*                                                                         *)
(* A cycle is a round of the stages "schedule", "update" (update_mshr),    *)
(* "itlb", "icache", "search" (itlb_search), "core" (update_core), "end".  *)
(* Times are countdowns.  Open: when the trace has instructions for the    *)
(* core, when L2 answers a miss, how many instructions the decoder takes,  *)
(* when a mispredicted branch is dispatched, and what other cores fault.   *)
(***************************************************************************)
EXTENDS CacheSets, FiniteSets, FiniteSetsExt

CONSTANTS
  Blocks, Pages, PageOf,    \* lines of code, the pages they lie in
  Branches,                 \* addresses of branches
  Programs,                 \* sequences of [block, branch, taken]
  TLB_MISS, page_fault_latency,
  branch_penalty,
  mshr, iqueue_size, decode_width,
  StreamLimit,              \* 10 * core_count
  TlbWays, L1Ways

MAX_COUNTER == 3
NotABranch == "none"

ASSUME FetchAssumption ==
  /\ TLB_MISS \in Nat \ {0} /\ page_fault_latency \in Nat \ {0}
  /\ branch_penalty \in Nat
  /\ mshr \in Nat \ {0} /\ iqueue_size \in Nat \ {0}
  /\ decode_width \in Nat \ {0} /\ StreamLimit \in Nat \ {0}
  /\ NoTag \notin Blocks \union Pages
  /\ PageOf \in [Blocks -> Pages]
  /\ \A p \in Programs :
       p \in Seq([block : Blocks, branch : Branches \union {NotABranch},
                 taken : BOOLEAN])

VARIABLES
  program,            \* what the trace holds for this core
  INS_id,             \* id of the next instruction of it
  core_inst_stream,   \* ids, like every place below
  itlb,
  itlb_miss_buffer,   \* at most one walk: [page, wait]
  page_table,         \* pages that are mapped
  page_fault_entry,   \* pages being faulted in: cycles left
  il1,
  il1_miss_buffer,    \* [id, done]
  il1_wait_buffer,
  temp,
  inst_queue,         \* a priority queue by ins_id
  last_ins_id,
  branch_pred_table,
  miss_predicted,     \* instructions flagged branch_miss_predicted
  penalty,            \* branch_misprediction_penalty
  decoded,            \* what decode_ins has taken, in its order
  filled,             \* lines that have entered il1
  stage

streamVars == <<program, INS_id, core_inst_stream>>
tlbVars    == <<itlb, itlb_miss_buffer, page_table, page_fault_entry>>
fetchVars  == <<il1, il1_miss_buffer, il1_wait_buffer, temp, inst_queue,
                last_ins_id, filled>>
branchVars == <<branch_pred_table, miss_predicted>>
coreVars   == <<penalty, decoded>>
vars == <<streamVars, tlbVars, fetchVars, branchVars, coreVars, stage>>

Block(id) == program[id].block
PageFor(id) == PageOf[Block(id)]

Init ==
  /\ program \in Programs
  /\ INS_id = 1 /\ core_inst_stream = <<>>
  /\ itlb = EmptySet(TlbWays) /\ itlb_miss_buffer = <<>>
  /\ page_table = {} /\ page_fault_entry = <<>>
  /\ il1 = EmptySet(L1Ways)
  /\ il1_miss_buffer = <<>> /\ il1_wait_buffer = <<>>
  /\ temp = <<>> /\ inst_queue = {} /\ last_ins_id = 0 /\ filled = {}
  /\ branch_pred_table = [b \in Branches |-> 0] /\ miss_predicted = {}
  /\ penalty = 0 /\ decoded = <<>>
  /\ stage = "schedule"

\* A version in which the core takes instructions before the fetch.
CoreBeforeSearch ==
  [schedule |-> "update", update |-> "itlb", itlb |-> "icache",
   icache |-> "core", core |-> "search", search |-> "end", end |-> "schedule"]

Following ==
  [schedule |-> "update", update |-> "itlb", itlb |-> "icache",
   icache |-> "search", search |-> "core", core |-> "end", end |-> "schedule"]

Advance == stage' = Following[stage]

-------------------------------------------------------------------------------
\* Schedule_Instruction_on_cpu_cores: as many instructions as have come.
Schedule(n) ==
  /\ stage = "schedule"
  /\ n <= StreamLimit - Len(core_inst_stream)
  /\ INS_id + n <= Len(program) + 1
  /\ core_inst_stream' = core_inst_stream \o [i \in 1 .. n |-> INS_id + i - 1]
  /\ INS_id' = INS_id + n
  /\ Advance
  /\ UNCHANGED <<program, tlbVars, fetchVars, branchVars, coreVars>>

\* An access of L2, update_caches: a miss of IL1 is answered, in any order.
LineArrives(i) ==
  /\ stage = "update"
  /\ ~ il1_miss_buffer[i].done
  /\ il1_miss_buffer' = [il1_miss_buffer EXCEPT ![i].done = TRUE]
  /\ UNCHANGED <<streamVars, tlbVars, il1, il1_wait_buffer, temp, inst_queue,
                 last_ins_id, filled, branchVars, coreVars, stage>>

\* page_fault_entry_update.  A version that keeps what ends in this cycle.
OverYesterday(left) == left < 0

FaultOver(left) == left <= 0

page_fault_entry_update ==
  /\ stage = "update"
  /\ page_fault_entry' =
       [p \in {q \in DOMAIN page_fault_entry : ~ FaultOver(page_fault_entry[q])}
          |-> page_fault_entry[p]]
  /\ Advance
  /\ UNCHANGED <<streamVars, itlb, itlb_miss_buffer, page_table, fetchVars,
                 branchVars, coreVars>>

\* itlb_mshr_update: only in the very cycle the walk is complete.
itlb_mshr_update ==
  /\ stage = "itlb"
  /\ IF itlb_miss_buffer # <<>> /\ Head(itlb_miss_buffer).wait = 0
     THEN /\ itlb' = Replace(itlb, Head(itlb_miss_buffer).page)
          /\ itlb_miss_buffer' = <<>>
     ELSE UNCHANGED <<itlb, itlb_miss_buffer>>
  /\ Advance
  /\ UNCHANGED <<streamVars, page_table, page_fault_entry, fetchVars, branchVars,
                 coreVars>>

-------------------------------------------------------------------------------
\* update_icache_mshr, on a record of the places: il1, miss, wait, temp, queue,
\* last and filled.

\* A completed oldest miss enters the cache, in every cycle it stays.
Arrived(f) == f.miss # <<>> /\ Head(f.miss).done

FillLine(f) ==
  IF ~ Arrived(f) THEN f
  ELSE [f EXCEPT !.il1 = Replace(@, Block(Head(f.miss).id)),
                 !.filled = @ \union {Block(Head(f.miss).id)}]

\* temp goes to inst_queue while there is room.
FromTemp(f) ==
  LET n == Min({Len(f.temp), Max({0, iqueue_size - Cardinality(f.queue)})}) IN
  [f EXCEPT !.queue = @ \union {f.temp[i] : i \in 1 .. n},
            !.temp = SubSeq(@, n + 1, Len(@))]

\* How many of the first waiting instructions, of some lines, continue the
\* program.
Continuing(f, lines) ==
  Max({n \in 0 .. Len(f.wait) :
         \A i \in 1 .. n : f.wait[i] = f.last + i /\ Block(f.wait[i]) \in lines})

\* n of them go to temp, in which they are counted as sent.
TakeWaiting(f, n) ==
  [f EXCEPT !.temp = @ \o SubSeq(f.wait, 1, n),
            !.wait = SubSeq(@, n + 1, Len(@)),
            !.last = @ + n]

\* The next instruction of the program is the oldest miss.
NextInOrder(f) == f.miss # <<>> /\ Head(f.miss).id = f.last + 1

ReadyMiss(f) == Arrived(f) /\ NextInOrder(f)

\* The oldest miss, and the waiting instructions behind it if the first of them
\* is of its line.
FromMiss(f) ==
  IF Cardinality(f.queue) >= iqueue_size \/ ~ ReadyMiss(f) THEN f
  ELSE LET id == Head(f.miss).id
           g == [f EXCEPT !.queue = @ \union {id}, !.miss = Tail(@), !.last = id]
       IN IF g.wait = <<>> \/ Block(Head(g.wait)) # Block(id) THEN g
          ELSE TakeWaiting(g, Continuing(g, Blocks))

\* The first waiting instruction and those of its line, unless the next one is
\* still a miss.
FromWait(f) ==
  IF NextInOrder(f) \/ Len(f.temp) >= iqueue_size \/ f.wait = <<>> THEN f
  ELSE TakeWaiting(f, Continuing(f, {Block(Head(f.wait))}))

Places ==
  [il1 |-> il1, miss |-> il1_miss_buffer, wait |-> il1_wait_buffer,
   temp |-> temp, queue |-> inst_queue, last |-> last_ins_id, filled |-> filled]

update_icache_mshr ==
  /\ stage = "icache"
  /\ \E filling \in {FillLine(Places)} :
     \E sending \in {FromTemp(filling)} :
     \E served \in {FromMiss(sending)} :
     \E f \in {FromTemp(FromWait(served))} :
     /\ il1' = f.il1
     /\ il1_miss_buffer' = f.miss
     /\ il1_wait_buffer' = f.wait
     /\ temp' = f.temp
     /\ inst_queue' = f.queue
     /\ last_ins_id' = f.last
     /\ filled' = f.filled
  /\ Advance
  /\ UNCHANGED <<streamVars, tlbVars, branchVars, coreVars>>

-------------------------------------------------------------------------------
\* itlb_search
Oldest == Head(core_inst_stream)
Fetching == stage = "search" /\ penalty = 0 /\ core_inst_stream # <<>>
ItlbHit == Hit(itlb, PageFor(Oldest))

\* predict_branch and last_branch_result, again whenever the same instruction
\* is looked up again.
IsBranch(id) == program[id].branch # NotABranch
Predicted(id) == branch_pred_table[program[id].branch] >= (MAX_COUNTER + 1) \div 2

\* A version whose counters do not saturate.
TrainedFreely(counter, taken) == IF taken THEN counter + 1 ELSE counter - 1

Trained(counter, taken) ==
  IF taken /\ counter < MAX_COUNTER THEN counter + 1
  ELSE IF ~ taken /\ counter > 0 THEN counter - 1
  ELSE counter

Train(id) ==
  branch_pred_table' =
    IF IsBranch(id)
    THEN [branch_pred_table EXCEPT
            ![program[id].branch] = Trained(@, program[id].taken)]
    ELSE branch_pred_table

\* The flag is in the copy that this lookup hands on.
Flag(id) ==
  miss_predicted' =
    IF IsBranch(id) /\ program[id].taken # Predicted(id)
    THEN miss_predicted \union {id} ELSE miss_predicted

\* icache_search: a hit is served when nothing older waits for its line ...
MayServe ==
  /\ il1_miss_buffer = <<>>
  /\ il1_wait_buffer = <<>>
  /\ Cardinality(inst_queue) < iqueue_size
  /\ last_ins_id = Oldest - 1

IcacheHit == Fetching /\ ItlbHit /\ Hit(il1, Block(Oldest))

ServeHit ==
  /\ IcacheHit /\ MayServe
  /\ inst_queue' = inst_queue \union {Oldest}
  /\ last_ins_id' = last_ins_id + 1
  /\ core_inst_stream' = Tail(core_inst_stream)
  /\ Train(Oldest) /\ Flag(Oldest)
  /\ Advance
  /\ UNCHANGED <<program, INS_id, tlbVars, il1, il1_miss_buffer,
                 il1_wait_buffer, temp, filled, coreVars>>

\* ... a miss waits on its own, ...
IcacheMiss ==
  /\ Fetching /\ ItlbHit /\ ~ Hit(il1, Block(Oldest))
  /\ Len(il1_miss_buffer) < mshr

Missing == {i \in DOMAIN il1_miss_buffer :
              Block(il1_miss_buffer[i].id) = Block(Oldest)}

NewMiss ==
  /\ IcacheMiss /\ Missing = {}
  /\ il1_miss_buffer' = Append(il1_miss_buffer, [id |-> Oldest, done |-> FALSE])
  /\ core_inst_stream' = Tail(core_inst_stream)
  /\ Train(Oldest) /\ Flag(Oldest)
  /\ Advance
  /\ UNCHANGED <<program, INS_id, tlbVars, il1, il1_wait_buffer, temp,
                 inst_queue, last_ins_id, filled, coreVars>>

\* ... or with a miss of the same line, and every following instruction of the
\* line with it (get_ins_in_same_block): fresh copies, which carry no flag.
get_ins_in_same_block ==
  /\ IcacheMiss /\ Missing # {}
  /\ LET n == Max({k \in 1 .. Len(core_inst_stream) :
                     \A i \in 1 .. k : Block(core_inst_stream[i]) = Block(Oldest)})
     IN /\ il1_wait_buffer' = il1_wait_buffer \o SubSeq(core_inst_stream, 1, n)
        /\ core_inst_stream' =
             SubSeq(core_inst_stream, n + 1, Len(core_inst_stream))
  /\ Train(Oldest)
  /\ Advance
  /\ UNCHANGED <<program, INS_id, tlbVars, il1, il1_miss_buffer, temp,
                 inst_queue, last_ins_id, filled, miss_predicted, coreVars>>

\* The instruction stays where it is, though the predictor has learnt from it.
Refused ==
  /\ Fetching /\ ItlbHit
  /\ IF Hit(il1, Block(Oldest)) THEN ~ MayServe
     ELSE Len(il1_miss_buffer) >= mshr
  /\ Train(Oldest)
  /\ Advance
  /\ UNCHANGED <<streamVars, tlbVars, fetchVars, miss_predicted, coreVars>>

\* ITLB_MISS: behind a page fault under way, a walk, or a page fault.
Extend(faults, page, cycles) ==
  [p \in DOMAIN faults \union {page} |->
     IF p = page THEN cycles ELSE faults[p]]

ITLB_MISS ==
  /\ Fetching /\ ~ ItlbHit /\ itlb_miss_buffer = <<>>
  /\ LET page == PageFor(Oldest)
         Walk(cycles) ==
           itlb_miss_buffer' = <<[page |-> page, wait |-> cycles]>>
     IN \/ /\ page \in DOMAIN page_fault_entry
           /\ Walk(page_fault_entry[page])
           /\ UNCHANGED <<page_table, page_fault_entry>>
        \/ /\ page \notin DOMAIN page_fault_entry /\ page \in page_table
           /\ Walk(TLB_MISS)
           /\ UNCHANGED <<page_table, page_fault_entry>>
        \/ /\ page \notin DOMAIN page_fault_entry /\ page \notin page_table
           /\ Walk(page_fault_latency)
           /\ page_table' = page_table \union {page}
           /\ page_fault_entry' =
                Extend(page_fault_entry, page, page_fault_latency)
  /\ Advance
  /\ UNCHANGED <<streamVars, itlb, fetchVars, branchVars, coreVars>>

\* Nothing to fetch, a branch to wait for, or a walk under way.
NoFetch ==
  /\ stage = "search"
  /\ Fetching => (~ ItlbHit /\ itlb_miss_buffer # <<>>)
  /\ Advance
  /\ UNCHANGED <<streamVars, tlbVars, fetchVars, branchVars, coreVars>>

\* handle_page_fault for another core, or for a load or store.
OtherFault(page) ==
  /\ stage \in {"search", "core"}
  /\ page \notin page_table
  /\ page_table' = page_table \union {page}
  /\ page_fault_entry' = Extend(page_fault_entry, page, page_fault_latency)
  /\ UNCHANGED <<streamVars, itlb, itlb_miss_buffer, fetchVars, branchVars,
                 coreVars, stage>>

-------------------------------------------------------------------------------
\* decode_ins takes the oldest n of inst_queue.
OldestOf(n) ==
  {i \in inst_queue : Cardinality({j \in inst_queue : j < i}) < n}

\* As a priority queue gives them.
InOrder(ids) ==
  CHOOSE s \in [1 .. Cardinality(ids) -> ids] :
    \A i, j \in 1 .. Cardinality(ids) : i < j => s[i] < s[j]

decode_ins(n) ==
  /\ stage = "core" /\ penalty = 0
  /\ n <= Min({decode_width, Cardinality(inst_queue)})
  /\ decoded' = decoded \o InOrder(OldestOf(n))
  /\ inst_queue' = inst_queue \ OldestOf(n)

\* dispatch of a mispredicted branch stops the core and its fetch.
Mispredicted == miss_predicted \intersect {decoded[i] : i \in DOMAIN decoded}

update_core(n) ==
  /\ decode_ins(n)
  /\ \/ UNCHANGED <<penalty, miss_predicted>>
     \/ \E id \in Mispredicted :
          /\ penalty' = branch_penalty
          /\ miss_predicted' = miss_predicted \ {id}
  /\ Advance
  /\ UNCHANGED <<streamVars, tlbVars, il1, il1_miss_buffer, il1_wait_buffer,
                 temp, last_ins_id, filled, branch_pred_table>>

StalledCore ==
  /\ stage = "core" /\ penalty > 0
  /\ penalty' = penalty - 1
  /\ Advance
  /\ UNCHANGED <<streamVars, tlbVars, fetchVars, branchVars, decoded>>

\* common_clock++; a walk that was missed is past for good.
Past == -1

Tick ==
  /\ stage = "end"
  /\ page_fault_entry' =
       [p \in DOMAIN page_fault_entry |-> page_fault_entry[p] - 1]
  /\ itlb_miss_buffer' =
       [i \in DOMAIN itlb_miss_buffer |->
          [itlb_miss_buffer[i] EXCEPT !.wait = Max({@ - 1, Past})]]
  /\ Advance
  /\ UNCHANGED <<streamVars, itlb, page_table, fetchVars, branchVars, coreVars>>

-------------------------------------------------------------------------------
Search == ServeHit \/ NewMiss \/ get_ins_in_same_block \/ Refused \/ ITLB_MISS
Arrive == \E n \in 1 .. StreamLimit : Schedule(n)
Answer == \E i \in DOMAIN il1_miss_buffer : LineArrives(i)
Decode == \E n \in 1 .. decode_width : update_core(n)

Cycle ==
  \/ Schedule(0) \/ page_fault_entry_update \/ itlb_mshr_update
  \/ update_icache_mshr \/ Search \/ NoFetch \/ update_core(0) \/ StalledCore
  \/ Tick

Next ==
  Cycle \/ Arrive \/ Answer \/ Decode \/ (\E p \in Pages : OtherFault(p))

Spec == Init /\ [][Next]_vars

\* The node goes through its cycles; the trace is read, every miss is answered
\* and the decoder has room again, in the end.
FairSpec ==
  /\ Spec
  /\ WF_vars(Cycle)
  /\ SF_vars(Arrive) /\ SF_vars(Answer) /\ SF_vars(Decode)

-------------------------------------------------------------------------------
\* The places an instruction can be in between the stream and the decoder.
PlacesOf(id) ==
  {<<"miss", i>> : i \in {j \in DOMAIN il1_miss_buffer : il1_miss_buffer[j].id = id}}
  \union {<<"wait", i>> : i \in {j \in DOMAIN il1_wait_buffer : il1_wait_buffer[j] = id}}
  \union {<<"temp", i>> : i \in {j \in DOMAIN temp : temp[j] = id}}
  \union {<<"queue", 0>> : i \in {j \in inst_queue : j = id}}
  \union {<<"decoded", i>> : i \in {j \in DOMAIN decoded : decoded[j] = id}}

\* The decoder gets the instructions of the program in their order, each once,
\* though lines arrive in any order and instructions go three different ways
\* to inst_queue: through a miss, behind a miss, or by a hit that overtakes
\* whatever is left in temp.
DecodedInOrder ==
  /\ \A i \in DOMAIN decoded : decoded[i] = i
  /\ \A id \in 1 .. INS_id - 1 :
       Cardinality(PlacesOf(id)
                   \union {<<"stream", i>> : i \in {j \in DOMAIN core_inst_stream :
                                                     core_inst_stream[j] = id}}) = 1

\* No instruction is handed on before its line has come into the cache: one
\* that waits behind the miss of another instruction has no miss of its own.
FetchedBeforeDecoded ==
  \A id \in inst_queue \union {temp[i] : i \in DOMAIN temp}
            \union {decoded[i] : i \in DOMAIN decoded} : Block(id) \in filled

\* Every instruction of the program reaches the decoder: in particular, no walk
\* of the instruction TLB, which is looked at only in the cycle it ends in, is
\* left behind.
EveryInstructionDecoded == <>[](Len(decoded) = Len(program))

\* The type of the fetch state, with the limits of its buffers.
FetchTypeOK ==
  /\ INS_id \in 1 .. Len(program) + 1 /\ last_ins_id \in 0 .. Len(program)
  /\ Len(core_inst_stream) <= StreamLimit
  /\ Len(itlb_miss_buffer) <= 1 /\ Len(il1_miss_buffer) <= mshr
  /\ Cardinality(inst_queue) <= iqueue_size
  /\ DOMAIN page_fault_entry \subseteq page_table
  /\ branch_pred_table \in [Branches -> 0 .. MAX_COUNTER]
  /\ miss_predicted \subseteq 1 .. Len(program)
  /\ penalty \in 0 .. branch_penalty
===============================================================================
