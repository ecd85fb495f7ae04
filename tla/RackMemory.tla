------------------------------ MODULE RackMemory ------------------------------
(***************************************************************************)
(* Physical memory of the rack in DRACKSim-Detailed: the address space of  *)
(* every compute node (local_addr_space L[n]), of every remote memory pool *)
(* (remote_addr_space R[p]), the round-robin pool selection and the page   *)
(* fault handler that ties them together.                                  *)
(*                                                                         *)
(* One simulator thread runs each node (main.cpp, node_stream_handler) and *)
(* serves that node's page faults one after the other.  L[n] and the page  *)
(* table of n are touched by the thread of n only; the pools are shared    *)
(* under lock_mem; round_robin_last is shared without a lock, so every     *)
(* load and store of it is a step of its own (the simulator is built -O0). *)
(*                                                                         *)
(* Reading outside R[] or taking the first element of an empty vector is   *)
(* undefined behaviour: it sets "undefined" and no step follows it.        *)
(***************************************************************************)
EXTENDS Integers, Sequences, FiniteSets, FiniteSetsExt

CONSTANTS
  Nodes,       \* compute nodes, one thread each
  NumPools,    \* num_mem_pools
  LocalPages,  \* pages of local memory of a node (local_mem_size)
  PoolPages,   \* pages of a remote pool (remote_mem_size)
  ChunkPages,  \* pages of a chunk requested from a pool (chunk_size MB)
  VPages       \* virtual pages the workload of a node touches

ASSUME SizesAssumption ==
  /\ NumPools \in Nat \ {0}
  /\ LocalPages \in Nat
  /\ PoolPages \in Nat
  /\ ChunkPages \in Nat \ {0}

ASSUME NodesAssumption == -1 \notin Nodes

Pools  == 0 .. NumPools - 1
NoPage == -1   \* a missing page table entry, and the page of no address
NoPool == -1   \* find_remote_pool: no region holds the page
NoNode == -1   \* lock_mem is free
NoFrame == [unit |-> "none", id |-> NoPool, page |-> NoPage]

VARIABLES
  \* local_addr_space, per node
  total_pages, remote_pages, free_pages,
  local_allocated_pages, remote_allocated_pages,
  free_local_page_list, free_remote_page_list,
  remote_map,              \* sequence of node_remote_map regions
  \* remote_addr_space, per pool
  pool_free_pages, pool_allocated_pages,
  shared_mem_table,        \* sequence of remote_shared_map regions
  \* page tables and the fault handler, per node
  page_table, page_counter,
  pc, vpage, page_local_remote, loaded, remote_pool,
  \* shared by the threads
  round_robin_last, lock_mem, undefined

spaceVars  == <<total_pages, remote_pages, free_pages, local_allocated_pages,
                remote_allocated_pages, free_local_page_list,
                free_remote_page_list, remote_map>>
poolVars   == <<pool_free_pages, pool_allocated_pages, shared_mem_table>>
faultVars  == <<page_counter, vpage, page_local_remote>>
selectVars == <<loaded, remote_pool, round_robin_last>>
vars == <<spaceVars, poolVars, page_table, faultVars, selectVars, pc, lock_mem,
          undefined>>

-------------------------------------------------------------------------------
(***************************************************************************)
(* Address translation of a node, as send_to_memory uses it.               *)
(***************************************************************************)
is_local(page) == page < LocalPages

\* Mutant: every remote page is looked for in the newest region.
find_remote_pool_newest(n, page) ==
  IF remote_map[n] = <<>> THEN NoPool
  ELSE remote_map[n][Len(remote_map[n])].mem_pool_no

\* Mutant: a region is taken to hold the page behind its last one.
find_remote_pool_late(n, page) ==
  LET hits == {i \in DOMAIN remote_map[n] :
                 /\ page >= remote_map[n][i].local_base
                 /\ page <= remote_map[n][i].local_base
                              + remote_map[n][i].region_size}
  IN  IF hits = {} THEN NoPool ELSE remote_map[n][Min(hits)].mem_pool_no

\* The first region of n that holds the page names the pool.
find_remote_pool(n, page) ==
  LET hits == {i \in DOMAIN remote_map[n] :
                 /\ page >= remote_map[n][i].local_base
                 /\ page <= remote_map[n][i].local_base
                              + remote_map[n][i].region_size - 1}
  IN  IF hits = {} THEN NoPool ELSE remote_map[n][Min(hits)].mem_pool_no

\* The first region of n in that pool that ends at or after the page gives
\* the page of the pool; the region's lower end is not tested.
remote_page_addr(n, page, pool) ==
  LET hits == {i \in DOMAIN remote_map[n] :
                 /\ remote_map[n][i].mem_pool_no = pool
                 /\ remote_map[n][i].local_base
                      + remote_map[n][i].region_size - 1 >= page}
      r == remote_map[n][Min(hits)]
  IN  IF hits # {} /\ page - r.local_base <= r.region_size
      THEN r.remote_base + (page - r.local_base)
      ELSE NoPage

\* A pool accepts an access of n to the page: one of its regions, shared
\* with n, holds it.
validate_addr(pool, page, n) ==
  \E i \in DOMAIN shared_mem_table[pool] :
    LET s == shared_mem_table[pool][i]
    IN  /\ s.node_no = n
        /\ page >= s.base_page_no
        /\ page < s.base_page_no + s.limit

\* The memory unit and the page of it that a page of n stands for.
Frame(n, page) ==
  IF is_local(page)
  THEN [unit |-> "local", id |-> n, page |-> page]
  ELSE LET p == find_remote_pool(n, page)
       IN  [unit |-> "pool", id |-> p, page |-> remote_page_addr(n, page, p)]

\* Mutant: the unused pages are charged to every pool.
pool_wise_page_count_all(n, p) ==
  ChunkPages * Cardinality({i \in DOMAIN remote_map[n] :
                              remote_map[n][i].mem_pool_no = p})
    - (remote_pages[n] - remote_allocated_pages[n])

\* Pages of pool p in use by n, as the statistics count them: whole chunks,
\* less what is left in the newest region.
pool_wise_page_count(n, p) ==
  LET regions == {i \in DOMAIN remote_map[n] : remote_map[n][i].mem_pool_no = p}
      newest  == Len(remote_map[n])
  IN  ChunkPages * Cardinality(regions)
        - (IF newest \in regions
           THEN remote_pages[n] - remote_allocated_pages[n]
           ELSE 0)

-------------------------------------------------------------------------------
\* add_local_memory for every node and add_remote_memory_pool for every pool.
Init ==
  /\ total_pages = [n \in Nodes |-> LocalPages]
  /\ remote_pages = [n \in Nodes |-> 0]
  /\ free_pages = [n \in Nodes |-> LocalPages]
  /\ local_allocated_pages = [n \in Nodes |-> 0]
  /\ remote_allocated_pages = [n \in Nodes |-> 0]
  /\ free_local_page_list = [n \in Nodes |-> [i \in 1 .. LocalPages |-> i - 1]]
  /\ free_remote_page_list = [n \in Nodes |-> <<>>]
  /\ remote_map = [n \in Nodes |-> <<>>]
  /\ pool_free_pages = [p \in Pools |-> PoolPages]
  /\ pool_allocated_pages = [p \in Pools |-> 0]
  /\ shared_mem_table = [p \in Pools |-> <<>>]
  /\ page_table = [n \in Nodes |-> [v \in VPages |-> NoPage]]
  /\ page_counter = [n \in Nodes |-> 0]
  /\ pc = [n \in Nodes |-> "idle"]
  /\ vpage = [n \in Nodes |-> NoPage]
  /\ page_local_remote = [n \in Nodes |-> "L"]
  /\ loaded = [n \in Nodes |-> 0]
  /\ remote_pool = [n \in Nodes |-> NoPool]
  /\ round_robin_last = 1
  /\ lock_mem = NoNode
  /\ undefined = FALSE

Goto(n, from, to) == pc[n] = from /\ pc' = [pc EXCEPT ![n] = to]

-------------------------------------------------------------------------------
(***************************************************************************)
(* The page fault handler.                                                 *)
(***************************************************************************)

\* A TLB miss on a page that is not in the page table: place the page, remote on
\* even turns or once local memory is full, and request a chunk if none is left.
StartFault(n, v) ==
  LET side == IF page_counter[n] % 2 # 0 /\ free_local_page_list[n] # <<>>
              THEN "L" ELSE "R"
  IN  /\ page_table[n][v] = NoPage
      /\ vpage' = [vpage EXCEPT ![n] = v]
      /\ page_local_remote' = [page_local_remote EXCEPT ![n] = side]
      /\ page_counter' = [page_counter EXCEPT ![n] = @ + 1]
      /\ Goto(n, "idle", IF side = "R" /\ free_remote_page_list[n] = <<>>
                         THEN "select" ELSE "map")
      /\ UNCHANGED <<spaceVars, poolVars, page_table, selectVars, lock_mem,
                     undefined>>

selectFrame == UNCHANGED <<spaceVars, poolVars, page_table, faultVars, lock_mem,
                           undefined>>

\* round_robin_pool_select: a single pool needs no turn.
SelectPool(n) ==
  /\ Goto(n, "select", IF NumPools = 1 THEN "lock"
                       ELSE IF round_robin_last > NumPools THEN "wrap" ELSE "incr")
  /\ remote_pool' = [remote_pool EXCEPT ![n] = IF NumPools = 1 THEN 0 ELSE @]
  /\ UNCHANGED <<loaded, round_robin_last>>
  /\ selectFrame

LoadLast(n, from, to) ==
  /\ Goto(n, from, to)
  /\ loaded' = [loaded EXCEPT ![n] = round_robin_last]
  /\ UNCHANGED <<remote_pool, round_robin_last>>
  /\ selectFrame

LoadForWrap(n) == LoadLast(n, "wrap", "wrap_store")

StoreWrapped(n) ==
  /\ Goto(n, "wrap_store", "incr")
  /\ round_robin_last' = loaded[n] % NumPools
  /\ loaded' = [loaded EXCEPT ![n] = 0]
  /\ UNCHANGED remote_pool
  /\ selectFrame

LoadForIncrement(n) == LoadLast(n, "incr", "incr_store")

\* Mutant: the turn goes backwards.
StoreDecremented(n) ==
  /\ Goto(n, "incr_store", "return")
  /\ round_robin_last' = loaded[n] - 1
  /\ loaded' = [loaded EXCEPT ![n] = 0]
  /\ UNCHANGED remote_pool
  /\ selectFrame

StoreIncremented(n) ==
  /\ Goto(n, "incr_store", "return")
  /\ round_robin_last' = loaded[n] + 1
  /\ loaded' = [loaded EXCEPT ![n] = 0]
  /\ UNCHANGED remote_pool
  /\ selectFrame

ReturnPool(n) ==
  /\ Goto(n, "return", "lock")
  /\ remote_pool' = [remote_pool EXCEPT ![n] = round_robin_last - 2]
  /\ UNCHANGED <<loaded, round_robin_last>>
  /\ selectFrame

-------------------------------------------------------------------------------
(***************************************************************************)
(* request_remote_memory, called with lock_mem held.                       *)
(***************************************************************************)
\* Mutant: the lock is not waited for.
LockMemTaken(n) ==
  /\ lock_mem' = n
  /\ Goto(n, "lock", "request")
  /\ UNCHANGED <<spaceVars, poolVars, page_table, faultVars, selectVars,
                 undefined>>

LockMem(n) ==
  /\ lock_mem = NoNode
  /\ lock_mem' = n
  /\ Goto(n, "lock", "request")
  /\ UNCHANGED <<spaceVars, poolVars, page_table, faultVars, selectVars,
                 undefined>>

\* R[remote_pool] is outside the array.
RequestOutsidePools(n) ==
  /\ pc[n] = "request"
  /\ remote_pool[n] \notin Pools
  /\ undefined' = TRUE
  /\ UNCHANGED <<spaceVars, poolVars, page_table, faultVars, selectVars, pc,
                 lock_mem>>

\* The pool has a chunk left: the node's side of the new region.
GrantToNode(n) ==
  LET p == remote_pool[n]
  IN  /\ Goto(n, "request", "share")
      /\ p \in Pools
      /\ pool_free_pages[p] >= ChunkPages
      /\ free_remote_page_list' =
           [free_remote_page_list EXCEPT
              ![n] = @ \o [i \in 1 .. ChunkPages |-> total_pages[n] + (i - 1)]]
      /\ remote_map' =
           [remote_map EXCEPT
              ![n] = Append(@, [local_base  |-> total_pages[n],
                                remote_base |-> pool_allocated_pages[p],
                                region_size |-> ChunkPages,
                                mem_pool_no |-> p])]
      /\ total_pages' = [total_pages EXCEPT ![n] = @ + ChunkPages]
      /\ free_pages' = [free_pages EXCEPT ![n] = @ + ChunkPages]
      /\ remote_pages' = [remote_pages EXCEPT ![n] = @ + ChunkPages]
      /\ UNCHANGED <<local_allocated_pages, remote_allocated_pages,
                     free_local_page_list, poolVars, page_table, faultVars,
                     selectVars, lock_mem, undefined>>

\* Mutants: the pool's counter is read after it is raised; and the free pages
\* are not counted down.
GrantFromPoolAs(n, base, taken) ==
  LET p == remote_pool[n]
  IN  /\ Goto(n, "share", "unlock")
      /\ shared_mem_table' =
           [shared_mem_table EXCEPT
              ![p] = Append(@, [base_page_no |-> base,
                                limit        |-> ChunkPages,
                                node_no      |-> n])]
      /\ pool_allocated_pages' = [pool_allocated_pages EXCEPT ![p] = @ + ChunkPages]
      /\ pool_free_pages' = [pool_free_pages EXCEPT ![p] = @ - taken]
      /\ UNCHANGED <<spaceVars, page_table, faultVars, selectVars, lock_mem,
                     undefined>>
GrantFromPoolLate(n) ==
  GrantFromPoolAs(n, pool_allocated_pages[remote_pool[n]] + ChunkPages, ChunkPages)
GrantFromPoolUncounted(n) ==
  GrantFromPoolAs(n, pool_allocated_pages[remote_pool[n]], 0)

\* The pool's side of the new region.
GrantFromPool(n) ==
  LET p == remote_pool[n]
  IN  /\ Goto(n, "share", "unlock")
      /\ shared_mem_table' =
           [shared_mem_table EXCEPT
              ![p] = Append(@, [base_page_no |-> pool_allocated_pages[p],
                                limit        |-> ChunkPages,
                                node_no      |-> n])]
      /\ pool_allocated_pages' = [pool_allocated_pages EXCEPT ![p] = @ + ChunkPages]
      /\ pool_free_pages' = [pool_free_pages EXCEPT ![p] = @ - ChunkPages]
      /\ UNCHANGED <<spaceVars, page_table, faultVars, selectVars, lock_mem,
                     undefined>>

\* The pool is exhausted: the request is logged and nothing is granted.
Refuse(n) ==
  /\ Goto(n, "request", "unlock")
  /\ remote_pool[n] \in Pools
  /\ pool_free_pages[remote_pool[n]] < ChunkPages
  /\ UNCHANGED <<spaceVars, poolVars, page_table, faultVars, selectVars,
                 lock_mem, undefined>>

\* Mutant: the lock is kept.
UnlockMemForgotten(n) ==
  /\ Goto(n, "unlock", "map")
  /\ UNCHANGED <<spaceVars, poolVars, page_table, faultVars, selectVars, lock_mem,
                 undefined>>

UnlockMem(n) ==
  /\ Goto(n, "unlock", "map")
  /\ lock_mem' = NoNode
  /\ UNCHANGED <<spaceVars, poolVars, page_table, faultVars, selectVars,
                 undefined>>

-------------------------------------------------------------------------------
(***************************************************************************)
(* The end of handle_page_fault: take a page off a free list and enter it  *)
(* in the page table.  (page_fault_entry, which remembers when the fault   *)
(* completes, is in InstructionFetch: here it is a matter of time.)        *)
(***************************************************************************)
EnterPage(n, page) ==
  /\ Goto(n, "map", "idle")
  /\ page_table' = [page_table EXCEPT ![n][vpage[n]] = page]
  /\ vpage' = [vpage EXCEPT ![n] = NoPage]
  /\ free_pages' = [free_pages EXCEPT ![n] = @ - 1]
  /\ UNCHANGED <<total_pages, remote_pages, remote_map, poolVars, page_counter,
                 page_local_remote, selectVars, lock_mem, undefined>>

\* Mutant: the page stays on the free list.
allocate_remote_page_kept(n) ==
  /\ page_local_remote[n] = "R"
  /\ free_remote_page_list[n] # <<>>
  /\ EnterPage(n, Head(free_remote_page_list[n]))
  /\ remote_allocated_pages' = [remote_allocated_pages EXCEPT ![n] = @ + 1]
  /\ UNCHANGED <<free_local_page_list, local_allocated_pages, free_remote_page_list>>

allocate_remote_page(n) ==
  /\ page_local_remote[n] = "R"
  /\ free_remote_page_list[n] # <<>>
  /\ EnterPage(n, Head(free_remote_page_list[n]))
  /\ free_remote_page_list' = [free_remote_page_list EXCEPT ![n] = Tail(@)]
  /\ remote_allocated_pages' = [remote_allocated_pages EXCEPT ![n] = @ + 1]
  /\ UNCHANGED <<free_local_page_list, local_allocated_pages>>

allocate_local_page(n) ==
  /\ page_local_remote[n] = "L"
  /\ free_local_page_list[n] # <<>>
  /\ EnterPage(n, Head(free_local_page_list[n]))
  /\ free_local_page_list' = [free_local_page_list EXCEPT ![n] = Tail(@)]
  /\ local_allocated_pages' = [local_allocated_pages EXCEPT ![n] = @ + 1]
  /\ UNCHANGED <<free_remote_page_list, remote_allocated_pages>>

\* Element 0 of an empty free list is read and erased.  ("L" is chosen only
\* while the node has a free local page, and only this thread takes one.)
AllocateFromEmptyList(n) ==
  /\ pc[n] = "map"
  /\ page_local_remote[n] = "R"
  /\ free_remote_page_list[n] = <<>>
  /\ undefined' = TRUE
  /\ UNCHANGED <<spaceVars, poolVars, page_table, faultVars, selectVars, pc,
                 lock_mem>>

-------------------------------------------------------------------------------
\* The steps of a fault already started.
Handle(n) ==
  \/ SelectPool(n)
  \/ LoadForWrap(n)
  \/ StoreWrapped(n)
  \/ LoadForIncrement(n)
  \/ StoreIncremented(n)
  \/ ReturnPool(n)
  \/ LockMem(n)
  \/ RequestOutsidePools(n)
  \/ GrantToNode(n)
  \/ GrantFromPool(n)
  \/ Refuse(n)
  \/ UnlockMem(n)
  \/ allocate_remote_page(n)
  \/ allocate_local_page(n)
  \/ AllocateFromEmptyList(n)

Finished ==
  \/ undefined
  \/ \A n \in Nodes : pc[n] = "idle" /\ \A v \in VPages : page_table[n][v] # NoPage

\* The workloads have touched all their pages, or nothing more can be said.
Terminating == Finished /\ UNCHANGED vars

HandleDefined(n) == ~undefined /\ Handle(n)

Next ==
  \/ /\ ~undefined
     /\ \E n \in Nodes : \/ \E v \in VPages : StartFault(n, v)
                         \/ Handle(n)
  \/ Terminating

\* A node's thread never stops inside the handler.
Fairness == \A n \in Nodes : WF_vars(HandleDefined(n))

Spec == Init /\ [][Next]_vars /\ Fairness
-------------------------------------------------------------------------------
(***************************************************************************)
(* Properties.                                                             *)
(***************************************************************************)
Mapped(n) == {v \in VPages : page_table[n][v] # NoPage}

Region == [local_base : Nat, remote_base : Nat, region_size : Nat, mem_pool_no : Pools]
Share  == [base_page_no : Nat, limit : Nat, node_no : Nodes]

PcStates == {"idle", "select", "wrap", "wrap_store", "incr", "incr_store",
             "return", "lock", "request", "share", "unlock", "map"}

SpaceTypeOK ==
  /\ total_pages \in [Nodes -> Nat]
  /\ remote_pages \in [Nodes -> Nat]
  /\ free_pages \in [Nodes -> Int]
  /\ local_allocated_pages \in [Nodes -> Nat]
  /\ remote_allocated_pages \in [Nodes -> Nat]
  /\ free_local_page_list \in [Nodes -> Seq(Nat)]
  /\ free_remote_page_list \in [Nodes -> Seq(Nat)]
  /\ remote_map \in [Nodes -> Seq(Region)]

PoolTypeOK ==
  /\ pool_free_pages \in [Pools -> Int]
  /\ pool_allocated_pages \in [Pools -> Nat]
  /\ shared_mem_table \in [Pools -> Seq(Share)]

FaultTypeOK ==
  /\ page_table \in [Nodes -> [VPages -> Nat \cup {NoPage}]]
  /\ page_counter \in [Nodes -> Nat]
  /\ vpage \in [Nodes -> VPages \cup {NoPage}]
  /\ page_local_remote \in [Nodes -> {"L", "R"}]

ThreadTypeOK ==
  /\ pc \in [Nodes -> PcStates]
  /\ loaded \in [Nodes -> Nat]
  /\ remote_pool \in [Nodes -> Int]
  /\ round_robin_last \in Nat
  /\ lock_mem \in Nodes \cup {NoNode}

TypeOK ==
  /\ SpaceTypeOK
  /\ PoolTypeOK
  /\ FaultTypeOK
  /\ ThreadTypeOK
  /\ undefined \in BOOLEAN

-------------------------------------------------------------------------------
(***************************************************************************)
(* The inductive invariant: what the threads' positions, the free lists,   *)
(* the page tables and the two kinds of region table have to do with each  *)
(* other, in the middle of a request too.                                  *)
(***************************************************************************)

\* lock_mem: a thread between the lock and the unlock holds it.
LockHeld ==
  \A n \in Nodes : pc[n] \in {"request", "share", "unlock"} => lock_mem = n

\* The node has entered the region, the pool has not yet.
Pending(n, i) == pc[n] = "share" /\ i = Len(remote_map[n])

\* The regions of a node lie one after the other behind its local pages and
\* leave no page uncovered.
RegionsCover(n) ==
  /\ LocalPages <= total_pages[n]
  /\ \A i \in DOMAIN remote_map[n] :
       /\ remote_map[n][i].region_size = ChunkPages
       /\ LocalPages <= remote_map[n][i].local_base
       /\ remote_map[n][i].local_base + ChunkPages <= total_pages[n]
       /\ \A j \in 1 .. i - 1 :
            remote_map[n][j].local_base + ChunkPages <= remote_map[n][i].local_base
  /\ \A page \in LocalPages .. total_pages[n] - 1 :
       \E i \in DOMAIN remote_map[n] :
         /\ remote_map[n][i].local_base <= page
         /\ page < remote_map[n][i].local_base + ChunkPages

\* A region lies in the part of its pool that is handed out, and the pool's
\* table shares it with the node; a pending region begins where that part ends,
\* and none of its pages is mapped.
RegionsGranted(n) ==
  \A i \in DOMAIN remote_map[n] :
    LET r == remote_map[n][i]
    IN  IF Pending(n, i)
        THEN /\ r.mem_pool_no = remote_pool[n]
             /\ r.remote_base = pool_allocated_pages[r.mem_pool_no]
             /\ \A v \in Mapped(n) : page_table[n][v] < r.local_base
        ELSE /\ r.remote_base + ChunkPages <= pool_allocated_pages[r.mem_pool_no]
             /\ \E k \in DOMAIN shared_mem_table[r.mem_pool_no] :
                  shared_mem_table[r.mem_pool_no][k] =
                    [base_page_no |-> r.remote_base, limit |-> ChunkPages,
                     node_no |-> n]

\* Two regions of one pool do not overlap, whichever nodes they belong to.
RegionsDisjoint ==
  \A n, m \in Nodes :
    \A i \in DOMAIN remote_map[n], j \in DOMAIN remote_map[m] :
      (remote_map[n][i].mem_pool_no = remote_map[m][j].mem_pool_no
         /\ <<n, i>> # <<m, j>>) =>
        \/ remote_map[n][i].remote_base + ChunkPages <= remote_map[m][j].remote_base
        \/ remote_map[m][j].remote_base + ChunkPages <= remote_map[n][i].remote_base

PoolBalance ==
  /\ \A p \in Pools :
       /\ pool_allocated_pages[p] + pool_free_pages[p] = PoolPages
       /\ pool_free_pages[p] >= 0
  /\ \A n \in Nodes : pc[n] = "share" =>
       /\ remote_pool[n] \in Pools
       /\ pool_free_pages[remote_pool[n]] >= ChunkPages
       /\ remote_map[n] # <<>>

\* A free list holds pages of its kind, in increasing order.
FreeListsSorted(n) ==
  /\ \A i \in DOMAIN free_local_page_list[n] :
       /\ free_local_page_list[n][i] < LocalPages
       /\ \A j \in 1 .. i - 1 :
            free_local_page_list[n][j] < free_local_page_list[n][i]
  /\ \A i \in DOMAIN free_remote_page_list[n] :
       /\ LocalPages <= free_remote_page_list[n][i]
       /\ free_remote_page_list[n][i] < total_pages[n]
       /\ \A j \in 1 .. i - 1 :
            free_remote_page_list[n][j] < free_remote_page_list[n][i]

\* A mapped page exists, is mapped once and is on no free list; the page being
\* faulted in is not mapped.
PagesMappedOnce(n) ==
  /\ \A v \in Mapped(n) :
       /\ page_table[n][v] < total_pages[n]
       /\ \A i \in DOMAIN free_local_page_list[n] :
            free_local_page_list[n][i] # page_table[n][v]
       /\ \A i \in DOMAIN free_remote_page_list[n] :
            free_remote_page_list[n][i] # page_table[n][v]
       /\ \A w \in Mapped(n) :
            page_table[n][w] = page_table[n][v] => w = v
  /\ pc[n] # "idle" => vpage[n] \in VPages /\ page_table[n][vpage[n]] = NoPage

\* The strengthening that makes the safety properties below inductive: taken
\* together, the parts say that a page on a free list is backed and unused.
IInv ==
  /\ LockHeld
  /\ PoolBalance
  /\ RegionsDisjoint
  /\ \A n \in Nodes : /\ RegionsCover(n)
                      /\ RegionsGranted(n)
                      /\ FreeListsSorted(n)
                      /\ PagesMappedOnce(n)

-------------------------------------------------------------------------------
\* Every mapped page is backed: a local page of the node, or a page of a pool
\* that the lookups of send_to_memory find and that the pool's own table says
\* is shared with this node.  The node's table and the pool's table are
\* written in different steps and never read together by the code.
MappedPageBacked ==
  \A n \in Nodes : \A v \in Mapped(n) :
    LET f == Frame(n, page_table[n][v])
    IN  \/ f.unit = "local"
        \/ /\ f.id \in Pools
           /\ f.page \in 0 .. PoolPages - 1
           /\ validate_addr(f.id, f.page, n)

\* No two virtual pages of the rack are translated to the same page of the
\* same memory unit, although the nodes carve their chunks out of the same
\* pools concurrently.
NoSharedFrame ==
  \A n, m \in Nodes : \A v \in Mapped(n), w \in Mapped(m) :
    Frame(n, page_table[n][v]) = Frame(m, page_table[m][w]) => n = m /\ v = w

\* The entry i of the node and the entry k of the pool are of the same pages.
SameRegion(n, i, p, k) ==
  /\ remote_map[n][i].mem_pool_no = p /\ shared_mem_table[p][k].node_no = n
  /\ remote_map[n][i].remote_base = shared_mem_table[p][k].base_page_no
  /\ remote_map[n][i].region_size = shared_mem_table[p][k].limit

\* The node's list for a pool and the pool's list for the node hold the same
\* regions, each once, in the same order.
RegionsAgree ==
  \A n \in Nodes, p \in Pools : pc[n] # "share" =>
    LET regions == {i \in DOMAIN remote_map[n] : remote_map[n][i].mem_pool_no = p}
        shares  == {k \in DOMAIN shared_mem_table[p] :
                      shared_mem_table[p][k].node_no = n}
    IN  /\ \A i \in regions : \E k \in shares : SameRegion(n, i, p, k)
        /\ \A k \in shares : \E i \in regions : SameRegion(n, i, p, k)
        /\ \A i, j \in regions, k, l \in shares :
             SameRegion(n, i, p, k) /\ SameRegion(n, j, p, l) => (i < j <=> k < l)

\* A pool never hands out more than it has, and its counters agree with its
\* table: the regions shared so far fill the pool from page 0 without a gap.
PoolAccounted ==
  \A p \in Pools :
    /\ pool_allocated_pages[p] + pool_free_pages[p] = PoolPages
    /\ pool_free_pages[p] >= 0
    /\ pool_allocated_pages[p] = ChunkPages * Len(shared_mem_table[p])
    /\ \A i \in DOMAIN shared_mem_table[p] :
         shared_mem_table[p][i].base_page_no = ChunkPages * (i - 1)

\* A node and a pool agree on the regions between them, outside the lock
\* (remote_map against shared_mem_table), and the pool's counters with its table:
\* four tables written in different steps and never read together.
TablesAgree == RegionsAgree /\ PoolAccounted

\* The two ways get_stats counts the free pages of a node ("Free Pages left"
\* and "Free Pages left2") give the same number.
FreePagesAgree ==
  \A n \in Nodes :
    free_pages[n] = Len(free_local_page_list[n]) + Len(free_remote_page_list[n])

\* pool_wise_page_count, which charges all unused remote pages to the newest
\* region, reports the number of mapped pages in every pool.
PoolWiseCountExact ==
  \A n \in Nodes : pc[n] = "idle" =>
    \A p \in Pools :
      pool_wise_page_count(n, p) =
        Cardinality({v \in Mapped(n) :
                       /\ ~is_local(page_table[n][v])
                       /\ find_remote_pool(n, page_table[n][v]) = p})

\* Pages alternate between remote and local memory, remote first, as long as
\* the node has a free local page.
AlternatePlacement ==
  \A n \in Nodes : pc[n] = "idle" /\ free_local_page_list[n] # <<>> =>
    remote_allocated_pages[n] - local_allocated_pages[n] = page_counter[n] % 2

\* The counters a node keeps beside its tables and free lists, for its reports
\* and to decide where the next page goes, tell the same as the tables and lists:
\* the free pages, the pages in use of every pool, and the alternation.
CountersExact == FreePagesAgree /\ PoolWiseCountExact /\ AlternatePlacement

\* The rack implements the abstract assignment of frames to pages: each page
\* gets one frame, once, that no other page has, and keeps it.
frame == [n \in Nodes |->
            [v \in VPages |-> IF page_table[n][v] = NoPage
                              THEN NoFrame
                              ELSE Frame(n, page_table[n][v])]]

Frames == INSTANCE PageFrames

ImplementsPageFrames == Frames!Spec

\* What leads to undefined behaviour: a selection that raced, or a pool without
\* room for a chunk.
PoolMissing == \E n \in Nodes : pc[n] = "request" /\ remote_pool[n] \notin Pools
PoolExhausted == \E p \in Pools : pool_free_pages[p] < ChunkPages

\* Every fault that is started ends with its page mapped, the faults that wait
\* behind lock_mem included, unless a thread was given a pool that does not exist
\* or a pool has run out and a page was taken from an empty list.
FaultServed ==
  \A n \in Nodes, v \in VPages :
    vpage[n] = v ~> \/ page_table[n][v] # NoPage
                    \/ undefined /\ (PoolMissing \/ PoolExhausted)

\* "round-robin memory pool allocation" (allocator.cpp:6): what the selection
\* returns is one of the pools.
SelectedPoolExists == \A n \in Nodes : pc[n] = "lock" => remote_pool[n] \in Pools
===============================================================================
