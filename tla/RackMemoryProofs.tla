--------------------------- MODULE RackMemoryProofs ---------------------------
(***************************************************************************)
(* Theorems about RackMemory, for every number of nodes, pools and pages:  *)
(* its types, the pages and frames, the tables of nodes and pools, and the *)
(* counters.                                                               *)
(***************************************************************************)
EXTENDS RackMemory, SequenceTheorems, FiniteSetTheorems, TLAPS

\* A function on 1..k with values in S is a sequence over S.
LEMMA FunctionIsSeq ==
  ASSUME NEW S, NEW k \in Nat, NEW f \in [1 .. k -> S]
  PROVE  f \in Seq(S)
BY SeqDef

LEMMA SmallerThanBound ==
  ASSUME NEW a \in Nat, NEW b \in Nat, NEW c \in Nat, a < b, b <= c
  PROVE  a < c
OBVIOUS

(***************************************************************************)
(* Every variable keeps its type: free lists and tables hold page numbers  *)
(* and regions, and the sides, pools and pages of a fault are what the     *)
(* handler can compute.                                                    *)
(***************************************************************************)
THEOREM TypeInvariant == Spec => []TypeOK
<1>1. Init => TypeOK
  <2> SUFFICES ASSUME Init PROVE TypeOK
    OBVIOUS
  <2>1. ASSUME NEW n \in Nodes
        PROVE  free_local_page_list[n] \in Seq(Nat)
    <3>1. free_local_page_list[n] \in [1 .. LocalPages -> Nat]
      BY SizesAssumption DEF Init
    <3>2. QED
      BY <3>1, SizesAssumption, FunctionIsSeq
  <2>2. SpaceTypeOK
    BY <2>1, SizesAssumption DEF Init, SpaceTypeOK
  <2>3. PoolTypeOK
    BY SizesAssumption DEF Init, PoolTypeOK
  <2>4. FaultTypeOK
    BY DEF Init, FaultTypeOK
  <2>5. ThreadTypeOK
    BY DEF Init, ThreadTypeOK, PcStates, NoPool
  <2>6. undefined \in BOOLEAN
    BY DEF Init
  <2>7. QED
    BY <2>2, <2>3, <2>4, <2>5, <2>6 DEF TypeOK
<1>2. TypeOK /\ [Next]_vars => TypeOK'
  <2> SUFFICES ASSUME TypeOK, [Next]_vars PROVE TypeOK'
    OBVIOUS
  <2>t. SpaceTypeOK /\ PoolTypeOK /\ FaultTypeOK /\ ThreadTypeOK
    BY DEF TypeOK
  <2>a. UNCHANGED spaceVars => SpaceTypeOK'
    BY DEF TypeOK, SpaceTypeOK, spaceVars
  <2>b. UNCHANGED poolVars => PoolTypeOK'
    BY DEF TypeOK, PoolTypeOK, poolVars
  <2>c. UNCHANGED <<page_table, faultVars>> => FaultTypeOK'
    BY DEF TypeOK, FaultTypeOK, faultVars
  <2>d. ASSUME NEW n \in Nodes, NEW from, NEW to \in PcStates, Goto(n, from, to)
        PROVE  pc' \in [Nodes -> PcStates]
    BY <2>d DEF Goto, TypeOK, ThreadTypeOK
  <2>1. ASSUME NEW n \in Nodes, NEW v \in VPages, StartFault(n, v)
        PROVE  TypeOK'
    <3>1. SpaceTypeOK' /\ PoolTypeOK'
      BY <2>1, <2>a, <2>b DEF StartFault
    <3>2. FaultTypeOK'
      <4>1. page_counter' \in [Nodes -> Nat]
        BY <2>1 DEF StartFault, TypeOK, FaultTypeOK
      <4>2. page_local_remote' \in [Nodes -> {"L", "R"}]
        BY <2>1 DEF StartFault, TypeOK, FaultTypeOK
      <4>3. QED
        BY <2>1, <4>1, <4>2 DEF StartFault, TypeOK, FaultTypeOK
    <3>3. pc' \in [Nodes -> PcStates]
      BY <2>1, <2>d DEF StartFault, PcStates
    <3>4. ThreadTypeOK'
      BY <2>t, <2>1, <3>1, <3>2, <3>3 DEF StartFault, ThreadTypeOK, selectVars
    <3>5. QED
      BY <2>1, <3>1, <3>2, <3>3, <3>4 DEF StartFault, TypeOK
  <2>2. ASSUME NEW n \in Nodes, SelectPool(n) PROVE TypeOK'
    <3>1. SpaceTypeOK' /\ PoolTypeOK' /\ FaultTypeOK'
      BY <2>2, <2>a, <2>b, <2>c DEF SelectPool, selectFrame
    <3>2. pc' \in [Nodes -> PcStates]
      BY <2>2, <2>d DEF SelectPool, PcStates
    <3>3. ThreadTypeOK'
      <4>1. remote_pool' \in [Nodes -> Int]
        BY <2>t, <2>2 DEF SelectPool, ThreadTypeOK
      <4>2. QED
        BY <2>t, <2>2, <3>2, <4>1 DEF SelectPool, selectFrame, ThreadTypeOK
    <3>4. QED
      BY <2>2, <3>1, <3>3 DEF SelectPool, selectFrame, TypeOK
  <2>4. ASSUME NEW n \in Nodes, LoadForWrap(n) PROVE TypeOK'
    <3>1. SpaceTypeOK' /\ PoolTypeOK' /\ FaultTypeOK'
      BY <2>4, <2>a, <2>b, <2>c DEF LoadForWrap, LoadLast, selectFrame
    <3>2. pc' \in [Nodes -> PcStates]
      BY <2>4, <2>d DEF LoadForWrap, LoadLast, selectFrame, PcStates
    <3>3. ThreadTypeOK'
      BY <2>t, <2>4, <3>2 DEF LoadForWrap, LoadLast, selectFrame, ThreadTypeOK, selectVars
    <3>4. QED
      BY <2>4, <3>1, <3>3 DEF LoadForWrap, LoadLast, selectFrame, TypeOK
  <2>5. ASSUME NEW n \in Nodes, StoreWrapped(n) PROVE TypeOK'
    <3>1. SpaceTypeOK' /\ PoolTypeOK' /\ FaultTypeOK'
      BY <2>5, <2>a, <2>b, <2>c DEF StoreWrapped, selectFrame
    <3>2. pc' \in [Nodes -> PcStates]
      BY <2>5, <2>d DEF StoreWrapped, selectFrame, PcStates
    <3>3. ThreadTypeOK'
      <4>1. loaded' \in [Nodes -> Nat]
        BY <2>t, <2>5, SizesAssumption DEF StoreWrapped, selectFrame, ThreadTypeOK, selectVars
      <4>2. remote_pool' \in [Nodes -> Int]
        BY <2>t, <2>5, SizesAssumption DEF StoreWrapped, selectFrame, ThreadTypeOK, selectVars
      <4>3. round_robin_last' \in Nat
        BY <2>t, <2>5, SizesAssumption DEF StoreWrapped, selectFrame, ThreadTypeOK, selectVars
      <4>4. lock_mem' \in Nodes \cup {NoNode}
        BY <2>t, <2>5, SizesAssumption DEF StoreWrapped, selectFrame, ThreadTypeOK, selectVars
      <4>5. QED
        BY <3>2, <4>1, <4>2, <4>3, <4>4 DEF ThreadTypeOK
    <3>4. QED
      BY <2>5, <3>1, <3>3 DEF StoreWrapped, selectFrame, TypeOK
  <2>6. ASSUME NEW n \in Nodes, LoadForIncrement(n) PROVE TypeOK'
    <3>1. SpaceTypeOK' /\ PoolTypeOK' /\ FaultTypeOK'
      BY <2>6, <2>a, <2>b, <2>c DEF LoadForIncrement, LoadLast, selectFrame
    <3>2. pc' \in [Nodes -> PcStates]
      BY <2>6, <2>d DEF LoadForIncrement, LoadLast, selectFrame, PcStates
    <3>3. ThreadTypeOK'
      BY <2>t, <2>6, <3>2 DEF LoadForIncrement, LoadLast, selectFrame, ThreadTypeOK, selectVars
    <3>4. QED
      BY <2>6, <3>1, <3>3 DEF LoadForIncrement, LoadLast, selectFrame, TypeOK
  <2>7. ASSUME NEW n \in Nodes, StoreIncremented(n) PROVE TypeOK'
    <3>1. SpaceTypeOK' /\ PoolTypeOK' /\ FaultTypeOK'
      BY <2>7, <2>a, <2>b, <2>c DEF StoreIncremented, selectFrame
    <3>2. pc' \in [Nodes -> PcStates]
      BY <2>7, <2>d DEF StoreIncremented, selectFrame, PcStates
    <3>3. ThreadTypeOK'
      <4>1. loaded' \in [Nodes -> Nat]
        BY <2>t, <2>7 DEF StoreIncremented, selectFrame, ThreadTypeOK, selectVars
      <4>2. remote_pool' \in [Nodes -> Int]
        BY <2>t, <2>7 DEF StoreIncremented, selectFrame, ThreadTypeOK, selectVars
      <4>3. round_robin_last' \in Nat
        BY <2>t, <2>7 DEF StoreIncremented, selectFrame, ThreadTypeOK, selectVars
      <4>4. lock_mem' \in Nodes \cup {NoNode}
        BY <2>t, <2>7 DEF StoreIncremented, selectFrame, ThreadTypeOK, selectVars
      <4>5. QED
        BY <3>2, <4>1, <4>2, <4>3, <4>4 DEF ThreadTypeOK
    <3>4. QED
      BY <2>7, <3>1, <3>3 DEF StoreIncremented, selectFrame, TypeOK
  <2>8. ASSUME NEW n \in Nodes, ReturnPool(n) PROVE TypeOK'
    <3>1. SpaceTypeOK' /\ PoolTypeOK' /\ FaultTypeOK'
      BY <2>8, <2>a, <2>b, <2>c DEF ReturnPool, selectFrame
    <3>2. pc' \in [Nodes -> PcStates]
      BY <2>8, <2>d DEF ReturnPool, selectFrame, PcStates
    <3>3. ThreadTypeOK'
      <4>1. loaded' \in [Nodes -> Nat]
        BY <2>t, <2>8 DEF ReturnPool, selectFrame, ThreadTypeOK, selectVars
      <4>2. remote_pool' \in [Nodes -> Int]
        BY <2>t, <2>8 DEF ReturnPool, selectFrame, ThreadTypeOK, selectVars
      <4>3. round_robin_last' \in Nat
        BY <2>t, <2>8 DEF ReturnPool, selectFrame, ThreadTypeOK, selectVars
      <4>4. lock_mem' \in Nodes \cup {NoNode}
        BY <2>t, <2>8 DEF ReturnPool, selectFrame, ThreadTypeOK, selectVars
      <4>5. QED
        BY <3>2, <4>1, <4>2, <4>3, <4>4 DEF ThreadTypeOK
    <3>4. QED
      BY <2>8, <3>1, <3>3 DEF ReturnPool, selectFrame, TypeOK
  <2>9. ASSUME NEW n \in Nodes, LockMem(n) PROVE TypeOK'
    <3>1. SpaceTypeOK' /\ PoolTypeOK' /\ FaultTypeOK'
      BY <2>9, <2>a, <2>b, <2>c DEF LockMem
    <3>2. pc' \in [Nodes -> PcStates]
      BY <2>9, <2>d DEF LockMem, PcStates
    <3>3. ThreadTypeOK'
      BY <2>t, <2>9, <3>2 DEF LockMem, ThreadTypeOK, selectVars
    <3>4. QED
      BY <2>9, <3>1, <3>3 DEF LockMem, TypeOK
  <2>10. ASSUME NEW n \in Nodes, RequestOutsidePools(n) PROVE TypeOK'
    <3>1. SpaceTypeOK' /\ PoolTypeOK' /\ FaultTypeOK'
      BY <2>10, <2>a, <2>b, <2>c DEF RequestOutsidePools
    <3>2. ThreadTypeOK'
      BY <2>t, <2>10 DEF RequestOutsidePools, ThreadTypeOK, selectVars
    <3>3. QED
      BY <2>10, <3>1, <3>2 DEF RequestOutsidePools, TypeOK
  <2>11. ASSUME NEW n \in Nodes, GrantToNode(n) PROVE TypeOK'
    <3> DEFINE p == remote_pool[n]
               region == [local_base  |-> total_pages[n],
                          remote_base |-> pool_allocated_pages[p],
                          region_size |-> ChunkPages,
                          mem_pool_no |-> p]
               chunk == [i \in 1 .. ChunkPages |-> total_pages[n] + (i - 1)]
    <3>1. total_pages[n] \in Nat /\ ChunkPages \in Nat /\ p \in Pools
      BY <2>11, SizesAssumption DEF GrantToNode, TypeOK, SpaceTypeOK
    <3>2. region \in Region
      BY <3>1 DEF TypeOK, PoolTypeOK, Region
    <3>3. chunk \in Seq(Nat)
      <4>1. chunk \in [1 .. ChunkPages -> Nat]
        BY <3>1
      <4>2. QED
        BY <3>1, <4>1, FunctionIsSeq
    <3>4. free_remote_page_list' \in [Nodes -> Seq(Nat)]
      <4>1. free_remote_page_list[n] \o chunk \in Seq(Nat)
        BY <3>3, ConcatProperties DEF TypeOK, SpaceTypeOK
      <4>2. free_remote_page_list' = [free_remote_page_list EXCEPT
                                       ![n] = free_remote_page_list[n] \o chunk]
        BY <2>11 DEF GrantToNode
      <4>3. QED
        BY <4>1, <4>2 DEF TypeOK, SpaceTypeOK
    <3>5. remote_map' \in [Nodes -> Seq(Region)]
      <4>1. Append(remote_map[n], region) \in Seq(Region)
        BY <3>2, AppendProperties DEF TypeOK, SpaceTypeOK
      <4>2. remote_map' = [remote_map EXCEPT ![n] = Append(remote_map[n], region)]
        BY <2>11 DEF GrantToNode
      <4>3. QED
        BY <4>1, <4>2 DEF TypeOK, SpaceTypeOK
    <3>6. /\ total_pages' \in [Nodes -> Nat]
          /\ free_pages' \in [Nodes -> Int]
          /\ remote_pages' \in [Nodes -> Nat]
      <4>1. total_pages' \in [Nodes -> Nat]
        BY <2>t, <2>11, <3>1 DEF GrantToNode, SpaceTypeOK
      <4>2. free_pages' \in [Nodes -> Int]
        BY <2>t, <2>11, <3>1 DEF GrantToNode, SpaceTypeOK
      <4>3. remote_pages' \in [Nodes -> Nat]
        BY <2>t, <2>11, <3>1 DEF GrantToNode, SpaceTypeOK
      <4>4. QED
        BY <4>1, <4>2, <4>3
    <3>7. SpaceTypeOK'
      BY <2>11, <3>4, <3>5, <3>6 DEF GrantToNode, TypeOK, SpaceTypeOK
    <3>8. PoolTypeOK' /\ FaultTypeOK'
      BY <2>11, <2>b, <2>c DEF GrantToNode
    <3>9. pc' \in [Nodes -> PcStates]
      BY <2>11, <2>d DEF GrantToNode, PcStates
    <3>10. ThreadTypeOK'
      BY <2>t, <2>11, <3>7, <3>8, <3>9 DEF GrantToNode, ThreadTypeOK, selectVars
    <3>11. QED
      BY <2>11, <3>7, <3>8, <3>9, <3>10 DEF GrantToNode, TypeOK
  <2>12. ASSUME NEW n \in Nodes, GrantFromPool(n) PROVE TypeOK'
    <3> DEFINE p == remote_pool[n]
               share == [base_page_no |-> pool_allocated_pages[p],
                         limit        |-> ChunkPages,
                         node_no      |-> n]
    <3>1. shared_mem_table' \in [Pools -> Seq(Share)]
      <4>1. CASE p \in Pools
        <5>1. share \in Share
          BY <4>1, SizesAssumption DEF TypeOK, PoolTypeOK, Share
        <5>2. Append(shared_mem_table[p], share) \in Seq(Share)
          BY <4>1, <5>1, AppendProperties DEF TypeOK, PoolTypeOK
        <5>3. shared_mem_table' = [shared_mem_table EXCEPT
                                    ![p] = Append(shared_mem_table[p], share)]
          BY <2>12 DEF GrantFromPool
        <5>4. QED
          BY <5>2, <5>3 DEF TypeOK, PoolTypeOK
      <4>2. CASE p \notin Pools
        BY <2>12, <4>2 DEF GrantFromPool, TypeOK, PoolTypeOK
      <4>3. QED
        BY <4>1, <4>2
    <3>2. PoolTypeOK'
      BY <2>12, <3>1, SizesAssumption DEF GrantFromPool, TypeOK, PoolTypeOK
    <3>3. SpaceTypeOK' /\ FaultTypeOK'
      BY <2>12, <2>a, <2>c DEF GrantFromPool
    <3>4. pc' \in [Nodes -> PcStates]
      BY <2>12, <2>d DEF GrantFromPool, PcStates
    <3>5. ThreadTypeOK'
      BY <2>t, <2>12, <3>2, <3>3, <3>4 DEF GrantFromPool, ThreadTypeOK, selectVars
    <3>6. QED
      BY <2>12, <3>2, <3>3, <3>4, <3>5 DEF GrantFromPool, TypeOK
  <2>13. ASSUME NEW n \in Nodes, Refuse(n) PROVE TypeOK'
    <3>1. SpaceTypeOK' /\ PoolTypeOK' /\ FaultTypeOK'
      BY <2>13, <2>a, <2>b, <2>c DEF Refuse
    <3>2. pc' \in [Nodes -> PcStates]
      BY <2>13, <2>d DEF Refuse, PcStates
    <3>3. ThreadTypeOK'
      BY <2>t, <2>13, <3>2 DEF Refuse, ThreadTypeOK, selectVars
    <3>4. QED
      BY <2>13, <3>1, <3>3 DEF Refuse, TypeOK
  <2>14. ASSUME NEW n \in Nodes, UnlockMem(n) PROVE TypeOK'
    <3>1. SpaceTypeOK' /\ PoolTypeOK' /\ FaultTypeOK'
      BY <2>14, <2>a, <2>b, <2>c DEF UnlockMem
    <3>2. pc' \in [Nodes -> PcStates]
      BY <2>14, <2>d DEF UnlockMem, PcStates
    <3>3. ThreadTypeOK'
      BY <2>t, <2>14, <3>2 DEF UnlockMem, ThreadTypeOK, selectVars
    <3>4. QED
      BY <2>14, <3>1, <3>3 DEF UnlockMem, TypeOK
  <2>15. ASSUME NEW n \in Nodes, allocate_remote_page(n) PROVE TypeOK'
    <3>1. /\ Head(free_remote_page_list[n]) \in Nat
          /\ Tail(free_remote_page_list[n]) \in Seq(Nat)
      BY <2>15, HeadTailProperties DEF allocate_remote_page, TypeOK, SpaceTypeOK
    <3>2. free_remote_page_list' \in [Nodes -> Seq(Nat)]
      BY <2>15, <3>1 DEF allocate_remote_page, TypeOK, SpaceTypeOK
    <3>3. SpaceTypeOK'
      <4>1. UNCHANGED <<total_pages, remote_pages, remote_map,
                        free_local_page_list, local_allocated_pages>>
        BY <2>15 DEF allocate_remote_page, EnterPage
      <4>2. free_pages' \in [Nodes -> Int]
        BY <2>t, <2>15 DEF allocate_remote_page, EnterPage, SpaceTypeOK
      <4>3. remote_allocated_pages' \in [Nodes -> Nat]
        <5>1. remote_allocated_pages' =
                [remote_allocated_pages EXCEPT ![n] = @ + 1]
          BY <2>15 DEF allocate_remote_page
        <5>2. remote_allocated_pages \in [Nodes -> Nat]
          BY <2>t DEF SpaceTypeOK
        <5>3. QED
          BY <5>1, <5>2, SMTT(30)
      <4>4. QED
        BY <2>t, <3>2, <4>1, <4>2, <4>3 DEF SpaceTypeOK
    <3>4. FaultTypeOK'
      <4>1. page_table' \in [Nodes -> [VPages -> Nat \cup {NoPage}]]
        BY <2>15, <3>1 DEF allocate_remote_page, EnterPage, TypeOK, FaultTypeOK
      <4>2. QED
        BY <2>15, <4>1 DEF allocate_remote_page, EnterPage, TypeOK, FaultTypeOK
    <3>5. PoolTypeOK'
      BY <2>15, <2>b DEF allocate_remote_page, EnterPage
    <3>6. pc' \in [Nodes -> PcStates]
      BY <2>15, <2>d DEF allocate_remote_page, EnterPage, PcStates
    <3>7. ThreadTypeOK'
      BY <2>t, <2>15, <3>3, <3>4, <3>5, <3>6 DEF allocate_remote_page, EnterPage, ThreadTypeOK, selectVars
    <3>8. QED
      BY <2>15, <3>3, <3>4, <3>5, <3>6, <3>7 DEF allocate_remote_page, EnterPage, TypeOK
  <2>16. ASSUME NEW n \in Nodes, allocate_local_page(n) PROVE TypeOK'
    <3>1. /\ Head(free_local_page_list[n]) \in Nat
          /\ Tail(free_local_page_list[n]) \in Seq(Nat)
      BY <2>16, HeadTailProperties DEF allocate_local_page, TypeOK, SpaceTypeOK
    <3>2. free_local_page_list' \in [Nodes -> Seq(Nat)]
      BY <2>16, <3>1 DEF allocate_local_page, TypeOK, SpaceTypeOK
    <3>3. SpaceTypeOK'
      <4>1. UNCHANGED <<total_pages, remote_pages, remote_map,
                        free_remote_page_list, remote_allocated_pages>>
        BY <2>16 DEF allocate_local_page, EnterPage
      <4>2. free_pages' \in [Nodes -> Int]
        BY <2>t, <2>16 DEF allocate_local_page, EnterPage, SpaceTypeOK
      <4>3. local_allocated_pages' \in [Nodes -> Nat]
        <5>1. local_allocated_pages' =
                [local_allocated_pages EXCEPT ![n] = @ + 1]
          BY <2>16 DEF allocate_local_page
        <5>2. local_allocated_pages \in [Nodes -> Nat]
          BY <2>t DEF SpaceTypeOK
        <5>3. QED
          BY <5>1, <5>2, SMTT(30)
      <4>4. QED
        BY <2>t, <3>2, <4>1, <4>2, <4>3 DEF SpaceTypeOK
    <3>4. FaultTypeOK'
      <4>1. page_table' \in [Nodes -> [VPages -> Nat \cup {NoPage}]]
        BY <2>16, <3>1 DEF allocate_local_page, EnterPage, TypeOK, FaultTypeOK
      <4>2. QED
        BY <2>16, <4>1 DEF allocate_local_page, EnterPage, TypeOK, FaultTypeOK
    <3>5. PoolTypeOK'
      BY <2>16, <2>b DEF allocate_local_page, EnterPage
    <3>6. pc' \in [Nodes -> PcStates]
      BY <2>16, <2>d DEF allocate_local_page, EnterPage, PcStates
    <3>7. ThreadTypeOK'
      BY <2>t, <2>16, <3>3, <3>4, <3>5, <3>6 DEF allocate_local_page, EnterPage, ThreadTypeOK, selectVars
    <3>8. QED
      BY <2>16, <3>3, <3>4, <3>5, <3>6, <3>7 DEF allocate_local_page, EnterPage, TypeOK
  <2>17. ASSUME NEW n \in Nodes, AllocateFromEmptyList(n) PROVE TypeOK'
    <3>1. SpaceTypeOK' /\ PoolTypeOK' /\ FaultTypeOK'
      BY <2>17, <2>a, <2>b, <2>c DEF AllocateFromEmptyList
    <3>2. ThreadTypeOK'
      BY <2>t, <2>17 DEF AllocateFromEmptyList, ThreadTypeOK, selectVars
    <3>3. QED
      BY <2>17, <3>1, <3>2 DEF AllocateFromEmptyList, TypeOK
  <2>18. CASE UNCHANGED vars
    <3>1. SpaceTypeOK' /\ PoolTypeOK' /\ FaultTypeOK'
      BY <2>18, <2>a, <2>b, <2>c DEF vars
    <3>2. ThreadTypeOK'
      BY <2>t, <2>18 DEF vars, ThreadTypeOK, selectVars
    <3>3. QED
      BY <2>18, <3>1, <3>2 DEF vars, TypeOK
  <2>19. QED
    BY <2>1, <2>2, <2>4, <2>5, <2>6, <2>7, <2>8, <2>9, <2>10, <2>11, <2>12, <2>13, <2>14, <2>15, <2>16, <2>17, <2>18
       DEF Next, Handle, Terminating
<1>3. QED
  BY <1>1, <1>2, PTL DEF Spec

-------------------------------------------------------------------------------
(***************************************************************************)
(* The inductive invariant.                                                *)
(***************************************************************************)

\* A step that only moves a thread through the selection, the lock or the
\* start of a fault, outside the writing of a region, keeps the invariant.
LEMMA QuietStep ==
  ASSUME TypeOK, IInv, NEW n \in Nodes, NEW to \in PcStates \ {"idle", "share"},
         UNCHANGED <<spaceVars, poolVars, page_table>>,
         pc' = [pc EXCEPT ![n] = to], pc[n] # "share",
         LockHeld',
         \A m \in Nodes \ {n} : /\ remote_pool'[m] = remote_pool[m]
                               /\ vpage'[m] = vpage[m],
         vpage'[n] \in VPages, page_table[n][vpage'[n]] = NoPage
  PROVE  IInv'
<1> USE DEF spaceVars, poolVars
<1>t. pc \in [Nodes -> PcStates]
  BY DEF TypeOK, ThreadTypeOK
<1>p. /\ pc'[n] = to
      /\ \A m \in Nodes \ {n} : pc'[m] = pc[m]
  BY <1>t
<1>s. \A m \in Nodes : pc'[m] = "share" => pc[m] = "share" /\ m # n
  BY <1>p
<1>1. PoolBalance'
  <2>1. \A m \in Nodes : pc'[m] = "share" => remote_pool'[m] = remote_pool[m]
    BY <1>s
  <2>2. QED
    BY <1>s, <2>1 DEF IInv, PoolBalance
<1>2. RegionsDisjoint'
  BY DEF IInv, RegionsDisjoint
<1>3. ASSUME NEW m \in Nodes
      PROVE  RegionsCover(m)' /\ FreeListsSorted(m)'
  BY <1>3 DEF IInv, RegionsCover, FreeListsSorted
<1>4. ASSUME NEW m \in Nodes PROVE RegionsGranted(m)'
  <2>1. \A i \in DOMAIN remote_map[m] : Pending(m, i)' <=> Pending(m, i)
    BY <1>p DEF Pending
  <2>2. \A i : Pending(m, i) => m # n
    BY DEF Pending
  <2>3. QED
    BY <2>1, <2>2 DEF IInv, RegionsGranted, Mapped
<1>5. ASSUME NEW m \in Nodes PROVE PagesMappedOnce(m)'
  <2>1. PagesMappedOnce(m)
    BY DEF IInv
  <2>2. pc'[m] # "idle" => vpage'[m] \in VPages /\ page_table[m][vpage'[m]] = NoPage
    BY <1>p, <2>1 DEF PagesMappedOnce
  <2>3. QED
    BY <2>1, <2>2 DEF PagesMappedOnce, Mapped
<1>6. QED
  BY <1>1, <1>2, <1>3, <1>4, <1>5 DEF IInv

\* The node's half of a granted request: the new region is pending, and its
\* pages follow all the node had before.
LEMMA GrantToNodeStep ==
  ASSUME TypeOK, IInv, NEW n \in Nodes, GrantToNode(n)
  PROVE  IInv'
<1> DEFINE p     == remote_pool[n]
           map   == remote_map[n]
           last  == Len(map) + 1
           fresh == [local_base  |-> total_pages[n],
                     remote_base |-> pool_allocated_pages[p],
                     region_size |-> ChunkPages,
                     mem_pool_no |-> p]
           old   == free_remote_page_list[n]
           chunk == [i \in 1 .. ChunkPages |-> total_pages[n] + (i - 1)]
<1> USE DEF poolVars, faultVars, selectVars
<1>t. /\ pc \in [Nodes -> PcStates]
      /\ total_pages \in [Nodes -> Nat]
      /\ remote_map \in [Nodes -> Seq(Region)]
      /\ free_remote_page_list \in [Nodes -> Seq(Nat)]
      /\ pool_allocated_pages \in [Pools -> Nat]
      /\ pool_free_pages \in [Pools -> Int]
  BY DEF TypeOK, ThreadTypeOK, SpaceTypeOK, PoolTypeOK
<1>z. ChunkPages \in Nat /\ ChunkPages > 0 /\ LocalPages \in Nat
  BY SizesAssumption
<1>a. /\ pc[n] = "request" /\ pc'[n] = "share"
      /\ \A m \in Nodes \ {n} : pc'[m] = pc[m]
      /\ p \in Pools /\ pool_free_pages[p] >= ChunkPages
  BY <1>t DEF GrantToNode, Goto
<1>b. /\ \A m \in Nodes \ {n} : /\ remote_map'[m] = remote_map[m]
                               /\ total_pages'[m] = total_pages[m]
                               /\ free_remote_page_list'[m] = free_remote_page_list[m]
      /\ total_pages'[n] = total_pages[n] + ChunkPages
      /\ remote_map'[n] = Append(map, fresh)
      /\ free_remote_page_list'[n] = old \o chunk
  BY <1>t DEF GrantToNode
<1>c. /\ fresh \in Region
      /\ map \in Seq(Region)
      /\ last \in Nat /\ last > 0
      /\ Len(remote_map'[n]) = last
      /\ DOMAIN remote_map'[n] = 1 .. last
      /\ DOMAIN map = 1 .. last - 1
      /\ \A i \in DOMAIN map : remote_map'[n][i] = map[i]
      /\ remote_map'[n][last] = fresh
  <2>1. fresh \in Region
    BY <1>t, <1>a, <1>z DEF Region
  <2>2. QED
    BY <2>1, <1>t, <1>b, AppendProperties
<1>u. UNCHANGED <<free_local_page_list, page_table, vpage, remote_pool, lock_mem,
                  pool_free_pages, pool_allocated_pages, shared_mem_table>>
  BY DEF GrantToNode
<1>d. \A m \in Nodes : m # n => pc[m] # "share"
  BY <1>a DEF IInv, LockHeld
<1>1. LockHeld'
  BY <1>a, <1>u DEF IInv, LockHeld
<1>2. PoolBalance'
  <2>1. remote_map'[n] # <<>>
    BY <1>c
  <2>2. \A m \in Nodes : pc'[m] = "share" => m = n
    BY <1>a, <1>d
  <2>3. QED
    BY <1>a, <1>u, <2>1, <2>2 DEF IInv, PoolBalance
<1>g. \A m \in Nodes : \A i \in DOMAIN remote_map[m] :
        remote_map[m][i].remote_base + ChunkPages
          <= pool_allocated_pages[remote_map[m][i].mem_pool_no]
  BY <1>a, <1>d DEF IInv, RegionsGranted, Pending
<1>r. \A m \in Nodes : \A i \in DOMAIN remote_map[m] :
        remote_map[m][i] \in Region
  <2>1. ASSUME NEW m \in Nodes, NEW i \in DOMAIN remote_map[m]
        PROVE  remote_map[m][i] \in Region
    <3>1. remote_map[m] \in Seq(Region)
      BY <1>t
    <3>2. QED
      BY <3>1
  <2>2. QED
    BY <2>1
<1>e. \A m \in Nodes : \A i \in DOMAIN remote_map'[m] :
        \/ m = n /\ i = last
        \/ i \in DOMAIN remote_map[m] /\ remote_map'[m][i] = remote_map[m][i]
  <2>1. ASSUME NEW i \in DOMAIN remote_map'[n], i # last
        PROVE  i \in DOMAIN remote_map[n] /\ remote_map'[n][i] = remote_map[n][i]
    BY <2>1, <1>c
  <2>2. \A m \in Nodes : m # n => remote_map'[m] = remote_map[m]
    BY <1>b
  <2>3. QED
    BY <2>1, <2>2
<1>3. RegionsDisjoint'
  <2> SUFFICES ASSUME NEW m \in Nodes, NEW k \in Nodes,
                      NEW i \in DOMAIN remote_map'[m], NEW j \in DOMAIN remote_map'[k],
                      remote_map'[m][i].mem_pool_no = remote_map'[k][j].mem_pool_no,
                      <<m, i>> # <<k, j>>
               PROVE  \/ remote_map'[m][i].remote_base + ChunkPages
                           <= remote_map'[k][j].remote_base
                      \/ remote_map'[k][j].remote_base + ChunkPages
                           <= remote_map'[m][i].remote_base
    BY DEF RegionsDisjoint
  <2>1. CASE m = n /\ i = last
    <3>1. j \in DOMAIN remote_map[k] /\ remote_map'[k][j] = remote_map[k][j]
      BY <2>1, <1>e
    <3>2. remote_map'[m][i] = fresh
      BY <2>1, <1>c
    <3>3. QED
      BY <3>1, <3>2, <1>g
  <2>2. CASE k = n /\ j = last
    <3>1. i \in DOMAIN remote_map[m] /\ remote_map'[m][i] = remote_map[m][i]
      BY <2>2, <1>e
    <3>2. remote_map'[k][j] = fresh
      BY <2>2, <1>c
    <3>3. QED
      BY <3>1, <3>2, <1>g
  <2>3. CASE ~(m = n /\ i = last) /\ ~(k = n /\ j = last)
    BY <2>3, <1>e DEF IInv, RegionsDisjoint
  <2>4. QED
    BY <2>1, <2>2, <2>3
<1>4. ASSUME NEW m \in Nodes PROVE RegionsCover(m)'
  <2>1. RegionsCover(m)
    BY DEF IInv
  <2>2. CASE m # n
    BY <2>1, <2>2, <1>b DEF RegionsCover
  <2>3. CASE m = n
    <3>1. LocalPages <= total_pages'[n] /\ total_pages[n] \in Nat
      BY <2>1, <2>3, <1>b, <1>t, <1>z DEF RegionsCover
    <3>2. ASSUME NEW i \in 1 .. last
          PROVE  /\ remote_map'[n][i].region_size = ChunkPages
                 /\ LocalPages <= remote_map'[n][i].local_base
                 /\ remote_map'[n][i].local_base + ChunkPages <= total_pages'[n]
                 /\ \A j \in 1 .. i - 1 :
                      remote_map'[n][j].local_base + ChunkPages
                        <= remote_map'[n][i].local_base
      <4>1. CASE i = last
        <5>1. remote_map'[n][i] = fresh
          BY <4>1, <1>c
        <5>2. ASSUME NEW j \in 1 .. i - 1
              PROVE  remote_map'[n][j].local_base + ChunkPages <= total_pages[n]
          BY <4>1, <1>c, <2>1, <2>3 DEF RegionsCover
        <5>3. /\ remote_map'[n][i].local_base = total_pages[n]
              /\ remote_map'[n][i].region_size = ChunkPages
          BY <5>1
        <5>4. LocalPages <= total_pages[n]
          BY <2>1, <2>3 DEF RegionsCover
        <5>5. QED
          <6>1. total_pages'[n] = total_pages[n] + ChunkPages
            BY <1>b
          <6>2. QED
            BY <5>2, <5>3, <5>4, <6>1, <1>z, <3>1
      <4>2. CASE i # last
        <5>1. i \in DOMAIN map /\ remote_map'[n][i] = map[i]
          BY <4>2, <1>c
        <5>2. ASSUME NEW j \in 1 .. i - 1 PROVE remote_map'[n][j] = map[j]
          <6>1. j \in 1 .. last - 1
            BY <1>c
          <6>2. QED
            BY <6>1, <1>c
        <5>3. map[i].local_base \in Nat
          BY <5>1, <1>r DEF Region
        <5>4. QED
          <6>1. /\ map[i].region_size = ChunkPages
                /\ LocalPages <= map[i].local_base
                /\ map[i].local_base + ChunkPages <= total_pages[n]
                /\ \A j \in 1 .. i - 1 :
                     map[j].local_base + ChunkPages <= map[i].local_base
            BY <5>1, <2>1, <2>3 DEF RegionsCover
          <6>2. total_pages'[n] = total_pages[n] + ChunkPages
            BY <1>b
          <6>3. QED
            BY <5>1, <5>2, <5>3, <6>1, <6>2, <1>z, <3>1, SMTT(30)
      <4>3. QED
        BY <4>1, <4>2
    <3>3. ASSUME NEW page \in LocalPages .. total_pages'[n] - 1
          PROVE  \E i \in DOMAIN remote_map'[n] :
                   /\ remote_map'[n][i].local_base <= page
                   /\ page < remote_map'[n][i].local_base + ChunkPages
      <4>1. CASE page < total_pages[n]
        <5>1. page \in LocalPages .. total_pages[n] - 1
          BY <4>1, <3>1, <1>z
        <5>2. PICK i \in DOMAIN map : /\ map[i].local_base <= page
                                      /\ page < map[i].local_base + ChunkPages
          BY <5>1, <2>1, <2>3 DEF RegionsCover
        <5>3. i \in DOMAIN remote_map'[n] /\ remote_map'[n][i] = map[i]
          BY <1>c
        <5>4. QED
          BY <5>2, <5>3
      <4>2. CASE page >= total_pages[n]
        <5>1. page < total_pages[n] + ChunkPages
          BY <1>b, <3>1, <1>z
        <5>2. last \in DOMAIN remote_map'[n] /\ remote_map'[n][last].local_base = total_pages[n]
          BY <1>c
        <5>3. QED
          BY <4>2, <5>1, <5>2
      <4>3. QED
        BY <4>1, <4>2, <3>1, <1>z
    <3>4. QED
      BY <2>3, <3>1, <3>2, <3>3, <1>c DEF RegionsCover
  <2>4. QED
    BY <2>2, <2>3
<1>5. ASSUME NEW m \in Nodes PROVE RegionsGranted(m)'
  <2>1. CASE m # n
    <3>1. \A i \in DOMAIN remote_map[m] : ~Pending(m, i) /\ ~Pending(m, i)'
      BY <2>1, <1>a, <1>d DEF Pending
    <3>2. RegionsGranted(m) /\ remote_map'[m] = remote_map[m]
      BY <2>1, <1>b DEF IInv
    <3>3. QED
      BY <3>1, <3>2, <1>u DEF RegionsGranted
  <2>2. CASE m = n
    <3>1. \A i \in DOMAIN remote_map'[n] : Pending(n, i)' <=> i = last
      BY <1>a, <1>c DEF Pending
    <3>2. \A i \in DOMAIN map : ~Pending(n, i)
      BY <1>a DEF Pending
    <3>3. remote_map'[n][last] = fresh
      BY <1>c
    <3>4. ASSUME NEW i \in DOMAIN remote_map'[n], i # last
          PROVE  /\ i \in DOMAIN map
                 /\ remote_map'[n][i] = map[i]
      BY <3>4, <1>c
    <3>5. \A v \in Mapped(n)' : page_table'[n][v] < fresh.local_base
      BY <1>u DEF IInv, PagesMappedOnce, Mapped
    <3>6. ASSUME NEW i \in DOMAIN map
          PROVE  /\ map[i].remote_base + ChunkPages
                      <= pool_allocated_pages[map[i].mem_pool_no]
                 /\ \E k \in DOMAIN shared_mem_table[map[i].mem_pool_no] :
                      shared_mem_table[map[i].mem_pool_no][k] =
                        [base_page_no |-> map[i].remote_base, limit |-> ChunkPages,
                         node_no |-> n]
      BY <3>2 DEF IInv, RegionsGranted
    <3>7. fresh.mem_pool_no = p /\ fresh.remote_base = pool_allocated_pages[p]
      OBVIOUS
    <3>8. QED
      BY <2>2, <3>1, <3>3, <3>4, <3>5, <3>6, <3>7, <1>u, SMTT(30) DEF RegionsGranted
  <2>3. QED
    BY <2>1, <2>2
<1>6. ASSUME NEW m \in Nodes PROVE FreeListsSorted(m)'
  <2>1. FreeListsSorted(m)
    BY DEF IInv
  <2>2. CASE m # n
    BY <2>1, <2>2, <1>b, <1>u DEF FreeListsSorted
  <2>3. CASE m = n
    <3>1. /\ old \in Seq(Nat) /\ chunk \in Seq(Nat) /\ Len(chunk) = ChunkPages
          /\ \A i \in 1 .. ChunkPages : chunk[i] = total_pages[n] + (i - 1)
      <4>1. chunk \in [1 .. ChunkPages -> Nat]
        BY <1>t, <1>z
      <4>2. QED
        BY <4>1, <1>t, <1>z, FunctionIsSeq
    <3>2. /\ Len(old \o chunk) = Len(old) + ChunkPages
          /\ DOMAIN (old \o chunk) = 1 .. Len(old) + ChunkPages
          /\ \A i \in 1 .. Len(old) : (old \o chunk)[i] = old[i]
          /\ \A i \in Len(old) + 1 .. Len(old) + ChunkPages :
               (old \o chunk)[i] = total_pages[n] + (i - Len(old) - 1)
      BY <3>1, <1>z, ConcatProperties
    <3>3. \A i \in 1 .. Len(old) : /\ LocalPages <= old[i]
                                   /\ old[i] < total_pages[n]
                                   /\ old[i] \in Nat
                                   /\ \A j \in 1 .. i - 1 : old[j] < old[i]
      BY <2>1, <2>3, <3>1 DEF FreeListsSorted
    <3>4. LocalPages <= total_pages[n] /\ total_pages[n] \in Nat /\ Len(old) \in Nat
      BY <3>1, <1>t DEF IInv, RegionsCover
    <3>5. ASSUME NEW i \in 1 .. Len(old) + ChunkPages
          PROVE  /\ LocalPages <= (old \o chunk)[i]
                 /\ (old \o chunk)[i] < total_pages[n] + ChunkPages
                 /\ \A j \in 1 .. i - 1 : (old \o chunk)[j] < (old \o chunk)[i]
      <4>1. CASE i \in 1 .. Len(old)
        BY <4>1, <3>2, <3>3, <3>4, <1>z
      <4>2. CASE i \in Len(old) + 1 .. Len(old) + ChunkPages
        <5>1. (old \o chunk)[i] = total_pages[n] + (i - Len(old) - 1)
          BY <4>2, <3>2
        <5>2. ASSUME NEW j \in 1 .. i - 1
              PROVE  (old \o chunk)[j] < (old \o chunk)[i]
          <6>1. CASE j \in 1 .. Len(old)
            <7>1. (old \o chunk)[j] = old[j] /\ old[j] < total_pages[n] /\ old[j] \in Nat
              BY <6>1, <3>2, <3>3
            <7>2. i - Len(old) - 1 \in Nat
              BY <4>2, <3>4, <1>z
            <7>3. total_pages[n] <= total_pages[n] + (i - Len(old) - 1)
              BY <7>2, <3>4
            <7>4. total_pages[n] + (i - Len(old) - 1) \in Nat
              BY <7>2, <3>4
            <7>5. QED
              BY <7>1, <7>3, <7>4, <5>1, <3>4, SmallerThanBound
          <6>2. CASE j \in Len(old) + 1 .. Len(old) + ChunkPages
            <7>1. (old \o chunk)[j] = total_pages[n] + (j - Len(old) - 1)
              BY <6>2, <3>2
            <7>2. j < i /\ i \in Int /\ j \in Int
              BY <4>2, <6>2, <3>4, <1>z
            <7>3. total_pages[n] + (j - Len(old) - 1)
                    < total_pages[n] + (i - Len(old) - 1)
              BY <7>2, <3>4
            <7>4. QED
              BY <7>1, <7>3, <5>1
          <6>3. j \in 1 .. Len(old) \/ j \in Len(old) + 1 .. Len(old) + ChunkPages
            BY <3>4, <4>2, <1>z, SMTT(30)
          <6>4. QED
            BY <6>1, <6>2, <6>3
        <5>3. /\ LocalPages <= total_pages[n] + (i - Len(old) - 1)
              /\ total_pages[n] + (i - Len(old) - 1) < total_pages[n] + ChunkPages
          BY <4>2, <3>4, <1>z, SMTT(30)
        <5>4. QED
          BY <5>1, <5>2, <5>3
      <4>3. i \in 1 .. Len(old) \/ i \in Len(old) + 1 .. Len(old) + ChunkPages
        BY <3>4, <1>z, SMTT(30)
      <4>4. QED
        BY <4>1, <4>2, <4>3
    <3>6. QED
      BY <2>1, <2>3, <3>2, <3>5, <1>b, <1>u DEF FreeListsSorted
  <2>4. QED
    BY <2>2, <2>3
<1>7. ASSUME NEW m \in Nodes PROVE PagesMappedOnce(m)'
  <2>1. PagesMappedOnce(m)
    BY DEF IInv
  <2>2. Mapped(m)' = Mapped(m)
    BY <1>u DEF Mapped
  <2>3. pc'[m] # "idle" => pc[m] # "idle"
    BY <1>a
  <2>4. CASE m # n
    BY <2>1, <2>2, <2>3, <2>4, <1>b, <1>u DEF PagesMappedOnce
  <2>5. CASE m = n
    <3>1. \A v \in Mapped(n) : page_table[n][v] \in Nat
      BY DEF Mapped, TypeOK, FaultTypeOK
    <3>2. \A v \in Mapped(n) : page_table[n][v] < total_pages'[n]
      BY <2>1, <2>5, <3>1, <1>b, <1>t, <1>z DEF PagesMappedOnce
    <3>3. ASSUME NEW v \in Mapped(n), NEW i \in DOMAIN (old \o chunk)
          PROVE  (old \o chunk)[i] # page_table[n][v]
      <4>1. /\ old \in Seq(Nat) /\ chunk \in Seq(Nat) /\ Len(chunk) = ChunkPages
        <5>1. chunk \in [1 .. ChunkPages -> Nat]
          BY <1>t, <1>z
        <5>2. QED
          BY <5>1, <1>t, <1>z, FunctionIsSeq
      <4>2. CASE i \in 1 .. Len(old)
        <5>1. (old \o chunk)[i] = old[i]
          BY <4>1, <4>2, ConcatProperties
        <5>2. QED
          BY <4>1, <4>2, <5>1, <2>1, <2>5 DEF PagesMappedOnce
      <4>3. CASE i \in Len(old) + 1 .. Len(old) + ChunkPages
        <5>1. (old \o chunk)[i] = total_pages[n] + (i - Len(old) - 1)
          <6>1. (old \o chunk)[i] = chunk[i - Len(old)]
            BY <4>1, <4>3, <1>z, ConcatProperties, SMTT(30)
          <6>2. i - Len(old) \in 1 .. ChunkPages
            BY <4>1, <4>3, <1>z, LenProperties, SMTT(30)
          <6>3. QED
            BY <6>1, <6>2
        <5>2. page_table[n][v] < total_pages[n] /\ page_table[n][v] \in Nat
          BY <2>1, <2>5, <3>1 DEF PagesMappedOnce
        <5>3. QED
          BY <4>1, <4>3, <5>1, <5>2, <1>t, <1>z
      <4>4. QED
        BY <4>1, <4>2, <4>3, <1>z, ConcatProperties
    <3>4. \A v \in Mapped(n) : \A i \in DOMAIN free_remote_page_list'[n] :
            free_remote_page_list'[n][i] # page_table[n][v]
      BY <3>3, <1>b
    <3>5. \A v \in Mapped(n) :
            /\ \A i \in DOMAIN free_local_page_list[n] :
                 free_local_page_list[n][i] # page_table[n][v]
            /\ \A w \in Mapped(n) : page_table[n][w] = page_table[n][v] => w = v
      BY <2>1, <2>5 DEF PagesMappedOnce
    <3>6. vpage'[n] \in VPages /\ page_table'[n][vpage'[n]] = NoPage
      BY <2>1, <2>5, <1>a, <1>u DEF PagesMappedOnce
    <3>7. QED
      BY <2>2, <2>5, <3>2, <3>4, <3>5, <3>6, <1>u DEF PagesMappedOnce
  <2>6. QED
    BY <2>4, <2>5
<1>8. QED
  BY <1>1, <1>2, <1>3, <1>4, <1>5, <1>6, <1>7 DEF IInv

\* The pool's half: the pending region becomes a shared one.
LEMMA GrantFromPoolStep ==
  ASSUME TypeOK, IInv, NEW n \in Nodes, GrantFromPool(n)
  PROVE  IInv'
<1> DEFINE p     == remote_pool[n]
           share == [base_page_no |-> pool_allocated_pages[p],
                     limit        |-> ChunkPages,
                     node_no      |-> n]
           table == shared_mem_table[p]
<1>t. /\ pc \in [Nodes -> PcStates]
      /\ pool_allocated_pages \in [Pools -> Nat]
      /\ pool_free_pages \in [Pools -> Int]
      /\ shared_mem_table \in [Pools -> Seq(Share)]
  BY DEF TypeOK, ThreadTypeOK, PoolTypeOK
<1>z. ChunkPages \in Nat /\ ChunkPages > 0
  BY SizesAssumption
<1>a. /\ pc[n] = "share" /\ pc'[n] = "unlock"
      /\ \A m \in Nodes \ {n} : pc'[m] = pc[m]
  BY <1>t DEF GrantFromPool, Goto
<1>b. p \in Pools /\ pool_free_pages[p] >= ChunkPages /\ remote_map[n] # <<>>
  BY <1>a DEF IInv, PoolBalance
<1>c. /\ \A q \in Pools \ {p} : /\ shared_mem_table'[q] = shared_mem_table[q]
                               /\ pool_allocated_pages'[q] = pool_allocated_pages[q]
                               /\ pool_free_pages'[q] = pool_free_pages[q]
      /\ shared_mem_table'[p] = Append(table, share)
      /\ pool_allocated_pages'[p] = pool_allocated_pages[p] + ChunkPages
      /\ pool_free_pages'[p] = pool_free_pages[p] - ChunkPages
  <2>1. /\ \A q \in Pools \ {p} : shared_mem_table'[q] = shared_mem_table[q]
        /\ shared_mem_table'[p] = Append(table, share)
    BY <1>t, <1>b DEF GrantFromPool
  <2>2. /\ \A q \in Pools \ {p} : pool_allocated_pages'[q] = pool_allocated_pages[q]
        /\ pool_allocated_pages'[p] = pool_allocated_pages[p] + ChunkPages
    BY <1>t, <1>b DEF GrantFromPool
  <2>3. /\ \A q \in Pools \ {p} : pool_free_pages'[q] = pool_free_pages[q]
        /\ pool_free_pages'[p] = pool_free_pages[p] - ChunkPages
    BY <1>t, <1>b DEF GrantFromPool
  <2>4. QED
    BY <2>1, <2>2, <2>3
<1>d. /\ table \in Seq(Share)
      /\ Len(table) + 1 \in DOMAIN shared_mem_table'[p]
      /\ shared_mem_table'[p][Len(table) + 1] = share
      /\ \A k \in DOMAIN table : /\ k \in DOMAIN shared_mem_table'[p]
                                 /\ shared_mem_table'[p][k] = table[k]
  <2>1. share \in Share
    BY <1>t, <1>b, <1>z DEF Share
  <2>2. table \in Seq(Share)
    BY <1>t, <1>b
  <2>3. QED
    BY <2>1, <2>2, <1>c, AppendProperties
<1>u. UNCHANGED <<total_pages, remote_map, free_local_page_list,
                  free_remote_page_list, page_table, vpage, remote_pool, lock_mem>>
  BY DEF GrantFromPool, spaceVars, faultVars, selectVars
<1>e. \A m \in Nodes : m # n => pc[m] # "share" /\ pc'[m] # "share"
  BY <1>a DEF IInv, LockHeld
<1>1. LockHeld'
  BY <1>a, <1>u DEF IInv, LockHeld
<1>2. PoolBalance'
  <2>1. ASSUME NEW q \in Pools
        PROVE  /\ pool_allocated_pages'[q] + pool_free_pages'[q] = PoolPages
               /\ pool_free_pages'[q] >= 0
    <3>1. /\ pool_allocated_pages[q] + pool_free_pages[q] = PoolPages
          /\ pool_free_pages[q] >= 0
      BY DEF IInv, PoolBalance
    <3>2. pool_allocated_pages[q] \in Nat /\ pool_free_pages[q] \in Int
      BY <1>t
    <3>3. QED
      BY <3>1, <3>2, <1>b, <1>c, <1>z
  <2>2. \A m \in Nodes : pc'[m] # "share"
    BY <1>a, <1>e
  <2>3. QED
    BY <2>1, <2>2 DEF PoolBalance
<1>3. RegionsDisjoint'
  BY <1>u DEF IInv, RegionsDisjoint
<1>4. ASSUME NEW m \in Nodes PROVE RegionsCover(m)' /\ FreeListsSorted(m)'
  BY <1>u DEF IInv, RegionsCover, FreeListsSorted
<1>5. ASSUME NEW m \in Nodes PROVE RegionsGranted(m)'
  <2> SUFFICES ASSUME NEW i \in DOMAIN remote_map[m]
               PROVE  LET r == remote_map[m][i]
                      IN  /\ r.remote_base + ChunkPages
                               <= pool_allocated_pages'[r.mem_pool_no]
                          /\ \E k \in DOMAIN shared_mem_table'[r.mem_pool_no] :
                               shared_mem_table'[r.mem_pool_no][k] =
                                 [base_page_no |-> r.remote_base,
                                  limit |-> ChunkPages, node_no |-> m]
    <3>1. \A i \in DOMAIN remote_map'[m] : ~Pending(m, i)'
      BY <1>a, <1>e DEF Pending
    <3>2. QED
      BY <1>u, <3>1 DEF RegionsGranted
  <2> DEFINE r == remote_map[m][i]
  <2>r. r \in Region
    <3>1. remote_map[m] \in Seq(Region)
      BY DEF TypeOK, SpaceTypeOK
    <3>2. QED
      BY <3>1
  <2>q. r.mem_pool_no \in Pools /\ r.remote_base \in Nat
    BY <2>r DEF Region
  <2>1. CASE Pending(m, i)
    <3>1. m = n
      BY <2>1, <1>e DEF Pending
    <3>2. r.mem_pool_no = p /\ r.remote_base = pool_allocated_pages[p]
      BY <2>1, <3>1 DEF IInv, RegionsGranted
    <3>3. shared_mem_table'[p][Len(table) + 1] =
            [base_page_no |-> r.remote_base, limit |-> ChunkPages, node_no |-> m]
      BY <1>d, <3>1, <3>2
    <3>4. pool_allocated_pages[p] \in Nat
      BY <1>t, <1>b
    <3>5. r.remote_base + ChunkPages <= pool_allocated_pages'[r.mem_pool_no]
      BY <3>2, <3>4, <1>c, <1>z
    <3>6. QED
      BY <3>2, <3>3, <3>5, <1>d
  <2>2. CASE ~Pending(m, i)
    <3>1. /\ r.remote_base + ChunkPages <= pool_allocated_pages[r.mem_pool_no]
          /\ \E k \in DOMAIN shared_mem_table[r.mem_pool_no] :
               shared_mem_table[r.mem_pool_no][k] =
                 [base_page_no |-> r.remote_base, limit |-> ChunkPages, node_no |-> m]
      BY <2>2 DEF IInv, RegionsGranted
    <3>2. /\ pool_allocated_pages[r.mem_pool_no] \in Nat
          /\ pool_allocated_pages'[r.mem_pool_no] \in Nat
          /\ pool_allocated_pages[r.mem_pool_no]
               <= pool_allocated_pages'[r.mem_pool_no]
      <4>1. pool_allocated_pages[r.mem_pool_no] \in Nat
        BY <2>q, <1>t
      <4>2. CASE r.mem_pool_no = p
        BY <4>1, <4>2, <1>c, <1>z
      <4>3. CASE r.mem_pool_no # p
        BY <4>1, <4>3, <2>q, <1>c
      <4>4. QED
        BY <4>2, <4>3
    <3>4. r.remote_base + ChunkPages <= pool_allocated_pages'[r.mem_pool_no]
      BY <3>1, <3>2, <2>q, <1>z
    <3>5. \A k \in DOMAIN shared_mem_table[r.mem_pool_no] :
            /\ k \in DOMAIN shared_mem_table'[r.mem_pool_no]
            /\ shared_mem_table'[r.mem_pool_no][k] = shared_mem_table[r.mem_pool_no][k]
      BY <2>q, <1>c, <1>d
    <3>6. QED
      BY <3>1, <3>4, <3>5
  <2>3. QED
    BY <2>1, <2>2
<1>6. ASSUME NEW m \in Nodes PROVE PagesMappedOnce(m)'
  <2>1. PagesMappedOnce(m) /\ (pc'[m] # "idle" => pc[m] # "idle")
    BY <1>a DEF IInv
  <2>2. QED
    BY <2>1, <1>u DEF PagesMappedOnce, Mapped
<1>7. QED
  BY <1>1, <1>2, <1>3, <1>4, <1>5, <1>6 DEF IInv

\* Taking the head off a free list in increasing order.
LEMMA SortedTail ==
  ASSUME NEW s \in Seq(Nat), s # <<>>,
         \A i \in DOMAIN s : \A j \in 1 .. i - 1 : s[j] < s[i]
  PROVE  /\ Head(s) \in Nat
         /\ 1 \in DOMAIN s /\ Head(s) = s[1]
         /\ Tail(s) \in Seq(Nat)
         /\ \A i \in DOMAIN Tail(s) :
              /\ i + 1 \in DOMAIN s
              /\ Tail(s)[i] = s[i + 1]
              /\ Tail(s)[i] # Head(s)
              /\ \A j \in 1 .. i - 1 : Tail(s)[j] < Tail(s)[i]
<1>1. /\ Head(s) \in Nat /\ Head(s) = s[1]
      /\ Tail(s) \in Seq(Nat) /\ Len(Tail(s)) = Len(s) - 1
      /\ \A i \in 1 .. Len(Tail(s)) : Tail(s)[i] = s[i + 1]
  BY HeadTailProperties
<1>2. Len(s) \in Nat /\ Len(s) > 0 /\ DOMAIN s = 1 .. Len(s)
      /\ DOMAIN Tail(s) = 1 .. Len(s) - 1
  BY <1>1, EmptySeq, LenProperties
<1>3. ASSUME NEW i \in 1 .. Len(s) - 1
      PROVE  /\ i + 1 \in DOMAIN s
             /\ Tail(s)[i] = s[i + 1]
             /\ Tail(s)[i] # Head(s)
             /\ \A j \in 1 .. i - 1 : Tail(s)[j] < Tail(s)[i]
  <2>1. i + 1 \in DOMAIN s /\ Tail(s)[i] = s[i + 1]
    BY <1>1, <1>2
  <2>2. s[1] < s[i + 1] /\ s[1] \in Nat /\ s[i + 1] \in Nat
    BY <2>1, <1>2
  <2>3. ASSUME NEW j \in 1 .. i - 1 PROVE Tail(s)[j] < Tail(s)[i]
    <3>1. j + 1 \in 1 .. (i + 1) - 1 /\ Tail(s)[j] = s[j + 1]
      BY <1>1, <1>2
    <3>2. QED
      BY <2>1, <3>1
  <2>4. QED
    BY <1>1, <2>1, <2>2, <2>3
<1>4. 1 \in DOMAIN s
  BY <1>2
<1>5. \A i \in DOMAIN Tail(s) :
        /\ i + 1 \in DOMAIN s
        /\ Tail(s)[i] = s[i + 1]
        /\ Tail(s)[i] # Head(s)
        /\ \A j \in 1 .. i - 1 : Tail(s)[j] < Tail(s)[i]
  <2>1. DOMAIN Tail(s) = 1 .. Len(s) - 1
    BY <1>2
  <2>2. QED
    BY <2>1, <1>3
<1>6. QED
  BY <1>1, <1>4, <1>5

\* A page that exists, is not mapped and has left its free list may be mapped.
LEMMA EnterPageStep ==
  ASSUME TypeOK, IInv, NEW n \in Nodes, NEW page \in Nat, EnterPage(n, page),
         page < total_pages[n],
         FreeListsSorted(n)',
         \A m \in Nodes \ {n} :
           UNCHANGED <<free_local_page_list[m], free_remote_page_list[m]>>,
         \A i \in DOMAIN free_local_page_list'[n] :
           /\ free_local_page_list'[n][i] # page
           /\ \E j \in DOMAIN free_local_page_list[n] :
                free_local_page_list'[n][i] = free_local_page_list[n][j],
         \A i \in DOMAIN free_remote_page_list'[n] :
           /\ free_remote_page_list'[n][i] # page
           /\ \E j \in DOMAIN free_remote_page_list[n] :
                free_remote_page_list'[n][i] = free_remote_page_list[n][j],
         \A v \in Mapped(n) : page_table[n][v] # page
  PROVE  IInv'
<1>t. /\ pc \in [Nodes -> PcStates]
      /\ page_table \in [Nodes -> [VPages -> Nat \cup {NoPage}]]
      /\ vpage \in [Nodes -> VPages \cup {NoPage}]
  BY DEF TypeOK, ThreadTypeOK, FaultTypeOK
<1>a. /\ pc[n] = "map" /\ pc'[n] = "idle"
      /\ \A m \in Nodes \ {n} : pc'[m] = pc[m]
  BY <1>t DEF EnterPage, Goto
<1>u. UNCHANGED <<total_pages, remote_map, pool_free_pages, pool_allocated_pages,
                  shared_mem_table, remote_pool, lock_mem>>
  BY DEF EnterPage, poolVars, selectVars
<1>v. vpage[n] \in VPages /\ page_table[n][vpage[n]] = NoPage
  BY <1>a DEF IInv, PagesMappedOnce
<1>b. /\ \A m \in Nodes \ {n} : /\ page_table'[m] = page_table[m]
                               /\ vpage'[m] = vpage[m]
      /\ page_table'[n] = [page_table[n] EXCEPT ![vpage[n]] = page]
  BY <1>t DEF EnterPage
<1>c. /\ page_table'[n][vpage[n]] = page
      /\ \A v \in VPages \ {vpage[n]} : page_table'[n][v] = page_table[n][v]
  BY <1>t, <1>b, <1>v
<1>1. LockHeld'
  BY <1>a, <1>u DEF IInv, LockHeld
<1>2. PoolBalance'
  BY <1>a, <1>u DEF IInv, PoolBalance
<1>3. RegionsDisjoint'
  BY <1>u DEF IInv, RegionsDisjoint
<1>4. ASSUME NEW m \in Nodes PROVE RegionsCover(m)'
  BY <1>u DEF IInv, RegionsCover
<1>5. ASSUME NEW m \in Nodes PROVE RegionsGranted(m)'
  <2>1. \A i \in DOMAIN remote_map[m] : Pending(m, i)' <=> Pending(m, i)
    BY <1>a, <1>u DEF Pending
  <2>2. \A i \in DOMAIN remote_map[m] : Pending(m, i) => m # n
    BY <1>a DEF Pending
  <2>3. m # n => Mapped(m)' = Mapped(m) /\ page_table'[m] = page_table[m]
    BY <1>b DEF Mapped
  <2>4. QED
    BY <2>1, <2>2, <2>3, <1>u DEF IInv, RegionsGranted
<1>6. ASSUME NEW m \in Nodes PROVE FreeListsSorted(m)'
  <2>1. CASE m = n
    BY <2>1
  <2>2. CASE m # n
    BY <2>2, <1>u DEF IInv, FreeListsSorted
  <2>3. QED
    BY <2>1, <2>2
<1>7. ASSUME NEW m \in Nodes PROVE PagesMappedOnce(m)'
  <2>1. PagesMappedOnce(m)
    BY DEF IInv
  <2>2. CASE m # n
    BY <2>1, <2>2, <1>a, <1>b, <1>u DEF PagesMappedOnce, Mapped
  <2>3. CASE m = n
    <3>1. \A v \in Mapped(n)' : \/ v = vpage[n] /\ page_table'[n][v] = page
                                \/ /\ v # vpage[n] /\ v \in Mapped(n)
                                   /\ page_table'[n][v] = page_table[n][v]
      BY <1>c DEF Mapped
    <3>2. \A v \in Mapped(n)' : page_table'[n][v] < total_pages'[n]
      BY <2>1, <2>3, <3>1, <1>u DEF PagesMappedOnce
    <3>3. \A v \in Mapped(n)' :
            /\ \A i \in DOMAIN free_local_page_list'[n] :
                 free_local_page_list'[n][i] # page_table'[n][v]
            /\ \A i \in DOMAIN free_remote_page_list'[n] :
                 free_remote_page_list'[n][i] # page_table'[n][v]
      BY <2>1, <2>3, <3>1 DEF PagesMappedOnce
    <3>4. \A v, w \in Mapped(n)' : page_table'[n][w] = page_table'[n][v] => w = v
      BY <2>1, <2>3, <3>1 DEF PagesMappedOnce
    <3>5. QED
      BY <2>3, <3>2, <3>3, <3>4, <1>a DEF PagesMappedOnce
  <2>4. QED
    BY <2>2, <2>3
<1>8. QED
  BY <1>1, <1>2, <1>3, <1>4, <1>5, <1>6, <1>7 DEF IInv

LEMMA RemotePageStep ==
  ASSUME TypeOK, IInv, NEW n \in Nodes, allocate_remote_page(n)
  PROVE  IInv'
<1> DEFINE list == free_remote_page_list[n]
<1>t. /\ list \in Seq(Nat) /\ list # <<>>
      /\ free_remote_page_list \in [Nodes -> Seq(Nat)]
      /\ free_local_page_list[n] \in Seq(Nat)
  BY DEF TypeOK, SpaceTypeOK, allocate_remote_page
<1>s. FreeListsSorted(n) /\ PagesMappedOnce(n)
  BY DEF IInv
<1>h. /\ Head(list) \in Nat
      /\ 1 \in DOMAIN list /\ Head(list) = list[1]
      /\ \A i \in DOMAIN Tail(list) :
           /\ i + 1 \in DOMAIN list
           /\ Tail(list)[i] = list[i + 1]
           /\ Tail(list)[i] # Head(list)
           /\ \A j \in 1 .. i - 1 : Tail(list)[j] < Tail(list)[i]
  <2>1. \A i \in DOMAIN list : \A j \in 1 .. i - 1 : list[j] < list[i]
    BY <1>s DEF FreeListsSorted
  <2> HIDE DEF list
  <2>2. QED
    BY <1>t, <2>1, SortedTail
<1>u. /\ free_remote_page_list'[n] = Tail(list)
      /\ \A m \in Nodes \ {n} : free_remote_page_list'[m] = free_remote_page_list[m]
      /\ UNCHANGED <<free_local_page_list, total_pages>>
  BY <1>t DEF allocate_remote_page, EnterPage
<1>1. FreeListsSorted(n)'
  <2>1. \A i \in DOMAIN free_local_page_list'[n] :
          /\ free_local_page_list'[n][i] < LocalPages
          /\ \A j \in 1 .. i - 1 :
               free_local_page_list'[n][j] < free_local_page_list'[n][i]
    BY <1>s, <1>u DEF FreeListsSorted
  <2>2. \A i \in DOMAIN Tail(list) :
          /\ LocalPages <= Tail(list)[i]
          /\ Tail(list)[i] < total_pages[n]
    BY <1>s, <1>h DEF FreeListsSorted
  <2>3. QED
    BY <2>1, <2>2, <1>h, <1>u DEF FreeListsSorted
<1>2. Head(list) < total_pages[n] /\ LocalPages <= Head(list)
  BY <1>s, <1>h DEF FreeListsSorted
<1>3. \A i \in DOMAIN free_local_page_list'[n] : free_local_page_list'[n][i] # Head(list)
  BY <1>s, <1>t, <1>u, <1>h, <1>2, SizesAssumption DEF FreeListsSorted
<1>4. \A v \in Mapped(n) : page_table[n][v] # Head(list)
  BY <1>s, <1>h DEF PagesMappedOnce
<1>5. EnterPage(n, Head(list))
  BY DEF allocate_remote_page
<1>6. \A i \in DOMAIN free_remote_page_list'[n] :
        /\ free_remote_page_list'[n][i] # Head(list)
        /\ \E j \in DOMAIN list : free_remote_page_list'[n][i] = list[j]
  BY <1>u, <1>h
<1>7. QED
  BY <1>h, <1>u, <1>1, <1>2, <1>3, <1>4, <1>5, <1>6, EnterPageStep

LEMMA LocalPageStep ==
  ASSUME TypeOK, IInv, NEW n \in Nodes, allocate_local_page(n)
  PROVE  IInv'
<1> DEFINE list == free_local_page_list[n]
<1>t. /\ list \in Seq(Nat) /\ list # <<>>
      /\ free_local_page_list \in [Nodes -> Seq(Nat)]
      /\ free_remote_page_list[n] \in Seq(Nat)
      /\ total_pages[n] \in Nat
  BY DEF TypeOK, SpaceTypeOK, allocate_local_page
<1>s. FreeListsSorted(n) /\ PagesMappedOnce(n) /\ LocalPages <= total_pages[n]
  BY DEF IInv, RegionsCover
<1>h. /\ Head(list) \in Nat
      /\ 1 \in DOMAIN list /\ Head(list) = list[1]
      /\ \A i \in DOMAIN Tail(list) :
           /\ i + 1 \in DOMAIN list
           /\ Tail(list)[i] = list[i + 1]
           /\ Tail(list)[i] # Head(list)
           /\ \A j \in 1 .. i - 1 : Tail(list)[j] < Tail(list)[i]
  <2>1. \A i \in DOMAIN list : \A j \in 1 .. i - 1 : list[j] < list[i]
    BY <1>s DEF FreeListsSorted
  <2> HIDE DEF list
  <2>2. QED
    BY <1>t, <2>1, SortedTail
<1>u. /\ free_local_page_list'[n] = Tail(list)
      /\ \A m \in Nodes \ {n} : free_local_page_list'[m] = free_local_page_list[m]
      /\ UNCHANGED <<free_remote_page_list, total_pages>>
  BY <1>t DEF allocate_local_page, EnterPage
<1>1. FreeListsSorted(n)'
  <2>1. \A i \in DOMAIN free_remote_page_list'[n] :
          /\ LocalPages <= free_remote_page_list'[n][i]
          /\ free_remote_page_list'[n][i] < total_pages'[n]
          /\ \A j \in 1 .. i - 1 :
               free_remote_page_list'[n][j] < free_remote_page_list'[n][i]
    BY <1>s, <1>u DEF FreeListsSorted
  <2>2. \A i \in DOMAIN Tail(list) : Tail(list)[i] < LocalPages
    BY <1>s, <1>h DEF FreeListsSorted
  <2>3. QED
    BY <2>1, <2>2, <1>h, <1>u DEF FreeListsSorted
<1>2. Head(list) < LocalPages /\ Head(list) < total_pages[n]
  <2>1. Head(list) < LocalPages
    BY <1>s, <1>h DEF FreeListsSorted
  <2>2. QED
    BY <2>1, <1>s, <1>t, <1>h, SizesAssumption, SmallerThanBound
<1>3. \A i \in DOMAIN free_remote_page_list'[n] : free_remote_page_list'[n][i] # Head(list)
  BY <1>s, <1>t, <1>u, <1>h, <1>2, SizesAssumption DEF FreeListsSorted
<1>4. \A v \in Mapped(n) : page_table[n][v] # Head(list)
  BY <1>s, <1>h DEF PagesMappedOnce
<1>5. EnterPage(n, Head(list))
  BY DEF allocate_local_page
<1>6. \A i \in DOMAIN free_local_page_list'[n] :
        /\ free_local_page_list'[n][i] # Head(list)
        /\ \E j \in DOMAIN list : free_local_page_list'[n][i] = list[j]
  BY <1>u, <1>h
<1>7. QED
  BY <1>h, <1>u, <1>1, <1>2, <1>3, <1>4, <1>5, <1>6, EnterPageStep

(***************************************************************************)
(* The inductive invariant holds in every reachable state: nodes that      *)
(* carve chunks out of the same pools, interleaved in any way and whatever *)
(* pool the unlocked selection returns, never get overlapping regions,     *)
(* and a page a fault takes off a free list is backed and unused.          *)
(***************************************************************************)
THEOREM InductiveInvariant == Spec => []IInv
<1>1. Init => IInv
  <2> SUFFICES ASSUME Init PROVE IInv
    OBVIOUS
  <2>z. LocalPages \in Nat /\ PoolPages \in Nat /\ ChunkPages \in Nat
    BY SizesAssumption
  <2>e. \A n \in Nodes : /\ remote_map[n] = <<>> /\ free_remote_page_list[n] = <<>>
                         /\ total_pages[n] = LocalPages
                         /\ pc[n] = "idle" /\ Mapped(n) = {}
    BY DEF Init, Mapped
  <2>1. LockHeld /\ PoolBalance /\ RegionsDisjoint
    BY <2>e, <2>z DEF Init, LockHeld, PoolBalance, RegionsDisjoint
  <2>2. ASSUME NEW n \in Nodes
        PROVE  RegionsCover(n) /\ RegionsGranted(n) /\ PagesMappedOnce(n)
    BY <2>e, <2>z DEF RegionsCover, RegionsGranted, PagesMappedOnce
  <2>3. ASSUME NEW n \in Nodes PROVE FreeListsSorted(n)
    <3>1. free_local_page_list[n] = [i \in 1 .. LocalPages |-> i - 1]
      BY DEF Init
    <3>2. QED
      BY <2>e, <2>z, <3>1 DEF FreeListsSorted
  <2>4. QED
    BY <2>1, <2>2, <2>3 DEF IInv
<1>2. TypeOK /\ IInv /\ [Next]_vars => IInv'
  <2> SUFFICES ASSUME TypeOK, IInv, [Next]_vars PROVE IInv'
    OBVIOUS
  <2>t. pc \in [Nodes -> PcStates] /\ remote_pool \in [Nodes -> Int]
        /\ vpage \in [Nodes -> VPages \cup {NoPage}]
    BY DEF TypeOK, ThreadTypeOK, FaultTypeOK
  <2>v. \A n \in Nodes : pc[n] # "idle" => vpage[n] \in VPages
                                           /\ page_table[n][vpage[n]] = NoPage
    BY DEF IInv, PagesMappedOnce
  <2>l. ASSUME NEW n \in Nodes, NEW to, to \notin {"request", "share", "unlock"},
               pc' = [pc EXCEPT ![n] = to], lock_mem' = lock_mem
        PROVE  LockHeld'
    BY <2>t, <2>l DEF IInv, LockHeld
  <2>i. UNCHANGED <<spaceVars, poolVars, page_table, vpage, remote_pool, pc,
                    lock_mem>> => IInv'
    <3> SUFFICES ASSUME UNCHANGED <<spaceVars, poolVars, page_table, vpage,
                                    remote_pool, pc, lock_mem>>
                 PROVE  IInv'
      OBVIOUS
    <3> USE DEF spaceVars, poolVars
    <3>1. LockHeld' /\ PoolBalance' /\ RegionsDisjoint'
      BY DEF IInv, LockHeld, PoolBalance, RegionsDisjoint
    <3>2. ASSUME NEW n \in Nodes
          PROVE  RegionsCover(n)' /\ FreeListsSorted(n)' /\ PagesMappedOnce(n)'
      BY <3>2 DEF IInv, RegionsCover, FreeListsSorted, PagesMappedOnce, Mapped
    <3>3. ASSUME NEW n \in Nodes PROVE RegionsGranted(n)'
      <4>1. \A i \in DOMAIN remote_map[n] : Pending(n, i)' <=> Pending(n, i)
        BY DEF Pending
      <4>2. Mapped(n)' = Mapped(n)
        BY DEF Mapped
      <4>3. QED
        BY <4>1, <4>2 DEF IInv, RegionsGranted
    <3>4. QED
      BY <3>1, <3>2, <3>3 DEF IInv
  <2>1. ASSUME NEW n \in Nodes, NEW v \in VPages, StartFault(n, v) PROVE IInv'
    <3>1. /\ vpage'[n] = v /\ \A m \in Nodes \ {n} : vpage'[m] = vpage[m]
      BY <2>1, <2>t DEF StartFault
    <3>2. PICK to \in {"select", "map"} : pc' = [pc EXCEPT ![n] = to]
      BY <2>1 DEF StartFault, Goto
    <3>3. /\ pc[n] = "idle" /\ page_table[n][v] = NoPage
          /\ UNCHANGED <<spaceVars, poolVars, page_table, remote_pool, lock_mem>>
      BY <2>1 DEF StartFault, Goto, selectVars
    <3>4. LockHeld'
      BY <3>2, <3>3, <2>l
    <3>5. QED
      BY <3>1, <3>2, <3>3, <3>4, QuietStep DEF PcStates
  <2>2. ASSUME NEW n \in Nodes,
               NEW to \in {"wrap", "wrap_store", "incr", "incr_store", "return", "lock"},
               pc' = [pc EXCEPT ![n] = to], pc[n] \notin {"idle", "share"}, selectFrame,
               \A m \in Nodes \ {n} : remote_pool'[m] = remote_pool[m]
        PROVE  IInv'
    <3>1. UNCHANGED <<spaceVars, poolVars, page_table, vpage, lock_mem>>
      BY <2>2 DEF selectFrame, faultVars
    <3>2. LockHeld'
      BY <2>2, <3>1, <2>l
    <3>3. vpage'[n] \in VPages /\ page_table[n][vpage'[n]] = NoPage
      BY <2>2, <2>v, <3>1
    <3>4. QED
      BY <2>2, <3>1, <3>2, <3>3, QuietStep DEF PcStates
  <2>4. ASSUME NEW n \in Nodes, SelectPool(n) PROVE IInv'
    <3>1. PICK to \in {"lock", "wrap", "incr"} : pc' = [pc EXCEPT ![n] = to]
      BY <2>4 DEF SelectPool, Goto
    <3>2. /\ pc[n] = "select" /\ selectFrame
          /\ \A m \in Nodes \ {n} : remote_pool'[m] = remote_pool[m]
      BY <2>4, <2>t DEF SelectPool, Goto
    <3>3. QED
      BY <3>1, <3>2, <2>2
  <2>5. ASSUME NEW n \in Nodes, LoadForWrap(n) \/ LoadForIncrement(n) PROVE IInv'
    <3>1. PICK to \in {"wrap_store", "incr_store"} : pc' = [pc EXCEPT ![n] = to]
      BY <2>5 DEF LoadForWrap, LoadForIncrement, LoadLast, Goto
    <3>2. /\ pc[n] \in {"wrap", "incr"} /\ selectFrame /\ remote_pool' = remote_pool
      BY <2>5 DEF LoadForWrap, LoadForIncrement, LoadLast, Goto
    <3>3. QED
      BY <3>1, <3>2, <2>2
  <2>6. ASSUME NEW n \in Nodes, StoreWrapped(n) \/ StoreIncremented(n) PROVE IInv'
    <3>1. PICK to \in {"incr", "return"} : pc' = [pc EXCEPT ![n] = to]
      BY <2>6 DEF StoreWrapped, StoreIncremented, Goto
    <3>2. /\ pc[n] \in {"wrap_store", "incr_store"} /\ selectFrame
          /\ remote_pool' = remote_pool
      BY <2>6 DEF StoreWrapped, StoreIncremented, Goto
    <3>3. QED
      BY <3>1, <3>2, <2>2
  <2>7. ASSUME NEW n \in Nodes, ReturnPool(n) PROVE IInv'
    BY <2>7, <2>2, <2>t DEF ReturnPool, Goto
  <2>8. ASSUME NEW n \in Nodes, LockMem(n) PROVE IInv'
    <3>1. /\ pc[n] = "lock" /\ pc' = [pc EXCEPT ![n] = "request"]
          /\ lock_mem = NoNode /\ lock_mem' = n
          /\ UNCHANGED <<spaceVars, poolVars, page_table, vpage, remote_pool>>
      BY <2>8 DEF LockMem, Goto, faultVars, selectVars
    <3>2. \A m \in Nodes : pc[m] \notin {"request", "share", "unlock"}
      BY <3>1, NodesAssumption DEF IInv, LockHeld, NoNode
    <3>3. LockHeld'
      BY <3>1, <3>2, <2>t DEF LockHeld
    <3>4. QED
      BY <3>1, <3>3, <2>v, QuietStep DEF PcStates
  <2>9. ASSUME NEW n \in Nodes, RequestOutsidePools(n) \/ AllocateFromEmptyList(n)
        PROVE  IInv'
    BY <2>9, <2>i DEF RequestOutsidePools, AllocateFromEmptyList, faultVars, selectVars
  <2>10. ASSUME NEW n \in Nodes, Refuse(n) PROVE IInv'
    <3>1. /\ pc[n] = "request" /\ pc' = [pc EXCEPT ![n] = "unlock"]
          /\ UNCHANGED <<spaceVars, poolVars, page_table, vpage, remote_pool, lock_mem>>
      BY <2>10 DEF Refuse, Goto, faultVars, selectVars
    <3>2. LockHeld'
      BY <3>1, <2>t DEF IInv, LockHeld
    <3>3. QED
      BY <3>1, <3>2, <2>v, QuietStep DEF PcStates
  <2>11. ASSUME NEW n \in Nodes, UnlockMem(n) PROVE IInv'
    <3>1. /\ pc[n] = "unlock" /\ pc' = [pc EXCEPT ![n] = "map"]
          /\ UNCHANGED <<spaceVars, poolVars, page_table, vpage, remote_pool>>
      BY <2>11 DEF UnlockMem, Goto, faultVars, selectVars
    <3>2. \A m \in Nodes \ {n} : pc'[m] \notin {"request", "share", "unlock"}
      BY <3>1, <2>t DEF IInv, LockHeld
    <3>3. LockHeld'
      BY <3>1, <3>2, <2>t DEF LockHeld
    <3>4. QED
      BY <3>1, <3>3, <2>v, QuietStep DEF PcStates
  <2>12. CASE UNCHANGED vars
    BY <2>12, <2>i DEF vars, faultVars, selectVars
  <2>13. QED
    BY <2>1, <2>4, <2>5, <2>6, <2>7, <2>8, <2>9, <2>10, <2>11, <2>12,
       GrantToNodeStep, GrantFromPoolStep, RemotePageStep, LocalPageStep
       DEF Next, Handle, Terminating
<1>3. QED
  BY <1>1, <1>2, TypeInvariant, PTL DEF Spec

(***************************************************************************)
(* Translation.                                                            *)
(***************************************************************************)
LEMMA MinIs ==
  ASSUME NEW S \in SUBSET Int, NEW x \in S, \A y \in S : x <= y
  PROVE  Min(S) = x
<1>1. Min(S) \in S /\ \A y \in S : Min(S) <= y
  BY DEF Min
<1>2. Min(S) \in Int /\ x \in Int /\ Min(S) <= x /\ x <= Min(S)
  BY <1>1
<1>3. QED
  BY <1>2

\* A remote page of a node lies in one region, and both lookups find it: the
\* first region that ends at or after the page also begins at or before it.
LEMMA RegionOfPage ==
  ASSUME TypeOK, IInv, NEW n \in Nodes, NEW page \in Nat,
         LocalPages <= page, page < total_pages[n]
  PROVE  \E i \in DOMAIN remote_map[n] :
           /\ remote_map[n][i] \in Region
           /\ remote_map[n][i].local_base <= page
           /\ page < remote_map[n][i].local_base + ChunkPages
           /\ find_remote_pool(n, page) = remote_map[n][i].mem_pool_no
           /\ remote_page_addr(n, page, remote_map[n][i].mem_pool_no)
                = remote_map[n][i].remote_base + (page - remote_map[n][i].local_base)
<1> DEFINE map == remote_map[n]
<1>z. ChunkPages \in Nat /\ ChunkPages > 0 /\ LocalPages \in Nat
  BY SizesAssumption
<1>t. total_pages[n] \in Nat /\ map \in Seq(Region)
  BY DEF TypeOK, SpaceTypeOK
<1>r. \A k \in DOMAIN map : map[k] \in Region /\ k \in Int
  BY <1>t
<1>c. RegionsCover(n)
  BY DEF IInv
<1>1. PICK i \in DOMAIN map : map[i].local_base <= page /\ page < map[i].local_base + ChunkPages
  <2>1. page \in LocalPages .. total_pages[n] - 1
    BY <1>z, <1>t
  <2>2. QED
    BY <2>1, <1>c DEF RegionsCover
<1>2. \A k \in DOMAIN map : k < i => map[k].local_base + ChunkPages - 1 < page
  <2> SUFFICES ASSUME NEW k \in DOMAIN map, k < i
               PROVE  map[k].local_base + ChunkPages - 1 < page
    OBVIOUS
  <2>1. k \in 1 .. i - 1
    BY <1>t, <1>r
  <2>2. map[k].local_base + ChunkPages <= map[i].local_base
    BY <2>1, <1>c DEF RegionsCover
  <2>3. map[k].local_base \in Nat /\ map[i].local_base \in Nat
    BY <1>r DEF Region
  <2>4. QED
    BY <2>2, <2>3, <1>1, <1>z
<1>s. \A k \in DOMAIN map : map[k].region_size = ChunkPages
  BY <1>c DEF RegionsCover
<1>b. map[i].local_base \in Nat /\ map[i].remote_base \in Nat
  BY <1>r DEF Region
<1>3. find_remote_pool(n, page) = map[i].mem_pool_no
  <2> DEFINE hits == {k \in DOMAIN map : /\ page >= map[k].local_base
                                         /\ page <= map[k].local_base
                                                      + map[k].region_size - 1}
  <2>1. i \in hits
    BY <1>1, <1>s, <1>b, <1>z
  <2>2. \A k \in hits : i <= k
    <3> SUFFICES ASSUME NEW k \in hits, k < i PROVE FALSE
      BY <1>r
    <3>1. map[k].local_base + ChunkPages - 1 < page
      BY <1>2
    <3>2. map[k].local_base \in Nat
      BY <1>r DEF Region
    <3>3. QED
      BY <3>1, <3>2, <1>s, <1>z
  <2>3. hits \in SUBSET Int
    BY <1>r
  <2>4. Min(hits) = i
    <3> HIDE DEF hits
    <3>1. QED
      BY <2>1, <2>2, <2>3, MinIs
  <2>5. QED
    BY <2>1, <2>4 DEF find_remote_pool
<1>4. remote_page_addr(n, page, map[i].mem_pool_no)
        = map[i].remote_base + (page - map[i].local_base)
  <2> DEFINE hits == {k \in DOMAIN map : /\ map[k].mem_pool_no = map[i].mem_pool_no
                                         /\ map[k].local_base
                                              + map[k].region_size - 1 >= page}
  <2>1. i \in hits
    BY <1>1, <1>s, <1>b, <1>z
  <2>2. \A k \in hits : i <= k
    <3> SUFFICES ASSUME NEW k \in hits, k < i PROVE FALSE
      BY <1>r
    <3>1. map[k].local_base + ChunkPages - 1 < page
      BY <1>2
    <3>2. map[k].local_base \in Nat
      BY <1>r DEF Region
    <3>3. QED
      BY <3>1, <3>2, <1>s, <1>z
  <2>3. hits \in SUBSET Int
    BY <1>r
  <2>4. Min(hits) = i
    <3> HIDE DEF hits
    <3>1. QED
      BY <2>1, <2>2, <2>3, MinIs
  <2>5. page - map[i].local_base <= map[i].region_size
    BY <1>1, <1>s, <1>b, <1>z
  <2>6. QED
    BY <2>1, <2>4, <2>5 DEF remote_page_addr
<1>5. QED
  BY <1>1, <1>3, <1>4, <1>r

(***************************************************************************)
(* No two virtual pages of the rack share a page of a memory unit, for     *)
(* every number of nodes, pools and pages: chunk accounting, the region    *)
(* tables and the translation of send_to_memory never alias two pages.     *)
(***************************************************************************)
LEMMA FramesDiffer == TypeOK /\ IInv => NoSharedFrame
<1> SUFFICES ASSUME TypeOK, IInv, NEW n \in Nodes, NEW m \in Nodes,
                    NEW v \in Mapped(n), NEW w \in Mapped(m),
                    Frame(n, page_table[n][v]) = Frame(m, page_table[m][w])
             PROVE  n = m /\ v = w
  BY DEF NoSharedFrame
<1> DEFINE a == page_table[n][v]
           b == page_table[m][w]
<1>z. ChunkPages \in Nat /\ LocalPages \in Nat
  BY SizesAssumption
<1>1. a \in Nat /\ b \in Nat
  BY DEF Mapped, TypeOK, FaultTypeOK
<1>2. a < total_pages[n] /\ b < total_pages[m]
  BY DEF IInv, PagesMappedOnce
<1>3. n = m /\ a = b
  <2>1. CASE is_local(a)
    BY <2>1 DEF Frame, is_local
  <2>2. CASE ~is_local(a)
    <3>1. ~is_local(b)
      BY <2>2 DEF Frame
    <3>2. /\ find_remote_pool(n, a) = find_remote_pool(m, b)
          /\ remote_page_addr(n, a, find_remote_pool(n, a))
               = remote_page_addr(m, b, find_remote_pool(m, b))
      BY <2>2, <3>1 DEF Frame
    <3>3. LocalPages <= a /\ LocalPages <= b
      BY <2>2, <3>1, <1>1, <1>z DEF is_local
    <3>4. PICK i \in DOMAIN remote_map[n] :
            /\ remote_map[n][i] \in Region
            /\ remote_map[n][i].local_base <= a
            /\ a < remote_map[n][i].local_base + ChunkPages
            /\ find_remote_pool(n, a) = remote_map[n][i].mem_pool_no
            /\ remote_page_addr(n, a, remote_map[n][i].mem_pool_no)
                 = remote_map[n][i].remote_base + (a - remote_map[n][i].local_base)
      BY <1>1, <1>2, <3>3, RegionOfPage
    <3>5. PICK j \in DOMAIN remote_map[m] :
            /\ remote_map[m][j] \in Region
            /\ remote_map[m][j].local_base <= b
            /\ b < remote_map[m][j].local_base + ChunkPages
            /\ find_remote_pool(m, b) = remote_map[m][j].mem_pool_no
            /\ remote_page_addr(m, b, remote_map[m][j].mem_pool_no)
                 = remote_map[m][j].remote_base + (b - remote_map[m][j].local_base)
      BY <1>1, <1>2, <3>3, RegionOfPage
    <3> DEFINE r == remote_map[n][i]
               s == remote_map[m][j]
    <3>6. /\ r.local_base \in Nat /\ r.remote_base \in Nat
          /\ s.local_base \in Nat /\ s.remote_base \in Nat
      BY <3>4, <3>5 DEF Region
    <3>7. /\ r.mem_pool_no = s.mem_pool_no
          /\ r.remote_base + (a - r.local_base) = s.remote_base + (b - s.local_base)
      BY <3>2, <3>4, <3>5
    <3>8. ~(r.remote_base + ChunkPages <= s.remote_base)
      <4> HIDE DEF r, s, a, b
      <4>1. r.local_base <= a /\ a < r.local_base + ChunkPages /\ s.local_base <= b
        BY <3>4, <3>5 DEF r, s, a, b
      <4>2. QED
        BY <4>1, <3>6, <3>7, <1>1, <1>z
    <3>9. ~(s.remote_base + ChunkPages <= r.remote_base)
      <4> HIDE DEF r, s, a, b
      <4>1. s.local_base <= b /\ b < s.local_base + ChunkPages /\ r.local_base <= a
        BY <3>4, <3>5 DEF r, s, a, b
      <4>2. QED
        BY <4>1, <3>6, <3>7, <1>1, <1>z
    <3>10. <<n, i>> = <<m, j>>
      BY <3>7, <3>8, <3>9 DEF IInv, RegionsDisjoint
    <3>11. n = m /\ i = j
      BY <3>10
    <3>12. r = s
      BY <3>11
    <3>13. a = b
      <4> HIDE DEF r, s, a, b
      <4>1. QED
        BY <3>6, <3>7, <3>12, <1>1
    <3>14. QED
      BY <3>11, <3>13
  <2>3. QED
    BY <2>1, <2>2
<1>4. v = w
  BY <1>3 DEF IInv, PagesMappedOnce
<1>5. QED
  BY <1>3, <1>4

\* No two virtual pages of the rack share a frame (find_remote_pool and
\* remote_page_addr never lead two pages to one page of a pool).
THEOREM FramesNeverShared == Spec => []NoSharedFrame
BY TypeInvariant, InductiveInvariant, FramesDiffer, PTL

(***************************************************************************)
(* Every mapped page is local, or a page that exists in the pool the       *)
(* lookups name and that the pool's own table shares with the node.        *)
(***************************************************************************)
LEMMA PagesBacked == TypeOK /\ IInv => MappedPageBacked
<1> SUFFICES ASSUME TypeOK, IInv, NEW n \in Nodes, NEW v \in Mapped(n),
                    ~is_local(page_table[n][v])
             PROVE  LET f == Frame(n, page_table[n][v])
                    IN  /\ f.id \in Pools
                        /\ f.page \in 0 .. PoolPages - 1
                        /\ validate_addr(f.id, f.page, n)
  BY DEF MappedPageBacked, Frame
<1> DEFINE a == page_table[n][v]
<1>z. ChunkPages \in Nat /\ LocalPages \in Nat /\ PoolPages \in Nat
  BY SizesAssumption
<1>1. a \in Nat /\ a < total_pages[n]
  BY DEF Mapped, TypeOK, FaultTypeOK, IInv, PagesMappedOnce
<1>2. LocalPages <= a
  BY <1>1, <1>z DEF is_local
<1>3. PICK i \in DOMAIN remote_map[n] :
        /\ remote_map[n][i] \in Region
        /\ remote_map[n][i].local_base <= a
        /\ a < remote_map[n][i].local_base + ChunkPages
        /\ find_remote_pool(n, a) = remote_map[n][i].mem_pool_no
        /\ remote_page_addr(n, a, remote_map[n][i].mem_pool_no)
             = remote_map[n][i].remote_base + (a - remote_map[n][i].local_base)
  BY <1>1, <1>2, RegionOfPage
<1> DEFINE r == remote_map[n][i]
           p == r.mem_pool_no
           page == r.remote_base + (a - r.local_base)
<1>4. Frame(n, a) = [unit |-> "pool", id |-> p, page |-> page]
  BY <1>3 DEF Frame
<1>5. r.local_base \in Nat /\ r.remote_base \in Nat /\ p \in Pools
  BY <1>3 DEF Region
<1>6. ~Pending(n, i)
  <2>1. Pending(n, i) => a < r.local_base
    BY DEF IInv, RegionsGranted
  <2>2. r.local_base <= a
    BY <1>3
  <2> HIDE DEF a, r
  <2>3. QED
    BY <2>1, <2>2, <1>1, <1>5
<1>7. /\ r.remote_base + ChunkPages <= pool_allocated_pages[p]
      /\ \E k \in DOMAIN shared_mem_table[p] :
           shared_mem_table[p][k] =
             [base_page_no |-> r.remote_base, limit |-> ChunkPages, node_no |-> n]
  BY <1>6 DEF IInv, RegionsGranted
<1>8. page \in Nat /\ page >= r.remote_base /\ page < r.remote_base + ChunkPages
  <2> HIDE DEF r, a
  <2>1. r.local_base <= a /\ a < r.local_base + ChunkPages
    BY <1>3 DEF r, a
  <2>2. QED
    BY <2>1, <1>1, <1>5, <1>z
<1>9. page < PoolPages
  <2>1. pool_allocated_pages[p] <= PoolPages
    BY <1>5, <1>z DEF IInv, PoolBalance, TypeOK, PoolTypeOK
  <2>2. pool_allocated_pages[p] \in Nat
    BY <1>5 DEF TypeOK, PoolTypeOK
  <2> HIDE DEF page, p, r
  <2>3. QED
    BY <2>1, <2>2, <1>5, <1>7, <1>8, <1>z
<1>10. validate_addr(p, page, n)
  <2> HIDE DEF page, p, r
  <2>1. QED
    BY <1>7, <1>8 DEF validate_addr
<1>11. QED
  BY <1>4, <1>5, <1>8, <1>9, <1>10, <1>z

\* Every page in a page table is backed, in the eyes of the node and of the pool
\* (validate_addr) alike.
THEOREM MappedPagesBacked == Spec => []MappedPageBacked
BY TypeInvariant, InductiveInvariant, PagesBacked, PTL

(***************************************************************************)
(* Refinement: the rack implements PageFrames.                             *)
(***************************************************************************)

\* What RegionOfPage says of every remote page, as a state predicate.
PagesTranslated ==
  \A n \in Nodes : \A page \in Nat :
    LocalPages <= page /\ page < total_pages[n] =>
      \E i \in DOMAIN remote_map[n] :
        /\ remote_map[n][i] \in Region
        /\ remote_map[n][i].local_base <= page
        /\ page < remote_map[n][i].local_base + ChunkPages
        /\ Frame(n, page) =
             [unit |-> "pool", id |-> remote_map[n][i].mem_pool_no,
              page |-> remote_map[n][i].remote_base
                         + (page - remote_map[n][i].local_base)]

LEMMA Translated == TypeOK /\ IInv => PagesTranslated
<1> SUFFICES ASSUME TypeOK, IInv, NEW n \in Nodes, NEW page \in Nat,
                    LocalPages <= page, page < total_pages[n]
             PROVE  \E i \in DOMAIN remote_map[n] :
                      /\ remote_map[n][i] \in Region
                      /\ remote_map[n][i].local_base <= page
                      /\ page < remote_map[n][i].local_base + ChunkPages
                      /\ Frame(n, page) =
                           [unit |-> "pool", id |-> remote_map[n][i].mem_pool_no,
                            page |-> remote_map[n][i].remote_base
                                       + (page - remote_map[n][i].local_base)]
  BY DEF PagesTranslated
<1>1. ~is_local(page)
  BY SizesAssumption DEF is_local
<1>2. PICK i \in DOMAIN remote_map[n] :
        /\ remote_map[n][i] \in Region
        /\ remote_map[n][i].local_base <= page
        /\ page < remote_map[n][i].local_base + ChunkPages
        /\ find_remote_pool(n, page) = remote_map[n][i].mem_pool_no
        /\ remote_page_addr(n, page, remote_map[n][i].mem_pool_no)
             = remote_map[n][i].remote_base + (page - remote_map[n][i].local_base)
  BY RegionOfPage
<1>3. QED
  BY <1>1, <1>2 DEF Frame

\* A region appended to the table of a node changes no translation.
LEMMA FramesKept ==
  ASSUME TypeOK, IInv, TypeOK', IInv', PagesTranslated, PagesTranslated',
         NEW n \in Nodes, NEW page \in Nat,
         page < total_pages[n], page < total_pages'[n],
         \A i \in DOMAIN remote_map[n] : /\ i \in DOMAIN remote_map'[n]
                                         /\ remote_map'[n][i] = remote_map[n][i],
         NEW f, f = Frame(n, page), NEW g, g = Frame(n, page)'
  PROVE  f = g
<1>z. LocalPages \in Nat /\ ChunkPages \in Nat
  BY SizesAssumption
<1>1. CASE is_local(page)
  BY <1>1 DEF Frame, is_local
<1>2. CASE ~is_local(page)
  <2>1. LocalPages <= page
    BY <1>2, <1>z DEF is_local
  <2>2. PICK i \in DOMAIN remote_map[n] :
          /\ remote_map[n][i] \in Region
          /\ remote_map[n][i].local_base <= page
          /\ page < remote_map[n][i].local_base + ChunkPages
          /\ f = [unit |-> "pool", id |-> remote_map[n][i].mem_pool_no,
                  page |-> remote_map[n][i].remote_base
                             + (page - remote_map[n][i].local_base)]
    BY <2>1 DEF PagesTranslated
  <2>3. PICK j \in DOMAIN remote_map'[n] :
          /\ remote_map'[n][j] \in Region
          /\ remote_map'[n][j].local_base <= page
          /\ page < remote_map'[n][j].local_base + ChunkPages
          /\ g = [unit |-> "pool", id |-> remote_map'[n][j].mem_pool_no,
                  page |-> remote_map'[n][j].remote_base
                             + (page - remote_map'[n][j].local_base)]
    BY <2>1 DEF PagesTranslated
  <2> DEFINE r == remote_map'[n][i]
             s == remote_map'[n][j]
  <2>4. i \in DOMAIN remote_map'[n] /\ r = remote_map[n][i]
    OBVIOUS
  <2>5. /\ i \in Nat /\ i > 0 /\ j \in Nat /\ j > 0
        /\ r.local_base \in Nat /\ s.local_base \in Nat
    <3>1. remote_map'[n] \in Seq(Region)
      BY DEF TypeOK, SpaceTypeOK
    <3>2. DOMAIN remote_map'[n] = 1 .. Len(remote_map'[n])
          /\ Len(remote_map'[n]) \in Nat
      BY <3>1
    <3>3. r.local_base \in Nat /\ s.local_base \in Nat
      BY <2>2, <2>3, <2>4 DEF Region
    <3>4. QED
      BY <2>4, <3>2, <3>3
  <2>6. /\ r.local_base <= page /\ page < r.local_base + ChunkPages
        /\ s.local_base <= page /\ page < s.local_base + ChunkPages
    BY <2>2, <2>3, <2>4
  <2>7. RegionsCover(n)'
    BY DEF IInv
  <2>8. ~(i < j)
    <3>1. i < j => r.local_base + ChunkPages <= s.local_base
      <4>1. i < j => i \in 1 .. j - 1
        BY <2>5
      <4>2. QED
        BY <4>1, <2>7 DEF RegionsCover
    <3> HIDE DEF r, s
    <3>2. QED
      BY <3>1, <2>5, <2>6, <1>z
  <2>9. ~(j < i)
    <3>1. j < i => s.local_base + ChunkPages <= r.local_base
      <4>1. j < i => j \in 1 .. i - 1
        BY <2>5
      <4>2. QED
        BY <4>1, <2>4, <2>7 DEF RegionsCover
    <3> HIDE DEF r, s
    <3>2. QED
      BY <3>1, <2>5, <2>6, <1>z
  <2>10. i = j
    BY <2>5, <2>8, <2>9
  <2>11. QED
    BY <2>2, <2>3, <2>4, <2>10
<1>3. QED
  BY <1>1, <1>2

\* A step that maps no page keeps every frame.
LEMMA FramesStutter ==
  ASSUME TypeOK, IInv, TypeOK', IInv', PagesTranslated, PagesTranslated',
         UNCHANGED page_table,
         \A n \in Nodes :
           \A i \in DOMAIN remote_map[n] : /\ i \in DOMAIN remote_map'[n]
                                           /\ remote_map'[n][i] = remote_map[n][i]
  PROVE  frame' = frame
<1>1. ASSUME NEW n \in Nodes, NEW v \in VPages, page_table[n][v] # NoPage
      PROVE  Frame(n, page_table[n][v])' = Frame(n, page_table[n][v])
  <2>1. PICK q : q = page_table[n][v]
    OBVIOUS
  <2>2. q \in Nat
    BY <1>1, <2>1 DEF TypeOK, FaultTypeOK
  <2>3. q < total_pages[n]
    BY <1>1, <2>1 DEF IInv, PagesMappedOnce, Mapped
  <2>4. q < total_pages'[n]
    BY <1>1, <2>1 DEF IInv, PagesMappedOnce, Mapped
  <2>5. Frame(n, q)' = Frame(n, q)
    BY <2>2, <2>3, <2>4, FramesKept
  <2>6. page_table'[n][v] = q
    BY <2>1
  <2>7. Frame(n, page_table[n][v])' = Frame(n, q)'
    BY <2>6 DEF Frame, is_local, find_remote_pool, remote_page_addr
  <2>8. QED
    BY <2>1, <2>5, <2>7
<1>2. \A n \in Nodes : \A v \in VPages :
        (IF page_table[n][v] = NoPage THEN NoFrame ELSE Frame(n, page_table[n][v]))'
          = IF page_table[n][v] = NoPage THEN NoFrame ELSE Frame(n, page_table[n][v])
  BY <1>1
<1>3. QED
  BY <1>2 DEF frame

\* Entering a page gives an abstract page a frame that nobody has.
LEMMA EnterPageAssigns ==
  ASSUME TypeOK, IInv, TypeOK', IInv', NoSharedFrame', MappedPageBacked',
         NEW n \in Nodes, NEW page \in Nat, EnterPage(n, page)
  PROVE  Frames!Next
<1> DEFINE f == Frame(n, page)
<1>w. PICK v : v = vpage[n]
  OBVIOUS
<1>t. page_table \in [Nodes -> [VPages -> Nat \cup {NoPage}]]
  BY DEF TypeOK, FaultTypeOK
<1>z. LocalPages \in Nat
  BY SizesAssumption
<1>v. v \in VPages /\ page_table[n][v] = NoPage /\ page # NoPage
  BY <1>w DEF EnterPage, Goto, IInv, PagesMappedOnce, NoPage
<1>p. page_table' = [page_table EXCEPT ![n][v] = page] /\ remote_map' = remote_map
  BY <1>w DEF EnterPage
<1>1. \A m \in Nodes, w \in VPages :
        page_table'[m][w] = IF m = n /\ w = v THEN page ELSE page_table[m][w]
  BY <1>t, <1>p
<1>2. ASSUME NEW m \in Nodes, NEW q
      PROVE  Frame(m, q)' = Frame(m, q)
  BY <1>p DEF Frame, is_local, find_remote_pool, remote_page_addr
<1>3. ASSUME NEW m \in Nodes, NEW w \in VPages
      PROVE  Frame(m, page_table[m][w])' =
               IF m = n /\ w = v THEN f ELSE Frame(m, page_table[m][w])
  <2>1. PICK q : q = page_table'[m][w]
    OBVIOUS
  <2>2. Frame(m, page_table[m][w])' = Frame(m, q)'
    BY <2>1 DEF Frame, is_local, find_remote_pool, remote_page_addr
  <2>3. Frame(m, q)' = Frame(m, q)
    BY <1>2
  <2>4. q = IF m = n /\ w = v THEN page ELSE page_table[m][w]
    BY <2>1, <1>1
  <2>5. QED
    BY <2>2, <2>3, <2>4
<1>4. \A m \in Nodes, w \in VPages :
        (IF page_table[m][w] = NoPage THEN NoFrame ELSE Frame(m, page_table[m][w]))'
          = IF m = n /\ w = v THEN f
            ELSE IF page_table[m][w] = NoPage THEN NoFrame
                 ELSE Frame(m, page_table[m][w])
  BY <1>1, <1>3, <1>v
<1>5. \A m \in Nodes, w \in VPages :
        frame'[m][w] = IF m = n /\ w = v THEN f ELSE frame[m][w]
  BY <1>4 DEF frame
<1>6. frame' = [frame EXCEPT ![n][v] = f]
  <2>1. frame' = [m \in Nodes |-> [w \in VPages |->
                    IF m = n /\ w = v THEN f ELSE frame[m][w]]]
    BY <1>4 DEF frame
  <2>2. [frame EXCEPT ![n][v] = f] = [m \in Nodes |-> [w \in VPages |->
                    IF m = n /\ w = v THEN f ELSE frame[m][w]]]
    <3>1. frame = [m \in Nodes |-> [w \in VPages |-> frame[m][w]]]
      BY DEF frame
    <3> HIDE DEF f
    <3>2. QED
      BY <3>1
  <2>3. QED
    BY <2>1, <2>2
<1>7. frame[n][v] = NoFrame
  BY <1>v DEF frame
<1>8. f # NoFrame
  BY DEF Frame, NoFrame
<1>9. f \in Frames!LocalFrames(n) \cup Frames!PoolFrames
  <2>1. CASE is_local(page)
    <3>1. page \in 0 .. LocalPages - 1
      BY <2>1, <1>z DEF is_local
    <3>2. QED
      BY <2>1, <3>1 DEF Frame, Frames!LocalFrames
  <2>2. CASE ~is_local(page)
    <3>1. v \in Mapped(n)'
      BY <1>1, <1>v DEF Mapped
    <3>2. Frame(n, page_table[n][v])' = f
      BY <1>3, <1>v
    <3>3. f.unit = "pool" /\ f = [unit |-> "pool", id |-> f.id, page |-> f.page]
      BY <2>2 DEF Frame
    <3>4. f.id \in Pools /\ f.page \in 0 .. PoolPages - 1
      <4> HIDE DEF f
      <4>1. f.unit # "local"
        BY <3>3
      <4>2. QED
        BY <3>1, <3>2, <4>1 DEF MappedPageBacked
    <3>5. QED
      BY <3>3, <3>4 DEF Frames!PoolFrames, Pools
  <2>3. QED
    BY <2>1, <2>2
<1>10. f \notin Frames!InUse
  <2> SUFFICES ASSUME NEW m \in Nodes, NEW w \in VPages, frame[m][w] = f
               PROVE  FALSE
    BY DEF Frames!InUse
  <2>1. m # n \/ w # v
    BY <1>7, <1>8
  <2>2. page_table[m][w] # NoPage /\ Frame(m, page_table[m][w]) = f
    BY <1>8 DEF frame
  <2>3. w \in Mapped(m)' /\ v \in Mapped(n)'
    BY <1>1, <1>v, <2>1, <2>2 DEF Mapped
  <2>4. Frame(m, page_table[m][w])' = f /\ Frame(n, page_table[n][v])' = f
    BY <1>3, <1>v, <2>1, <2>2
  <2> HIDE DEF f
  <2>5. QED
    BY <2>1, <2>3, <2>4 DEF NoSharedFrame
<1>11. Frames!Assign(n, v)
  <2>1. frame'[n][v] = f
    BY <1>5, <1>v
  <2> HIDE DEF f
  <2>2. QED
    BY <2>1, <1>6, <1>7, <1>9, <1>10 DEF Frames!Assign
<1>12. QED
  BY <1>11, <1>v DEF Frames!Next

(***************************************************************************)
(* The detailed rack implements the abstract assignment: whatever the      *)
(* interleaving, a step of the simulator gives one page one unused frame   *)
(* or changes no frame, so a translation never changes afterwards.         *)
(***************************************************************************)
THEOREM Refinement == Spec => ImplementsPageFrames
<1>1. Init => Frames!Init
  BY DEF Init, Frames!Init, frame
<1>2. /\ TypeOK /\ IInv /\ PagesTranslated
      /\ TypeOK' /\ IInv' /\ PagesTranslated' /\ NoSharedFrame' /\ MappedPageBacked'
      /\ [Next]_vars
      => [Frames!Next]_frame
  <2> SUFFICES ASSUME TypeOK, IInv, PagesTranslated,
                      TypeOK', IInv', PagesTranslated', NoSharedFrame',
                      MappedPageBacked', [Next]_vars
               PROVE  [Frames!Next]_frame
    OBVIOUS
  <2>s. UNCHANGED <<page_table, remote_map>> => frame' = frame
    BY FramesStutter
  <2>1. ASSUME NEW n \in Nodes, GrantToNode(n) PROVE frame' = frame
    <3>1. UNCHANGED page_table
      BY <2>1 DEF GrantToNode
    <3>2. remote_map \in [Nodes -> Seq(Region)] /\ remote_map' \in [Nodes -> Seq(Region)]
      BY DEF TypeOK, SpaceTypeOK
    <3>3. PICK r : remote_map' = [remote_map EXCEPT ![n] = Append(remote_map[n], r)]
      BY <2>1 DEF GrantToNode
    <3>4. ASSUME NEW m \in Nodes, NEW i \in DOMAIN remote_map[m]
          PROVE  i \in DOMAIN remote_map'[m] /\ remote_map'[m][i] = remote_map[m][i]
      BY <3>2, <3>3
    <3>5. QED
      BY <3>1, <3>4, FramesStutter
  <2>2. ASSUME NEW n \in Nodes, allocate_remote_page(n) PROVE Frames!Next
    <3>1. Head(free_remote_page_list[n]) \in Nat
      BY <2>2, HeadTailProperties DEF allocate_remote_page, TypeOK, SpaceTypeOK
    <3>2. QED
      BY <2>2, <3>1, EnterPageAssigns DEF allocate_remote_page
  <2>3. ASSUME NEW n \in Nodes, allocate_local_page(n) PROVE Frames!Next
    <3>1. Head(free_local_page_list[n]) \in Nat
      BY <2>3, HeadTailProperties DEF allocate_local_page, TypeOK, SpaceTypeOK
    <3>2. QED
      BY <2>3, <3>1, EnterPageAssigns DEF allocate_local_page
  <2>4. ASSUME NEW n \in Nodes, NEW v \in VPages, StartFault(n, v)
        PROVE  frame' = frame
    BY <2>4, <2>s DEF StartFault, spaceVars
  <2>5. ASSUME NEW n \in Nodes,
               \/ SelectPool(n) \/ LoadForWrap(n)
               \/ StoreWrapped(n) \/ LoadForIncrement(n) \/ StoreIncremented(n)
               \/ ReturnPool(n)
        PROVE  frame' = frame
    <3>1. selectFrame
      BY <2>5 DEF SelectPool, LoadForWrap, LoadForIncrement, LoadLast,
                  StoreWrapped, StoreIncremented, ReturnPool
    <3>2. QED
      BY <3>1, <2>s DEF selectFrame, spaceVars
  <2>6. ASSUME NEW n \in Nodes,
               \/ LockMem(n) \/ RequestOutsidePools(n) \/ GrantFromPool(n)
               \/ Refuse(n) \/ UnlockMem(n) \/ AllocateFromEmptyList(n)
        PROVE  frame' = frame
    BY <2>6, <2>s DEF LockMem, RequestOutsidePools, GrantFromPool, Refuse, UnlockMem,
                      AllocateFromEmptyList, spaceVars
  <2>7. CASE UNCHANGED vars
    BY <2>7, <2>s DEF vars, spaceVars
  <2>8. QED
    BY <2>1, <2>2, <2>3, <2>4, <2>5, <2>6, <2>7 DEF Next, Handle, Terminating
<1>3. QED
  BY <1>1, <1>2, TypeInvariant, InductiveInvariant, Translated, FramesDiffer,
     PagesBacked, PTL DEF Spec, ImplementsPageFrames, Frames!Spec

-------------------------------------------------------------------------------
(***************************************************************************)
(* The tables: those of the nodes and those of the pools agree.            *)
(***************************************************************************)

\* The node has entered the region of the pool, and the pool has too.
HasRegion(n, p, base) ==
  \E i \in DOMAIN remote_map[n] :
    /\ ~ Pending(n, i)
    /\ remote_map[n][i].mem_pool_no = p
    /\ remote_map[n][i].remote_base = base

\* Every entry of a pool's table is a region the node has, and follows those
\* entered before it.
SharesHeld(p) ==
  \A k \in DOMAIN shared_mem_table[p] :
    LET s == shared_mem_table[p][k]
    IN  /\ s.limit = ChunkPages
        /\ s.base_page_no = ChunkPages * (k - 1)
        /\ s.base_page_no + ChunkPages <= pool_allocated_pages[p]
        /\ \A l \in 1 .. k - 1 :
             shared_mem_table[p][l].base_page_no + ChunkPages <= s.base_page_no
        /\ HasRegion(s.node_no, p, s.base_page_no)

\* The regions a node has of a pool are in the order of their pages.
RegionsRise(n) ==
  \A i, j \in DOMAIN remote_map[n] :
    i < j /\ remote_map[n][i].mem_pool_no = remote_map[n][j].mem_pool_no
      => remote_map[n][i].remote_base + ChunkPages <= remote_map[n][j].remote_base

TablesInv ==
  /\ \A p \in Pools :
       /\ SharesHeld(p)
       /\ pool_allocated_pages[p] = ChunkPages * Len(shared_mem_table[p])
  /\ \A n \in Nodes : RegionsRise(n)

LEMMA OneMore ==
  ASSUME NEW c \in Nat, NEW k \in Nat
  PROVE  c * (k + 1) = c * k + c /\ c * k \in Nat /\ (k + 1) - 1 = k
OBVIOUS

LEMMA TimesZero == ASSUME NEW c \in Nat PROVE c * 0 = 0
OBVIOUS

\* Everything but the two halves of a grant leaves the tables alone and writes
\* no region.
LEMMA NoGrant ==
  ASSUME TypeOK, [Next]_vars,
         \A n \in Nodes : ~ GrantToNode(n) /\ ~ GrantFromPool(n)
  PROVE  /\ UNCHANGED <<remote_map, total_pages, remote_pages, poolVars>>
         /\ \A m \in Nodes : pc'[m] = "share" => pc[m] = "share"
<1> DEFINE Quiet == /\ UNCHANGED <<remote_map, total_pages, remote_pages, poolVars>>
                    /\ \A m \in Nodes : pc'[m] = "share" => pc[m] = "share"
<1>t. pc \in [Nodes -> PcStates]
  BY DEF TypeOK, ThreadTypeOK
<1>1. ASSUME NEW n \in Nodes, NEW to \in PcStates \ {"share"},
             pc' = [pc EXCEPT ![n] = to],
             UNCHANGED <<remote_map, total_pages, remote_pages, poolVars>>
      PROVE  Quiet
  BY <1>1, <1>t
<1>2. ASSUME NEW n \in Nodes, NEW v \in VPages, StartFault(n, v)
      PROVE  Quiet
  <2>1. PICK to \in {"select", "map"} : pc' = [pc EXCEPT ![n] = to]
    BY <1>2 DEF StartFault, Goto
  <2>2. UNCHANGED <<remote_map, total_pages, remote_pages, poolVars>>
    BY <1>2 DEF StartFault, spaceVars
  <2> HIDE DEF Quiet
  <2> QED
    BY <2>1, <2>2, <1>1 DEF PcStates
<1>3. ASSUME NEW n \in Nodes, Handle(n)
      PROVE  Quiet
  <2>1. CASE selectFrame /\ \E to \in PcStates \ {"share"} : pc' = [pc EXCEPT ![n] = to]
    <3>1. UNCHANGED <<remote_map, total_pages, remote_pages, poolVars>>
      BY <2>1 DEF selectFrame, spaceVars
    <3> HIDE DEF Quiet
    <3> QED
      BY <2>1, <3>1, <1>1
  <2>2. CASE SelectPool(n) \/ LoadForWrap(n) \/ StoreWrapped(n)
             \/ LoadForIncrement(n) \/ StoreIncremented(n) \/ ReturnPool(n)
    <3>1. selectFrame
      BY <2>2 DEF SelectPool, LoadForWrap, StoreWrapped, LoadForIncrement,
                  StoreIncremented, ReturnPool, LoadLast
    <3>2. \E to \in PcStates \ {"share"} : pc' = [pc EXCEPT ![n] = to]
      BY <2>2 DEF SelectPool, LoadForWrap, StoreWrapped, LoadForIncrement,
                  StoreIncremented, ReturnPool, LoadLast, Goto, PcStates
    <3> QED
      BY <2>1, <3>1, <3>2
  <2>3. CASE LockMem(n) \/ Refuse(n) \/ UnlockMem(n)
    <3>1. UNCHANGED <<remote_map, total_pages, remote_pages, poolVars>>
      BY <2>3 DEF LockMem, Refuse, UnlockMem, spaceVars
    <3>2. \E to \in PcStates \ {"share"} : pc' = [pc EXCEPT ![n] = to]
      BY <2>3 DEF LockMem, Refuse, UnlockMem, Goto, PcStates
    <3> HIDE DEF Quiet
    <3> QED
      BY <3>1, <3>2, <1>1
  <2>4. CASE RequestOutsidePools(n) \/ AllocateFromEmptyList(n)
    BY <2>4 DEF RequestOutsidePools, AllocateFromEmptyList, spaceVars
  <2>5. CASE allocate_remote_page(n) \/ allocate_local_page(n)
    <3>1. UNCHANGED <<remote_map, total_pages, remote_pages, poolVars>>
      BY <2>5 DEF allocate_remote_page, allocate_local_page, EnterPage
    <3>2. pc' = [pc EXCEPT ![n] = "idle"]
      BY <2>5 DEF allocate_remote_page, allocate_local_page, EnterPage, Goto
    <3> HIDE DEF Quiet
    <3> QED
      BY <3>1, <3>2, <1>1 DEF PcStates
  <2> QED
    BY <1>3, <2>2, <2>3, <2>4, <2>5 DEF Handle
<1>4. CASE UNCHANGED vars
  BY <1>4 DEF vars, spaceVars
<1> QED
  BY <1>2, <1>3, <1>4 DEF Next, Terminating

\* A step that enters no share keeps what the tables say if it keeps the regions.
LEMMA SharesKept ==
  ASSUME TypeOK, NEW p \in Pools, SharesHeld(p),
         shared_mem_table'[p] = shared_mem_table[p],
         pool_allocated_pages'[p] = pool_allocated_pages[p],
         \A n \in Nodes, base \in Nat : HasRegion(n, p, base) => HasRegion(n, p, base)'
  PROVE  SharesHeld(p)'
<1>1. ASSUME NEW k \in DOMAIN shared_mem_table[p], NEW s, s = shared_mem_table[p][k]
      PROVE  HasRegion(s.node_no, p, s.base_page_no)'
  <2>1. shared_mem_table[p] \in Seq(Share)
    BY DEF TypeOK, PoolTypeOK
  <2>2. s \in Share
    BY <1>1, <2>1
  <2>3. s.node_no \in Nodes /\ s.base_page_no \in Nat
    BY <2>2 DEF Share
  <2>4. HasRegion(s.node_no, p, s.base_page_no)
    BY <1>1 DEF SharesHeld
  <2> QED
    BY <2>3, <2>4
<1> QED
  BY <1>1 DEF SharesHeld, HasRegion, Pending

LEMMA TablesQuiet ==
  ASSUME TypeOK, TablesInv, UNCHANGED <<remote_map, poolVars>>,
         \A m \in Nodes : pc'[m] = "share" => pc[m] = "share"
  PROVE  TablesInv'
<1> USE DEF poolVars
<1>1. ASSUME NEW p \in Pools
      PROVE  SharesHeld(p)'
  <2>1. SharesHeld(p)
    BY DEF TablesInv
  <2>2. ASSUME NEW n \in Nodes, NEW base \in Nat, HasRegion(n, p, base)
        PROVE  HasRegion(n, p, base)'
    BY <2>2 DEF HasRegion, Pending
  <2> QED
    BY <2>1, <2>2, SharesKept
<1>2. ASSUME NEW n \in Nodes
      PROVE  RegionsRise(n)'
  BY DEF TablesInv, RegionsRise
<1> QED
  BY <1>1, <1>2 DEF TablesInv

\* The node's half of a grant: the new region begins where the pool's part that is
\* handed out ends, so behind all regions the node has of that pool.
LEMMA TablesGrantNode ==
  ASSUME TypeOK, IInv, TablesInv, NEW n \in Nodes, GrantToNode(n)
  PROVE  TablesInv'
<1> DEFINE p     == remote_pool[n]
           map   == remote_map[n]
           last  == Len(map) + 1
           fresh == [local_base  |-> total_pages[n],
                     remote_base |-> pool_allocated_pages[p],
                     region_size |-> ChunkPages,
                     mem_pool_no |-> p]
<1>t. /\ pc \in [Nodes -> PcStates]
      /\ remote_map \in [Nodes -> Seq(Region)]
      /\ shared_mem_table \in [Pools -> Seq(Share)]
  BY DEF TypeOK, ThreadTypeOK, SpaceTypeOK, PoolTypeOK
<1>a. /\ pc[n] = "request" /\ pc'[n] = "share"
      /\ \A m \in Nodes \ {n} : pc'[m] = pc[m]
      /\ p \in Pools
      /\ remote_map'[n] = Append(map, fresh)
      /\ \A m \in Nodes \ {n} : remote_map'[m] = remote_map[m]
      /\ UNCHANGED <<shared_mem_table, pool_allocated_pages>>
  BY <1>t DEF GrantToNode, Goto, poolVars
<1>b. /\ map \in Seq(Region) /\ Len(map) \in Nat
      /\ DOMAIN map = 1 .. Len(map)
      /\ DOMAIN remote_map'[n] = 1 .. last
      /\ Len(remote_map'[n]) = last
      /\ \A i \in DOMAIN map : remote_map'[n][i] = map[i]
      /\ remote_map'[n][last] = fresh
  <2>1. map \in Seq(Region) /\ Len(map) \in Nat
    BY <1>t
  <2>2. fresh \in Region
    BY <1>a, SizesAssumption DEF Region, TypeOK, SpaceTypeOK, PoolTypeOK
  <2> HIDE DEF map, fresh
  <2> QED
    BY <2>1, <2>2, <1>a, AppendProperties
<1> HIDE DEF map, fresh
<1>1. ASSUME NEW q \in Pools
      PROVE  SharesHeld(q)'
  <2>1. SharesHeld(q)
    BY DEF TablesInv
  <2>2. ASSUME NEW m \in Nodes, NEW base \in Nat, HasRegion(m, q, base)
        PROVE  HasRegion(m, q, base)'
    <3>1. PICK i \in DOMAIN remote_map[m] :
            /\ ~ Pending(m, i)
            /\ remote_map[m][i].mem_pool_no = q
            /\ remote_map[m][i].remote_base = base
      BY <2>2 DEF HasRegion
    <3>2. CASE m = n
      <4>1. i \in DOMAIN map /\ map[i] = remote_map[m][i]
        BY <3>1, <3>2 DEF map
      <4>2. i \in 1 .. last /\ i # last /\ remote_map'[n][i] = map[i]
        BY <4>1, <1>b
      <4>3. ~ Pending(m, i)'
        BY <3>2, <4>2, <1>b DEF Pending
      <4> QED
        BY <3>1, <3>2, <4>1, <4>2, <4>3, <1>b DEF HasRegion
    <3>3. CASE m # n
      <4>1. remote_map'[m] = remote_map[m] /\ pc'[m] = pc[m]
        BY <3>3, <1>a
      <4>2. ~ Pending(m, i)'
        BY <3>1, <4>1 DEF Pending
      <4> QED
        BY <3>1, <4>1, <4>2 DEF HasRegion
    <3> QED
      BY <3>2, <3>3
  <2> QED
    BY <2>1, <2>2, <1>a, SharesKept
<1>2. ASSUME NEW m \in Nodes
      PROVE  RegionsRise(m)'
  <2>1. RegionsRise(m)
    BY DEF TablesInv
  <2>2. CASE m # n
    BY <2>1, <2>2, <1>a DEF RegionsRise
  <2>3. CASE m = n
    <3> SUFFICES ASSUME NEW i \in 1 .. last, NEW j \in 1 .. last, i < j,
                        remote_map'[n][i].mem_pool_no = remote_map'[n][j].mem_pool_no
                 PROVE  remote_map'[n][i].remote_base + ChunkPages
                          <= remote_map'[n][j].remote_base
      BY <2>3, <1>b DEF RegionsRise
    <3>1. i \in DOMAIN map /\ remote_map'[n][i] = map[i]
      BY <1>b
    <3>2. CASE j = last
      <4>1. RegionsGranted(n) /\ ~ Pending(n, i)
        BY <1>a DEF IInv, Pending
      <4>2. map[i].remote_base + ChunkPages <= pool_allocated_pages[map[i].mem_pool_no]
        BY <3>1, <4>1 DEF RegionsGranted, map
      <4>3. map[i].mem_pool_no = p /\ remote_map'[n][j].remote_base = pool_allocated_pages[p]
        BY <3>1, <3>2, <1>b DEF fresh
      <4> QED
        BY <3>1, <4>2, <4>3
    <3>3. CASE j # last
      <4>1. j \in DOMAIN map /\ remote_map'[n][j] = map[j]
        BY <1>b, <3>3
      <4> QED
        BY <2>1, <2>3, <3>1, <4>1 DEF RegionsRise, map
    <3> QED
      BY <3>2, <3>3
  <2> QED
    BY <2>2, <2>3
<1> QED
  BY <1>1, <1>2, <1>a DEF TablesInv

\* The pool's half: the region it enters is the one the node has pending.
LEMMA TablesGrantPool ==
  ASSUME TypeOK, IInv, TablesInv, NEW n \in Nodes, GrantFromPool(n)
  PROVE  TablesInv'
<1>p. PICK p : p = remote_pool[n]
  OBVIOUS
<1> DEFINE share == [base_page_no |-> pool_allocated_pages[p],
                     limit        |-> ChunkPages,
                     node_no      |-> n]
           table == shared_mem_table[p]
           last  == Len(table) + 1
<1>t. /\ pc \in [Nodes -> PcStates]
      /\ remote_map \in [Nodes -> Seq(Region)]
      /\ shared_mem_table \in [Pools -> Seq(Share)]
      /\ pool_allocated_pages \in [Pools -> Nat]
      /\ ChunkPages \in Nat
  BY SizesAssumption DEF TypeOK, ThreadTypeOK, SpaceTypeOK, PoolTypeOK
<1>a. /\ pc[n] = "share" /\ pc' = [pc EXCEPT ![n] = "unlock"]
      /\ UNCHANGED remote_map
  BY DEF GrantFromPool, Goto, spaceVars
<1>b. p \in Pools /\ remote_map[n] # <<>>
  BY <1>a, <1>p DEF IInv, PoolBalance
<1>c. /\ shared_mem_table' = [shared_mem_table EXCEPT ![p] = Append(table, share)]
      /\ pool_allocated_pages' =
           [pool_allocated_pages EXCEPT ![p] = pool_allocated_pages[p] + ChunkPages]
  BY <1>p DEF GrantFromPool
<1>d. /\ \A q \in Pools \ {p} : /\ shared_mem_table'[q] = shared_mem_table[q]
                               /\ pool_allocated_pages'[q] = pool_allocated_pages[q]
      /\ shared_mem_table'[p] = Append(table, share)
      /\ pool_allocated_pages'[p] = pool_allocated_pages[p] + ChunkPages
  BY <1>t, <1>b, <1>c
<1>e. table \in Seq(Share) /\ Len(table) \in Nat /\ DOMAIN table = 1 .. Len(table)
  BY <1>t, <1>b
<1>f. share \in Share /\ pool_allocated_pages[p] \in Nat
  BY <1>t, <1>b DEF Share
<1>g. /\ DOMAIN shared_mem_table'[p] = 1 .. last
      /\ Len(shared_mem_table'[p]) = last
      /\ \A k \in 1 .. Len(table) : shared_mem_table'[p][k] = table[k]
      /\ shared_mem_table'[p][last] = share
  <2> HIDE DEF table, share
  <2> QED
    BY <1>d, <1>e, <1>f, AppendProperties
<1>h. \A q \in Pools : \A k \in DOMAIN shared_mem_table[q] :
        shared_mem_table[q][k].node_no \in Nodes
  <2>1. ASSUME NEW q \in Pools, NEW k \in DOMAIN shared_mem_table[q]
        PROVE  shared_mem_table[q][k] \in Share
    <3>1. shared_mem_table[q] \in Seq(Share)
      BY <1>t
    <3> QED
      BY <3>1
  <2> QED
    BY <2>1 DEF Share
<1>i. \A m \in Nodes : \A i : Pending(m, i)' => Pending(m, i)
  BY <1>a, <1>t DEF Pending
<1>j. /\ Len(remote_map[n]) \in DOMAIN remote_map[n]
      /\ Pending(n, Len(remote_map[n])) /\ ~ Pending(n, Len(remote_map[n]))'
      /\ remote_map[n][Len(remote_map[n])].mem_pool_no = p
      /\ remote_map[n][Len(remote_map[n])].remote_base = pool_allocated_pages[p]
  <2>1. remote_map[n] \in Seq(Region)
    BY <1>t
  <2>2. Len(remote_map[n]) \in DOMAIN remote_map[n]
    BY <2>1, <1>b
  <2>3. Pending(n, Len(remote_map[n])) /\ ~ Pending(n, Len(remote_map[n]))'
    BY <1>a, <1>t DEF Pending
  <2>4. RegionsGranted(n)
    BY DEF IInv
  <2> QED
    BY <2>2, <2>3, <2>4, <1>p DEF RegionsGranted
<1> HIDE DEF table, share
<1>k. /\ pool_allocated_pages[p] = ChunkPages * Len(table)
      /\ pool_allocated_pages'[p] = ChunkPages * last
      /\ ChunkPages * (last - 1) = ChunkPages * Len(table)
  <2>1. pool_allocated_pages[p] = ChunkPages * Len(table)
    BY <1>b DEF TablesInv, table
  <2>2. ChunkPages * (Len(table) + 1) = ChunkPages * Len(table) + ChunkPages
        /\ (Len(table) + 1) - 1 = Len(table)
    BY <1>e, <1>t, OneMore, Zenon
  <2> QED
    BY <2>1, <2>2, <1>d
<1>m. ASSUME NEW m \in Nodes, NEW q, NEW base, HasRegion(m, q, base)
      PROVE  HasRegion(m, q, base)'
  BY <1>m, <1>a, <1>i DEF HasRegion
<1>1. ASSUME NEW q \in Pools
      PROVE  SharesHeld(q)'
  <2>1. SharesHeld(q)
    BY DEF TablesInv
  <2>2. CASE q # p
    <3>1. shared_mem_table'[q] = shared_mem_table[q]
          /\ pool_allocated_pages'[q] = pool_allocated_pages[q]
      BY <1>d, <2>2
    <3> QED
      BY <2>1, <3>1, <1>m, SharesKept
  <2>3. CASE q = p
    <3> SUFFICES ASSUME NEW k \in 1 .. last, NEW s, s = shared_mem_table'[p][k]
                 PROVE  /\ s.limit = ChunkPages
                        /\ s.base_page_no = ChunkPages * (k - 1)
                        /\ s.base_page_no + ChunkPages <= pool_allocated_pages'[p]
                        /\ \A l \in 1 .. k - 1 :
                             shared_mem_table'[p][l].base_page_no + ChunkPages
                               <= s.base_page_no
                        /\ HasRegion(s.node_no, p, s.base_page_no)'
      BY <2>3, <1>g DEF SharesHeld, HasRegion, Pending
    <3>0. \A l \in 1 .. Len(table) :
            /\ table[l].limit = ChunkPages
            /\ table[l].base_page_no = ChunkPages * (l - 1)
            /\ table[l].base_page_no \in Nat
            /\ table[l].base_page_no + ChunkPages <= pool_allocated_pages[p]
            /\ \A h \in 1 .. l - 1 :
                 table[h].base_page_no + ChunkPages <= table[l].base_page_no
            /\ table[l].node_no \in Nodes
      <4>1. \A l \in 1 .. Len(table) : table[l].base_page_no \in Nat
        <5>1. \A l \in 1 .. Len(table) : table[l] \in Share
          BY <1>e
        <5> QED
          BY <5>1 DEF Share
      <4> QED
        BY <2>1, <2>3, <4>1, <1>e, <1>h DEF SharesHeld, table
    <3>1. CASE k = last
      <4>1. s = share /\ s.limit = ChunkPages
            /\ s.base_page_no = pool_allocated_pages[p] /\ s.node_no = n
        BY <1>g, <3>1 DEF share
      <4>2. s.base_page_no = ChunkPages * (k - 1)
        BY <4>1, <3>1, <1>k
      <4>3. \A l \in 1 .. k - 1 : shared_mem_table'[p][l].base_page_no + ChunkPages
                                    <= pool_allocated_pages[p]
        <5>1. \A l \in 1 .. k - 1 : l \in 1 .. Len(table)
          BY <3>1, <1>e
        <5> QED
          BY <5>1, <3>0, <1>g
      <4>4. pool_allocated_pages[p] + ChunkPages <= pool_allocated_pages'[p]
        BY <1>d, <1>f, <1>t
      <4>5. HasRegion(s.node_no, p, s.base_page_no)'
        BY <4>1, <1>j, <1>a DEF HasRegion
      <4> QED
        BY <4>1, <4>2, <4>3, <4>4, <4>5
    <3>2. CASE k # last
      <4>1. k \in 1 .. Len(table) /\ s = table[k]
        BY <3>2, <1>e, <1>g
      <4>2. \A l \in 1 .. k - 1 : l \in 1 .. Len(table) /\ shared_mem_table'[p][l] = table[l]
        BY <4>1, <1>e, <1>g
      <4>3. HasRegion(s.node_no, p, s.base_page_no)
        BY <4>1, <2>1, <2>3, <1>e DEF SharesHeld, table
      <4>4. HasRegion(s.node_no, p, s.base_page_no)'
        BY <4>3, <4>1, <3>0, <1>m
      <4>5. s.base_page_no + ChunkPages <= pool_allocated_pages'[p]
        <5>1. /\ s.base_page_no \in Nat /\ s.base_page_no + ChunkPages <= pool_allocated_pages[p]
          BY <3>0, <4>1
        <5>2. pool_allocated_pages'[p] = pool_allocated_pages[p] + ChunkPages
          BY <1>d
        <5>3. PICK b : b = s.base_page_no
          OBVIOUS
        <5>4. PICK a : a = pool_allocated_pages[p]
          OBVIOUS
        <5>5. b \in Nat /\ a \in Nat /\ ChunkPages \in Nat /\ b + ChunkPages <= a
          BY <5>1, <5>3, <5>4, <1>f, <1>t
        <5>6. b + ChunkPages <= a + ChunkPages
          BY ONLY <5>5
        <5> QED
          BY <5>6, <5>2, <5>3, <5>4
      <4>6. /\ s.limit = ChunkPages
            /\ s.base_page_no = ChunkPages * (k - 1)
            /\ \A l \in 1 .. k - 1 : table[l].base_page_no + ChunkPages <= s.base_page_no
        BY <3>0, <4>1
      <4> QED
        BY <4>2, <4>4, <4>5, <4>6
    <3> QED
      BY <3>1, <3>2
  <2> QED
    BY <2>2, <2>3
<1>2. ASSUME NEW q \in Pools
      PROVE  pool_allocated_pages'[q] = ChunkPages * Len(shared_mem_table'[q])
  BY <1>d, <1>g, <1>k DEF TablesInv
<1>3. ASSUME NEW m \in Nodes
      PROVE  RegionsRise(m)'
  BY <1>a DEF TablesInv, RegionsRise
<1> QED
  BY <1>1, <1>2, <1>3 DEF TablesInv

THEOREM TablesInvariance == Spec => []TablesInv
<1>1. Init => TablesInv
  <2> SUFFICES ASSUME Init
               PROVE  TablesInv
    OBVIOUS
  <2>1. \A p \in Pools : shared_mem_table[p] = <<>> /\ pool_allocated_pages[p] = 0
    BY DEF Init
  <2>2. \A n \in Nodes : remote_map[n] = <<>>
    BY DEF Init
  <2>3. ChunkPages * 0 = 0
    BY SizesAssumption, TimesZero
  <2> QED
    BY <2>1, <2>2, <2>3 DEF TablesInv, SharesHeld, RegionsRise
<1>2. TypeOK /\ IInv /\ TablesInv /\ [Next]_vars => TablesInv'
  <2> SUFFICES ASSUME TypeOK, IInv, TablesInv, [Next]_vars
               PROVE  TablesInv'
    OBVIOUS
  <2>1. CASE \A n \in Nodes : ~ GrantToNode(n) /\ ~ GrantFromPool(n)
    BY <2>1, NoGrant, TablesQuiet
  <2> QED
    BY <2>1, TablesGrantNode, TablesGrantPool
<1> QED
  BY <1>1, <1>2, TypeInvariant, InductiveInvariant, PTL DEF Spec

\* The tables of the nodes and of the pools hold the same regions in the same
\* order, whenever the node is not in the middle of entering one, and the pools'
\* counters agree with their tables, in whatever order the nodes get their chunks.
THEOREM TablesInAgreement == Spec => []TablesAgree
<1>1. TypeOK /\ IInv /\ TablesInv => TablesAgree
  <2> SUFFICES ASSUME TypeOK, IInv, TablesInv
               PROVE  TablesAgree
    OBVIOUS
  <2>c. ChunkPages \in Nat /\ ChunkPages > 0
    BY SizesAssumption
  <2>1. PoolAccounted
    BY DEF PoolAccounted, TablesInv, SharesHeld, IInv, PoolBalance
  <2>2. ASSUME NEW n \in Nodes, NEW p \in Pools, pc[n] # "share"
        PROVE  LET regions == {i \in DOMAIN remote_map[n] :
                                 remote_map[n][i].mem_pool_no = p}
                   shares  == {k \in DOMAIN shared_mem_table[p] :
                                 shared_mem_table[p][k].node_no = n}
               IN  /\ \A i \in regions : \E k \in shares : SameRegion(n, i, p, k)
                   /\ \A k \in shares : \E i \in regions : SameRegion(n, i, p, k)
                   /\ \A i, j \in regions, k, l \in shares :
                        SameRegion(n, i, p, k) /\ SameRegion(n, j, p, l)
                          => (i < j <=> k < l)
    <3> DEFINE regions == {i \in DOMAIN remote_map[n] : remote_map[n][i].mem_pool_no = p}
               shares  == {k \in DOMAIN shared_mem_table[p] :
                             shared_mem_table[p][k].node_no = n}
    <3>1. \A i \in DOMAIN remote_map[n] : ~ Pending(n, i)
      BY <2>2 DEF Pending
    <3>2. /\ RegionsGranted(n) /\ RegionsCover(n) /\ RegionsRise(n) /\ SharesHeld(p)
      BY DEF IInv, TablesInv
    <3>3. ASSUME NEW i \in regions
          PROVE  \E k \in shares : SameRegion(n, i, p, k)
      <4>1. PICK k \in DOMAIN shared_mem_table[p] :
              shared_mem_table[p][k] =
                [base_page_no |-> remote_map[n][i].remote_base, limit |-> ChunkPages,
                 node_no |-> n]
        BY <3>1, <3>2 DEF RegionsGranted
      <4>2. remote_map[n][i].region_size = ChunkPages
        BY <3>2 DEF RegionsCover
      <4> QED
        BY <4>1, <4>2 DEF SameRegion
    <3>4. ASSUME NEW k \in shares
          PROVE  \E i \in regions : SameRegion(n, i, p, k)
      <4>1. PICK i \in DOMAIN remote_map[n] :
              /\ remote_map[n][i].mem_pool_no = p
              /\ remote_map[n][i].remote_base = shared_mem_table[p][k].base_page_no
        BY <3>2 DEF SharesHeld, HasRegion
      <4>2. remote_map[n][i].region_size = ChunkPages
        BY <3>2 DEF RegionsCover
      <4>3. shared_mem_table[p][k].limit = ChunkPages
        BY <3>2 DEF SharesHeld
      <4> QED
        BY <4>1, <4>2, <4>3 DEF SameRegion
    <3>5. ASSUME NEW i \in regions, NEW j \in regions, NEW k \in shares, NEW l \in shares,
                 SameRegion(n, i, p, k), SameRegion(n, j, p, l)
          PROVE  i < j <=> k < l
      <4> DEFINE a == remote_map[n][i].remote_base
                 b == remote_map[n][j].remote_base
      <4>1. remote_map[n] \in Seq(Region) /\ shared_mem_table[p] \in Seq(Share)
        BY DEF TypeOK, SpaceTypeOK, PoolTypeOK
      <4>2. i \in Nat /\ j \in Nat /\ k \in Nat /\ l \in Nat /\ k > 0 /\ l > 0
        BY <4>1
      <4>3. remote_map[n][i] \in Region /\ remote_map[n][j] \in Region
        BY <4>1
      <4>4. a \in Nat /\ b \in Nat
        BY <4>3 DEF Region
      <4>5. a = shared_mem_table[p][k].base_page_no /\ b = shared_mem_table[p][l].base_page_no
        BY <3>5 DEF SameRegion
      <4>6. (i < j => a + ChunkPages <= b) /\ (j < i => b + ChunkPages <= a)
        BY <3>2 DEF RegionsRise
      <4>7. (k < l => a + ChunkPages <= b) /\ (l < k => b + ChunkPages <= a)
        <5>1. (k < l => k \in 1 .. l - 1) /\ (l < k => l \in 1 .. k - 1)
          BY <4>2
        <5> QED
          BY <5>1, <4>5, <3>2 DEF SharesHeld
      <4>8. (i = j => a = b) /\ (k = l => a = b)
        BY <4>5
      <4> HIDE DEF a, b
      <4> QED
        BY <4>2, <4>4, <4>6, <4>7, <4>8, <2>c
    <3> QED
      BY <3>3, <3>4, <3>5
  <2>3. RegionsAgree
    BY <2>2 DEF RegionsAgree
  <2> QED
    BY <2>1, <2>3 DEF TablesAgree
<1> QED
  BY <1>1, TypeInvariant, InductiveInvariant, TablesInvariance, PTL

-------------------------------------------------------------------------------
(***************************************************************************)
(* The counters.                                                           *)
(***************************************************************************)
Asking == {"select", "wrap", "wrap_store", "incr", "incr_store", "return", "lock",
           "request"}

\* The sides take turns; between the start and the end of a fault the page counter
\* is ahead of the page that is being placed.
Turns(n) ==
  free_local_page_list[n] # <<>> =>
    LET placed == IF pc[n] = "idle" THEN 0
                  ELSE IF page_local_remote[n] = "R" THEN 1 ELSE -1
    IN  (remote_allocated_pages[n] - local_allocated_pages[n]) + placed
          = page_counter[n] % 2

\* The counters of free pages; a chunk is asked for when no page is left of the
\* one before, so all free remote pages are in the newest region.
FreeCounted(n) ==
  /\ free_pages[n] = Len(free_local_page_list[n]) + Len(free_remote_page_list[n])
  /\ remote_pages[n] - remote_allocated_pages[n] = Len(free_remote_page_list[n])
  /\ pc[n] \in Asking => free_remote_page_list[n] = <<>>
  /\ \A i \in DOMAIN free_remote_page_list[n] :
       /\ remote_map[n] # <<>>
       /\ remote_map[n][Len(remote_map[n])].local_base <= free_remote_page_list[n][i]

RegionsIn(n, p) == {i \in DOMAIN remote_map[n] : remote_map[n][i].mem_pool_no = p}

PagesIn(n, p) ==
  {v \in Mapped(n) : /\ ~ is_local(page_table[n][v])
                     /\ find_remote_pool(n, page_table[n][v]) = p}

\* Every page of a region but the free ones of the newest is in use.
PagesCounted(n, p) ==
  /\ IsFiniteSet(PagesIn(n, p))
  /\ Cardinality(PagesIn(n, p)) =
       ChunkPages * Cardinality(RegionsIn(n, p))
         - (IF Len(remote_map[n]) \in RegionsIn(n, p)
            THEN Len(free_remote_page_list[n]) ELSE 0)

CountersInv ==
  \A n \in Nodes : /\ Turns(n)
                   /\ FreeCounted(n)
                   /\ \A p \in Pools : PagesCounted(n, p)

LEMMA NextTurn ==
  ASSUME NEW c \in Nat
  PROVE  c % 2 \in {0, 1} /\ (c + 1) % 2 = 1 - (c % 2)
OBVIOUS

\* The regions of a node, and those of a pool among them, are finitely many.
LEMMA RegionsFinite ==
  ASSUME NEW s \in Seq(Region), NEW p
  PROVE  /\ IsFiniteSet({i \in DOMAIN s : s[i].mem_pool_no = p})
         /\ Cardinality({i \in DOMAIN s : s[i].mem_pool_no = p}) \in Nat
<1>1. DOMAIN s = 1 .. Len(s) /\ Len(s) \in Nat
  OBVIOUS
<1>2. IsFiniteSet(1 .. Len(s))
  BY <1>1, FS_Interval
<1>3. {i \in DOMAIN s : s[i].mem_pool_no = p} \subseteq 1 .. Len(s)
  BY <1>1
<1>4. IsFiniteSet({i \in DOMAIN s : s[i].mem_pool_no = p})
  BY <1>2, <1>3, FS_Subset
<1> QED
  BY <1>4, FS_CardinalityType

\* Nothing a node counts is touched.
LEMMA NodeKept ==
  ASSUME NEW n \in Nodes, FreeCounted(n), \A p \in Pools : PagesCounted(n, p),
         UNCHANGED <<free_pages[n], free_local_page_list[n], free_remote_page_list[n],
                     remote_pages[n], remote_allocated_pages[n], remote_map[n],
                     page_table[n]>>,
         pc'[n] \in Asking => free_remote_page_list[n] = <<>>
  PROVE  FreeCounted(n)' /\ \A p \in Pools : PagesCounted(n, p)'
<1>1. FreeCounted(n)'
  BY DEF FreeCounted
<1>2. ASSUME NEW p \in Pools
      PROVE  PagesCounted(n, p)'
  <2>1. RegionsIn(n, p)' = RegionsIn(n, p)
    BY DEF RegionsIn
  <2>2. ASSUME NEW page
        PROVE  find_remote_pool(n, page)' = find_remote_pool(n, page)
    BY DEF find_remote_pool
  <2>3. PagesIn(n, p)' = PagesIn(n, p)
    BY <2>2 DEF PagesIn, Mapped, is_local, find_remote_pool
  <2> QED
    BY <2>1, <2>3 DEF PagesCounted
<1> QED
  BY <1>1, <1>2

LEMMA CountersQuiet ==
  ASSUME CountersInv, UNCHANGED <<spaceVars, page_table>>,
         \A n \in Nodes : Turns(n)' /\ (pc'[n] \in Asking => free_remote_page_list[n] = <<>>)
  PROVE  CountersInv'
<1>1. ASSUME NEW n \in Nodes
      PROVE  FreeCounted(n)' /\ \A p \in Pools : PagesCounted(n, p)'
  <2>1. FreeCounted(n) /\ \A p \in Pools : PagesCounted(n, p)
    BY DEF CountersInv
  <2>2. UNCHANGED <<free_pages[n], free_local_page_list[n], free_remote_page_list[n],
                    remote_pages[n], remote_allocated_pages[n], remote_map[n],
                    page_table[n]>>
    BY DEF spaceVars
  <2>3. pc'[n] \in Asking => free_remote_page_list[n] = <<>>
    OBVIOUS
  <2> QED
    BY <2>1, <2>2, <2>3, NodeKept
<1> QED
  BY <1>1 DEF CountersInv

LEMMA CountersStart ==
  ASSUME TypeOK, CountersInv, NEW n \in Nodes, NEW v \in VPages, StartFault(n, v)
  PROVE  CountersInv'
<1> DEFINE side == IF page_counter[n] % 2 # 0 /\ free_local_page_list[n] # <<>>
                   THEN "L" ELSE "R"
           c == page_counter[n]
           d == remote_allocated_pages[n] - local_allocated_pages[n]
<1>t. /\ pc \in [Nodes -> PcStates] /\ page_counter \in [Nodes -> Nat]
      /\ page_local_remote \in [Nodes -> {"L", "R"}]
      /\ d \in Int
  <2>1. /\ pc \in [Nodes -> PcStates] /\ page_counter \in [Nodes -> Nat]
        /\ page_local_remote \in [Nodes -> {"L", "R"}]
    BY DEF TypeOK, FaultTypeOK, ThreadTypeOK
  <2>2. remote_allocated_pages[n] \in Nat /\ local_allocated_pages[n] \in Nat
    BY DEF TypeOK, SpaceTypeOK
  <2> QED
    BY <2>1, <2>2
<1>1. /\ UNCHANGED <<spaceVars, page_table>>
      /\ pc[n] = "idle"
      /\ pc'[n] = IF side = "R" /\ free_remote_page_list[n] = <<>> THEN "select" ELSE "map"
      /\ page_counter'[n] = c + 1
      /\ page_local_remote'[n] = side
      /\ \A m \in Nodes \ {n} : /\ pc'[m] = pc[m] /\ page_counter'[m] = page_counter[m]
                               /\ page_local_remote'[m] = page_local_remote[m]
  BY <1>t DEF StartFault, Goto
<1>2. Turns(n)'
  <2>1. free_local_page_list[n] # <<>> => d + 0 = c % 2
    BY <1>1 DEF CountersInv, Turns
  <2>2. c % 2 \in {0, 1} /\ (c + 1) % 2 = 1 - (c % 2)
    BY <1>t, NextTurn
  <2>3. free_local_page_list[n] # <<>> =>
          d + (IF side = "R" THEN 1 ELSE -1) = (c + 1) % 2
    <3> SUFFICES ASSUME free_local_page_list[n] # <<>>
                 PROVE  d + (IF side = "R" THEN 1 ELSE -1) = (c + 1) % 2
      OBVIOUS
    <3>0. /\ d + 0 = c % 2
          /\ c % 2 = 0 => side = "R"
          /\ c % 2 = 1 => side = "L"
      BY <2>1
    <3>1. PICK e, x, y, s : e = d /\ x = c % 2 /\ y = (c + 1) % 2 /\ s = side
      OBVIOUS
    <3>2. /\ e \in Int /\ x \in {0, 1} /\ y = 1 - x /\ e + 0 = x
          /\ x = 0 => s = "R"
          /\ x = 1 => s = "L"
      <4> HIDE DEF side, d, c
      <4>1. e \in Int /\ e + 0 = x
        BY <1>t, <3>0, <3>1, Zenon
      <4>2. x \in {0, 1} /\ y = 1 - x
        <5>1. x \in {0, 1}
          BY <2>2, <3>1
        <5>2. x = c % 2 /\ y = (c + 1) % 2
          BY <3>1, Zenon
        <5>3. (c + 1) % 2 = 1 - (c % 2)
          BY <2>2, Zenon
        <5> QED
          BY <5>1, <5>2, <5>3, Zenon
      <4>3. (x = 0 => s = "R") /\ (x = 1 => s = "L")
        BY <3>0, <3>1, Zenon
      <4> QED
        BY <4>1, <4>2, <4>3
    <3>3. e + (IF s = "R" THEN 1 ELSE -1) = y
      BY ONLY <3>2
    <3> HIDE DEF side, d, c
    <3> QED
      BY <3>1, <3>3
  <2>4. pc'[n] # "idle"
    BY <1>1
  <2> HIDE DEF side, c
  <2> QED
    BY <2>3, <2>4, <1>1 DEF Turns, spaceVars
<1>3. ASSUME NEW m \in Nodes, m # n
      PROVE  Turns(m)' /\ (pc'[m] \in Asking => free_remote_page_list[m] = <<>>)
  BY <1>1, <1>3 DEF CountersInv, Turns, FreeCounted, spaceVars
<1>4. pc'[n] \in Asking => free_remote_page_list[n] = <<>>
  BY <1>1 DEF Asking
<1> QED
  BY <1>1, <1>2, <1>3, <1>4, CountersQuiet

\* A step within a fault that touches neither the lists nor the tables.
LEMMA CountersWithin ==
  ASSUME TypeOK, CountersInv, NEW n \in Nodes, NEW to \in PcStates,
         UNCHANGED <<spaceVars, page_table, page_counter, page_local_remote>>,
         pc' = [pc EXCEPT ![n] = to], pc[n] # "idle", to # "idle",
         to \in Asking => pc[n] \in Asking
  PROVE  CountersInv'
<1>1. /\ pc'[n] = to /\ \A m \in Nodes \ {n} : pc'[m] = pc[m]
  BY DEF TypeOK, ThreadTypeOK
<1>2. ASSUME NEW m \in Nodes
      PROVE  Turns(m)' /\ (pc'[m] \in Asking => free_remote_page_list[m] = <<>>)
  BY <1>1 DEF CountersInv, Turns, FreeCounted, spaceVars
<1> QED
  BY <1>2, CountersQuiet

\* A region appended to the node's table changes the pool of no page.
LEMMA PoolKept ==
  ASSUME TypeOK, IInv, TypeOK', IInv', NEW n \in Nodes, NEW page \in Nat,
         LocalPages <= page, page < total_pages[n], page < total_pages'[n],
         \A i \in DOMAIN remote_map[n] : /\ i \in DOMAIN remote_map'[n]
                                         /\ remote_map'[n][i] = remote_map[n][i]
  PROVE  find_remote_pool(n, page)' = find_remote_pool(n, page)
<1>1. PagesTranslated /\ PagesTranslated'
  <2>1. TypeOK /\ IInv => PagesTranslated
    BY Translated
  <2>2. TypeOK' /\ IInv' => PagesTranslated'
    BY Translated, PTL
  <2> QED
    BY <2>1, <2>2
<1>2. PICK f, g : f = Frame(n, page) /\ g = Frame(n, page)'
  OBVIOUS
<1>3. f = g
  BY <1>1, <1>2, FramesKept
<1>4. ~ is_local(page)
  BY SizesAssumption DEF is_local
<1>5. f.id = find_remote_pool(n, page)
  BY <1>2, <1>4 DEF Frame
<1>6. g.id = find_remote_pool(n, page)'
  BY <1>2, <1>4 DEF Frame, is_local
<1> QED
  BY <1>3, <1>5, <1>6

\* The chunk comes when no page of the one before is left.
LEMMA CountersGrant ==
  ASSUME TypeOK, IInv, TypeOK', IInv', CountersInv, NEW n \in Nodes, GrantToNode(n)
  PROVE  CountersInv'
<1> DEFINE p     == remote_pool[n]
           map   == remote_map[n]
           last  == Len(map) + 1
           fresh == [local_base  |-> total_pages[n],
                     remote_base |-> pool_allocated_pages[p],
                     region_size |-> ChunkPages,
                     mem_pool_no |-> p]
           chunk == [i \in 1 .. ChunkPages |-> total_pages[n] + (i - 1)]
<1>t. /\ pc \in [Nodes -> PcStates]
      /\ total_pages \in [Nodes -> Nat] /\ total_pages[n] \in Nat
      /\ free_pages \in [Nodes -> Int] /\ free_pages[n] \in Int
      /\ remote_pages \in [Nodes -> Nat] /\ remote_pages[n] \in Nat
      /\ remote_allocated_pages[n] \in Nat
      /\ remote_map \in [Nodes -> Seq(Region)]
      /\ free_remote_page_list \in [Nodes -> Seq(Nat)]
      /\ free_local_page_list[n] \in Seq(Nat)
      /\ page_table \in [Nodes -> [VPages -> Nat \cup {NoPage}]]
      /\ ChunkPages \in Nat /\ ChunkPages > 0
  <2>1. /\ total_pages \in [Nodes -> Nat] /\ free_pages \in [Nodes -> Int]
        /\ remote_pages \in [Nodes -> Nat] /\ remote_allocated_pages \in [Nodes -> Nat]
        /\ remote_map \in [Nodes -> Seq(Region)]
        /\ free_remote_page_list \in [Nodes -> Seq(Nat)]
        /\ free_local_page_list \in [Nodes -> Seq(Nat)]
    BY DEF TypeOK, SpaceTypeOK
  <2>2. /\ pc \in [Nodes -> PcStates]
        /\ page_table \in [Nodes -> [VPages -> Nat \cup {NoPage}]]
        /\ ChunkPages \in Nat /\ ChunkPages > 0
    BY SizesAssumption DEF TypeOK, ThreadTypeOK, FaultTypeOK
  <2> QED
    BY <2>1, <2>2
<1>a. /\ pc[n] = "request" /\ pc'[n] = "share"
      /\ \A m \in Nodes \ {n} : pc'[m] = pc[m]
      /\ p \in Pools
      /\ remote_map'[n] = Append(map, fresh)
      /\ total_pages'[n] = total_pages[n] + ChunkPages
      /\ free_pages'[n] = free_pages[n] + ChunkPages
      /\ remote_pages'[n] = remote_pages[n] + ChunkPages
      /\ \A m \in Nodes \ {n} :
           UNCHANGED <<remote_map[m], total_pages[m], free_pages[m], remote_pages[m],
                       free_remote_page_list[m]>>
      /\ UNCHANGED <<local_allocated_pages, remote_allocated_pages,
                     free_local_page_list, page_table, page_counter,
                     page_local_remote>>
  BY <1>t DEF GrantToNode, Goto, faultVars
<1>b. /\ map \in Seq(Region) /\ Len(map) \in Nat
      /\ DOMAIN map = 1 .. Len(map)
      /\ DOMAIN remote_map'[n] = 1 .. last
      /\ Len(remote_map'[n]) = last
      /\ \A i \in DOMAIN map : remote_map'[n][i] = map[i]
      /\ remote_map'[n][last] = fresh
      /\ remote_map'[n] # <<>>
  <2>1. map \in Seq(Region) /\ Len(map) \in Nat
    BY <1>t
  <2>2. fresh \in Region
    BY <1>a, SizesAssumption DEF Region, TypeOK, SpaceTypeOK, PoolTypeOK
  <2> HIDE DEF map, fresh
  <2> QED
    BY <2>1, <2>2, <1>a, AppendProperties
<1>c. free_remote_page_list[n] = <<>>
  BY <1>a DEF CountersInv, FreeCounted, Asking
<1>d. /\ free_remote_page_list'[n] = chunk
      /\ chunk \in Seq(Nat) /\ Len(chunk) = ChunkPages
      /\ \A i \in DOMAIN chunk : total_pages[n] <= chunk[i]
  <2>1. chunk \in [1 .. ChunkPages -> Nat]
    BY <1>t
  <2>2. chunk \in Seq(Nat)
    BY <2>1, <1>t, FunctionIsSeq
  <2>3. Len(chunk) = ChunkPages
    BY <2>1, <2>2, <1>t
  <2>4. free_remote_page_list'[n] = <<>> \o chunk
    BY <1>t, <1>c DEF GrantToNode
  <2>5. \A i \in DOMAIN chunk : total_pages[n] <= chunk[i]
    BY <1>t
  <2> HIDE DEF chunk
  <2>6. <<>> \o chunk = chunk
    BY <2>2
  <2> QED
    BY <2>2, <2>3, <2>4, <2>5, <2>6
<1>1. \A m \in Nodes : Turns(m)'
  BY <1>a DEF CountersInv, Turns
<1>2. ASSUME NEW m \in Nodes, m # n
      PROVE  FreeCounted(m)' /\ \A q \in Pools : PagesCounted(m, q)'
  <2>1. FreeCounted(m) /\ \A q \in Pools : PagesCounted(m, q)
    BY DEF CountersInv
  <2>2. UNCHANGED <<free_pages[m], free_local_page_list[m], free_remote_page_list[m],
                    remote_pages[m], remote_allocated_pages[m], remote_map[m],
                    page_table[m]>>
    BY <1>a, <1>2
  <2>3. pc'[m] \in Asking => free_remote_page_list[m] = <<>>
    BY <1>a, <1>2, <2>1 DEF FreeCounted
  <2> QED
    BY <2>1, <2>2, <2>3, NodeKept
<1> HIDE DEF map, fresh, chunk
<1>3. FreeCounted(n)'
  <2>1. /\ free_pages[n] = Len(free_local_page_list[n]) + Len(<<>>)
        /\ remote_pages[n] - remote_allocated_pages[n] = Len(<<>>)
    BY <1>c DEF CountersInv, FreeCounted
  <2>2. Len(free_local_page_list[n]) \in Nat /\ Len(<<>>) = 0
    BY <1>t
  <2>3. /\ free_pages'[n] = Len(free_local_page_list'[n]) + Len(free_remote_page_list'[n])
        /\ remote_pages'[n] - remote_allocated_pages'[n] = Len(free_remote_page_list'[n])
    <3>1. PICK f, r, a, ln :
            /\ f = free_pages[n] /\ r = remote_pages[n] /\ a = remote_allocated_pages[n]
            /\ ln = Len(free_local_page_list[n])
      OBVIOUS
    <3>2. f \in Int /\ r \in Int /\ a \in Int /\ ln \in Int /\ ChunkPages \in Int
      BY <3>1, <2>2, <1>t
    <3>3. f = ln + 0 /\ r - a = 0
      BY <3>1, <2>1, <2>2
    <3>4. f + ChunkPages = ln + ChunkPages /\ (r + ChunkPages) - a = ChunkPages
      BY ONLY <3>2, <3>3
    <3>5. /\ free_pages'[n] = f + ChunkPages /\ remote_pages'[n] = r + ChunkPages
          /\ remote_allocated_pages'[n] = a /\ free_local_page_list'[n] = free_local_page_list[n]
          /\ Len(free_remote_page_list'[n]) = ChunkPages
      BY <3>1, <1>a, <1>d, <1>t
    <3> QED
      BY <3>1, <3>4, <3>5
  <2>4. fresh.local_base = total_pages[n]
    BY DEF fresh
  <2> QED
    BY <2>3, <2>4, <1>a, <1>b, <1>d DEF FreeCounted, Asking
<1>4. ASSUME NEW q \in Pools
      PROVE  PagesCounted(n, q)'
  <2>1. /\ IsFiniteSet(PagesIn(n, q))
        /\ Cardinality(PagesIn(n, q)) = ChunkPages * Cardinality(RegionsIn(n, q))
             - (IF Len(map) \in RegionsIn(n, q) THEN Len(<<>>) ELSE 0)
    BY <1>c DEF CountersInv, PagesCounted, map
  <2>2. Len(<<>>) = 0
    OBVIOUS
  <2>3. /\ IsFiniteSet(RegionsIn(n, q)) /\ Cardinality(RegionsIn(n, q)) \in Nat
    BY <1>b, RegionsFinite DEF RegionsIn, map
  <2> DEFINE k == Cardinality(RegionsIn(n, q))
             whole == ChunkPages * k
  <2>4. whole \in Nat /\ ChunkPages * (k + 1) = whole + ChunkPages
    BY <2>3, <1>t, OneMore
  <2> HIDE DEF whole, k
  <2>5. Cardinality(PagesIn(n, q)) = whole
    BY <2>1, <2>2, <2>4 DEF whole, k
  <2>6. PagesIn(n, q)' = PagesIn(n, q)
    <3>1. ASSUME NEW v \in VPages, NEW page, page = page_table[n][v], page # NoPage,
                 ~ is_local(page)
          PROVE  find_remote_pool(n, page)' = find_remote_pool(n, page)
      <4>1. page \in Nat
        BY <3>1, <1>t
      <4>2. page < total_pages[n]
        BY <3>1 DEF IInv, PagesMappedOnce, Mapped
      <4>3. LocalPages <= page
        BY <3>1, <4>1, SizesAssumption DEF is_local
      <4>4. page < total_pages'[n]
        BY <4>1, <4>2, <1>a, <1>t
      <4>5. \A i \in DOMAIN remote_map[n] : /\ i \in DOMAIN remote_map'[n]
                                            /\ remote_map'[n][i] = remote_map[n][i]
        BY <1>b DEF map
      <4> QED
        BY <4>1, <4>2, <4>3, <4>4, <4>5, PoolKept
    <3>2. ASSUME NEW v \in VPages
          PROVE  v \in PagesIn(n, q)' <=> v \in PagesIn(n, q)
      <4>1. PICK page : page = page_table[n][v]
        OBVIOUS
      <4>2. page = page_table'[n][v]
        BY <4>1, <1>a
      <4>3. v \in PagesIn(n, q) <=> /\ page # NoPage /\ ~ is_local(page)
                                    /\ find_remote_pool(n, page) = q
        BY <4>1 DEF PagesIn, Mapped
      <4>4. v \in PagesIn(n, q)' <=> /\ page # NoPage /\ ~ is_local(page)
                                     /\ find_remote_pool(n, page)' = q
        BY <4>2 DEF PagesIn, Mapped, is_local, find_remote_pool
      <4> QED
        BY <3>1, <4>1, <4>3, <4>4
    <3>3. PagesIn(n, q) \subseteq VPages /\ PagesIn(n, q)' \subseteq VPages
      BY DEF PagesIn, Mapped
    <3> QED
      BY <3>2, <3>3
  <2>7. CASE q = p
    <3>1. RegionsIn(n, q)' = RegionsIn(n, q) \cup {last}
      <4>1. fresh.mem_pool_no = q
        BY <2>7 DEF fresh
      <4>2. /\ DOMAIN remote_map'[n] = 1 .. last
            /\ DOMAIN remote_map[n] = 1 .. last - 1
            /\ last \in Nat /\ 1 <= last
            /\ \A i \in 1 .. last - 1 : remote_map'[n][i] = remote_map[n][i]
            /\ remote_map'[n][last].mem_pool_no = q
        BY <4>1, <1>b DEF map
      <4>3. 1 .. last = (1 .. last - 1) \cup {last} /\ last \notin 1 .. last - 1
        BY <4>2
      <4> QED
        BY <4>2, <4>3 DEF RegionsIn
    <3>2. last \notin RegionsIn(n, q)
      BY <1>b DEF RegionsIn, map
    <3>3. Cardinality(RegionsIn(n, q) \cup {last}) = k + 1
      BY <2>3, <3>2, FS_AddElement DEF k
    <3>4. Len(remote_map'[n]) \in RegionsIn(n, q)'
      BY <3>1, <1>b
    <3>5. whole = ChunkPages * (k + 1) - ChunkPages
      BY <2>4, <1>t
    <3> QED
      BY <2>1, <2>5, <2>6, <3>1, <3>3, <3>4, <3>5, <1>d DEF PagesCounted
  <2>8. CASE q # p
    <3>1. RegionsIn(n, q)' = RegionsIn(n, q)
      <4>1. fresh.mem_pool_no # q
        BY <2>8 DEF fresh
      <4> QED
        BY <4>1, <1>b DEF RegionsIn, map
    <3>2. Len(remote_map'[n]) \notin RegionsIn(n, q)'
      BY <3>1, <1>b DEF RegionsIn, map
    <3>3. whole = ChunkPages * k - 0
      BY <2>4 DEF whole
    <3> QED
      BY <2>1, <2>5, <2>6, <3>1, <3>2, <3>3 DEF PagesCounted, k
  <2> QED
    BY <2>7, <2>8
<1> QED
  BY <1>1, <1>2, <1>3, <1>4 DEF CountersInv

\* What a mapped page changes: its node's entry for the page, and one page less
\* that is free.
LEMMA EnterFacts ==
  ASSUME TypeOK, IInv, NEW n \in Nodes, NEW page, EnterPage(n, page)
  PROVE  /\ pc[n] = "map" /\ pc'[n] = "idle"
         /\ vpage[n] \in VPages /\ page_table[n][vpage[n]] = NoPage
         /\ page_table'[n] = [page_table[n] EXCEPT ![vpage[n]] = page]
         /\ free_pages'[n] = free_pages[n] - 1
         /\ UNCHANGED <<remote_map, remote_pages, page_counter, page_local_remote>>
         /\ \A m \in Nodes \ {n} :
              /\ pc'[m] = pc[m] /\ page_table'[m] = page_table[m]
              /\ free_pages'[m] = free_pages[m]
<1>t. /\ pc \in [Nodes -> PcStates] /\ free_pages \in [Nodes -> Int]
      /\ page_table \in [Nodes -> [VPages -> Nat \cup {NoPage}]]
  BY DEF TypeOK, ThreadTypeOK, SpaceTypeOK, FaultTypeOK
<1>1. pc[n] = "map"
  BY DEF EnterPage, Goto
<1>2. vpage[n] \in VPages /\ page_table[n][vpage[n]] = NoPage
  BY <1>1 DEF IInv, PagesMappedOnce
<1> QED
  BY <1>t, <1>1, <1>2 DEF EnterPage, Goto

\* The pages in use of a pool after a page of the node's is mapped.
LEMMA PagesWith ==
  ASSUME TypeOK, IInv, NEW n \in Nodes, NEW page \in Nat, EnterPage(n, page),
         NEW q, NEW v, v = vpage[n]
  PROVE  /\ v \notin PagesIn(n, q)
         /\ PagesIn(n, q)' = PagesIn(n, q)
              \cup IF ~ is_local(page) /\ find_remote_pool(n, page) = q THEN {v} ELSE {}
<1>1. /\ v \in VPages /\ page_table[n][v] = NoPage
      /\ page_table'[n] = [page_table[n] EXCEPT ![v] = page]
      /\ UNCHANGED remote_map
  BY EnterFacts
<1>2. page_table[n] \in [VPages -> Nat \cup {NoPage}]
  BY DEF TypeOK, FaultTypeOK
<1>3. v \notin PagesIn(n, q)
  BY <1>1 DEF PagesIn, Mapped
<1>4. ASSUME NEW x
      PROVE  find_remote_pool(n, x)' = find_remote_pool(n, x)
  BY <1>1 DEF find_remote_pool
<1>5. ASSUME NEW w \in VPages
      PROVE  w \in PagesIn(n, q)' <=>
               w \in PagesIn(n, q)
                       \cup IF ~ is_local(page) /\ find_remote_pool(n, page) = q
                            THEN {v} ELSE {}
  <2>1. PICK x : x = page_table'[n][w]
    OBVIOUS
  <2>2. w \in PagesIn(n, q)' <=> /\ x # NoPage /\ ~ is_local(x)
                                 /\ find_remote_pool(n, x) = q
    <3>1. w \in PagesIn(n, q)' <=> /\ x # NoPage /\ ~ is_local(x)
                                   /\ find_remote_pool(n, x)' = q
      BY <2>1 DEF PagesIn, Mapped, is_local, find_remote_pool
    <3> QED
      BY <3>1, <1>4
  <2>3. CASE w = v
    <3>1. x = page /\ page # NoPage
      BY <2>1, <2>3, <1>1, <1>2 DEF NoPage
    <3> QED
      BY <2>2, <2>3, <3>1, <1>3
  <2>4. CASE w # v
    <3>1. x = page_table[n][w]
      BY <2>1, <2>4, <1>1, <1>2
    <3>2. w \in PagesIn(n, q) <=> /\ x # NoPage /\ ~ is_local(x)
                                  /\ find_remote_pool(n, x) = q
      BY <3>1 DEF PagesIn, Mapped
    <3> QED
      BY <2>2, <2>4, <3>2
  <2> QED
    BY <2>3, <2>4
<1>6. PagesIn(n, q) \subseteq VPages /\ PagesIn(n, q)' \subseteq VPages
  BY DEF PagesIn, Mapped
<1>7. PagesIn(n, q)' = PagesIn(n, q)
        \cup IF ~ is_local(page) /\ find_remote_pool(n, page) = q THEN {v} ELSE {}
  BY <1>1, <1>5, <1>6
<1> QED
  BY <1>3, <1>7

\* A free page at or behind the beginning of the newest region is of its pool.
LEMMA NewestPool ==
  ASSUME TypeOK, IInv, NEW n \in Nodes, NEW page \in Nat, remote_map[n] # <<>>,
         remote_map[n][Len(remote_map[n])].local_base <= page,
         LocalPages <= page, page < total_pages[n]
  PROVE  find_remote_pool(n, page) = remote_map[n][Len(remote_map[n])].mem_pool_no
<1> DEFINE last == Len(remote_map[n])
<1>1. PICK i \in DOMAIN remote_map[n] :
        /\ remote_map[n][i] \in Region
        /\ remote_map[n][i].local_base <= page
        /\ page < remote_map[n][i].local_base + ChunkPages
        /\ find_remote_pool(n, page) = remote_map[n][i].mem_pool_no
  BY RegionOfPage
<1>2. remote_map[n] \in Seq(Region)
  BY DEF TypeOK, SpaceTypeOK
<1>3. last \in Nat /\ i \in 1 .. last /\ last \in DOMAIN remote_map[n]
  BY <1>2
<1>4. remote_map[n][last] \in Region
  BY <1>2, <1>3
<1>5. CASE i # last
  <2>1. i \in 1 .. last - 1
    BY <1>3, <1>5
  <2>2. remote_map[n][i].local_base + ChunkPages <= remote_map[n][last].local_base
    BY <2>1, <1>3 DEF IInv, RegionsCover
  <2> DEFINE a == remote_map[n][i].local_base
             b == remote_map[n][last].local_base
  <2>3. a \in Nat /\ b \in Nat /\ ChunkPages \in Nat
    BY <1>1, <1>4, SizesAssumption DEF Region
  <2>4. a + ChunkPages <= b /\ b <= page /\ page < a + ChunkPages
    BY <2>2, <1>1
  <2> HIDE DEF a, b
  <2> QED
    BY <2>3, <2>4
<1> QED
  BY <1>1, <1>5

LEMMA CountersRemote ==
  ASSUME TypeOK, IInv, CountersInv, NEW n \in Nodes, allocate_remote_page(n)
  PROVE  CountersInv'
<1>1. PICK page, v, list :
        page = Head(free_remote_page_list[n]) /\ v = vpage[n]
          /\ list = free_remote_page_list[n]
  OBVIOUS
<1>t. /\ list \in Seq(Nat) /\ list # <<>> /\ Len(list) \in Nat
      /\ free_remote_page_list \in [Nodes -> Seq(Nat)]
      /\ remote_allocated_pages \in [Nodes -> Nat]
      /\ free_pages[n] \in Int /\ remote_pages[n] \in Nat
      /\ free_local_page_list[n] \in Seq(Nat)
  BY <1>1 DEF TypeOK, SpaceTypeOK, allocate_remote_page
<1>u. remote_allocated_pages[n] \in Nat /\ local_allocated_pages[n] \in Nat
  BY <1>1 DEF TypeOK, SpaceTypeOK
<1>2. /\ EnterPage(n, page)
      /\ free_remote_page_list'[n] = Tail(list)
      /\ remote_allocated_pages'[n] = remote_allocated_pages[n] + 1
      /\ UNCHANGED <<free_local_page_list, local_allocated_pages>>
      /\ page_local_remote[n] = "R"
      /\ \A m \in Nodes \ {n} :
           UNCHANGED <<free_remote_page_list[m], remote_allocated_pages[m]>>
  BY <1>1, <1>t DEF allocate_remote_page
<1>3. /\ page \in Nat /\ page = list[1] /\ 1 \in DOMAIN list
      /\ Len(Tail(list)) = Len(list) - 1
      /\ \A i \in DOMAIN Tail(list) : i + 1 \in DOMAIN list /\ Tail(list)[i] = list[i + 1]
  BY <1>1, <1>t
<1>4. /\ pc[n] = "map" /\ pc'[n] = "idle"
      /\ free_pages'[n] = free_pages[n] - 1
      /\ UNCHANGED <<remote_map, remote_pages, page_counter, page_local_remote>>
      /\ \A m \in Nodes \ {n} :
           /\ pc'[m] = pc[m] /\ page_table'[m] = page_table[m]
           /\ free_pages'[m] = free_pages[m]
  BY <1>2, EnterFacts
<1>5. ASSUME NEW m \in Nodes, m # n
      PROVE  Turns(m)' /\ FreeCounted(m)' /\ \A q \in Pools : PagesCounted(m, q)'
  <2>1. Turns(m) /\ FreeCounted(m) /\ \A q \in Pools : PagesCounted(m, q)
    BY DEF CountersInv
  <2>2. UNCHANGED <<free_pages[m], free_local_page_list[m], free_remote_page_list[m],
                    remote_pages[m], remote_allocated_pages[m], remote_map[m],
                    page_table[m]>>
    BY <1>2, <1>4, <1>5
  <2>3. pc'[m] \in Asking => free_remote_page_list[m] = <<>>
    BY <1>4, <1>5, <2>1 DEF FreeCounted
  <2>4. Turns(m)'
    BY <2>1, <2>2, <1>2, <1>4, <1>5 DEF Turns
  <2> QED
    BY <2>1, <2>2, <2>3, <2>4, NodeKept
<1>6. Turns(n)'
  <2>1. free_local_page_list[n] # <<>> =>
          (remote_allocated_pages[n] - local_allocated_pages[n]) + 1 = page_counter[n] % 2
    BY <1>2, <1>4 DEF CountersInv, Turns
  <2>2. (remote_allocated_pages'[n] - local_allocated_pages[n]) + 0
          = (remote_allocated_pages[n] - local_allocated_pages[n]) + 1
    BY <1>2, <1>u
  <2> QED
    BY <2>1, <2>2, <1>2, <1>4 DEF Turns
<1>7. FreeCounted(n)
  BY DEF CountersInv
<1>8. FreeCounted(n)'
  <2>1. /\ free_pages[n] = Len(free_local_page_list[n]) + Len(list)
        /\ remote_pages[n] - remote_allocated_pages[n] = Len(list)
    BY <1>1, <1>7 DEF FreeCounted
  <2>2. Len(free_local_page_list[n]) \in Nat
    BY <1>t
  <2>3. /\ free_pages'[n] = Len(free_local_page_list'[n]) + Len(free_remote_page_list'[n])
        /\ remote_pages'[n] - remote_allocated_pages'[n] = Len(free_remote_page_list'[n])
    <3>1. PICK f, r, a, ln, lr :
            /\ f = free_pages[n] /\ r = remote_pages[n] /\ a = remote_allocated_pages[n]
            /\ ln = Len(free_local_page_list[n]) /\ lr = Len(list)
      OBVIOUS
    <3>2. /\ f \in Int /\ r \in Int /\ a \in Int /\ ln \in Int /\ lr \in Int
      BY <3>1, <2>2, <1>t, <1>u
    <3>3. f = ln + lr /\ r - a = lr
      BY <3>1, <2>1
    <3>4. f - 1 = ln + (lr - 1) /\ r - (a + 1) = lr - 1
      BY ONLY <3>2, <3>3
    <3>5. Len(free_remote_page_list'[n]) = lr - 1
      <4>1. Len(Tail(list)) = Len(list) - 1
        BY <1>t
      <4> QED
        BY <4>1, <1>2, <3>1
    <3>6. /\ free_pages'[n] = f - 1 /\ remote_allocated_pages'[n] = a + 1
          /\ free_local_page_list'[n] = free_local_page_list[n]
          /\ remote_pages'[n] = r
      BY <1>2, <1>4, <3>1
    <3> QED
      BY <3>1, <3>4, <3>5, <3>6
  <2>4. \A i \in DOMAIN Tail(list) :
          /\ remote_map[n] # <<>>
          /\ remote_map[n][Len(remote_map[n])].local_base <= Tail(list)[i]
    BY <1>1, <1>3, <1>7 DEF FreeCounted
  <2> QED
    BY <2>3, <2>4, <1>2, <1>4 DEF FreeCounted, Asking
<1>9. /\ ~ is_local(page) /\ remote_map[n] # <<>>
      /\ find_remote_pool(n, page) = remote_map[n][Len(remote_map[n])].mem_pool_no
  <2>1. /\ remote_map[n] # <<>>
        /\ remote_map[n][Len(remote_map[n])].local_base <= page
    BY <1>1, <1>3, <1>7 DEF FreeCounted
  <2>2. LocalPages <= page /\ page < total_pages[n]
    BY <1>1, <1>3 DEF IInv, FreeListsSorted
  <2>3. ~ is_local(page)
    BY <2>2, <1>3, SizesAssumption DEF is_local
  <2> QED
    BY <2>1, <2>2, <2>3, <1>3, NewestPool
<1>10. ASSUME NEW q \in Pools
       PROVE  PagesCounted(n, q)'
  <2>1. /\ IsFiniteSet(PagesIn(n, q))
        /\ Cardinality(PagesIn(n, q)) = ChunkPages * Cardinality(RegionsIn(n, q))
             - (IF Len(remote_map[n]) \in RegionsIn(n, q) THEN Len(list) ELSE 0)
    BY <1>1 DEF CountersInv, PagesCounted
  <2> DEFINE whole == ChunkPages * Cardinality(RegionsIn(n, q))
             newest == Len(remote_map[n]) \in RegionsIn(n, q)
  <2>2. RegionsIn(n, q)' = RegionsIn(n, q) /\ Len(remote_map'[n]) = Len(remote_map[n])
    BY <1>4 DEF RegionsIn
  <2>3. newest <=> find_remote_pool(n, page) = q
    <3>1. Len(remote_map[n]) \in DOMAIN remote_map[n]
      <4>1. remote_map[n] \in Seq(Region)
        BY DEF TypeOK, SpaceTypeOK
      <4> QED
        BY <4>1, <1>9
    <3> QED
      BY <3>1, <1>9 DEF RegionsIn
  <2>4. /\ v \notin PagesIn(n, q)
        /\ PagesIn(n, q)' = PagesIn(n, q) \cup (IF newest THEN {v} ELSE {})
    <3>1. /\ v \notin PagesIn(n, q)
          /\ PagesIn(n, q)' = PagesIn(n, q)
               \cup IF ~ is_local(page) /\ find_remote_pool(n, page) = q THEN {v} ELSE {}
      BY <1>1, <1>2, <1>3, PagesWith
    <3> HIDE DEF newest
    <3> QED
      BY <3>1, <2>3, <1>9
  <2>5. whole \in Nat
    <3>1. remote_map[n] \in Seq(Region) /\ ChunkPages \in Nat
      BY SizesAssumption DEF TypeOK, SpaceTypeOK
    <3>2. Cardinality(RegionsIn(n, q)) \in Nat
      BY <3>1, RegionsFinite DEF RegionsIn
    <3> QED
      BY <3>1, <3>2, OneMore
  <2> HIDE DEF whole, newest
  <2>6. CASE newest
    <3>1. Cardinality(PagesIn(n, q)) = whole - Len(list)
      BY <2>1, <2>6 DEF whole, newest
    <3>2. PagesIn(n, q)' = PagesIn(n, q) \cup {v}
      BY <2>4, <2>6
    <3>3. /\ IsFiniteSet(PagesIn(n, q) \cup {v})
          /\ Cardinality(PagesIn(n, q) \cup {v}) = Cardinality(PagesIn(n, q)) + 1
      BY <2>1, <2>4, FS_AddElement
    <3>4. (whole - Len(list)) + 1 = whole - Len(Tail(list))
      BY <2>5, <1>3, <1>t
    <3>5. /\ IsFiniteSet(PagesIn(n, q)')
          /\ Cardinality(PagesIn(n, q)') = whole - Len(free_remote_page_list'[n])
      BY <3>1, <3>2, <3>3, <3>4, <1>2
    <3> QED
      BY <3>5, <2>2, <2>6 DEF PagesCounted, whole, newest
  <2>7. CASE ~ newest
    <3>1. PagesIn(n, q)' = PagesIn(n, q)
      BY <2>4, <2>7
    <3> QED
      BY <3>1, <2>1, <2>2, <2>7 DEF PagesCounted, newest
  <2> QED
    BY <2>6, <2>7
<1> QED
  BY <1>5, <1>6, <1>8, <1>10 DEF CountersInv

LEMMA CountersLocal ==
  ASSUME TypeOK, IInv, CountersInv, NEW n \in Nodes, allocate_local_page(n)
  PROVE  CountersInv'
<1>1. PICK page, v, list :
        page = Head(free_local_page_list[n]) /\ v = vpage[n]
          /\ list = free_local_page_list[n]
  OBVIOUS
<1>t. /\ list \in Seq(Nat) /\ list # <<>> /\ Len(list) \in Nat
      /\ free_local_page_list \in [Nodes -> Seq(Nat)]
      /\ local_allocated_pages \in [Nodes -> Nat]
      /\ free_pages[n] \in Int
      /\ free_remote_page_list[n] \in Seq(Nat)
  <2>1. /\ free_local_page_list \in [Nodes -> Seq(Nat)]
        /\ local_allocated_pages \in [Nodes -> Nat]
        /\ free_pages[n] \in Int
        /\ free_remote_page_list[n] \in Seq(Nat)
    BY DEF TypeOK, SpaceTypeOK
  <2>2. list \in Seq(Nat) /\ list # <<>>
    BY <1>1, <2>1 DEF allocate_local_page
  <2> QED
    BY <2>1, <2>2
<1>u. remote_allocated_pages[n] \in Nat /\ local_allocated_pages[n] \in Nat
  BY DEF TypeOK, SpaceTypeOK
<1>2. /\ EnterPage(n, page)
      /\ free_local_page_list'[n] = Tail(list)
      /\ local_allocated_pages'[n] = local_allocated_pages[n] + 1
      /\ UNCHANGED <<free_remote_page_list, remote_allocated_pages>>
      /\ page_local_remote[n] = "L"
      /\ \A m \in Nodes \ {n} :
           UNCHANGED <<free_local_page_list[m], local_allocated_pages[m]>>
  BY <1>1, <1>t DEF allocate_local_page
<1>3. /\ page \in Nat /\ page = list[1] /\ 1 \in DOMAIN list
      /\ Len(Tail(list)) = Len(list) - 1
  BY <1>1, <1>t
<1>4. /\ pc[n] = "map" /\ pc'[n] = "idle"
      /\ free_pages'[n] = free_pages[n] - 1
      /\ UNCHANGED <<remote_map, remote_pages, page_counter, page_local_remote>>
      /\ \A m \in Nodes \ {n} :
           /\ pc'[m] = pc[m] /\ page_table'[m] = page_table[m]
           /\ free_pages'[m] = free_pages[m]
  BY <1>2, EnterFacts
<1>5. ASSUME NEW m \in Nodes, m # n
      PROVE  Turns(m)' /\ FreeCounted(m)' /\ \A q \in Pools : PagesCounted(m, q)'
  <2>1. Turns(m) /\ FreeCounted(m) /\ \A q \in Pools : PagesCounted(m, q)
    BY DEF CountersInv
  <2>2. UNCHANGED <<free_pages[m], free_local_page_list[m], free_remote_page_list[m],
                    remote_pages[m], remote_allocated_pages[m], remote_map[m],
                    page_table[m]>>
    BY <1>2, <1>4, <1>5
  <2>3. pc'[m] \in Asking => free_remote_page_list[m] = <<>>
    BY <1>4, <1>5, <2>1 DEF FreeCounted
  <2>4. Turns(m)'
    BY <2>1, <2>2, <1>2, <1>4, <1>5 DEF Turns
  <2> QED
    BY <2>1, <2>2, <2>3, <2>4, NodeKept
<1>6. Turns(n)'
  <2>1. (remote_allocated_pages[n] - local_allocated_pages[n]) + (-1) = page_counter[n] % 2
    BY <1>1, <1>t, <1>2, <1>4 DEF CountersInv, Turns
  <2>2. (remote_allocated_pages[n] - local_allocated_pages'[n]) + 0
          = (remote_allocated_pages[n] - local_allocated_pages[n]) + (-1)
    BY <1>2, <1>u
  <2> QED
    BY <2>1, <2>2, <1>2, <1>4 DEF Turns
<1>7. FreeCounted(n)
  BY DEF CountersInv
<1>8. FreeCounted(n)'
  <2>1. free_pages[n] = Len(list) + Len(free_remote_page_list[n])
    BY <1>1, <1>7 DEF FreeCounted
  <2>2. Len(free_remote_page_list[n]) \in Nat
    BY <1>t
  <2>3. free_pages'[n] = Len(free_local_page_list'[n]) + Len(free_remote_page_list'[n])
    BY <2>1, <2>2, <1>2, <1>3, <1>4, <1>t
  <2> QED
    BY <2>3, <1>2, <1>4, <1>7 DEF FreeCounted, Asking
<1>9. is_local(page)
  BY <1>1, <1>3 DEF IInv, FreeListsSorted, is_local
<1>10. ASSUME NEW q \in Pools
       PROVE  PagesCounted(n, q)'
  <2>1. PagesCounted(n, q)
    BY DEF CountersInv
  <2>2. RegionsIn(n, q)' = RegionsIn(n, q)
    BY <1>4 DEF RegionsIn
  <2>3. PagesIn(n, q)' = PagesIn(n, q)
    <3>1. PagesIn(n, q)' = PagesIn(n, q)
            \cup IF ~ is_local(page) /\ find_remote_pool(n, page) = q THEN {v} ELSE {}
      BY <1>1, <1>2, <1>3, PagesWith
    <3> QED
      BY <3>1, <1>9
  <2> QED
    BY <2>1, <2>2, <2>3, <1>2, <1>4 DEF PagesCounted
<1> QED
  BY <1>5, <1>6, <1>8, <1>10 DEF CountersInv

LEMMA CountersStep ==
  ASSUME TypeOK, IInv, TypeOK', IInv', CountersInv, [Next]_vars
  PROVE  CountersInv'
<1>1. ASSUME NEW n \in Nodes, Handle(n)
      PROVE  CountersInv'
  <2>1. ASSUME selectFrame, pc[n] \in Asking, NEW to \in Asking,
               pc' = [pc EXCEPT ![n] = to]
        PROVE  CountersInv'
    <3>1. UNCHANGED <<spaceVars, page_table, page_counter, page_local_remote>>
      BY <2>1 DEF selectFrame, faultVars
    <3>2. to \in PcStates /\ to # "idle" /\ pc[n] # "idle"
      BY <2>1 DEF Asking, PcStates
    <3> QED
      BY <2>1, <3>1, <3>2, CountersWithin
  <2>2. CASE SelectPool(n) \/ LoadForWrap(n) \/ StoreWrapped(n)
             \/ LoadForIncrement(n) \/ StoreIncremented(n) \/ ReturnPool(n)
    <3>1. selectFrame
      BY <2>2 DEF SelectPool, LoadForWrap, StoreWrapped, LoadForIncrement,
                  StoreIncremented, ReturnPool, LoadLast
    <3>2. pc[n] \in Asking /\ \E to \in Asking : pc' = [pc EXCEPT ![n] = to]
      BY <2>2 DEF SelectPool, LoadForWrap, StoreWrapped, LoadForIncrement,
                  StoreIncremented, ReturnPool, LoadLast, Goto, Asking
    <3> QED
      BY <2>1, <3>1, <3>2
  <2>3. CASE LockMem(n) \/ Refuse(n) \/ GrantFromPool(n) \/ UnlockMem(n)
    <3>1. UNCHANGED <<spaceVars, page_table, page_counter, page_local_remote>>
      BY <2>3 DEF LockMem, Refuse, GrantFromPool, UnlockMem, faultVars
    <3>2. pc[n] # "idle" /\ \E to \in PcStates : /\ pc' = [pc EXCEPT ![n] = to]
                                                 /\ to # "idle"
                                                 /\ to \in Asking => pc[n] \in Asking
      BY <2>3 DEF LockMem, Refuse, GrantFromPool, UnlockMem, Goto, PcStates, Asking
    <3> QED
      BY <3>1, <3>2, CountersWithin
  <2>4. CASE RequestOutsidePools(n) \/ AllocateFromEmptyList(n)
    <3>1. UNCHANGED <<spaceVars, page_table, page_counter, page_local_remote, pc>>
      BY <2>4 DEF RequestOutsidePools, AllocateFromEmptyList, faultVars
    <3>2. \A m \in Nodes : Turns(m)' /\ (pc'[m] \in Asking => free_remote_page_list[m] = <<>>)
      BY <3>1 DEF CountersInv, Turns, FreeCounted, spaceVars
    <3> QED
      BY <3>1, <3>2, CountersQuiet
  <2> QED
    BY <1>1, <2>2, <2>3, <2>4, CountersGrant, CountersRemote, CountersLocal DEF Handle
<1>2. CASE UNCHANGED vars
  <2>1. UNCHANGED <<spaceVars, page_table, page_counter, page_local_remote, pc>>
    BY <1>2 DEF vars, faultVars
  <2>2. \A m \in Nodes : Turns(m)' /\ (pc'[m] \in Asking => free_remote_page_list[m] = <<>>)
    BY <2>1 DEF CountersInv, Turns, FreeCounted, spaceVars
  <2> QED
    BY <2>1, <2>2, CountersQuiet
<1> QED
  BY <1>1, <1>2, CountersStart DEF Next, Terminating

THEOREM CountersInvariance == Spec => []CountersInv
<1>1. Init => CountersInv
  <2> SUFFICES ASSUME Init, NEW n \in Nodes
               PROVE  Turns(n) /\ FreeCounted(n) /\ \A p \in Pools : PagesCounted(n, p)
    BY DEF CountersInv
  <2>1. /\ remote_map[n] = <<>> /\ free_remote_page_list[n] = <<>> /\ pc[n] = "idle"
        /\ remote_allocated_pages[n] = 0 /\ local_allocated_pages[n] = 0
        /\ page_counter[n] = 0 /\ remote_pages[n] = 0 /\ free_pages[n] = LocalPages
        /\ free_local_page_list[n] = [i \in 1 .. LocalPages |-> i - 1]
        /\ \A v \in VPages : page_table[n][v] = NoPage
    BY DEF Init
  <2>2. LocalPages \in Nat /\ ChunkPages \in Nat
    BY SizesAssumption
  <2>3. Turns(n)
    <3>1. 0 % 2 = 0 /\ (0 - 0) + 0 = 0
      OBVIOUS
    <3> QED
      BY <2>1, <3>1 DEF Turns
  <2>4. FreeCounted(n)
    <3>1. Len([i \in 1 .. LocalPages |-> i - 1]) = LocalPages /\ Len(<<>>) = 0
      <4>1. [i \in 1 .. LocalPages |-> i - 1] \in [1 .. LocalPages -> Nat]
        BY <2>2
      <4>2. [i \in 1 .. LocalPages |-> i - 1] \in Seq(Nat)
        BY <4>1, <2>2, FunctionIsSeq
      <4> QED
        BY <4>1, <4>2, <2>2
    <3> QED
      BY <2>1, <2>2, <3>1 DEF FreeCounted, Asking
  <2>5. ASSUME NEW p \in Pools
        PROVE  PagesCounted(n, p)
    <3>1. PagesIn(n, p) = {} /\ RegionsIn(n, p) = {}
      BY <2>1 DEF PagesIn, Mapped, RegionsIn
    <3>2. IsFiniteSet({}) /\ Cardinality({}) = 0
      BY FS_EmptySet
    <3>3. ChunkPages * 0 = 0 /\ 0 - 0 = 0
      BY <2>2, TimesZero
    <3> QED
      BY <3>1, <3>2, <3>3 DEF PagesCounted
  <2> QED
    BY <2>3, <2>4, <2>5
<1>2. TypeOK /\ IInv /\ TypeOK' /\ IInv' /\ CountersInv /\ [Next]_vars => CountersInv'
  BY CountersStep
<1> QED
  BY <1>1, <1>2, TypeInvariant, InductiveInvariant, PTL DEF Spec

\* The counters tell the truth, for every interleaving of the nodes: the free pages
\* of a node are those on its two lists, the pages in use of a pool that the
\* statistics report, whole chunks less what is left of the newest, are the pages
\* mapped into it, and the sides take turns while the node has local memory.
THEOREM CountersTrue == Spec => []CountersExact
<1>1. TypeOK /\ CountersInv => CountersExact
  <2> SUFFICES ASSUME TypeOK, CountersInv
               PROVE  CountersExact
    OBVIOUS
  <2>1. FreePagesAgree
    BY DEF CountersInv, FreeCounted, FreePagesAgree
  <2>2. PoolWiseCountExact
    <3> SUFFICES ASSUME NEW n \in Nodes, NEW p \in Pools
                 PROVE  pool_wise_page_count(n, p) = Cardinality(PagesIn(n, p))
      BY DEF PoolWiseCountExact, PagesIn
    <3>1. PagesCounted(n, p) /\ FreeCounted(n)
      BY DEF CountersInv
    <3> QED
      BY <3>1 DEF FreeCounted, PagesCounted, RegionsIn, pool_wise_page_count
  <2>3. AlternatePlacement
    <3> SUFFICES ASSUME NEW n \in Nodes, pc[n] = "idle", free_local_page_list[n] # <<>>
                 PROVE  remote_allocated_pages[n] - local_allocated_pages[n]
                          = page_counter[n] % 2
      BY DEF AlternatePlacement
    <3>1. (remote_allocated_pages[n] - local_allocated_pages[n]) + 0 = page_counter[n] % 2
      BY DEF CountersInv, Turns
    <3>2. remote_allocated_pages[n] \in Nat /\ local_allocated_pages[n] \in Nat
      BY DEF TypeOK, SpaceTypeOK
    <3> QED
      BY <3>1, <3>2
  <2> QED
    BY <2>1, <2>2, <2>3 DEF CountersExact
<1> QED
  BY <1>1, TypeInvariant, CountersInvariance, PTL
===============================================================================
