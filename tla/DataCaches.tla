------------------------------ MODULE DataCaches ------------------------------
(***************************************************************************)
(* The caches of a node of DRACKSim-Detailed and what is under way in them *)
(* (TLB_Cache.cpp): per core a data TLB, the L1 caches and the L2 cache,   *)
(* for the node the shared L3 cache, and behind each the buffer of its     *)
(* misses.  A load or store of a core goes through dtlb_search, may miss   *)
(* in every level, and is answered when its line is back in L1.            *)
(*                                                                         *)
(* A cycle goes through update_mshr and then through the searches of every *)
(* core, in their order; a step is one iteration of a loop, or a function  *)
(* whose iterations do not affect each other.  Loops that erase the entry  *)
(* they are at and then advance leave out the next one.  The clock is a    *)
(* countdown in every entry: Off when the time is not set (or used up), 0  *)
(* when it has come.                                                       *)
(*                                                                         *)
(* Open around the caches: when a core has a load, store or instruction    *)
(* for them, and when the memory answers (local memory, or a pool behind   *)
(* the interconnect).  Every cache is one set; an access stays in a line.  *)
(***************************************************************************)
EXTENDS CacheSets, FiniteSets, FiniteSetsExt, SequencesExt

CONSTANTS
  NumCores,
  Lines, Pages, PageOf,     \* lines, the pages they lie in
  Workloads,                \* [D: core -> loads and stores, I: core -> lines]
  mshr,
  L1_HIT, L2_HIT, L3_HIT,
  WalkCycles,               \* TLB_MISS, page_fault_latency, ...
  TlbWays, L1Ways, L2Ways, L3Ways

ASSUME CachesAssumption ==
  /\ NumCores \in Nat \ {0} /\ mshr \in Nat \ {0}
  /\ L1_HIT \in Nat \ {0} /\ L2_HIT \in Nat \ {0} /\ L3_HIT \in Nat \ {0}
  /\ WalkCycles \subseteq Nat \ {0}
  /\ TlbWays \in Nat \ {0} /\ L1Ways \in Nat \ {0}
  /\ L2Ways \in Nat \ {0} /\ L3Ways \in Nat \ {0}
  /\ NoTag \notin Lines /\ NoTag \notin Pages
  /\ PageOf \in [Lines -> Pages]
  /\ Workloads \subseteq
       [D : [0 .. NumCores - 1 -> Seq([line : Lines, write : BOOLEAN])],
        I : [0 .. NumCores - 1 -> Seq(Lines)]]

Cores == 0 .. NumCores - 1
Sources == {"I", "D"}
Off == -1

VARIABLES
  work,               \* what the cores ask for
  asked,              \* per core and source: how much of it has been taken
  dtlb, dtlb_miss_buffer, dtlb_to_dcache,
  l1s, l1_miss_buffer,      \* per core and source: il1s, dl1s; il1_, dl1_
  l2s, l2_miss_buffer,
  ul3, l3_miss_buffer,
  cache_source, core, \* whose turn it is: I or D of a core, a core of the node
  at_memory,          \* requests sent to memory and not answered (external)
  memory_completion_queue,
  answered,           \* per core: loads and stores answered, in order
  stage, at, pos,     \* where the cycle is: core, position in a loop
  served, flag        \* locals: core_mem_complete; acctype, ok

cacheVars == <<dtlb, dtlb_to_dcache, l1s, l2s, ul3>>
missVars  == <<dtlb_miss_buffer, l1_miss_buffer, l2_miss_buffer, l3_miss_buffer>>
turnVars  == <<cache_source, core>>
memVars   == <<at_memory, memory_completion_queue>>
askVars   == <<work, asked, answered>>
vars == <<cacheVars, missVars, turnVars, memVars, askVars,
          stage, at, pos, served, flag>>

Init ==
  /\ work \in Workloads
  /\ asked = [c \in Cores |-> [s \in Sources |-> 0]]
  /\ dtlb = [c \in Cores |-> EmptySet(TlbWays)]
  /\ dtlb_miss_buffer = [c \in Cores |-> <<>>]
  /\ dtlb_to_dcache = [c \in Cores |-> FALSE]
  /\ l1s = [c \in Cores |-> [s \in Sources |-> EmptySet(L1Ways)]]
  /\ l1_miss_buffer = [c \in Cores |-> [s \in Sources |-> <<>>]]
  /\ l2s = [c \in Cores |-> EmptySet(L2Ways)]
  /\ l2_miss_buffer = [c \in Cores |-> <<>>]
  /\ ul3 = EmptySet(L3Ways)
  /\ l3_miss_buffer = <<>>
  /\ cache_source = [c \in Cores |-> IF c = 0 THEN 1 ELSE 0]
  /\ core = 0
  /\ at_memory = {}
  /\ memory_completion_queue = <<>>
  /\ answered = [c \in Cores |-> <<>>]
  /\ stage = "start" /\ at = 0 /\ pos = 1 /\ served = {} /\ flag = FALSE

Goto(next) == stage' = next /\ at' = 0 /\ pos' = 1 /\ served' = {} /\ flag' = FALSE

\* The same stage of the next core, or after the last one another stage.
NextCore(same, following) ==
  IF at = NumCores - 1 THEN Goto(following)
  ELSE /\ stage' = same /\ at' = at + 1 /\ pos' = 1 /\ served' = {} /\ flag' = FALSE

\* Another stage of the same core.
SameCore(next) ==
  stage' = next /\ at' = at /\ pos' = 1 /\ served' = {} /\ flag' = FALSE

\* The first position of a buffer, from p on, that satisfies a test.
Due(buffer, p) == {i \in p .. Len(buffer) : buffer[i].done = 0}
Named(buffer, id) == {i \in DOMAIN buffer : buffer[i].id = id}

-------------------------------------------------------------------------------
\* The memory answers a request (mem_request_complete: memory_completion_queue).
MemoryReplies(t) ==
  /\ stage = "start"
  /\ t \in at_memory
  /\ at_memory' = at_memory \ {t}
  /\ memory_completion_queue' = Append(memory_completion_queue, t)
  /\ UNCHANGED <<cacheVars, missVars, turnVars, askVars,
                 stage, at, pos, served, flag>>

Begin ==
  /\ stage = "start"
  /\ Goto("memory")
  /\ UNCHANGED <<cacheVars, missVars, turnVars, memVars, askVars>>

\* memory_request_completed: one answer, unless the core of its miss has had
\* one in this cycle.  mem_trans_id stands for the miss that was sent.
Answers(t) ==
  {i \in DOMAIN l3_miss_buffer :
     /\ l3_miss_buffer[i].at3 = Off
     /\ t = <<l3_miss_buffer[i].core, l3_miss_buffer[i].src, l3_miss_buffer[i].id>>}

MemoryCompletes ==
  /\ stage = "memory" /\ pos <= Len(memory_completion_queue)
  /\ LET t == memory_completion_queue[pos]
         found == Answers(t)
     IN IF found = {} \/ t[1] \in served
        THEN UNCHANGED <<l3_miss_buffer, memory_completion_queue, served>>
        ELSE /\ l3_miss_buffer' = [l3_miss_buffer EXCEPT ![Min(found)].done = 0]
             /\ memory_completion_queue' = RemoveAt(memory_completion_queue, pos)
             /\ served' = served \union {t[1]}
  /\ pos' = pos + 1
  /\ UNCHANGED <<cacheVars, dtlb_miss_buffer, l1_miss_buffer, l2_miss_buffer,
                 turnVars, at_memory, askVars, stage, at, flag>>

EndMemory ==
  /\ stage = "memory" /\ pos > Len(memory_completion_queue)
  /\ Goto("caches")
  /\ UNCHANGED <<cacheVars, missVars, turnVars, memVars, askVars>>

\* update_caches: the misses that merged with a completed miss of L3 are woken
\* with the miss it was made for, in L2 and in L1, if that one is still there.
Merged(e) == {e.merged[k] : k \in DOMAIN e.merged}

CompletedL3 == {l3_miss_buffer[i] : i \in Due(l3_miss_buffer, 1)}

First(e) == <<e.core, e.src, e.id>>

\* L2 is searched by ins_id only, which I and D both use.
WokenL2 ==
  UNION {{First(e)} \union Merged(e) :
           e \in {f \in CompletedL3 : Named(l2_miss_buffer[f.core], f.id) # {}}}

\* A version that wakes only the miss the request was made for.
WokenL1First ==
  {First(e) : e \in {f \in CompletedL3 :
                       Named(l1_miss_buffer[f.core][f.src], f.id) # {}}}

WokenL1 ==
  UNION {{First(e)} \union Merged(e) :
           e \in {f \in CompletedL3 :
                    Named(l1_miss_buffer[f.core][f.src], f.id) # {}}}

update_caches ==
  /\ stage = "caches"
  /\ l2_miss_buffer' = [c \in Cores |->
       [i \in DOMAIN l2_miss_buffer[c] |->
          IF \E w \in WokenL2 : /\ w[1] = c
                                /\ Named(l2_miss_buffer[c], w[3]) # {}
                                /\ i = Min(Named(l2_miss_buffer[c], w[3]))
          THEN [l2_miss_buffer[c][i] EXCEPT !.done = 0]
          ELSE l2_miss_buffer[c][i]]]
  /\ l1_miss_buffer' = [c \in Cores |-> [s \in Sources |->
       [i \in DOMAIN l1_miss_buffer[c][s] |->
          IF <<c, s, l1_miss_buffer[c][s][i].id>> \in WokenL1
          THEN [l1_miss_buffer[c][s][i] EXCEPT !.done = 0]
          ELSE l1_miss_buffer[c][s][i]]]]
  /\ Goto("dtlb")
  /\ UNCHANGED <<cacheVars, dtlb_miss_buffer, l3_miss_buffer, turnVars, memVars,
                 askVars>>

-------------------------------------------------------------------------------
\* dcache_hit, in cache d: the load or store is answered L1_HIT cycles later
\* (response_queue), in the order of the hits.
DcacheHit(c, r) == Hit(l1s[c]["D"], r.line)

dcache_hit(c, r) ==
  /\ l1s' = [l1s EXCEPT ![c]["D"] = Access(@, r.line, r.write)]
  /\ answered' = [answered EXCEPT ![c] = Append(@, r.id)]
  /\ UNCHANGED l1_miss_buffer

\* dcache_miss: behind the miss to the same line, or a miss of its own.
SameLine(buffer, line) == {i \in DOMAIN buffer : buffer[i].line = line}

dcache_miss(c, r) ==
  /\ LET misses == l1_miss_buffer[c]["D"]
         same == SameLine(misses, r.line)
     IN l1_miss_buffer' = [l1_miss_buffer EXCEPT ![c]["D"] =
          IF same # {}
          THEN [misses EXCEPT ![Min(same)].dest = Append(@, r.id)]
          ELSE Append(@, [id |-> r.id, line |-> r.line, write |-> r.write,
                          at1 |-> L1_HIT, done |-> Off, dest |-> <<>>])]
  /\ UNCHANGED <<l1s, answered>>

\* A version without the limit of the buffer.
RoomAlways(c) == TRUE

RoomInL1(c) == Len(l1_miss_buffer[c]["D"]) < mshr

\* dtlb_mshr_update: the first walk that is over.  The translation enters the
\* TLB, again in every cycle in which L1 has no room for the miss.
WalksOver(c) ==
  {i \in DOMAIN dtlb_miss_buffer[c] : dtlb_miss_buffer[c][i].wait = 0}

dtlb_mshr_update ==
  /\ stage = "dtlb" /\ WalksOver(at) # {}
  /\ LET i == Min(WalksOver(at))
         r == dtlb_miss_buffer[at][i]
         leaves == DcacheHit(at, r) \/ RoomInL1(at)
     IN /\ dtlb' = [dtlb EXCEPT ![at] = Replace(@, PageOf[r.line])]
        /\ IF DcacheHit(at, r) THEN dcache_hit(at, r)
           ELSE IF RoomInL1(at) THEN dcache_miss(at, r)
           ELSE UNCHANGED <<l1s, l1_miss_buffer, answered>>
        /\ dtlb_miss_buffer' =
             IF leaves
             THEN [dtlb_miss_buffer EXCEPT ![at] = RemoveAt(@, i)]
             ELSE dtlb_miss_buffer
  /\ dtlb_to_dcache' = [dtlb_to_dcache EXCEPT ![at] = TRUE]
  /\ NextCore("dtlb", "llc")
  /\ UNCHANGED <<l2s, ul3, l2_miss_buffer, l3_miss_buffer, turnVars,
                 memVars, work, asked>>

NoWalkOver ==
  /\ stage = "dtlb" /\ WalksOver(at) = {}
  /\ NextCore("dtlb", "llc")
  /\ UNCHANGED <<cacheVars, missVars, turnVars, memVars, askVars>>

\* LLC_to_memory: send_to_memory of every miss of L3 whose time has come.
LLC_to_memory ==
  /\ stage = "llc"
  /\ LET sent == {i \in DOMAIN l3_miss_buffer : l3_miss_buffer[i].at3 = 0}
     IN /\ at_memory' = at_memory \union {First(l3_miss_buffer[i]) : i \in sent}
        /\ l3_miss_buffer' = [i \in DOMAIN l3_miss_buffer |->
             IF i \in sent THEN [l3_miss_buffer[i] EXCEPT !.at3 = Off]
             ELSE l3_miss_buffer[i]]
  /\ Goto("l3")
  /\ UNCHANGED <<cacheVars, dtlb_miss_buffer, l1_miss_buffer, l2_miss_buffer,
                 turnVars, memory_completion_queue, askVars>>

-------------------------------------------------------------------------------
\* update_l3_mshr: a completed miss leaves, its line enters L3; the loop then
\* leaves out the miss behind it.
NextAfterErase(i) == i + 1

RemoveFromL3 ==
  /\ stage = "l3" /\ Due(l3_miss_buffer, pos) # {}
  /\ LET i == Min(Due(l3_miss_buffer, pos))
         e == l3_miss_buffer[i]
         l3 == Access(ul3, e.line, e.write)
     IN /\ l3_miss_buffer' = RemoveAt(l3_miss_buffer, i)
        /\ ul3' = IF Hit(l3, e.line) THEN l3 ELSE Replace(l3, e.line)
        /\ pos' = NextAfterErase(i)
  /\ UNCHANGED <<dtlb, dtlb_to_dcache, l1s, l2s, dtlb_miss_buffer,
                 l1_miss_buffer, l2_miss_buffer, turnVars, memVars, askVars,
                 stage, at, served, flag>>

\* A version in which the turn does not go round.
TurnStays == core

\* The search for a miss of L2 starts at the core after the last one served.
NextTurn == (core + 1) % NumCores

EndL3 ==
  /\ stage = "l3" /\ Due(l3_miss_buffer, pos) = {}
  /\ core' = NextTurn
  /\ Goto("forward")
  /\ UNCHANGED <<cacheVars, missVars, cache_source, memVars, askVars>>

\* The misses of L2 whose time has come, in the core whose turn it is.
Waiting == {i \in DOMAIN l2_miss_buffer[core] : l2_miss_buffer[core][i].at2 = 0}

\* One that finds its line in L3 is answered, and the search goes on.
ForwardHit ==
  /\ stage = "forward" /\ Waiting # {}
  /\ LET i == Min(Waiting)
         e == l2_miss_buffer[core][i]
         mine == Named(l1_miss_buffer[core][e.src], e.id)
     IN /\ Hit(ul3, e.line)
        /\ ul3' = Access(ul3, e.line, e.write)
        /\ l2_miss_buffer' = [l2_miss_buffer EXCEPT
                                ![core][i].at2 = Off, ![core][i].done = L3_HIT]
        /\ l1_miss_buffer' =
             IF mine = {} THEN l1_miss_buffer
             ELSE [l1_miss_buffer EXCEPT ![core][e.src][Min(mine)].done = L3_HIT]
  /\ flag' = TRUE
  /\ UNCHANGED <<dtlb, dtlb_to_dcache, l1s, l2s, dtlb_miss_buffer,
                 l3_miss_buffer, turnVars, memVars, askVars,
                 stage, at, pos, served>>

\* One that misses merges with the miss of L3 to its line, or is a new one.
Forwarded(e) ==
  LET same == SameLine(l3_miss_buffer, e.line) IN
  IF same # {}
  THEN [l3_miss_buffer EXCEPT ![Min(same)].merged =
          Append(@, <<core, e.src, e.id>>)]
  ELSE Append(l3_miss_buffer,
              [core |-> core, src |-> e.src, id |-> e.id, line |-> e.line,
               write |-> e.write, at3 |-> L3_HIT, done |-> Off, merged |-> <<>>])

ForwardMiss ==
  /\ stage = "forward" /\ Waiting # {}
  /\ LET i == Min(Waiting)
         e == l2_miss_buffer[core][i]
     IN /\ ~ Hit(ul3, e.line)
        /\ l2_miss_buffer' = [l2_miss_buffer EXCEPT ![core][i].at2 = Off]
        /\ l3_miss_buffer' = Forwarded(e)
  /\ Goto("l2")
  /\ UNCHANGED <<cacheVars, dtlb_miss_buffer, l1_miss_buffer, turnVars, memVars,
                 askVars>>

\* No miss in this core, and none found yet: the next core, once round the node.
ForwardNextCore ==
  /\ stage = "forward" /\ Waiting = {} /\ ~ flag /\ pos < NumCores
  /\ core' = NextTurn
  /\ pos' = pos + 1
  /\ UNCHANGED <<cacheVars, missVars, cache_source, memVars, askVars,
                 stage, at, served, flag>>

EndForward ==
  /\ stage = "forward" /\ Waiting = {} /\ (flag \/ pos = NumCores)
  /\ Goto("l2")
  /\ UNCHANGED <<cacheVars, missVars, turnVars, memVars, askVars>>

-------------------------------------------------------------------------------
\* update_l2_mshr: one miss of each L1 cache goes to L2, I and D in turn; an
\* odd turn is D's.  The access type stays a store for I after a store of D.
Turn(c) == IF (cache_source[c] + 1) % 2 = 0 THEN "I" ELSE "D"

L1Waiting(c, s) ==
  {i \in DOMAIN l1_miss_buffer[c][s] : l1_miss_buffer[c][s][i].at1 = 0}

AccessL2 ==
  /\ stage = "l2" /\ pos <= 2
  /\ LET s == Turn(at)
         i == Min(L1Waiting(at, s))
         e == l1_miss_buffer[at][s][i]
         store == flag \/ (s = "D" /\ e.write)
     IN IF L1Waiting(at, s) = {}
        THEN UNCHANGED <<l1_miss_buffer, l2_miss_buffer, l2s, flag>>
        ELSE /\ flag' = store
             /\ l2s' = [l2s EXCEPT ![at] = Access(@, e.line, store)]
             /\ IF Hit(l2s[at], e.line)
                THEN /\ l1_miss_buffer' = [l1_miss_buffer EXCEPT ![at][s][i] =
                          [@ EXCEPT !.at1 = Off, !.done = L2_HIT]]
                     /\ UNCHANGED l2_miss_buffer
                ELSE /\ l1_miss_buffer' = [l1_miss_buffer EXCEPT
                          ![at][s][i].at1 = Off]
                     /\ l2_miss_buffer' = [l2_miss_buffer EXCEPT ![at] =
                          Append(@, [src |-> s, id |-> e.id, line |-> e.line,
                                     write |-> e.write, at2 |-> L2_HIT,
                                     done |-> Off])]
  /\ cache_source' = [cache_source EXCEPT ![at] = (@ + 1) % 2]
  /\ pos' = pos + 1
  /\ UNCHANGED <<dtlb, dtlb_to_dcache, l1s, ul3, dtlb_miss_buffer,
                 l3_miss_buffer, core, memVars, askVars, stage, at, served>>

EndAccessL2 ==
  /\ stage = "l2" /\ pos = 3
  /\ cache_source' = [cache_source EXCEPT ![at] = (@ + 1) % 2]
  /\ SameCore("l2 fill")
  /\ UNCHANGED <<cacheVars, missVars, core, memVars, askVars>>

\* The sets of L2 and L3 a line of core c may be written back to.
Hierarchy(c) == [l2 |-> l2s[c], l3 |-> ul3]

\* A completed miss leaves; the line of a load enters L2, which a store does
\* not allocate in, and the line it replaces is written back if modified.
FilledL2(c, e) ==
  LET l2 == Access(l2s[c], e.line, e.write)
      h == [Hierarchy(c) EXCEPT !.l2 = l2]
      filled == [h EXCEPT !.l2 = Replace(l2, e.line)]
  IN IF Hit(l2, e.line) \/ e.write THEN h
     ELSE IF VictimModified(l2) THEN WriteToL3(filled, Victim(l2), FALSE)
     ELSE filled

RemoveFromL2 ==
  /\ stage = "l2 fill" /\ Due(l2_miss_buffer[at], pos) # {}
  /\ LET i == Min(Due(l2_miss_buffer[at], pos))
         h == FilledL2(at, l2_miss_buffer[at][i])
     IN /\ l2_miss_buffer' = [l2_miss_buffer EXCEPT ![at] = RemoveAt(@, i)]
        /\ l2s' = [l2s EXCEPT ![at] = h.l2]
        /\ ul3' = h.l3
        /\ pos' = NextAfterErase(i)
  /\ UNCHANGED <<dtlb, dtlb_to_dcache, l1s, dtlb_miss_buffer, l1_miss_buffer,
                 l3_miss_buffer, turnVars, memVars, askVars,
                 stage, at, served, flag>>

EndL2 ==
  /\ stage = "l2 fill" /\ Due(l2_miss_buffer[at], pos) = {}
  /\ SameCore("icache")
  /\ UNCHANGED <<cacheVars, missVars, turnVars, memVars, askVars>>

\* update_icache_mshr: the oldest miss, if completed, enters the cache; it
\* leaves the buffer when its instruction can go to inst_queue, in order.
Iready(c) ==
  /\ l1_miss_buffer[c]["I"] # <<>>
  /\ Head(l1_miss_buffer[c]["I"]).done = 0

FillIcache ==
  /\ stage = "icache" /\ Iready(at)
  /\ l1s' = [l1s EXCEPT ![at]["I"] =
               Replace(@, Head(l1_miss_buffer[at]["I"]).line)]
  /\ \/ l1_miss_buffer' = [l1_miss_buffer EXCEPT ![at]["I"] = Tail(@)]
     \/ UNCHANGED l1_miss_buffer
  /\ SameCore("dcache")
  /\ UNCHANGED <<dtlb, dtlb_to_dcache, l2s, ul3, dtlb_miss_buffer,
                 l2_miss_buffer, l3_miss_buffer, turnVars, memVars, askVars>>

NoIcacheFill ==
  /\ stage = "icache" /\ ~ Iready(at)
  /\ SameCore("dcache")
  /\ UNCHANGED <<cacheVars, missVars, turnVars, memVars, askVars>>

\* update_dcache_mshr: the same as in L2; the loads and stores that wait for
\* the line are answered (broadcast_completed_LSQ).
FilledL1(c, e) ==
  LET d == Access(l1s[c]["D"], e.line, e.write) IN
  IF Hit(d, e.line) \/ e.write THEN [d |-> d, h |-> Hierarchy(c)]
  ELSE [d |-> Replace(d, e.line),
        h |-> IF VictimModified(d)
              THEN WriteToL2(Hierarchy(c), Victim(d), FALSE)
              ELSE Hierarchy(c)]

\* A version that does not answer what merged with the miss.
OwnAnswer(e) == <<e.id>>

AllAnswers(e) == Append(e.dest, e.id)

RemoveFromL1 ==
  /\ stage = "dcache" /\ Due(l1_miss_buffer[at]["D"], pos) # {}
  /\ LET i == Min(Due(l1_miss_buffer[at]["D"], pos))
         e == l1_miss_buffer[at]["D"][i]
         filled == FilledL1(at, e)
     IN /\ l1_miss_buffer' = [l1_miss_buffer EXCEPT ![at]["D"] = RemoveAt(@, i)]
        /\ l1s' = [l1s EXCEPT ![at]["D"] = filled.d]
        /\ l2s' = [l2s EXCEPT ![at] = filled.h.l2]
        /\ ul3' = filled.h.l3
        /\ answered' = [answered EXCEPT ![at] = @ \o AllAnswers(e)]
        /\ pos' = NextAfterErase(i)
  /\ UNCHANGED <<dtlb, dtlb_to_dcache, dtlb_miss_buffer, l2_miss_buffer,
                 l3_miss_buffer, turnVars, memVars, work, asked,
                 stage, at, served, flag>>

EndL1 ==
  /\ stage = "dcache" /\ Due(l1_miss_buffer[at]["D"], pos) = {}
  /\ NextCore("l2", "fetch")
  /\ UNCHANGED <<cacheVars, missVars, turnVars, memVars, askVars>>

-------------------------------------------------------------------------------
\* The instructions of a core, as the caches see them (itlb_search and
\* icache_search): a line that is neither in the cache nor asked for is a miss.
\* Instructions are numbered from 1, loads and stores from 0.
Ahead(c, s) == asked[c][s] < Len(work[s][c])
Taken(c, s) == asked' = [asked EXCEPT ![c][s] = @ + 1]

FetchInst ==
  /\ stage = "fetch" /\ Ahead(at, "I")
  /\ LET n == asked[at]["I"] + 1
         line == work["I"][at][n]
         misses == l1_miss_buffer[at]["I"]
     IN /\ Taken(at, "I")
        /\ IF Hit(l1s[at]["I"], line)
           THEN misses = <<>> /\ UNCHANGED l1_miss_buffer
           ELSE /\ Len(misses) < mshr
                /\ l1_miss_buffer' =
                     IF SameLine(misses, line) # {} THEN l1_miss_buffer
                     ELSE [l1_miss_buffer EXCEPT ![at]["I"] =
                             Append(@, [id |-> n, line |-> line, write |-> FALSE,
                                        at1 |-> L1_HIT, done |-> Off,
                                        dest |-> <<>>])]
  /\ SameCore("search")
  /\ UNCHANGED <<cacheVars, dtlb_miss_buffer, l2_miss_buffer, l3_miss_buffer,
                 turnVars, memVars, work, answered>>

NoFetch ==
  /\ stage = "fetch"
  /\ SameCore("search")
  /\ UNCHANGED <<cacheVars, missVars, turnVars, memVars, askVars>>

\* dtlb_search: the oldest load or store of load_store_buffer.
Request(c) ==
  LET n == asked[c]["D"] + 1 IN
  [id |-> n - 1, line |-> work["D"][c][n].line, write |-> work["D"][c][n].write]

TlbHit(c) == Hit(dtlb[c], PageOf[Request(c).line])

\* A hit, in a cycle in which dtlb_mshr_update has used the port of L1.
PortTaken ==
  /\ stage = "search" /\ Ahead(at, "D") /\ TlbHit(at) /\ dtlb_to_dcache[at]
  /\ dtlb_to_dcache' = [dtlb_to_dcache EXCEPT ![at] = FALSE]
  /\ NextCore("fetch", "end")
  /\ UNCHANGED <<dtlb, l1s, l2s, ul3, missVars, turnVars, memVars, askVars>>

SearchL1 ==
  /\ stage = "search" /\ Ahead(at, "D") /\ TlbHit(at) /\ ~ dtlb_to_dcache[at]
  /\ \/ DcacheHit(at, Request(at)) /\ dcache_hit(at, Request(at))
     \/ /\ ~ DcacheHit(at, Request(at)) /\ RoomInL1(at)
        /\ dcache_miss(at, Request(at))
  /\ Taken(at, "D")
  /\ NextCore("fetch", "end")
  /\ UNCHANGED <<dtlb, dtlb_to_dcache, l2s, ul3, dtlb_miss_buffer,
                 l2_miss_buffer, l3_miss_buffer, turnVars, memVars, work>>

\* DTLB_MISS: one walk per page at a time; how long it takes depends on the
\* page table and on the page fault handler.
Walking(c, page) ==
  \E i \in DOMAIN dtlb_miss_buffer[c] : PageOf[dtlb_miss_buffer[c][i].line] = page

DTLB_MISS ==
  /\ stage = "search" /\ Ahead(at, "D") /\ ~ TlbHit(at)
  /\ ~ Walking(at, PageOf[Request(at).line])
  /\ Len(dtlb_miss_buffer[at]) < mshr
  /\ \E cycles \in WalkCycles :
       dtlb_miss_buffer' = [dtlb_miss_buffer EXCEPT ![at] =
         Append(@, [id |-> Request(at).id, line |-> Request(at).line,
                    write |-> Request(at).write, wait |-> cycles])]
  /\ Taken(at, "D")
  /\ NextCore("fetch", "end")
  /\ UNCHANGED <<cacheVars, l1_miss_buffer, l2_miss_buffer, l3_miss_buffer,
                 turnVars, memVars, work, answered>>

\* There is no load or store, or no room for it.
NoSearch ==
  /\ stage = "search"
  /\ NextCore("fetch", "end")
  /\ UNCHANGED <<cacheVars, missVars, turnVars, memVars, askVars>>

\* common_clock++
Sooner(t) == IF t > 0 THEN t - 1 ELSE t

Tick ==
  /\ stage = "end"
  /\ dtlb_miss_buffer' = [c \in Cores |-> [i \in DOMAIN dtlb_miss_buffer[c] |->
       [dtlb_miss_buffer[c][i] EXCEPT !.wait = Sooner(@)]]]
  /\ l1_miss_buffer' = [c \in Cores |-> [s \in Sources |->
       [i \in DOMAIN l1_miss_buffer[c][s] |->
          [l1_miss_buffer[c][s][i] EXCEPT !.at1 = Sooner(@), !.done = Sooner(@)]]]]
  /\ l2_miss_buffer' = [c \in Cores |-> [i \in DOMAIN l2_miss_buffer[c] |->
       [l2_miss_buffer[c][i] EXCEPT !.at2 = Sooner(@), !.done = Sooner(@)]]]
  /\ l3_miss_buffer' = [i \in DOMAIN l3_miss_buffer |->
       [l3_miss_buffer[i] EXCEPT !.at3 = Sooner(@), !.done = Sooner(@)]]
  /\ Goto("start")
  /\ UNCHANGED <<cacheVars, turnVars, memVars, askVars>>

-------------------------------------------------------------------------------
\* update_mshr
Update ==
  \/ MemoryCompletes \/ EndMemory \/ update_caches
  \/ dtlb_mshr_update \/ NoWalkOver \/ LLC_to_memory
  \/ RemoveFromL3 \/ EndL3
  \/ ForwardHit \/ ForwardMiss \/ ForwardNextCore \/ EndForward
  \/ AccessL2 \/ EndAccessL2 \/ RemoveFromL2 \/ EndL2
  \/ FillIcache \/ NoIcacheFill \/ RemoveFromL1 \/ EndL1

Search == SearchL1 \/ DTLB_MISS
Replies == \E t \in at_memory : MemoryReplies(t)
Cycle == Begin \/ Update \/ NoFetch \/ PortTaken \/ NoSearch \/ Tick

Next == Cycle \/ FetchInst \/ Search \/ Replies

Spec == Init /\ [][Next]_vars

\* The thread of the node goes through its cycles; a core that has a load or
\* store gives it to the caches, and the memory answers, in the end.
FairSpec ==
  Spec /\ WF_vars(Cycle) /\ SF_vars(Search \/ PortTaken) /\ SF_vars(Replies)

-------------------------------------------------------------------------------
\* Every variable has its type, and no buffer of misses with a limit exceeds
\* it ("mshr 8 // no. of enetries in mshr in each cache-level").  The buffer of
\* L2 has none, and may keep a miss that has left L1, whose answer was taken for
\* that of another with its number; a miss of L1 goes to it once, so that it
\* stays within what its core has asked for.
CachesTypeOK ==
  /\ \A c \in Cores :
       /\ Len(dtlb_miss_buffer[c]) <= mshr
       /\ \A s \in Sources : /\ asked[c][s] \in 0 .. Len(work[s][c])
                             /\ Len(l1_miss_buffer[c][s]) <= mshr
       /\ Len(l2_miss_buffer[c]) <= asked[c]["I"] + asked[c]["D"]
       /\ {dtlb[c].tags[w] : w \in 1 .. TlbWays} \subseteq Pages \union {NoTag}
       /\ {l2s[c].tags[w] : w \in 1 .. L2Ways} \subseteq Lines \union {NoTag}
       /\ cache_source[c] \in 0 .. 1
  /\ {ul3.tags[w] : w \in 1 .. L3Ways} \subseteq Lines \union {NoTag}
  /\ core \in Cores
  /\ at_memory \subseteq Cores \X Sources \X Nat

\* The places of a load or store: at a walk, a miss of its own, one behind the
\* miss of another, an answer.
PlacesIn(walks, misses, answers, id) ==
  {<<"walk", i, 0>> : i \in Named(walks, id)}
  \union {<<"miss", i, 0>> : i \in Named(misses, id)}
  \union (UNION {{<<"behind", i, j>> :
                    j \in {k \in DOMAIN misses[i].dest : misses[i].dest[k] = id}} :
                  i \in DOMAIN misses})
  \union {<<"answered", i, 0>> :
             i \in {k \in DOMAIN answers : answers[k] = id}}

Places(c, id) ==
  PlacesIn(dtlb_miss_buffer[c], l1_miss_buffer[c]["D"], answered[c], id)

\* No load or store is lost or answered twice, whichever loop leaves out the
\* entry behind the one it erases: it is at every moment in one place, and in
\* none before the caches take it.
RequestsKept ==
  \A c \in Cores : \A id \in 0 .. Len(work["D"][c]) - 1 :
    Cardinality(Places(c, id)) = IF id < asked[c]["D"] THEN 1 ELSE 0

\* Every miss that waits below L1 will be woken: it has its turn in L2 still to
\* come, or the miss of L3 it is, or has merged with, is not completed yet and
\* will find the miss it was made for.
Waits(c, s, i) ==
  l1_miss_buffer[c][s][i].at1 = Off /\ l1_miss_buffer[c][s][i].done = Off

ToBeWoken(c, s, id) ==
  \/ \E i \in DOMAIN l2_miss_buffer[c] :
       LET e == l2_miss_buffer[c][i] IN e.src = s /\ e.id = id /\ e.at2 # Off
  \/ \E i \in DOMAIN l3_miss_buffer :
       LET e == l3_miss_buffer[i] IN
       /\ e.done = Off \/ stage \in {"memory", "caches"}
       /\ \/ First(e) = <<c, s, id>>
          \/ /\ <<c, s, id>> \in Merged(e)
             /\ Named(l1_miss_buffer[e.core][e.src], e.id) # {}

WakeUpChain ==
  \A c \in Cores, s \in Sources : \A i \in DOMAIN l1_miss_buffer[c][s] :
    Waits(c, s, i) => ToBeWoken(c, s, l1_miss_buffer[c][s][i].id)

\* Every load and store is answered.
EveryMissEnds ==
  <>[](\A c \in Cores : Len(answered[c]) = Len(work["D"][c]))
===============================================================================
