------------------------------- MODULE CacheSets -------------------------------
(***************************************************************************)
(* One set of a cache or of a TLB of DRACKSim-Detailed: class ROUND_ROBIN  *)
(* of ID_Cache.h and of TLB.h, and the accesses of class CACHE and class   *)
(* TLB to it.  A set maps its ways 1..n to tags, with a modified flag each *)
(* (a TLB never sets it), and replaces them in turn, from the last to the  *)
(* first.  A tag stands for the tag, the address space and, in a TLB, the  *)
(* frame; NoTag for a way that is not valid.                               *)
(***************************************************************************)
EXTENDS Integers, Sequences

NoTag == 0

\* ROUND_ROBIN(): n ways.
EmptySet(n) ==
  [tags |-> [w \in 1 .. n |-> NoTag], modified |-> [w \in 1 .. n |-> FALSE],
   next |-> n]

\* Find_And_Access, Find_and_Access: what it returns.
Hit(set, tag) == \E w \in DOMAIN set.tags : set.tags[w] = tag

\* The way the scan, from the last to the first, finds.
WayOf(set, tag) ==
  CHOOSE w \in DOMAIN set.tags :
    /\ set.tags[w] = tag
    /\ \A v \in DOMAIN set.tags : v > w => set.tags[v] # tag

\* AccessSingleCacheLine, AccessMultiCacheLine within a line: a store marks
\* the line it hits.
Access(set, tag, store) ==
  IF store /\ Hit(set, tag)
  THEN [set EXCEPT !.modified[WayOf(set, tag)] = TRUE]
  ELSE set

\* The line, and its flag, that the next Replace throws out.
Victim(set) == set.tags[set.next]
VictimModified(set) == set.modified[set.next]

\* Replace
Replace(set, tag) ==
  [tags |-> [set.tags EXCEPT ![set.next] = tag],
   modified |-> [set.modified EXCEPT ![set.next] = FALSE],
   next |-> IF set.next = 1 THEN Len(set.tags) ELSE set.next - 1]

-------------------------------------------------------------------------------
\* perform_write_back, on a record h of the sets the line may fall in: l2 and
\* l3.  A line that goes past L3 goes to memory (send_to_memory), and is not
\* answered.

\* cache_level 2: the line goes to L3, again when L3 has it; what it throws out
\* of L3, and a line L3 does not have, goes to memory (cache_level 3).
WriteToL3(h, line, store) ==
  LET l3 == Access(h.l3, line, store) IN
  IF Hit(l3, line) THEN [h EXCEPT !.l3 = Replace(l3, line)] ELSE h

\* cache_level 1: the same with L2, which a store does not allocate in.
WriteToL2(h, line, store) ==
  LET l2 == Access(h.l2, line, store) IN
  IF ~ Hit(l2, line) THEN WriteToL3(h, line, store)
  ELSE IF store THEN [h EXCEPT !.l2 = l2]
  ELSE IF VictimModified(l2)
       THEN WriteToL3([h EXCEPT !.l2 = Replace(l2, line)], Victim(l2), TRUE)
       ELSE [h EXCEPT !.l2 = Replace(l2, line)]
===============================================================================
