------------------------------ MODULE PageFrames ------------------------------
(***************************************************************************)
(* What the rack's memory management promises: every virtual page of a     *)
(* node is given at most one frame, once, out of the node's own memory or  *)
(* of a pool, and no frame is given to two pages.                          *)
(***************************************************************************)
EXTENDS Integers

CONSTANTS
  Nodes, NumPools, LocalPages, PoolPages, VPages,
  NoFrame   \* the frame of a page that has none

VARIABLE frame

LocalFrames(n) ==
  {[unit |-> "local", id |-> n, page |-> k] : k \in 0 .. LocalPages - 1}

PoolFrames ==
  {[unit |-> "pool", id |-> p, page |-> k] :
     p \in 0 .. NumPools - 1, k \in 0 .. PoolPages - 1}

InUse == UNION {{frame[n][v] : v \in VPages} : n \in Nodes}

Init == frame = [n \in Nodes |-> [v \in VPages |-> NoFrame]]

Assign(n, v) ==
  /\ frame[n][v] = NoFrame
  /\ frame'[n][v] \in (LocalFrames(n) \cup PoolFrames) \ InUse
  /\ frame' = [frame EXCEPT ![n][v] = frame'[n][v]]

Next == \E n \in Nodes, v \in VPages : Assign(n, v)

Spec == Init /\ [][Next]_frame
===============================================================================
