---------------------------- MODULE MCRackMemory ----------------------------
(***************************************************************************)
(* Instances of RackMemory: two nodes, two pools of a few pages.  The      *)
(* pages of a node are interchangeable, so that it is enough if each node  *)
(* touches them in one order; what happens between the nodes is left as it *)
(* is.                                                                     *)
(***************************************************************************)
EXTENDS RackMemory

Touched(n, v) == page_table[n][v] # NoPage \/ vpage[n] = v

InOrder ==
  \A n \in Nodes : \A v, w \in VPages : v < w /\ Touched(n, w) => page_table[n][v] # NoPage

OrderedSpec == Init /\ [][Next /\ InOrder']_vars /\ Fairness
=============================================================================
