---------------------------- MODULE MCNodeThreads ----------------------------
\* Workloads for the runs of NodeThreads.
EXTENDS NodeThreads

\* A long workload, shorter ones, none.
Uneven == [n \in Nodes |-> IF n = 0 THEN 2 ELSE NumNodes - 1 - n]
==============================================================================
