----------------------------- MODULE MCTraceNodes -----------------------------
\* Traces for TraceNodes.
EXTENDS TraceNodes

R(cycle, page) == [cycle |-> cycle, page |-> page]

\* Traces that end in cycle 1 or 2, and one that is cut off by max_cycle_num = 3
\* with the one that ends in cycle 2.
MCTraces ==
  { << R(0, 1), R(1, 2), R(1, 3), R(1, 4) >>,
    << R(0, 1), R(0, 2), R(1, 1), R(2, 3) >>,
    << R(1, 1), R(1, 2), R(2, 2), R(4, 3) >> }
===============================================================================
