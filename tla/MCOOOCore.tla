------------------------------ MODULE MCOOOCore ------------------------------
\* Programs for the runs of OOOCore.
EXTENDS OOOCore

\* An instruction: registers read and written, operands and result in memory,
\* type, mispredicted branch.
I(rr, wr, opr, write, type, mispredicted) ==
  [rr |-> rr, wr |-> wr, opr |-> opr, write |-> write, type |-> type,
   mispredicted |-> mispredicted]

None == <<0, 0>>

\* A chain through memory and registers, with a store that is loaded again.
Chain ==
  << I({}, {1}, <<1, 0>>, 0, 0, FALSE),
     I({1}, {2}, None, 2, 1, FALSE),
     I({1, 2}, {1}, <<2, 1>>, 0, 0, FALSE),
     I({1}, {}, None, 2, 0, FALSE) >>

\* Registers written again before they are read, and a mispredicted branch.
Rename ==
  << I({}, {1}, <<0, 1>>, 0, 1, FALSE),
     I({}, {1}, None, 0, 0, FALSE),
     I({1}, {}, None, 0, 0, TRUE),
     I({1}, {2}, None, 1, 1, FALSE),
     I({2}, {1}, None, 0, 0, FALSE) >>

\* Stores to one address, and a load of it by one that also stores there.
Stores ==
  << I({}, {1}, None, 1, 0, FALSE),
     I({}, {2}, <<1, 2>>, 1, 0, FALSE),
     I({}, {}, None, 1, 1, FALSE),
     I({}, {1}, None, 0, 0, FALSE),
     I({1}, {}, None, 0, 1, FALSE) >>

\* A load that holds the younger ones back until the ring is full around its end,
\* among registers written again before they are read.
Ring ==
  << I({}, {1}, None, 0, 0, FALSE),
     I({}, {2}, <<1, 0>>, 0, 0, FALSE),
     I({1}, {}, None, 0, 1, FALSE),
     I({}, {1}, None, 0, 0, FALSE),
     I({1}, {}, None, 0, 1, FALSE),
     I({2}, {}, None, 0, 0, FALSE) >>

\* Loads that fill the load/store queue, and an address generated after them.
Loads ==
  << I({}, {1}, <<1, 2>>, 0, 0, FALSE),
     I({}, {2}, <<3, 0>>, 0, 0, FALSE),
     I({1}, {}, None, 1, 1, FALSE),
     I({2}, {1}, <<2, 0>>, 0, 0, FALSE),
     I({1}, {}, <<1, 0>>, 0, 0, FALSE) >>

\* A store whose register comes late, then two loads that fill the queue and one of
\* the store's address, which has to wait for room and finds the store there.
PendingLoad ==
  << I({}, {1}, None, 0, 0, FALSE),
     I({1}, {2}, None, 0, 0, FALSE),
     I({2}, {}, None, 1, 0, FALSE),
     I({}, {}, <<2, 3>>, 0, 0, FALSE),
     I({}, {}, <<1, 0>>, 0, 0, FALSE) >>

MCPrograms == {Chain, Rename, Stores, Ring, Loads}
PendingPrograms == {PendingLoad}
TwoCycles == [t \in Types |-> 2]
===============================================================================
