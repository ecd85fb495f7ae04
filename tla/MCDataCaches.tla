----------------------------- MODULE MCDataCaches -----------------------------
\* Workloads for the runs of DataCaches.
EXTENDS DataCaches

Load(l)  == [line |-> l, write |-> FALSE]
Store(l) == [line |-> l, write |-> TRUE]

\* Lines 1 and 2 in one page, 3 and 4 in the other.
TwoPerPage == [l \in Lines |-> IF l <= 2 THEN 1 ELSE 2]

\* Cores with lines of their own, for the instructions too.
Apart ==
  [D |-> [c \in Cores |-> IF c = 0 THEN <<Load(1), Store(3), Load(1)>> ELSE <<Load(2)>>],
   I |-> [c \in Cores |-> IF c = 0 THEN <<4>> ELSE <<>>]]

\* One line, shared by the cores.
OneLine ==
  [D |-> [c \in Cores |-> IF c = 0 THEN <<Load(1), Store(1)>> ELSE <<Load(1)>>],
   I |-> [c \in Cores |-> <<>>]]

\* More lines than L1 may miss at a time.
ManyLines ==
  [D |-> [c \in Cores |-> IF c = 0 THEN <<Load(1), Store(3), Load(2)>> ELSE <<>>],
   I |-> [c \in Cores |-> <<>>]]

MCWorkloads == {Apart, OneLine, ManyLines}

\* A line shared by the cores, asked for by one of them behind two others.
Shared ==
  [D |-> [c \in Cores |-> IF c = 0 THEN <<Load(1), Load(3), Load(2)>>
                          ELSE <<Load(2)>>],
   I |-> [c \in Cores |-> <<>>]]

SharedWorkloads == {Shared}
===============================================================================
