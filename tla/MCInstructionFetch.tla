-------------------------- MODULE MCInstructionFetch --------------------------
\* Programs for the runs of InstructionFetch.
EXTENDS InstructionFetch

Ins(b) == [block |-> b, branch |-> NotABranch, taken |-> FALSE]
Jump(b, taken) == [block |-> b, branch |-> "b1", taken |-> taken]

\* Blocks 1 and 2 in one page, 3 in the other.
TwoPages == [b \in Blocks |-> IF b <= 2 THEN 1 ELSE 2]

\* A loop over two lines, a run of hits behind a line that is late, and a
\* program that goes back and forth between three lines.
MCPrograms ==
  {<<Ins(1), Ins(1), Jump(1, TRUE), Ins(2), Ins(1), Jump(1, FALSE)>>,
   <<Ins(1), Ins(2), Ins(2), Ins(1), Ins(2), Ins(2)>>,
   <<Ins(1), Ins(3), Ins(1), Jump(3, TRUE), Ins(2)>>}
===============================================================================
