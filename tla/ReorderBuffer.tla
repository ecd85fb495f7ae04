---------------------------- MODULE ReorderBuffer ----------------------------
(***************************************************************************)
(* class circular_queue of OOO_core.cpp: the reorder buffer of a core, a   *)
(* ring of ROB_Size slots with two pointers that are both -1 when it is    *)
(* empty.  A slot keeps the instruction it was given last, so the slots in *)
(* use are those from commit_ptr to issue_ptr, around the ring.            *)
(***************************************************************************)
EXTENDS Integers, Sequences

CONSTANT ROB_Size

\* has_size takes a ring of two slots for full when it holds one entry.
ASSUME RobSizeAssumption == ROB_Size \in Nat /\ ROB_Size > 2

Slots == 0 .. ROB_Size - 1

VARIABLES rob, issue_ptr, commit_ptr

robVars == <<rob, issue_ptr, commit_ptr>>

RobInit(empty) ==
  /\ rob = [k \in Slots |-> empty]
  /\ issue_ptr = -1
  /\ commit_ptr = -1

is_empty == commit_ptr = -1 /\ issue_ptr = -1

\* % of C++ takes the sign of its left operand.
Remainder(a, b) == IF a >= 0 THEN a % b ELSE -((-a) % b)

\* The second half of the test is what a wrapped ring needs.
has_size_unwrapped == ~ (commit_ptr = 0 /\ issue_ptr = ROB_Size - 1)

has_size ==
  /\ ~ (commit_ptr = 0 /\ issue_ptr = ROB_Size - 1)
  /\ issue_ptr # Remainder(commit_ptr - 1, ROB_Size - 1)

\* The slot the next instruction is issued to.
NextSlot ==
  IF is_empty \/ (issue_ptr = ROB_Size - 1 /\ commit_ptr # 0)
  THEN 0
  ELSE issue_ptr + 1

\* do_issue: ring is the ring the entry is put in.
do_issue(ring, entry) ==
  /\ issue_ptr' = NextSlot
  /\ commit_ptr' = IF is_empty THEN 0 ELSE commit_ptr
  /\ rob' = [ring EXCEPT ![NextSlot] = entry]

CommitNoReset ==
  /\ commit_ptr' = (commit_ptr + 1) % ROB_Size
  /\ issue_ptr' = issue_ptr

do_commit ==
  IF commit_ptr = issue_ptr
  THEN commit_ptr' = -1 /\ issue_ptr' = -1
  ELSE commit_ptr' = (commit_ptr + 1) % ROB_Size /\ issue_ptr' = issue_ptr

Size == IF is_empty THEN 0 ELSE ((issue_ptr - commit_ptr) % ROB_Size) + 1

InUse == {(commit_ptr + i) % ROB_Size : i \in 0 .. Size - 1}

\* The entries in the order they were issued.
Contents == [i \in 1 .. Size |-> rob[(commit_ptr + i - 1) % ROB_Size]]
===============================================================================
