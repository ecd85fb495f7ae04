------------------------------ MODULE TraceFiles ------------------------------
(***************************************************************************)
(* The hand-off of traced instructions from the Pintool of a node          *)
(* (Ins_Tracer.cpp) to the thread that simulates it (main.cpp), two        *)
(* processes that share num_ins and main_start and nothing to lock them    *)
(* with.  The tracer writes max_ins instructions to a file, closes it with *)
(* the next one and waits until num_ins is 0; the reader waits until       *)
(* num_ins is above max_ins, reads the file, removes it and sets num_ins   *)
(* to 0.  When the program ends, Fini sets main_start to 10 and then       *)
(* closes the last file.                                                   *)
(*                                                                         *)
(* An instruction is the number of its InsRef, whose body runs under       *)
(* Mutex1.  A file is what has reached the disk; what ofstream has not     *)
(* written out is in `buffer`.  Left out: what InsRef does before tracing  *)
(* starts, and its early return for a register number above 1024, which    *)
(* leaves Mutex1 locked.                                                   *)
(***************************************************************************)
EXTENDS Integers, Sequences, FiniteSets

CONSTANTS
  max_ins,
  NumInstructions,    \* length of the traced program
  ins_to_simulate

ASSUME TraceAssumption ==
  /\ max_ins \in Nat \ {0}
  /\ NumInstructions \in Nat /\ ins_to_simulate \in Nat

VARIABLES
  num_ins, main_start,      \* shared memory
  calls, total_ins,         \* instructions traced, recorded
  FileID, open,             \* the tracer's file; is it open
  buffer,
  linked,                   \* the tracer's file still has its name
  disk,                     \* files by their number
  tracer,                   \* where the tracer is
  fileid, reading,          \* the reader's file, and whether it has it open
  inst_stream,              \* all that has been read
  reader,                   \* where the reader is
  tooSoon                   \* history: the reader has read a file in the gap

tracerVars == <<main_start, calls, total_ins, FileID, open, tracer>>
fileVars   == <<buffer, linked, disk>>
readerVars == <<fileid, reading, inst_stream, reader>>
vars == <<num_ins, tracerVars, fileVars, readerVars, tooSoon>>

Init ==
  /\ num_ins = 1 /\ main_start = 0
  /\ calls = 0 /\ total_ins = 0
  /\ FileID = 0 /\ open = TRUE /\ buffer = <<>> /\ linked = TRUE
  /\ disk = [f \in {0} |-> <<>>]
  /\ tracer = "run"
  /\ fileid = 0 /\ reading = FALSE /\ inst_stream = <<>> /\ reader = "poll"
  /\ tooSoon = FALSE

\* What ofstream writes out goes to the file, or nowhere if it was removed.
WrittenOut(n) ==
  IF linked THEN [disk EXCEPT ![FileID] = @ \o SubSeq(buffer, 1, n)] ELSE disk

-------------------------------------------------------------------------------
\* InsRef: the instruction is recorded, ...
InsRef ==
  tracer = "run" /\ calls < NumInstructions /\ total_ins < ins_to_simulate

Record ==
  /\ InsRef /\ num_ins <= max_ins
  /\ calls' = calls + 1
  /\ buffer' = Append(buffer, calls')
  /\ num_ins' = num_ins + 1
  /\ total_ins' = total_ins + 1
  /\ UNCHANGED <<main_start, FileID, open, tracer, linked, disk, readerVars, tooSoon>>

\* The buffer of ofstream is full.
WriteOut ==
  /\ open /\ buffer # <<>>
  /\ disk' = WrittenOut(1)
  /\ buffer' = Tail(buffer)
  /\ UNCHANGED <<num_ins, tracerVars, linked, readerVars, tooSoon>>

\* ... or it closes the file, and is not recorded itself.
Close ==
  /\ disk' = WrittenOut(Len(buffer))
  /\ buffer' = <<>>
  /\ open' = FALSE

CloseFull ==
  /\ InsRef /\ num_ins > max_ins
  /\ calls' = calls + 1
  /\ Close
  /\ tracer' = "wait"
  /\ UNCHANGED <<num_ins, main_start, total_ins, FileID, linked, readerVars, tooSoon>>

\* A version that does not wait for the reader.
WaitNot == TRUE

FileRead == num_ins = 0

OpenNext ==
  /\ tracer = "wait" /\ FileRead
  /\ FileID' = FileID + 1
  /\ disk' = [f \in DOMAIN disk \union {FileID'} |->
                IF f = FileID' THEN <<>> ELSE disk[f]]
  /\ open' = TRUE /\ linked' = TRUE
  /\ tracer' = "run"
  /\ UNCHANGED <<num_ins, main_start, calls, total_ins, buffer, readerVars, tooSoon>>

\* The program ends, or InsRef has recorded enough (PIN_ExitApplication).
Fini ==
  /\ tracer = "run"
  /\ calls = NumInstructions \/ total_ins >= ins_to_simulate
  /\ main_start' = 10
  /\ tracer' = "fini"
  /\ UNCHANGED <<num_ins, calls, total_ins, FileID, open, fileVars, readerVars, tooSoon>>

CloseLast ==
  /\ tracer = "fini"
  /\ Close
  /\ tracer' = "ended"
  /\ UNCHANGED <<num_ins, main_start, calls, total_ins, FileID, linked, readerVars,
                 tooSoon>>

-------------------------------------------------------------------------------
\* node_stream_handler: while(*num_ins <= max_ins && *main_start != 10) sleep.
\* A version that is one instruction early.
ReadyEarly == num_ins >= max_ins

Ready == num_ins > max_ins

Look ==
  /\ reader = "poll"
  /\ Ready \/ main_start = 10
  /\ num_ins > 0
  /\ reader' = "open"
  /\ UNCHANGED <<num_ins, tracerVars, fileVars, fileid, reading, inst_stream, tooSoon>>

\* TraceFile.open, which fails without a file.
Open ==
  /\ reader = "open"
  /\ reading' = (fileid \in DOMAIN disk)
  /\ reader' = "read"
  /\ UNCHANGED <<num_ins, tracerVars, fileVars, fileid, inst_stream, tooSoon>>

\* The tracer has announced its file, by num_ins or by main_start, and not yet
\* closed it.
InGap == open /\ (num_ins > max_ins \/ main_start = 10)

\* A version that puts what it reads before what it has.
PushedFront(file) == file \o inst_stream

PushedBack(file) == inst_stream \o file

\* Everything there is, up to the end of the file.
Read ==
  /\ reader = "read"
  /\ inst_stream' = IF reading THEN PushedBack(disk[fileid]) ELSE inst_stream
  /\ reading' = FALSE
  /\ reader' = "remove"
  /\ tooSoon' = (tooSoon \/ (fileid = FileID /\ InGap))
  /\ UNCHANGED <<num_ins, tracerVars, fileVars, fileid>>

Remove ==
  /\ reader = "remove"
  /\ disk' = [f \in DOMAIN disk \ {fileid} |-> disk[f]]
  /\ linked' = (linked /\ FileID # fileid)
  /\ reader' = "reset"
  /\ UNCHANGED <<num_ins, tracerVars, buffer, fileid, reading, inst_stream, tooSoon>>

\* A version that reads the same file name for ever.
SameFile == fileid

NextFile == fileid + 1

Reset ==
  /\ reader = "reset"
  /\ num_ins' = 0
  /\ fileid' = NextFile
  /\ reader' = "poll"
  /\ UNCHANGED <<tracerVars, fileVars, reading, inst_stream, tooSoon>>

-------------------------------------------------------------------------------
Tracer == Record \/ CloseFull \/ OpenNext \/ Fini \/ CloseLast
Reader == Look \/ Open \/ Read \/ Remove \/ Reset

\* Both are done: the reader goes on with an empty stream.
Ended ==
  /\ tracer = "ended" /\ reader = "poll" /\ num_ins = 0
  /\ UNCHANGED vars

Next == Tracer \/ WriteOut \/ Reader \/ Ended

Spec == Init /\ [][Next]_vars

\* The traced program runs, and the reader, which polls, goes on.
FairSpec == Spec /\ WF_vars(Tracer) /\ WF_vars(Reader)

-------------------------------------------------------------------------------
ElementsOf(s) == {s[i] : i \in DOMAIN s}
OnDisk == UNION {ElementsOf(disk[f]) : f \in DOMAIN disk}

\* Whatever the timing, no instruction is handed to the simulator twice or out of
\* order.
ReadInOrder ==
  \A i, j \in DOMAIN inst_stream : i < j => inst_stream[i] < inst_stream[j]

\* And a recorded instruction is lost in one way only, by a reader that reads the
\* file in the gap between its announcement and its close: until then each one is
\* in the tracer's buffer, in a file that has its name, or read.
RecordsKept ==
  /\ ReadInOrder
  /\ ~ tooSoon =>
       /\ Cardinality(ElementsOf(buffer) \union OnDisk \union ElementsOf(inst_stream))
            = total_ins
       /\ buffer # <<>> => linked

\* Whatever the two do to each other's file, the tracer never waits for the reader
\* for ever; and all that was recorded is read in the end, unless a file was read
\* in the gap.
EverythingRead ==
  <>[](tracer = "ended" /\ (~ tooSoon => Len(inst_stream) = total_ins))
===============================================================================
