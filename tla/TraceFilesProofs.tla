-------------------------- MODULE TraceFilesProofs --------------------------
(***************************************************************************)
(* Theorems about TraceFiles, for every length of a file, of the program   *)
(* and of the trace, and for every timing of the two processes.            *)
(*                                                                         *)
(* No instruction is read twice or out of order: the reader's file number  *)
(* never falls behind the tracer's, so that the only file it can ever find *)
(* is the tracer's own, and that one once.                                 *)
(*                                                                         *)
(* No recorded instruction is lost unless the reader has read a file in    *)
(* the gap between its announcement and its close: until then the two take *)
(* turns with the one file there is.                                       *)
(***************************************************************************)
EXTENDS TraceFiles, FiniteSetTheorems, SequenceTheorems, TLAPS

(***************************************************************************)
(* Sequences and the sets of their elements.                               *)
(***************************************************************************)
LEMMA ElementsOfEmpty == ElementsOf(<<>>) = {}
BY DEF ElementsOf

LEMMA ElementsOfAppend ==
  ASSUME NEW S, NEW s \in Seq(S), NEW e \in S
  PROVE  ElementsOf(Append(s, e)) = ElementsOf(s) \union {e}
<1>1. /\ Len(s) \in Nat /\ DOMAIN s = 1 .. Len(s)
      /\ DOMAIN Append(s, e) = 1 .. Len(s) + 1
      /\ Append(s, e)[Len(s) + 1] = e
      /\ \A i \in 1 .. Len(s) : Append(s, e)[i] = s[i]
  OBVIOUS
<1> QED
  BY <1>1 DEF ElementsOf

LEMMA ElementsOfConcat ==
  ASSUME NEW S, NEW s \in Seq(S), NEW t \in Seq(S)
  PROVE  ElementsOf(s \o t) = ElementsOf(s) \union ElementsOf(t)
<1>1. /\ Len(s) \in Nat /\ DOMAIN s = 1 .. Len(s)
      /\ Len(t) \in Nat /\ DOMAIN t = 1 .. Len(t)
      /\ DOMAIN (s \o t) = 1 .. Len(s) + Len(t)
      /\ \A i \in 1 .. Len(s) : (s \o t)[i] = s[i]
      /\ \A i \in 1 .. Len(t) : (s \o t)[Len(s) + i] = t[i]
  OBVIOUS
<1>2. ElementsOf(s \o t) \subseteq ElementsOf(s) \union ElementsOf(t)
  <2> SUFFICES ASSUME NEW i \in 1 .. Len(s) + Len(t)
               PROVE  (s \o t)[i] \in ElementsOf(s) \union ElementsOf(t)
    BY <1>1 DEF ElementsOf
  <2>1. CASE i \in 1 .. Len(s)
    BY <1>1, <2>1 DEF ElementsOf
  <2>2. CASE i \notin 1 .. Len(s)
    <3>1. i - Len(s) \in 1 .. Len(t) /\ i = Len(s) + (i - Len(s))
      BY <1>1, <2>2
    <3>2. (s \o t)[i] = t[i - Len(s)]
      BY <1>1, <3>1
    <3> QED
      BY <1>1, <3>1, <3>2 DEF ElementsOf
  <2> QED
    BY <2>1, <2>2
<1>3. ElementsOf(s) \subseteq ElementsOf(s \o t)
  BY <1>1 DEF ElementsOf
<1>4. ElementsOf(t) \subseteq ElementsOf(s \o t)
  <2> SUFFICES ASSUME NEW i \in 1 .. Len(t)
               PROVE  t[i] \in ElementsOf(s \o t)
    BY <1>1 DEF ElementsOf
  <2>1. Len(s) + i \in 1 .. Len(s) + Len(t)
    BY <1>1
  <2> QED
    BY <1>1, <2>1 DEF ElementsOf
<1> QED
  BY <1>2, <1>3, <1>4

\* The first element goes one way, the rest the other.
LEMMA ElementsOfParts ==
  ASSUME NEW S, NEW s \in Seq(S), s # <<>>
  PROVE  /\ SubSeq(s, 1, 1) \in Seq(S) /\ Tail(s) \in Seq(S)
         /\ ElementsOf(s) = ElementsOf(SubSeq(s, 1, 1)) \union ElementsOf(Tail(s))
<1>1. /\ Len(s) \in Nat \ {0} /\ DOMAIN s = 1 .. Len(s)
      /\ Tail(s) \in Seq(S) /\ DOMAIN Tail(s) = 1 .. Len(s) - 1
      /\ \A i \in 1 .. Len(s) - 1 : Tail(s)[i] = s[i + 1]
  OBVIOUS
<1>2. /\ SubSeq(s, 1, 1) \in Seq(S) /\ Len(SubSeq(s, 1, 1)) = 1
      /\ SubSeq(s, 1, 1)[1] = s[1]
  BY <1>1, SubSeqProperties
<1>3. ElementsOf(SubSeq(s, 1, 1)) = {s[1]}
  BY <1>2 DEF ElementsOf
<1>4. ElementsOf(s) \subseteq {s[1]} \union ElementsOf(Tail(s))
  <2> SUFFICES ASSUME NEW i \in 1 .. Len(s), i # 1
               PROVE  s[i] \in ElementsOf(Tail(s))
    BY <1>1 DEF ElementsOf
  <2>1. i - 1 \in 1 .. Len(s) - 1 /\ i = (i - 1) + 1
    BY <1>1
  <2> QED
    BY <1>1, <2>1 DEF ElementsOf
<1>5. ElementsOf(Tail(s)) \subseteq ElementsOf(s)
  BY <1>1 DEF ElementsOf
<1>6. s[1] \in ElementsOf(s)
  BY <1>1 DEF ElementsOf
<1> QED
  BY <1>1, <1>2, <1>3, <1>4, <1>5, <1>6

LEMMA WholeSeq ==
  ASSUME NEW S, NEW s \in Seq(S)
  PROVE  SubSeq(s, 1, Len(s)) = s
OBVIOUS

-------------------------------------------------------------------------------
(***************************************************************************)
(* The inductive invariant.                                                *)
(***************************************************************************)
Traced == ElementsOf(buffer) \union OnDisk \union ElementsOf(inst_stream)

Types ==
  /\ num_ins \in Nat /\ calls \in Nat /\ total_ins \in Nat
  /\ FileID \in Nat /\ fileid \in Nat
  /\ open \in BOOLEAN /\ linked \in BOOLEAN /\ reading \in BOOLEAN
  /\ tooSoon \in BOOLEAN
  /\ tracer \in {"run", "wait", "fini", "ended"}
  /\ reader \in {"poll", "open", "read", "remove", "reset"}
  /\ buffer \in Seq(Nat) /\ inst_stream \in Seq(Nat)
  /\ disk = [f \in DOMAIN disk |-> disk[f]]
  /\ \A f \in DOMAIN disk : disk[f] \in Seq(Nat)
  /\ reading => reader = "read" /\ fileid \in DOMAIN disk

\* The file that has its name is the tracer's; when the reader has it the tracer
\* has closed it or is about to, and when both look elsewhere num_ins says whose
\* it is.
Turns ==
  /\ DOMAIN disk = IF linked THEN {FileID} ELSE {}
  /\ open <=> tracer \in {"run", "fini"}
  /\ ~ open => buffer = <<>>
  /\ open => reader \in {"poll", "open", "read"} /\ linked /\ fileid = FileID
  /\ open /\ reader # "poll" => InGap
  /\ tracer = "wait" /\ reader = "poll" =>
       \/ num_ins > 0 /\ linked /\ fileid = FileID
       \/ num_ins = 0 /\ ~ linked /\ fileid = FileID + 1
  /\ tracer = "ended" /\ reader = "poll" /\ num_ins > 0 =>
       linked /\ fileid = FileID
  /\ reader # "poll" => num_ins > 0 /\ fileid = FileID
  /\ reader \in {"open", "read", "remove"} => linked
  /\ reader = "read" => reading
  /\ reader = "remove" =>
       ElementsOf(disk[FileID]) \subseteq ElementsOf(inst_stream)
  /\ reader = "reset" => ~ linked

Counted ==
  /\ Traced \subseteq 1 .. calls
  /\ IsFiniteSet(Traced) /\ Cardinality(Traced) = total_ins

HandOff == Types /\ (~ tooSoon => Turns /\ Counted)

-------------------------------------------------------------------------------
\* What there is on the disk is the tracer's file.
LEMMA OneFile ==
  ASSUME NEW d, NEW id, NEW named \in BOOLEAN,
         DOMAIN d = IF named THEN {id} ELSE {}
  PROVE  UNION {ElementsOf(d[f]) : f \in DOMAIN d}
           = IF named THEN ElementsOf(d[id]) ELSE {}
OBVIOUS

\* What a step that records nothing has to show about the records.
LEMMA NothingNew ==
  ASSUME Types, Counted, Traced' = Traced, calls' \in Nat, calls' >= calls,
         total_ins' = total_ins
  PROVE  Counted'
BY DEF Types, Counted

\* What the buffer writes out is a part of it.
LEMMA WrittenOutIs ==
  ASSUME Types, NEW n \in Int, n <= Len(buffer)
  PROVE  /\ SubSeq(buffer, 1, n) \in Seq(Nat)
         /\ DOMAIN WrittenOut(n) = DOMAIN disk
         /\ WrittenOut(n) = [f \in DOMAIN disk |-> WrittenOut(n)[f]]
         /\ \A f \in DOMAIN disk : WrittenOut(n)[f] \in Seq(Nat)
         /\ \A f \in DOMAIN disk :
              f # FileID \/ ~ linked => WrittenOut(n)[f] = disk[f]
         /\ linked /\ FileID \in DOMAIN disk =>
              /\ WrittenOut(n)[FileID] = disk[FileID] \o SubSeq(buffer, 1, n)
              /\ ElementsOf(WrittenOut(n)[FileID])
                   = ElementsOf(disk[FileID]) \union ElementsOf(SubSeq(buffer, 1, n))
<1>1. SubSeq(buffer, 1, n) \in Seq(Nat)
  <2>1. \A i \in 1 .. n : buffer[i] \in Nat
    BY DEF Types
  <2> QED
    BY <2>1, SubSeqProperties
<1>2. CASE linked /\ FileID \in DOMAIN disk
  <2>1. disk[FileID] \in Seq(Nat)
    BY <1>2 DEF Types
  <2>2. disk[FileID] \o SubSeq(buffer, 1, n) \in Seq(Nat)
    BY <1>1, <2>1
  <2>3. WrittenOut(n) = [f \in DOMAIN disk |->
                           IF f = FileID THEN disk[FileID] \o SubSeq(buffer, 1, n)
                           ELSE disk[f]]
    BY <1>2 DEF WrittenOut, Types
  <2>4. ElementsOf(disk[FileID] \o SubSeq(buffer, 1, n))
          = ElementsOf(disk[FileID]) \union ElementsOf(SubSeq(buffer, 1, n))
    <3> DEFINE file == disk[FileID]
               part == SubSeq(buffer, 1, n)
    <3>1. file \in Seq(Nat) /\ part \in Seq(Nat)
      BY <1>1, <2>1
    <3> HIDE DEF file, part
    <3>2. ElementsOf(file \o part) = ElementsOf(file) \union ElementsOf(part)
      BY <3>1, ElementsOfConcat
    <3> QED
      BY <3>2 DEF file, part
  <2>5. /\ WrittenOut(n)[FileID] = disk[FileID] \o SubSeq(buffer, 1, n)
        /\ \A f \in DOMAIN disk : f # FileID => WrittenOut(n)[f] = disk[f]
        /\ DOMAIN WrittenOut(n) = DOMAIN disk
        /\ WrittenOut(n) = [f \in DOMAIN disk |-> WrittenOut(n)[f]]
    <3> DEFINE all == disk[FileID] \o SubSeq(buffer, 1, n)
    <3>1. WrittenOut(n) = [f \in DOMAIN disk |-> IF f = FileID THEN all ELSE disk[f]]
      BY <2>3
    <3> HIDE DEF all
    <3>2. /\ WrittenOut(n)[FileID] = all
          /\ \A f \in DOMAIN disk : f # FileID => WrittenOut(n)[f] = disk[f]
          /\ DOMAIN WrittenOut(n) = DOMAIN disk
          /\ WrittenOut(n) = [f \in DOMAIN disk |-> WrittenOut(n)[f]]
      BY <1>2, <3>1
    <3> QED
      BY <3>2 DEF all
  <2>6. \A f \in DOMAIN disk : WrittenOut(n)[f] \in Seq(Nat)
    BY <2>2, <2>5 DEF Types
  <2> QED
    BY <1>1, <1>2, <2>4, <2>5, <2>6
<1>3. CASE ~ (linked /\ FileID \in DOMAIN disk)
  <2>1. WrittenOut(n) = disk
    BY <1>3 DEF WrittenOut, Types
  <2> QED
    BY <1>1, <1>3, <2>1 DEF Types
<1> QED
  BY <1>2, <1>3

\* Whatever the two do, the variables keep their types.
LEMMA TypesKept ==
  ASSUME Types, [Next]_vars
  PROVE  Types'
<1>1. CASE Record
  <2>1. /\ calls' = calls + 1 /\ num_ins' = num_ins + 1 /\ total_ins' = total_ins + 1
        /\ buffer' = Append(buffer, calls')
        /\ UNCHANGED <<FileID, open, tracer, linked, disk, fileid, reading,
                       inst_stream, reader, tooSoon>>
    BY <1>1 DEF Record, readerVars
  <2>2. buffer' \in Seq(Nat)
    BY <2>1 DEF Types
  <2> QED
    BY <2>1, <2>2, SMTT(30) DEF Types
<1>2. CASE WriteOut
  <2>1. 1 <= Len(buffer) /\ Tail(buffer) \in Seq(Nat) /\ 1 \in Int
    BY <1>2 DEF WriteOut, Types
  <2>2. /\ DOMAIN disk' = DOMAIN disk
        /\ disk' = [f \in DOMAIN disk |-> disk'[f]]
        /\ \A f \in DOMAIN disk : disk'[f] \in Seq(Nat)
    BY <1>2, <2>1, WrittenOutIs DEF WriteOut
  <2> QED
    BY <1>2, <2>1, <2>2 DEF WriteOut, Types, tracerVars, readerVars
<1>3. CASE CloseFull
  <2>1. Len(buffer) \in Int /\ <<>> \in Seq(Nat)
    BY DEF Types
  <2>2. /\ DOMAIN disk' = DOMAIN disk
        /\ disk' = [f \in DOMAIN disk |-> disk'[f]]
        /\ \A f \in DOMAIN disk : disk'[f] \in Seq(Nat)
    BY <1>3, <2>1, WrittenOutIs DEF CloseFull, Close
  <2>3. calls' \in Nat
    BY <1>3 DEF CloseFull, Types
  <2>4. /\ disk' = [f \in DOMAIN disk' |-> disk'[f]]
        /\ \A f \in DOMAIN disk' : disk'[f] \in Seq(Nat)
    BY <2>2
  <2>5. /\ buffer' \in Seq(Nat) /\ open' \in BOOLEAN
        /\ tracer' \in {"run", "wait", "fini", "ended"}
    BY <1>3, <2>1 DEF CloseFull, Close
  <2>6. UNCHANGED <<num_ins, total_ins, FileID, linked, readerVars, tooSoon>>
    BY <1>3 DEF CloseFull
  <2> QED
    BY <2>2, <2>3, <2>4, <2>5, <2>6 DEF Types, readerVars
<1>4. CASE OpenNext
  <2>1. disk' = [f \in DOMAIN disk' |-> disk'[f]] /\ <<>> \in Seq(Nat)
    BY <1>4 DEF OpenNext
  <2>2. \A f \in DOMAIN disk' : disk'[f] \in Seq(Nat)
    BY <1>4, <2>1 DEF OpenNext, Types
  <2> QED
    BY <1>4, <2>1, <2>2 DEF OpenNext, Types, readerVars
<1>5. CASE Fini
  BY <1>5 DEF Fini, Types, readerVars, fileVars
<1>6. CASE CloseLast
  <2>1. Len(buffer) \in Int /\ <<>> \in Seq(Nat)
    BY DEF Types
  <2>2. /\ DOMAIN disk' = DOMAIN disk
        /\ disk' = [f \in DOMAIN disk |-> disk'[f]]
        /\ \A f \in DOMAIN disk : disk'[f] \in Seq(Nat)
    BY <1>6, <2>1, WrittenOutIs DEF CloseLast, Close
  <2> QED
    BY <1>6, <2>1, <2>2 DEF CloseLast, Close, Types, readerVars
<1>7. CASE Look
  BY <1>7 DEF Look, Types, tracerVars, fileVars
<1>12. CASE Open
  BY <1>12 DEF Open, Types, tracerVars, fileVars
<1>8. CASE Read
  <2>1. inst_stream' \in Seq(Nat)
    <3>1. CASE reading
      <4>1. disk[fileid] \in Seq(Nat) /\ inst_stream \in Seq(Nat)
        BY <3>1 DEF Types
      <4> QED
        BY <1>8, <3>1, <4>1 DEF Read, PushedBack
    <3>2. CASE ~ reading
      BY <1>8, <3>2 DEF Read, Types
    <3> QED
      BY <3>1, <3>2
  <2> QED
    BY <1>8, <2>1 DEF Read, Types, tracerVars, fileVars
<1>9. CASE Remove
  BY <1>9 DEF Remove, Types, tracerVars
<1>10. CASE Reset
  BY <1>10 DEF Reset, NextFile, Types, tracerVars, fileVars
<1>11. CASE Ended \/ UNCHANGED vars
  BY <1>11 DEF Ended, vars, Types, tracerVars, fileVars, readerVars
<1> QED
  BY <1>1, <1>2, <1>3, <1>4, <1>5, <1>6, <1>7, <1>8, <1>9, <1>10, <1>11, <1>12
     DEF Next, Tracer, Reader

-------------------------------------------------------------------------------
\* Recording makes one more of them; it is in the buffer.
LEMMA RecordKeeps ==
  ASSUME Types, Turns, Counted, Record
  PROVE  Turns' /\ Counted'
<1>1. Turns'
  <2>1. /\ tracer = "run" /\ open /\ num_ins \in Nat /\ num_ins <= max_ins
        /\ num_ins' = num_ins + 1
        /\ UNCHANGED <<main_start, FileID, open, tracer, linked, disk, fileid, reading,
                       inst_stream, reader>>
    BY DEF Record, InsRef, Turns, Types, readerVars
  <2>2. open' /\ reader' # "poll" => InGap'
    <3> SUFFICES ASSUME reader # "poll"
                 PROVE  InGap'
      BY <2>1
    <3>1. InGap
      BY <2>1 DEF Turns
    <3>2. main_start = 10
      BY <2>1, <3>1, TraceAssumption DEF InGap
    <3> QED
      BY <2>1, <3>2 DEF InGap
  <2>3. reader' # "poll" => num_ins' > 0 /\ fileid' = FileID'
    BY <2>1 DEF Turns
  <2> QED
    BY <2>1, <2>2, <2>3 DEF Turns
<1>2. /\ calls' = calls + 1 /\ calls \in Nat /\ buffer \in Seq(Nat)
      /\ total_ins' = total_ins + 1 /\ total_ins \in Nat
      /\ UNCHANGED <<disk, inst_stream>>
  BY DEF Record, Types, readerVars
<1>3. ElementsOf(buffer') = ElementsOf(buffer) \union {calls + 1}
  BY <1>2, ElementsOfAppend DEF Record
<1>4. OnDisk' = OnDisk /\ ElementsOf(inst_stream') = ElementsOf(inst_stream)
  BY <1>2 DEF OnDisk, ElementsOf
<1>5. Traced' = Traced \union {calls + 1}
  <2>1. Traced' = ElementsOf(buffer') \union OnDisk' \union ElementsOf(inst_stream')
    BY DEF Traced, ElementsOf, OnDisk
  <2> QED
    BY <1>3, <1>4, <2>1 DEF Traced
<1>6. calls + 1 \notin Traced
  BY <1>2 DEF Counted
<1>7. IsFiniteSet(Traced') /\ Cardinality(Traced') = total_ins + 1
  BY <1>5, <1>6, FS_AddElement DEF Counted
<1>8. Traced' \subseteq 1 .. calls'
  BY <1>2, <1>5 DEF Counted
<1> QED
  BY <1>1, <1>2, <1>7, <1>8 DEF Counted

\* Where the records are, with one file at most on the disk.
LEMMA TracedIs ==
  ASSUME Types, Turns
  PROVE  Traced = ElementsOf(buffer) \union ElementsOf(inst_stream)
                    \union (IF linked THEN ElementsOf(disk[FileID]) ELSE {})
<1>1. DOMAIN disk = IF linked THEN {FileID} ELSE {}
  BY DEF Turns
<1>2. OnDisk = IF linked THEN ElementsOf(disk[FileID]) ELSE {}
  BY <1>1, OneFile DEF OnDisk, Types
<1> QED
  BY <1>2 DEF Traced

LEMMA TracedIsNext ==
  ASSUME Types', Turns'
  PROVE  Traced' = ElementsOf(buffer') \union ElementsOf(inst_stream')
                    \union (IF linked' THEN ElementsOf(disk'[FileID']) ELSE {})
<1>1. DOMAIN disk' = IF linked' THEN {FileID'} ELSE {}
  BY DEF Turns
<1>2. UNION {ElementsOf(disk'[f]) : f \in DOMAIN disk'}
        = IF linked' THEN ElementsOf(disk'[FileID']) ELSE {}
  BY <1>1, OneFile DEF Types
<1>3. Traced' = ElementsOf(buffer') \union ElementsOf(inst_stream')
                  \union (UNION {ElementsOf(disk'[f]) : f \in DOMAIN disk'})
  BY DEF Traced, OnDisk, ElementsOf
<1> QED
  BY <1>2, <1>3

\* Part of the buffer, or all of it, goes to the file.
LEMMA WriteOutKeeps ==
  ASSUME Types, Types', Turns, Counted, WriteOut
  PROVE  Turns' /\ Counted'
<1>1. /\ open /\ linked /\ reader \in {"poll", "open", "read"} /\ DOMAIN disk = {FileID}
      /\ buffer \in Seq(Nat) /\ buffer # <<>> /\ 1 \in Int /\ 1 <= Len(buffer)
  BY DEF WriteOut, Turns, Types
<1>2. /\ DOMAIN disk' = DOMAIN disk
      /\ ElementsOf(disk'[FileID])
           = ElementsOf(disk[FileID]) \union ElementsOf(SubSeq(buffer, 1, 1))
  BY <1>1, WrittenOutIs DEF WriteOut
<1>3. Turns'
  BY <1>1, <1>2 DEF WriteOut, Turns, InGap, tracerVars, readerVars
<1>4. ElementsOf(buffer) = ElementsOf(SubSeq(buffer, 1, 1)) \union ElementsOf(buffer')
  BY <1>1, ElementsOfParts DEF WriteOut
<1>5. Traced' = Traced
  BY <1>1, <1>2, <1>3, <1>4, TracedIs, TracedIsNext DEF WriteOut, tracerVars, readerVars
<1> QED
  BY <1>3, <1>5, NothingNew DEF WriteOut, tracerVars, Types

LEMMA CloseKeeps ==
  ASSUME Types, Types', Turns, Counted, CloseFull \/ CloseLast
  PROVE  Turns' /\ Counted'
<1>1. /\ open /\ linked /\ reader \in {"poll", "open", "read"} /\ DOMAIN disk = {FileID}
      /\ fileid = FileID /\ buffer \in Seq(Nat) /\ Len(buffer) \in Int
  BY DEF CloseFull, CloseLast, InsRef, Turns, Types
<1>2. /\ DOMAIN disk' = DOMAIN disk
      /\ ElementsOf(disk'[FileID])
           = ElementsOf(disk[FileID]) \union ElementsOf(SubSeq(buffer, 1, Len(buffer)))
  <2>1. disk' = WrittenOut(Len(buffer))
    BY DEF CloseFull, CloseLast, Close
  <2>2. FileID \in DOMAIN disk /\ Len(buffer) <= Len(buffer)
    BY <1>1
  <2> QED
    BY <1>1, <2>1, <2>2, WrittenOutIs
<1>3. SubSeq(buffer, 1, Len(buffer)) = buffer
  BY <1>1, WholeSeq
<1>4. /\ UNCHANGED <<num_ins, total_ins, FileID, linked, fileid, reading, inst_stream, reader>>
      /\ open' = FALSE /\ buffer' = <<>> /\ tracer' \in {"wait", "ended"}
      /\ tracer' = "wait" => num_ins > 0
  BY TraceAssumption DEF CloseFull, CloseLast, Close, readerVars, Types
<1>5. Turns'
  BY <1>1, <1>2, <1>4 DEF Turns
<1>6. Traced' = Traced
  BY <1>1, <1>2, <1>3, <1>4, <1>5, TracedIs, TracedIsNext, ElementsOfEmpty
<1>7. calls' \in Nat /\ calls' >= calls
  BY DEF CloseFull, CloseLast, Types
<1> QED
  BY <1>4, <1>5, <1>6, <1>7, NothingNew

\* The next file is opened when the last one has been read and removed.
LEMMA OpenNextKeeps ==
  ASSUME Types, Types', Turns, Counted, OpenNext
  PROVE  Turns' /\ Counted'
<1>1. /\ reader = "poll" /\ ~ linked /\ fileid = FileID + 1 /\ buffer = <<>>
      /\ DOMAIN disk = {}
  BY DEF OpenNext, FileRead, Turns, Types
<1>2. DOMAIN disk' = {FileID'} /\ disk'[FileID'] = <<>>
  BY <1>1 DEF OpenNext
<1>3. Turns'
  BY <1>1, <1>2 DEF OpenNext, Turns, readerVars
<1>4. UNCHANGED <<buffer, inst_stream, calls, total_ins>> /\ linked'
  BY DEF OpenNext, readerVars
<1>5. Traced' = Traced
  BY <1>1, <1>2, <1>3, <1>4, TracedIs, TracedIsNext, ElementsOfEmpty
<1> QED
  BY <1>3, <1>4, <1>5, NothingNew DEF Types

\* The other steps leave the buffer and the tracer's file number alone.
LEMMA FiniKeeps ==
  ASSUME Types, Types', Turns, Counted, Fini
  PROVE  Turns' /\ Counted'
<1>1. Turns'
  BY DEF Fini, Turns, InGap, readerVars, fileVars
<1>2. Traced' = Traced
  BY DEF Fini, Traced, OnDisk, ElementsOf, readerVars, fileVars
<1> QED
  BY <1>1, <1>2, NothingNew DEF Fini, Types

\* The reader looks at a file that is announced, closed or not.
LEMMA LookKeeps ==
  ASSUME Types, Types', Turns, Counted, Look
  PROVE  Turns' /\ Counted'
<1>1. /\ reader = "poll" /\ reader' = "open" /\ num_ins > 0
      /\ num_ins > max_ins \/ main_start = 10
      /\ UNCHANGED <<num_ins, main_start, FileID, open, tracer, buffer, linked, disk,
                     fileid, reading, inst_stream>>
  BY DEF Look, Ready, tracerVars, fileVars
<1>2. linked /\ fileid = FileID
  BY <1>1 DEF Turns, Types
<1>3. Turns'
  BY <1>1, <1>2 DEF Turns, InGap
<1>4. Traced' = Traced
  BY DEF Look, Traced, OnDisk, ElementsOf, tracerVars, fileVars
<1> QED
  BY <1>3, <1>4, NothingNew DEF Look, Types, tracerVars

LEMMA OpenKeeps ==
  ASSUME Types, Types', Turns, Counted, Open
  PROVE  Turns' /\ Counted'
<1>1. Turns'
  BY DEF Open, Turns, InGap, tracerVars, fileVars
<1>2. Traced' = Traced
  BY DEF Open, Traced, OnDisk, ElementsOf, tracerVars, fileVars
<1> QED
  BY <1>1, <1>2, NothingNew DEF Open, Types, tracerVars

\* What was on the disk is in the stream as well, so that it may be removed.
LEMMA ReadKeeps ==
  ASSUME Types, Types', Turns, Counted, Read, ~ tooSoon'
  PROVE  Turns' /\ Counted'
<1>1. /\ reading /\ linked /\ fileid = FileID /\ FileID \in DOMAIN disk
      /\ disk[FileID] \in Seq(Nat) /\ inst_stream \in Seq(Nat)
  BY DEF Read, Turns, Types
<1>2. ElementsOf(inst_stream')
        = ElementsOf(inst_stream) \union ElementsOf(disk[FileID])
  <2>1. inst_stream' = inst_stream \o disk[FileID]
    BY <1>1 DEF Read, PushedBack
  <2> QED
    BY <1>1, <2>1, ElementsOfConcat
<1>3. /\ UNCHANGED <<num_ins, tracer, open, FileID, buffer, linked, disk, fileid,
                     calls, total_ins>>
      /\ reader = "read" /\ reader' = "remove" /\ reading' = FALSE
  BY DEF Read, tracerVars, fileVars
<1>4. Turns'
  <2>1. ElementsOf(disk'[FileID']) \subseteq ElementsOf(inst_stream')
    BY <1>2, <1>3
  <2>2. ~ open
    BY <1>1 DEF Read, Turns, Types
  <2> QED
    BY <1>3, <2>1, <2>2 DEF Turns
<1>5. Traced' = Traced
  BY <1>1, <1>2, <1>3, <1>4, TracedIs, TracedIsNext
<1> QED
  BY <1>3, <1>4, <1>5, NothingNew DEF Types

LEMMA RemoveKeeps ==
  ASSUME Types, Types', Turns, Counted, Remove
  PROVE  Turns' /\ Counted'
<1>1. /\ reader = "remove" /\ linked /\ fileid = FileID /\ DOMAIN disk = {FileID}
      /\ ElementsOf(disk[FileID]) \subseteq ElementsOf(inst_stream)
  BY DEF Remove, Turns
<1>2. /\ DOMAIN disk' = {} /\ linked' = FALSE /\ reader' = "reset"
      /\ UNCHANGED <<num_ins, tracer, open, FileID, buffer, fileid, reading,
                     inst_stream, calls, total_ins>>
  BY <1>1 DEF Remove, tracerVars
<1>3. Turns'
  BY <1>1, <1>2 DEF Turns
<1>4. Traced' = Traced
  BY <1>1, <1>2, <1>3, TracedIs, TracedIsNext
<1> QED
  BY <1>2, <1>3, <1>4, NothingNew DEF Types

LEMMA ResetKeeps ==
  ASSUME Types, Types', Turns, Counted, Reset
  PROVE  Turns' /\ Counted'
<1>1. reader = "reset" /\ ~ linked /\ fileid = FileID /\ ~ open
  BY DEF Reset, Turns
<1>2. Turns'
  BY <1>1 DEF Reset, NextFile, Turns, Types, tracerVars, fileVars
<1>3. Traced' = Traced
  BY DEF Reset, Traced, OnDisk, ElementsOf, tracerVars, fileVars
<1> QED
  BY <1>2, <1>3, NothingNew DEF Reset, Types, tracerVars

-------------------------------------------------------------------------------
LEMMA HandOffInit ==
  ASSUME Init
  PROVE  HandOff
<1>1. <<>> \in Seq(Nat) /\ ElementsOf(<<>>) = {}
  BY ElementsOfEmpty
<1>2. Types
  BY <1>1 DEF Init, Types
<1>3. Turns
  BY DEF Init, Turns
<1>4. Traced = {}
  BY <1>1, <1>2, <1>3, TracedIs DEF Init
<1>5. IsFiniteSet({}) /\ Cardinality({}) = 0
  BY FS_EmptySet
<1> QED
  BY <1>2, <1>3, <1>4, <1>5 DEF HandOff, Counted, Init

LEMMA HandOffNext ==
  ASSUME HandOff, [Next]_vars
  PROVE  HandOff'
<1>1. Types /\ Types'
  BY TypesKept DEF HandOff
<1>2. ~ tooSoon' => ~ tooSoon
  BY <1>1 DEF Types, Next, Tracer, Reader, Record, CloseFull, OpenNext, Fini, CloseLast,
              WriteOut, Look, Open, Read, Remove, Reset, Ended, vars
<1> SUFFICES ASSUME ~ tooSoon'
             PROVE  Turns' /\ Counted'
  BY <1>1, <1>2 DEF HandOff
<1>3. Turns /\ Counted
  BY <1>2 DEF HandOff
<1>4. CASE Tracer
  BY <1>1, <1>3, <1>4, RecordKeeps, CloseKeeps, OpenNextKeeps, FiniKeeps DEF Tracer
<1>5. CASE WriteOut
  BY <1>1, <1>3, <1>5, WriteOutKeeps
<1>6. CASE Reader
  BY <1>1, <1>3, <1>6, LookKeeps, OpenKeeps, ReadKeeps, RemoveKeeps, ResetKeeps
     DEF Reader
<1>7. CASE UNCHANGED vars
  <2>1. Turns'
    BY <1>3, <1>7 DEF Turns, InGap, vars, tracerVars, fileVars, readerVars
  <2>2. Traced' = Traced
    BY <1>7 DEF Traced, OnDisk, ElementsOf, vars, fileVars, readerVars
  <2> QED
    BY <1>1, <1>3, <1>7, <2>1, <2>2, NothingNew DEF vars, tracerVars, Types
<1> QED
  BY <1>4, <1>5, <1>6, <1>7 DEF Next, Ended

-------------------------------------------------------------------------------
(***************************************************************************)
(* The order of what is read, whatever the timing.                         *)
(***************************************************************************)
Rising(s) == \A i, j \in DOMAIN s : i < j => s[i] < s[j]
Below(s, t) == \A x \in ElementsOf(s), y \in ElementsOf(t) : x < y

\* The reader's number is never behind the tracer's, and ahead of it when the tracer
\* may open its next file; what is still to be read comes after what has been read.
InOrder ==
  /\ fileid >= FileID
  /\ DOMAIN disk \subseteq 0 .. FileID
  /\ open <=> tracer \in {"run", "fini"}
  /\ ~ open => buffer = <<>>
  /\ reader # "poll" => num_ins > 0
  /\ tracer = "wait" /\ num_ins = 0 => fileid > FileID
  /\ ElementsOf(buffer) \union ElementsOf(inst_stream) \subseteq 1 .. calls
  /\ \A f \in DOMAIN disk : ElementsOf(disk[f]) \subseteq 1 .. calls
  /\ Rising(inst_stream) /\ Rising(buffer)
  /\ FileID \in DOMAIN disk => Rising(disk[FileID]) /\ Below(disk[FileID], buffer)
  /\ fileid = FileID /\ reader \in {"poll", "open", "read"} =>
       /\ Below(inst_stream, buffer)
       /\ FileID \in DOMAIN disk => Below(inst_stream, disk[FileID])

LEMMA RisingEmpty == Rising(<<>>) /\ \A s : Below(s, <<>>) /\ Below(<<>>, s)
BY ElementsOfEmpty DEF Rising, Below

LEMMA RisingAppend ==
  ASSUME NEW s \in Seq(Nat), NEW e \in Nat, Rising(s), \A x \in ElementsOf(s) : x < e
  PROVE  Rising(Append(s, e))
<1>1. /\ Len(s) \in Nat /\ DOMAIN s = 1 .. Len(s)
      /\ DOMAIN Append(s, e) = 1 .. Len(s) + 1
      /\ Append(s, e)[Len(s) + 1] = e
      /\ \A i \in 1 .. Len(s) : Append(s, e)[i] = s[i]
  OBVIOUS
<1>2. \A i \in 1 .. Len(s) : s[i] < e
  BY <1>1 DEF ElementsOf
<1> QED
  BY <1>1, <1>2 DEF Rising

LEMMA RisingConcat ==
  ASSUME NEW s \in Seq(Nat), NEW t \in Seq(Nat), Rising(s), Rising(t), Below(s, t)
  PROVE  Rising(s \o t)
<1>1. /\ Len(s) \in Nat /\ DOMAIN s = 1 .. Len(s)
      /\ Len(t) \in Nat /\ DOMAIN t = 1 .. Len(t)
      /\ DOMAIN (s \o t) = 1 .. Len(s) + Len(t)
      /\ \A i \in 1 .. Len(s) : (s \o t)[i] = s[i]
      /\ \A i \in 1 .. Len(s) + Len(t) : i \notin 1 .. Len(s) =>
           i - Len(s) \in 1 .. Len(t) /\ (s \o t)[i] = t[i - Len(s)]
  OBVIOUS
<1> SUFFICES ASSUME NEW i \in 1 .. Len(s) + Len(t), NEW j \in 1 .. Len(s) + Len(t),
                    i < j
             PROVE  (s \o t)[i] < (s \o t)[j]
  BY <1>1 DEF Rising
<1>2. CASE j \in 1 .. Len(s)
  <2>1. i \in 1 .. Len(s)
    BY <1>1, <1>2
  <2> QED
    BY <1>1, <1>2, <2>1 DEF Rising
<1>3. CASE i \in 1 .. Len(s) /\ j \notin 1 .. Len(s)
  <2>1. s[i] \in ElementsOf(s) /\ t[j - Len(s)] \in ElementsOf(t)
    BY <1>1, <1>3 DEF ElementsOf
  <2> QED
    BY <1>1, <1>3, <2>1 DEF Below
<1>4. CASE i \notin 1 .. Len(s) /\ j \notin 1 .. Len(s)
  <2>1. i - Len(s) < j - Len(s)
    BY <1>1
  <2> QED
    BY <1>1, <1>4, <2>1 DEF Rising
<1> QED
  BY <1>2, <1>3, <1>4

LEMMA RisingParts ==
  ASSUME NEW s \in Seq(Nat), s # <<>>, Rising(s)
  PROVE  /\ Rising(SubSeq(s, 1, 1)) /\ Rising(Tail(s))
         /\ Below(SubSeq(s, 1, 1), Tail(s))
<1>1. /\ Len(s) \in Nat \ {0} /\ DOMAIN s = 1 .. Len(s)
      /\ DOMAIN Tail(s) = 1 .. Len(s) - 1
      /\ \A i \in 1 .. Len(s) - 1 : Tail(s)[i] = s[i + 1]
  OBVIOUS
<1>2. DOMAIN SubSeq(s, 1, 1) = {1} /\ SubSeq(s, 1, 1)[1] = s[1]
  BY <1>1, SubSeqProperties
<1>3. ElementsOf(SubSeq(s, 1, 1)) = {s[1]}
  BY <1>2 DEF ElementsOf
<1>4. Rising(SubSeq(s, 1, 1))
  BY <1>2 DEF Rising
<1>5. Rising(Tail(s))
  <2> SUFFICES ASSUME NEW i \in 1 .. Len(s) - 1, NEW j \in 1 .. Len(s) - 1, i < j
               PROVE  s[i + 1] < s[j + 1]
    BY <1>1 DEF Rising
  <2>1. i + 1 \in DOMAIN s /\ j + 1 \in DOMAIN s /\ i + 1 < j + 1
    BY <1>1
  <2> QED
    BY <2>1 DEF Rising
<1>6. \A i \in 1 .. Len(s) - 1 : s[1] < s[i + 1]
  <2> TAKE i \in 1 .. Len(s) - 1
  <2>1. 1 \in DOMAIN s /\ i + 1 \in DOMAIN s /\ 1 < i + 1
    BY <1>1
  <2> QED
    BY <2>1 DEF Rising
<1>7. Below(SubSeq(s, 1, 1), Tail(s))
  BY <1>1, <1>3, <1>6 DEF Below, ElementsOf
<1> QED
  BY <1>4, <1>5, <1>7

LEMMA BelowConcat ==
  ASSUME NEW s \in Seq(Nat), NEW t \in Seq(Nat), NEW u
  PROVE  /\ Below(s, u) /\ Below(t, u) => Below(s \o t, u)
         /\ Below(u, s) /\ Below(u, t) => Below(u, s \o t)
<1>1. ElementsOf(s \o t) = ElementsOf(s) \union ElementsOf(t)
  BY ElementsOfConcat
<1> QED
  BY <1>1 DEF Below

\* A part of the buffer goes to the file that has its name, or nowhere.
LEMMA WrittenInOrder ==
  ASSUME Types, InOrder, NEW n \in Int, n <= Len(buffer), NEW rest \in Seq(Nat),
         ElementsOf(SubSeq(buffer, 1, n)) \union ElementsOf(rest)
           \subseteq ElementsOf(buffer),
         Rising(SubSeq(buffer, 1, n)), Below(SubSeq(buffer, 1, n), rest)
  PROVE  /\ DOMAIN WrittenOut(n) = DOMAIN disk
         /\ \A f \in DOMAIN disk : ElementsOf(WrittenOut(n)[f]) \subseteq 1 .. calls
         /\ FileID \in DOMAIN disk =>
              /\ Rising(WrittenOut(n)[FileID])
              /\ Below(WrittenOut(n)[FileID], rest)
         /\ Below(inst_stream, buffer)
              /\ (FileID \in DOMAIN disk => Below(inst_stream, disk[FileID])) =>
                /\ Below(inst_stream, rest)
                /\ FileID \in DOMAIN disk => Below(inst_stream, WrittenOut(n)[FileID])
<1> DEFINE part == SubSeq(buffer, 1, n)
           file == disk[FileID]
<1>1. Below(inst_stream, buffer) => Below(inst_stream, rest) /\ Below(inst_stream, part)
  BY DEF Below
<1>2. FileID \in DOMAIN disk => Below(file, part) /\ Below(file, rest)
  BY DEF InOrder, Below
<1>3. CASE linked /\ FileID \in DOMAIN disk
  <2>1. file \in Seq(Nat) /\ part \in Seq(Nat)
    BY <1>3, WrittenOutIs DEF Types
  <2>2. /\ WrittenOut(n)[FileID] = file \o part
        /\ ElementsOf(WrittenOut(n)[FileID]) = ElementsOf(file) \union ElementsOf(part)
        /\ DOMAIN WrittenOut(n) = DOMAIN disk
        /\ \A f \in DOMAIN disk : f # FileID => WrittenOut(n)[f] = disk[f]
    BY <1>3, WrittenOutIs
  <2>3. Rising(file) /\ Rising(part) /\ Below(file, part)
    BY <1>2, <1>3 DEF InOrder
  <2>4. \A f \in DOMAIN disk : ElementsOf(WrittenOut(n)[f]) \subseteq 1 .. calls
    BY <1>3, <2>2 DEF InOrder
  <2>5. Below(part, rest) /\ Below(file, rest)
    BY <1>2, <1>3
  <2> HIDE DEF part, file
  <2>6. Rising(file \o part)
    BY <2>1, <2>3, RisingConcat
  <2>7. Below(file \o part, rest)
    BY <2>1, <2>5, BelowConcat
  <2>8. Below(inst_stream, file) /\ Below(inst_stream, part) =>
          Below(inst_stream, file \o part)
    BY <2>1, BelowConcat
  <2>9. \/ ~ (Below(inst_stream, buffer) /\ Below(inst_stream, file))
        \/ Below(inst_stream, WrittenOut(n)[FileID])
    BY <1>1, <2>2, <2>8
  <2> QED
    BY <1>1, <1>3, <2>2, <2>4, <2>6, <2>7, <2>9 DEF file
<1>4. CASE ~ (linked /\ FileID \in DOMAIN disk)
  <2>1. /\ DOMAIN WrittenOut(n) = DOMAIN disk
        /\ \A f \in DOMAIN disk : WrittenOut(n)[f] = disk[f]
    BY <1>4, WrittenOutIs
  <2> QED
    BY <1>1, <1>2, <2>1 DEF InOrder
<1> QED
  BY <1>3, <1>4

LEMMA InOrderInit ==
  ASSUME Init
  PROVE  InOrder
BY RisingEmpty, ElementsOfEmpty DEF Init, InOrder

LEMMA RecordInOrder ==
  ASSUME Types, InOrder, Record
  PROVE  InOrder'
<1>1. /\ calls' = calls + 1 /\ calls \in Nat /\ buffer \in Seq(Nat)
      /\ buffer' = Append(buffer, calls + 1) /\ num_ins' = num_ins + 1
      /\ tracer = "run" /\ open
      /\ UNCHANGED <<FileID, open, tracer, disk, fileid, inst_stream, reader>>
  BY DEF Record, InsRef, readerVars, Types, InOrder
<1>2. ElementsOf(buffer') = ElementsOf(buffer) \union {calls + 1}
  BY <1>1, ElementsOfAppend
<1>3. Rising(buffer')
  <2>1. \A x \in ElementsOf(buffer) : x < calls + 1
    BY <1>1 DEF InOrder
  <2>2. Rising(buffer)
    BY DEF InOrder
  <2> QED
    BY <1>1, <2>1, <2>2, RisingAppend
<1>4. \A s : ElementsOf(s) \subseteq 1 .. calls /\ Below(s, buffer) => Below(s, buffer')
  BY <1>1, <1>2 DEF Below
<1>5. /\ FileID \in DOMAIN disk => Below(disk[FileID], buffer')
      /\ Below(inst_stream, buffer) => Below(inst_stream, buffer')
  BY <1>4 DEF InOrder
<1>6. /\ ElementsOf(buffer') \union ElementsOf(inst_stream') \subseteq 1 .. calls'
      /\ \A f \in DOMAIN disk : ElementsOf(disk[f]) \subseteq 1 .. calls'
  BY <1>1, <1>2 DEF InOrder
<1>7. num_ins' > 0
  BY <1>1 DEF Types
<1> QED
  BY <1>1, <1>3, <1>5, <1>6, <1>7 DEF InOrder

LEMMA WriteOutInOrder ==
  ASSUME Types, InOrder, WriteOut
  PROVE  InOrder'
<1>1. /\ open /\ buffer # <<>> /\ buffer \in Seq(Nat) /\ buffer' = Tail(buffer)
      /\ disk' = WrittenOut(1) /\ Rising(buffer)
      /\ UNCHANGED <<num_ins, calls, FileID, open, tracer, fileid, inst_stream, reader>>
  BY DEF WriteOut, Types, InOrder, tracerVars, readerVars
<1>2. /\ buffer' \in Seq(Nat)
      /\ ElementsOf(buffer) = ElementsOf(SubSeq(buffer, 1, 1)) \union ElementsOf(buffer')
  BY <1>1, ElementsOfParts
<1>3. /\ Rising(SubSeq(buffer, 1, 1)) /\ Rising(buffer')
      /\ Below(SubSeq(buffer, 1, 1), buffer')
  BY <1>1, RisingParts
<1>4. 1 \in Int /\ 1 <= Len(buffer)
  BY <1>1
<1>5. /\ DOMAIN disk' = DOMAIN disk
      /\ \A f \in DOMAIN disk : ElementsOf(disk'[f]) \subseteq 1 .. calls
      /\ FileID \in DOMAIN disk =>
           Rising(disk'[FileID]) /\ Below(disk'[FileID], buffer')
      /\ Below(inst_stream, buffer)
           /\ (FileID \in DOMAIN disk => Below(inst_stream, disk[FileID])) =>
             /\ Below(inst_stream, buffer')
             /\ FileID \in DOMAIN disk => Below(inst_stream, disk'[FileID])
  BY <1>1, <1>2, <1>3, <1>4, WrittenInOrder
<1> QED
  BY <1>1, <1>2, <1>3, <1>5 DEF InOrder

LEMMA CloseInOrder ==
  ASSUME Types, InOrder, CloseFull \/ CloseLast
  PROVE  InOrder'
<1>1. /\ buffer \in Seq(Nat) /\ buffer' = <<>> /\ open' = FALSE
      /\ tracer' \in {"wait", "ended"}
      /\ tracer' = "wait" => num_ins > 0
      /\ disk' = WrittenOut(Len(buffer)) /\ Rising(buffer)
      /\ calls' \in Nat /\ calls \in Nat /\ calls' >= calls
      /\ UNCHANGED <<num_ins, FileID, fileid, inst_stream, reader>>
  BY TraceAssumption DEF CloseFull, CloseLast, Close, Types, InOrder, readerVars
<1>2. /\ SubSeq(buffer, 1, Len(buffer)) = buffer /\ <<>> \in Seq(Nat)
      /\ Len(buffer) \in Int /\ Len(buffer) <= Len(buffer)
  BY <1>1, WholeSeq
<1>3. /\ DOMAIN disk' = DOMAIN disk
      /\ \A f \in DOMAIN disk : ElementsOf(disk'[f]) \subseteq 1 .. calls
      /\ FileID \in DOMAIN disk =>
           Rising(disk'[FileID]) /\ Below(disk'[FileID], <<>>)
      /\ Below(inst_stream, buffer)
           /\ (FileID \in DOMAIN disk => Below(inst_stream, disk[FileID])) =>
             /\ Below(inst_stream, <<>>)
             /\ FileID \in DOMAIN disk => Below(inst_stream, disk'[FileID])
  BY <1>1, <1>2, WrittenInOrder, RisingEmpty, ElementsOfEmpty
<1>4. /\ ElementsOf(buffer') \union ElementsOf(inst_stream') \subseteq 1 .. calls'
      /\ \A f \in DOMAIN disk' : ElementsOf(disk'[f]) \subseteq 1 .. calls'
  BY <1>1, <1>3, ElementsOfEmpty DEF InOrder
<1>5. /\ FileID' \in DOMAIN disk' => Rising(disk'[FileID']) /\ Below(disk'[FileID'], buffer')
      /\ fileid' = FileID' /\ reader' \in {"poll", "open", "read"} =>
           /\ Below(inst_stream', buffer')
           /\ FileID' \in DOMAIN disk' => Below(inst_stream', disk'[FileID'])
  BY <1>1, <1>3 DEF InOrder
<1>6. Rising(inst_stream') /\ Rising(buffer')
  BY <1>1, RisingEmpty DEF InOrder
<1>7. /\ fileid' >= FileID' /\ DOMAIN disk' \subseteq 0 .. FileID'
      /\ ~ open' /\ tracer' \notin {"run", "fini"} /\ buffer' = <<>>
      /\ reader' # "poll" => num_ins' > 0
      /\ ~ (tracer' = "wait" /\ num_ins' = 0)
  BY <1>1, <1>3 DEF InOrder
<1> QED
  BY <1>4, <1>5, <1>6, <1>7 DEF InOrder

LEMMA OpenNextInOrder ==
  ASSUME Types, InOrder, OpenNext
  PROVE  InOrder'
<1>1. /\ tracer = "wait" /\ num_ins = 0 /\ reader = "poll" /\ buffer = <<>>
      /\ fileid > FileID /\ FileID' = FileID + 1 /\ open' = TRUE /\ tracer' = "run"
      /\ DOMAIN disk' = DOMAIN disk \union {FileID'} /\ disk'[FileID'] = <<>>
      /\ \A f \in DOMAIN disk : f # FileID' => disk'[f] = disk[f]
      /\ UNCHANGED <<num_ins, calls, buffer, fileid, inst_stream, reader>>
  BY DEF OpenNext, FileRead, InOrder, readerVars
<1>2. /\ fileid' >= FileID' /\ DOMAIN disk' \subseteq 0 .. FileID'
  BY <1>1 DEF InOrder, Types
<1>3. \A f \in DOMAIN disk' : ElementsOf(disk'[f]) \subseteq 1 .. calls'
  BY <1>1, ElementsOfEmpty DEF InOrder
<1> QED
  BY <1>1, <1>2, <1>3, RisingEmpty DEF InOrder

LEMMA ReadInOrderKept ==
  ASSUME Types, InOrder, Read
  PROVE  InOrder'
<1>1. /\ reader = "read" /\ reader' = "remove" /\ inst_stream \in Seq(Nat)
      /\ UNCHANGED <<num_ins, calls, FileID, open, tracer, buffer, disk, fileid>>
  BY DEF Read, tracerVars, fileVars, Types
<1>2. Rising(inst_stream') /\ ElementsOf(inst_stream') \subseteq 1 .. calls
  <2>1. CASE reading
    <3>1. fileid \in DOMAIN disk /\ fileid = FileID /\ disk[FileID] \in Seq(Nat)
      BY <2>1 DEF Types, InOrder
    <3>2. inst_stream' = inst_stream \o disk[FileID]
      BY <2>1, <3>1 DEF Read, PushedBack
    <3>3. /\ Rising(inst_stream) /\ Rising(disk[FileID])
          /\ Below(inst_stream, disk[FileID])
      BY <1>1, <3>1 DEF InOrder
    <3>4. ElementsOf(inst_stream') = ElementsOf(inst_stream) \union ElementsOf(disk[FileID])
      BY <1>1, <3>1, <3>2, ElementsOfConcat
    <3>5. Rising(inst_stream')
      BY <1>1, <3>1, <3>2, <3>3, RisingConcat
    <3> QED
      BY <3>1, <3>4, <3>5 DEF InOrder
  <2>2. CASE ~ reading
    BY <2>2 DEF Read, InOrder
  <2> QED
    BY <2>1, <2>2
<1> QED
  BY <1>1, <1>2 DEF InOrder

LEMMA RemoveInOrder ==
  ASSUME Types, InOrder, Remove
  PROVE  InOrder'
<1>1. /\ reader = "remove" /\ reader' = "reset"
      /\ DOMAIN disk' = DOMAIN disk \ {fileid}
      /\ \A f \in DOMAIN disk' : disk'[f] = disk[f]
      /\ UNCHANGED <<num_ins, calls, FileID, open, tracer, buffer, fileid, inst_stream>>
  BY DEF Remove, tracerVars
<1> QED
  BY <1>1 DEF InOrder

\* The other steps touch neither the records nor the tracer's file.
LEMMA OtherInOrder ==
  ASSUME Types, InOrder, Fini \/ Look \/ Open \/ Reset \/ Ended \/ UNCHANGED vars
  PROVE  InOrder'
<1>1. UNCHANGED <<calls, FileID, open, buffer, disk, inst_stream>>
  BY DEF Fini, Look, Open, Reset, Ended, vars, tracerVars, fileVars, readerVars
<1>2. CASE Fini
  BY <1>1, <1>2 DEF Fini, InOrder, readerVars
<1>3. CASE Look
  BY <1>1, <1>3 DEF Look, InOrder, tracerVars
<1>4. CASE Open
  BY <1>1, <1>4 DEF Open, InOrder, tracerVars
<1>5. CASE Reset
  <2>1. /\ fileid' > FileID' /\ fileid' >= FileID' /\ fileid' # FileID'
        /\ reader' = "poll" /\ tracer' = tracer
    BY <1>1, <1>5 DEF Reset, NextFile, InOrder, Types, tracerVars
  <2> QED
    BY <1>1, <2>1 DEF InOrder, Types
<1>6. CASE Ended \/ UNCHANGED vars
  BY <1>1, <1>6 DEF Ended, vars, tracerVars, readerVars, InOrder
<1> QED
  BY <1>2, <1>3, <1>4, <1>5, <1>6

LEMMA InOrderNext ==
  ASSUME Types, InOrder, [Next]_vars
  PROVE  InOrder'
BY RecordInOrder, WriteOutInOrder, CloseInOrder, OpenNextInOrder, ReadInOrderKept,
   RemoveInOrder, OtherInOrder DEF Next, Tracer, Reader

-------------------------------------------------------------------------------
\* Whatever the timing of the tracer, of the reader and of its sleep: what the
\* simulator is given is in program order, each instruction at most once; and no
\* instruction that InsRef recorded is lost, its line being in the buffer, in a file
\* that has its name or read, until the reader reads a file that is announced and
\* not yet closed.
THEOREM NoRecordLost == Spec => []RecordsKept
<1>1. Init => HandOff /\ InOrder
  BY HandOffInit, InOrderInit
<1>2. HandOff /\ InOrder /\ [Next]_vars => HandOff' /\ InOrder'
  BY HandOffNext, InOrderNext DEF HandOff
<1>3. HandOff /\ InOrder => RecordsKept
  BY DEF HandOff, RecordsKept, ReadInOrder, InOrder, Rising, Turns, Counted, Traced
<1> QED
  BY <1>1, <1>2, <1>3, PTL DEF Spec
===============================================================================
