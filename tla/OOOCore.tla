-------------------------------- MODULE OOOCore --------------------------------
(***************************************************************************)
(* The out-of-order core of DRACKSim-Detailed (OOO_core.cpp, update_core): *)
(* decode buffer, register alias table, reorder buffer, reservation        *)
(* stations, one queue of ready instructions and one pool of execution     *)
(* units per instruction type, the load/store queue and the queue of the   *)
(* loads and stores that found no room in it.                              *)
(*                                                                         *)
(* A cycle goes through the stages of update_core in their order; a step   *)
(* is one iteration of a stage's loop.  What lies around the core is open: *)
(* an instruction reaches the decoder when its fetch is over, and the      *)
(* caches answer the requests sent to them in any order, before the cycle  *)
(* (misses, from update_mshr) or in load_store_completion (hits).          *)
(*                                                                         *)
(* The last type of instruction stands for the address generation (AGU) of *)
(* an operand in memory.  An address stands for an address and its size.   *)
(***************************************************************************)
EXTENDS ReorderBuffer, FiniteSets, FiniteSetsExt, SequencesExt

CONSTANTS
  Programs,        \* the instruction streams a core may be given
  Regs, Addrs,     \* registers and addresses they name
  RS_Size, LSQ_Size, decode_buffer_size,
  decode_width, issue_width, commit_width, ld_str_width,
  num_ins_types, num_exec_units,
  ins_latency,     \* of every type (INS_Category)
  decode_latency, branch_penalty

NoAddr == 0
Stations == 0 .. RS_Size - 1
Types == 0 .. num_ins_types - 1
AGU == num_ins_types - 1

\* INST: an instruction reads registers and at most two operands in memory,
\* writes registers and at most one operand; no instruction is of the last type.
Instructions ==
  [rr : SUBSET Regs, wr : SUBSET Regs, opr : [1 .. 2 -> Addrs \union {NoAddr}],
   write : Addrs \union {NoAddr}, type : Types \ {AGU}, mispredicted : BOOLEAN]

ASSUME CoreAssumption ==
  /\ RS_Size \in Nat \ {0} /\ LSQ_Size \in Nat \ {0}
  /\ decode_buffer_size \in Nat \ {0} /\ num_exec_units \in Nat \ {0}
  /\ ld_str_width \in Nat \ {0}
  /\ num_ins_types \in Nat \ {0, 1}
  /\ NoAddr \notin Addrs /\ IsFiniteSet(Regs)
  /\ decode_latency \in Nat /\ branch_penalty \in Nat
  /\ Programs \subseteq Seq(Instructions)

\* status of a ROB entry
Issued     == 0
Dispatched == 1
Executed   == 2
Committed  == 3

\* mem_read_dependencies: answered (or no operand), not yet generated, asked
Answered == -1
Unborn   == -2
Asked    == -3

VARIABLES
  program,              \* the instructions, in program order
  num_inst_fetched,     \* how many of them left inst_queue
  decode_buffer,
  reg_alias_table,
  reservation_station,
  ready_queue,          \* per type: stations
  aged,                 \* per type: the front has waited since a cycle's end
  execution_unit,       \* per type: the units at work, oldest first
  completed_inst,       \* completed_inst_rob_index
  load_store_queue, pending_load_store,
  ld_str_id,            \* the next id of a load or store
  num_ld_str_inCycle,
  sent,                 \* ids the caches have not answered (external)
  num_inst_commited,
  penalty,              \* branch_misprediction_penalty
  stage, count          \* where update_core is; its loop counter

stationVars == <<reservation_station, ready_queue, aged>>
memVars     == <<load_store_queue, pending_load_store, ld_str_id,
                 num_ld_str_inCycle, sent>>
frontVars   == <<program, num_inst_fetched, decode_buffer>>
vars == <<robVars, stationVars, memVars, frontVars, reg_alias_table,
          execution_unit, completed_inst, num_inst_commited, penalty,
          stage, count>>

-------------------------------------------------------------------------------
EmptyEntry == [ins |-> 0, status |-> -1, deps |-> <<>>]

EmptyStation ==
  [valid |-> FALSE, rob |-> 0, ins |-> 0, reg |-> [r \in Regs |-> -2],
   addr |-> <<NoAddr, NoAddr>>, mem |-> <<Unborn, Unborn>>,
   mispredicted |-> FALSE, type |-> 0]

Init ==
  /\ RobInit(EmptyEntry)
  /\ program \in Programs
  /\ num_inst_fetched = 0
  /\ decode_buffer = <<>>
  /\ reg_alias_table = [r \in Regs |-> -1]
  /\ reservation_station = [s \in Stations |-> EmptyStation]
  /\ ready_queue = [t \in Types |-> <<>>]
  /\ aged = [t \in Types |-> FALSE]
  /\ execution_unit = [t \in Types |-> <<>>]
  /\ completed_inst = <<>>
  /\ load_store_queue = <<>>
  /\ pending_load_store = <<>>
  /\ ld_str_id = 0
  /\ num_ld_str_inCycle = 0
  /\ sent = {}
  /\ num_inst_commited = 0
  /\ penalty = 0
  /\ stage = "start"
  /\ count = 0

Goto(next) == stage' = next /\ count' = 0
Again == stage' = stage /\ count' = count + 1

\* A cycle later on common_clock.
OneCycle(buffer) ==
  [i \in DOMAIN buffer |->
     [buffer[i] EXCEPT !.wait = IF @ > 0 THEN @ - 1 ELSE 0]]

\* update_core: a mispredicted branch stops the core for some cycles.
Stalled ==
  /\ stage = "start" /\ penalty > 0
  /\ penalty' = penalty - 1
  /\ decode_buffer' = OneCycle(decode_buffer)
  /\ UNCHANGED <<robVars, stationVars, memVars, program, num_inst_fetched,
                 reg_alias_table, execution_unit, completed_inst,
                 num_inst_commited, stage, count>>

Begin ==
  /\ stage = "start" /\ penalty = 0
  /\ Goto("decode")
  /\ UNCHANGED <<robVars, stationVars, memVars, frontVars, reg_alias_table,
                 execution_unit, completed_inst, num_inst_commited, penalty>>

\* decode_ins: the next instruction has been fetched.
Decode ==
  /\ stage = "decode" /\ count < decode_width
  /\ num_inst_fetched < Len(program)
  /\ Len(decode_buffer) < decode_buffer_size
  /\ num_inst_fetched' = num_inst_fetched + 1
  /\ decode_buffer' = Append(decode_buffer, [ins  |-> num_inst_fetched + 1,
                                             wait |-> decode_latency])
  /\ Again
  /\ UNCHANGED <<robVars, stationVars, memVars, program, reg_alias_table,
                 execution_unit, completed_inst, num_inst_commited, penalty>>

\* The width or the buffer is used up, or the next fetch is not over.
EndDecode ==
  /\ stage = "decode"
  /\ Goto("issue")
  /\ UNCHANGED <<robVars, stationVars, memVars, frontVars, reg_alias_table,
                 execution_unit, completed_inst, num_inst_commited, penalty>>

-------------------------------------------------------------------------------
\* check_dependecy_status
Cleared(station) ==
  /\ \A i \in 1 .. 2 : station.mem[i] = Answered
  /\ \A r \in Regs : station.reg[r] = -1

\* A version that looks at the registers only.
PushIfRegistersCleared(ready, stations, s) ==
  IF \A r \in Regs : stations[s].reg[r] = -1
  THEN [ready EXCEPT ![stations[s].type] = Append(@, s)]
  ELSE ready

\* What follows every answer: an instruction that waits for nothing is ready.
PushIfCleared(ready, stations, s) ==
  IF Cleared(stations[s])
  THEN [ready EXCEPT ![stations[s].type] = Append(@, s)]
  ELSE ready

FreeStations == {s \in Stations : ~ reservation_station[s].valid}

\* A version that issues without a slot to commit from.
CanIssueToFullRing ==
  /\ count < issue_width
  /\ decode_buffer # <<>>
  /\ Head(decode_buffer).wait = 0
  /\ FreeStations # {}

CanIssue ==
  /\ count < issue_width
  /\ decode_buffer # <<>>
  /\ Head(decode_buffer).wait = 0
  /\ FreeStations # {}
  /\ has_size

\* A version without the test for a producer that has executed already.
ProducerLate(in, r) ==
  IF r \notin in.rr THEN -1 ELSE reg_alias_table[r]

\* add_to_rs: the ROB entry that is to write register r, -1 if none.
Producer(in, r) ==
  LET k == reg_alias_table[r] IN
  IF r \notin in.rr \/ k = -1 THEN -1
  ELSE IF rob[k].status = Executed THEN -1 ELSE k

\* add_to_rs: the operands in memory of an instruction.
Operands(in) == {i \in 1 .. 2 : in.opr[i] # NoAddr}

NewStation(n) ==
  LET in == program[n] IN
  [valid |-> TRUE, rob |-> NextSlot, ins |-> n,
   reg |-> [r \in Regs |-> Producer(in, r)],
   addr |-> in.opr,
   mem |-> [i \in 1 .. 2 |-> IF i \in Operands(in) THEN Unborn ELSE Answered],
   mispredicted |-> in.mispredicted, type |-> in.type]

\* add_dependency, for every register the new instruction waits for.
WithDependencies(station, s) ==
  [k \in Slots |->
     [rob[k] EXCEPT !.deps =
        @ \o [i \in 1 .. Cardinality({r \in Regs : station.reg[r] = k}) |-> s]]]

\* A version that renames the registers not yet renamed.
RenamedOnce(in) ==
  [r \in Regs |-> IF r \in in.wr /\ reg_alias_table[r] = -1
                  THEN NextSlot ELSE reg_alias_table[r]]

\* add_to_rob: the registers an instruction writes are renamed to its slot.
Renamed(in) ==
  [r \in Regs |-> IF r \in in.wr THEN NextSlot ELSE reg_alias_table[r]]

\* issue_instruction: add_to_rs, then add_to_rob.
Issue ==
  /\ stage = "issue" /\ CanIssue
  /\ LET n  == Head(decode_buffer).ins
         s  == Min(FreeStations)
         st == NewStation(n)
         generated == [ready_queue EXCEPT ![AGU] =
                         @ \o [i \in 1 .. Cardinality(Operands(program[n])) |-> s]]
     IN /\ reservation_station' = [reservation_station EXCEPT ![s] = st]
        /\ ready_queue' = PushIfCleared(generated, reservation_station', s)
        /\ do_issue(WithDependencies(st, s),
                    [ins |-> n, status |-> Issued, deps |-> <<>>])
        /\ reg_alias_table' = Renamed(program[n])
  /\ decode_buffer' = Tail(decode_buffer)
  /\ Again
  /\ UNCHANGED <<aged, memVars, program, num_inst_fetched, execution_unit,
                 completed_inst, num_inst_commited, penalty>>

EndIssue ==
  /\ stage = "issue" /\ ~ CanIssue
  /\ Goto("dispatch")
  /\ UNCHANGED <<robVars, stationVars, memVars, frontVars, reg_alias_table,
                 execution_unit, completed_inst, num_inst_commited, penalty>>

-------------------------------------------------------------------------------
\* The stages that go through the types of instructions, one step each.
NextType(following) ==
  IF count = AGU THEN Goto(following) ELSE Again

\* A version that does not wait for a free unit.
CanDispatchUnits(t) == aged[t]

\* dispatch: only the front of a queue ages, so one instruction of a type at
\* most finds a unit in a cycle.
CanDispatch(t) == aged[t] /\ Len(execution_unit[t]) < num_exec_units

Mispredicted(t) == reservation_station[Head(ready_queue[t])].mispredicted

Unit(s) == [station |-> s, rob |-> reservation_station[s].rob, cycles |-> 0]

\* A mispredicted branch is dispatched after its penalty.
DispatchStalls(t) ==
  /\ stage = "dispatch" /\ count = t
  /\ CanDispatch(t) /\ Mispredicted(t)
  /\ penalty' = branch_penalty
  /\ reservation_station' =
       [reservation_station EXCEPT ![Head(ready_queue[t])].mispredicted = FALSE]
  /\ NextType("check")
  /\ UNCHANGED <<robVars, memVars, frontVars, ready_queue, aged,
                 reg_alias_table, execution_unit, completed_inst,
                 num_inst_commited>>

\* The station is freed, except by the generation of an address.
Dispatch(t) ==
  /\ stage = "dispatch" /\ count = t
  /\ CanDispatch(t) /\ ~ Mispredicted(t)
  /\ LET s == Head(ready_queue[t]) IN
     /\ ready_queue' = [ready_queue EXCEPT ![t] = Tail(@)]
     /\ aged' = [aged EXCEPT ![t] = FALSE]
     /\ execution_unit' = [execution_unit EXCEPT ![t] = Append(@, Unit(s))]
     /\ IF t = AGU
        THEN UNCHANGED <<reservation_station, rob>>
        ELSE /\ reservation_station' = [reservation_station EXCEPT
                                          ![s].valid = FALSE]
             /\ rob' = [rob EXCEPT ![Unit(s).rob].status = Dispatched]
  /\ NextType("check")
  /\ UNCHANGED <<issue_ptr, commit_ptr, memVars, frontVars, reg_alias_table,
                 completed_inst, num_inst_commited, penalty>>

DispatchNothing(t) ==
  /\ stage = "dispatch" /\ count = t
  /\ ~ CanDispatch(t)
  /\ NextType("check")
  /\ UNCHANGED <<robVars, stationVars, memVars, frontVars, reg_alias_table,
                 execution_unit, completed_inst, num_inst_commited, penalty>>

-------------------------------------------------------------------------------
\* found_in_LSQ
found_in_LSQ(addr) ==
  \E i \in DOMAIN load_store_queue :
    load_store_queue[i].addr = addr /\ load_store_queue[i].store

\* The operands of a station at addr have their value.
AnswerOperands(station, addr) ==
  [station EXCEPT !.mem =
     [i \in 1 .. 2 |-> IF station.addr[i] = addr THEN Answered ELSE @[i]]]

RoomInLSQ(queue) ==
  Len(queue) < LSQ_Size /\ num_ld_str_inCycle <= ld_str_width

\* add_to_load_store_queue, its second half: into the queue and to the caches
\* (load_store_buffer), or among the pending ones.
AddTo(queue, s, addr, store) ==
  LET entry == [id |-> ld_str_id, station |-> s, addr |-> addr, store |-> store]
  IN /\ ld_str_id' = ld_str_id + 1
     /\ IF RoomInLSQ(queue)
        THEN /\ load_store_queue' = Append(queue, entry)
             /\ sent' = sent \union {ld_str_id}
             /\ num_ld_str_inCycle' = num_ld_str_inCycle + 1
             /\ UNCHANGED pending_load_store
        ELSE /\ pending_load_store' = Append(pending_load_store, entry)
             /\ load_store_queue' = queue
             /\ UNCHANGED <<sent, num_ld_str_inCycle>>

\* check_executed_instruction: a unit of the type has been at work for its
\* latency.  They start in different cycles, so one at most.
CanComplete(t) ==
  /\ execution_unit[t] # <<>>
  /\ Head(execution_unit[t]).cycles = ins_latency[t]

Complete(t) ==
  /\ stage = "check" /\ count = t
  /\ t # AGU /\ CanComplete(t)
  /\ completed_inst' = Append(completed_inst, Head(execution_unit[t]).rob)
  /\ execution_unit' = [execution_unit EXCEPT ![t] = Tail(@)]
  /\ NextType("broadcast")
  /\ UNCHANGED <<robVars, stationVars, memVars, frontVars, reg_alias_table,
                 num_inst_commited, penalty>>

\* broadcast_agu: the address of the first operand that had none.  A store in
\* the load/store queue forwards its value.
CompleteAGU ==
  /\ stage = "check" /\ count = AGU
  /\ CanComplete(AGU)
  /\ LET s  == Head(execution_unit[AGU]).station
         st == reservation_station[s]
         unborn == {i \in 1 .. 2 : st.mem[i] = Unborn}
         i == Min(unborn)
     IN /\ IF unborn = {}
           THEN UNCHANGED <<memVars, reservation_station>>
           ELSE IF found_in_LSQ(st.addr[i])
           THEN /\ reservation_station' = [reservation_station EXCEPT
                                             ![s] = AnswerOperands(st, st.addr[i])]
                /\ UNCHANGED memVars
           ELSE /\ reservation_station' = [reservation_station EXCEPT
                                             ![s].mem[i] = Asked]
                /\ AddTo(load_store_queue, s, st.addr[i], FALSE)
        /\ ready_queue' = PushIfCleared(ready_queue, reservation_station', s)
  /\ execution_unit' = [execution_unit EXCEPT ![AGU] = Tail(@)]
  /\ Goto("broadcast")
  /\ UNCHANGED <<robVars, aged, frontVars, reg_alias_table, completed_inst,
                 num_inst_commited, penalty>>

CompleteNothing(t) ==
  /\ stage = "check" /\ count = t
  /\ ~ CanComplete(t)
  /\ NextType("broadcast")
  /\ UNCHANGED <<robVars, stationVars, memVars, frontVars, reg_alias_table,
                 execution_unit, completed_inst, num_inst_commited, penalty>>

\* broadcast_ins_complete: one station that depends on the instruction; one
\* register of it that waits.
Broadcast ==
  /\ stage = "broadcast" /\ completed_inst # <<>>
  /\ LET k == Head(completed_inst)
         deps == rob[k].deps
         s == Head(deps)
         waiting == {r \in Regs : reservation_station[s].reg[r] = k}
     IN IF deps = <<>>
        THEN /\ rob' = [rob EXCEPT ![k].status = Executed]
             /\ completed_inst' = Tail(completed_inst)
             /\ UNCHANGED <<reservation_station, ready_queue>>
        ELSE /\ rob' = [rob EXCEPT ![k].status = Executed, ![k].deps = Tail(@)]
             /\ reservation_station' =
                  IF waiting = {} THEN reservation_station
                  ELSE [reservation_station EXCEPT
                          ![s].reg[CHOOSE r \in waiting : TRUE] = -1]
             /\ ready_queue' = PushIfCleared(ready_queue, reservation_station', s)
             /\ UNCHANGED completed_inst
  /\ UNCHANGED <<issue_ptr, commit_ptr, aged, memVars, frontVars,
                 reg_alias_table, execution_unit, num_inst_commited, penalty,
                 stage, count>>

EndBroadcast ==
  /\ stage = "broadcast" /\ completed_inst = <<>>
  /\ Goto("commit")
  /\ UNCHANGED <<robVars, stationVars, memVars, frontVars, reg_alias_table,
                 execution_unit, completed_inst, num_inst_commited, penalty>>

-------------------------------------------------------------------------------
\* commit: the oldest instruction has executed, and a store finds room in the
\* load/store queue.  An empty ring is read at rob[-1], taken for no entry.
CanCommit ==
  /\ count < commit_width
  /\ ~ is_empty
  /\ rob[commit_ptr].status = Executed
  /\ LET write == program[rob[commit_ptr].ins].write
     IN write = NoAddr \/ Len(load_store_queue) < LSQ_Size

\* add_to_load_store_queue, for a store: the older store to its address goes.
WithoutStore(addr) ==
  LET stores == {i \in DOMAIN load_store_queue :
                   load_store_queue[i].addr = addr /\ load_store_queue[i].store}
  IN IF stores = {} THEN load_store_queue
     ELSE RemoveAt(load_store_queue, Min(stores))

\* A version that forgets to update the RAT.
WithSlot(k) == reg_alias_table

\* update_RAT
WithoutSlot(k) ==
  [r \in Regs |-> IF reg_alias_table[r] = k THEN -1 ELSE reg_alias_table[r]]

Commit ==
  /\ stage = "commit" /\ CanCommit
  /\ LET write == program[rob[commit_ptr].ins].write
     IN IF write = NoAddr
        THEN UNCHANGED memVars
        ELSE AddTo(WithoutStore(write), -1, write, TRUE)
  /\ rob' = [rob EXCEPT ![commit_ptr].status = Committed]
  /\ num_inst_commited' = num_inst_commited + 1
  /\ reg_alias_table' = WithoutSlot(commit_ptr)
  /\ do_commit
  /\ Again
  /\ UNCHANGED <<stationVars, frontVars, execution_unit, completed_inst, penalty>>

EndCommit ==
  /\ stage = "commit" /\ ~ CanCommit
  /\ Goto("completion")
  /\ UNCHANGED <<robVars, stationVars, memVars, frontVars, reg_alias_table,
                 execution_unit, completed_inst, num_inst_commited, penalty>>

\* broadcast_completed_LSQ: the caches answer a request.
MemoryAnswers(id) ==
  /\ stage \in {"start", "completion"}
  /\ id \in sent
  /\ sent' = sent \ {id}
  /\ LET found == {i \in DOMAIN load_store_queue : load_store_queue[i].id = id}
         i == Min(found)
         s == load_store_queue[i].station
     IN IF found = {}
        THEN UNCHANGED <<load_store_queue, reservation_station, ready_queue>>
        ELSE /\ load_store_queue' = RemoveAt(load_store_queue, i)
             /\ IF s = -1
                THEN UNCHANGED <<reservation_station, ready_queue>>
                ELSE /\ reservation_station' =
                          [reservation_station EXCEPT
                             ![s] = AnswerOperands(@, load_store_queue[i].addr)]
                     /\ ready_queue' =
                          PushIfCleared(ready_queue, reservation_station', s)
  /\ UNCHANGED <<robVars, aged, pending_load_store, ld_str_id,
                 num_ld_str_inCycle, frontVars, reg_alias_table, execution_unit,
                 completed_inst, num_inst_commited, penalty, stage, count>>

\* load_store_completion: the other answers have not come yet.
EndCompletion ==
  /\ stage = "completion"
  /\ Goto("pending")
  /\ UNCHANGED <<robVars, stationVars, memVars, frontVars, reg_alias_table,
                 execution_unit, completed_inst, num_inst_commited, penalty>>

-------------------------------------------------------------------------------
\* update_load_store_queue: the oldest pending load or store.
PendingMoves ==
  pending_load_store # <<>> /\ RoomInLSQ(load_store_queue)

\* Its station, with the value a store in the queue forwards.
PendingStation ==
  LET e == Head(pending_load_store) IN
  IF found_in_LSQ(e.addr)
  THEN AnswerOperands(reservation_station[e.station], e.addr)
  ELSE reservation_station[e.station]

PendingCleared ==
  Head(pending_load_store).station # -1 /\ Cleared(PendingStation)

\* An instruction that is ready ends the stage and its load stays among the
\* pending; the others go to the caches.
Pending ==
  /\ stage = "pending" /\ PendingMoves
  /\ LET e == Head(pending_load_store) IN
     /\ reservation_station' =
          IF e.station = -1 THEN reservation_station
          ELSE [reservation_station EXCEPT ![e.station] = PendingStation]
     /\ IF PendingCleared
        THEN /\ ready_queue' = PushIfCleared(ready_queue, reservation_station',
                                             e.station)
             /\ Goto("age")
             /\ UNCHANGED memVars
        ELSE /\ load_store_queue' = Append(load_store_queue, e)
             /\ pending_load_store' = Tail(pending_load_store)
             /\ num_ld_str_inCycle' = num_ld_str_inCycle + 1
             /\ sent' = sent \union {e.id}
             /\ UNCHANGED <<ld_str_id, ready_queue, stage, count>>
  /\ UNCHANGED <<robVars, aged, frontVars, reg_alias_table, execution_unit,
                 completed_inst, num_inst_commited, penalty>>

EndPending ==
  /\ stage = "pending" /\ ~ PendingMoves
  /\ Goto("age")
  /\ UNCHANGED <<robVars, stationVars, memVars, frontVars, reg_alias_table,
                 execution_unit, completed_inst, num_inst_commited, penalty>>

\* update_ready_queue, update_exec_units, num_ld_str_inCycle = 0; common_clock.
Age ==
  /\ stage = "age"
  /\ aged' = [t \in Types |-> ready_queue[t] # <<>>]
  /\ execution_unit' =
       [t \in Types |-> [i \in DOMAIN execution_unit[t] |->
          [execution_unit[t][i] EXCEPT !.cycles = @ + 1]]]
  /\ num_ld_str_inCycle' = 0
  /\ decode_buffer' = OneCycle(decode_buffer)
  /\ Goto("start")
  /\ UNCHANGED <<robVars, reservation_station, ready_queue, load_store_queue,
                 pending_load_store, ld_str_id, sent, program, num_inst_fetched,
                 reg_alias_table, completed_inst, num_inst_commited, penalty>>

-------------------------------------------------------------------------------
\* update_core
Core ==
  \/ Stalled \/ Begin \/ EndDecode \/ Issue \/ EndIssue
  \/ \E t \in Types : DispatchStalls(t) \/ Dispatch(t) \/ DispatchNothing(t)
  \/ \E t \in Types : Complete(t) \/ CompleteNothing(t)
  \/ CompleteAGU
  \/ Broadcast \/ EndBroadcast \/ Commit \/ EndCommit \/ EndCompletion
  \/ Pending \/ EndPending \/ Age

\* A load or store per operand and per instruction.
Ids == 0 .. 3 * Len(program)

Answer == \E id \in Ids : MemoryAnswers(id)

Next == Core \/ Decode \/ Answer

Spec == Init /\ [][Next]_vars

\* The thread of the node calls update_core in every cycle; a fetch is over in
\* the end, and the caches answer every request in the end.
FairSpec == Spec /\ WF_vars(Core) /\ SF_vars(Decode) /\ SF_vars(Answer)

-------------------------------------------------------------------------------
\* Every variable has its type, and no queue of a limited size exceeds it: the
\* decode buffer, the execution units, the load/store queue, the loads and
\* stores of a cycle (one more than ld_str_width, from the <= of the code).
CoreTypeOK ==
  /\ rob \in [Slots -> [ins : 0 .. Len(program), status : -1 .. Committed,
                        deps : Seq(Stations)]]
  /\ issue_ptr \in Slots \union {-1} /\ commit_ptr \in Slots \union {-1}
  /\ num_inst_fetched \in 0 .. Len(program)
  /\ Len(decode_buffer) <= decode_buffer_size
  /\ reg_alias_table \in [Regs -> Slots \union {-1}]
  /\ \A s \in Stations :
       /\ reservation_station[s].reg \in [Regs -> Slots \union {-1, -2}]
       /\ reservation_station[s].mem \in
            [1 .. 2 -> {Answered, Unborn, Asked}]
  /\ ready_queue \in [Types -> Seq(Stations)]
  /\ \A t \in Types : Len(execution_unit[t]) <= num_exec_units
  /\ Len(load_store_queue) <= LSQ_Size
  /\ ld_str_id \in Ids
  /\ num_ld_str_inCycle \in 0 .. ld_str_width + 1
  /\ sent \subseteq Ids
  /\ num_inst_commited \in 0 .. num_inst_fetched
  /\ penalty \in 0 .. branch_penalty

Occurrences(q, s) == Cardinality({i \in DOMAIN q : q[i] = s})

\* The slots of the units at work, and those about to be broadcast.
Executing ==
  {<<"unit", t, i>> : t \in Types \ {AGU}, i \in 1 .. num_exec_units}
  \union {<<"done", 0, i>> : i \in 1 .. ROB_Size}

SlotOf(e) ==
  IF e[1] = "unit"
  THEN IF e[3] \in DOMAIN execution_unit[e[2]]
       THEN execution_unit[e[2]][e[3]].rob ELSE -1
  ELSE IF e[3] \in DOMAIN completed_inst
       THEN completed_inst[e[3]] ELSE -1

\* An instruction is in one place: while it is issued, one reservation station
\* holds it; once dispatched, one unit, of its own type, works on it or its
\* completion is about to be broadcast.  No unit works for a slot of the
\* reorder buffer that has been given to another instruction.
SlotsAgree ==
  /\ \A s \in Stations : reservation_station[s].valid =>
       LET k == reservation_station[s].rob IN
       /\ k \in InUse
       /\ rob[k].status = Issued
       /\ rob[k].ins = reservation_station[s].ins
  /\ \A k \in InUse :
       /\ rob[k].status = Issued =>
            Cardinality({s \in Stations : reservation_station[s].valid /\
                                          reservation_station[s].rob = k}) = 1
       /\ rob[k].status = Dispatched =>
            Cardinality({e \in Executing : SlotOf(e) = k}) = 1
  /\ \A e \in Executing :
       SlotOf(e) # -1 =>
         /\ SlotOf(e) \in InUse
         /\ \/ rob[SlotOf(e)].status = Dispatched
            \/ stage = "broadcast" /\ SlotOf(e) = Head(completed_inst)

\* Whatever an instruction waits for is on its way, and wakes it up once: the
\* producer of a register is in use and knows the station once per register
\* that waits; an operand whose address is not generated has its turn in the
\* AGU; one that was asked for is in the load/store queue or pending, once; an
\* instruction that waits for nothing is ready, once, and no other is.
NoLostWakeUp ==
  \A s \in Stations : reservation_station[s].valid =>
    LET st == reservation_station[s] IN
    /\ \A k \in Slots :
         Occurrences(rob[k].deps, s) = Cardinality({r \in Regs : st.reg[r] = k})
    /\ \A r \in Regs : st.reg[r] # -1 =>
         st.reg[r] \in InUse /\ st.reg[r] # st.rob
    /\ Occurrences(ready_queue[AGU], s)
         + Cardinality({i \in DOMAIN execution_unit[AGU] :
                          execution_unit[AGU][i].station = s})
       = Cardinality({i \in 1 .. 2 : st.mem[i] = Unborn})
    /\ \A i \in 1 .. 2 : st.mem[i] = Asked =>
         LET asks(e) == e.station = s /\ e.addr = st.addr[i] IN
         Cardinality({j \in DOMAIN load_store_queue : asks(load_store_queue[j])})
         + Cardinality({j \in DOMAIN pending_load_store :
                          asks(pending_load_store[j])}) = 1
    /\ \A t \in Types \ {AGU} :
         Occurrences(ready_queue[t], s) =
           IF Cleared(st) /\ t = st.type THEN 1 ELSE 0

\* The register an instruction reads is read after the last older instruction
\* that writes it has executed, in whatever order they were dispatched: by its
\* entry, and with no station that still holds it, whatever its entry says.
LastWriter(n, r) ==
  {i \in 1 .. n - 1 : /\ r \in program[i].wr
                      /\ \A j \in i + 1 .. n - 1 : r \notin program[j].wr}

HasExecuted(n) ==
  \/ n <= num_inst_commited
  \/ \E k \in InUse : rob[k].ins = n /\ rob[k].status = Executed

InStation(n) ==
  \E s \in Stations : reservation_station[s].valid /\ reservation_station[s].ins = n

ReadsLastWrite ==
  \A s \in Stations : reservation_station[s].valid =>
    LET n == reservation_station[s].ins IN
    \A r \in program[n].rr :
      reservation_station[s].reg[r] = -1 =>
        \A i \in LastWriter(n, r) : HasExecuted(i) /\ ~ InStation(i)

\* The reorder buffer is a queue of ROB_Size instructions: none is overwritten,
\* skipped or committed twice, wherever the two pointers stand.
Fifo == INSTANCE BoundedQueue WITH
  Elements <- UNION {1 .. Len(p) : p \in Programs}, Capacity <- ROB_Size,
  queue <- [i \in DOMAIN Contents |-> Contents[i].ins]

RobIsFifo == Fifo!Spec

\* Every program is executed to its end, and its loads and stores are answered.
ProgramCompletes ==
  <>[](/\ num_inst_commited = Len(program)
       /\ load_store_queue = <<>> /\ pending_load_store = <<>>)
===============================================================================
