------------------------- MODULE PipelineUndoProofs -------------------------
(***************************************************************************)
(* Proofs about the debugger of the pipelined machine: for every program,  *)
(* configuration and arithmetic, any limit of the undo stack and any       *)
(* number of steps, undos, resets and stops.                               *)
(*                                                                         *)
(* What holds of the machine must hold of every machine that Undo can show *)
(* again, so the invariant speaks of all of them (ShownAt), and of the     *)
(* deltas that lead from each to the one before it (Restores), the         *)
(* registers aside that a step wrote before it threw (lost).               *)
(***************************************************************************)
EXTENDS PipelineUndo, PipelineProofs

----------------------------------------------------------------------------
(* The machines that are shown *)

Machines ==
  [pc : 0..Len(prog),
   if_id : [valid : BOOLEAN, pc : 0..Len(prog), instr : Instr],
   id_ex : [valid : BOOLEAN, pc : 0..Len(prog), instr : Instr,
            reg1_value : Word, reg2_value : Word],
   ex_mem : [valid : BOOLEAN, pc : 0..Len(prog), instr : Instr,
             alu_result : Word, reg2_value : Word],
   mem_wb : [valid : BOOLEAN, pc : 0..Len(prog), instr : Instr, reg_write : BOOLEAN,
             alu_result : Word, mem_data : Word],
   gpr : [RegNum -> Word], fpr : [RegNum -> Word], fcsr : Word, mem : Mem,
   instructions_retired : Nat, cycle_s : Nat, stall_cycles : Nat]

RegisterChanges == UNION {[S -> Word] : S \in SUBSET Registers}

Deltas ==
  [old_pc : 0..Len(prog),
   old_if_id : [valid : BOOLEAN, pc : 0..Len(prog), instr : Instr],
   old_id_ex : [valid : BOOLEAN, pc : 0..Len(prog), instr : Instr,
                reg1_value : Word, reg2_value : Word],
   old_ex_mem : [valid : BOOLEAN, pc : 0..Len(prog), instr : Instr,
                 alu_result : Word, reg2_value : Word],
   old_mem_wb : [valid : BOOLEAN, pc : 0..Len(prog), instr : Instr, reg_write : BOOLEAN,
                 alu_result : Word, mem_data : Word],
   old_cycle : Nat, old_instructions_retired : Nat, old_stall_cycles : Nat,
   register_changes : RegisterChanges, memory_change : MemoryChanges]

\* the k-th machine shown, the current one last
ShownAt(k) == IF k <= Len(past) THEN past[k] ELSE Machine

\* the program counters of PipelineCorrect, of any machine
Decoded(m)   == Before(m.if_id, m.pc)
Committed(m) == Before(m.id_ex, Decoded(m))
Stored(m)    == Before(m.ex_mem, Committed(m))
Retired(m)   == Before(m.mem_wb, Stored(m))

\* the instruction in l is the one of the text section p at n
At(p, l, n) == l.valid => l.pc = n /\ n < Len(p) /\ l.instr = p[n + 1]

ThrowsIn(m) ==
  /\ m.ex_mem.valid
  /\ MemRead(m.ex_mem.instr) \/ MemWrite(m.ex_mem.instr)
  /\ ~AlignmentFault(m.ex_mem)
  /\ OutOfRange(m.ex_mem.instr, m.ex_mem.alu_result)

Ordered(p, m) ==
  /\ m.instructions_retired <= Retired(m) \/ ThrowsIn(m)
  /\ At(p, m.mem_wb, Retired(m)) /\ At(p, m.ex_mem, Stored(m))
  /\ At(p, m.id_ex, Committed(m)) /\ At(p, m.if_id, Decoded(m))

Counted(p, m) == m.pc < Len(p) => m.cycle_s <= m.pc + m.stall_cycles

\* the registers of RV32 are narrow, so that writing an old value again restores it
Masked(m) == \A r \in RegNum : GprMask(m.gpr[r]) = m.gpr[r]

AllFetched(m) == Fetched(m.if_id) /\ Fetched(m.id_ex) /\ Fetched(m.ex_mem) /\ Fetched(m.mem_wb)

\* what is true of every machine shown
Sound(p, m) == AllFetched(m) /\ Ordered(p, m) /\ Counted(p, m) /\ Masked(m)

\* Undo of the delta d shows the machine m in place of n, but for fcsr and the
\* registers in l
Restores(l, d, n, m) ==
  /\ d.old_pc = m.pc /\ d.old_if_id = m.if_id /\ d.old_id_ex = m.id_ex
  /\ d.old_ex_mem = m.ex_mem /\ d.old_mem_wb = m.mem_wb
  /\ d.old_cycle = m.cycle_s /\ d.old_instructions_retired = m.instructions_retired
  /\ d.old_stall_cycles = m.stall_cycles
  /\ \A r \in RegNum :
       /\ <<"GPR", r>> \notin l => UndoGpr(d.register_changes, n.gpr)[r] = m.gpr[r]
       /\ <<"FPR", r>> \notin l => UndoFpr(d.register_changes, n.fpr)[r] = m.fpr[r]
  /\ UndoMem(d.memory_change, n.mem) = m.mem

\* a register file that differs from g in registers of l only
AgreeOff(l, bank, g, h) == \A r \in RegNum : <<bank, r>> \notin l => h[r] = g[r]

\* the same machine but for its registers
Alike(m, n) ==
  /\ n.pc = m.pc /\ n.if_id = m.if_id /\ n.id_ex = m.id_ex
  /\ n.ex_mem = m.ex_mem /\ n.mem_wb = m.mem_wb /\ n.mem = m.mem
  /\ n.instructions_retired = m.instructions_retired
  /\ n.cycle_s = m.cycle_s /\ n.stall_cycles = m.stall_cycles

States ==
  /\ program \in Programs
  /\ prog = program \/ prog = [k \in 1..Len(program) |-> NoInstr]
  /\ Machine \in Machines
  /\ stop_requested \in BOOLEAN
  /\ output_status \in {"VM_PROGRAM_LOADED", "VM_PROGRAM_END", "VM_ALIGNMENT_FAULT"}
  /\ past \in Seq(Machines) /\ undo_stack \in Seq(Deltas)
  /\ Len(undo_stack) = Len(past)
  /\ current_changes \in RegisterChanges
  /\ DOMAIN current_changes \subseteq lost /\ lost \subseteq Registers

Chain == \A k \in 1..Len(past) : Restores(lost, undo_stack[k], ShownAt(k + 1), past[k])

DebugInv ==
  /\ States
  /\ \A k \in 1..Len(past) : Sound(prog, past[k])
  /\ Sound(prog, Machine)
  /\ Chain

----------------------------------------------------------------------------
(* One step *)

\* Whatever is loaded or cleared is a text section of instructions.
LEMMA TextSection ==
  ASSUME States
  PROVE  /\ prog \in Seq(InstrSet) /\ Len(prog) \in Nat
         /\ \A n \in 0..Len(prog) : PcWord(n) \in Word
<1>1. program \in Seq(InstrSet) /\ \A n \in 0..Len(program) : PcWord(n) \in Word
  BY ConstantTypes, UnitTypes DEF States
<1>2. CASE prog = program
  BY <1>1, <1>2
<1>3. CASE prog = [k \in 1..Len(program) |-> NoInstr]
  BY <1>1, <1>3, ResetValues
<1> QED
  BY <1>2, <1>3 DEF States

\* The machine shown has the types of the pipelined machine.
LEMMA ShownTyped ==
  ASSUME States, AllFetched(Machine)
  PROVE  Typed
<1>1. /\ pc \in 0..Len(prog)
      /\ if_id \in [valid : BOOLEAN, pc : 0..Len(prog), instr : Instr]
      /\ id_ex \in [valid : BOOLEAN, pc : 0..Len(prog), instr : Instr,
                    reg1_value : Word, reg2_value : Word]
      /\ ex_mem \in [valid : BOOLEAN, pc : 0..Len(prog), instr : Instr,
                     alu_result : Word, reg2_value : Word]
      /\ mem_wb \in [valid : BOOLEAN, pc : 0..Len(prog), instr : Instr, reg_write : BOOLEAN,
                     alu_result : Word, mem_data : Word]
      /\ gpr \in [RegNum -> Word] /\ fpr \in [RegNum -> Word] /\ fcsr \in Word /\ mem \in Mem
      /\ instructions_retired \in Nat /\ cycle_s \in Nat
  BY DEF States, Machines, Machine
<1>2. Fetched(if_id) /\ Fetched(id_ex) /\ Fetched(ex_mem) /\ Fetched(mem_wb)
  BY DEF AllFetched, Machine
<1> QED
  BY <1>1, <1>2, TextSection DEF Typed, LatchTypes, States

\* And the other way round, after a step.
LEMMA TypedShown ==
  ASSUME Typed', (stall_cycles \in Nat)'
  PROVE  (Machine \in Machines /\ AllFetched(Machine))'
<1>1. (Machine \in Machines)'
  BY DEF Typed, LatchTypes, Machine, Machines
<1>2. AllFetched(Machine)'
  BY DEF Typed, LatchTypes, Machine, AllFetched
<1> QED
  BY <1>1, <1>2

\* The order of the machine shown is StepInOrder.
LEMMA ShownOrdered ==
  /\ Ordered(prog, Machine) <=> StepInOrder
  /\ (Ordered(prog, Machine) <=> StepInOrder)'
  BY DEF Ordered, ThrowsIn, Throws, At, HoldsInOrder, StepInOrder, Machine, Decoded, Committed, Stored, Retired,
         DecodedPc, CommittedPc, MemoryPc, RetiredPc

\* The statistics of the machine shown are StallsCounted.
LEMMA ShownCounted ==
  /\ Counted(prog, Machine) <=> StallsCounted
  /\ (Counted(prog, Machine) <=> StallsCounted)'
  BY DEF Counted, StallsCounted, FetchRemaining, Machine

\* A step keeps the order, a misaligned access included.
LEMMA StepKeepsOrder ==
  ASSUME Typed, StepInOrder, Stages, ~Throws
  PROVE  StepInOrder'
<1>1. /\ prog' = prog /\ Len(prog) \in Nat /\ pc \in 0..Len(prog)
      /\ instructions_retired \in Nat
      /\ instructions_retired' =
           IF mem_wb.valid THEN instructions_retired + 1 ELSE instructions_retired
  BY ProgLength DEF Stages, Typed
<1>2. /\ CommittedPc' = DecodedPc /\ MemoryPc' = CommittedPc
      /\ RetiredPc' = IF AlignmentFault(ex_mem) THEN CommittedPc ELSE MemoryPc
      /\ DecodedPc' = IF Stall(if_id) THEN DecodedPc ELSE pc
  BY StagesMove
<1>3. /\ instructions_retired <= RetiredPc
      /\ HoldsInOrder(mem_wb, RetiredPc) /\ HoldsInOrder(ex_mem, MemoryPc)
      /\ HoldsInOrder(id_ex, CommittedPc) /\ HoldsInOrder(if_id, DecodedPc)
  BY DEF StepInOrder
<1>4. instructions_retired' <= RetiredPc'
  <2>1. /\ RetiredPc = (IF mem_wb.valid THEN MemoryPc - 1 ELSE MemoryPc)
        /\ MemoryPc = (IF ex_mem.valid THEN CommittedPc - 1 ELSE CommittedPc)
        /\ CommittedPc \in Int
    BY <1>1 DEF RetiredPc, MemoryPc, CommittedPc, DecodedPc, Before
  <2> QED
    BY <1>1, <1>2, <1>3, <2>1
<1>5. HoldsInOrder(mem_wb, RetiredPc)' /\ HoldsInOrder(ex_mem, MemoryPc)'
  <2>1. mem_wb'.valid => ~AlignmentFault(ex_mem) /\ mem_wb'.pc = ex_mem.pc
                         /\ mem_wb'.instr = ex_mem.instr /\ ex_mem.valid
    BY DEF Stages, MemStage, MEM_WB
  <2>2. ex_mem'.valid => ex_mem'.pc = id_ex.pc /\ ex_mem'.instr = id_ex.instr /\ id_ex.valid
    BY DEF Stages, ExStage, EX_MEM
  <2> QED
    BY <1>1, <1>2, <1>3, <2>1, <2>2 DEF HoldsInOrder
<1>6. HoldsInOrder(id_ex, CommittedPc)'
  BY <1>1, <1>2, <1>3 DEF HoldsInOrder, Stages, IdStage, ID_EX
<1>7. HoldsInOrder(if_id, DecodedPc)'
  BY <1>1, <1>2, <1>3 DEF HoldsInOrder, Stages, IfStage, IF_ID, Fetching
<1> QED
  BY <1>4, <1>5, <1>6, <1>7 DEF StepInOrder

\* A cycle in which the machine could fetch and did not is counted.
LEMMA StepKeepsCount ==
  ASSUME Typed, StallsCounted, stall_cycles \in Nat, Stages, stall_cycles' = StallCycles
  PROVE  StallsCounted' /\ stall_cycles' \in Nat
<1>1. /\ prog' = prog /\ Len(prog) \in Nat /\ pc \in 0..Len(prog) /\ cycle_s \in Nat
      /\ cycle_s' = cycle_s + 1
  BY ProgLength DEF Stages, Typed
<1>2. pc' = IF ~Stall(if_id) /\ pc < Len(prog) THEN pc + 1 ELSE pc
  BY StagesShift
<1> QED
  BY <1>1, <1>2 DEF StallsCounted, FetchRemaining, StallCycles

\* What WB writes is masked.
LEMMA StepKeepsMask ==
  ASSUME Typed, Masked(Machine), gpr' = WbGpr(mem_wb, gpr)
  PROVE  Masked(Machine)'
<1>1. /\ gpr \in [RegNum -> Word] /\ gpr' = WbGpr(mem_wb, gpr)
      /\ WriteValue(mem_wb) \in Word
      /\ \A r \in RegNum : GprMask(gpr[r]) = gpr[r]
  BY DEF Typed, LatchTypes, WriteValue, Masked, Machine
<1>2. GprMask(GprMask(WriteValue(mem_wb))) = GprMask(WriteValue(mem_wb))
  BY <1>1, UnitTypes
<1>3. \A r \in RegNum : GprMask(gpr'[r]) = gpr'[r]
  BY <1>1, <1>2 DEF WbGpr, WriteGpr
<1> QED
  BY <1>3 DEF Masked, Machine

\* A step of a sound machine leaves a sound machine.
LEMMA StepSound ==
  ASSUME States, Sound(prog, Machine), StepCycle
  PROVE  /\ Typed
         /\ Machine' \in Machines /\ Sound(prog, Machine)'
         /\ Machines' = Machines /\ Deltas' = Deltas
<1>1. Typed /\ stall_cycles \in Nat
  BY ShownTyped DEF Sound, States, Machines, Machine
<1>2. StallsCounted' /\ stall_cycles' \in Nat
  BY <1>1, StepKeepsCount, ShownCounted DEF StepCycle, Sound
<1>3. Machine' \in Machines' /\ AllFetched(Machine)'
  BY <1>1, <1>2, StagesType, TypedShown DEF StepCycle
<1>4. Ordered(prog, Machine)' /\ Counted(prog, Machine)' /\ Masked(Machine)'
  <2>1. gpr' = WbGpr(mem_wb, gpr)
    BY DEF StepCycle, Stages
  <2> QED
    BY <1>1, <1>2, <2>1, StepKeepsOrder, StepKeepsMask, ShownOrdered, ShownCounted
       DEF StepCycle, Sound
<1>5. Machines' = Machines /\ Deltas' = Deltas
  BY DEF StepCycle, Stages, Machines, Deltas, RegisterChanges, MemoryChanges
<1> QED
  BY <1>1, <1>3, <1>4, <1>5 DEF Sound

----------------------------------------------------------------------------
(* The delta of a step leads back *)

\* WB writes the register it records, and no other.
LEMMA WbWritesWritten ==
  ASSUME Typed
  PROVE  /\ Written \subseteq Registers
         /\ WbGpr(mem_wb, gpr) \in [RegNum -> Word]
         /\ WbFpr(mem_wb, fpr) \in [RegNum -> Word]
         /\ \A r \in RegNum :
              /\ <<"GPR", r>> \notin Written \/ r = 0 => WbGpr(mem_wb, gpr)[r] = gpr[r]
              /\ <<"FPR", r>> \notin Written => WbFpr(mem_wb, fpr)[r] = fpr[r]
<1> DEFINE rd == mem_wb.instr.rd
           g == WbGpr(mem_wb, gpr)
           f == WbFpr(mem_wb, fpr)
<1>1. /\ gpr \in [RegNum -> Word] /\ fpr \in [RegNum -> Word] /\ rd \in RegNum
      /\ g \in [RegNum -> Word] /\ f \in [RegNum -> Word]
  BY WbType DEF Typed, LatchTypes, Instr
<1>2. Written \subseteq Registers
  BY <1>1 DEF Written, Registers
<1>3. CASE ~WbWrites(mem_wb)
  BY <1>1, <1>2, <1>3 DEF WbGpr, WbFpr
<1>4. CASE WbWrites(mem_wb) /\ WbToFpr(mem_wb.instr)
  <2>1. Written = {<<"FPR", rd>>} /\ g = gpr
    BY <1>4 DEF Written, WbGpr
  <2>2. \A r \in RegNum : r # rd => f[r] = fpr[r]
    BY <1>1, <1>4 DEF WbFpr
  <2> QED
    BY <1>1, <1>2, <2>1, <2>2
<1>5. CASE WbWrites(mem_wb) /\ ~WbToFpr(mem_wb.instr)
  <2>1. Written = {<<"GPR", rd>>} /\ f = fpr
    BY <1>5 DEF Written, WbFpr
  <2>2. \A r \in RegNum : r # rd \/ r = 0 => g[r] = gpr[r]
    BY <1>1, <1>5 DEF WbGpr, WriteGpr
  <2> QED
    BY <1>1, <1>2, <2>1, <2>2
<1> QED
  BY <1>3, <1>4, <1>5

\* What WB records is added to what waits for the next delta.
LEMMA RecordedType ==
  ASSUME Typed, current_changes \in RegisterChanges
  PROVE  /\ RegisterChange \in RegisterChanges /\ DOMAIN RegisterChange = Written
         /\ Recorded \in RegisterChanges
         /\ DOMAIN Recorded = DOMAIN current_changes \union Written
         /\ \A x \in Written : Recorded[x] = RegisterChange[x]
<1>1. /\ gpr \in [RegNum -> Word] /\ fpr \in [RegNum -> Word]
      /\ Written \subseteq Registers
  BY WbWritesWritten DEF Typed, LatchTypes
<1>2. \A x \in Written : /\ x[2] \in RegNum /\ fpr[x[2]] \in Word
                         /\ ReadGpr(gpr, x[2]) \in Word
  BY <1>1, ConstantTypes, UnitTypes DEF Registers, ReadGpr
<1>3. RegisterChange \in [Written -> Word]
  BY <1>2 DEF RegisterChange
<1>4. PICK S \in SUBSET Registers : current_changes \in [S -> Word]
  BY DEF RegisterChanges
<1>5. Recorded \in [S \union Written -> Word]
  BY <1>3, <1>4 DEF Recorded
<1>6. \A x \in Written : Recorded[x] = RegisterChange[x]
  BY <1>3 DEF Recorded
<1> QED
  BY <1>1, <1>3, <1>4, <1>5, <1>6 DEF RegisterChanges

\* Undoing what is recorded undoes what WB does, but for what a step that threw
\* had written.
LEMMA RegistersRestored ==
  ASSUME Typed, Masked(Machine), Stages,
         current_changes \in RegisterChanges, DOMAIN current_changes \subseteq lost,
         NEW r \in RegNum
  PROVE  /\ <<"GPR", r>> \notin lost => UndoGpr(Recorded, gpr')[r] = gpr[r]
         /\ <<"FPR", r>> \notin lost => UndoFpr(Recorded, fpr')[r] = fpr[r]
<1>1. /\ gpr \in [RegNum -> Word] /\ GprMask(gpr[r]) = gpr[r]
      /\ gpr' = WbGpr(mem_wb, gpr) /\ fpr' = WbFpr(mem_wb, fpr)
  BY DEF Typed, LatchTypes, Masked, Machine, Stages
<1>2. /\ <<"GPR", r>> \notin Written \/ r = 0 => gpr'[r] = gpr[r]
      /\ <<"FPR", r>> \notin Written => fpr'[r] = fpr[r]
  BY <1>1, WbWritesWritten
<1>3. /\ DOMAIN Recorded = DOMAIN current_changes \union Written
      /\ \A x \in Written : Recorded[x] = RegisterChange[x]
  BY RecordedType
<1>4. ASSUME <<"GPR", r>> \notin lost PROVE UndoGpr(Recorded, gpr')[r] = gpr[r]
  <2>1. <<"GPR", r>> \in DOMAIN Recorded <=> <<"GPR", r>> \in Written
    BY <1>3, <1>4
  <2>2. <<"GPR", r>> \in Written => Recorded[<<"GPR", r>>] = ReadGpr(gpr, r)
    BY <1>3 DEF RegisterChange
  <2> QED
    BY <1>1, <1>2, <2>1, <2>2 DEF UndoGpr, ReadGpr
<1>5. ASSUME <<"FPR", r>> \notin lost PROVE UndoFpr(Recorded, fpr')[r] = fpr[r]
  <2>1. <<"FPR", r>> \in DOMAIN Recorded <=> <<"FPR", r>> \in Written
    BY <1>3, <1>5
  <2>2. <<"FPR", r>> \in Written => Recorded[<<"FPR", r>>] = fpr[r]
    BY <1>3 DEF RegisterChange
  <2> QED
    BY <1>2, <2>1, <2>2 DEF UndoFpr
<1> QED
  BY <1>4, <1>5

\* What MEM records has the types of a memory change, and undoes the store.
LEMMA MemoryRestored ==
  ASSUME Typed, Stages, ~Throws
  PROVE  /\ MemoryChange \in MemoryChanges
         /\ UndoMem(MemoryChange, mem') = mem
<1> DEFINE i == ex_mem.instr
           a == ex_mem.alu_result
           v == IF IsFloat(i) THEN Low(ex_mem.reg2_value) ELSE ex_mem.reg2_value
<1>1. /\ mem \in Mem /\ a \in Word /\ v \in Word
      /\ ex_mem.valid => i \in InstrSet
      /\ mem' = MemMem(ex_mem, mem)
  BY UnitTypes DEF Typed, LatchTypes, Fetched, Stages
<1>2. CASE ex_mem.valid /\ MemWrite(i) /\ ~AlignmentFault(ex_mem)
  <2>1. MemoryChange = [written |-> TRUE, instr |-> i, address |-> a,
                        old_bytes |-> OldBytes(i, mem, a)]
    BY <1>2 DEF MemoryChange
  <2>2. mem' = Store(i, mem, a, v)
    BY <1>1, <1>2 DEF MemMem
  <2>3. OldBytes(i, mem, a) \in Word
    BY <1>1, <1>2, DebugTypes
  <2>4. Store(i, mem', a, OldBytes(i, mem, a)) = mem
    BY <1>1, <1>2, <2>2, BytesRestore DEF Throws
  <2> QED
    BY <1>1, <1>2, <2>1, <2>3, <2>4 DEF MemoryChanges, UndoMem
<1>3. CASE ~(ex_mem.valid /\ MemWrite(i) /\ ~AlignmentFault(ex_mem))
  <2>1. MemoryChange = NoStore
    BY <1>3 DEF MemoryChange
  <2>2. mem' = mem
    BY <1>1, <1>3 DEF MemMem
  <2> QED
    BY <1>1, <2>1, <2>2, ConstantTypes DEF NoStore, MemoryChanges, UndoMem
<1> QED
  BY <1>2, <1>3

\* Step records enough.
LEMMA StepRestores ==
  ASSUME Typed, Masked(Machine), stall_cycles \in Nat, Stages, ~Throws,
         current_changes \in RegisterChanges, DOMAIN current_changes \subseteq lost
  PROVE  Delta \in Deltas /\ Restores(lost, Delta, Machine', Machine)
<1>1. /\ Recorded \in RegisterChanges /\ MemoryChange \in MemoryChanges
      /\ UndoMem(MemoryChange, mem') = mem
  BY RecordedType, MemoryRestored
<1>2. Delta \in Deltas
  BY <1>1 DEF Delta, Deltas, Typed, LatchTypes
<1>3. \A r \in RegNum :
        /\ <<"GPR", r>> \notin lost => UndoGpr(Recorded, gpr')[r] = gpr[r]
        /\ <<"FPR", r>> \notin lost => UndoFpr(Recorded, fpr')[r] = fpr[r]
  BY RegistersRestored
<1>4. Restores(lost, Delta, Machine', Machine)
  BY <1>1, <1>3 DEF Restores, Delta, Machine
<1> QED
  BY <1>2, <1>4

\* Two ways of turning a stack round at the limit leave it as it was.
LEMMA PushAppends ==
  ASSUME NEW S, NEW s \in Seq(S), NEW d
  PROVE  PushDelta(s, d) = Append(s, d)
<1>1. Reverse(s) \in Seq(S) /\ Len(Reverse(s)) = Len(s)
      /\ \A k \in 1..Len(s) : Reverse(s)[k] = s[Len(s) - k + 1]
  BY DEF Reverse
<1>2. Reverse(Reverse(s)) = s
  <2>1. Reverse(Reverse(s)) = [k \in 1..Len(s) |-> Reverse(s)[Len(s) - k + 1]]
    BY <1>1 DEF Reverse
  <2>2. \A k \in 1..Len(s) : Reverse(s)[Len(s) - k + 1] = s[k]
    BY <1>1
  <2>3. s = [k \in 1..Len(s) |-> s[k]]
    OBVIOUS
  <2> QED
    BY <2>1, <2>2, <2>3
<1> QED
  BY <1>2 DEF PushDelta

----------------------------------------------------------------------------
(* The invariant *)

\* Nothing waits for the next delta after a step or a reset.
LEMMA NoChangesType == NoChanges \in RegisterChanges /\ DOMAIN NoChanges = {}
<1>1. NoChanges \in [{} -> Word] /\ {} \in SUBSET Registers
  BY DEF NoChanges
<1> QED
  BY <1>1 DEF RegisterChanges, NoChanges

\* A step pushes the machine it leaves and the delta that leads back to it.
LEMMA StepInv ==
  ASSUME DebugInv, StepCycle, past' = Append(past, Machine), lost' = lost
  PROVE  DebugInv'
<1>1. /\ States /\ Chain /\ Sound(prog, Machine)
      /\ past \in Seq(Machines) /\ undo_stack \in Seq(Deltas) /\ Len(undo_stack) = Len(past)
      /\ Machine \in Machines /\ stall_cycles \in Nat
      /\ current_changes \in RegisterChanges /\ DOMAIN current_changes \subseteq lost
  BY DEF DebugInv, States, Machine, Machines
<1>2. /\ Typed /\ Machine' \in Machines /\ Sound(prog, Machine)'
      /\ Machines' = Machines /\ Deltas' = Deltas
  BY <1>1, StepSound
<1>3. Delta \in Deltas /\ Restores(lost, Delta, Machine', Machine)
  BY <1>1, <1>2, StepRestores DEF StepCycle, Sound
<1>4. undo_stack' = Append(undo_stack, Delta)
  BY <1>1, PushAppends DEF StepCycle
<1>5. /\ Len(past) \in Nat /\ Len(past') = Len(past) + 1 /\ Len(undo_stack') = Len(past) + 1
      /\ past' \in Seq(Machines) /\ undo_stack' \in Seq(Deltas)
      /\ \A k \in 1..Len(past) : past'[k] = past[k] /\ undo_stack'[k] = undo_stack[k]
      /\ past'[Len(past) + 1] = Machine /\ undo_stack'[Len(past) + 1] = Delta
  BY <1>1, <1>3, <1>4
<1>6. States'
  BY <1>1, <1>2, <1>5, StagesType, NoChangesType DEF States, StepCycle, Stages, Typed
<1>7. UNCHANGED prog
  BY DEF StepCycle, Stages
<1>8. \A k \in 1..Len(past') : Sound(prog', past'[k])
  <2>1. \A k \in 1..Len(past) : Sound(prog, past[k])
    BY DEF DebugInv
  <2>2. ASSUME NEW k \in 1..Len(past') PROVE Sound(prog', past'[k])
    <3>1. CASE k \in 1..Len(past)
      BY <1>5, <1>7, <2>1, <3>1
    <3>2. CASE k = Len(past) + 1
      BY <1>1, <1>5, <1>7, <3>2
    <3> QED
      BY <1>5, <3>1, <3>2
  <2> QED
    BY <2>2
<1>9. Chain'
  <2>1. ASSUME NEW k \in 1..Len(past')
        PROVE  Restores(lost', undo_stack'[k], ShownAt(k + 1)', past'[k])
    <3>1. CASE k < Len(past)
      <4>1. k \in 1..Len(past) /\ k + 1 \in 1..Len(past) /\ k + 1 <= Len(past')
        BY <1>5, <3>1
      <4> QED
        BY <1>1, <1>5, <4>1 DEF Chain, ShownAt
    <3>2. CASE k = Len(past)
      <4>1. ShownAt(k + 1)' = Machine /\ ShownAt(k + 1) = Machine
        BY <1>5, <3>2 DEF ShownAt
      <4> QED
        BY <1>1, <1>5, <3>2, <4>1 DEF Chain
    <3>3. CASE k = Len(past) + 1
      <4>1. ShownAt(k + 1)' = Machine'
        BY <1>5, <3>3 DEF ShownAt
      <4> QED
        BY <1>3, <1>5, <3>3, <4>1
    <3> QED
      BY <1>5, <3>1, <3>2, <3>3
  <2> QED
    BY <2>1 DEF Chain
<1> QED
  BY <1>2, <1>6, <1>8, <1>9 DEF DebugInv

\* At the end of the program a step changes nothing that is shown.
LEMMA EndInv ==
  ASSUME DebugInv, StepEnd, UNCHANGED <<past, lost>>
  PROVE  DebugInv'
<1>1. UNCHANGED <<vars, program, stall_cycles, undo_stack, current_changes, past, lost>>
      /\ output_status' = "VM_PROGRAM_END"
  BY DEF StepEnd
<1>2. /\ Machine' = Machine /\ Machines' = Machines /\ Deltas' = Deltas
      /\ UNCHANGED <<prog, program, stop_requested, undo_stack, current_changes, past, lost>>
  BY <1>1 DEF vars, Machine, Machines, Deltas, RegisterChanges, MemoryChanges
<1>3. States'
  BY <1>1, <1>2 DEF DebugInv, States
<1>4. Sound(prog, Machine)' /\ (\A k \in 1..Len(past) : Sound(prog, past[k]))'
  BY <1>2 DEF DebugInv
<1>5. Chain'
  BY <1>2 DEF DebugInv, Chain, ShownAt
<1> QED
  BY <1>2, <1>3, <1>4, <1>5 DEF DebugInv

\* A step that throws writes no register but the lost ones.
LEMMA ThrowInv ==
  ASSUME DebugInv, StepThrows, lost' = lost \union Written, UNCHANGED past
  PROVE  DebugInv'
<1>1. /\ States /\ Chain /\ Sound(prog, Machine) /\ Typed
      /\ current_changes \in RegisterChanges /\ DOMAIN current_changes \subseteq lost
      /\ stall_cycles \in Nat
  BY ShownTyped DEF DebugInv, States, Sound, Machine, Machines
<1>2. /\ UNCHANGED <<prog, pc, if_id, id_ex, ex_mem, mem_wb, fcsr, mem, cycle_s,
                     stop_requested, program, stall_cycles, undo_stack, output_status, past>>
      /\ instructions_retired' \in Nat
      /\ current_changes' = Recorded
      /\ gpr' = WbGpr(mem_wb, gpr) /\ fpr' = WbFpr(mem_wb, fpr)
  BY <1>1 DEF StepThrows, latches, Typed
<1>3. /\ Written \subseteq Registers
      /\ gpr' \in [RegNum -> Word] /\ fpr' \in [RegNum -> Word]
      /\ AgreeOff(Written, "GPR", gpr, gpr') /\ AgreeOff(Written, "FPR", fpr, fpr')
  BY <1>1, <1>2, WbWritesWritten DEF AgreeOff
<1>4. Machines' = Machines /\ Deltas' = Deltas
  BY <1>2 DEF Machines, Deltas, RegisterChanges, MemoryChanges
<1>5. Machine' \in Machines
  BY <1>1, <1>2, <1>3 DEF States, Machine, Machines
<1>6. States'
  <2>1. Recorded \in RegisterChanges /\ DOMAIN Recorded \subseteq lost'
    BY <1>1, RecordedType
  <2>2. lost' \subseteq Registers
    BY <1>1, <1>3 DEF States
  <2> QED
    BY <1>1, <1>2, <1>4, <1>5, <2>1, <2>2 DEF States
<1>7. Sound(prog, Machine)'
  <2>1. Masked(Machine)'
    BY <1>1, <1>2, StepKeepsMask DEF Sound
  <2>2. ThrowsIn(Machine)
    BY DEF StepThrows, Throws, ThrowsIn, Machine
  <2>3. AllFetched(Machine)' /\ Ordered(prog, Machine)' /\ Counted(prog, Machine)'
    BY <1>1, <1>2, <2>2
       DEF Sound, AllFetched, Fetched, Ordered, ThrowsIn, AlignmentFault, Counted, At, Decoded,
           Committed, Stored, Retired, Machine
  <2> QED
    BY <2>1, <2>3 DEF Sound
<1>8. \A k \in 1..Len(past') : Sound(prog', past'[k])
  BY <1>2 DEF DebugInv
<1>9. Chain'
  <2>1. ASSUME NEW k \in 1..Len(past)
        PROVE  Restores(lost', undo_stack'[k], ShownAt(k + 1)', past'[k])
    <3>1. Restores(lost, undo_stack[k], ShownAt(k + 1), past[k])
      BY <1>1 DEF Chain
    <3>2. CASE k + 1 <= Len(past)
      <4>1. ShownAt(k + 1) = past[k + 1] /\ ShownAt(k + 1)' = past[k + 1]
        BY <1>2, <3>2 DEF ShownAt
      <4> QED
        BY <1>2, <3>1, <4>1 DEF Restores
    <3>3. CASE ~(k + 1 <= Len(past))
      <4>1. ShownAt(k + 1) = Machine /\ ShownAt(k + 1)' = Machine'
        BY <1>2, <3>3 DEF ShownAt
      <4>2. /\ Machine'.gpr = gpr' /\ Machine'.fpr = fpr' /\ Machine'.mem = mem
            /\ Machine.gpr = gpr /\ Machine.fpr = fpr /\ Machine.mem = mem
        BY <1>2 DEF Machine
      <4>3. ASSUME NEW r \in RegNum
            PROVE  /\ <<"GPR", r>> \notin lost'
                      => UndoGpr(undo_stack[k].register_changes, gpr')[r] = past[k].gpr[r]
                   /\ <<"FPR", r>> \notin lost'
                      => UndoFpr(undo_stack[k].register_changes, fpr')[r] = past[k].fpr[r]
        <5>1. /\ <<"GPR", r>> \notin lost'
                 => UndoGpr(undo_stack[k].register_changes, gpr)[r] = past[k].gpr[r]
              /\ <<"FPR", r>> \notin lost'
                 => UndoFpr(undo_stack[k].register_changes, fpr)[r] = past[k].fpr[r]
          BY <3>1, <4>1, <4>2 DEF Restores
        <5>2. /\ <<"GPR", r>> \notin lost' => gpr'[r] = gpr[r]
              /\ <<"FPR", r>> \notin lost' => fpr'[r] = fpr[r]
          BY <1>3, <4>3 DEF AgreeOff
        <5> QED
          BY <5>1, <5>2 DEF UndoGpr, UndoFpr
      <4> QED
        BY <1>2, <3>1, <4>1, <4>2, <4>3 DEF Restores
    <3> QED
      BY <3>2, <3>3
  <2> QED
    BY <1>2, <2>1 DEF Chain
<1> QED
  BY <1>6, <1>7, <1>8, <1>9 DEF DebugInv

\* Undo shows the last machine left, but for fcsr and the lost registers.
LEMMA UndoShows ==
  ASSUME DebugInv, Undo
  PROVE  /\ Len(past) \in 1..Len(past)
         /\ Alike(past[Len(past)], Machine') /\ Machine'.fcsr = fcsr
         /\ Machine'.gpr = gpr' /\ Machine'.fpr = fpr'
         /\ AgreeOff(lost, "GPR", past[Len(past)].gpr, gpr')
         /\ AgreeOff(lost, "FPR", past[Len(past)].fpr, fpr')
<1>1. Len(past) \in 1..Len(past) /\ Len(undo_stack) = Len(past)
      /\ past[Len(past)] \in Machines
  BY DEF DebugInv, States, Undo
<1>2. ShownAt(Len(past) + 1) = Machine
  BY <1>1 DEF ShownAt
<1>3. Restores(lost, undo_stack[Len(past)], Machine, past[Len(past)])
  BY <1>1, <1>2 DEF DebugInv, Chain
<1>4. Alike(past[Len(past)], Machine') /\ Machine'.fcsr = fcsr
      /\ Machine'.gpr = gpr' /\ Machine'.fpr = fpr'
  BY <1>1, <1>3 DEF Undo, Restores, Machine, Alike
<1>5. /\ AgreeOff(lost, "GPR", past[Len(past)].gpr, gpr')
      /\ AgreeOff(lost, "FPR", past[Len(past)].fpr, fpr')
  BY <1>1, <1>3 DEF Undo, Restores, Machine, AgreeOff
<1> QED
  BY <1>1, <1>4, <1>5

\* The registers that Undo leaves are words, masked as those it found.
LEMMA UndoRegisters ==
  ASSUME DebugInv, Undo
  PROVE  /\ gpr' \in [RegNum -> Word] /\ fpr' \in [RegNum -> Word]
         /\ \A r \in RegNum : GprMask(gpr'[r]) = gpr'[r]
<1> DEFINE c == undo_stack[Len(undo_stack)].register_changes
<1>1. /\ gpr \in [RegNum -> Word] /\ fpr \in [RegNum -> Word]
      /\ \A r \in RegNum : GprMask(gpr[r]) = gpr[r]
  BY DEF DebugInv, States, Machine, Machines, Sound, Masked
<1>2. undo_stack[Len(undo_stack)] \in Deltas
  BY DEF DebugInv, States, Undo
<1>3. PICK S \in SUBSET Registers : c \in [S -> Word]
  BY <1>2 DEF Deltas, RegisterChanges
<1>4. gpr' = UndoGpr(c, gpr) /\ fpr' = UndoFpr(c, fpr)
  BY DEF Undo
<1>5. \A x \in DOMAIN c : /\ c[x] \in Word /\ GprMask(c[x]) \in Word
                         /\ GprMask(GprMask(c[x])) = GprMask(c[x])
  BY <1>3, UnitTypes
<1> HIDE DEF c
<1> QED
  BY <1>1, <1>4, <1>5 DEF UndoGpr, UndoFpr

\* Undo pops the machine and the delta.
LEMMA UndoInv ==
  ASSUME DebugInv, Undo, past' = SubSeq(past, 1, Len(past) - 1), lost' = lost
  PROVE  DebugInv'
<1> DEFINE m == past[Len(past)]
           n == Len(past) - 1
<1>1. /\ States /\ Chain /\ past \in Seq(Machines) /\ undo_stack \in Seq(Deltas)
      /\ Len(undo_stack) = Len(past) /\ fcsr \in Word
      /\ \A k \in 1..Len(past) : Sound(prog, past[k])
  BY DEF DebugInv, States, Machine, Machines
<1>2. /\ Len(past) \in 1..Len(past) /\ n \in Nat /\ n + 1 = Len(past)
      /\ m \in Machines
      /\ Alike(m, Machine') /\ Machine'.fcsr = fcsr
      /\ Machine'.gpr = gpr' /\ Machine'.fpr = fpr'
      /\ AgreeOff(lost, "GPR", m.gpr, gpr') /\ AgreeOff(lost, "FPR", m.fpr, fpr')
      /\ gpr' \in [RegNum -> Word] /\ fpr' \in [RegNum -> Word]
      /\ \A r \in RegNum : GprMask(gpr'[r]) = gpr'[r]
  BY <1>1, UndoShows, UndoRegisters
<1>3. UNCHANGED <<prog, program, stop_requested, output_status, current_changes>>
      /\ Machines' = Machines /\ Deltas' = Deltas
  BY DEF Undo, Machines, Deltas, RegisterChanges, MemoryChanges
<1>4. /\ Len(past') = n /\ Len(undo_stack') = n
      /\ past' \in Seq(Machines) /\ undo_stack' \in Seq(Deltas)
      /\ \A k \in 1..n : past'[k] = past[k] /\ undo_stack'[k] = undo_stack[k]
  BY <1>1, <1>2 DEF Undo
<1>5. Machine' \in Machines
  BY <1>1, <1>2 DEF Machine, Machines, Alike
<1>6. States'
  BY <1>1, <1>3, <1>4, <1>5 DEF States
<1>7. Sound(prog, Machine)'
  <2>1. Sound(prog, m)
    BY <1>1, <1>2
  <2>2. Sound(prog, Machine')
    BY <1>2, <2>1
       DEF Sound, AllFetched, Ordered, ThrowsIn, Counted, Masked, Decoded, Committed, Stored, Retired,
           Alike
  <2> QED
    BY <1>2, <1>3, <2>2
<1>8. \A k \in 1..Len(past') : Sound(prog', past'[k])
  BY <1>1, <1>2, <1>3, <1>4
<1>9. Chain'
  <2>1. ASSUME NEW k \in 1..n
        PROVE  Restores(lost', undo_stack'[k], ShownAt(k + 1)', past'[k])
    <3>1. k \in 1..Len(past) /\ k + 1 \in 1..Len(past)
      BY <1>2
    <3>2. Restores(lost, undo_stack[k], past[k + 1], past[k])
      BY <1>1, <3>1 DEF Chain, ShownAt
    <3>3. CASE k + 1 <= n
      <4>1. ShownAt(k + 1)' = past[k + 1]
        BY <1>2, <1>4, <3>1, <3>3 DEF ShownAt
      <4> QED
        BY <1>4, <3>2, <4>1
    <3>4. CASE k + 1 = Len(past)
      <4>1. ShownAt(k + 1)' = Machine'
        BY <1>2, <1>4, <3>4 DEF ShownAt
      <4>2. Machine'.gpr = gpr' /\ Machine'.fpr = fpr' /\ Machine'.mem = m.mem
        BY <1>2 DEF Alike
      <4>3. Restores(lost, undo_stack[k], m, past[k])
        BY <1>2, <3>2, <3>4
      <4>4. \A r \in RegNum :
              /\ <<"GPR", r>> \notin lost
                 => UndoGpr(undo_stack[k].register_changes, gpr')[r] = past[k].gpr[r]
              /\ <<"FPR", r>> \notin lost
                 => UndoFpr(undo_stack[k].register_changes, fpr')[r] = past[k].fpr[r]
        <5>1. ASSUME NEW r \in RegNum
              PROVE  /\ <<"GPR", r>> \notin lost
                        => UndoGpr(undo_stack[k].register_changes, gpr')[r] = past[k].gpr[r]
                     /\ <<"FPR", r>> \notin lost
                        => UndoFpr(undo_stack[k].register_changes, fpr')[r] = past[k].fpr[r]
          <6>1. /\ <<"GPR", r>> \notin lost
                   => UndoGpr(undo_stack[k].register_changes, m.gpr)[r] = past[k].gpr[r]
                /\ <<"FPR", r>> \notin lost
                   => UndoFpr(undo_stack[k].register_changes, m.fpr)[r] = past[k].fpr[r]
            BY <4>3 DEF Restores
          <6>2. /\ <<"GPR", r>> \notin lost => gpr'[r] = m.gpr[r]
                /\ <<"FPR", r>> \notin lost => fpr'[r] = m.fpr[r]
            <7> HIDE DEF m
            <7> QED
              BY <1>2, <5>1 DEF AgreeOff
          <6> HIDE DEF m
          <6> QED
            BY <6>1, <6>2 DEF UndoGpr, UndoFpr
        <5> QED
          BY <5>1
      <4> QED
        BY <1>4, <4>1, <4>2, <4>3, <4>4 DEF Restores
    <3>5. k \in 1..n /\ n \in Nat /\ n + 1 = Len(past)
      BY <1>2, <2>1
    <3> HIDE DEF n
    <3> QED
      BY <3>3, <3>4, <3>5
  <2> QED
    BY <1>4, <2>1 DEF Chain
<1> QED
  BY <1>6, <1>7, <1>8, <1>9 DEF DebugInv

\* The machine that a reset leaves is sound.
LEMMA ResetSound ==
  ASSUME DebugInv, Reset, (prog \in Seq(InstrSet))', mem' \in Mem
  PROVE  (Machine \in Machines)' /\ Sound(prog, Machine)'
<1>1. (Len(prog) \in Nat)' /\ (0 \in 0..Len(prog))' /\ stall_cycles' \in Nat
  BY DEF DebugInv, States, Machine, Machines, Reset
<1>2. (Machine \in Machines)'
  BY <1>1, NoInstrType, ConstantTypes, ConfigTypes
     DEF Reset, Machine, Machines, IF_ID, ID_EX, EX_MEM, MEM_WB
<1>3. AllFetched(Machine)' /\ Masked(Machine)'
  BY ResetValues DEF Reset, Machine, AllFetched, Fetched, Masked, IF_ID, ID_EX, EX_MEM, MEM_WB
<1>4. Ordered(prog, Machine)'
  BY DEF Reset, Machine, Ordered, At, Decoded, Committed, Stored, Retired, Before,
         IF_ID, ID_EX, EX_MEM, MEM_WB
<1>5. Counted(prog, Machine)'
  BY <1>1 DEF Reset, Machine, Counted
<1> QED
  BY <1>2, <1>3, <1>4, <1>5 DEF Sound

Restarts == OnAssemble \/ OnReset \/ OnRun \/ OnStop

\* Each handler that resets the machine loads a program or clears the text section.
LEMMA RestartLoads ==
  ASSUME DebugInv, Restarts
  PROVE  /\ Reset
         /\ program' \in Programs /\ mem' \in InitMem \union {ClearMem} /\ mem' \in Mem
         /\ prog' = program' \/ prog' = [k \in 1..Len(program') |-> NoInstr]
         /\ stop_requested' \in BOOLEAN
         /\ output_status' \in {"VM_PROGRAM_LOADED", "VM_PROGRAM_END", "VM_ALIGNMENT_FAULT"}
<1>1. /\ program \in Programs /\ Len(program) \in Nat
      /\ prog = program \/ prog = [k \in 1..Len(program) |-> NoInstr]
      /\ stop_requested \in BOOLEAN
      /\ output_status \in {"VM_PROGRAM_LOADED", "VM_PROGRAM_END", "VM_ALIGNMENT_FAULT"}
  BY ConstantTypes DEF DebugInv, States
<1>2. InitMem \subseteq Mem /\ ClearMem \in Mem /\ Len(prog) = Len(program)
  BY <1>1, ConfigTypes, DebugTypes
<1> QED
  BY <1>1, <1>2 DEF Restarts, OnAssemble, OnReset, OnRun, OnStop, LoadProgram

LEMMA RestartInv ==
  ASSUME DebugInv, Restarts, past' = <<>>, lost' = {}
  PROVE  DebugInv'
<1>1. /\ Reset /\ program' \in Programs /\ mem' \in Mem
      /\ prog' = program' \/ prog' = [k \in 1..Len(program') |-> NoInstr]
      /\ stop_requested' \in BOOLEAN
      /\ output_status' \in {"VM_PROGRAM_LOADED", "VM_PROGRAM_END", "VM_ALIGNMENT_FAULT"}
      /\ undo_stack' = <<>> /\ current_changes' = NoChanges
  BY RestartLoads DEF Reset
<1>2. program' \in Seq(InstrSet) /\ NoInstr \in InstrSet
  BY <1>1, ConstantTypes, ResetValues
<1>3. prog' \in Seq(InstrSet)
  BY <1>1, <1>2
<1>4. (Machine \in Machines)' /\ Sound(prog, Machine)'
  BY <1>1, <1>3, ResetSound
<1>5. past' \in Seq(Machines') /\ undo_stack' \in Seq(Deltas')
      /\ Len(past') = 0 /\ Len(undo_stack') = 0
  BY <1>1
<1> QED
  BY <1>1, <1>4, <1>5, NoChangesType DEF DebugInv, States, Chain

\* The debugger starts with a machine that has been reset.
LEMMA InitInv == UndoInit => DebugInv
<1> SUFFICES ASSUME UndoInit PROVE DebugInv
  OBVIOUS
<1>1. /\ prog \in Programs /\ prog \in Seq(InstrSet) /\ Len(prog) \in Nat
      /\ program = prog /\ mem \in Mem /\ 0 \in 0..Len(prog)
  BY ConstantTypes, ConfigTypes DEF UndoInit, DebugInit, Init
<1>2. Machine \in Machines
  BY <1>1, NoInstrType, ConstantTypes, ConfigTypes
     DEF UndoInit, DebugInit, Init, Machine, Machines, IF_ID, ID_EX, EX_MEM, MEM_WB
<1>3. AllFetched(Machine) /\ Masked(Machine)
  BY ResetValues DEF UndoInit, DebugInit, Init, Machine, AllFetched, Fetched, Masked,
                     IF_ID, ID_EX, EX_MEM, MEM_WB
<1>4. Ordered(prog, Machine) /\ Counted(prog, Machine)
  BY <1>1 DEF UndoInit, DebugInit, Init, Machine, Ordered, Counted, At, Decoded,
              Committed, Stored, Retired, Before, IF_ID, ID_EX, EX_MEM, MEM_WB
<1>5. past \in Seq(Machines) /\ undo_stack \in Seq(Deltas) /\ Len(past) = 0 /\ Len(undo_stack) = 0
  BY DEF UndoInit, DebugInit
<1>6. /\ stop_requested \in BOOLEAN /\ output_status = "VM_PROGRAM_LOADED"
      /\ current_changes \in RegisterChanges /\ DOMAIN current_changes = {} /\ lost = {}
  BY NoChangesType DEF UndoInit, DebugInit, Init
<1> QED
  BY <1>1, <1>2, <1>3, <1>4, <1>5, <1>6 DEF DebugInv, States, Chain, Sound

\* Every step of the debugger keeps the invariant.
LEMMA NextInv == DebugInv /\ [UndoNext]_undoVars => DebugInv'
<1> SUFFICES ASSUME DebugInv, [UndoNext]_undoVars PROVE DebugInv'
  OBVIOUS
<1>1. CASE Forward
  BY <1>1, StepInv DEF Forward
<1>2. CASE StepThrows /\ lost' = lost \union Written /\ UNCHANGED past
  BY <1>2, ThrowInv
<1>3. CASE StepEnd /\ UNCHANGED <<past, lost>>
  BY <1>3, EndInv
<1>4. CASE Undo /\ past' = SubSeq(past, 1, Len(past) - 1) /\ UNCHANGED lost
  BY <1>4, UndoInv
<1>5. CASE (OnAssemble \/ OnReset \/ OnRun \/ OnStop) /\ past' = <<>> /\ lost' = {}
  BY <1>5, RestartInv DEF Restarts
<1>6. CASE UNCHANGED undoVars
  <2>1. /\ Machine' = Machine /\ Machines' = Machines /\ Deltas' = Deltas
        /\ UNCHANGED <<prog, program, stop_requested, output_status, undo_stack,
                       current_changes, past, lost>>
    BY <1>6 DEF undoVars, debugVars, vars, Machine, Machines, Deltas, RegisterChanges,
                MemoryChanges
  <2>2. Sound(prog, Machine)' /\ (\A k \in 1..Len(past) : Sound(prog, past[k]))'
    BY <2>1 DEF DebugInv
  <2> QED
    BY <2>1, <2>2 DEF DebugInv, States, Chain, ShownAt
<1> QED
  BY <1>1, <1>2, <1>3, <1>4, <1>5, <1>6 DEF UndoNext

LEMMA AlwaysInv == UndoSpec => []DebugInv
  BY InitInv, NextInv, PTL DEF UndoSpec

----------------------------------------------------------------------------
(* What follows *)

\* Every variable of the debugger keeps its type, and there is one delta for each
\* machine to go back to (RVSSVMPipelined::Step, Undo and Reset).
THEOREM DebugTypeCorrect == UndoSpec => []DebugTypeOK
<1>1. DebugInv => DebugTypeOK
  <2> SUFFICES ASSUME DebugInv PROVE DebugTypeOK
    OBVIOUS
  <2>1. Typed /\ stall_cycles \in Nat
    BY ShownTyped DEF DebugInv, Sound, States, Machine, Machines
  <2>2. \A k \in 1..Len(undo_stack) : undo_stack[k] \in Deltas
    BY DEF DebugInv, States
  <2>3. \A c \in RegisterChanges : IsRegisterChanges(c)
    BY DEF RegisterChanges, IsRegisterChanges
  <2> QED
    BY <2>1, <2>2, <2>3 DEF DebugInv, States, Typed, Deltas, DebugTypeOK
<1> QED
  BY <1>1, AlwaysInv, PTL

\* However steps, undos, resets and stops are mixed, misaligned and out-of-range
\* accesses included, the pipeline registers hold consecutive instructions, and none
\* is retired twice but behind an access that throws.
THEOREM AlwaysInOrder == UndoSpec => []StepInOrder
<1>1. DebugInv => StepInOrder
  BY ShownOrdered DEF DebugInv, Sound
<1> QED
  BY <1>1, AlwaysInv, PTL

\* The statistics miss no stall, whatever has been undone.
THEOREM StallsAlwaysCounted == UndoSpec => []StallsCounted
<1>1. DebugInv => StallsCounted
  BY ShownCounted DEF DebugInv, Sound
<1> QED
  BY <1>1, AlwaysInv, PTL

----------------------------------------------------------------------------
(* Stepping back *)

\* the history of TimeTravel that p and the machine m make, without the registers in l
History(l, p, m) == [k \in 1..Len(p) + 1 |-> Kept(l, IF k <= Len(p) THEN p[k] ELSE m)]

\* Files that differ in registers of l only are the same without them.
LEMMA OthersAgree ==
  ASSUME NEW l, NEW bank, NEW g, NEW h, AgreeOff(l, bank, g, h)
  PROVE  Others(l, bank, g) = Others(l, bank, h)
<1> DEFINE S == {q \in RegNum : <<bank, q>> \notin l}
<1>1. \A r \in S : g[r] = h[r]
  BY DEF AgreeOff
<1> HIDE DEF S
<1>2. [r \in S |-> g[r]] = [r \in S |-> h[r]]
  BY <1>1
<1> QED
  BY <1>2 DEF Others, S

LEMMA KeptAgree ==
  ASSUME NEW m \in Machines, NEW n \in Machines, NEW l, Alike(m, n),
         AgreeOff(l, "GPR", m.gpr, n.gpr), AgreeOff(l, "FPR", m.fpr, n.fpr)
  PROVE  Kept(l, n) = Kept(l, m)
<1>1. /\ Others(l, "GPR", n.gpr) = Others(l, "GPR", m.gpr)
      /\ Others(l, "FPR", n.fpr) = Others(l, "FPR", m.fpr)
  <2>2. Others(l, "GPR", n.gpr) = Others(l, "GPR", m.gpr)
    BY OthersAgree
  <2>3. Others(l, "FPR", n.fpr) = Others(l, "FPR", m.fpr)
    BY OthersAgree
  <2> QED
    BY <2>2, <2>3
<1> QED
  BY <1>1 DEF Kept, Without, Machines, Alike

LEMMA HistoryIs ==
  ASSUME NEW S, NEW p \in Seq(S), NEW m, NEW l
  PROVE  /\ [k \in 1..Len(Append(p, m)) |-> Kept(l, Append(p, m)[k])] = History(l, p, m)
         /\ Len(History(l, p, m)) = Len(p) + 1 /\ Len(p) \in Nat
         /\ History(l, p, m)[Len(p) + 1] = Kept(l, m)
<1>1. /\ Len(p) \in Nat /\ Len(Append(p, m)) = Len(p) + 1
      /\ \A k \in 1..Len(p) + 1 : Append(p, m)[k] = IF k <= Len(p) THEN p[k] ELSE m
  OBVIOUS
<1>2. ~(Len(p) + 1 <= Len(p))
  BY <1>1
<1> QED
  BY <1>1, <1>2 DEF History

\* A machine that has been reset is one that has been switched on.
LEMMA ResetPowered ==
  ASSUME NEW m, m \in [pc : {0}, if_id : {IF_ID}, id_ex : {ID_EX}, ex_mem : {EX_MEM},
                       mem_wb : {MEM_WB}, gpr : {InitGpr}, fpr : {[r \in RegNum |-> Zero]},
                       fcsr : {Zero}, mem : InitMem \union {ClearMem},
                       instructions_retired : {0}, cycle_s : {0}, stall_cycles : Nat]
  PROVE  PoweredOn(Kept({}, m))
<1>1. InitGpr \in [RegNum -> Word] /\ {r \in RegNum : <<"GPR", r>> \notin {}} = RegNum
      /\ {r \in RegNum : <<"FPR", r>> \notin {}} = RegNum
  BY ConfigTypes
<1>2. Others({}, "GPR", m.gpr) = InitGpr /\ Others({}, "FPR", m.fpr) = [r \in RegNum |-> Zero]
  BY <1>1 DEF Others
<1> QED
  BY <1>2 DEF PoweredOn, Kept, Without

LEMMA InitShown == UndoInit => TT!Init
<1> SUFFICES ASSUME UndoInit PROVE TT!Init
  OBVIOUS
<1>1. past \in Seq(Machines) /\ Len(past) = 0
  BY DEF UndoInit
<1>2. PoweredOn(Kept(lost, Machine)) /\ lost = {}
  BY ResetPowered DEF UndoInit, DebugInit, Init, Machine
<1>3. /\ KeptSeen = History(lost, past, Machine)
      /\ Len(History(lost, past, Machine)) = 1
      /\ History(lost, past, Machine)[1] = Kept(lost, Machine)
  <2>1. Seen = Append(past, Machine)
    BY DEF Seen
  <2>2. /\ [k \in 1..Len(Append(past, Machine)) |-> Kept(lost, Append(past, Machine)[k])]
             = History(lost, past, Machine)
        /\ Len(History(lost, past, Machine)) = Len(past) + 1
        /\ History(lost, past, Machine)[Len(past) + 1] = Kept(lost, Machine)
    <3>1. past \in Seq(Machines)
      BY <1>1
    <3> QED
      BY <3>1, HistoryIs
  <2>3. Len(past) + 1 = 1
    BY <1>1
  <2>4. KeptSeen = History(lost, past, Machine)
    BY <2>1, <2>2 DEF KeptSeen
  <2>5. /\ Len(History(lost, past, Machine)) = 1
        /\ History(lost, past, Machine)[1] = Kept(lost, Machine)
    BY <2>2, <2>3
  <2> QED
    BY <2>4, <2>5
<1> QED
  BY <1>2, <1>3 DEF TT!Init, TT!Restarted, TT!Shown

\* The histories before and after a step of the debugger.
LEMMA Histories ==
  ASSUME States, States'
  PROVE  /\ KeptSeen = History(lost, past, Machine)
         /\ KeptSeen' = History(lost', past', Machine')
         /\ Len(past) \in Nat /\ Len(History(lost, past, Machine)) = Len(past) + 1
         /\ Len(past') \in Nat /\ Len(History(lost', past', Machine')) = Len(past') + 1
         /\ History(lost, past, Machine)[Len(past) + 1] = Kept(lost, Machine)
         /\ History(lost', past', Machine')[Len(past') + 1] = Kept(lost', Machine')
<1>1. past \in Seq(Machines) /\ past' \in Seq(Machines')
  BY DEF States
<1>2. /\ KeptSeen = History(lost, past, Machine)
      /\ Len(past) \in Nat /\ Len(History(lost, past, Machine)) = Len(past) + 1
      /\ History(lost, past, Machine)[Len(past) + 1] = Kept(lost, Machine)
  BY <1>1, HistoryIs DEF Seen, KeptSeen
<1>3. /\ KeptSeen' = History(lost', past', Machine')
      /\ Len(past') \in Nat /\ Len(History(lost', past', Machine')) = Len(past') + 1
      /\ History(lost', past', Machine')[Len(past') + 1] = Kept(lost', Machine')
  <2>1. Seen' = Append(past', Machine')
    BY DEF Seen
  <2>2. /\ [k \in 1..Len(Append(past', Machine')) |-> Kept(lost', Append(past', Machine')[k])]
             = History(lost', past', Machine')
        /\ Len(past') \in Nat /\ Len(History(lost', past', Machine')) = Len(past') + 1
        /\ History(lost', past', Machine')[Len(past') + 1] = Kept(lost', Machine')
    BY <1>1, HistoryIs
  <2> QED
    BY <2>1, <2>2 DEF KeptSeen
<1> QED
  BY <1>2, <1>3

LEMMA StepShown ==
  ASSUME DebugInv, DebugInv', StepCycle, past' = Append(past, Machine), lost' = lost
  PROVE  TT!Step
<1> DEFINE h == History(lost, past, Machine)
           g == History(lost', past', Machine')
           n == Len(past) + 1
<1>1. /\ past \in Seq(Machines) /\ Machine \in Machines /\ Machine' \in Machines'
      /\ Len(past') = n /\ Len(past) \in Nat
      /\ \A k \in 1..Len(past) : past'[k] = past[k]
      /\ past'[n] = Machine
  BY DEF DebugInv, States
<1>2. Len(g) = Len(h) + 1 /\ Len(h) = n /\ h[n] = Kept(lost, Machine)
      /\ g[n + 1] = Kept(lost', Machine')
  BY <1>1, Histories DEF DebugInv
<1>3. SubSeq(g, 1, Len(h)) = h
  <2>1. SubSeq(g, 1, n) = [k \in 1..n |-> g[k]]
    BY <1>1, <1>2
  <2>2. \A k \in 1..n : g[k] = h[k]
    BY <1>1 DEF History
  <2>3. h = [k \in 1..n |-> h[k]]
    BY <1>1 DEF History
  <2> QED
    BY <1>2, <2>1, <2>2, <2>3
<1>4. OneCycleLater(Kept(lost, Machine), Kept(lost', Machine'))
  <2>1. Kept(lost, Machine).cycle_s = cycle_s /\ Kept(lost', Machine').cycle_s = cycle_s'
    BY DEF Kept, Without, Machine
  <2> QED
    BY <2>1 DEF OneCycleLater, StepCycle, Stages
<1> HIDE DEF h, g, n
<1>5. /\ KeptSeen = h
      /\ KeptSeen' = g
  BY Histories DEF DebugInv, h, g
<1> QED
  BY <1>2, <1>3, <1>4, <1>5 DEF TT!Step, TT!Shown

LEMMA UndoShown ==
  ASSUME DebugInv, DebugInv', Undo, past' = SubSeq(past, 1, Len(past) - 1), lost' = lost
  PROVE  TT!Undo
<1> DEFINE h == History(lost, past, Machine)
           g == History(lost', past', Machine')
           n == Len(past)
<1>1. /\ past \in Seq(Machines) /\ n \in 1..n /\ n \in Nat /\ n - 1 \in Nat
      /\ past[n] \in Machines /\ Machine' \in Machines' /\ Machines' = Machines
      /\ Alike(past[n], Machine') /\ Machine'.gpr = gpr' /\ Machine'.fpr = fpr'
      /\ AgreeOff(lost, "GPR", past[n].gpr, gpr') /\ AgreeOff(lost, "FPR", past[n].fpr, fpr')
      /\ Len(past') = n - 1
      /\ \A k \in 1..n - 1 : past'[k] = past[k]
  <2>1. Machines' = Machines
    BY DEF Undo, Machines
  <2> QED
    BY <2>1, UndoShows DEF DebugInv, States
<1>2. Len(h) = n + 1 /\ Len(g) = n
  BY <1>1, Histories DEF DebugInv
<1>3. Kept(lost', Machine') = Kept(lost, past[n])
  BY <1>1, KeptAgree
<1>4. g = SubSeq(h, 1, Len(h) - 1)
  <2>1. SubSeq(h, 1, n) = [k \in 1..n |-> h[k]]
    BY <1>1, <1>2
  <2>2. g = [k \in 1..n |-> Kept(lost, IF k <= n - 1 THEN past'[k] ELSE Machine')]
    BY <1>1 DEF History
  <2>3. \A k \in 1..n : h[k] = Kept(lost, past[k])
    BY <1>1 DEF History
  <2>4. \A k \in 1..n : Kept(lost, IF k <= n - 1 THEN past'[k] ELSE Machine')
                          = Kept(lost, past[k])
    <3>1. ASSUME NEW k \in 1..n
          PROVE  Kept(lost, IF k <= n - 1 THEN past'[k] ELSE Machine')
                   = Kept(lost, past[k])
      <4>1. CASE k <= n - 1
        BY <1>1, <4>1
      <4>2. CASE k = n
        BY <1>1, <1>3, <4>2
      <4> QED
        BY <1>1, <4>1, <4>2
    <3> QED
      BY <3>1
  <2> QED
    BY <1>2, <2>1, <2>2, <2>3, <2>4
<1> HIDE DEF h, g, n
<1>5. /\ KeptSeen = h
      /\ KeptSeen' = g
  BY Histories DEF DebugInv, h, g
<1>6. Len(h) > 1
  BY <1>1, <1>2
<1> QED
  BY <1>4, <1>5, <1>6 DEF TT!Undo

\* A step that throws shows no more than the register WB wrote and the count.
LEMMA StepThrowsShown ==
  ASSUME DebugInv, StepThrows, lost' = lost \union Written, UNCHANGED past
  PROVE  ThrowShown
<1>1. /\ Typed /\ instructions_retired \in Nat
      /\ gpr' = WbGpr(mem_wb, gpr) /\ fpr' = WbFpr(mem_wb, fpr)
  BY ShownTyped DEF DebugInv, Sound, States, Machine, Machines, StepThrows
<1>2. AgreeOff(Written, "GPR", gpr, gpr') /\ AgreeOff(Written, "FPR", fpr, fpr')
  BY <1>1, WbWritesWritten DEF AgreeOff
<1>3. DebugInv' /\ Machines' = Machines
  BY ThrowInv DEF StepThrows, Machines
<1>4. Kept(lost', Machine')
        = Kept(lost', [Machine EXCEPT !.instructions_retired = instructions_retired'])
  <2> DEFINE n == [Machine EXCEPT !.instructions_retired = instructions_retired']
  <2>1. Machine \in Machines /\ Machine' \in Machines /\ instructions_retired' \in Nat
    BY <1>1, <1>3 DEF DebugInv, States, StepThrows
  <2>2. /\ n \in Machines /\ n.gpr = Machine.gpr /\ n.fpr = Machine.fpr
        /\ n.pc = Machine.pc /\ n.if_id = Machine.if_id /\ n.id_ex = Machine.id_ex
        /\ n.ex_mem = Machine.ex_mem /\ n.mem_wb = Machine.mem_wb /\ n.mem = Machine.mem
        /\ n.instructions_retired = instructions_retired'
        /\ n.cycle_s = Machine.cycle_s /\ n.stall_cycles = Machine.stall_cycles
    BY <2>1 DEF Machines
  <2>3. Alike(n, Machine')
    BY <2>2 DEF Alike, Machine, StepThrows, latches
  <2>4. AgreeOff(lost', "GPR", n.gpr, Machine'.gpr) /\ AgreeOff(lost', "FPR", n.fpr, Machine'.fpr)
    <3>1. /\ n.gpr = gpr /\ n.fpr = fpr /\ Machine'.gpr = gpr' /\ Machine'.fpr = fpr'
      BY <2>2 DEF Machine
    <3>2. AgreeOff(lost', "GPR", gpr, gpr') /\ AgreeOff(lost', "FPR", fpr, fpr')
      BY <1>2 DEF AgreeOff
    <3> HIDE DEF n
    <3> QED
      BY <3>1, <3>2
  <2> HIDE DEF n
  <2>5. Kept(lost', Machine') = Kept(lost', n)
    BY <2>1, <2>2, <2>3, <2>4, KeptAgree
  <2> QED
    BY <2>5 DEF n
<1>5. instructions_retired' \in {instructions_retired, instructions_retired + 1}
  BY DEF StepThrows
<1>6. Throws /\ past' = past
  BY DEF StepThrows
<1> QED
  BY <1>4, <1>5, <1>6 DEF ThrowShown

LEMMA RestartShown ==
  ASSUME DebugInv, DebugInv', Restarts, past' = <<>>, lost' = {}
  PROVE  TT!Restart
<1>1. /\ KeptSeen' = History(lost', past', Machine')
      /\ Len(History(lost', past', Machine')) = 1
      /\ History(lost', past', Machine')[1] = Kept(lost', Machine')
  BY Histories DEF DebugInv
<1>2. PoweredOn(Kept(lost', Machine'))
  BY RestartLoads, ResetPowered DEF Reset, Machine, DebugInv, States, Machines
<1> QED
  BY <1>1, <1>2 DEF TT!Restart, TT!Restarted, TT!Shown

\* However steps, undos, resets and stops are mixed, and whatever accesses are misaligned
\* or throw, Undo shows the machine of before the last step that is not undone, all but
\* fcsr and the registers that a step wrote before it threw: RVSSVMPipelined's Step, Undo
\* and Reset implement TimeTravel but for the step that throws, for every program,
\* configuration, memory, limit of the undo stack and arithmetic.
THEOREM SteppingBack == UndoSpec => StepsBack
<1>1. UndoInit => TT!Init
  BY InitShown
<1>2. DebugInv /\ [UndoNext]_undoVars => [TT!Next \/ ThrowShown]_KeptSeen
  <2> SUFFICES ASSUME DebugInv, [UndoNext]_undoVars
               PROVE  TT!Next \/ ThrowShown \/ UNCHANGED KeptSeen
    OBVIOUS
  <2>1. DebugInv'
    BY NextInv
  <2>2. CASE Forward
    BY <2>1, <2>2, StepShown DEF TT!Next, Forward
  <2>3. CASE StepThrows /\ lost' = lost \union Written /\ UNCHANGED past
    BY <2>3, StepThrowsShown
  <2>4. CASE Undo /\ past' = SubSeq(past, 1, Len(past) - 1) /\ UNCHANGED lost
    BY <2>1, <2>4, UndoShown DEF TT!Next
  <2>5. CASE (OnAssemble \/ OnReset \/ OnRun \/ OnStop) /\ past' = <<>> /\ lost' = {}
    BY <2>1, <2>5, RestartShown DEF TT!Next, Restarts
  <2>6. CASE StepEnd /\ UNCHANGED <<past, lost>>
    <3>1. Seen' = Seen /\ lost' = lost
      BY <2>6 DEF StepEnd, vars, Seen, Machine
    <3> QED
      BY <3>1 DEF KeptSeen
  <2>7. CASE UNCHANGED undoVars
    <3>1. Seen' = Seen /\ lost' = lost
      BY <2>7 DEF undoVars, debugVars, vars, Seen, Machine
    <3> QED
      BY <3>1 DEF KeptSeen
  <2> QED
    BY <2>2, <2>3, <2>4, <2>5, <2>6, <2>7 DEF UndoNext
<1> QED
  BY <1>1, <1>2, AlwaysInv, PTL DEF UndoSpec, StepsBack
=============================================================================
