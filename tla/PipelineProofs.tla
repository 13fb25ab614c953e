--------------------------- MODULE PipelineProofs ---------------------------
(***************************************************************************)
(* Theorems about the pipelined machine, for every program, every value of *)
(* the constants and, unless a hypothesis says otherwise, every            *)
(* configuration of hazard detection and forwarding.                       *)
(***************************************************************************)
EXTENDS PipelineCorrect, TLAPS

----------------------------------------------------------------------------
(* The stages return well-typed pipeline registers *)

\* TypeOK for any text section, one that Memory::Reset has cleared too
Typed ==
  /\ prog \in Seq(InstrSet)
  /\ \A n \in 0..Len(prog) : PcWord(n) \in Word
  /\ pc \in 0..Len(prog)
  /\ LatchTypes
  /\ gpr \in [RegNum -> Word]
  /\ fpr \in [RegNum -> Word]
  /\ fcsr \in Word
  /\ mem \in Mem
  /\ instructions_retired \in Nat
  /\ cycle_s \in Nat
  /\ stop_requested \in BOOLEAN

\* What is proved of any text section holds of the programs.
LEMMA ProgramTyped == TypeOK => Typed
  BY ConstantTypes, UnitTypes DEF TypeOK, Typed

\* The empty instruction word is an instruction.
LEMMA NoInstrType == NoInstr \in Instr
  BY ConstantTypes DEF NoInstr, Instr, Opcode, Funct7

\* A program is a finite sequence of instructions.
LEMMA ProgLength ==
  ASSUME Typed
  PROVE  /\ Len(prog) \in Nat /\ 0 \in 0..Len(prog)
         /\ \A n \in 1..Len(prog) : prog[n] \in InstrSet /\ prog[n] \in Instr
  BY ConstantTypes DEF Typed

\* A register of a well-typed file reads as a word, and stays well-typed when
\* a word is written to it.
LEMMA GprType ==
  ASSUME NEW g \in [RegNum -> Word], NEW r \in RegNum, NEW v \in Word
  PROVE  /\ ReadGpr(g, r) \in Word
         /\ WriteGpr(g, r, v) \in [RegNum -> Word]
  BY ConstantTypes, UnitTypes DEF ReadGpr, WriteGpr

\* WB leaves the register files well-typed.
LEMMA WbType ==
  ASSUME Typed
  PROVE  /\ WbGpr(mem_wb, gpr) \in [RegNum -> Word]
         /\ WbFpr(mem_wb, fpr) \in [RegNum -> Word]
<1>1. WriteValue(mem_wb) \in Word /\ mem_wb.instr.rd \in RegNum
  BY DEF Typed, LatchTypes, WriteValue, Instr
<1>2. WbGpr(mem_wb, gpr) \in [RegNum -> Word]
  BY <1>1, GprType DEF Typed, WbGpr
<1>3. WbFpr(mem_wb, fpr) \in [RegNum -> Word]
  BY <1>1, UnitTypes DEF Typed, WbFpr
<1> QED
  BY <1>2, <1>3

\* The values MEM stores and passes on are well-typed.
LEMMA MemType ==
  ASSUME Typed
  PROVE  /\ MemMem(ex_mem, mem) \in Mem
         /\ MemStage(ex_mem, mem) \in
              [valid : BOOLEAN, pc : 0..Len(prog), instr : Instr, reg_write : BOOLEAN,
               alu_result : Word, mem_data : Word]
         /\ Fetched(MemStage(ex_mem, mem))
         /\ AlignmentFault(ex_mem) \in BOOLEAN
<1> DEFINE i == ex_mem.instr
<1>1. /\ ex_mem.valid \in BOOLEAN /\ ex_mem.pc \in 0..Len(prog) /\ i \in Instr
      /\ ex_mem.alu_result \in Word /\ ex_mem.reg2_value \in Word /\ mem \in Mem
      /\ ex_mem.valid => i \in InstrSet
  BY DEF Typed, LatchTypes, Fetched
<1>2. ex_mem.valid => MemData(ex_mem, mem) \in Word
  BY <1>1, UnitTypes DEF MemData
<1>3. MemMem(ex_mem, mem) \in Mem
  BY <1>1, UnitTypes DEF MemMem
<1>4. AlignmentFault(ex_mem) \in BOOLEAN
  BY DEF AlignmentFault
<1>5. RegWrite(i) \in BOOLEAN
  BY DEF RegWrite
<1>6. CASE ~ex_mem.valid
  BY <1>3, <1>4, <1>6, NoInstrType, ProgLength, ConstantTypes DEF MemStage, MEM_WB, Fetched
<1>7. CASE ex_mem.valid
  BY <1>1, <1>2, <1>3, <1>4, <1>5, <1>7, ConstantTypes DEF MemStage, Fetched
<1> QED
  BY <1>1, <1>6, <1>7

\* What the forwarding unit selects is a word.
LEMMA OperandType ==
  ASSUME Typed
  PROVE  Operand1(id_ex) \in Word /\ Operand2(id_ex) \in Word
<1>1. /\ id_ex.reg1_value \in Word /\ id_ex.reg2_value \in Word
      /\ ex_mem.alu_result \in Word /\ WriteValue(mem_wb) \in Word
  BY DEF Typed, LatchTypes, WriteValue
<1>2. ASSUME NEW rs, NEW rsFloat, NEW read \in Word
      PROVE  Forwarded(rs, rsFloat, read) \in Word
  BY <1>1, <1>2, ConstantTypes DEF Forwarded, Sources!GetRsSource
<1> QED
  BY <1>1, <1>2 DEF Operand1, Operand2

\* EX computes words.
LEMMA ExType ==
  ASSUME Typed
  PROVE  /\ ExStage(id_ex) \in [valid : BOOLEAN, pc : 0..Len(prog), instr : Instr,
                                alu_result : Word, reg2_value : Word]
         /\ Fetched(ExStage(id_ex))
         /\ ExFcsr(id_ex, fcsr) \in Word
<1> DEFINE i == id_ex.instr
<1>1. /\ id_ex.valid \in BOOLEAN /\ id_ex.pc \in 0..Len(prog) /\ i \in Instr /\ i.imm \in Word
      /\ fcsr \in Word
      /\ id_ex.valid => i \in InstrSet /\ i.imm \in ImmVal
  BY ConstantTypes DEF Typed, LatchTypes, Fetched, Instr
<1>2. CASE ~id_ex.valid
  BY <1>1, <1>2, NoInstrType, ProgLength, ConstantTypes DEF ExStage, ExFcsr, EX_MEM, Fetched
<1>3. CASE id_ex.valid
  <2>1. Operand1(id_ex) \in Word /\ Operand2(id_ex) \in Word
    BY OperandType
  <2>2. ASSUME NEW a \in Word, NEW b \in Word
        PROVE  /\ AluExecute(i, a, b) \in Word
               /\ FpExecute(i, a, b) \in Word /\ FpStatus(i, a, b) \in Word
    <3>1. FpOperandA(i, a) \in Word /\ FpOperandB(i, b) \in Word
      BY <2>2, UnitTypes, ConstantTypes DEF FpOperandA, FpOperandB
    <3> QED
      BY <1>1, <1>3, <2>2, <3>1, UnitTypes DEF AluExecute, FpExecute, FpStatus
  <2>3. PcWord(id_ex.pc) \in Word
    BY <1>1 DEF Typed
  <2>4. AluResult(id_ex) \in Word
    BY <1>1, <1>3, <2>1, <2>2, <2>3, UnitTypes, ConstantTypes DEF AluResult
  <2> QED
    BY <1>1, <1>3, <2>1, <2>2, <2>4, ConstantTypes DEF ExStage, ExFcsr, Fetched
<1> QED
  BY <1>1, <1>2, <1>3

\* ID reads words.
LEMMA IdType ==
  ASSUME Typed, NEW g \in [RegNum -> Word], NEW f \in [RegNum -> Word]
  PROVE  /\ IdStage(if_id, g, f) \in
              [valid : BOOLEAN, pc : 0..Len(prog), instr : Instr,
               reg1_value : Word, reg2_value : Word]
         /\ Fetched(IdStage(if_id, g, f))
<1>1. /\ if_id.pc \in 0..Len(prog) /\ if_id.instr \in Instr
      /\ if_id.instr.rs1 \in RegNum /\ if_id.instr.rs2 \in RegNum
      /\ if_id.valid => if_id.instr \in InstrSet
  BY DEF Typed, LatchTypes, Fetched, Instr
<1>2. ReadRs1(if_id.instr, g, f) \in Word /\ ReadRs2(if_id.instr, g, f) \in Word
  BY <1>1, GprType, ConstantTypes DEF ReadRs1, ReadRs2
<1> QED
  BY <1>1, <1>2, NoInstrType, ProgLength, ConstantTypes DEF IdStage, ID_EX, Fetched

\* IF never runs past the end of the text section.
LEMMA IfType ==
  ASSUME Typed
  PROVE  /\ IfStage \in [valid : BOOLEAN, pc : 0..Len(prog), instr : Instr]
         /\ Fetched(IfStage)
         /\ IfPc \in 0..Len(prog)
<1>1. /\ pc \in 0..Len(prog) /\ Len(prog) \in Nat
      /\ if_id \in [valid : BOOLEAN, pc : 0..Len(prog), instr : Instr] /\ Fetched(if_id)
  BY ProgLength DEF Typed, LatchTypes
<1>2. ASSUME Fetching
      PROVE  prog[pc + 1] \in Instr /\ prog[pc + 1] \in InstrSet /\ pc + 1 \in 0..Len(prog)
  BY <1>1, <1>2, ProgLength DEF Fetching
<1> QED
  BY <1>1, <1>2, NoInstrType DEF IfStage, IfPc, IF_ID, Fetched

----------------------------------------------------------------------------
(* Type correctness *)

\* The machine starts well-typed.
LEMMA InitType == Init => TypeOK
<1> SUFFICES ASSUME Init PROVE TypeOK
  OBVIOUS
<1>1. prog \in Seq(InstrSet) /\ Len(prog) \in Nat /\ 0 \in 0..Len(prog)
  BY ConstantTypes DEF Init
<1>2. LatchTypes
  BY <1>1, NoInstrType, ConstantTypes
     DEF Init, LatchTypes, Fetched, IF_ID, ID_EX, EX_MEM, MEM_WB
<1> QED
  BY <1>1, <1>2, ConstantTypes, ConfigTypes DEF Init, TypeOK

\* The stages keep the types.
LEMMA StagesType ==
  ASSUME Typed, Stages
  PROVE  Typed'
<1> USE DEF Stages, Stops
<1>1. gpr' \in [RegNum -> Word] /\ fpr' \in [RegNum -> Word]
  BY WbType
<1>2. mem_wb' \in [valid : BOOLEAN, pc : 0..Len(prog), instr : Instr, reg_write : BOOLEAN,
                   alu_result : Word, mem_data : Word]
      /\ Fetched(mem_wb)' /\ mem' \in Mem /\ stop_requested' \in BOOLEAN
  BY MemType DEF Typed, Fetched
<1>3. ex_mem' \in [valid : BOOLEAN, pc : 0..Len(prog), instr : Instr,
                   alu_result : Word, reg2_value : Word]
      /\ Fetched(ex_mem)' /\ fcsr' \in Word
  BY ExType DEF Fetched
<1>4. id_ex' \in [valid : BOOLEAN, pc : 0..Len(prog), instr : Instr,
                  reg1_value : Word, reg2_value : Word]
      /\ Fetched(id_ex)'
  BY <1>1, IdType DEF Fetched
<1>5. if_id' \in [valid : BOOLEAN, pc : 0..Len(prog), instr : Instr]
      /\ Fetched(if_id)' /\ pc' \in 0..Len(prog)
  BY IfType DEF Fetched
<1>6. prog' = prog /\ instructions_retired' \in Nat /\ cycle_s' \in Nat
  BY DEF Typed
<1> QED
  BY <1>1, <1>2, <1>3, <1>4, <1>5, <1>6 DEF Typed, LatchTypes

\* A cycle keeps the types.
LEMMA NextType == TypeOK /\ [Next]_vars => TypeOK'
<1> SUFFICES ASSUME TypeOK, [Next]_vars PROVE TypeOK'
  OBVIOUS
<1>1. CASE UNCHANGED vars
  BY <1>1 DEF vars, TypeOK, LatchTypes, Fetched
<1>2. CASE Cycle
  <2>1. Typed'
    BY <1>2, ProgramTyped, StagesType DEF Cycle
  <2>2. prog' \in Programs
    BY <1>2 DEF Cycle, Stages, TypeOK
  <2> QED
    BY <2>1, <2>2 DEF Typed, TypeOK
<1> QED
  BY <1>1, <1>2 DEF Next

\* Every variable of the pipelined machine keeps its type.
THEOREM TypeCorrect == Spec => []TypeOK
<1> QED
  BY InitType, NextType, PTL DEF Spec

----------------------------------------------------------------------------
(* Nothing is lost, repeated or reordered *)

\* The machine starts with nothing in flight.
LEMMA InitOrder == Init => InOrder
<1> SUFFICES ASSUME Init PROVE InOrder
  OBVIOUS
<1>1. /\ RetiredPc = 0 /\ MemoryPc = 0 /\ CommittedPc = 0 /\ DecodedPc = 0
  BY DEF Init, RetiredPc, MemoryPc, CommittedPc, DecodedPc, Before,
         IF_ID, ID_EX, EX_MEM, MEM_WB
<1> QED
  BY <1>1 DEF Init, InOrder, Holds, IF_ID, ID_EX, EX_MEM, MEM_WB

\* What a cycle does to the pipeline registers: nobody is held back but by an
\* instruction in EX or, without forwarding, in MEM.
LEMMA StagesShift ==
  ASSUME Typed, Stages
  PROVE  /\ mem_wb'.valid <=> ex_mem.valid /\ ~AlignmentFault(ex_mem)
         /\ ex_mem'.valid <=> id_ex.valid
         /\ id_ex'.valid <=> if_id.valid /\ ~Stall(if_id)
         /\ if_id'.valid <=> Stall(if_id) \/ pc < Len(prog)
         /\ pc' = IF ~Stall(if_id) /\ pc < Len(prog) THEN pc + 1 ELSE pc
         /\ Stall(if_id) => /\ if_id.valid
                            /\ id_ex.valid \/ (~Forwarding /\ ex_mem.valid)
<1>1. Stall(if_id) => if_id.valid /\ (id_ex.valid \/ (~Forwarding /\ ex_mem.valid))
  BY DEF Stall, LoadUseStall, WriteStall, Hazards!DetectLoadUseHazard,
         Hazards!DetectWriteHazard
<1>2. mem_wb'.valid <=> ex_mem.valid /\ ~AlignmentFault(ex_mem)
  BY DEF Stages, MemStage, MEM_WB
<1>3. ex_mem'.valid <=> id_ex.valid
  BY DEF Stages, ExStage, EX_MEM
<1>4. id_ex'.valid <=> if_id.valid /\ ~Stall(if_id)
  BY DEF Stages, IdStage, ID_EX
<1>5. if_id'.valid <=> Stall(if_id) \/ pc < Len(prog)
  BY <1>1 DEF Stages, IfStage, Fetching, IF_ID
<1>6. pc' = IF ~Stall(if_id) /\ pc < Len(prog) THEN pc + 1 ELSE pc
  BY DEF Stages, IfPc, Fetching
<1> QED
  BY <1>1, <1>2, <1>3, <1>4, <1>5, <1>6

\* A cycle moves each instruction one stage on, or holds IF/ID and the pc and
\* puts a bubble behind the instruction in EX; a misaligned access disappears in MEM.
LEMMA StagesMove ==
  ASSUME Typed, Stages
  PROVE  /\ CommittedPc' = DecodedPc
         /\ MemoryPc' = CommittedPc
         /\ RetiredPc' = IF AlignmentFault(ex_mem) THEN CommittedPc ELSE MemoryPc
         /\ DecodedPc' = IF Stall(if_id) THEN DecodedPc ELSE pc
<1>1. pc \in Nat
  BY DEF Typed
<1>2. /\ DecodedPc' = Before(if_id', pc')
      /\ CommittedPc' = Before(id_ex', DecodedPc')
      /\ MemoryPc' = Before(ex_mem', CommittedPc')
      /\ RetiredPc' = Before(mem_wb', MemoryPc')
  BY DEF DecodedPc, CommittedPc, MemoryPc, RetiredPc, Before
<1>3. DecodedPc' = IF Stall(if_id) THEN DecodedPc ELSE pc
  BY <1>1, <1>2, StagesShift DEF DecodedPc, Before
<1>4. CommittedPc' = DecodedPc
  BY <1>1, <1>2, <1>3, StagesShift DEF DecodedPc, Before
<1>5. MemoryPc' = CommittedPc
  BY <1>2, <1>4, StagesShift DEF CommittedPc, Before
<1>6. RetiredPc' = IF AlignmentFault(ex_mem) THEN CommittedPc ELSE MemoryPc
  BY <1>2, <1>5, StagesShift DEF MemoryPc, Before, AlignmentFault
<1> QED
  BY <1>3, <1>4, <1>5, <1>6

\* The same of a cycle of Run that does not fault.
LEMMA CycleMoves ==
  ASSUME TypeOK, Cycle, ~stop_requested'
  PROVE  /\ CommittedPc' = DecodedPc
         /\ MemoryPc' = CommittedPc
         /\ RetiredPc' = MemoryPc
         /\ DecodedPc' = IF Stall(if_id) THEN DecodedPc ELSE pc
         /\ id_ex'.valid => ~Stall(if_id) /\ if_id.valid
  BY ProgramTyped, StagesShift, StagesMove DEF Cycle, Stages, Stops

\* A cycle keeps the instructions consecutive.
LEMMA NextOrder == TypeOK /\ InOrder /\ [Next]_vars => InOrder'
<1> SUFFICES ASSUME TypeOK, InOrder, [Next]_vars, ~stop_requested' PROVE InOrder'
  BY DEF InOrder
<1>1. CASE UNCHANGED vars
  BY <1>1 DEF vars, InOrder, Holds, RetiredPc, MemoryPc, CommittedPc, DecodedPc, Before
<1>2. CASE Cycle
  <2>1. /\ ~stop_requested /\ ~AlignmentFault(ex_mem)
        /\ prog' = prog /\ Len(prog) \in Nat /\ pc \in 0..Len(prog)
        /\ instructions_retired' =
             IF mem_wb.valid THEN instructions_retired + 1 ELSE instructions_retired
    BY <1>2, ProgramTyped, ProgLength, MemType DEF Cycle, Stages, Stops, TypeOK
  <2>2. /\ if_id.valid \in BOOLEAN /\ id_ex.valid \in BOOLEAN
        /\ ex_mem.valid \in BOOLEAN /\ mem_wb.valid \in BOOLEAN
    BY DEF TypeOK, LatchTypes
  <2>3. /\ instructions_retired = RetiredPc
        /\ Holds(mem_wb, RetiredPc) /\ Holds(ex_mem, MemoryPc)
        /\ Holds(id_ex, CommittedPc) /\ Holds(if_id, DecodedPc)
    BY <2>1 DEF InOrder
  <2>4. /\ CommittedPc' = DecodedPc /\ MemoryPc' = CommittedPc /\ RetiredPc' = MemoryPc
        /\ DecodedPc' = IF Stall(if_id) THEN DecodedPc ELSE pc
        /\ id_ex'.valid => ~Stall(if_id) /\ if_id.valid
    BY <1>2, CycleMoves
  <2>5. instructions_retired' = RetiredPc'
    BY <2>1, <2>2, <2>3, <2>4 DEF RetiredPc, MemoryPc, CommittedPc, DecodedPc, Before
  <2>6. Holds(mem_wb, RetiredPc)' /\ Holds(ex_mem, MemoryPc)'
    BY <1>2, <2>1, <2>2, <2>3, <2>4
       DEF Holds, Cycle, Stages, MemStage, ExStage, MEM_WB, EX_MEM
  <2>7. Holds(id_ex, CommittedPc)'
    BY <1>2, <2>1, <2>2, <2>3, <2>4 DEF Holds, Cycle, Stages, IdStage, ID_EX
  <2>8. Holds(if_id, DecodedPc)'
    BY <1>2, <2>1, <2>2, <2>3, <2>4 DEF Holds, Cycle, Stages, IfStage, IF_ID, Fetching
  <2>9. (mem_wb.reg_write = (mem_wb.valid /\ RegWrite(mem_wb.instr)))'
    <3>1. CASE ex_mem.valid
      <4>1. /\ mem_wb'.reg_write = RegWrite(ex_mem.instr)
            /\ mem_wb'.instr = ex_mem.instr
            /\ mem_wb'.valid
        BY <1>2, <2>1, <3>1 DEF Cycle, Stages, Stops, MemStage
      <4>2. RegWrite(ex_mem.instr) \in BOOLEAN
        BY DEF RegWrite
      <4> QED
        BY <4>1, <4>2
    <3>2. CASE ~ex_mem.valid
      BY <1>2, <3>2 DEF Cycle, Stages, Stops, MemStage, MEM_WB, RegWrite
    <3> QED
      BY <3>1, <3>2
  <2> QED
    BY <2>5, <2>6, <2>7, <2>8, <2>9 DEF InOrder
<1> QED
  BY <1>1, <1>2 DEF Next

\* Whatever the configuration and the program, the pipeline executes every
\* instruction once and in program order.
THEOREM ExecutesInOrder == Spec => []InOrder
<1> QED
  BY InitType, NextType, InitOrder, NextOrder, PTL DEF Spec

----------------------------------------------------------------------------
(* What a program costs *)

\* the bubbles k instructions can have behind them
Bubbles(k) == IF Forwarding THEN k ELSE 2 * k

\* The oldest instruction not yet decoded, committed and so on is as many cycles
\* behind the clock as the stages it is short of.
AtLeast ==
  /\ pc <= cycle_s
  /\ DecodedPc > 0 => DecodedPc + 1 <= cycle_s
  /\ CommittedPc > 0 => CommittedPc + 2 <= cycle_s
  /\ MemoryPc > 0 => MemoryPc + 3 <= cycle_s
  /\ RetiredPc > 0 => RetiredPc + 4 <= cycle_s

\* The instruction in ID can be held back while the one it waits for is in EX and,
\* without forwarding, once more while that is in MEM; each one before it has had
\* all its bubbles.
AtMost ==
  /\ if_id.valid =>
       IF id_ex.valid THEN cycle_s <= DecodedPc + 1 + Bubbles(DecodedPc - 1)
       ELSE IF ex_mem.valid THEN cycle_s <= DecodedPc + 2 + Bubbles(DecodedPc - 1)
       ELSE cycle_s <= DecodedPc + 1 + Bubbles(DecodedPc)
  /\ ~if_id.valid /\ pc = 0 => cycle_s = 0 /\ ~PipelineHasWork
  /\ ~if_id.valid /\ pc > 0 =>
       /\ pc = Len(prog)
       /\ cycle_s <= pc + Bubbles(pc - 1) + (IF id_ex.valid THEN 1
                                            ELSE IF ex_mem.valid THEN 2
                                            ELSE IF mem_wb.valid THEN 3 ELSE 4)

TimeInv == ~stop_requested => AtLeast /\ AtMost

\* The clock starts with the program.
LEMMA InitTime == Init => TimeInv
  BY DEF Init, TimeInv, AtLeast, AtMost, PipelineHasWork, RetiredPc, MemoryPc, CommittedPc,
         DecodedPc, Before, IF_ID, ID_EX, EX_MEM, MEM_WB

\* A cycle keeps the bounds.
LEMMA NextTime == TypeOK /\ InOrder /\ TimeInv /\ [Next]_vars => TimeInv'
<1> SUFFICES ASSUME TypeOK, InOrder, TimeInv, [Next]_vars, ~stop_requested'
             PROVE  AtLeast' /\ AtMost'
  BY DEF TimeInv
<1>1. CASE UNCHANGED vars
  <2>1. /\ DecodedPc' = DecodedPc /\ CommittedPc' = CommittedPc /\ MemoryPc' = MemoryPc
        /\ RetiredPc' = RetiredPc /\ (PipelineHasWork <=> PipelineHasWork')
        /\ UNCHANGED <<prog, pc, if_id, id_ex, ex_mem, mem_wb, cycle_s, stop_requested>>
    BY <1>1 DEF vars, RetiredPc, MemoryPc, CommittedPc, DecodedPc, Before, PipelineHasWork
  <2> QED
    BY <2>1 DEF TimeInv, AtLeast, AtMost
<1>2. CASE Cycle
  <2>1. /\ ~stop_requested /\ prog' = prog /\ cycle_s' = cycle_s + 1
        /\ ~AlignmentFault(ex_mem)
        /\ PipelineHasWork \/ FetchRemaining
        /\ AtLeast /\ AtMost
    BY <1>2 DEF Cycle, Stages, Stops, TimeInv
  <2>2. /\ (mem_wb'.valid <=> ex_mem.valid) /\ (ex_mem'.valid <=> id_ex.valid)
        /\ id_ex'.valid <=> if_id.valid /\ ~Stall(if_id)
        /\ if_id'.valid <=> Stall(if_id) \/ pc < Len(prog)
        /\ pc' = IF ~Stall(if_id) /\ pc < Len(prog) THEN pc + 1 ELSE pc
        /\ Stall(if_id) => /\ if_id.valid
                           /\ id_ex.valid \/ (~Forwarding /\ ex_mem.valid)
    BY <1>2, <2>1, ProgramTyped, StagesShift DEF Cycle
  <2>3. /\ if_id.valid \in BOOLEAN /\ id_ex.valid \in BOOLEAN
        /\ ex_mem.valid \in BOOLEAN /\ mem_wb.valid \in BOOLEAN
        /\ Len(prog) \in Nat /\ pc \in 0..Len(prog) /\ cycle_s \in Nat
    BY ProgramTyped, ProgLength DEF TypeOK, LatchTypes
  <2>4. /\ CommittedPc' = DecodedPc /\ MemoryPc' = CommittedPc /\ RetiredPc' = MemoryPc
        /\ DecodedPc' = IF Stall(if_id) THEN DecodedPc ELSE pc
    BY <1>2, CycleMoves
  <2>5. /\ RetiredPc \in Nat /\ DecodedPc \in Int /\ CommittedPc \in Int
        /\ MemoryPc \in Int
        /\ DecodedPc = (IF if_id.valid THEN pc - 1 ELSE pc)
        /\ CommittedPc = (IF id_ex.valid THEN DecodedPc - 1 ELSE DecodedPc)
        /\ MemoryPc = (IF ex_mem.valid THEN CommittedPc - 1 ELSE CommittedPc)
        /\ RetiredPc = (IF mem_wb.valid THEN MemoryPc - 1 ELSE MemoryPc)
    BY <2>1, <2>3 DEF InOrder, TypeOK, RetiredPc, MemoryPc, CommittedPc, DecodedPc, Before
  <2>6. AtLeast'
    BY <2>1, <2>2, <2>3, <2>4, <2>5 DEF AtLeast
  <2>7. AtMost'
    <3>1. if_id'.valid => (IF id_ex.valid THEN cycle_s <= DecodedPc + 1 + Bubbles(DecodedPc - 1)
       ELSE IF ex_mem.valid THEN cycle_s <= DecodedPc + 2 + Bubbles(DecodedPc - 1)
       ELSE cycle_s <= DecodedPc + 1 + Bubbles(DecodedPc))'
      <4>1. CASE Stall(if_id)
        <5>1. CASE id_ex.valid
          BY <2>1, <2>2, <2>3, <2>4, <2>5, <4>1, <5>1 DEF AtMost, Bubbles
        <5>2. CASE ~id_ex.valid
          BY <2>1, <2>2, <2>3, <2>4, <2>5, <4>1, <5>2 DEF AtMost, Bubbles
        <5> QED
          BY <5>1, <5>2
      <4>2. CASE ~Stall(if_id)
        BY <2>1, <2>2, <2>3, <2>4, <2>5, <4>2 DEF AtMost, Bubbles, PipelineHasWork
      <4> QED
        BY <4>1, <4>2
    <3>2. ~if_id'.valid => pc' > 0
      BY <2>1, <2>2, <2>3, <2>5 DEF AtMost, PipelineHasWork, FetchRemaining
    <3>3. ~if_id'.valid => pc' = pc /\ pc = Len(prog) /\ ~Stall(if_id)
      BY <2>2, <2>3
    <3>4. ASSUME ~if_id'.valid
          PROVE  cycle_s' <= pc' + Bubbles(pc' - 1) + (IF id_ex'.valid THEN 1
                                            ELSE IF ex_mem'.valid THEN 2
                                            ELSE IF mem_wb'.valid THEN 3 ELSE 4)
      BY <2>1, <2>2, <2>3, <2>4, <2>5, <3>2, <3>3, <3>4
         DEF AtMost, Bubbles, PipelineHasWork, FetchRemaining
    <3> QED
      BY <2>1, <3>1, <3>2, <3>3, <3>4 DEF AtMost
  <2> QED
    BY <2>6, <2>7
<1> QED
  BY <1>1, <1>2 DEF Next

\* A program of n instructions takes n + 4 cycles and at most one bubble between two
\* of them with forwarding, two without: no stall is repeated, whatever the program.
THEOREM CostIsBounded == Spec => []CycleBound
<1>1. TypeOK /\ InOrder /\ TimeInv => CycleBound
  <2> SUFFICES ASSUME TypeOK, InOrder, TimeInv, Finished, ~stop_requested, Len(prog) > 0
               PROVE  /\ cycle_s \in Nat /\ Len(prog) \in Nat
                      /\ Len(prog) + 4 <= cycle_s
                      /\ cycle_s <= Len(prog) + 4 + (IF Forwarding THEN 1 ELSE 2)
                                                     * (Len(prog) - 1)
    BY DEF CycleBound
  <2>1. /\ pc = Len(prog) /\ Len(prog) \in Nat /\ cycle_s \in Nat
        /\ ~if_id.valid /\ ~id_ex.valid /\ ~ex_mem.valid /\ ~mem_wb.valid
    BY ProgramTyped, ProgLength DEF Finished, PipelineHasWork, FetchRemaining, TypeOK
  <2>2. RetiredPc = Len(prog)
    BY <2>1 DEF RetiredPc, MemoryPc, CommittedPc, DecodedPc, Before
  <2>3. AtLeast /\ AtMost
    BY DEF TimeInv
  <2> QED
    BY <2>1, <2>2, <2>3 DEF AtLeast, AtMost, Bubbles
<1> QED
  BY <1>1, InitType, NextType, InitOrder, NextOrder, InitTime, NextTime, PTL DEF Spec
=============================================================================
