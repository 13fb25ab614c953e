------------------------- MODULE PipelineAgreement -------------------------
(***************************************************************************)
(* The pipelined machine implements the single-cycle machine, for every    *)
(* instance of the constants that satisfies Agreement.  A cycle with an    *)
(* instruction in EX is a step of the single-cycle machine (Commits), any  *)
(* other cycle changes nothing (Stutters).                                 *)
(*                                                                         *)
(* Working adds to the operands' freshness what makes it inductive: the    *)
(* order of the instructions, which ties each pipeline register to the     *)
(* program and so to Agreeing, and the boxing of the registers that have   *)
(* been written.                                                           *)
(***************************************************************************)
EXTENDS PipelineProofs

Working == TypeOK /\ InOrder /\ OperandsFresh /\ CommittedBoxed

----------------------------------------------------------------------------
(* The instructions in flight *)

\* An instruction in a pipeline register is one of an agreeing program.
LEMMA InFlight ==
  ASSUME Agreement, TypeOK, InOrder, ~stop_requested
  PROVE  \A i \in {if_id.instr, id_ex.instr, ex_mem.instr, mem_wb.instr} :
           /\ RdIsFloat(i) => WbToFpr(i) /\ RegWrite(i)
           /\ ~Forwarding /\ RdIsFloat(i) => i.rd # 0
<1>1. Agreeing(prog) /\ Len(prog) \in Nat
  BY ProgramTyped, ProgLength DEF Agreement, TypeOK
<1>2. /\ if_id.valid \in BOOLEAN /\ id_ex.valid \in BOOLEAN
      /\ ex_mem.valid \in BOOLEAN /\ mem_wb.valid \in BOOLEAN
      /\ pc \in 0..Len(prog)
  BY DEF TypeOK, LatchTypes
<1>3. ASSUME NEW i, i = NoInstr \/ \E n \in 1..Len(prog) : i = prog[n]
      PROVE  /\ RdIsFloat(i) => WbToFpr(i) /\ RegWrite(i)
             /\ ~Forwarding /\ RdIsFloat(i) => i.rd # 0
  BY <1>1, <1>3 DEF Agreeing, RdIsFloat, WbToFpr, RegWrite, NoInstr
<1>4. ASSUME NEW l, NEW n, Holds(l, n), l.valid => n \in Nat
      PROVE  l.instr = NoInstr \/ \E k \in 1..Len(prog) : l.instr = prog[k]
  BY <1>1, <1>4 DEF Holds
<1>5. /\ DecodedPc \in Int /\ CommittedPc \in Int /\ MemoryPc \in Int /\ RetiredPc \in Int
      /\ RetiredPc \in Nat
      /\ RetiredPc <= MemoryPc /\ MemoryPc <= CommittedPc /\ CommittedPc <= DecodedPc
  BY <1>2 DEF DecodedPc, CommittedPc, MemoryPc, RetiredPc, Before, InOrder, TypeOK
<1> QED
  BY <1>3, <1>4, <1>5 DEF InOrder

\* The single-cycle machine's state is well-typed.
LEMMA CommittedType ==
  ASSUME TypeOK
  PROVE  /\ CommittedGpr \in [RegNum -> Word]
         /\ CommittedFpr \in [RegNum -> Word]
         /\ CommittedMem \in Mem
<1>1. /\ WbGpr(mem_wb, gpr) \in [RegNum -> Word] /\ WbFpr(mem_wb, fpr) \in [RegNum -> Word]
  BY ProgramTyped, WbType
<1>2. /\ ex_mem.valid => ex_mem.instr \in InstrSet
      /\ ex_mem.instr.rd \in RegNum /\ ex_mem.alu_result \in Word
      /\ ex_mem.reg2_value \in Word /\ mem \in Mem
  BY DEF TypeOK, LatchTypes, Fetched, Instr
<1>3. ex_mem.valid => PendingValue(ex_mem) \in Word
  BY <1>2, UnitTypes DEF PendingValue, MemData
<1>4. CommittedGpr \in [RegNum -> Word]
  BY <1>1, <1>2, <1>3, GprType DEF CommittedGpr
<1>5. CommittedFpr \in [RegNum -> Word]
  BY <1>1, <1>2, <1>3, UnitTypes DEF CommittedFpr
<1>6. CommittedMem \in Mem
  BY <1>2, UnitTypes DEF CommittedMem
<1> QED
  BY <1>4, <1>5, <1>6

\* A register reads as the value last written to it, masked; x0 reads as 0.
LEMMA ReadAfterWrite ==
  ASSUME NEW g \in [RegNum -> Word], NEW d \in RegNum, NEW r \in RegNum, NEW v \in Word
  PROVE  ReadGpr(WriteGpr(g, d, v), r) =
           IF d = r /\ r # 0 THEN GprMask(v) ELSE ReadGpr(g, r)
<1>1. GprMask(GprMask(v)) = GprMask(v)
  BY UnitTypes
<1> QED
  BY <1>1 DEF ReadGpr, WriteGpr

\* A committed register holds the youngest result that is on its way to it.
LEMMA CommittedRead ==
  ASSUME Agreement, Working, ~stop_requested, NEW r \in RegNum
  PROVE  /\ Writes(ex_mem, r, FALSE) =>
              ReadGpr(CommittedGpr, r) = GprMask(PendingValue(ex_mem))
         /\ ~Writes(ex_mem, r, FALSE) /\ Writes(mem_wb, r, FALSE) =>
              ReadGpr(CommittedGpr, r) = GprMask(WriteValue(mem_wb))
         /\ ~Writes(ex_mem, r, FALSE) /\ ~Writes(mem_wb, r, FALSE) =>
              ReadGpr(CommittedGpr, r) = ReadGpr(gpr, r)
         /\ Writes(ex_mem, r, TRUE) =>
              CommittedFpr[r] = NanBox(PendingValue(ex_mem))
         /\ ~Writes(ex_mem, r, TRUE) /\ Writes(mem_wb, r, TRUE) =>
              CommittedFpr[r] = NanBox(WriteValue(mem_wb))
         /\ ~Writes(ex_mem, r, TRUE) /\ ~Writes(mem_wb, r, TRUE) =>
              CommittedFpr[r] = fpr[r]
<1> USE DEF Working
<1>1. /\ gpr \in [RegNum -> Word] /\ fpr \in [RegNum -> Word]
      /\ WbGpr(mem_wb, gpr) \in [RegNum -> Word] /\ WbFpr(mem_wb, fpr) \in [RegNum -> Word]
      /\ mem_wb.instr.rd \in RegNum /\ ex_mem.instr.rd \in RegNum
      /\ WriteValue(mem_wb) \in Word /\ ex_mem.alu_result \in Word
      /\ ex_mem.valid => PendingValue(ex_mem) \in Word
  <2>1. ex_mem.valid => MemData(ex_mem, mem) \in Word
    BY UnitTypes DEF TypeOK, LatchTypes, Fetched, MemData
  <2> QED
    BY <2>1, ProgramTyped, WbType DEF TypeOK, LatchTypes, Instr, WriteValue, PendingValue
<1>2. /\ RdIsFloat(mem_wb.instr) => WbToFpr(mem_wb.instr)
      /\ RdIsFloat(ex_mem.instr) => WbToFpr(ex_mem.instr) /\ RegWrite(ex_mem.instr)
      /\ mem_wb.reg_write = (mem_wb.valid /\ RegWrite(mem_wb.instr))
  BY InFlight DEF InOrder
<1>3. ReadGpr(WbGpr(mem_wb, gpr), r) =
        IF Writes(mem_wb, r, FALSE) THEN GprMask(WriteValue(mem_wb)) ELSE ReadGpr(gpr, r)
  <2>1. CASE WbWrites(mem_wb) /\ ~WbToFpr(mem_wb.instr)
    <3>1. ReadGpr(WbGpr(mem_wb, gpr), r) =
            IF mem_wb.instr.rd = r /\ r # 0 THEN GprMask(WriteValue(mem_wb)) ELSE ReadGpr(gpr, r)
      BY <1>1, <2>1, ReadAfterWrite DEF WbGpr
    <3>2. Writes(mem_wb, r, FALSE) <=> (mem_wb.instr.rd = r /\ r # 0)
      BY <1>2, <2>1 DEF WbWrites, Writes, RdIsFloat
    <3> QED
      BY <3>1, <3>2
  <2>2. CASE ~(WbWrites(mem_wb) /\ ~WbToFpr(mem_wb.instr))
    <3>1. ~Writes(mem_wb, r, FALSE)
      BY <1>2, <2>2 DEF WbWrites, Writes, WbToFpr
    <3> QED
      BY <2>2, <3>1 DEF WbGpr
  <2> QED
    BY <2>1, <2>2
<1>4. WbFpr(mem_wb, fpr)[r] =
        IF Writes(mem_wb, r, TRUE) THEN NanBox(WriteValue(mem_wb)) ELSE fpr[r]
  BY <1>1, <1>2 DEF WbFpr, WbWrites, Writes, WbToFpr
<1>5. ReadGpr(CommittedGpr, r) =
        IF Writes(ex_mem, r, FALSE) THEN GprMask(PendingValue(ex_mem))
                                    ELSE ReadGpr(WbGpr(mem_wb, gpr), r)
  <2>1. CASE ex_mem.valid /\ ToGpr(ex_mem.instr)
    <3>1. ReadGpr(CommittedGpr, r) =
            IF ex_mem.instr.rd = r /\ r # 0 THEN GprMask(PendingValue(ex_mem))
            ELSE ReadGpr(WbGpr(mem_wb, gpr), r)
      BY <1>1, <2>1, ReadAfterWrite DEF CommittedGpr
    <3>2. Writes(ex_mem, r, FALSE) <=> (ex_mem.instr.rd = r /\ r # 0)
      BY <2>1 DEF Writes, ToGpr, RdIsFloat
    <3> QED
      BY <3>1, <3>2
  <2>2. CASE ~(ex_mem.valid /\ ToGpr(ex_mem.instr))
    <3>1. ~Writes(ex_mem, r, FALSE)
      BY <2>2 DEF Writes, ToGpr
    <3> QED
      BY <2>2, <3>1 DEF CommittedGpr
  <2> QED
    BY <2>1, <2>2
<1>6. CommittedFpr[r] =
        IF Writes(ex_mem, r, TRUE) THEN NanBox(PendingValue(ex_mem))
                                   ELSE WbFpr(mem_wb, fpr)[r]
  BY <1>1, <1>2 DEF CommittedFpr, Writes, ToFpr, WbToFpr
<1> QED
  BY <1>3, <1>4, <1>5, <1>6

\* What EX uses for a ready operand is the committed register: exactly for an
\* integer operand, in its low half for a floating-point one.
LEMMA ForwardedAgrees ==
  ASSUME Agreement, Working, ~stop_requested,
         NEW r \in RegNum, NEW isFloat \in BOOLEAN, Ready(r, isFloat),
         NEW read, read = IF isFloat THEN fpr[r] ELSE ReadGpr(gpr, r)
  PROVE  /\ isFloat => Low(Forwarded(r, isFloat, read)) = Low(CommittedFpr[r])
         /\ ~isFloat => Forwarded(r, isFloat, read) = ReadGpr(CommittedGpr, r)
<1> DEFINE c == IF isFloat THEN CommittedFpr[r] ELSE ReadGpr(CommittedGpr, r)
<1> DEFINE v == Forwarded(r, isFloat, read)
<1>1. /\ Writes(ex_mem, r, isFloat) =>
            c = IF isFloat THEN NanBox(PendingValue(ex_mem)) ELSE GprMask(PendingValue(ex_mem))
      /\ ~Writes(ex_mem, r, isFloat) /\ Writes(mem_wb, r, isFloat) =>
            c = IF isFloat THEN NanBox(WriteValue(mem_wb)) ELSE GprMask(WriteValue(mem_wb))
      /\ ~Writes(ex_mem, r, isFloat) /\ ~Writes(mem_wb, r, isFloat) => c = read
  BY CommittedRead
<1>2. CASE ~Forwarding
  BY <1>1, <1>2 DEF Ready, Forwarded
<1>3. CASE Forwarding
  <2>1. /\ FullWidth
        /\ WriteValue(mem_wb) \in Word /\ ex_mem.alu_result \in Word
        /\ mem_wb.reg_write = (mem_wb.valid /\ RegWrite(mem_wb.instr))
        /\ r # 0 \/ r = 0
    BY <1>3 DEF Agreement, Working, TypeOK, LatchTypes, WriteValue, InOrder
  <2>2. CASE ~isFloat /\ r = 0
    BY <1>3, <2>2 DEF Forwarded, ReadGpr
  <2>3. CASE (isFloat \/ r # 0) /\ Writes(ex_mem, r, isFloat)
    <3>1. v = ex_mem.alu_result
      BY <1>3, <2>3
         DEF Forwarded, Sources!GetRsSource, Sources!Matches, Sources!IsGprZero, Writes
    <3>2. PendingValue(ex_mem) = ex_mem.alu_result
      BY <1>3, <2>3 DEF Ready, PendingValue
    <3> QED
      BY <1>1, <2>1, <2>3, <3>1, <3>2, BoxingFacts DEF FullWidth
  <2>4. CASE (isFloat \/ r # 0) /\ ~Writes(ex_mem, r, isFloat) /\ Writes(mem_wb, r, isFloat)
    <3>1. v = WriteValue(mem_wb)
      BY <1>3, <2>1, <2>4
         DEF Forwarded, Sources!GetRsSource, Sources!Matches, Sources!IsGprZero, Writes
    <3> QED
      BY <1>1, <2>1, <2>4, <3>1, BoxingFacts DEF FullWidth
  <2>5. CASE (isFloat \/ r # 0) /\ ~Writes(ex_mem, r, isFloat) /\ ~Writes(mem_wb, r, isFloat)
    <3>1. v = read
      BY <1>3, <2>1, <2>5
         DEF Forwarded, Sources!GetRsSource, Sources!Matches, Sources!IsGprZero, Writes
    <3> QED
      BY <1>1, <2>5, <3>1
  <2> QED
    BY <2>2, <2>3, <2>4, <2>5
<1> QED
  BY <1>2, <1>3

\* The operands of the instruction in EX are the committed registers.
LEMMA OperandsAgree ==
  ASSUME Agreement, Working, ~stop_requested, id_ex.valid
  PROVE  LET i == id_ex.instr
         IN  /\ ~Rs1IsFloat(i) => Operand1(id_ex) = ReadGpr(CommittedGpr, i.rs1)
             /\ Rs1IsFloat(i)  => Low(Operand1(id_ex)) = Low(CommittedFpr[i.rs1])
             /\ ~IsFloat(i)    => Operand2(id_ex) = ReadGpr(CommittedGpr, i.rs2)
             /\ Rs2IsFloat(i)  => Low(Operand2(id_ex)) = Low(CommittedFpr[i.rs2])
<1> DEFINE i == id_ex.instr
<1>1. i.rs1 \in RegNum /\ i.rs2 \in RegNum
  BY DEF Working, TypeOK, LatchTypes, Instr
<1>2. /\ id_ex.reg1_value = ReadRs1(i, gpr, fpr) /\ id_ex.reg2_value = ReadRs2(i, gpr, fpr)
      /\ Ready(i.rs1, Rs1IsFloat(i)) /\ Ready(i.rs2, Rs2IsFloat(i))
  BY DEF Working, OperandsFresh
<1>3. Rs1IsFloat(i) \in BOOLEAN /\ Rs2IsFloat(i) \in BOOLEAN
  BY DEF Rs1IsFloat, Rs2IsFloat
<1>4. id_ex.reg1_value = IF Rs1IsFloat(i) THEN fpr[i.rs1] ELSE ReadGpr(gpr, i.rs1)
  BY <1>2 DEF ReadRs1
<1>5. ~IsFloat(i) \/ Rs2IsFloat(i) =>
        id_ex.reg2_value = IF Rs2IsFloat(i) THEN fpr[i.rs2] ELSE ReadGpr(gpr, i.rs2)
  BY <1>2 DEF ReadRs2
<1>6. /\ Rs1IsFloat(i) => Low(Operand1(id_ex)) = Low(CommittedFpr[i.rs1])
      /\ ~Rs1IsFloat(i) => Operand1(id_ex) = ReadGpr(CommittedGpr, i.rs1)
  BY <1>1, <1>2, <1>3, <1>4, ForwardedAgrees DEF Operand1
<1>7. ~IsFloat(i) \/ Rs2IsFloat(i) =>
        /\ Rs2IsFloat(i) => Low(Operand2(id_ex)) = Low(CommittedFpr[i.rs2])
        /\ ~Rs2IsFloat(i) => Operand2(id_ex) = ReadGpr(CommittedGpr, i.rs2)
  BY <1>1, <1>2, <1>3, <1>5, ForwardedAgrees DEF Operand2
<1>8. ~IsFloat(i) => ~Rs2IsFloat(i)
  BY DEF IsFloat, Rs2IsFloat
<1> QED
  BY <1>6, <1>7, <1>8

----------------------------------------------------------------------------
(* What a cycle does to the committed state *)

\* MEM and WB complete the committed instructions: a cycle turns the committed
\* memory and registers into the real ones, as far as these stages reach.
LEMMA CycleCompletes ==
  ASSUME Agreement, Working, Cycle, ~stop_requested'
  PROVE  /\ mem' = CommittedMem
         /\ WbGpr(mem_wb, gpr)' = CommittedGpr
         /\ WbFpr(mem_wb, fpr)' = CommittedFpr
<1> USE DEF Working
<1>1. ~stop_requested /\ ~AlignmentFault(ex_mem)
  BY ProgramTyped, MemType DEF Cycle, Stages, Stops, TypeOK
<1>2. mem' = CommittedMem
  BY <1>1 DEF Cycle, Stages, Stops, MemMem, CommittedMem
<1>3. /\ gpr' = WbGpr(mem_wb, gpr) /\ fpr' = WbFpr(mem_wb, fpr)
      /\ mem_wb' = MemStage(ex_mem, mem)
  BY DEF Cycle, Stages, Stops
<1>4. /\ RdIsFloat(ex_mem.instr) => WbToFpr(ex_mem.instr) /\ RegWrite(ex_mem.instr)
  BY <1>1, InFlight
<1>5. CASE ~ex_mem.valid
  <2>1. ~mem_wb'.valid
    BY <1>3, <1>5 DEF MemStage, MEM_WB
  <2> QED
    BY <1>2, <1>3, <1>5, <2>1 DEF WbGpr, WbFpr, WbWrites, CommittedGpr, CommittedFpr
<1>6. CASE ex_mem.valid
  <2>1. /\ mem_wb'.valid /\ mem_wb'.instr = ex_mem.instr
        /\ mem_wb'.reg_write = RegWrite(ex_mem.instr)
        /\ mem_wb'.alu_result = ex_mem.alu_result
        /\ MemRead(ex_mem.instr) => mem_wb'.mem_data = MemData(ex_mem, mem)
    BY <1>1, <1>3, <1>6 DEF MemStage
  <2>2. WriteValue(mem_wb)' = PendingValue(ex_mem)
    BY <2>1 DEF WriteValue, PendingValue
  <2>3. WbGpr(mem_wb, gpr)' = CommittedGpr
    BY <1>3, <1>4, <1>6, <2>1, <2>2
       DEF WbGpr, CommittedGpr, WbWrites, ToGpr, WbToFpr, WriteGpr
  <2>4. WbFpr(mem_wb, fpr)' = CommittedFpr
    BY <1>3, <1>4, <1>6, <2>1, <2>2 DEF WbFpr, CommittedFpr, WbWrites, ToFpr, WbToFpr
  <2> QED
    BY <1>2, <2>3, <2>4
<1> QED
  BY <1>5, <1>6

\* EX adds one instruction to the committed ones, or none.
LEMMA CycleAdds ==
  ASSUME Agreement, Working, Cycle, ~stop_requested'
  PROVE  LET i == id_ex.instr
             v == IF MemRead(i) THEN MemData(ex_mem, mem)' ELSE AluResult(id_ex)
             d == IF i.op \in {"ECALL", "LOADFP"} THEN Zero ELSE Operand2(id_ex)
         IN  /\ CommittedGpr' = IF id_ex.valid /\ ToGpr(i)
                                THEN WriteGpr(CommittedGpr, i.rd, v) ELSE CommittedGpr
             /\ CommittedFpr' = IF id_ex.valid /\ ToFpr(i)
                                THEN [CommittedFpr EXCEPT ![i.rd] = NanBox(v)] ELSE CommittedFpr
             /\ CommittedMem' = IF id_ex.valid /\ MemWrite(i)
                                THEN Store(i, CommittedMem, AluResult(id_ex),
                                           IF IsFloat(i) THEN Low(d) ELSE d)
                                ELSE CommittedMem
             /\ fcsr' = ExFcsr(id_ex, fcsr)
<1> DEFINE i == id_ex.instr
<1> DEFINE v == IF MemRead(i) THEN MemData(ex_mem, mem)' ELSE AluResult(id_ex)
<1>1. /\ mem' = CommittedMem
      /\ WbGpr(mem_wb, gpr)' = CommittedGpr
      /\ WbFpr(mem_wb, fpr)' = CommittedFpr
  BY CycleCompletes
<1>2. ex_mem' = ExStage(id_ex) /\ fcsr' = ExFcsr(id_ex, fcsr)
  BY DEF Cycle, Stages, Stops
<1>3. CASE ~id_ex.valid
  <2>1. ~ex_mem'.valid
    BY <1>2, <1>3 DEF ExStage, EX_MEM
  <2> QED
    BY <1>1, <1>2, <1>3, <2>1 DEF CommittedGpr, CommittedFpr, CommittedMem
<1>4. CASE id_ex.valid
  <2>1. /\ ex_mem'.valid /\ ex_mem'.instr = i /\ ex_mem'.alu_result = AluResult(id_ex)
        /\ ex_mem'.reg2_value = IF i.op \in {"ECALL", "LOADFP"} THEN Zero ELSE Operand2(id_ex)
    BY <1>2, <1>4 DEF ExStage
  <2>2. PendingValue(ex_mem)' = v
    BY <2>1 DEF PendingValue
  <2> QED
    BY <1>1, <1>2, <1>4, <2>1, <2>2 DEF CommittedGpr, CommittedFpr, CommittedMem
<1> QED
  BY <1>3, <1>4

\* A cycle with a bubble in EX is invisible.
LEMMA Stutters ==
  ASSUME Agreement, Working, Cycle, ~stop_requested', ~id_ex.valid
  PROVE  UNCHANGED SC!vars
<1>1. CommittedPc' = CommittedPc
  BY CycleMoves DEF CommittedPc, Before, Working
<1>2. prog' = prog
  BY DEF Cycle, Stages, Stops
<1> QED
  BY <1>1, <1>2, CycleAdds DEF SC!vars, ExFcsr

\* The single-cycle machine has the same control unit, register file and
\* execution units.
LEMMA SameUnits ==
  /\ \A g, r : SC!ReadGpr(g, r) = ReadGpr(g, r)
  /\ \A g, r, v : SC!WriteGpr(g, r, v) = WriteGpr(g, r, v)
  /\ \A i : /\ SC!RegWrite(i) = RegWrite(i) /\ SC!MemRead(i) = MemRead(i)
            /\ SC!MemWrite(i) = MemWrite(i) /\ SC!AluSrc(i) = AluSrc(i)
            /\ SC!IsFloat(i) = IsFloat(i)
  /\ \A i, a, b : /\ SC!AluExecute(i, a, b) = AluExecute(i, a, b)
                  /\ SC!FpExecute(i, a, b) = FpExecute(i, a, b)
                  /\ SC!FpStatus(i, a, b) = FpStatus(i, a, b)
<1>1. \A g, r : SC!ReadGpr(g, r) = ReadGpr(g, r)
  BY DEF SC!ReadGpr, ReadGpr
<1>2. \A g, r, v : SC!WriteGpr(g, r, v) = WriteGpr(g, r, v)
  BY DEF SC!WriteGpr, WriteGpr
<1>3. \A i : /\ SC!RegWrite(i) = RegWrite(i) /\ SC!MemRead(i) = MemRead(i)
            /\ SC!MemWrite(i) = MemWrite(i) /\ SC!AluSrc(i) = AluSrc(i)
            /\ SC!IsFloat(i) = IsFloat(i)
  BY DEF SC!RegWrite, RegWrite, SC!MemRead, MemRead, SC!MemWrite, MemWrite,
         SC!AluSrc, AluSrc, SC!IsFloat, IsFloat
<1>4. \A i, a, b : SC!AluExecute(i, a, b) = AluExecute(i, a, b)
  BY DEF SC!AluExecute, AluExecute
<1>5. \A i, a : SC!FpOperandA(i, a) = FpOperandA(i, a)
  BY DEF SC!FpOperandA, FpOperandA
<1>6. \A i, b : SC!FpOperandB(i, b) = FpOperandB(i, b)
  BY DEF SC!FpOperandB, FpOperandB
<1>7. \A i, a, b : /\ SC!FpExecute(i, a, b) = FpExecute(i, a, b)
                  /\ SC!FpStatus(i, a, b) = FpStatus(i, a, b)
  BY <1>5, <1>6 DEF SC!FpExecute, FpExecute, SC!FpStatus, FpStatus
<1> QED
  BY <1>1, <1>2, <1>3, <1>4, <1>7

\* The instruction in EX is the next one of the program, and one on which the
\* machines agree.
LEMMA NextInstruction ==
  ASSUME Agreement, Working, ~stop_requested, id_ex.valid
  PROVE  /\ CommittedPc \in Nat /\ CommittedPc < Len(prog)
         /\ id_ex.pc = CommittedPc /\ id_ex.instr = prog[CommittedPc + 1]
         /\ id_ex.instr \in InstrSet /\ id_ex.instr \in Instr
         /\ DecodedPc = CommittedPc + 1
         /\ id_ex.instr.op \notin {"BRANCH", "JAL", "JALR", "ECALL"}
         /\ id_ex.instr.op \in {"LUI", "AUIPC"} =>
              UpperZ(id_ex.instr.imm) = UpperS(id_ex.instr.imm)
         /\ \A r \in FpSources(id_ex.instr) :
              LET v == CommittedFpr[r] IN NanBox(v) = v
<1> DEFINE i == id_ex.instr
<1>1. /\ if_id.valid \in BOOLEAN /\ pc \in 0..Len(prog) /\ Len(prog) \in Nat
      /\ i \in Instr /\ i \in InstrSet /\ id_ex.pc \in 0..Len(prog)
  BY ProgramTyped, ProgLength DEF Working, TypeOK, LatchTypes, Fetched
<1>2. id_ex.pc = CommittedPc /\ CommittedPc < Len(prog) /\ i = prog[CommittedPc + 1]
  BY DEF Working, InOrder, Holds
<1>3. CommittedPc \in Nat /\ DecodedPc = CommittedPc + 1
  BY <1>1, <1>2 DEF CommittedPc, DecodedPc, Before
<1>4. /\ i.op \notin {"BRANCH", "JAL", "JALR", "ECALL"}
      /\ i.op \in {"LUI", "AUIPC"} => UpperZ(i.imm) = UpperS(i.imm)
      /\ \A r \in FpSources(i) :
           \E j \in 1..CommittedPc : RdIsFloat(prog[j]) /\ prog[j].rd = r
  <2>1. Agreeing(prog)
    BY DEF Agreement, Working, TypeOK
  <2> DEFINE k == CommittedPc + 1
  <2>2. k \in 1..Len(prog) /\ 1..(k - 1) = 1..CommittedPc
    BY <1>1, <1>2, <1>3
  <2>3. /\ prog[k].op \notin {"BRANCH", "JAL", "JALR", "ECALL"}
        /\ prog[k].op \in {"LUI", "AUIPC"} => UpperZ(prog[k].imm) = UpperS(prog[k].imm)
        /\ \A r \in FpSources(prog[k]) :
             \E j \in 1..(k - 1) : RdIsFloat(prog[j]) /\ prog[j].rd = r
    BY <2>1, <2>2 DEF Agreeing
  <2> HIDE DEF k
  <2> QED
    BY <1>2, <2>2, <2>3 DEF k
<1>5. \A j \in 1..CommittedPc : RdIsFloat(prog[j]) =>
        NanBox(CommittedFpr[prog[j].rd]) = CommittedFpr[prog[j].rd]
  BY DEF Working, CommittedBoxed
<1> QED
  BY <1>1, <1>2, <1>3, <1>4, <1>5

\* A floating-point operation computes the same on the operands of EX and on
\* the validated committed registers.
LEMMA FloatAgrees ==
  ASSUME Agreement, Working, ~stop_requested, id_ex.valid, id_ex.instr.op = "OPFP"
  PROVE  LET i == id_ex.instr
         IN  /\ FpExecute(i, Operand1(id_ex), Operand2(id_ex)) = SC!ExecuteFloat(i).result
             /\ FpStatus(i, Operand1(id_ex), Operand2(id_ex)) = SC!ExecuteFloat(i).status
<1> DEFINE i == id_ex.instr
<1> DEFINE a == IF i.f7 = "FROM_GPR" THEN ReadGpr(CommittedGpr, i.rs1)
                ELSE SC!ValidateSp(CommittedFpr[i.rs1])
<1> DEFINE b == IF i.f7 = "FROM_GPR" THEN CommittedFpr[i.rs2]
                ELSE SC!ValidateSp(CommittedFpr[i.rs2])
<1>1. i \in Instr /\ \A r \in FpSources(i) : NanBox(CommittedFpr[r]) = CommittedFpr[r]
  BY NextInstruction
<1>2. CommittedFpr[i.rs1] \in Word /\ CommittedFpr[i.rs2] \in Word
  BY <1>1, CommittedType DEF Working, Instr
<1>3. FpOperandA(i, Operand1(id_ex)) = FpOperandA(i, a)
  <2>1. CASE i.f7 = "FROM_GPR"
    <3>1. ~Rs1IsFloat(i)
      BY <2>1 DEF Rs1IsFloat
    <3>2. Operand1(id_ex) = ReadGpr(CommittedGpr, i.rs1)
      BY <3>1, OperandsAgree
    <3> QED
      BY <2>1, <3>2 DEF FpOperandA
  <2>2. CASE i.f7 # "FROM_GPR"
    <3>1. Rs1IsFloat(i) /\ i.rs1 \in FpSources(i)
      BY <2>2 DEF Rs1IsFloat, FpSources
    <3>2. Low(Operand1(id_ex)) = Low(CommittedFpr[i.rs1])
      BY <3>1, OperandsAgree
    <3>3. a = Low(CommittedFpr[i.rs1])
      BY <1>1, <2>2, <3>1 DEF SC!ValidateSp
    <3> QED
      BY <1>2, <2>2, <3>2, <3>3, BoxingFacts DEF FpOperandA
  <2> QED
    BY <2>1, <2>2
<1>4. FpOperandB(i, Operand2(id_ex)) = FpOperandB(i, b)
  <2>1. CASE i.f7 \in {"ARITH", "CMP"}
    <3>1. Rs2IsFloat(i) /\ i.rs2 \in FpSources(i)
      BY <2>1 DEF Rs2IsFloat, FpSources
    <3>2. Low(Operand2(id_ex)) = Low(CommittedFpr[i.rs2])
      BY <3>1, OperandsAgree
    <3>3. b = Low(CommittedFpr[i.rs2])
      BY <1>1, <2>1, <3>1 DEF SC!ValidateSp
    <3> QED
      BY <1>2, <2>1, <3>2, <3>3, BoxingFacts DEF FpOperandB
  <2>2. CASE i.f7 \notin {"ARITH", "CMP"}
    BY <2>2 DEF FpOperandB
  <2> QED
    BY <2>1, <2>2
<1> QED
  BY <1>3, <1>4, SameUnits DEF SC!ExecuteFloat, FpExecute, FpStatus

\* The result of an integer instruction is the one the single-cycle machine
\* computes, and so is the address of an access.
LEMMA IntegerAgrees ==
  ASSUME Agreement, Working, ~stop_requested, id_ex.valid
  PROVE  LET i == id_ex.instr
         IN  /\ i.op \in {"LOAD", "STORE", "LOADFP", "STOREFP"} =>
                  AluResult(id_ex) = SC!Address(i)
             /\ i.op \in {"OP", "OPIMM", "LUI", "AUIPC"} =>
                  AluResult(id_ex) = SC!IntegerResult(i)
<1> DEFINE i == id_ex.instr
<1>1. /\ ~Rs1IsFloat(i) => Operand1(id_ex) = ReadGpr(CommittedGpr, i.rs1)
      /\ ~IsFloat(i) => Operand2(id_ex) = ReadGpr(CommittedGpr, i.rs2)
  BY OperandsAgree
<1>2. /\ id_ex.pc = CommittedPc /\ i.imm \in ImmVal /\ UpperZ(i.imm) \in Word
      /\ i.op \in {"LUI", "AUIPC"} => UpperZ(i.imm) = UpperS(i.imm)
  BY NextInstruction, UnitTypes DEF Instr
<1>3. CASE i.op \in {"LOAD", "STORE", "LOADFP", "STOREFP"}
  BY <1>1, <1>3, SameUnits DEF AluResult, SC!Address, AluExecute, AluSrc, Rs1IsFloat
<1>4. CASE i.op = "LUI"
  BY <1>2, <1>4, AddZero, SameUnits DEF AluResult, SC!IntegerResult, AluExecute
<1>5. CASE i.op = "AUIPC"
  BY <1>2, <1>5, SameUnits DEF AluResult, SC!IntegerResult, AluExecute
<1>6. CASE i.op \in {"OP", "OPIMM"}
  <2>1. ~Rs1IsFloat(i) /\ ~IsFloat(i)
    BY <1>6 DEF Rs1IsFloat, IsFloat
  <2> QED
    BY <1>1, <1>6, <2>1, SameUnits DEF AluResult, SC!IntegerResult, AluExecute, AluSrc
<1> QED
  BY <1>3, <1>4, <1>5, <1>6

\* A cycle with an instruction in EX is a step of the single-cycle machine.
LEMMA Commits ==
  ASSUME Agreement, Working, Cycle, ~stop_requested', id_ex.valid
  PROVE  SC!Next
<1> DEFINE i == id_ex.instr
<1>1. ~stop_requested
  BY DEF Cycle
<1>2. /\ CommittedPc < Len(prog) /\ i = prog[CommittedPc + 1] /\ CommittedPc \in Nat
      /\ i.op \notin {"BRANCH", "JAL", "JALR", "ECALL"} /\ i \in Instr
      /\ DecodedPc = CommittedPc + 1
  BY <1>1, NextInstruction
<1>3. CommittedPc' = CommittedPc + 1
  BY <1>2, CycleMoves DEF Working
<1>4. CommittedPc' = SC!NextPc(i)
  BY <1>2, <1>3 DEF SC!NextPc
<1>5. fcsr' = IF i.op = "OPFP" THEN SC!ExecuteFloat(i).status ELSE fcsr
  <2>1. fcsr' = ExFcsr(id_ex, fcsr)
    BY CycleAdds
  <2>2. CASE i.op = "OPFP"
    BY <1>1, <2>1, <2>2, FloatAgrees DEF ExFcsr
  <2>3. CASE i.op # "OPFP"
    BY <2>1, <2>3 DEF ExFcsr
  <2> QED
    BY <2>2, <2>3
<1>6. CommittedMem' = IF MemWrite(i) THEN Store(i, CommittedMem, SC!Address(i), SC!StoreData(i))
                      ELSE CommittedMem
  <2> DEFINE d == IF i.op \in {"ECALL", "LOADFP"} THEN Zero ELSE Operand2(id_ex)
  <2>1. CASE ~MemWrite(i)
    BY <2>1, CycleAdds
  <2>2. CASE MemWrite(i)
    <3>1. CommittedMem' = Store(i, CommittedMem, AluResult(id_ex),
                                IF IsFloat(i) THEN Low(d) ELSE d)
      BY <2>2, CycleAdds
    <3>2. AluResult(id_ex) = SC!Address(i)
      BY <1>1, <2>2, IntegerAgrees DEF MemWrite
    <3>3. d = Operand2(id_ex)
      BY <2>2 DEF MemWrite
    <3>4. CASE i.op = "STORE"
      BY <1>1, <2>2, <3>1, <3>2, <3>3, <3>4, OperandsAgree, SameUnits DEF IsFloat, SC!StoreData
    <3>5. CASE i.op = "STOREFP"
      BY <1>1, <2>2, <3>1, <3>2, <3>3, <3>5, OperandsAgree, SameUnits DEF IsFloat, Rs2IsFloat, SC!StoreData
    <3> QED
      BY <2>2, <3>4, <3>5 DEF MemWrite
  <2> QED
    BY <2>1, <2>2
<1>7. CASE MemRead(i)
  <2>1. AluResult(id_ex) = SC!Address(i)
    BY <1>1, <1>7, IntegerAgrees DEF MemRead
  <2>2. mem' = CommittedMem /\ ex_mem' = ExStage(id_ex)
    BY CycleCompletes DEF Cycle, Stages, Stops
  <2>3. MemData(ex_mem, mem)' = SC!MemoryResult(i)
    BY <2>1, <2>2, SameUnits DEF ExStage, MemData, SC!MemoryResult
  <2>4. SC!WriteBack(i)
    <3>1. CASE i.op = "LOAD"
      BY <1>7, <2>3, <3>1, CycleAdds, SameUnits
         DEF SC!WriteBack, SC!IntegerResult, SC!WritesFpr, RegWrite, ToGpr, ToFpr, WbToFpr,
             RdIsFloat
    <3>2. CASE i.op = "LOADFP"
      <4>1. WbToFpr(i) /\ RdIsFloat(i)
        BY <1>1, <3>2, InFlight DEF Working, RdIsFloat
      <4> QED
        BY <1>7, <2>3, <3>2, <4>1, CycleAdds, SameUnits DEF SC!WriteBack, SC!WritesFpr, RegWrite, ToGpr, ToFpr
    <3> QED
      BY <1>7, <3>1, <3>2 DEF MemRead
  <2> QED
    BY <1>2, <1>3, <1>4, <1>5, <1>6, <2>4, SameUnits DEF SC!Next, SC!Execute, Cycle, Stages
<1>8. CASE ~MemRead(i)
  <2>1. /\ CommittedGpr' = IF ToGpr(i) THEN WriteGpr(CommittedGpr, i.rd, AluResult(id_ex))
                           ELSE CommittedGpr
        /\ CommittedFpr' = IF ToFpr(i)
                           THEN [CommittedFpr EXCEPT ![i.rd] = NanBox(AluResult(id_ex))]
                           ELSE CommittedFpr
    BY <1>8, CycleAdds
  <2>2. CASE i.op = "OPFP"
    <3>1. AluResult(id_ex) = SC!ExecuteFloat(i).result
      BY <1>1, <2>2, FloatAgrees DEF AluResult
    <3>2. SC!WriteBack(i)
      BY <2>1, <2>2, <3>1
        , SameUnits DEF SC!WriteBack, SC!WritesFpr, RegWrite, ToGpr, ToFpr, WbToFpr, RdIsFloat
    <3> QED
      BY <1>2, <1>3, <1>4, <1>5, <1>6, <3>2, SameUnits DEF SC!Next, SC!Execute, Cycle, Stages
  <2>3. CASE i.op # "OPFP"
    <3>1. /\ ~SC!WritesFpr(i) /\ ~ToFpr(i) /\ ~RdIsFloat(i)
      BY <1>8, <2>3 DEF SC!WritesFpr, MemRead, ToFpr, WbToFpr, RdIsFloat
    <3>2. RegWrite(i) => i.op \in {"OP", "OPIMM", "LUI", "AUIPC"}
      BY <1>2, <1>8, <2>3 DEF RegWrite, MemRead
    <3>3. RegWrite(i) => AluResult(id_ex) = SC!IntegerResult(i)
      BY <1>1, <3>2, IntegerAgrees
    <3>4. SC!WriteBack(i)
      BY <2>1, <2>3, <3>1, <3>3, SameUnits DEF SC!WriteBack, ToGpr
    <3> QED
      BY <1>2, <1>3, <1>4, <1>5, <1>6, <3>4, SameUnits DEF SC!Next, SC!Execute, Cycle, Stages
  <2> QED
    BY <2>2, <2>3
<1> QED
  BY <1>7, <1>8

----------------------------------------------------------------------------
(* The invariant *)

\* The hazard unit releases an instruction only when its operands are ready.
LEMMA NextFresh ==
  ASSUME Agreement, Working, Cycle
  PROVE  OperandsFresh'
<1> SUFFICES ASSUME id_ex'.valid, ~stop_requested' PROVE OperandsFresh'
  BY DEF OperandsFresh
<1> DEFINE i == if_id.instr
<1>1. ~stop_requested
  BY DEF Cycle
<1>2. /\ ~Stall(if_id) /\ if_id.valid /\ HazardDetection
      /\ i.rs1 \in Nat /\ i.rs2 \in Nat
  BY CycleMoves, ConstantTypes DEF Working, Agreement, TypeOK, LatchTypes, Instr
<1>3. /\ id_ex'.instr = i
      /\ id_ex'.reg1_value = ReadRs1(i, gpr', fpr')
      /\ id_ex'.reg2_value = ReadRs2(i, gpr', fpr')
  BY <1>2 DEF Cycle, Stages, Stops, IdStage
<1>4. /\ RdIsFloat(id_ex.instr) => RegWrite(id_ex.instr)
      /\ ~Forwarding /\ RdIsFloat(id_ex.instr) => id_ex.instr.rd # 0
      /\ ~Forwarding /\ RdIsFloat(ex_mem.instr) => ex_mem.instr.rd # 0
  BY <1>1, InFlight DEF Working
<1>5. ASSUME NEW r, NEW isFloat,
             \/ r = i.rs1 /\ isFloat = Rs1IsFloat(i)
             \/ r = i.rs2 /\ isFloat = Rs2IsFloat(i)
      PROVE  Ready(r, isFloat)'
  <2>1. /\ ex_mem'.valid => id_ex.valid /\ ex_mem'.instr = id_ex.instr
        /\ mem_wb'.valid => ex_mem.valid /\ mem_wb'.instr = ex_mem.instr
    BY DEF Cycle, Stages, Stops, ExStage, EX_MEM, MemStage, MEM_WB
  <2>2. CASE Forwarding
    <3>1. SUFFICES ASSUME MemRead(ex_mem.instr)', Writes(ex_mem, r, isFloat)' PROVE FALSE
      BY <2>2 DEF Ready
    <3>2. /\ id_ex.valid /\ MemRead(id_ex.instr)
          /\ RdIsFloat(id_ex.instr) = isFloat /\ id_ex.instr.rd = r /\ (r # 0 \/ isFloat)
      BY <2>1, <3>1 DEF Writes
    <3>3. IsFloat(id_ex.instr) = isFloat
      BY <3>2 DEF MemRead, RdIsFloat, IsFloat
    <3>4. Hazards!DetectLoadUseHazard(
            id_ex.instr.rd, id_ex.valid /\ MemRead(id_ex.instr),
            i.rs1, i.rs2, Rs1IsFloat(i), Rs2IsFloat(i), IsFloat(id_ex.instr))
      BY <1>5, <3>2, <3>3 DEF Hazards!DetectLoadUseHazard, Hazards!LoadUse
    <3> QED
      BY <1>2, <3>4 DEF Stall, LoadUseStall
  <2>3. CASE ~Forwarding
    <3>1. ASSUME NEW l, l.valid, RegWrite(l.instr), RdIsFloat(l.instr) => l.instr.rd # 0,
                 RdIsFloat(l.instr) = isFloat, l.instr.rd = r, r # 0 \/ isFloat
          PROVE  Hazards!DetectWriteHazard(l.instr.rd, l.valid /\ RegWrite(l.instr), i.rs1, i.rs2)
      BY <1>5, <3>1 DEF Hazards!DetectWriteHazard
    <3>2. ~Writes(ex_mem, r, isFloat)'
      BY <1>2, <1>4, <2>1, <2>3, <3>1 DEF Writes, Stall, WriteStall
    <3>3. ~Writes(mem_wb, r, isFloat)'
      BY <1>2, <1>4, <2>1, <2>3, <3>1 DEF Writes, Stall, WriteStall
    <3> QED
      BY <2>3, <3>2, <3>3 DEF Ready
  <2> QED
    BY <2>2, <2>3
<1> QED
  BY <1>3, <1>5 DEF OperandsFresh

\* A committed floating-point result is NaN-boxed, and stays so.
LEMMA NextBoxed ==
  ASSUME Agreement, Working, Cycle
  PROVE  CommittedBoxed'
<1> SUFFICES ASSUME ~stop_requested' PROVE CommittedBoxed'
  BY DEF CommittedBoxed
<1> DEFINE i == id_ex.instr
<1> DEFINE v == IF MemRead(i) THEN MemData(ex_mem, mem)' ELSE AluResult(id_ex)
<1>1. ~stop_requested /\ prog' = prog
  BY DEF Cycle, Stages, Stops
<1>2. /\ CommittedPc' = DecodedPc
      /\ CommittedFpr' = IF id_ex.valid /\ ToFpr(i)
                         THEN [CommittedFpr EXCEPT ![i.rd] = NanBox(v)] ELSE CommittedFpr
      /\ CommittedFpr \in [RegNum -> Word]
  BY CycleMoves, CycleAdds, CommittedType DEF Working
<1>3. ASSUME id_ex.valid PROVE NanBox(NanBox(v)) = NanBox(v)
  <2>1. TypeOK'
    BY NextType DEF Working, Next
  <2>2. /\ ex_mem'.alu_result \in Word /\ mem' \in Mem
        /\ ex_mem'.instr = i /\ ex_mem'.alu_result = AluResult(id_ex) /\ i \in InstrSet
    BY <1>3, <2>1 DEF TypeOK, LatchTypes, Working, Fetched, Cycle, Stages, ExStage
  <2>3. v \in Word
    BY <2>2, UnitTypes DEF MemData
  <2> QED
    BY <2>3, BoxingFacts
<1>4. \A j \in 1..CommittedPc :
        RdIsFloat(prog[j]) => NanBox(CommittedFpr[prog[j].rd]) = CommittedFpr[prog[j].rd]
  BY <1>1 DEF Working, CommittedBoxed
<1>5. ASSUME ~id_ex.valid PROVE CommittedBoxed'
  <2>1. CommittedPc' = CommittedPc /\ CommittedFpr' = CommittedFpr
    BY <1>2, <1>5 DEF CommittedPc, Before
  <2> QED
    BY <1>1, <1>4, <2>1 DEF CommittedBoxed
<1>6. ASSUME id_ex.valid PROVE CommittedBoxed'
  <2>1. /\ CommittedPc \in Nat /\ CommittedPc' = CommittedPc + 1
        /\ i = prog[CommittedPc + 1] /\ CommittedPc < Len(prog) /\ Len(prog) \in Nat
    BY <1>1, <1>2, <1>6, NextInstruction, ProgramTyped, ProgLength DEF Working
  <2> SUFFICES ASSUME NEW j \in 1..(CommittedPc + 1), RdIsFloat(prog[j])
               PROVE  NanBox(CommittedFpr'[prog[j].rd]) = CommittedFpr'[prog[j].rd]
    BY <1>1, <2>1 DEF CommittedBoxed
  <2>2. prog[j].rd \in RegNum
    BY <2>1, ProgramTyped, ProgLength DEF Working, Instr
  <2>3. RdIsFloat(i) => ToFpr(i)
    BY <1>1, InFlight DEF Working, ToFpr
  <2>4. CASE j = CommittedPc + 1
    BY <1>2, <1>3, <1>6, <2>1, <2>2, <2>3, <2>4
  <2>5. CASE j \in 1..CommittedPc
    BY <1>2, <1>3, <1>4, <1>6, <2>2, <2>5
  <2> QED
    BY <2>1, <2>4, <2>5
<1> QED
  BY <1>5, <1>6

\* The machine starts with no operand latched and no register written.
LEMMA InitWorking == Init => Working
<1> SUFFICES ASSUME Init PROVE Working
  OBVIOUS
<1>1. TypeOK /\ InOrder
  BY InitType, InitOrder
<1>2. ~id_ex.valid /\ ~if_id.valid /\ pc = 0
  BY DEF Init, ID_EX, IF_ID
<1>3. OperandsFresh
  BY <1>2 DEF OperandsFresh
<1>4. CommittedPc = 0
  BY <1>2 DEF CommittedPc, DecodedPc, Before
<1>5. CommittedBoxed
  BY <1>4 DEF CommittedBoxed
<1> QED
  BY <1>1, <1>3, <1>5 DEF Working

\* Working is inductive.
LEMMA NextWorking == Agreement /\ Working /\ [Next]_vars => Working'
<1> SUFFICES ASSUME Agreement, Working, [Next]_vars PROVE Working'
  OBVIOUS
<1>1. TypeOK' /\ InOrder'
  BY NextType, NextOrder DEF Working
<1>2. CASE UNCHANGED vars
  <2>1. OperandsFresh'
    BY <1>2 DEF vars, Working, OperandsFresh, Ready, Writes
  <2>2. CommittedBoxed'
    BY <1>2 DEF vars, Working, CommittedBoxed, CommittedPc, DecodedPc, Before,
                CommittedFpr, WbFpr, WbWrites, WriteValue, PendingValue, MemData
  <2> QED
    BY <1>1, <2>1, <2>2 DEF Working
<1>3. CASE Cycle
  BY <1>1, <1>3, NextFresh, NextBoxed DEF Working
<1> QED
  BY <1>2, <1>3 DEF Next

----------------------------------------------------------------------------
(* The theorems *)

\* With hazard detection on, every operand EX uses is the value the program
\* order asks for, whatever the mix of stalls and forwarding that delivers it.
THEOREM OperandsAlwaysFresh == Agreement /\ Spec => []OperandsFresh
<1> SUFFICES ASSUME Agreement PROVE Spec => []OperandsFresh
  OBVIOUS
<1>1. Working /\ [Next]_vars => Working'
  BY NextWorking
<1> QED
  BY <1>1, InitWorking, PTL DEF Spec, Working

\* Nothing is committed at the start.
LEMMA InitCommitted == Init => SC!Init
<1> SUFFICES ASSUME Init PROVE SC!Init
  OBVIOUS
<1>1. /\ ~if_id.valid /\ ~id_ex.valid /\ ~ex_mem.valid /\ ~mem_wb.valid
      /\ pc = 0
  BY DEF Init, IF_ID, ID_EX, EX_MEM, MEM_WB
<1>2. CommittedPc = 0
  BY <1>1 DEF CommittedPc, DecodedPc, Before
<1>3. /\ CommittedGpr = gpr
      /\ CommittedFpr = fpr
      /\ CommittedMem = mem
  BY <1>1 DEF CommittedGpr, CommittedFpr, CommittedMem, WbGpr, WbFpr, WbWrites
<1> QED
  BY <1>2, <1>3 DEF Init, SC!Init

\* Every clock cycle is one instruction of the single-cycle machine or nothing.
LEMMA CycleImplements ==
  ASSUME Agreement, Working, [Next]_vars
  PROVE  stop_requested' \/ SC!Next \/ UNCHANGED SC!vars
<1>1. CASE UNCHANGED vars
  BY <1>1 DEF vars, SC!vars, CommittedPc, DecodedPc, Before, CommittedGpr,
              CommittedFpr, CommittedMem, WbGpr, WbFpr, WbWrites, WbToFpr,
              WriteValue, PendingValue, MemData
<1>2. CASE Cycle
  BY <1>2, Commits, Stutters
<1> QED
  BY <1>1, <1>2 DEF Next

\* A committed floating-point register holds a NaN-boxed value: the single-cycle
\* machine's validate_sp and the pipeline's reading of the low half agree on it.
THEOREM AlwaysBoxed == Agreement /\ Spec => []CommittedBoxed
<1> SUFFICES ASSUME Agreement PROVE Spec => []CommittedBoxed
  OBVIOUS
<1>1. Working /\ [Next]_vars => Working'
  BY NextWorking
<1> QED
  BY <1>1, InitWorking, PTL DEF Spec, Working

\* Whatever the program, the register contents and the arithmetic of the units,
\* each clock cycle up to an alignment fault is a step of RVSSVM or invisible.
THEOREM ImplementsStep == Agreement /\ Spec => StepsLikeSingleCycle
<1> SUFFICES ASSUME Agreement PROVE Spec => StepsLikeSingleCycle
  OBVIOUS
<1>1. Working /\ [Next]_vars => Working'
  BY NextWorking
<1>2. Working /\ [Next]_vars => [stop_requested' \/ SC!Next \/ UNCHANGED SC!vars]_vars
  BY CycleImplements
<1> QED
  BY <1>1, <1>2, InitWorking, PTL DEF Spec, StepsLikeSingleCycle

\* no access of a program can be misaligned: byte accesses only, for instance
Aligned == \A i \in InstrSet, a \in Word : ~Misaligned(i, a)

\* Without misaligned accesses the machine never asks Run to stop.
LEMMA NeverStops ==
  ASSUME Aligned, TypeOK, ~stop_requested, [Next]_vars
  PROVE  ~stop_requested'
<1>1. CASE UNCHANGED vars
  BY <1>1 DEF vars
<1>2. ~AlignmentFault(ex_mem)
  BY DEF Aligned, AlignmentFault, TypeOK, LatchTypes, Fetched
<1>3. CASE Cycle
  BY <1>2, <1>3 DEF Cycle, Stages, Stops
<1> QED
  BY <1>1, <1>3 DEF Next

\* RVSSVMPipelined implements RVSSVM: when no access is misaligned, a run of the
\* five-stage machine is a run of the single-cycle machine, for every program of
\* the agreeing kind and every initial state.
THEOREM Implements == Agreement /\ Aligned /\ Spec => IsSingleCycle
<1> SUFFICES ASSUME Agreement, Aligned PROVE Spec => IsSingleCycle
  OBVIOUS
<1> DEFINE Inv == Working /\ ~stop_requested
<1>1. Init => Inv
  BY InitWorking DEF Init
<1>2. Inv /\ [Next]_vars => Inv'
  BY NextWorking, NeverStops DEF Working
<1>3. Inv /\ Inv' /\ [Next]_vars => [SC!Next]_(SC!vars)
  BY CycleImplements
<1>4. Init => SC!Init
  BY InitCommitted
<1> HIDE DEF Inv
<1> QED
  BY <1>1, <1>2, <1>3, <1>4, PTL DEF Spec, IsSingleCycle, SC!Spec
=============================================================================
