---------------------------- MODULE MachineCode ----------------------------
(***************************************************************************)
(* From an assembled statement to an instruction word and back:            *)
(* generateMachineCode (code_generator.cpp) packs the operands of an       *)
(* ICUnit into a word, and the machines take the word apart again:         *)
(* ImmGenerator (vm_base.cpp), isFInstruction and isDInstruction           *)
(* (instructions.cpp), SetControlSignals and GetAluSignal                  *)
(* (rvss_control_unit.cpp).                                                *)
(*                                                                         *)
(* A word is the record of its six fields, in the order of the bits        *)
(* 31:25, 24:20, 19:15, 14:12, 11:7 and 6:0, so the shifts and masks of    *)
(* the source are quotients and remainders by powers of two.  The division *)
(* of TLA+ rounds down, which is the arithmetic shift of a two's           *)
(* complement number.                                                      *)
(***************************************************************************)
EXTENDS InstructionSet

Reg == 0..31

Word == [funct7 : 0..127, rs2 : Reg, rs1 : Reg, funct3 : 0..7, rd : Reg, opcode : 0..127]

\* the bits of n from the bit of weight `from` upwards, `size` values
Bits(n, from, size) == (n \div from) % size

Pack(funct7, rs2, rs1, funct3, rd, opcode) ==
  [funct7 |-> funct7, rs2 |-> rs2, rs1 |-> rs1,
   funct3 |-> funct3, rd |-> rd, opcode |-> opcode]

\* stands for the exception of generateMachineCode; no instruction has opcode 0
InvalidInstructionType == Pack(0, 0, 0, 0, 0, 0)

----------------------------------------------------------------------------
(* code_generator.cpp; u is the ICUnit, e its entry in the encoding map *)

generateRType(u, e) == Pack(e.funct7, u.rs2, u.rs1, e.funct3, u.rd, e.opcode)

generateI1Type(u, e) ==
  Pack(Bits(u.imm, 32, 128), Bits(u.imm, 1, 32), u.rs1, e.funct3, u.rd, e.opcode)

\* funct6 << 26 | imm << 20, for a shift amount of at most six bits
generateI2Type(u, e) ==
  Pack(2 * e.funct7 + Bits(u.imm, 32, 2), Bits(u.imm, 1, 32), u.rs1, e.funct3, u.rd, e.opcode)

generateI3Type(e) == Pack(0, 0, 0, e.funct3, 0, e.opcode)

\* the two source registers change places
generateSType_Swapped(u, e) ==
  Pack(Bits(u.imm, 32, 128), u.rs1, u.rs2, e.funct3, Bits(u.imm, 1, 32), e.opcode)

generateSType(u, e) ==
  Pack(Bits(u.imm, 32, 128), u.rs2, u.rs1, e.funct3, Bits(u.imm, 1, 32), e.opcode)

\* bit 11 of the offset is left out
generateBType_Short(u, e) ==
  Pack(64 * Bits(u.imm, 4096, 2) + Bits(u.imm, 32, 64), u.rs2, u.rs1, e.funct3,
       2 * Bits(u.imm, 2, 16), e.opcode)

generateBType(u, e) ==
  LET imm12   == Bits(u.imm, 4096, 2)
      imm11   == Bits(u.imm, 2048, 2)
      imm10_5 == Bits(u.imm, 32, 64)
      imm4_1  == Bits(u.imm, 2, 16)
  IN  Pack(64 * imm12 + imm10_5, u.rs2, u.rs1, e.funct3, 2 * imm4_1 + imm11, e.opcode)

\* bits 31:12 are the low 20 bits of the immediate
generateUType(u, e) ==
  Pack(Bits(u.imm, 8192, 128), Bits(u.imm, 256, 32), Bits(u.imm, 8, 32),
       Bits(u.imm, 1, 8), u.rd, e.opcode)

generateJType(u, e) ==
  LET imm20   == Bits(u.imm, 1048576, 2)
      imm10_5 == Bits(u.imm, 32, 64)
      imm4_1  == Bits(u.imm, 2, 16)
      imm11   == Bits(u.imm, 2048, 2)
  IN  Pack(64 * imm20 + imm10_5, 2 * imm4_1 + imm11,
           Bits(u.imm, 32768, 32), Bits(u.imm, 4096, 8), u.rd, e.opcode)

\* the number of the CSR takes bits 31:20
generateCSRType(u, e, source) ==
  Pack(Bits(u.csr, 32, 128), Bits(u.csr, 1, 32), source, e.funct3, u.rd, e.opcode)

\* the rounding mode takes the place of funct3, funct5 that of rs2
generateFDR1Type(u, e) == Pack(e.funct7, u.rs2, u.rs1, u.rm, u.rd, e.opcode)
generateFDR2Type(u, e) == Pack(e.funct7, e.funct5, u.rs1, u.rm, u.rd, e.opcode)
generateFDR3Type(u, e) == Pack(e.funct7, e.funct5, u.rs1, e.funct3, u.rd, e.opcode)
generateFDR4Type(u, e) == Pack(4 * u.rs3 + e.funct7, u.rs2, u.rs1, u.rm, u.rd, e.opcode)

\* one round of the loop of generateMachineCode
generateMachineCode(u) ==
  LET n == u.op IN
  IF n \in RTypeInstructions  THEN generateRType(u, R_type_instruction_encoding_map[n])
  ELSE IF n \in I1TypeInstructions THEN generateI1Type(u, I1_type_instruction_encoding_map[n])
  ELSE IF n \in I2TypeInstructions THEN generateI2Type(u, I2_type_instruction_encoding_map[n])
  ELSE IF n \in I3TypeInstructions THEN generateI3Type(I3_type_instruction_encoding_map[n])
  ELSE IF n \in STypeInstructions  THEN generateSType(u, S_type_instruction_encoding_map[n])
  ELSE IF n \in BTypeInstructions  THEN generateBType(u, B_type_instruction_encoding_map[n])
  ELSE IF n \in UTypeInstructions  THEN generateUType(u, U_type_instruction_encoding_map[n])
  ELSE IF n \in JTypeInstructions  THEN generateJType(u, J_type_instruction_encoding_map[n])
  ELSE IF n \in CSRRInstructions THEN
         generateCSRType(u, CSR_R_type_instruction_encoding_map[n], u.rs1)
  ELSE IF n \in CSRIInstructions THEN
         generateCSRType(u, CSR_I_type_instruction_encoding_map[n], Bits(u.imm, 1, 32))
  ELSE IF n \in FDExtensionRTypeInstructions THEN
         generateRType(u, F_D_R_type_instruction_encoding_map[n])
  ELSE IF n \in FDExtensionR1TypeInstructions THEN
         generateFDR1Type(u, F_D_R1_type_instruction_encoding_map[n])
  ELSE IF n \in FDExtensionR2TypeInstructions THEN
         generateFDR2Type(u, F_D_R2_type_instruction_encoding_map[n])
  ELSE IF n \in FDExtensionR3TypeInstructions THEN
         generateFDR3Type(u, F_D_R3_type_instruction_encoding_map[n])
  ELSE IF n \in FDExtensionR4TypeInstructions THEN
         generateFDR4Type(u, F_D_R4_type_instruction_encoding_map[n])
  ELSE IF n \in FDExtensionITypeInstructions THEN
         generateI1Type(u, F_D_I_type_instruction_encoding_map[n])
  ELSE IF n \in FDExtensionSTypeInstructions THEN
         generateSType(u, F_D_S_type_instruction_encoding_map[n])
  ELSE InvalidInstructionType

----------------------------------------------------------------------------
(* VmBase::ImmGenerator *)

sign_extend(n, size) == IF n >= size \div 2 THEN n - size ELSE n

ImmI(w) == sign_extend(32 * w.funct7 + w.rs2, 4096)
ImmS(w) == sign_extend(32 * w.funct7 + w.rd, 4096)
ImmB(w) == sign_extend(2 * (Bits(w.rd, 2, 16) + 16 * Bits(w.funct7, 1, 64)
                            + 1024 * Bits(w.rd, 1, 2) + 2048 * Bits(w.funct7, 64, 2)), 8192)

\* of the fields taken for funct7, rs2, rs1 and funct3
UpperImmediate(f, s, r, t) == 8192 * f + 256 * s + 8 * r + t
ImmU(w) == UpperImmediate(w.funct7, w.rs2, w.rs1, w.funct3)

JumpOffset(f, s, r, t) ==
  sign_extend(2 * (16 * Bits(f, 1, 64) + Bits(s, 2, 16) + 1024 * Bits(s, 1, 2)
                   + 2048 * (8 * r + t) + 524288 * Bits(f, 64, 2)), 2097152)
ImmJ(w) == JumpOffset(w.funct7, w.rs2, w.rs1, w.funct3)

ImmGenerator(w) ==
  CASE w.opcode \in {OP_IMM, LOAD, JALR, LOAD_FP} -> ImmI(w)
    [] w.opcode \in {STORE, STORE_FP} -> ImmS(w)
    [] w.opcode = BRANCH         -> ImmB(w)
    [] w.opcode \in {LUI, AUIPC} -> ImmU(w)
    [] w.opcode = JAL            -> ImmJ(w)
    [] OTHER -> 0

\* ExecuteCsr: the address of the CSR
CsrAddress(w) == 32 * w.funct7 + w.rs2

----------------------------------------------------------------------------
(* isFInstruction, isDInstruction and SetControlSignals *)

isFInstruction(w) ==
  \/ w.opcode \in {LOAD_FP, STORE_FP} /\ w.funct3 = 2
  \/ w.opcode = OP_FP /\ w.funct7 % 2 = 0 /\ w.funct7 # \b0100000

isDInstruction(w) ==
  \/ w.opcode \in {LOAD_FP, STORE_FP} /\ w.funct3 = 3
  \/ w.opcode = OP_FP /\ (w.funct7 % 2 = 1 \/ w.funct7 = \b0100000)

AluSrc(w)   == w.opcode \in {LOAD, STORE, OP_IMM, LUI, AUIPC, JALR, LOAD_FP, STORE_FP}
RegWrite(w) == w.opcode \in {OP, LOAD, OP_IMM, LUI, AUIPC, JAL, JALR, LOAD_FP, OP_FP}
MemRead(w)  == w.opcode \in {LOAD, LOAD_FP}
MemWrite(w) == w.opcode \in {STORE, STORE_FP}

----------------------------------------------------------------------------
(***************************************************************************)
(* RVSSControlUnit::GetAluSignal, one set of <<fields, signal>> pairs per  *)
(* case of its switch on the opcode.  A combination of fields that has no  *)
(* case falls through to kNone.  The cases of funct7 = 100xx11 under the   *)
(* opcode OP_FP are left out: no instruction is encoded that way.          *)
(***************************************************************************)
Select(rows, fields) ==
  IF \E r \in rows : r[1] = fields THEN (CHOOSE r \in rows : r[1] = fields)[2] ELSE "kNone"

RegisterSignals ==     \* by funct3 and funct7
  { <<<<0, 0>>, "kAdd">>, <<<<0, \b0100000>>, "kSub">>, <<<<0, 1>>, "kMul">>,
    <<<<1, 0>>, "kSll">>, <<<<1, 1>>, "kMulh">>,   <<<<2, 0>>, "kSlt">>, <<<<2, 1>>, "kMulhsu">>,
    <<<<3, 0>>, "kSltu">>, <<<<3, 1>>, "kMulhu">>, <<<<4, 0>>, "kXor">>, <<<<4, 1>>, "kDiv">>,
    <<<<5, 0>>, "kSrl">>, <<<<5, \b0100000>>, "kSra">>, <<<<5, 1>>, "kDivu">>,
    <<<<6, 0>>, "kOr">>,  <<<<6, 1>>, "kRem">>,    <<<<7, 0>>, "kAnd">>, <<<<7, 1>>, "kRemu">> }

ImmediateSignals ==    \* by funct3, and by funct7 as well for the right shifts
  { <<<<0>>, "kAdd">>, <<<<1>>, "kSll">>, <<<<2>>, "kSlt">>, <<<<3>>, "kSltu">>, <<<<4>>, "kXor">>,
    <<<<5, 0>>, "kSrl">>, <<<<5, \b0100000>>, "kSra">>, <<<<6>>, "kOr">>, <<<<7>>, "kAnd">> }

BranchSignals ==       \* by funct3
  { <<0, "kSub">>, <<1, "kSub">>, <<4, "kSlt">>, <<5, "kSlt">>, <<6, "kSltu">>, <<7, "kSltu">> }

RegisterSignals32 ==   \* by funct3 and funct7
  { <<<<0, 0>>, "kAddw">>, <<<<0, \b0100000>>, "kSubw">>, <<<<0, 1>>, "kMulw">>,
    <<<<4, 1>>, "kDivw">>, <<<<5, 0>>, "kSrlw">>, <<<<5, \b0100000>>, "kSraw">>,
    <<<<5, 1>>, "kDivuw">>, <<<<6, 1>>, "kRemw">>, <<<<7, 1>>, "kRemuw">> }

ImmediateSignals32 ==
  { <<<<0>>, "kAddw">>, <<<<1>>, "kSllw">>, <<<<5, 0>>, "kSrlw">>, <<<<5, \b0100000>>, "kSraw">> }

FloatSignals ==        \* by funct7 alone
  { <<\b0000000, "FADD_S">>, <<\b0000001, "FADD_D">>, <<\b0000100, "FSUB_S">>, <<\b0000101, "FSUB_D">>,
    <<\b0001000, "FMUL_S">>, <<\b0001001, "FMUL_D">>, <<\b0001100, "FDIV_S">>, <<\b0001101, "FDIV_D">>,
    <<\b0101100, "FSQRT_S">>, <<\b0101101, "FSQRT_D">>,
    <<\b1111000, "FMV_W_X">>, <<\b1111001, "FMV_D_X">> }

FloatConversions ==    \* by funct7 and funct5
  { <<<<\b1100000, 0>>, "FCVT_W_S">>, <<<<\b1100000, 1>>, "FCVT_WU_S">>,
    <<<<\b1100000, 2>>, "FCVT_L_S">>, <<<<\b1100000, 3>>, "FCVT_LU_S">>,
    <<<<\b1100001, 0>>, "FCVT_W_D">>, <<<<\b1100001, 1>>, "FCVT_WU_D">>,
    <<<<\b1100001, 2>>, "FCVT_L_D">>, <<<<\b1100001, 3>>, "FCVT_LU_D">>,
    <<<<\b1101000, 0>>, "FCVT_S_W">>, <<<<\b1101000, 1>>, "FCVT_S_WU">>,
    <<<<\b1101000, 2>>, "FCVT_S_L">>, <<<<\b1101000, 3>>, "FCVT_S_LU">>,
    <<<<\b1101001, 0>>, "FCVT_D_W">>, <<<<\b1101001, 1>>, "FCVT_D_WU">>,
    <<<<\b1101001, 2>>, "FCVT_D_L">>, <<<<\b1101001, 3>>, "FCVT_D_LU">> }

FloatComparisons ==    \* by funct7 and funct3
  { <<<<\b0010000, 0>>, "FSGNJ_S">>, <<<<\b0010000, 1>>, "FSGNJN_S">>, <<<<\b0010000, 2>>, "FSGNJX_S">>,
    <<<<\b0010001, 0>>, "FSGNJ_D">>, <<<<\b0010001, 1>>, "FSGNJN_D">>, <<<<\b0010001, 2>>, "FSGNJX_D">>,
    <<<<\b0010100, 0>>, "FMIN_S">>,  <<<<\b0010100, 1>>, "FMAX_S">>,
    <<<<\b0010101, 0>>, "FMIN_D">>,  <<<<\b0010101, 1>>, "FMAX_D">>,
    <<<<\b1010000, 2>>, "FEQ_S">>, <<<<\b1010000, 1>>, "FLT_S">>, <<<<\b1010000, 0>>, "FLE_S">>,
    <<<<\b1010001, 2>>, "FEQ_D">>, <<<<\b1010001, 1>>, "FLT_D">>, <<<<\b1010001, 0>>, "FLE_D">>,
    <<<<\b1110000, 0>>, "FMV_X_W">>, <<<<\b1110000, 1>>, "FCLASS_S">>,
    <<<<\b1110001, 0>>, "FMV_X_D">>, <<<<\b1110001, 1>>, "FCLASS_D">> }

FloatSignal(w) ==
  IF \E r \in FloatSignals : r[1] = w.funct7 THEN Select(FloatSignals, w.funct7)
  ELSE IF \E r \in FloatConversions : r[1][1] = w.funct7
  THEN Select(FloatConversions, <<w.funct7, w.rs2>>)
  ELSE Select(FloatComparisons, <<w.funct7, w.funct3>>)

\* a logical and an arithmetic shift are not told apart
ImmediateKey_Short(w) == <<w.funct3>>

\* the I-type cases look at funct7 only under funct3 = 101
ImmediateKey(w) == IF w.funct3 = 5 THEN <<5, w.funct7>> ELSE <<w.funct3>>

GetAluSignal(w) ==
  CASE w.opcode = OP       -> Select(RegisterSignals, <<w.funct3, w.funct7>>)
    [] w.opcode = OP_IMM   -> Select(ImmediateSignals, ImmediateKey(w))
    [] w.opcode = BRANCH   -> Select(BranchSignals, w.funct3)
    [] w.opcode = OP_IMM32 -> Select(ImmediateSignals32, ImmediateKey(w))
    [] w.opcode = OP32     -> IF w.funct3 = 1 THEN "kSllw"
                              ELSE Select(RegisterSignals32, <<w.funct3, w.funct7>>)
    [] w.opcode = MADD     -> "kFmadd_s"
    [] w.opcode = OP_FP    -> FloatSignal(w)
    [] w.opcode \in {LOAD, STORE, JALR, JAL, LUI, AUIPC} -> "kAdd"
    [] w.opcode \in {LOAD_FP, STORE_FP} /\ w.funct3 \in {2, 3} -> "kAdd"
    [] OTHER -> "kNone"
=============================================================================
