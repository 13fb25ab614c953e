--------------------------- MODULE InstructionSet ---------------------------
(***************************************************************************)
(* The tables of instruction_set (instructions.cpp): for every mnemonic    *)
(* the fields its encoding fixes, and the operand syntaxes the parser      *)
(* tries for it.  A mnemonic is the field name of a record, with _ for the *)
(* dot (fadd_s is fadd.s).  The sets of names that isValid...Instruction   *)
(* searches are the domains of these records: the source lists the names   *)
(* twice, once per set and once per map, and the lists differ only where   *)
(* FDExtensionR3TypeInstructions says.                                     *)
(***************************************************************************)
EXTENDS Integers, Sequences

OP == \b0110011
OP32 == \b0111011
OP_IMM == \b0010011
OP_IMM32 == \b0011011
LOAD == \b0000011
STORE == \b0100011
BRANCH == \b1100011
JAL == \b1101111
JALR == \b1100111
LUI == \b0110111
AUIPC == \b0010111
SYSTEM == \b1110011
OP_FP == \b1010011
LOAD_FP == \b0000111
STORE_FP == \b0100111
MADD == \b1000011
MSUB == \b1000111
NMSUB == \b1001011
NMADD == \b1001111

\* a field that the type of the instruction does not have is 0
Enc(opcode, funct3, funct7) ==
  [opcode |-> opcode, funct3 |-> funct3, funct5 |-> 0, funct7 |-> funct7]
EncFP(funct3, funct5, funct7) ==
  [opcode |-> OP_FP, funct3 |-> funct3, funct5 |-> funct5, funct7 |-> funct7]

R_type_instruction_encoding_map ==
  [add  |-> Enc(OP, 0, 0),          sub    |-> Enc(OP, 0, \b0100000),
   xor  |-> Enc(OP, 4, 0),          or     |-> Enc(OP, 6, 0),
   and  |-> Enc(OP, 7, 0),          sll    |-> Enc(OP, 1, 0),
   srl  |-> Enc(OP, 5, 0),          sra    |-> Enc(OP, 5, \b0100000),
   slt  |-> Enc(OP, 2, 0),          sltu   |-> Enc(OP, 3, 0),
   addw |-> Enc(OP32, 0, 0),        subw   |-> Enc(OP32, 0, \b0100000),
   sllw |-> Enc(OP32, 1, 0),        srlw   |-> Enc(OP32, 5, 0),
   sraw |-> Enc(OP32, 5, \b0100000),
   mul  |-> Enc(OP, 0, 1),          mulh   |-> Enc(OP, 1, 1),
   mulhsu |-> Enc(OP, 2, 1),        mulhu  |-> Enc(OP, 3, 1),
   div  |-> Enc(OP, 4, 1),          divu   |-> Enc(OP, 5, 1),
   rem  |-> Enc(OP, 6, 1),          remu   |-> Enc(OP, 7, 1),
   mulw |-> Enc(OP32, 0, 1),        divw   |-> Enc(OP32, 4, 1),
   divuw |-> Enc(OP32, 5, 1),       remw   |-> Enc(OP32, 6, 1),
   remuw |-> Enc(OP32, 7, 1)]

I1_type_instruction_encoding_map ==
  [addi |-> Enc(OP_IMM, 0, 0), xori  |-> Enc(OP_IMM, 4, 0), ori  |-> Enc(OP_IMM, 6, 0),
   andi |-> Enc(OP_IMM, 7, 0), sltiu |-> Enc(OP_IMM, 3, 0), slti |-> Enc(OP_IMM, 2, 0),
   addiw |-> Enc(OP_IMM32, 0, 0),
   lb  |-> Enc(LOAD, 0, 0), lh  |-> Enc(LOAD, 1, 0), lw  |-> Enc(LOAD, 2, 0),
   ld  |-> Enc(LOAD, 3, 0), lbu |-> Enc(LOAD, 4, 0), lhu |-> Enc(LOAD, 5, 0),
   lwu |-> Enc(LOAD, 6, 0),
   jalr |-> Enc(JALR, 0, 0)]

I3_type_instruction_encoding_map ==
  [ecall |-> Enc(SYSTEM, 0, 0), ebreak |-> Enc(SYSTEM, 1, 0)]

\* the third field is funct6
I2_type_instruction_encoding_map ==
  [slli  |-> Enc(OP_IMM, 1, 0),   srli  |-> Enc(OP_IMM, 5, 0),
   srai  |-> Enc(OP_IMM, 5, \b010000),
   slliw |-> Enc(OP_IMM32, 1, 0), srliw |-> Enc(OP_IMM32, 5, 0),
   sraiw |-> Enc(OP_IMM32, 5, \b010000)]

S_type_instruction_encoding_map ==
  [sb |-> Enc(STORE, 0, 0), sh |-> Enc(STORE, 1, 0), sw |-> Enc(STORE, 2, 0), sd |-> Enc(STORE, 3, 0)]

B_type_instruction_encoding_map ==
  [beq  |-> Enc(BRANCH, 0, 0), bne |-> Enc(BRANCH, 1, 0), blt  |-> Enc(BRANCH, 4, 0),
   bge  |-> Enc(BRANCH, 5, 0), bltu |-> Enc(BRANCH, 6, 0), bgeu |-> Enc(BRANCH, 7, 0)]

U_type_instruction_encoding_map ==
  [lui |-> Enc(LUI, 0, 0), auipc |-> Enc(AUIPC, 0, 0)]

J_type_instruction_encoding_map == [jal |-> Enc(JAL, 0, 0)]

CSR_R_type_instruction_encoding_map ==
  [csrrw |-> Enc(SYSTEM, 1, 0), csrrs |-> Enc(SYSTEM, 2, 0), csrrc |-> Enc(SYSTEM, 3, 0)]

CSR_I_type_instruction_encoding_map ==
  [csrrwi |-> Enc(SYSTEM, 5, 0), csrrsi |-> Enc(SYSTEM, 6, 0), csrrci |-> Enc(SYSTEM, 7, 0)]

F_D_R_type_instruction_encoding_map ==
  [fsgnj_s  |-> Enc(OP_FP, 0, \b0010000), fsgnjn_s |-> Enc(OP_FP, 1, \b0010000),
   fsgnjx_s |-> Enc(OP_FP, 2, \b0010000),
   fmin_s   |-> Enc(OP_FP, 0, \b0010100), fmax_s   |-> Enc(OP_FP, 1, \b0010100),
   feq_s    |-> Enc(OP_FP, 2, \b1010000), flt_s    |-> Enc(OP_FP, 1, \b1010000),
   fle_s    |-> Enc(OP_FP, 0, \b1010000),
   feq_d    |-> Enc(OP_FP, 2, \b1010001), flt_d    |-> Enc(OP_FP, 1, \b1010001),
   fle_d    |-> Enc(OP_FP, 0, \b1010001),
   fsgnj_d  |-> Enc(OP_FP, 0, \b0010001), fsgnjn_d |-> Enc(OP_FP, 1, \b0010001),
   fsgnjx_d |-> Enc(OP_FP, 2, \b0010001),
   fmin_d   |-> Enc(OP_FP, 0, \b0010101), fmax_d   |-> Enc(OP_FP, 1, \b0010101)]

F_D_R1_type_instruction_encoding_map ==
  [fadd_s |-> EncFP(0, 0, \b0000000), fsub_s |-> EncFP(0, 0, \b0000100),
   fmul_s |-> EncFP(0, 0, \b0001000), fdiv_s |-> EncFP(0, 0, \b0001100),
   fadd_d |-> EncFP(0, 0, \b0000001), fsub_d |-> EncFP(0, 0, \b0000101),
   fmul_d |-> EncFP(0, 0, \b0001001), fdiv_d |-> EncFP(0, 0, \b0001101)]

F_D_R2_type_instruction_encoding_map ==
  [fsqrt_s   |-> EncFP(0, 0, \b0101100), fsqrt_d   |-> EncFP(0, 0, \b0101101),
   fcvt_w_s  |-> EncFP(0, 0, \b1100000), fcvt_wu_s |-> EncFP(0, 1, \b1100000),
   fcvt_l_s  |-> EncFP(0, 2, \b1100000), fcvt_lu_s |-> EncFP(0, 3, \b1100000),
   fcvt_s_w  |-> EncFP(0, 0, \b1101000), fcvt_s_wu |-> EncFP(0, 1, \b1101000),
   fcvt_s_l  |-> EncFP(0, 2, \b1101000), fcvt_s_lu |-> EncFP(0, 3, \b1101000),
   fcvt_w_d  |-> EncFP(0, 0, \b1100001), fcvt_wu_d |-> EncFP(0, 1, \b1100001),
   fcvt_l_d  |-> EncFP(0, 2, \b1100001), fcvt_lu_d |-> EncFP(0, 3, \b1100001),
   fcvt_d_w  |-> EncFP(0, 0, \b1101001), fcvt_d_wu |-> EncFP(0, 1, \b1101001),
   fcvt_d_l  |-> EncFP(0, 2, \b1101001), fcvt_d_lu |-> EncFP(0, 3, \b1101001),
   fcvt_s_d  |-> EncFP(0, 1, \b0100000), fcvt_d_s  |-> EncFP(0, 0, \b0100001)]

F_D_R3_type_instruction_encoding_map ==
  [fmv_w_x  |-> EncFP(0, 0, \b1111000), fmv_x_w |-> EncFP(0, 0, \b1110000),
   fclass_s |-> EncFP(1, 0, \b1110000),
   fmv_d_x  |-> EncFP(0, 0, \b1111001), fmv_x_d |-> EncFP(0, 0, \b1110001),
   fclass_d |-> EncFP(1, 0, \b1110001)]

\* a second comma forgotten
FDExtensionR3TypeInstructions_Joined ==
  {"fmv_x_wfmv_w_x", "fclass_sfclass_d", "fmv_x_d", "fmv_d_x"}

\* a comma is missing between fclass.s and fclass.d in the source
FDExtensionR3TypeInstructions ==
  {"fmv_x_w", "fmv_w_x", "fclass_sfclass_d", "fmv_x_d", "fmv_d_x"}

\* the third field is funct2
F_D_R4_type_instruction_encoding_map ==
  [fmadd_s  |-> Enc(MADD, 0, 0),  fmsub_s  |-> Enc(MSUB, 0, 0),
   fnmsub_s |-> Enc(NMSUB, 0, 0), fnmadd_s |-> Enc(NMADD, 0, 0),
   fmadd_d  |-> Enc(MADD, 0, 1),  fmsub_d  |-> Enc(MSUB, 0, 1),
   fnmsub_d |-> Enc(NMSUB, 0, 1), fnmadd_d |-> Enc(NMADD, 0, 1)]

F_D_I_type_instruction_encoding_map == [flw |-> Enc(LOAD_FP, 2, 0), fld |-> Enc(LOAD_FP, 3, 0)]
F_D_S_type_instruction_encoding_map == [fsw |-> Enc(STORE_FP, 2, 0), fsd |-> Enc(STORE_FP, 3, 0)]

PseudoInstructions ==
  {"la", "nop", "li", "mv", "not", "neg", "negw", "sext_w", "seqz", "snez", "sltz",
   "sgtz", "beqz", "bnez", "blez", "bgez", "bltz", "bgtz", "bgt", "ble", "bgtu",
   "bleu", "j", "jr", "ret", "call", "tail", "fence", "fence_i"}

(***************************************************************************)
(* The tests of generateMachineCode, in its order, and the type it finds.  *)
(***************************************************************************)
RTypeInstructions == DOMAIN R_type_instruction_encoding_map
I1TypeInstructions == DOMAIN I1_type_instruction_encoding_map
I2TypeInstructions == DOMAIN I2_type_instruction_encoding_map
I3TypeInstructions == DOMAIN I3_type_instruction_encoding_map
STypeInstructions == DOMAIN S_type_instruction_encoding_map
BTypeInstructions == DOMAIN B_type_instruction_encoding_map
UTypeInstructions == DOMAIN U_type_instruction_encoding_map
JTypeInstructions == DOMAIN J_type_instruction_encoding_map
CSRRInstructions == DOMAIN CSR_R_type_instruction_encoding_map
CSRIInstructions == DOMAIN CSR_I_type_instruction_encoding_map
FDExtensionRTypeInstructions == DOMAIN F_D_R_type_instruction_encoding_map
FDExtensionR1TypeInstructions == DOMAIN F_D_R1_type_instruction_encoding_map
FDExtensionR2TypeInstructions == DOMAIN F_D_R2_type_instruction_encoding_map
FDExtensionR4TypeInstructions == DOMAIN F_D_R4_type_instruction_encoding_map
FDExtensionITypeInstructions == DOMAIN F_D_I_type_instruction_encoding_map
FDExtensionSTypeInstructions == DOMAIN F_D_S_type_instruction_encoding_map

MachineInstructions ==
  RTypeInstructions \cup I1TypeInstructions \cup I2TypeInstructions \cup
  I3TypeInstructions \cup STypeInstructions \cup BTypeInstructions \cup
  UTypeInstructions \cup JTypeInstructions \cup CSRRInstructions \cup
  CSRIInstructions \cup FDExtensionRTypeInstructions \cup
  FDExtensionR1TypeInstructions \cup FDExtensionR2TypeInstructions \cup
  DOMAIN F_D_R3_type_instruction_encoding_map \cup FDExtensionR4TypeInstructions \cup
  FDExtensionITypeInstructions \cup FDExtensionSTypeInstructions

valid_instructions == MachineInstructions \cup PseudoInstructions
=============================================================================
