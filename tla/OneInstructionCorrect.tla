------------------------ MODULE OneInstructionCorrect ------------------------
(***************************************************************************)
(* What is expected of the way of a statement through the code generator,  *)
(* the control unit and the ALU.  The meaning of a mnemonic is that of the *)
(* RISC-V manual; where the program is known to do something else, the     *)
(* exception has a name, and the property says that there is no other.     *)
(***************************************************************************)
EXTENDS OneInstruction

Encoded == stage \in {"loaded", "executed"}

\* the type of every variable; a word fits its 32 bits
TypeOK ==
  /\ unit \in UnitType /\ ImmInRange(unit.op, unit.imm)
  /\ word \in Word
  /\ a \in Value /\ b \in Value
  /\ stage \in Stage

----------------------------------------------------------------------------
UsesRd == MachineInstructions \ (STypeInstructions \cup BTypeInstructions \cup
            FDExtensionSTypeInstructions \cup I3TypeInstructions)
UsesRs1 == MachineInstructions \ (UTypeInstructions \cup JTypeInstructions \cup
             CSRIInstructions \cup I3TypeInstructions)
UsesRs2 == RTypeInstructions \cup STypeInstructions \cup BTypeInstructions \cup
           FDExtensionRTypeInstructions \cup FDExtensionR1TypeInstructions \cup
           FDExtensionR4TypeInstructions \cup FDExtensionSTypeInstructions
UsesRm == FDExtensionR1TypeInstructions \cup FDExtensionR2TypeInstructions \cup
          FDExtensionR4TypeInstructions
UsesImm == I1TypeInstructions \cup STypeInstructions \cup BTypeInstructions \cup
           UTypeInstructions \cup JTypeInstructions \cup
           FDExtensionITypeInstructions \cup FDExtensionSTypeInstructions

\* ImmGenerator has no case for the opcode OP_IMM32
WithoutImmediate == {"addiw", "slliw", "srliw", "sraiw"}

\* what the machine takes from the word w of the statement u
OperandsOf(u, w) ==
  /\ u.op \in UsesRd  => w.rd = u.rd
  /\ u.op \in UsesRs1 => w.rs1 = u.rs1
  /\ u.op \in UsesRs2 => w.rs2 = u.rs2
  /\ u.op \in FDExtensionR4TypeInstructions => w.funct7 \div 4 = u.rs3
  /\ u.op \in UsesRm => w.funct3 = u.rm
  /\ u.op \in CSRRInstructions \cup CSRIInstructions => CsrAddress(w) = u.csr

\* the sign of an upper immediate is bit 19, which the shift by 12 moves to bit 31
ImmOperand(u) == IF u.op \in UTypeInstructions THEN u.imm % 1048576 ELSE u.imm

ImmediateOf(u, w) ==
  /\ u.op \in UsesImm => ImmGenerator(w) = ImmOperand(u)
  /\ u.op \in I2TypeInstructions => ImmGenerator(w) % 64 = u.imm
  /\ u.op \in CSRIInstructions => w.rs1 = u.imm

(***************************************************************************)
(* The registers, the CSR and the rounding mode that the statement names   *)
(* are those the machine takes from the word, whatever else is packed      *)
(* beside them.                                                            *)
(***************************************************************************)
OperandsSurvive == Encoded => OperandsOf(unit, word)

(***************************************************************************)
(* Every immediate the parser accepts comes out of ImmGenerator with its   *)
(* sign, through the scattered fields of branches, stores and jumps; that  *)
(* of lui and auipc, the negative ones of li and la included, as 20 bits.  *)
(* A shift takes the low six bits, an immediate CSR instruction the field  *)
(* of rs1.                                                                 *)
(***************************************************************************)
ImmediateSurvives ==
  Encoded /\ unit.op \notin WithoutImmediate => ImmediateOf(unit, word)

----------------------------------------------------------------------------
\* executed without any effect: the 32-bit and the fused instructions
WithoutEffect == {n \in MachineInstructions :
                    \/ n \in FDExtensionR4TypeInstructions
                    \/ n \in RTypeInstructions /\ R_type_instruction_encoding_map[n].opcode = OP32
                    \/ n \in WithoutImmediate}

\* pairs the machine takes for the same instruction
Confused == {{"ebreak", "csrrw"}, {"fcvt_s_d", "fcvt_d_s"}}

\* all that the switches of the machine look at in a word, besides its operands
Behaviour(w) ==
  <<Route(w),
    IF RegWrite(w) \/ MemWrite(w) THEN GetAluSignal(w) ELSE "",
    IF w.opcode \in {LOAD, STORE, BRANCH, SYSTEM, LOAD_FP, STORE_FP} THEN w.funct3 ELSE 0,
    AluSrc(w), RegWrite(w), MemRead(w), MemWrite(w),
    w.opcode \in {JAL, JALR}, w.opcode = BRANCH, w.opcode \in {AUIPC, JALR}, w.opcode = LUI>>

(***************************************************************************)
(* The machine tells every two instructions apart: no mnemonic with the    *)
(* same operands is executed like another one, but for the exceptions.     *)
(* One wrong funct field in a table, or a missing case of GetAluSignal,    *)
(* executes another instruction or none, without any message.              *)
(***************************************************************************)
ToldApart ==
  stage = "loaded" /\ unit.op \notin WithoutEffect =>
    \A n \in MachineInstructions \ {unit.op} :
      LET w == generateMachineCode([unit EXCEPT !.op = n]) IN
      (w # InvalidInstructionType /\ {n, unit.op} \notin Confused) => Behaviour(w) # Behaviour(word)

(***************************************************************************)
(* generateMachineCode throws for no instruction but fclass.s and          *)
(* fclass.d, whose entry in the set of names is broken.                    *)
(***************************************************************************)
OnlyFclassFails == stage = "not_encoded" => unit.op \in {"fclass_s", "fclass_d"}

----------------------------------------------------------------------------
\* the quotient of the manual: rounded towards zero
Divides(q, x, y) == LET r == x - q * y IN Magnitude(r) < Magnitude(y) /\ (r = 0 \/ (r < 0) = (x < 0))
QuotientOf(x, y) == CHOOSE q \in -(2^Width)..2^Width : Divides(q, x, y)
RemainderOf(x, y) == x - y * QuotientOf(x, y)

\* the register value a mnemonic stands for, on operands x and y
Meant(n, x, y) ==
  LET sx == Signed(x, Width)    sy == Signed(y, Width)
      wx == Signed(x, Half)     wy == Signed(y, Half)
      ux == x % 2^Half          uy == y % 2^Half
      half(v) == Signed(v, Half)
      m == CASE n \in {"add", "addi"} -> x + y
             [] n = "sub" -> x - y
             [] n \in {"xor", "xori"} -> OfBits(SymDiff(OneBits(x), OneBits(y)))
             [] n \in {"or", "ori"}   -> OfBits(OneBits(x) \cup OneBits(y))
             [] n \in {"and", "andi"} -> OfBits(OneBits(x) \cap OneBits(y))
             [] n \in {"sll", "slli"} -> x * 2^(y % Width)
             [] n \in {"srl", "srli"} -> x \div 2^(y % Width)
             [] n \in {"sra", "srai"} -> sx \div 2^(y % Width)
             [] n \in {"slt", "slti"} -> IF sx < sy THEN 1 ELSE 0
             [] n \in {"sltu", "sltiu"} -> IF x < y THEN 1 ELSE 0
             [] n = "mul"    -> x * y
             [] n = "mulh"   -> (sx * sy) \div 2^Width
             [] n = "mulhsu" -> (sx * y) \div 2^Width
             [] n = "mulhu"  -> (x * y) \div 2^Width
             [] n = "div"    -> QuotientOf(sx, sy)
             [] n = "divu"   -> QuotientOf(x, y)
             [] n = "rem"    -> RemainderOf(sx, sy)
             [] n = "remu"   -> RemainderOf(x, y)
             [] n = "addw"   -> half(x + y)
             [] n = "subw"   -> half(x - y)
             [] n = "sllw"   -> half(ux * 2^(y % Half))
             [] n = "srlw"   -> half(ux \div 2^(y % Half))
             [] n = "sraw"   -> wx \div 2^(y % Half)
             [] n = "mulw"   -> half(x * y)
             [] n = "divw"   -> half(QuotientOf(wx, wy))
             [] n = "divuw"  -> half(QuotientOf(ux, uy))
             [] n = "remw"   -> half(RemainderOf(wx, wy))
             [] n = "remuw"  -> half(RemainderOf(ux, uy))
  IN  m % 2^Width

(***************************************************************************)
(* Where the division of alu.cpp is known to leave the manual: division by *)
(* zero, INT64_MIN / -1, INT_MIN % -1, and an unsigned 32-bit result that  *)
(* is not sign-extended.                                                   *)
(***************************************************************************)
DivisionEdge(n, x, y) ==
  \/ n \in {"div", "divu", "rem", "remu"} /\ y = 0
  \/ n \in {"divw", "divuw", "remw", "remuw"} /\ y % 2^Half = 0
  \/ n \in {"div", "rem"} /\ Signed(x, Width) = Smallest(Width) /\ Signed(y, Width) = -1
  \/ n = "remw" /\ Signed(x, Half) = Smallest(Half) /\ Signed(y, Half) = -1
  \/ n \in {"divuw", "remuw"} /\ Meant(n, x, y) >= 2^(Half - 1)

Immediate(n) == n \in I1TypeInstructions \cup I2TypeInstructions

(***************************************************************************)
(* For every arithmetic instruction, with registers of any contents and    *)
(* any immediate, the operation the control unit selects computes what the *)
(* mnemonic stands for.                                                    *)
(***************************************************************************)
AluComputesTheMeaning ==
  LET y == IF Immediate(unit.op) THEN unit.imm % 2^Width ELSE b
  IN  stage = "executed" /\ word.opcode \in {OP, OP_IMM, OP32} /\ ~DivisionEdge(unit.op, a, y)
        => AluResults(word, a, b) = {Meant(unit.op, a, y)}

\* the branches of the manual
Branches(n, x, y) ==
  CASE n = "beq" -> x = y
    [] n = "bne" -> x # y
    [] n = "blt" -> Signed(x, Width) < Signed(y, Width)
    [] n = "bge" -> ~(Signed(x, Width) < Signed(y, Width))
    [] n = "bltu" -> x < y
    [] n = "bgeu" -> ~(x < y)

(***************************************************************************)
(* The step leaves the machine as the statement says: a taken branch and a *)
(* jump go where the operand says and link to the next instruction, nobody *)
(* else leaves the path; a result goes to rd alone, x0 excepted; a store   *)
(* writes the value of rs2 to the address rs1 + imm.                       *)
(***************************************************************************)
StepDoesWhatIsWritten ==
  LET n == unit.op
      address == (a + unit.imm) % 2^Width
      jumps == n = "jal" \/ (n \in BTypeInstructions /\ Branches(n, a, b))
      written == outcome.written
  IN  stage = "executed" /\ outcome.route = "Execute" =>
        /\ outcome.pc = IF n = "jalr" THEN At("zero", address - (address % 2))
                        ELSE At("pc", IF jumps THEN unit.imm ELSE 4)
        /\ outcome.stored = IF n \in STypeInstructions
                            THEN {[address |-> address, value |-> b]} ELSE {}
        /\ \A r \in written : r.rd = unit.rd /\ r.rd # 0
        /\ (written = {}) =
             (unit.rd = 0 \/ n \notin UsesRd \/ n \in WithoutEffect)
        /\ n \in {"jal", "jalr"} => \A r \in written : r.value = At("pc", 4)
        /\ n = "lui"   => \A r \in written : r.value = At("upper", ImmOperand(unit))
        /\ n = "auipc" => \A r \in written : r.value = At("pc + upper", ImmOperand(unit))
        /\ word.opcode = LOAD => \A r \in written : r.value = At("memory", address)
        /\ word.opcode \in {OP, OP_IMM} => \A r \in written : r.value.offset \in AluResults(word, a, b)

(***************************************************************************)
(* The arithmetic exception that ends the process comes from a division    *)
(* alone, and never from a divisor whose low half is neither 0 nor -1.     *)
(***************************************************************************)
OnlyDivisionTraps ==
  outcome.route = "SIGFPE" =>
    /\ unit.op \in {"rem", "remw", "divuw", "remuw"}
    /\ b % 2^Half \in {0, 2^Half - 1}
=============================================================================
