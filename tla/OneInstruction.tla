--------------------------- MODULE OneInstruction ---------------------------
(***************************************************************************)
(* The life of one statement: an ICUnit the parser has accepted is packed  *)
(* into a word by generateMachineCode and executed by RVSSVM::Execute and  *)
(* RVSSVM::WriteBack.  The integer instructions are followed to the value  *)
(* they leave in rd and in the program counter; of the others the model    *)
(* keeps which part of the machine they are given to.                      *)
(*                                                                         *)
(* Program counters are relative to the address of the instruction.  The   *)
(* upper immediates lie above the bits of a small register, so a value is  *)
(* kept as the pair of a base and an offset.                               *)
(***************************************************************************)
EXTENDS MachineCode, IntegerAlu

CONSTANTS
  Units,        \* the statements, ICUnits of the parser
  Contents      \* pairs of values for the registers rs1 and rs2

\* The ranges of the immediate that the parse_ functions enforce; the upper immediate of
\* the lui or auipc that li and la expand to may be negative.
ImmInRange(n, i) ==
  CASE n \in I1TypeInstructions \cup STypeInstructions \cup FDExtensionITypeInstructions
             \cup FDExtensionSTypeInstructions -> -2048 <= i /\ i < 2048
    [] n \in I2TypeInstructions -> 0 <= i /\ i < 32
    [] n \in BTypeInstructions  -> -4096 <= i /\ i < 4096 /\ i % 4 = 0
    [] n \in UTypeInstructions  -> -524288 <= i /\ i < 1048576
    [] n \in JTypeInstructions  -> -1048576 <= i /\ i < 1048576 /\ i % 2 = 0
    [] n \in CSRIInstructions   -> 0 <= i /\ i < 32
    [] OTHER -> i = 0

\* the statements the parser accepts; an operand a mnemonic does not have is 0
UnitType == [op : MachineInstructions, rd : Reg, rs1 : Reg, rs2 : Reg, rs3 : Reg,
             imm : Int, csr : 0..4095, rm : 0..7]

ASSUME UnitsAssumption ==
  /\ \A u \in Units : u \in UnitType /\ ImmInRange(u.op, u.imm)
  /\ Contents \subseteq Value \X Value

VARIABLES
  unit,      \* the ICUnit
  word,      \* current_instruction_
  a, b,      \* reg1_value and reg2_value, the contents of rs1 and rs2
  outcome,   \* what Execute and WriteBack have done
  stage

vars == <<unit, word, a, b, outcome, stage>>

Stage == {"parsed", "not_encoded", "loaded", "executed"}

\* base + offset; the base is 0, the pc, an upper immediate or a byte of memory
At(base, offset) == [base |-> base, offset |-> offset]

\* an outcome in which the integer part of the machine changes nothing
Nothing(route) == [route |-> route, pc |-> At("pc", 4), written |-> {}, stored |-> {}]

Init ==
  /\ unit \in Units
  /\ word = InvalidInstructionType
  /\ a = 0 /\ b = 0
  /\ outcome = Nothing("none")
  /\ stage = "parsed"

\* generateMachineCode; its exception is not caught by assemble
Generate ==
  /\ stage = "parsed"
  /\ word' = generateMachineCode(unit)
  /\ stage' = IF word' = InvalidInstructionType THEN "not_encoded" ELSE "loaded"
  /\ UNCHANGED <<unit, a, b, outcome>>

----------------------------------------------------------------------------

\* the chain of tests at the head of Execute, WriteMemory and WriteBack
Route(w) ==
  IF w.opcode = SYSTEM /\ w.funct3 = 0 THEN "HandleSyscall"
  ELSE IF isFInstruction(w) THEN "ExecuteFloat"
  ELSE IF isDInstruction(w) THEN "ExecuteDouble"
  ELSE IF w.opcode = SYSTEM THEN "ExecuteCsr"
  ELSE "Execute"

\* the comparison of a conditional branch
TakeBranch(w, x, y) ==
  LET sx == Signed(x, Width)
      sy == Signed(y, Width)
  IN  CASE w.funct3 = 0 -> x = y
        [] w.funct3 = 1 -> x # y
        [] w.funct3 = 4 -> sx < sy
        [] w.funct3 = 5 -> sx >= sy
        [] w.funct3 = 6 -> x < y
        [] w.funct3 = 7 -> x >= y
        [] OTHER -> FALSE

\* jalr keeps the lowest bit of its target
NextPc_Odd(w, x, y, result) ==
  CASE w.opcode = JALR -> At("zero", result)
    [] w.opcode = JAL \/ (w.opcode = BRANCH /\ TakeBranch(w, x, y)) -> At("pc", ImmGenerator(w))
    [] OTHER -> At("pc", 4)

NextPc(w, x, y, result) ==
  CASE w.opcode = JALR -> At("zero", result - (result % 2))
    [] w.opcode = JAL \/ (w.opcode = BRANCH /\ TakeBranch(w, x, y)) -> At("pc", ImmGenerator(w))
    [] OTHER -> At("pc", 4)

\* the value that WriteBack selects by the opcode
WriteBackValue(w, result) ==
  CASE w.opcode \in {OP, OP_IMM} -> At("zero", result)
    [] w.opcode \in {JAL, JALR}  -> At("pc", 4)
    [] w.opcode = AUIPC -> At("pc + upper", ImmGenerator(w))
    [] w.opcode = LUI   -> At("upper", ImmGenerator(w))
    [] w.opcode = LOAD  -> At("memory", result)
    [] OTHER -> At("zero", 0)

\* x0 is not written
Written(w, result) ==
  IF RegWrite(w) /\ w.rd # 0 THEN {[rd |-> w.rd, value |-> WriteBackValue(w, result)]} ELSE {}

Stored(w, result, y) == IF MemWrite(w) THEN {[address |-> result, value |-> y]} ELSE {}

\* loads and stores do not ask the ALU
AluResults(w, x, y) ==
  LET second == IF AluSrc(w) THEN Unsigned(ImmGenerator(w), Width) ELSE y IN
  IF w.opcode \in {LOAD, STORE} THEN {Unsigned(x + ImmGenerator(w), Width)}
  ELSE execute(GetAluSignal(w), x, second)

Outcomes(w, x, y) ==
  IF Route(w) # "Execute" THEN {Nothing(Route(w))}
  ELSE {IF r = Trap THEN Nothing("SIGFPE")
        ELSE [route |-> "Execute", pc |-> NextPc(w, x, y, r),
              written |-> Written(w, r), stored |-> Stored(w, r, y)]
        : r \in AluResults(w, x, y)}

\* one Step; rs1 and rs2 may be x0, or the same register
Execute(x, y) ==
  /\ stage = "loaded"
  /\ word.rs1 = 0 => x = 0
  /\ word.rs2 = 0 => y = 0
  /\ word.rs1 = word.rs2 => x = y
  /\ a' = x /\ b' = y
  /\ outcome' \in Outcomes(word, x, y)
  /\ stage' = "executed"
  /\ UNCHANGED <<unit, word>>

Next == Generate \/ \E c \in Contents : Execute(c[1], c[2])

Spec == Init /\ [][Next]_vars
=============================================================================
