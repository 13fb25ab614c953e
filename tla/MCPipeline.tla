---------------------------- MODULE MCPipeline -----------------------------
(***************************************************************************)
(* A small machine for the pipelined runs.  A 64-bit value is a number     *)
(* below 16 whose low half is its remainder by 4; the upper half is all    *)
(* ones from 12 on.  There are registers 0, 1 and 2 and two memory cells.  *)
(* The operations of the units tell their operands apart.                  *)
(***************************************************************************)
EXTENDS PipelineCorrect

MCWord   == 0..15
MCRegNum == 0..2
MCImmVal == {0, 1, 2, 3}

MCAdd(a, b) == (a + b) % 16
\* ADDI, a right shift (the immediate 3), and any other operation
MCAlu(i, a, b) == CASE i.op = "OPIMM" /\ i.imm # 3 -> MCAdd(a, b)
                    [] i.op = "OPIMM" /\ i.imm = 3 -> a \div 4
                    [] OTHER -> (a + 3 * b + 1) % 16
MCFAlu(i, a, b) == CASE i.f7 = "CMP" -> IF a < b THEN 1 ELSE 0
                     [] i.f7 \in {"TO_GPR", "FROM_GPR"} -> a
                     [] OTHER -> (a + 2 * b + 1) % 4
MCFFlags(i, a, b) == (a \div 2 + b) % 2
MCTaken(i, a, b) == a = b
MCBranchTarget(n, v) == n + v
MCJumpTarget(v) == v \div 4
MCPcWord(n) == (4 * n) % 16
MCLow(v) == v % 4
MCNanBox(v) == 12 + (v % 4)
MCUpperZ(v) == v % 4
MCUpperS(v) == IF v % 4 >= 2 THEN 12 + (v % 4) ELSE v % 4
MCIsExit(v) == v = 10
RV64(v) == v
RV32(v) == v % 4

Cell(a) == (a \div 2) % 2
MCMem == [0..1 -> MCWord]
MCLoad(i, m, a) == IF i.op = "LOADFP" THEN MCLow(m[Cell(a)]) ELSE m[Cell(a)]
MCStore(i, m, a, v) == [m EXCEPT ![Cell(a)] = v]
MCInitMem == {[c \in 0..1 |-> 7 + 2 * c]}
MCInitGpr == [r \in MCRegNum |-> 5 * r]
SmallInitGpr == [r \in MCRegNum |-> r]
\* LB and SB may use any address, LH and SH only even ones
ByteAccess(i, a) == FALSE
HalfAccess(i, a) == a % 2 = 1

I(op, rd, rs1, rs2, f7, imm) ==
  [op |-> op, rd |-> rd, rs1 |-> rs1, rs2 |-> rs2, f7 |-> f7, imm |-> imm]

\* the rs2 field of an immediate instruction holds bits of the immediate
IntegerInstrs ==
  { I("OP", 1, 1, 2, "ARITH", 0), I("OP", 2, 2, 1, "ARITH", 0),
    I("OPIMM", 1, 2, 1, "ARITH", 1), I("OPIMM", 0, 1, 2, "ARITH", 2),
    I("LOAD", 1, 2, 2, "ARITH", 2), I("LOAD", 2, 1, 0, "ARITH", 0),
    I("STORE", 0, 1, 2, "ARITH", 0), I("STORE", 2, 2, 1, "ARITH", 2),
    I("LUI", 2, 1, 0, "ARITH", 1), I("AUIPC", 1, 0, 1, "ARITH", 1) }

FloatInstrs ==
  { I("LOADFP", 1, 1, 0, "ARITH", 0), I("LOADFP", 0, 2, 2, "ARITH", 2),
    I("STOREFP", 0, 2, 1, "ARITH", 0), I("STOREFP", 0, 1, 0, "ARITH", 2),
    I("OPFP", 1, 2, 0, "FROM_GPR", 0), I("OPFP", 2, 1, 1, "ARITH", 0),
    I("OPFP", 0, 1, 1, "UNARY", 0), I("OPFP", 2, 1, 1, "CMP", 0),
    I("OPFP", 1, 0, 0, "TO_GPR", 0), I("OPFP", 1, 0, 1, "ARITH", 0) }

\* what the machines do not agree on
UpperInstrs == { I("LUI", 1, 0, 0, "ARITH", 2), I("AUIPC", 1, 0, 0, "ARITH", 2) }
JumpInstrs  == { I("JAL", 1, 0, 0, "ARITH", 2), I("JALR", 1, 2, 0, "ARITH", 0),
                 I("BRANCH", 0, 1, 1, "ARITH", 2), I("ECALL", 0, 0, 0, "ARITH", 0) }
OddLoads    == { I("LOADFP", 1, 0, 0, "TO_GPR", 0) }

AllInstrs == IntegerInstrs \union FloatInstrs \union UpperInstrs \union JumpInstrs
             \union OddLoads \union {NoInstr}

UpTo(n, S) == UNION {[1..k -> S] : k \in 0..n}
StraightInstrs == IntegerInstrs \union FloatInstrs

\* every short program, and the longer ones of the instructions with the most
\* dependences between them
ChainInstrs ==
  { I("OP", 1, 1, 2, "ARITH", 0), I("LOAD", 1, 2, 2, "ARITH", 2),
    I("STORE", 0, 1, 2, "ARITH", 0), I("LOADFP", 1, 1, 0, "ARITH", 0),
    I("OPFP", 1, 2, 0, "FROM_GPR", 0), I("OPFP", 2, 1, 1, "CMP", 0) }

AgreeingPrograms ==
  {p \in UpTo(3, StraightInstrs) \union [1..5 -> ChainInstrs] : Agreeing(p)}
FaultingPrograms == {p \in UpTo(3, StraightInstrs) : Agreeing(p)}

----------------------------------------------------------------------------
(* Programs outside of Agreeing *)

\* f0 as a destination: FCVT.S.W f0, x2 and FLW f0, then FSW f0 and FADD.S f1, f0, f0
ZeroFprInstrs ==
  { I("OPFP", 0, 2, 1, "FROM_GPR", 0), I("LOADFP", 0, 1, 2, "ARITH", 0),
    I("STOREFP", 1, 2, 0, "ARITH", 0), I("OPFP", 1, 0, 0, "ARITH", 0) }
ZeroFprPrograms == UpTo(2, ZeroFprInstrs)

\* FLW f1, -512(x0): the upper bits of the offset read as the funct7 of FMV.X.W
OffsetPrograms == UpTo(2, IntegerInstrs \union OddLoads)

\* straight-line code and the instructions that change the program counter
JumpPrograms == UpTo(2, {I("OP", 1, 1, 2, "ARITH", 0)} \union
                        {i \in JumpInstrs : i.op # "ECALL"})

\* a result wider than XLEN, shifted right
WideInstrs == { I("OPIMM", 1, 2, 0, "ARITH", 1), I("OPIMM", 2, 1, 0, "ARITH", 3),
                I("OP", 1, 1, 2, "ARITH", 0) }
WidePrograms == UpTo(2, WideInstrs)
=============================================================================
