------------------------------ MODULE MCDebug -------------------------------
(***************************************************************************)
(* The machine of MCPipeline under the debugger.                           *)
(***************************************************************************)
EXTENDS PipelineUndo, MCPipeline

MCOldBytes(i, m, a) == m[Cell(a)]
\* a wider access reaches the end of the memory earlier
MCOutOfRange(i, a) == a >= IF i.op \in {"LOADFP", "STOREFP"} THEN 12 ELSE 14
MCClearMem == [c \in 0..1 |-> 0]

CalmInstrs ==
  { I("OP", 1, 1, 2, "ARITH", 0), I("LOAD", 1, 2, 2, "ARITH", 2),
    I("LOADFP", 1, 1, 0, "ARITH", 0), I("STOREFP", 0, 2, 1, "ARITH", 0),
    I("OPFP", 1, 2, 1, "FROM_GPR", 0), I("OPFP", 2, 1, 1, "CMP", 0) }
DebugInstrs ==
  CalmInstrs \union
  { I("OPIMM", 1, 2, 1, "ARITH", 1), I("STORE", 0, 1, 2, "ARITH", 0),
    I("LOADFP", 1, 2, 0, "ARITH", 2), I("STOREFP", 0, 2, 1, "ARITH", 2), NoInstr }

\* every pair of instructions that stay in the memory, and four programs of others
\* too: a load-use stall before a store, a misaligned store in the middle of
\* arithmetic, and accesses that throw behind instructions that write registers
DebugPrograms ==
  [1..2 -> CalmInstrs] \union
  { << I("LOAD", 1, 2, 2, "ARITH", 2), I("OP", 1, 1, 2, "ARITH", 0),
       I("STORE", 0, 1, 2, "ARITH", 0) >>,
    << I("OPFP", 1, 2, 1, "FROM_GPR", 0), I("STORE", 0, 1, 2, "ARITH", 0),
       I("OP", 1, 1, 2, "ARITH", 0), I("OPFP", 2, 1, 1, "CMP", 0) >>,
    << I("OPFP", 1, 2, 1, "FROM_GPR", 0), I("OPIMM", 1, 2, 1, "ARITH", 1),
       I("LOADFP", 1, 2, 0, "ARITH", 2) >>,
    << I("OPFP", 1, 2, 1, "FROM_GPR", 0), I("STOREFP", 0, 2, 1, "ARITH", 2) >> }
=============================================================================
