----------------------------- MODULE SingleUndo -----------------------------
(***************************************************************************)
(* SingleDebug implements TimeTravel.  The auxiliary variables only        *)
(* observe: past is the stack of the machines that were left by a step,    *)
(* future the machines that were left by an undo, the nearest one last.    *)
(***************************************************************************)
EXTENDS SingleDebug

VARIABLES past, future

undoVars == <<debugVars, past, future>>

\* what the window shows of a machine: the memory as bytes, not as blocks
Machine ==
  [program |-> program, pc |-> pc, gpr |-> gpr, fpr |-> fpr, csr |-> csr,
   mem |-> Flat(mem), retired |-> retired]

UndoInit == DebugInit /\ past = <<>> /\ future = <<>>

Pop(s) == SubSeq(s, 1, Len(s) - 1)
Top(s) == s[Len(s)]

UndoStep ==
  /\ Step
  /\ past' = Append(past, Machine)
  /\ future' = IF future = <<>> THEN future ELSE Pop(future)

UndoNext ==
  \/ UndoStep
  \/ StepThrows /\ UNCHANGED <<past, future>>
  \/ Undo /\ past' = Pop(past) /\ future' = Append(future, Machine)
  \/ (OnAssemble \/ OnReset \/ OnStop \/ OnSelectIsa) /\ past' = <<>> /\ future' = <<>>

UndoSpec == UndoInit /\ [][UndoNext]_undoVars

----------------------------------------------------------------------------

RegisterChanges ==
  [reg_type : {"NONE"}, reg_index : {0}, old_value : {0}] \union
  [reg_type : {"GPR", "FPR"}, reg_index : RegNum, old_value : Word] \union
  [reg_type : {"CSR"}, reg_index : CsrNum, old_value : Word]

MemoryChanges ==
  [address : Word, old_bytes : UNION {[0..n - 1 -> Byte] : n \in 0..DoubleSize}]
Machines ==
  [program : Programs, pc : Nat, gpr : [RegNum -> Word], fpr : [RegNum -> Word],
   csr : [CsrNum -> Word], mem : [0..MemorySize - 1 -> Byte], retired : Nat]
Deltas ==
  [old_pc : Nat, register_change : RegisterChanges, memory_change : MemoryChanges]

\* Type invariant.  Memory::Read and Write are only called for bytes of the memory, x0
\* is never written, the registers of RV32 are narrow, and there is one delta to undo for
\* each instruction counted.
DebugTypeOK ==
  /\ program \in Programs
  /\ prog \in Seq(Instr)
  /\ prog = program \/ prog = [k \in 1..Len(prog) |-> NoInstr]
  /\ isa \in {"RV32", "RV64"} /\ pc \in Nat
  /\ gpr \in [RegNum -> Word] /\ gpr[0] = 0
  /\ isa = "RV32" => \A r \in RegNum : Low(gpr[r]) = gpr[r]
  /\ fpr \in [RegNum -> Word] /\ csr \in [CsrNum -> Word]
  /\ IsMemory(mem)
  /\ memory_result \in Word
  /\ undo_stack \in Seq(Deltas) /\ past \in Seq(Machines)
  /\ retired = Len(undo_stack) /\ Len(past) = Len(undo_stack)
  /\ \A k \in 1..Len(undo_stack) :
       LET c == undo_stack[k].memory_change
       IN  \A o \in DOMAIN c.old_bytes : c.address + o < MemorySize

----------------------------------------------------------------------------
(* Stepping back *)

Occurs(ops) == \E k \in 1..Len(prog) : prog[k].op \in ops

\* a program with floating-point operations sets fcsr, and one with CSR instructions
\* sets their rd; Undo brings neither back
KeptGpr == RegNum \ {prog[k].rd : k \in {n \in 1..Len(prog) : prog[n].op = "CSR"}}
KeptCsr == IF Occurs(FloatOps) THEN CsrNum \ {Fcsr} ELSE CsrNum

Kept(m) ==
  [program |-> m.program, pc |-> m.pc, gpr |-> [r \in KeptGpr |-> m.gpr[r]], fpr |-> m.fpr,
   csr |-> [c \in KeptCsr |-> m.csr[c]], mem |-> m.mem, retired |-> m.retired]

\* a machine that has just been reset
PoweredOn(m) ==
  /\ m.pc = 0 /\ m.retired = 0
  /\ \A r \in DOMAIN m.gpr : m.gpr[r] = InitGpr[r]
  /\ \A r \in DOMAIN m.fpr : m.fpr[r] = 0
  /\ \A c \in DOMAIN m.csr : m.csr[c] = 0
  /\ m.mem \in {Flat(LoadedMem(m.program)), Flat(NoBlocks)}

OneLater(m, n) == n.retired = m.retired + 1

Seen == [k \in 1..Len(past) + 1 |-> IF k <= Len(past) THEN Kept(past[k]) ELSE Kept(Machine)]

TT == INSTANCE TimeTravel WITH history <- Seen, Initial <- PoweredOn, Later <- OneLater

\* an instruction that throws is left behind, and nothing else happens
PassesOver ==
  Seen' = [Seen EXCEPT ![Len(Seen)] = [Seen[Len(Seen)] EXCEPT !.pc = pc + 1]]

\* However steps, exceptions, undos and resets are mixed, Undo shows the machine of
\* before the last instruction counted and not undone: its registers, its program counter
\* and every byte of its memory, in whichever blocks they are.
StepsBack == TT!Init /\ [][TT!Next \/ PassesOver]_Seen

AllTT == INSTANCE TimeTravel WITH
           history <- Append(past, Machine), Initial <- PoweredOn, Later <- OneLater

\* The same of all registers: "current_delta_.register_changes" is where Step keeps what
\* it writes, and Undo has a case for CSRs.
StepsBackEntirely == AllTT!Init /\ [][AllTT!Next \/ StepThrows]_<<past, Machine>>

----------------------------------------------------------------------------
(* Stepping forward again *)

\* undone or not, all that an instruction of such a program reads is brought back
Plain == /\ ~Occurs({"CSR"})
         /\ \A k \in 1..Len(prog) : ~Unsupported(prog[k])

WithoutPc(m) == [f \in DOMAIN m \ {"pc"} |-> m[f]]

\* A step after an undo shows what was shown before the undo, also where an exception
\* had moved the program counter: Step depends on nothing that Undo leaves as it is.
StepsAgain ==
  [][UndoStep /\ future # <<>> /\ Plain
       => WithoutPc(Kept(Machine))' = WithoutPc(Kept(Top(future)))]_undoVars

\* The same of every program: "LD instruction not supported in RV32".
StepsAgainAlways ==
  [][UndoStep /\ future # <<>>
       => WithoutPc(Kept(Machine))' = WithoutPc(Kept(Top(future)))]_undoVars
=============================================================================
