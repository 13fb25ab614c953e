# A verification project for risc-simulator

The repository is a RISC-V simulator with a Qt user interface. The user writes
assembly in an editor, the assembler turns it into machine words, and one of two
virtual machines executes them: `RVSSVM`, which executes one instruction per
iteration, and `RVSSVMPipelined`, a five-stage pipeline with optional hazard
detection and forwarding. The program is executed by a background thread, by an
animation timer or step by step, and steps can be undone. There are no tests, and
the documentation is the comments in the code.

The project asks six questions:

1. Does the pipeline compute what the single-cycle machine computes, each
   instruction once and in order, and does it get to the end in the number of
   cycles it should need? (`Pipeline`, `SingleCycle`, `PipelineCorrect`; proved in
   `PipelineProofs` and `PipelineAgreement`)
2. Does the debugger keep the pipelined machine consistent? (`PipelineDebug`,
   `PipelineUndo`, `TimeTravel`; proved in `PipelineUndoProofs`)
3. And the single-cycle machine, to the byte of its memory? (`Memory`,
   `SingleDebug`, `SingleUndo`, `TimeTravel`; proved in `SingleProofs`)
4. Who executes the program: can the thread, the timers and the buttons get into
   each other's way? (`ExecutionControl`, `ExecutionCorrect`; proved in
   `ExecutionProofs`)
5. Does an assembled statement do what its mnemonic says: through the tables, the
   code generator, the decoder and the ALU? (`InstructionSet`, `MachineCode`,
   `IntegerAlu`, `OneInstruction`; proved in `InstructionProofs` and
   `InstructionStepProofs`)
6. Does the assembler resolve and report what it should? (`Lexer`, `Syntax`,
   `Parser`, `Assembler`, `AssemblerCorrect`; proved in `AssemblerProofs`)

## Inventory

Paths are relative to `src/`.

| component | state | operations | interacts with |
|---|---|---|---|
| Pipelined VM, `backend/vm/rvss_vm_pipelined.cpp` | pc, four pipeline registers and their next values, `stall_`, counters, undo stack, branch tables | `Run`, `Step`, `Undo`, `Reset`, `LoadProgram`, `SetPipelineConfig`; `WB_stage` to `IF_stage`, `advance_pipeline_registers` | registers (shared with the main window), memory, control unit, ALU; emits Qt signals |
| Hazard unit, `hazardUnit.cpp` | none | `DetectLoadUseHazard`, `DetectEXHazard`, `DetectMEMHazard` | called by `ID_stage` |
| Forwarding unit, `forwarding_unit.cpp` | none | `GetRs1Source`, `GetRs2Source` | called by `EX_stage` |
| Control unit, `rvss_control_unit.cpp` | the control signals of the last instruction | `SetControlSignals`, `GetAluSignal` | both VMs |
| Single-cycle VM, `rvss_vm.cpp` | pc, latches of one iteration, counters, undo stack, `stop_requested_` | `Step`, `Undo`, `Reset` (and `Run`, `DebugRun`, which nothing calls); `Fetch` to `WriteBack` | the same units |
| VmBase, `vm_base.cpp` | program, breakpoints, status | `LoadProgram`, `ImmGenerator`, breakpoints (set, never looked at), `DumpState` | base class of the VMs |
| Registers, `registers.cpp` | 32 GPRs, 32 FPRs, CSRs, ISA | reads and writes, `Reset` | one object for all VMs and for the assembler |
| Memory, `main_memory.cpp`, `memory_controller.h` | map of blocks | reads and writes of 1 to 8 bytes, `Reset` | VMs |
| ALU, `alu.cpp` | none | `execute`, `fpexecute`, `dfpexecute` | VMs |
| Execution thread, `frontend/VMExecutionThread.cpp` | stop flag, running flag, limit | `run`, `requestStop` | calls `Step` of the VM from its own thread, posts signals to the window |
| Main window, `frontend/mainwindow.cpp` | current VM, program, pause flags, timers | `onAssemble`, `onRun`, `onStep`, `onUndo`, `onReset`, `onStop`, `onPause`, `onResume`, processor selection | everything |
| Assembler, `backend/assembler/` | symbol table, token list, intermediate code, errors | lexer, parser, code generator | main window |
| Instruction tables, `backend/common/instructions.cpp` | constant tables | lookups | assembler, VMs |
| Cache (`vm/cache`), `pipelineRegisters.h`, `mmio_devices.h`, `rv5s`, `command_handler` | - | declared but unused or empty | - |
| GUI widgets | presentation | - | main window |

What is hard in this code:

- *Data hazards.* ID reads registers while older instructions have results on
  their way. The mix of stalls and forwarding, two register files, register 0 and
  instruction fields that mean something else in another format decide whether
  the operand is right.
- *Partial failure.* An alignment fault is found in MEM while younger and older
  instructions are in the other stages; an access outside of the memory throws out
  of the middle of `Step`; the assembler is left by exceptions in some of its
  hundred small functions.
- *Undo.* Several functions record what another has to restore.
- *Concurrency.* The background thread, the animation timers and the buttons call
  the same machine; stop flags are set and cleared by several of them.
- *Lifecycle.* Reset, Stop, Run and Assemble leave different parts of the machine
  behind (memory, `stop_requested_`, `stall_cycles_`).
- *Numbers.* RV32 truncation, NaN-boxing, sign extension, division corner cases,
  immediates scattered over a word by one file and collected by another.
- *Forward references.* Two passes and a third loop over parallel lists.

`PROJECT.json` lists each of these at its line, with the properties that cover it.

## Modules

| module | models | role |
|---|---|---|
| `Isa` | instruction format, control signals, register file, units | parameters and shared operators of the pipeline modules |
| `HazardUnit`, `ForwardingUnit` | the two units | pure predicates, instantiated by `Pipeline` |
| `SingleCycle` | an iteration of `RVSSVM` | the reference machine |
| `Pipeline` | `RVSSVMPipelined::Run` | one action, `Cycle`, a clock cycle |
| `PipelineCorrect` | - | types, order, refinement mapping, properties of `Pipeline` |
| `PipelineProofs`, `PipelineAgreement` | - | proofs: types, order, cost; fresh operands, refinement |
| `PipelineDebug` | `Step`, `Undo`, `Reset`, `LoadProgram` and the buttons that call them | the machine under the main window |
| `TimeTravel` | - | what a debugger that steps back promises |
| `PipelineUndo`, `PipelineUndoProofs` | - | `PipelineDebug` implements `TimeTravel`; its proofs |
| `Memory` | `Memory` behind `MemoryController` | blocks of bytes, accesses of several bytes, bounds |
| `SingleDebug` | `RVSSVM::Step`, `Undo`, `Reset` with all they record, and the buttons | the other machine under the main window |
| `SingleUndo`, `SingleProofs` | - | `SingleDebug` implements `TimeTravel`; its proof |
| `ExecutionControl` | `VMExecutionThread`, the timers, the handlers of the main window | who executes a program, and when |
| `ExecutionCorrect`, `ExecutionProofs` | - | its properties and their proofs |
| `InstructionSet` | the tables of `instructions.cpp` | records indexed by the mnemonic |
| `MachineCode` | `generateMachineCode`, `ImmGenerator`, `SetControlSignals`, `GetAluSignal` | from a statement to a word and back |
| `IntegerAlu` | `Alu::execute` | every integer operation |
| `OneInstruction` | `Execute`, `WriteMemory`, `WriteBack` of one integer instruction | the life of one statement |
| `OneInstructionCorrect` | - | what the manual says a mnemonic means |
| `InstructionProofs`, `InstructionStepProofs` | - | proofs: from the statement to the word and back; from the word to its effect |
| `Lexer`, `Syntax` | tokens; the operand rows of every mnemonic | tables and classification |
| `Parser` | `parser.cpp` and `parse_formats/` | one action per round of a loop |
| `Assembler` | `assemble`, `onAssemble`, the data half of `LoadProgram` | the whole way of a file |
| `AssemblerCorrect`, `AssemblerProofs` | - | its properties and their proofs |
| `MCPipeline`, `MCDebug`, `MCSingleDebug`, `MCExecution`, `MCInstruction`, `MCAssembler` | - | small instances for TLC |

### The pipeline

An instruction is a record of the fields the code extracts from the word (`op`,
`rd`, `rs1`, `rs2`, `imm`, and `f7`, a class of `funct7`). The fields are there
whatever the format, as in the code: the `rs2` of an ADDI is part of its
immediate, and the `f7` of an FLW part of its offset. A pc is an instruction
index. Words, memory and the arithmetic of the ALU are parameters of the modules:
the assumptions about them are closure and a few facts about bit patterns
(`Isa!ConstantTypes`, `UnitTypes`, `BoxingFacts`, `AddZero`).

`Pipeline!Cycle` is one iteration of `Run`. The five stage functions run in the
order WB, MEM, EX, ID, IF and each fills the `_next` registers, which
`advance_pipeline_registers` copies; so each primed pipeline register is a
function of the unprimed state (`MemStage`, `ExStage`, `IdStage`, `IfStage`),
except that ID reads the register file WB has just written (`gpr'`, `fpr'`).
`stall_` is set and cleared within the cycle and is the operator `Stall`. EX never
sets `pc_update_pending_` and nothing writes the branch target buffer, so the
redirecting branches of IF cannot be taken and are left out; run `jumps` shows
what follows.

`PipelineDebug` has `Step` (`StepCycle`, `StepThrows` and, once the program has ended,
`StepEnd`), `Undo`, and the window's handlers `OnAssemble`, `OnReset`, `OnRun` and
`OnStop`, each with all the calls it makes on the machine. Every execution the
user interface starts is a sequence of `Step` calls, which does not look at
`stop_requested_`. A delta holds what `PipelineStepDelta` holds. `OnStop` clears
the memory without loading the program, so the machine is left with a text
section of zero words.

`StepThrows` is a `Step` that an access outside of the memory (`OutOfRange`) leaves
by an exception out of `MEM_stage`. `WB_stage` has run before it: its register is
written, the change recorded in `current_delta_` and the instruction counted. The
pipeline registers do not advance and no delta is pushed, so the next `Step` writes
the same register and counts the same instruction again, and throws again. The
recorded change stays in `current_delta_` (`current_changes`) until a later step
pushes its delta, with it among its own changes. Only the background thread catches the
exception, and the user can go on with Step, Undo or Resume on the same machine;
out of a button or timer handler it ends the program. `PipelineUndo` observes which
registers were written in such steps (`lost`): `StepsBack` says nothing of
them, `StepInOrder` allows the repeated count, and run `thrown` shows that Undo does
not bring such a register back. `Pipeline` itself, the loop of `Run`, which
nothing in the user interface calls, keeps accesses total: an exception would leave
`Run`, so that what it says, it says of programs that stay in the memory.

*The refinement mapping.* An instruction is *committed* when it leaves EX. The
single-cycle machine `SC` of `PipelineCorrect` has the pc of the oldest
instruction not committed, and the registers and memory of the pipeline with the
results in EX/MEM and MEM/WB added (`CommittedGpr`, `CommittedFpr`,
`CommittedMem`). A cycle in which an instruction leaves EX is a step of `SC`, a
cycle with a bubble there leaves `SC` unchanged.

The machines agree on the programs `Agreeing` describes, and only on those. Each
of its conditions is a place where they differ:

| condition | difference |
|---|---|
| no branch, jump, ECALL | the pipeline ignores them (run `jumps`) |
| LUI/AUIPC immediates positive | the pipeline does not extend the sign of `imm << 12` |
| no FLW offset that reads as FMV.X.W | WB writes it to a GPR (`MCPipeline_offset.cfg`) |
| without forwarding, f0 is not a destination | the hazard unit ignores it (`MCPipeline_f0.cfg`) |
| floating-point operands were written before | `validate_sp` turns the others into NaN, the pipeline does not |
| with forwarding, registers are full width | forwarded values are not truncated to 32 bits (`MCPipeline_rv32.cfg`) |
| hazard detection on | the configurations without it are meant to go wrong |

### The single-cycle machine under the debugger

`SingleDebug!Step` is the whole of `RVSSVM::Step`: fetch, execute, memory access,
write-back, and the `StepDelta` that `WriteMemory` and the `WriteBack` functions
fill on the way. Integer, single- and double-precision, CSR and system
instructions are the classes of instructions those functions tell apart; the
arithmetic is a parameter. `StepThrows` is a `Step` that is left by the exception
of an access outside of the memory: `Fetch` has moved the pc, nothing else has
happened, and no delta was pushed. The memory is the map of blocks of
`main_memory.cpp`, so a store may create a block, or cross from one into the next.

`memory_result_` is a variable of the model, because it outlives the instruction:
on RV32 an LD is refused with a message and written back all the same.

`SingleUndo` adds two history variables that only observe: `past`, the machines
left by steps, and `future`, the machines left by undos. `StepsBack` says that
the machines shown are the history of `TimeTravel`; `StepsAgain` that a step after
an undo shows what the undone step had shown.

### Who executes

`ExecutionControl` abstracts each machine to the program it holds and the number
of steps done, and models every access of the two threads to what they share in
the order of the source: in `VMExecutionThread::run` the setting of `running_`
(`WorkerStart`), the clearing of `stop_requested_` (`WorkerClear`), the condition
of the loop (`WorkerCheck`), `Step` with a beginning and an end (`WorkerCheck` to
`WorkerStep`, so that a handler may act in between), the exception
(`WorkerThrows`), the clearing of `running_` (`WorkerLeave`) and the return
(`WorkerEnd`). A handler of the window is one action, or two where it waits for
the thread with a time limit: `OnStop` and `StopRest`, say, with `Return` when the
thread has ended and `TimedOut` when the limit passes. The posted signals are
handled in order between the handlers, and while the processor dialog is open.

`Patient` says that the user presses a button only when the last one has taken
effect, `Timely` that the time limits are long enough. The code asks for neither;
the properties that need them say so.

### One statement

A word is the record of its six fields, so the shifts and masks of the source are
quotients and remainders. `OneInstruction` packs a statement the parser accepts
(`Generate`) and executes the word (`Execute`) on two register contents.
Properties compare the result with `Meant`, the RISC-V manual's meaning of the
mnemonic; each place where the program differs is named in `DivisionEdge`,
`WithoutImmediate`, `WithoutEffect` or `Confused`, and the property says that there
is no other. What C++ leaves undefined (`INT64_MIN % -1`, a division by a truncated
zero) is a set of outcomes: a trap or a value.

### The assembler

A source is the sequence of its lexemes; `Lexer` classifies them with the tables
of register names. `Parser` has one action per round of the loops of `parse`,
`parseDataDirective` and `parseTextDirective` and of the third loop that resolves
forward references; the `parse_O_...` functions are rows of token types in
`Syntax`, each with its ranges and its error. Exceptions leave the assembler where
the source has them: for a number that `std::stoll` or `std::stod` finds out of range
in `ReadTokens` (`Overflows`), for a `.float` too large for `std::stof` and a `.zero`
that is negative or longer than the memory of the host (`ThrowingValue`, with the
parameters `FloatReach` and `HostMemory`), and for registers and instructions the code
generator does not know. `Assembler` adds the two verdicts on
a file (the assembler's own counter and the window's number of messages), the map
from lines to instructions, and where `LoadProgram` puts the data.

## Runs

| run | what it shows |
|---|---|
| `forwarding` | hazard detection and forwarding: `OperandsFresh`, `CommittedBoxed`, the cycle count, refinement of `SingleCycle`, and that Run returns |
| `stalling` | without the forwarding unit the same programs still refine `SingleCycle`, and no stall loses, repeats or reorders an instruction (`InOrder`) |
| `faults` | half-word accesses that may be misaligned: the machines agree up to the cycle of the fault, and `TypeOK` |
| `undo` | the pipelined debugger: `StepsBack` (Undo is exact except for fcsr and registers lost to exceptions), order of instructions in spite of resets, faults and exceptions, stall statistics |
| `debug` | the single-cycle debugger: types and bounds, `StepsBack` to the byte, `StepsAgain` |
| `patient` | a patient user: no handler touches a machine in the middle of the thread's step (`ResetsAlone`), pausing pauses (`PausedStandsStill`), and the periodic display update ends (`UpdatesEnd`) |
| `hasty` | anything pressed at any time: an endless program is ended by the limits (`WorkerReturns`, `TimersEnd`) |
| `encode` | every mnemonic: operands and immediates survive the word, no two mnemonics are confused, the ALU and the step do what the manual says |
| `assembler` | whole files: labels, addresses, line map, error reports, exceptions, termination |
| `jumps` | violation: the pipeline falls through jumps and taken branches |
| `thrown` | violation: a register written in a step that throws is not restored by Undo |
| `lost` | violation: a stop requested while the thread is starting is lost, and the machine is reset under the thread's step |

**Bounds.** *Pipeline:* the small machine has values 0..15 (the low half is the
value modulo 4), registers 0, 1, 2, two memory cells and units whose results
depend on the order of their operands. Programs of up to three instructions over
twenty instruction shapes, and of five over the six with the most dependences,
fill every pair of stages with every dependence: the farthest dependence that
needs a stall or a forward is two instructions, and a third one is enough to see
that the machine goes on correctly. In `undo` the limit of the undo stack is
`MaxUndo` = 3 (10000 in the code), which programs of two instructions already
exceed, and no reset is pressed after more than `MaxStalls` = 1 counted stalls,
because `Reset` keeps `stall_cycles_` and it would grow without end. For the same
reason no step throws once more than `MaxRetired` = 2 instructions are counted: the
instruction in WB has then been retired once by itself and at least once again.

*Single-cycle debugger:* three bytes of memory in blocks of two, so that a word
may lie in one block, across two, or partly outside of the memory; every pair of
22 instruction shapes, and a store across two blocks between any two copies of one;
up to `MaxSteps` = 3 entries on the undo stack, so that a delta has others below it.
`LaterPrograms` bounds what the first program is edited into.

*Execution:* programs of one instruction that end, loop, throw or do not
assemble, an instruction limit of two and an animation limit of one, two timers in
`patient` (the second can only be started while the first is on) and one in
`hasty`. `MaxPosted` = 0 lets no button be pressed while a signal is undelivered,
but signals and the thread interleave freely. The limits of the code are large
numbers; what matters is that an execution may end before, at and after them.

*One statement:* registers of four bits with halves of two stand for 64 and 32, so
that every pair of register contents is tried; every immediate at the ends of its
range, around zero and with single bits of each field (those of lui and auipc down to
-524288, which the expansions of li and la reach), since the packing of each
bit does not depend on the others (the proofs cover every immediate).

*Assembler:* files of up to two data lines and two text lines, of a text section
before the data section, and of three text lines, over six data lines and twelve
text lines that define, use, redefine and misuse labels; every mnemonic in front
of every row of operands, fitting or not; and twenty odd files. `BranchReach` = 8
and `JumpReach` = 12 make a branch over two or three instructions too far, as
2048 and 524288 half-words do in the code. `FloatReach` = 7 and `HostMemory` = 9 make
`std::stof` throw for 8, as it does for 1e39, and let a `.zero` of nine bytes fit an
empty buffer and not one with a byte in it.

`CHECK_DEADLOCK FALSE` is set because programs, assemblies and sessions end.

**Fairness.** `LiveSpec` asks that the loop of `Run` goes on while its condition
holds (weak fairness of `Cycle`): it is a sequential loop with no waiting in it.
`FairUndoSpec` asks the same of `Step` in the animated mode, whose timer calls it
on every tick. `FairSpec` of `ExecutionControl` asks that the background thread is
scheduled, that timers go on ticking and posted signals are handled while the
event loop runs, and that a wait ends by its limit; of the user it asks nothing.
`Spec` of `Assembler` asks that `assemble`, a sequential function, goes on.
`UndoSpec` and `DebugSpec` have no fairness: the user may stop.

**Mistakes.** Some definitions have a variant with a plausible mistake before
them, marked as such in a comment: they are not part of the specification. Each
property is checked to fail with one of them in place of the definition.

## What the code does otherwise

Three of the differences between the code and its own comments are runs (`jumps`,
`thrown`, `lost`). The others have a configuration that is kept for its counterexample, to
be run by hand (`tlc -config <cfg> <module>`); none of these properties holds.

| configuration | property | difference |
|---|---|---|
| `MCPipeline_f0.cfg` | `OperandsFresh` | without forwarding an instruction that reads f0 is not held back: `hazardUnit.cpp` tests register 0 of either file, while `forwarding_unit.cpp:78` says "f0 is NOT" zero |
| `MCPipeline_offset.cfg` | `StepsLikeSingleCycle` | WB takes bits of an FLW's offset for the funct7 of FMV.X.W and writes a GPR |
| `MCPipeline_rv32.cfg` | `StepsLikeSingleCycle` | a forwarded value is not truncated to 32 bits on RV32 |
| `MCPipeline_stalls.cfg` | `StallsAreNeeded` | immediate bits that look like rs2 cause a stall; `hazardUnit.h:12` says the instruction "reads the loaded register" |
| `MCDebug_differs.cfg` | `UndoBounded` | at its limit the undo stack is moved away and back again, and grows; the comment at line 1398 says "Remove oldest entry" |
| | `StepsBackEntirely` | the pipelined machine records no change of fcsr |
| `MCSingleDebug_differs.cfg` | `StepsBackEntirely` | the single-cycle machine records neither fcsr nor the rd of a CSR instruction |
| | `StepsAgainAlways` | LD on RV32, "not supported", writes the value of an earlier load to rd |
| `MCExecution_display.cfg` | `UpdatesEnd` | a thread that has left its loop and not yet returned is not started again, and the display is updated for ever |
| `MCExecution_differs.cfg` | `OneStepper` | Run looks for the thread, not for an animation |
| | `NeverRunsBroken` | Resume executes although the assembly had errors |
| | `ExitEnds` | the thread goes on after the exit system call, which sets the machine's flag and not the thread's |
| | `CompletionIsTrue` | a paused or cut-off execution is reported as completed |
| | `SwitchStops` | the choice of a processor stops the thread and not the animation timers |

In `AssemblerCorrect` three properties are stated that fail and are in no
configuration: `JumpsLandOnText` (jal accepts a label of the data section and
computes with its address as if it were an instruction number), `DataWhereLabelled`
(a directive without a value aligns the label and not the data, and so does a label named
like a directive) and
`FenceIsAssembled` (fence is a valid mnemonic, none of the tests of
`generateMachineCode` accepts it, and the exception ends the program).

Other facts the model states and a reader may not expect:

- fclass.s and fclass.d throw in `generateMachineCode`: a comma is missing between
  their names in `FDExtensionR3TypeInstructions` (`OnlyFclassFails`).
- The 32-bit instructions (addw and the like) and the fused multiply-adds have no
  effect on registers, fcsr or memory, because `SetControlSignals` does not set RegWrite for
  them; addiw and its like have no case in `ImmGenerator` either.
- fcvt.s.d and fcvt.d.s are executed alike, as no operation, and ebreak as csrrw.
- `INT64_MIN % -1`, and divuw, remw and remuw by a register with a zero low half,
  are undefined; on the usual build the process ends with SIGFPE
  (`OnlyDivisionTraps`).
- addw and the like have no syntax of their own, `fp` is not a register name, and a
  hexadecimal number with letters is not a number for the lexer.
- A statement in bss, or behind a `.section` that closes a `.data`, is read by neither
  pass and is lost without an error; `EveryStatementAnswered` speaks of the data and
  the text.
- Breakpoints are set by the window and looked at by nobody.

## Proofs

Every theorem holds for all values of the constants, under the named assumptions
of the modules.

*Pipeline.* `TypeCorrect` and `ExecutesInOrder` hold for every configuration and
every program. (TLC checks both properties on the programs the machines agree on; jumps,
system calls and a machine without either unit are covered by the theorems.) `TypeOK` is inductive by itself. `InOrder` counts back from the pc:
the instruction in IF/ID is the one before the pc if the register is valid, and so
on to the number of retired instructions; it is inductive together with `TypeOK`
because a stall keeps IF/ID and the pc and puts a bubble in ID/EX.
`OperandsAlwaysFresh`, `AlwaysBoxed`, `ImplementsStep` and `Implements` assume
`Agreement`, the conditions of the table above. Their invariant is

    Working == TypeOK /\ InOrder /\ OperandsFresh /\ CommittedBoxed

`OperandsFresh` cannot do without `InOrder`: what is in EX/MEM and MEM/WB must be
the older instructions, and MEM/WB's `reg_write` must be clear in a bubble
because forwarding looks at nothing else. The refinement needs
`OperandsFresh`, from which the forwarded operand is the register of `SC`
(`ForwardedAgrees`, `OperandsAgree`), and `CommittedBoxed`, from which
`validate_sp` returns the low half of the register (`FloatAgrees`). `Commits`
then shows that a cycle with an instruction in EX is a step of `SC`, and
`Stutters` that any other one changes nothing. `Implements` also assumes that no
access is misaligned (`Aligned`), so that the machine is never asked to stop.

`CostIsBounded` proves `CycleBound` for programs of any length. Its invariant says
how many cycles have passed when the instruction now in IF/ID was fetched:
`AtLeast`, one for every instruction and every stage between, and `AtMost`, one
bubble more for each instruction before it (two without forwarding), where the
instruction in ID may be in the middle of its own wait. What keeps `AtMost`
inductive is that a stall leaves ID/EX empty: an instruction is held back at most
once for what is in EX, and without forwarding once more for what is in MEM.

*The pipelined debugger.* What holds of the machine must hold of every machine that
`Undo` can show again, so the invariant of `PipelineUndoProofs` speaks of all of them:

    DebugInv == States /\ (\A k \in 1..Len(past) : Sound(prog, past[k]))
                  /\ Sound(prog, Machine) /\ Chain

`Sound` is the order of the instructions, the count of the stalls and the width of
the registers; `Chain` says that each delta leads from the machine after it to the
one before it, but for the registers in `lost`. A step that throws pushes no machine,
so it has to keep what `Chain` says of the top delta: it writes only registers that
become lost (`WbWritesWritten`), and what it leaves in `current_delta_` names lost
registers only, which `States` keeps, so that the delta which carries it along later
is right about all the others (`RegistersRestored`). `DebugTypeCorrect`, `AlwaysInOrder`, `StallsAlwaysCounted` and
`SteppingBack` prove the four properties of run `undo`, the last that the pipelined
machine implements `TimeTravel`, with steps that throw as the only other steps
(`ThrowShown`), for any limits of the undo stack and any mixture of
steps, undos, faults, exceptions, resets and stops. `BytesRestore` and `ResetValues` are the
assumptions about data: old bytes written again undo a store inside the memory, and the values that
Reset puts into the registers fit the ISA.

*The single-cycle debugger.* `SingleProofs!TypeCorrect` proves `DebugTypeOK`, which
is inductive: it says that there is one delta for each instruction counted, and
that each delta only names bytes of the memory. `SteppingBack` proves
`UndoSpec => StepsBack`, that `SingleDebug` implements `TimeTravel`. Its invariant is

    Chain == \A k \in 1..Len(past) :
               Restores(KeptGpr, KeptCsr, isa, undo_stack[k], ShownAt(k + 1), past[k])

each delta of the undo stack leads from the machine shown after it to the one
shown before it. `StepRestores` proves that `Step` pushes such a delta, whatever
the instruction, from the lemma `ReadWritten` about the memory: what is read after
`WriteGeneric` are the written bytes where there are any, in whichever blocks, and
the old ones elsewhere. `UndoSame` proves that `Undo` applies the top delta.
`Restores` says nothing of the pc after a step, because an exception moves it
(`ThrowSame`), and nothing of the registers `Kept` leaves out.

`SteppingAgain` proves `UndoSpec => StepsAgain`, of the steps that are to come. It says
what `Step` does to any machine in terms of that machine alone (`GprAfter`,
`MemAfter`, `PcAfter`), and `StepFollows` that `Step` does this. The invariant is

    Retraced == Plain =>
      /\ \A k \in 1..Len(past) : Leads(past[k], past[k].pc, ShownAt(k + 1))
      /\ \A k \in 1..Len(future) : Reaches(NextShown(k + 1), future[k])

every machine that was shown leads to the next one, and so does the machine that an
undo brings back, because it is `Alike` by `UndoSame`. The pc is what makes this more
than a chain of steps: an exception moves it and Undo takes the move back, so the
machine of before an undo may be several throwing instructions ahead. `Reaches` is a
step behind such instructions (`Passes`); they throw again when they are met again
(`PassesFirst`), so the step is the same.

*Execution.* `TypeCorrect` needs `ThreadInv` (`running_` is set exactly between two
places of `run`, and the limit is looked at before each step). With `Patient` and
`Timely`, `NobodyElseResets` proves `ResetsAlone` and `PausingPauses` proves
`PausedStandsStill`. They rest on `WaitInv`, a handler that waits has asked a thread
that had already cleared the flag, and `PauseInv`, a window that is paused has no
thread left and no timer that would not stop; the second is needed because
pausing an animation sets the machine's flag only, and the dialog may put another
machine in its place.

*One statement.* The invariant is

    StepInv == WordInv /\ OutcomeInv

`WordInv`: the word is what `Generate` packs of a statement in the ranges of its
format, or there is none; `OutcomeInv`: the outcome is one `Execute` computes from
the word and its two registers. All else are lemmas about the operators, for
registers of any width that divides 64 (`WidthAssumption`), halves of any width up
to that, any contents and any immediate in range. `PowersOfTwo` is a law of
arithmetic, assumed because the provers know no law of exponents; TLC evaluates it
on the widths of the run.

- `OperandsAlwaysSurvive`, `ImmediateAlwaysSurvives`: splitting a number into fields
  and putting it together again, with its sign. `OnlyFclassEverFails`: every other
  name is in exactly one of the sets `generateMachineCode` asks.
- `AluAlwaysComputesTheMeaning`: sums and products are computed modulo a power of
  two (`Congruent`, `Modular`); the quotient of the manual is the only one with a
  small remainder of the right sign (`OneQuotient`), so the CHOOSE in `QuotientOf` is
  what the host divides; and a value is determined by its bits, which is an
  induction over the width without the induction theorems, by the least
  counterexample (`Least`, `EveryBits`). `SecondOperand` shows that an immediate cut
  to the width of a register does what the immediate would; a shift takes its amount
  modulo the width, which is why the width has to divide 64.
- `OnlyDivisionEverTraps`: no operation but four has `Trap` among its results.
- `StepAlwaysDoesWhatIsWritten`: rd, pc and memory after the step of an integer
  statement, with the branch, the address and the written value its mnemonic says.
- `AlwaysToldApart`: what the switches of the machine look at belongs to one mnemonic.
  The control signals tell the opcode (`SameOpcode`); under one opcode the signal of
  the ALU or funct3 tells the name, by the inverses of the tables (`RegisterName`,
  `ImmediateName`, `FloatName`, `SystemNames`). The exceptions of `Confused` come out
  of the same tables.

*Assembler.* The inductive invariant is

    AssemblerInv == TypeOK /\ FileOK /\ Early /\ Waiting /\ Landing /\ Patchable
                      /\ Counted /\ Decided

`Early`: no instruction exists before the second pass; `Waiting`: an instruction
without its label is in the list of back patches; `Landing`: one that has it
reaches the label; `Patchable`: those in the list have an immediate to set;
`Counted`: the assembler's counter is zero only if there is no message; `Decided`:
the verdict agrees with both. From it follow
`AllResolved`, `AllBranchesLand`, `ErrorsReported` and `LabelsStand`, for every
file and any reach of a branch. `PartsAddUp` proves the arithmetic of the two
halves of an address for every integer.

`NothingElseAborts` needs to know what each token and each unit can be. `AbortInv`
says that the registers among the tokens have a number or are of the kind without an
alias, that the directive being read, at whose value a `.float` or a `.zero` may throw,
is written in the file, and that every unit has a
name that is `Nameable`: its operation is one `generateMachineCode` packs, or a fence
or an fclass that stands in the file. `SyntaxOfPacked` follows the tables: whatever has a syntax
without being packed is a pseudo-instruction, which the parser never emits under its
own name. `LineMapAlwaysExact` needs `LineInv`: the lines of the tokens do not
decrease, nor do those of the instructions, and the parser stands behind the last
instruction. The first is the assumption `ParserAssumption` makes of `Sources`,
because the lexer counts the lines upwards; the map itself is then the least
instruction at a line or behind it (`Least`).

`LayoutsAlwaysAgree`: the places `LoadProgram` computes are the only solution of its
recursion (`SamePlaces`, by the least entry where two would differ), and the solution
for a longer buffer is the old one and one place more (`OneMore`, `ManyBytes`). With
that the layout can be carried along while the parser reads the data:

    LayoutInv == Laid /\ Untouched /\ Level /\ LayoutsAgree

`Laid`: the buffer has places and an end; `Level`: the parser's `data_index` is that
end and every label stands (`Settled`), or the parser is between a label and the
directive behind it (`AtDirective`) or between that directive and its first value
(`AtFirstValue`), where the end comes to the label by one alignment. A directive
without a value leaves the third state without the value, so `LayoutsAgree` excludes
the files with one behind a label (`EmptyDirective`).

`AddressesAlwaysAddUp` finds the label of an auipc in the file, by the line of the
instruction, and needs three facts more:

    AddressInv == OneEnd /\ BackOps /\ Paired

`OneEnd`: only the last token ends the file, so that a statement is the last on its
line (`LabelIsOperand`); `BackOps`: the third pass changes branches and jumps only;
`Paired`: an auipc of a statement with a label is followed by the instruction that
completes the address, which is not one of these. The arithmetic is `PartsAddUp`.

`NoStatementIsLost` follows the cursor through both passes:

    AnswerInv == OneEnd /\ OpcodesApart /\ DataAnswered /\ Outside /\ TextAnswered

what a pass has behind it in its own sections has an instruction or an error on its
line. The loops that skip the other sections skip nothing of their own: in the first
pass because it is never behind an open `.data` when it begins to skip (`Outside`), in
the second because every `.data` and `.bss` before the cursor is closed. No opcode has
the name of a directive or of a section (`OpcodesApart`), by which the data section
goes without looking at the type.

*Model-checked only.* Everything under fairness (`Returns`, `WorkerReturns`,
`TimersEnd`, `UpdatesEnd`, `Terminates`) is out of the prover's reach. Every other
property of the passing runs is stated by a theorem.

## Not modelled

- Double precision, CSR instructions and fused multiply-add in the *pipelined*
  machine. (In the single-cycle machine the first two are modelled, and the third has
  no effect: neither `isFInstruction` nor `isDInstruction` knows it, so it takes the
  integer path, writes no register and leaves fcsr alone.)
- The arithmetic of `fpexecute` and `dfpexecute`: floating-point arithmetic of the
  host is out of TLC's reach; the modules keep operands, NaN-boxing and flags.
- Branch prediction: its tables are never filled, so it has no effect.
- A program that stores into its own text section: the text is constant here.
- The data race itself: a `Step` button pressed in the middle of the thread's
  `Step` is undefined behaviour, and the model keeps the two apart
  (`ResetsAlone` names the exception).
- A host without memory for anything but a `.zero`, and files that cannot be opened or
  written.
- Where a lexeme begins and ends, the wording of messages, the dumps, the console
  of the system calls, tabs and files, the register and memory tables.
- The breakpoints and `DebugRun`, which nothing reaches, and the empty and unused
  components listed above.

## What could follow

The classes of instructions the pipelined machine is still without.
