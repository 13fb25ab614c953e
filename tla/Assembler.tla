----------------------------- MODULE Assembler -----------------------------
(***************************************************************************)
(* Assembler::assemble (assembler.cpp) and what MainWindow::onAssemble     *)
(* does with its result: the file is read and parsed, a file without       *)
(* errors becomes an AssembledProgram, and VmBase::LoadProgram             *)
(* (vm_base.cpp) puts its data into the memory.                            *)
(***************************************************************************)
EXTENDS Parser

VARIABLES
  program,    \* the AssembledProgram
  placed      \* the offset in the data section LoadProgram gives each datum

vars == <<source, tokens, pos, stage, directive, data_index, data_buffer, symbol_table,
          instruction_index, intermediate_code, line_number_mapping, back_patch,
          patched, count, all_errors, program, placed>>

NoProgram == [errorCount |-> 0, text_buffer |-> <<>>, line_to_instruction |-> <<>>]

AssemblerInit == Init /\ program = NoProgram /\ placed = <<>>

----------------------------------------------------------------------------
(* assemble *)

Instructions == DOMAIN intermediate_code

Encoded(i) == generateMachineCode(intermediate_code[i].unit)

\* the lines instruction k is the first instruction for
FirstLine(k) == IF k = 0 THEN 1 ELSE line_number_mapping[k - 1] + 1
LinesOf(k) == FirstLine(k)..line_number_mapping[k]

\* a line belongs to the instruction before it
LineToInstruction_Before ==
  [l \in UNION {LinesOf(k) : k \in DOMAIN line_number_mapping} |->
     CHOOSE k \in DOMAIN line_number_mapping :
       /\ line_number_mapping[k] <= l \/ k = 0
       /\ \A m \in DOMAIN line_number_mapping : line_number_mapping[m] <= l => m <= k]

\* line_number_instruction_number_mapping; a later instruction overwrites an earlier one
LineToInstruction ==
  [l \in UNION {LinesOf(k) : k \in DOMAIN line_number_mapping} |->
     CHOOSE k \in DOMAIN line_number_mapping :
       l \in LinesOf(k) /\ \A m \in DOMAIN line_number_mapping : l \in LinesOf(m) => m <= k]

\* the code is generated although there are errors
Assemble_Anyway ==
  /\ stage = "parsed"
  /\ stage' = "assembled"
  /\ program' = [errorCount |-> 0,
                 text_buffer |-> [i \in Instructions |-> Encoded(i)],
                 line_to_instruction |-> LineToInstruction]
  /\ UNCHANGED <<fileVars, pos, directive, dataVars, symbol_table, textVars, patched, errorVars,
                 placed>>

Assemble ==
  /\ stage = "parsed" /\ count = 0
  /\ IF \A i \in Instructions : Encoded(i) # InvalidInstructionType
     THEN /\ stage' = "assembled"
          /\ program' = [errorCount |-> 0,
                         text_buffer |-> [i \in Instructions |-> Encoded(i)],
                         line_to_instruction |-> LineToInstruction]
     ELSE Abort /\ UNCHANGED program
  /\ UNCHANGED <<fileVars, pos, directive, dataVars, symbol_table, textVars, patched, errorVars,
                 placed>>

Refuse ==
  /\ stage = "parsed" /\ count # 0
  /\ stage' = "refused"
  /\ program' = [NoProgram EXCEPT !.errorCount = Len(all_errors)]
  /\ UNCHANGED <<fileVars, pos, directive, dataVars, symbol_table, textVars, patched, errorVars,
                 placed>>

----------------------------------------------------------------------------
(* LoadProgram: it knows the data and their types, and aligns them again *)

\* where each datum begins
Placement(buffer) ==
  LET at[i \in 1..Len(buffer)] ==
        AlignTo(IF i = 1 THEN 0 ELSE at[i - 1] + buffer[i - 1].size, Alignment[buffer[i].kind])
  IN  at

LoadProgram ==
  /\ stage = "assembled"
  /\ stage' = "loaded"
  /\ placed' = Placement(data_buffer)
  /\ UNCHANGED <<fileVars, pos, directive, dataVars, symbol_table, textVars, patched, errorVars,
                 program>>

Next ==
  \/ Parse /\ UNCHANGED <<program, placed>>
  \/ Assemble \/ Refuse \/ LoadProgram

\* onAssemble calls all of this in one go, on the thread of the window
Spec == AssemblerInit /\ [][Next]_vars /\ WF_vars(Next)
=============================================================================
