-------------------------- MODULE AssemblerCorrect --------------------------
(***************************************************************************)
(* What the assembler promises of a file it accepts, and of one it does    *)
(* not.                                                                    *)
(***************************************************************************)
EXTENDS Assembler

Stages == {"source", "first", "data", "values", "second", "text", "patch", "parsed",
           "refused", "assembled", "loaded", "aborted"}
Ended == stage \in {"refused", "loaded", "aborted"}

ErrorKind == {"SyntaxError", "UnexpectedToken", "LabelRedefinition", "ImmediateOutOfRange",
              "MisalignedImmediate", "InvalidLabelRef"}

SymbolData == [address : Nat, line_number : Nat, isData : BOOLEAN, datum : Nat]

CursorOK ==
  /\ tokens \in Seq(Token) /\ pos \in 1..Len(tokens)
  /\ tokens[Len(tokens)].type = "EOF"
  /\ stage \in Stages
  /\ directive \in DataDirectives \cup {"none"}
  /\ stage = "values" => directive \in DataDirectives

DataOK ==
  /\ data_index \in Nat
  /\ data_buffer \in Seq([kind : DataDirectives, size : Nat])
  /\ \A l \in DOMAIN symbol_table : symbol_table[l] \in SymbolData

TextOK ==
  /\ instruction_index \in Nat
  /\ DOMAIN intermediate_code = 0..instruction_index - 1
  /\ DOMAIN line_number_mapping = 0..instruction_index - 1
  /\ \A i \in DOMAIN intermediate_code :
       intermediate_code[i].resolved \in BOOLEAN /\ line_number_mapping[i] \in Nat
  /\ back_patch \in Seq(0..instruction_index - 1)
  /\ patched \in 0..Len(back_patch)

ErrorsOK == count \in Nat /\ all_errors \in Seq([kind : ErrorKind, line : Nat])

\* The type invariant of the parser (parser.h): the cursor is on a token, instruction_index_ is
\* the length of intermediate_code_ and of the map of lines, and back_patch_ names instructions.
TypeOK == CursorOK /\ DataOK /\ TextOK /\ ErrorsOK

\* A program that becomes machine code has no instruction left with the immediate of an
\* unresolved label: every one was resolved where it stands or by the third pass.
AcceptedIsResolved ==
  stage \in {"assembled", "loaded"} => \A i \in Instructions : intermediate_code[i].resolved

\* unit i has a label, and it leads to the instruction the label stands for
LandsOnText(i) ==
  LET u == intermediate_code[i].unit IN
  /\ IsTextLabel(u.label)
  /\ u.imm = symbol_table[u.label].address - i * 4
  /\ Within(u.imm, -Reach("O_GPR_C_GPR_C_IL"), Reach("O_GPR_C_GPR_C_IL") - 1)

HasLabel(i) == intermediate_code[i].unit.label # ""

\* In an accepted program every branch to a label reaches the instruction behind the definition
\* of the label, forwards or backwards, whatever was defined or expanded to two instructions
\* between the two.
BranchesLand ==
  stage \in {"assembled", "loaded"} =>
    \A i \in Instructions :
      HasLabel(i) /\ intermediate_code[i].unit.op \in BTypeInstructions => LandsOnText(i)

\* The text label a jump names is the label of an instruction: the syntax of jal is
\* "<gp-reg>, <text-label>" (instructions.cpp, getExpectedSyntaxes).
JumpsLandOnText ==
  stage \in {"assembled", "loaded"} =>
    \A i \in Instructions :
      HasLabel(i) /\ intermediate_code[i].unit.op \in JTypeInstructions =>
        IsTextLabel(intermediate_code[i].unit.label)

\* the label at the end of a line: a statement is the last one on its line
LabelOnLine(line) ==
  {tokens[k].value : k \in {j \in 1..Len(tokens) - 1 :
                              /\ tokens[j].line = line /\ tokens[j].type = "LABEL_REF"
                              /\ tokens[j + 1].type = "EOF" \/ tokens[j + 1].line # line}}

\* The two instructions of la, and of a load from a label, add up to the address of the datum:
\* the lower part is sign extended, and auipc starts from its own address.
AddressesAddUp ==
  stage \in {"assembled", "loaded"} =>
    \A i \in Instructions :
      LET u == intermediate_code[i].unit
          v == intermediate_code[i + 1].unit
          labels == LabelOnLine(line_number_mapping[i])
      IN
      u.op = "auipc" /\ labels # {} =>
        /\ v.rs1 = u.rd /\ Within(v.imm, -2048, 2047)
        /\ \A l \in labels :
             i * 4 + u.imm * 4096 + v.imm = DataSectionStart + symbol_table[l].address

\* a label before a directive without a value, or before something else with the name of one: the
\* label is aligned for the directive, and no datum is
EmptyDirective ==
  \E k \in 1..Len(tokens) - 1 :
    /\ tokens[k].type = "LABEL" /\ tokens[k + 1].value \in DataDirectives
    /\ tokens[k + 1].type = "DIRECTIVE" =>
         tokens[k + 2].type # ValueType(tokens[k + 1].value)

\* The address of a label is the address of the datum it stands before
LabelsMatchMemory ==
  \A l \in DOMAIN symbol_table :
    symbol_table[l].isData /\ symbol_table[l].datum <= Len(data_buffer) =>
      placed[symbol_table[l].datum] = symbol_table[l].address

\* parser.h describes the address of a SymbolData as "The address or instruction location of the
\* symbol": the datum behind a label is loaded there.
DataWhereLabelled == stage = "loaded" => LabelsMatchMemory

\* The parser and LoadProgram lay out the data independently of each other; they agree on every
\* label as long as every label stands before a directive with a value.
LayoutsAgree == stage = "loaded" /\ ~EmptyDirective => LabelsMatchMemory

\* token k is behind .data, and no name of a section is between the two
UnderData(k) ==
  \E j \in 1..k - 1 :
    /\ tokens[j].type = "DIRECTIVE" /\ tokens[j].value = "data"
    /\ \A m \in j + 1..k - 1 : tokens[m].value \notin SectionNames

\* every .data and .bss before token k is closed by something with the value text
UnderText(k) ==
  \A j \in 1..k - 1 :
    tokens[j].type = "DIRECTIVE" /\ tokens[j].value \in {"data", "bss"} =>
      \E m \in j + 1..k - 1 : tokens[m].value = "text"

\* the line of token k has an instruction or an error
Answered(k) ==
  \/ \E i \in DOMAIN line_number_mapping : line_number_mapping[i] = tokens[k].line
  \/ \E e \in 1..Len(all_errors) : all_errors[e].line = tokens[k].line

\* No statement of the text section is lost, nor one in the data section: at the end every opcode
\* there has become an instruction of its line or is on a line with an error.  (Neither pass reads
\* what stands in the bss section, or behind a .section that closes a .data.)
EveryStatementAnswered ==
  stage = "parsed" =>
    \A k \in 1..Len(tokens) :
      tokens[k].type = "OPCODE" /\ (UnderData(k) \/ UnderText(k)) => Answered(k)

\* The window loads a program if its errorCount is 0 (onAssemble), and errorCount is the number
\* of messages, not the count the assembler decides on: a refused file always has a message, and
\* machine code is generated only for a file without one.
RefusedIsReported ==
  /\ stage = "refused" => program.errorCount > 0
  /\ stage \in {"assembled", "loaded"} => all_errors = <<>> /\ program.errorCount = 0

\* Every line up to the last statement is mapped to the first instruction at it or after it;
\* that is the instruction a breakpoint on the line is put at (AddBreakpoint).
LineMapExact ==
  stage = "assembled" /\ Instructions # {} =>
    LET map == program.line_to_instruction IN
    /\ DOMAIN map = 1..line_number_mapping[instruction_index - 1]
    /\ \A l \in DOMAIN map :
         /\ line_number_mapping[map[l]] >= l
         /\ \A i \in 0..map[l] - 1 : line_number_mapping[i] < l

\* The assembler is left by an exception, which ends the program with the window, only for a
\* fence, an fclass, a number that does not fit 64 bits or a double, a .float that does not fit a
\* float, a register without an alias, or a .zero that is negative or too long for the memory that
\* the host has left.
OnlyTheseAbort ==
  stage = "aborted" =>
    \/ Overflows(source)
    \/ \E k \in 1..Len(tokens) :
         \/ tokens[k].value \in {"fence", "fence_i", "fclass_s", "fclass_d"}
         \/ tokens[k].type = "FP_REGISTER" /\ tokens[k].value \notin DOMAIN reg_alias_to_name
         \/ /\ tokens[k].value = "float" /\ currentToken.type = "FLOAT"
            /\ ~Within(currentToken.num, -FloatReach, FloatReach)
         \/ /\ tokens[k].value = "zero" /\ currentToken.type = "NUM"
            /\ ~Within(currentToken.num, 0, HostMemory - Len(data_buffer))

\* The expected syntax of fence is "fence" (instructions.cpp, getExpectedSyntaxes): a file with
\* such a statement, and nothing else that ends the program, is assembled.
FenceIsAssembled ==
  stage = "aborted" => \A k \in 1..Len(tokens) : tokens[k].value \notin {"fence", "fence_i"}

\* A label that names an instruction keeps its address: an instruction that was resolved against
\* it stays right.
TextLabelsStand ==
  [][\A l \in DOMAIN symbol_table :
       ~symbol_table[l].isData =>
         l \in DOMAIN symbol_table' /\ symbol_table'[l] = symbol_table[l]]_vars

\* a label with the name of a section, on which the first pass does not advance
SectionLabel ==
  \E k \in 1..Len(source) :
    source[k].form = "definition" /\ source[k].text \in SectionNames

\* assemble returns, or throws, for every file without a label of the name of a section.
Terminates == ~SectionLabel => <>Ended
=============================================================================
