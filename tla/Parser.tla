------------------------------- MODULE Parser -------------------------------
(***************************************************************************)
(* Parser (parser.cpp and parse_formats/): two passes over the tokens, the *)
(* first for the data section and the second for the text section, and a   *)
(* third over the instructions whose label was not known yet.  Every round *)
(* of a loop of the source is one step.                                    *)
(*                                                                         *)
(* The vectors are indexed from 0, as in the source; tokens is a sequence, *)
(* and pos is pos_ + 1.  A member whose name ends in _ drops it.           *)
(***************************************************************************)
EXTENDS Syntax

CONSTANTS
  Sources,           \* the files that can be assembled
  BranchReach,       \* 4096: a branch reaches -4096 .. 4095
  JumpReach,         \* 1048576
  LiReach,           \* 2^31: li takes -2^31 .. 2^31 - 1
  FloatReach,        \* the largest whole number that std::stof does not find too large
  HostMemory,        \* how many entries of data_buffer the host has the memory for
  DataSectionStart   \* the address of the data section

\* the lexer counts the lines upwards
ASSUME ParserAssumption ==
  /\ Sources \subseteq Seq(Lexeme)
  /\ \A s \in Sources : \A i, j \in 1..Len(s) : i <= j => s[i].line <= s[j].line
  /\ BranchReach \in Nat /\ JumpReach \in Nat /\ LiReach \in Nat
  /\ FloatReach \in Nat /\ HostMemory \in Nat
  /\ DataSectionStart \in Nat

VARIABLES
  source,             \* the file
  tokens, pos,
  stage,              \* where parse and assemble are
  directive,          \* the directive whose values are being read
  data_index, data_buffer,
  symbol_table,
  instruction_index, intermediate_code,
  line_number_mapping,    \* instruction_number_line_number_mapping_
  back_patch,
  patched,            \* how many entries of back_patch are done
  count, all_errors   \* of errors_

fileVars   == <<source, tokens>>
cursorVars == <<source, tokens, pos, stage, directive>>
dataVars   == <<data_index, data_buffer>>
textVars   == <<instruction_index, intermediate_code, line_number_mapping, back_patch>>
errorVars  == <<count, all_errors>>
----------------------------------------------------------------------------
(* The position *)

currentToken == tokens[pos]
peekToken(n) == IF pos + n <= Len(tokens) THEN tokens[pos + n] ELSE EndOfFile(1)

AtEnd == currentToken.type = "EOF"
At(name) == currentToken.value = name /\ currentToken.type = "DIRECTIVE"

\* the values that end parseDataDirective and parseBSSDirective, whatever their type
SectionNames == {"text", "data", "bss", "section"}

nextToken == pos' = pos + 1

\* while the token is not the last one and its value is not in names: nextToken
SkipTo(names, from) ==
  \E q \in from..Len(tokens) :
    /\ tokens[q].type = "EOF" \/ tokens[q].value \in names
    /\ \A r \in from..q - 1 : tokens[r].type # "EOF" /\ tokens[r].value \notin names
    /\ pos' = q

skipCurrentLine ==
  \E q \in pos..Len(tokens) :
    /\ tokens[q].type = "EOF" \/ tokens[q].line # currentToken.line
    /\ \A r \in pos..q - 1 : tokens[r].type # "EOF" /\ tokens[r].line = currentToken.line
    /\ pos' = q

\* the source counts every error twice: once itself, once in recordError
recordError(kind, line) ==
  /\ count' = count + 2
  /\ all_errors' = Append(all_errors, [kind |-> kind, line |-> line])

\* something throws, and nothing between here and main catches it
Abort == stage' = "aborted"

----------------------------------------------------------------------------
(* Reading the file *)

Init ==
  /\ source \in Sources
  /\ tokens = <<EndOfFile(0)>> /\ pos = 1
  /\ stage = "source"
  /\ directive = "none"
  /\ data_index = 0 /\ data_buffer = <<>>
  /\ symbol_table = <<>>
  /\ instruction_index = 0 /\ intermediate_code = <<>> /\ line_number_mapping = <<>>
  /\ back_patch = <<>> /\ patched = 0
  /\ count = 0 /\ all_errors = <<>>

ReadTokens ==
  /\ stage = "source"
  /\ IF Overflows(source)
     THEN Abort /\ UNCHANGED tokens
     ELSE stage' = "first" /\ tokens' = getTokenList(source)
  /\ UNCHANGED <<source, pos, directive, dataVars, symbol_table, textVars, patched, errorVars>>

----------------------------------------------------------------------------
(* The first pass *)

\* .section is passed over; what follows it is looked at on its own
SkipSection ==
  /\ stage \in {"first", "second"} /\ At("section")
  /\ nextToken
  /\ UNCHANGED <<fileVars, stage, directive, dataVars, symbol_table, textVars, patched, errorVars>>

EnterData ==
  /\ stage = "first" /\ At("data")
  /\ nextToken /\ stage' = "data"
  /\ UNCHANGED <<fileVars, directive, dataVars, symbol_table, textVars, patched, errorVars>>

\* parseBSSDirective reads nothing
PassBss ==
  /\ stage = "first" /\ At("bss")
  /\ SkipTo(SectionNames, pos + 1)
  /\ UNCHANGED <<fileVars, stage, directive, dataVars, symbol_table, textVars, patched, errorVars>>

BeginsText == At("text") \/ currentToken.type \in {"LABEL", "OPCODE"}

\* a section ends at every directive of a section
PassText_Section ==
  /\ stage = "first" /\ BeginsText
  /\ SkipTo(SectionNames, pos)
  /\ UNCHANGED <<fileVars, stage, directive, dataVars, symbol_table, textVars, patched, errorVars>>

\* a label of the name data, bss or section makes no progress here
PassText ==
  /\ stage = "first" /\ BeginsText
  /\ SkipTo({"data", "section", "bss"}, pos)
  /\ UNCHANGED <<fileVars, stage, directive, dataVars, symbol_table, textVars, patched, errorVars>>

UnexpectedOutside ==
  /\ stage \in {"first", "second"}
  /\ ~AtEnd /\ ~BeginsText /\ ~At("section") /\ ~At("data") /\ ~At("bss")
  /\ recordError("SyntaxError", currentToken.line)
  /\ nextToken
  /\ UNCHANGED <<fileVars, stage, directive, dataVars, symbol_table, textVars, patched>>

EndFirstPass ==
  /\ stage = "first" /\ AtEnd
  /\ stage' = "second" /\ pos' = 1
  /\ UNCHANGED <<fileVars, directive, dataVars, symbol_table, textVars, patched, errorVars>>

----------------------------------------------------------------------------
(* parseDataDirective *)

Alignment == [dword |-> 8, word |-> 4, halfword |-> 2, byte |-> 1, float |-> 4, double |-> 8,
              string |-> 1, zero |-> 1]
DataDirectives == DOMAIN Alignment

ValueType(d) == CASE d \in {"float", "double"} -> "FLOAT"
                  [] d = "string" -> "STRING"
                  [] OTHER -> "NUM"

AlignTo(index, a) == IF index % a # 0 THEN index + a - (index % a) ELSE index

Within(n, low, high) == low <= n /\ n <= high

\* one entry of data_buffer: a value of the directive's type, or a string with its zero byte
Datum(d, value) == [kind |-> d, size |-> IF d = "string" THEN value + 1 ELSE Alignment[d]]

EndData ==
  /\ stage = "data"
  /\ AtEnd \/ currentToken.value \in SectionNames
  /\ stage' = "first"
  /\ UNCHANGED <<fileVars, pos, directive, dataVars, symbol_table, textVars, patched, errorVars>>

InData == stage = "data" /\ ~AtEnd /\ currentToken.value \notin SectionNames

Define(name, address, line, isData) ==
  symbol_table' =
    [l \in DOMAIN symbol_table \cup {name} |->
       IF l # name THEN symbol_table[l]
       ELSE [address |-> address, line_number |-> line, isData |-> isData,
             datum |-> Len(data_buffer) + 1]]   \* what it stands before: not in SymbolData

\* the address of the label is taken before the alignment
DataLabel_Early ==
  /\ InData /\ currentToken.type = "LABEL"
  /\ LET d == peekToken(1).value IN
     IF d \in DataDirectives
     THEN /\ data_index' = AlignTo(data_index, Alignment[d])
          /\ UNCHANGED errorVars
     ELSE /\ recordError("SyntaxError", currentToken.line)
          /\ UNCHANGED data_index
  /\ Define(currentToken.value, data_index, currentToken.line, TRUE)
  /\ nextToken
  /\ UNCHANGED <<fileVars, stage, directive, data_buffer, textVars, patched>>

\* the label takes the alignment of the directive behind it; an older entry is lost
DataLabel ==
  /\ InData /\ currentToken.type = "LABEL"
  /\ LET d == peekToken(1).value IN
     IF d \in DataDirectives
     THEN /\ data_index' = AlignTo(data_index, Alignment[d])
          /\ UNCHANGED errorVars
     ELSE /\ recordError("SyntaxError", currentToken.line)
          /\ UNCHANGED data_index
  /\ Define(currentToken.value, data_index', currentToken.line, TRUE)
  /\ nextToken
  /\ UNCHANGED <<fileVars, stage, directive, data_buffer, textVars, patched>>

DataDirective ==
  /\ InData /\ currentToken.type # "LABEL" /\ currentToken.value \in DataDirectives
  /\ directive' = currentToken.value /\ stage' = "values"
  /\ nextToken
  /\ UNCHANGED <<fileVars, dataVars, symbol_table, textVars, patched, errorVars>>

UnknownDirective ==
  /\ InData /\ currentToken.type # "LABEL" /\ currentToken.value \notin DataDirectives
  /\ recordError("SyntaxError", currentToken.line)
  /\ nextToken
  /\ UNCHANGED <<fileVars, stage, directive, dataVars, symbol_table, textVars, patched>>

PassComma ==
  /\ stage = "values" /\ currentToken.type = "COMMA"
  /\ nextToken
  /\ UNCHANGED <<fileVars, stage, directive, dataVars, symbol_table, textVars, patched, errorVars>>

AtValue == stage = "values" /\ currentToken.type = ValueType(directive)

\* std::stof throws; the token holds six decimals, so that no float is too small for it, and
\* none too large for the std::stod of a .double
FloatOverflows == directive = "float" /\ ~Within(currentToken.num, -FloatReach, FloatReach)

\* a negative number is, as unsigned, more bytes than any host has
ZeroTooLong ==
  directive = "zero" /\ ~Within(currentToken.num, 0, HostMemory - Len(data_buffer))

\* what the buffer has got of the value is gone with the program
ThrowingValue ==
  /\ AtValue /\ (FloatOverflows \/ ZeroTooLong)
  /\ Abort
  /\ UNCHANGED <<fileVars, pos, directive, dataVars, symbol_table, textVars, patched, errorVars>>

DataValue ==
  /\ AtValue /\ directive # "zero" /\ ~FloatOverflows
  /\ LET d == Datum(directive, currentToken.num) IN
     /\ data_buffer' = Append(data_buffer, d)
     /\ data_index' = AlignTo(data_index, Alignment[directive]) + d.size
  /\ nextToken
  /\ UNCHANGED <<fileVars, stage, directive, symbol_table, textVars, patched, errorVars>>

ZeroValue ==
  /\ AtValue /\ directive = "zero" /\ ~ZeroTooLong
  /\ LET n == currentToken.num IN
     IF n > 0
     THEN /\ data_buffer' = data_buffer \o [i \in 1..n |-> Datum("byte", 0)]
          /\ data_index' = data_index + n
          /\ UNCHANGED errorVars
     ELSE recordError("SyntaxError", currentToken.line) /\ UNCHANGED dataVars
  /\ nextToken
  /\ UNCHANGED <<fileVars, stage, directive, symbol_table, textVars, patched>>

EndValues ==
  /\ stage = "values" /\ currentToken.type \notin {ValueType(directive), "COMMA"}
  /\ stage' = "data"
  /\ UNCHANGED <<fileVars, pos, directive, dataVars, symbol_table, textVars, patched, errorVars>>

----------------------------------------------------------------------------
(* The second pass *)

\* .data or .bss: whatever has the value text ends it, a string too
PassDataOrBss ==
  /\ stage = "second" /\ (At("data") \/ At("bss"))
  /\ SkipTo({"text"}, pos)
  /\ UNCHANGED <<fileVars, stage, directive, dataVars, symbol_table, textVars, patched, errorVars>>

\* the section is thought to begin with its directive
EnterText_Directive ==
  /\ stage = "second" /\ BeginsText
  /\ stage' = "text" /\ nextToken
  /\ UNCHANGED <<fileVars, directive, dataVars, symbol_table, textVars, patched, errorVars>>

EnterText ==
  /\ stage = "second" /\ BeginsText
  /\ stage' = "text" /\ pos' = IF At("text") THEN pos + 1 ELSE pos
  /\ UNCHANGED <<fileVars, directive, dataVars, symbol_table, textVars, patched, errorVars>>

EndSecondPass ==
  /\ stage = "second" /\ AtEnd
  /\ stage' = "patch"
  /\ UNCHANGED <<fileVars, pos, directive, dataVars, symbol_table, textVars, patched, errorVars>>

----------------------------------------------------------------------------
(* parseTextDirective: the tokens that are not an opcode *)

EndText ==
  /\ stage = "text" /\ (AtEnd \/ currentToken.type = "DIRECTIVE")
  /\ stage' = "second"
  /\ UNCHANGED <<fileVars, pos, directive, dataVars, symbol_table, textVars, patched, errorVars>>

\* the older definition gives way
TextLabel_Replaces ==
  /\ stage = "text" /\ currentToken.type = "LABEL"
  /\ Define(currentToken.value, instruction_index * 4, currentToken.line, FALSE)
  /\ nextToken
  /\ UNCHANGED <<fileVars, stage, directive, dataVars, textVars, patched, errorVars>>

TextLabel ==
  /\ stage = "text" /\ currentToken.type = "LABEL"
  /\ IF currentToken.value \in DOMAIN symbol_table
     THEN recordError("LabelRedefinition", currentToken.line) /\ UNCHANGED symbol_table
     ELSE /\ Define(currentToken.value, instruction_index * 4, currentToken.line, FALSE)
          /\ UNCHANGED errorVars
  /\ nextToken
  /\ UNCHANGED <<fileVars, stage, directive, dataVars, textVars, patched>>

UnexpectedInText ==
  /\ stage = "text" /\ currentToken.type \notin {"EOF", "DIRECTIVE", "LABEL", "OPCODE"}
  /\ recordError("UnexpectedToken", currentToken.line)
  /\ skipCurrentLine
  /\ UNCHANGED <<fileVars, stage, directive, dataVars, symbol_table, textVars, patched>>

----------------------------------------------------------------------------
(* parseTextDirective: a statement, which is an opcode and what follows on *)
(* its line.  A statement that fits one of its syntaxes is either appended *)
(* to intermediate_code or refused for its immediate or its label.         *)

InText == stage = "text" /\ currentToken.type = "OPCODE"
Opcode == currentToken.value

OnLine(n) == peekToken(n).type # "EOF" /\ peekToken(n).line = currentToken.line

\* the condition of every parse_O_... function
Fits(pattern) ==
  /\ \A n \in 1..Len(pattern) : OnLine(n) /\ peekToken(n).type = pattern[n]
  /\ ~OnLine(Len(pattern) + 1)

HasSyntax(s) == s \in instruction_syntax_map(Opcode)

Patterns ==
  {RegisterPattern[s] : s \in {x \in DOMAIN RegisterPattern : HasSyntax(x)}} \cup
  {ImmediatePattern[s] : s \in {x \in DOMAIN ImmediatePattern : HasSyntax(x)}} \cup
  {LabelPattern[s] : s \in {x \in DOMAIN LabelPattern : HasSyntax(x)}} \cup
  (IF HasSyntax("O_GPR_C_CSR_C_GPR") THEN {CsrPattern} ELSE {}) \cup
  (IF HasSyntax("O_GPR_C_DL") \/ Opcode = "la" THEN {DataLabelPattern} ELSE {}) \cup
  (IF Opcode \in DOMAIN PseudoPattern THEN {PseudoPattern[Opcode]} ELSE {})

\* reg_alias_to_name.at throws for a register without an alias
AliasesKnown(pattern) ==
  \A n \in 1..Len(pattern) :
    pattern[n] \in {G, F} => peekToken(n).value \in DOMAIN reg_alias_to_name

Accepts(pattern) == InText /\ Fits(pattern) /\ AliasesKnown(pattern)

Register(n) == reg_alias_to_name[peekToken(n).value]

\* a new ICUnit; the machine code does not read a field the statement leaves at 0
Statement ==
  [op |-> Opcode, rd |-> 0, rs1 |-> 0, rs2 |-> 0, rs3 |-> 0, imm |-> 0, csr |-> 0, rm |-> 7,
   label |-> ""]

\* instruction_index_ advances by one
Emit_One(units, resolved) ==
  LET new == instruction_index..(instruction_index + Len(units) - 1) IN
  /\ intermediate_code' =
       [i \in DOMAIN intermediate_code \cup new |->
          IF i \in new THEN [unit |-> units[i - instruction_index + 1], resolved |-> resolved]
          ELSE intermediate_code[i]]
  /\ line_number_mapping' =
       [i \in DOMAIN line_number_mapping \cup new |->
          IF i \in new THEN currentToken.line ELSE line_number_mapping[i]]
  /\ instruction_index' = instruction_index + 1

\* push the units and advance instruction_index_ over them
Emit(units, resolved) ==
  LET new == instruction_index..(instruction_index + Len(units) - 1) IN
  /\ intermediate_code' =
       [i \in DOMAIN intermediate_code \cup new |->
          IF i \in new THEN [unit |-> units[i - instruction_index + 1], resolved |-> resolved]
          ELSE intermediate_code[i]]
  /\ line_number_mapping' =
       [i \in DOMAIN line_number_mapping \cup new |->
          IF i \in new THEN currentToken.line ELSE line_number_mapping[i]]
  /\ instruction_index' = instruction_index + Len(units)

EndStatement ==
  /\ skipCurrentLine
  /\ UNCHANGED <<fileVars, stage, directive, dataVars, symbol_table, patched>>

Assembled(units) == Emit(units, TRUE) /\ UNCHANGED <<back_patch, errorVars>> /\ EndStatement
Refused(kind) == recordError(kind, currentToken.line) /\ UNCHANGED textVars /\ EndStatement

SyntaxError ==
  /\ InText /\ \A p \in Patterns : ~Fits(p)
  /\ Refused("SyntaxError")

UnknownAlias ==
  /\ InText /\ \E p \in Patterns : Fits(p) /\ ~AliasesKnown(p)
  /\ Abort
  /\ UNCHANGED <<fileVars, pos, directive, dataVars, symbol_table, textVars, patched, errorVars>>

\* the number of the register at place n of the pattern, if there is one
RegisterAt(p, n) == IF n <= Len(p) /\ p[n] \in {G, F} THEN Register(n) ELSE 0

RegisterUnit(p) ==
  [Statement EXCEPT !.rd = RegisterAt(p, 1), !.rs1 = RegisterAt(p, 3),
     !.rs2 = RegisterAt(p, 5), !.rs3 = RegisterAt(p, 7),
     !.rm = IF p # <<>> /\ p[Len(p)] = "RM"
            THEN roundingModeEncoding[peekToken(Len(p)).value] ELSE 7]

ParseRegisters ==
  \E s \in DOMAIN RegisterPattern :
    /\ HasSyntax(s) /\ Accepts(RegisterPattern[s])
    /\ Assembled(<<RegisterUnit(RegisterPattern[s])>>)

ParseCsr ==
  /\ HasSyntax("O_GPR_C_CSR_C_GPR") /\ Accepts(CsrPattern)
  /\ Assembled(<<[Statement EXCEPT !.rd = Register(1), !.rs1 = Register(5),
                    !.csr = csr_to_address[peekToken(3).value]]>>)

\* the error of an immediate of n, or "none"
ImmediateError(n, imm) ==
  IF n \in BTypeInstructions THEN
    IF ~Within(imm, -BranchReach, BranchReach - 1) THEN "ImmediateOutOfRange"
    ELSE IF imm % 4 # 0 THEN "MisalignedImmediate" ELSE "none"
  ELSE IF n \in JTypeInstructions THEN
    IF ~Within(imm, -JumpReach, JumpReach - 1) THEN "ImmediateOutOfRange"
    ELSE IF imm % 2 # 0 THEN "MisalignedImmediate" ELSE "none"
  ELSE IF n \in I2TypeInstructions \cup CSRIInstructions THEN
    IF ~Within(imm, 0, 31) THEN "ImmediateOutOfRange" ELSE "none"
  ELSE IF n \in UTypeInstructions THEN
    IF ~Within(imm, 0, 1048575) THEN "ImmediateOutOfRange" ELSE "none"
  ELSE IF ~Within(imm, -2048, 2047) THEN "ImmediateOutOfRange" ELSE "none"

\* where the number is, and the unit it completes
ImmediatePlace(s) == IF s \in {"O_GPR_C_GPR_C_I", "O_GPR_C_CSR_C_I"} THEN 5 ELSE 3

ImmediateUnit(s) ==
  LET imm == peekToken(ImmediatePlace(s)).num IN
  CASE s = "O_GPR_C_GPR_C_I" /\ Opcode \in BTypeInstructions ->
         [Statement EXCEPT !.rs1 = Register(1), !.rs2 = Register(3), !.imm = imm]
    [] s = "O_GPR_C_GPR_C_I" /\ Opcode \notin BTypeInstructions ->
         [Statement EXCEPT !.rd = Register(1), !.rs1 = Register(3), !.imm = imm]
    [] s = "O_GPR_C_I" ->
         [Statement EXCEPT !.rd = Register(1), !.imm = imm]
    [] s = "O_GPR_C_CSR_C_I" ->
         [Statement EXCEPT !.rd = Register(1), !.csr = csr_to_address[peekToken(3).value],
            !.imm = imm]
    [] s \in {"O_GPR_C_I_LP_GPR_RP", "O_FPR_C_I_LP_GPR_RP"} ->
         IF Opcode \in STypeInstructions \cup FDExtensionSTypeInstructions
         THEN [Statement EXCEPT !.rs2 = Register(1), !.rs1 = Register(5), !.imm = imm]
         ELSE [Statement EXCEPT !.rd = Register(1), !.rs1 = Register(5), !.imm = imm]

ParseImmediate ==
  \E s \in DOMAIN ImmediatePattern :
    /\ HasSyntax(s) /\ Accepts(ImmediatePattern[s])
    /\ LET e == ImmediateError(Opcode, peekToken(ImmediatePlace(s)).num) IN
       IF e = "none" THEN Assembled(<<ImmediateUnit(s)>>) ELSE Refused(e)

\* a branch or jal to a label
LabelUnit(s, label) ==
  IF s = "O_GPR_C_IL" THEN [Statement EXCEPT !.rd = Register(1), !.label = label]
  ELSE [Statement EXCEPT !.rs1 = Register(1), !.rs2 = Register(3), !.label = label]

Reach(s) == IF s = "O_GPR_C_IL" THEN JumpReach ELSE BranchReach

IsTextLabel(l) == l \in DOMAIN symbol_table /\ ~symbol_table[l].isData

\* a label that is not known yet, or names a datum, is left to the third pass
ParseLabel ==
  \E s \in DOMAIN LabelPattern :
    /\ HasSyntax(s) /\ Accepts(LabelPattern[s])
    /\ LET label == peekToken(Len(LabelPattern[s])).value
           unit  == LabelUnit(s, label)
       IN
       IF IsTextLabel(label)
       THEN LET offset == symbol_table[label].address - instruction_index * 4 IN
            IF Within(offset, -Reach(s), Reach(s) - 1)
            THEN Assembled(<<[unit EXCEPT !.imm = offset]>>)
            ELSE Refused("ImmediateOutOfRange")
       ELSE /\ back_patch' = Append(back_patch, instruction_index)
            /\ Emit(<<unit>>, FALSE)
            /\ UNCHANGED errorVars
            /\ EndStatement

IsDataLabel(l) == l \in DOMAIN symbol_table /\ symbol_table[l].isData

\* the sign of the lower part is forgotten
UpperPart_Truncated(n) == n \div 4096
UpperPart(n) == (n + 2048) \div 4096
LowerPart(n) == n - 4096 * UpperPart(n)

\* la, or a load, of a datum: auipc, and addi or the load
ParseDataLabel ==
  /\ HasSyntax("O_GPR_C_DL") \/ Opcode = "la"
  /\ Accepts(DataLabelPattern)
  /\ LET label  == peekToken(3).value
         offset == DataSectionStart + symbol_table[label].address - instruction_index * 4
         second == IF Opcode = "la" THEN "addi" ELSE Opcode
     IN
     IF IsDataLabel(label)
     THEN Assembled(<<[Statement EXCEPT !.op = "auipc", !.rd = Register(1),
                         !.imm = UpperPart(offset)],
                      [Statement EXCEPT !.op = second, !.rd = Register(1), !.rs1 = Register(1),
                         !.imm = LowerPart(offset)]>>)
     ELSE Refused("InvalidLabelRef")

ParseLi ==
  /\ InText /\ Opcode = "li" /\ Accepts(PseudoPattern.li)
  /\ LET imm  == peekToken(3).num
         addi == [Statement EXCEPT !.op = "addi", !.rd = Register(1)]
         lui  == [Statement EXCEPT !.op = "lui", !.rd = Register(1), !.imm = UpperPart(imm)]
     IN
     IF Within(imm, -2048, 2047) THEN Assembled(<<[addi EXCEPT !.imm = imm]>>)
     ELSE IF ~Within(imm, -LiReach, LiReach - 1) THEN Refused("ImmediateOutOfRange")
     ELSE IF LowerPart(imm) = 0 THEN Assembled(<<lui>>)
     ELSE Assembled(<<lui, [addi EXCEPT !.rs1 = Register(1), !.imm = LowerPart(imm)]>>)

\* mv keeps its own name
PseudoUnit_Mv ==
  CASE Opcode = "nop" -> [Statement EXCEPT !.op = "addi"]
    [] Opcode = "ret" -> [Statement EXCEPT !.op = "jalr", !.rs1 = 1]
    [] Opcode = "mv"  -> [Statement EXCEPT !.rd = Register(1), !.rs1 = Register(3)]
    [] Opcode = "not" -> [Statement EXCEPT !.op = "xori", !.rd = Register(1),
                                           !.rs1 = Register(3), !.imm = -1]

PseudoUnit ==
  CASE Opcode = "nop" -> [Statement EXCEPT !.op = "addi"]
    [] Opcode = "ret" -> [Statement EXCEPT !.op = "jalr", !.rs1 = 1]
    [] Opcode = "mv"  -> [Statement EXCEPT !.op = "add", !.rd = Register(1), !.rs1 = Register(3)]
    [] Opcode = "not" -> [Statement EXCEPT !.op = "xori", !.rd = Register(1),
                                           !.rs1 = Register(3), !.imm = -1]

ParsePseudo ==
  /\ InText /\ Opcode \in {"nop", "ret", "mv", "not"} /\ Accepts(PseudoPattern[Opcode])
  /\ Assembled(<<PseudoUnit>>)

----------------------------------------------------------------------------
(* The instructions of back_patch, one per step *)

\* the label of a branch may name a datum
PatchError_AnyLabel(u, i) ==
  LET offset == symbol_table[u.label].address - i * 4 IN
  IF u.label \notin DOMAIN symbol_table THEN "InvalidLabelRef"
  ELSE IF u.op \in BTypeInstructions /\ ~Within(offset, -BranchReach, BranchReach - 1)
  THEN "ImmediateOutOfRange"
  ELSE IF u.op \in JTypeInstructions /\ ~Within(offset, -JumpReach, JumpReach - 1)
  THEN "ImmediateOutOfRange"
  ELSE "none"

\* the error of unit u, which is instruction i, or "none"
PatchError(u, i) ==
  LET offset == symbol_table[u.label].address - i * 4 IN
  IF u.label \notin DOMAIN symbol_table THEN "InvalidLabelRef"
  ELSE IF u.op \in BTypeInstructions /\ symbol_table[u.label].isData THEN "InvalidLabelRef"
  ELSE IF u.op \in BTypeInstructions /\ ~Within(offset, -BranchReach, BranchReach - 1)
  THEN "ImmediateOutOfRange"
  ELSE IF u.op \in JTypeInstructions /\ ~Within(offset, -JumpReach, JumpReach - 1)
  THEN "ImmediateOutOfRange"
  ELSE "none"

\* a branch to a datum is refused, and marked as resolved all the same
StoredAnyway(u) ==
  /\ u.op \in BTypeInstructions /\ u.label \in DOMAIN symbol_table
  /\ symbol_table[u.label].isData

Patch ==
  /\ stage = "patch" /\ patched < Len(back_patch)
  /\ patched' = patched + 1
  /\ LET i == back_patch[patched + 1]
         u == intermediate_code[i].unit
         e == PatchError(u, i)
         offset == symbol_table[u.label].address - i * 4
     IN
     /\ IF e = "none" THEN UNCHANGED errorVars ELSE recordError(e, line_number_mapping[i])
     /\ intermediate_code' =
          [intermediate_code EXCEPT ![i] =
             IF e = "none" THEN [unit |-> [u EXCEPT !.imm = offset], resolved |-> TRUE]
             ELSE [unit |-> u, resolved |-> StoredAnyway(u)]]
  /\ UNCHANGED <<cursorVars, dataVars, symbol_table, instruction_index, line_number_mapping, back_patch>>

\* the last entry is left out
EndPatch_Last ==
  /\ stage = "patch" /\ patched + 1 >= Len(back_patch)
  /\ stage' = "parsed"
  /\ UNCHANGED <<fileVars, pos, directive, dataVars, symbol_table, textVars, patched, errorVars>>

EndPatch ==
  /\ stage = "patch" /\ patched = Len(back_patch)
  /\ stage' = "parsed"
  /\ UNCHANGED <<fileVars, pos, directive, dataVars, symbol_table, textVars, patched, errorVars>>

----------------------------------------------------------------------------
FirstPass  == PassBss \/ PassText \/ EnterData \/ EndFirstPass
ReadData   == EndData \/ DataLabel \/ DataDirective \/ UnknownDirective
ReadValues == PassComma \/ DataValue \/ ZeroValue \/ ThrowingValue \/ EndValues
SecondPass == PassDataOrBss \/ EnterText \/ EndSecondPass
ReadText   == EndText \/ TextLabel \/ UnexpectedInText
ParseStatement ==
  \/ ParseRegisters \/ ParseCsr \/ ParseImmediate \/ ParseLabel \/ ParseDataLabel
  \/ ParseLi \/ ParsePseudo \/ SyntaxError \/ UnknownAlias

Parse ==
  \/ ReadTokens \/ SkipSection \/ UnexpectedOutside \/ FirstPass \/ ReadData \/ ReadValues
  \/ SecondPass \/ ReadText \/ ParseStatement \/ Patch \/ EndPatch
=============================================================================
