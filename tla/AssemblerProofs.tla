-------------------------- MODULE AssemblerProofs --------------------------
(***************************************************************************)
(* For every set of files, and any reach of branches and jumps: what the   *)
(* assembler accepts is resolved, its branches land and its addresses add  *)
(* up; the parser and LoadProgram lay the data out alike; every line leads *)
(* to its instruction; what is refused is reported; no statement is lost;  *)
(* and only the files OnlyTheseAbort names throw.                          *)
(***************************************************************************)
EXTENDS AssemblerCorrect, FiniteSetTheorems, TLAPS

(* The tokens *)

\* The lexer gives every lexeme a type, and STRING only to a string.
LEMMA LexemeTypes ==
  ASSUME NEW x \in Lexeme, NEW afterComma \in BOOLEAN
  PROVE  /\ LexemeType(x, afterComma) \in TokenType
         /\ LexemeType(x, afterComma) = "STRING" => x.num \in Nat
<1> DEFINE f == x.form
           name == NameType(x.text, afterComma)
<1>1. NameType(x.text, afterComma) \in TokenType \ {"STRING"}
  BY DEF NameType, TokenType
<1>2. x.form \in Form /\ (x.form = "string" => x.num \in Nat)
  BY DEF Lexeme
<1>3. f \in Form /\ (f = "string" => x.num \in Nat)
  BY <1>2
<1>4. name \in TokenType \ {"STRING"}
  BY <1>1
<1>5. LexemeType(x, afterComma) =
        CASE f = "word" -> name [] f = "definition" -> "LABEL" [] f = "number" -> "NUM"
          [] f = "float" -> "FLOAT" [] f = "string" -> "STRING" [] f = "directive" -> "DIRECTIVE"
          [] f = "comma" -> "COMMA" [] f = "lparen" -> "LPAREN" [] f = "rparen" -> "RPAREN"
          [] f \in {"dotted", "huge", "other"} -> "INVALID"
  BY DEF LexemeType
<1> HIDE DEF f, name
<1>6. CASE f = "word"
  BY <1>4, <1>5, <1>6
<1>7. CASE f = "string"
  BY <1>3, <1>5, <1>7 DEF TokenType
<1>8. CASE f \in Form \ {"word", "string"}
  BY <1>5, <1>8, SMT DEF TokenType, Form
<1> QED
  BY <1>3, <1>6, <1>7, <1>8

LEMMA TokenOfLexeme ==
  ASSUME NEW x \in Lexeme, NEW afterComma \in BOOLEAN
  PROVE  getNextToken(x, afterComma) \in Token
<1>1. x.text \in STRING /\ x.num \in Int /\ x.line \in Nat
  BY DEF Lexeme
<1> QED
  BY <1>1, LexemeTypes DEF getNextToken, Token

LEMMA EndOfFileIsToken ==
  ASSUME NEW line \in Nat
  PROVE  EndOfFile(line) \in Token
<1>1. EndOfFile(line) \in [type : TokenType, value : STRING \cup {""}, num : Int, line : Nat]
  BY DEF EndOfFile, TokenType
<1>2. EndOfFile(line).type # "STRING"
  BY DEF EndOfFile
<1> QED
  BY <1>1, <1>2 DEF Token

\* A file becomes its tokens and the one that ends it.
LEMMA TokenList ==
  ASSUME NEW s \in Seq(Lexeme)
  PROVE  /\ getTokenList(s) \in Seq(Token)
         /\ Len(getTokenList(s)) = Len(s) + 1
         /\ getTokenList(s)[Len(s) + 1].type = "EOF"
<1> DEFINE n == Len(s)
<1> DEFINE last == EndOfFile(IF s = <<>> THEN 0 ELSE s[Len(s)].line)
<1>1. n \in Nat
  OBVIOUS
<1>2. last \in Token /\ last.type = "EOF"
  <2>1. (IF s = <<>> THEN 0 ELSE s[Len(s)].line) \in Nat
    <3>1. CASE s = <<>>
      BY <3>1
    <3>2. CASE s # <<>>
      <4>1. s[Len(s)] \in Lexeme
        BY <3>2
      <4> QED
        BY <3>2, <4>1 DEF Lexeme
    <3> QED
      BY <3>1, <3>2
  <2> QED
    BY <2>1, EndOfFileIsToken DEF EndOfFile
<1> DEFINE after(i) == i > 1 /\ s[i - 1].form = "comma"
           entry(i) == getNextToken(s[i], after(i))
<1>3. ASSUME NEW i \in 1..n
      PROVE  entry(i) \in Token
  <2>1. s[i] \in Lexeme
    OBVIOUS
  <2>2. after(i) \in BOOLEAN
    OBVIOUS
  <2> HIDE DEF after
  <2> QED
    BY <2>1, <2>2, TokenOfLexeme
<1>4. getTokenList(s) = [i \in 1..n + 1 |-> IF i <= n THEN entry(i) ELSE last]
  BY DEF getTokenList
<1> HIDE DEF last, entry
<1>5. \A i \in 1..n + 1 : (IF i <= n THEN entry(i) ELSE last) \in Token
  BY <1>1, <1>2, <1>3
<1>6. getTokenList(s) \in [1..n + 1 -> Token]
  BY <1>4, <1>5
<1>7. getTokenList(s) \in Seq(Token) /\ Len(getTokenList(s)) = n + 1
  BY <1>1, <1>6
<1>8. getTokenList(s)[n + 1] = last
  BY <1>1, <1>4
<1> QED
  BY <1>2, <1>7, <1>8
----------------------------------------------------------------------------
(* The cursor *)

LEMMA CurrentIsToken ==
  ASSUME CursorOK
  PROVE  /\ currentToken \in Token
         /\ currentToken.type \in TokenType
         /\ currentToken.num \in Int /\ currentToken.line \in Nat
         /\ currentToken.type = "STRING" => currentToken.num \in Nat
<1>1. currentToken \in Token
  BY DEF CursorOK, currentToken
<1> QED
  BY <1>1 DEF Token

\* The cursor never moves past the token that ends the file.
LEMMA NextIsToken ==
  ASSUME CursorOK, currentToken.type # "EOF"
  PROVE  pos + 1 \in 1..Len(tokens)
BY DEF CursorOK, currentToken

LEMMA SkipLineOnTokens ==
  ASSUME CursorOK, skipCurrentLine
  PROVE  pos' \in 1..Len(tokens)
BY DEF CursorOK, skipCurrentLine

LEMMA SkipOnTokens ==
  ASSUME CursorOK, NEW names, NEW from \in Nat \ {0}, SkipTo(names, from)
  PROVE  pos' \in 1..Len(tokens)
<1>1. PICK q \in from..Len(tokens) : pos' = q
  BY DEF SkipTo
<1>2. Len(tokens) \in Nat
  BY DEF CursorOK
<1> QED
  BY <1>1, <1>2

----------------------------------------------------------------------------
(* A statement *)

\* If u is a branch to a label and becomes the next instruction, it leads to the label.
Lands(u) ==
  u.label # "" /\ u.op \in BTypeInstructions =>
    /\ IsTextLabel(u.label)
    /\ u.imm = symbol_table[u.label].address - instruction_index * 4
    /\ Within(u.imm, -BranchReach, BranchReach - 1)

\* The ways in which a statement ends.
StatementEnds ==
  \/ \E u : Lands(u) /\ Assembled(<<u>>)
  \/ \E u, v : u.label = "" /\ v.label = "" /\ Assembled(<<u, v>>)
  \/ \E u : /\ "imm" \in DOMAIN u /\ Emit(<<u>>, FALSE)
            /\ back_patch' = Append(back_patch, instruction_index)
            /\ UNCHANGED errorVars /\ EndStatement
  \/ \E kind \in ErrorKind : Refused(kind)
  \/ Abort /\ UNCHANGED <<fileVars, pos, directive, dataVars, symbol_table, textVars, patched,
                          errorVars>>

\* A branch takes the syntax of branches.
LEMMA SyntaxOfBranches ==
  ASSUME NEW n \in BTypeInstructions
  PROVE  instruction_syntax_map(n) = {"O_GPR_C_GPR_C_I", "O_GPR_C_GPR_C_IL"}
BY DEF instruction_syntax_map

LEMMA NothingLabelled ==
  /\ Statement.label = ""
  /\ \A p : RegisterUnit(p).label = ""
  /\ \A s \in DOMAIN ImmediatePattern : ImmediateUnit(s).label = ""
  /\ Opcode \in {"nop", "ret", "mv", "not"} => PseudoUnit.label = ""
<1>1. Statement.label = ""
  BY DEF Statement
<1>2. ASSUME NEW p
      PROVE  RegisterUnit(p).label = ""
  BY DEF RegisterUnit, Statement
<1>3. ASSUME NEW s \in DOMAIN ImmediatePattern
      PROVE  ImmediateUnit(s).label = ""
  BY DEF ImmediateUnit, Statement, ImmediatePattern
<1>4. ASSUME Opcode \in {"nop", "ret", "mv", "not"}
      PROVE  PseudoUnit.label = ""
  BY <1>4 DEF PseudoUnit, Statement
<1> QED
  BY <1>1, <1>2, <1>3, <1>4

LEMMA ErrorsOfImmediates ==
  ASSUME NEW n, NEW imm
  PROVE  ImmediateError(n, imm) \in ErrorKind \cup {"none"}
BY DEF ImmediateError, ErrorKind

LEMMA StatementInText == ParseStatement => stage = "text"
BY DEF ParseStatement, ParseRegisters, ParseCsr, ParseImmediate, ParseLabel, ParseDataLabel,
   ParseLi, ParsePseudo, SyntaxError, UnknownAlias, Accepts, InText

\* ParseStatement is one of these.
LEMMA StatementStep ==
  ASSUME ParseStatement
  PROVE  StatementEnds
<1>1. CASE ParseRegisters
  <2>1. PICK p : Assembled(<<RegisterUnit(p)>>)
    BY <1>1 DEF ParseRegisters
  <2>2. Lands(RegisterUnit(p))
    BY NothingLabelled DEF Lands
  <2> QED
    BY <2>1, <2>2 DEF StatementEnds
<1>2. CASE ParseCsr
  <2>1. PICK rd, rs1, csr :
          Assembled(<<[Statement EXCEPT !.rd = rd, !.rs1 = rs1, !.csr = csr]>>)
    BY <1>2 DEF ParseCsr
  <2>2. Lands([Statement EXCEPT !.rd = rd, !.rs1 = rs1, !.csr = csr])
    BY DEF Lands, Statement
  <2> QED
    BY <2>1, <2>2 DEF StatementEnds
<1>3. CASE ParseImmediate
  <2>1. PICK s \in DOMAIN ImmediatePattern :
          LET e == ImmediateError(Opcode, peekToken(ImmediatePlace(s)).num) IN
          IF e = "none" THEN Assembled(<<ImmediateUnit(s)>>) ELSE Refused(e)
    BY <1>3 DEF ParseImmediate
  <2>2. Lands(ImmediateUnit(s))
    BY NothingLabelled DEF Lands
  <2>3. CASE Assembled(<<ImmediateUnit(s)>>)
    BY <2>2, <2>3 DEF StatementEnds
  <2>4. ASSUME NEW e \in ErrorKind, Refused(e)
        PROVE  StatementEnds
    BY <2>4 DEF StatementEnds
  <2> QED
    BY <2>1, <2>3, <2>4, ErrorsOfImmediates
<1>4. CASE ParseLabel
  <2>1. PICK s \in DOMAIN LabelPattern :
          /\ HasSyntax(s)
          /\ LET label == peekToken(Len(LabelPattern[s])).value
                 unit  == LabelUnit(s, label)
             IN
             IF IsTextLabel(label)
             THEN LET offset == symbol_table[label].address - instruction_index * 4 IN
                  IF Within(offset, -Reach(s), Reach(s) - 1)
                  THEN Assembled(<<[unit EXCEPT !.imm = offset]>>)
                  ELSE Refused("ImmediateOutOfRange")
             ELSE /\ back_patch' = Append(back_patch, instruction_index)
                  /\ Emit(<<unit>>, FALSE)
                  /\ UNCHANGED errorVars
                  /\ EndStatement
    BY <1>4 DEF ParseLabel
  <2> DEFINE label == peekToken(Len(LabelPattern[s])).value
             unit == LabelUnit(s, label)
             offset == symbol_table[label].address - instruction_index * 4
             done == [unit EXCEPT !.imm = offset]
  <2>2. CASE ~IsTextLabel(label)
    <3>1. "imm" \in DOMAIN unit
      BY DEF LabelUnit, Statement
    <3> HIDE DEF unit
    <3>2. /\ back_patch' = Append(back_patch, instruction_index)
          /\ Emit(<<unit>>, FALSE) /\ UNCHANGED errorVars /\ EndStatement
      BY <2>1, <2>2 DEF unit
    <3> QED
      BY <3>1, <3>2 DEF StatementEnds
  <2>3. CASE IsTextLabel(label) /\ ~Within(offset, -Reach(s), Reach(s) - 1)
    <3>1. Refused("ImmediateOutOfRange")
      BY <2>1, <2>3
    <3> QED
      BY <3>1 DEF StatementEnds, ErrorKind
  <2>4. CASE IsTextLabel(label) /\ Within(offset, -Reach(s), Reach(s) - 1)
    <3>1. Assembled(<<done>>)
      BY <2>1, <2>4
    <3>2. done.op = Opcode /\ done.label = label /\ done.imm = offset
      BY DEF LabelUnit, Statement
    <3>3. Opcode \in BTypeInstructions => Reach(s) = BranchReach
      BY <2>1, SyntaxOfBranches DEF HasSyntax, Reach, LabelPattern
    <3> HIDE DEF done, label, offset
    <3>4. Lands(done)
      BY <2>4, <3>2, <3>3 DEF Lands, label, offset
    <3> QED
      BY <3>1, <3>4 DEF StatementEnds
  <2> QED
    BY <2>2, <2>3, <2>4
<1>5. CASE ParseDataLabel
  <2>1. PICK op, imm, low :
          \/ Refused("InvalidLabelRef")
          \/ Assembled(<<[Statement EXCEPT !.op = "auipc", !.rd = Register(1), !.imm = imm],
                         [Statement EXCEPT !.op = op, !.rd = Register(1), !.rs1 = Register(1),
                            !.imm = low]>>)
    BY <1>5 DEF ParseDataLabel
  <2> DEFINE u == [Statement EXCEPT !.op = "auipc", !.rd = Register(1), !.imm = imm]
             v == [Statement EXCEPT !.op = op, !.rd = Register(1), !.rs1 = Register(1),
                     !.imm = low]
  <2>2. u.label = "" /\ v.label = ""
    BY DEF Statement
  <2>3. CASE Refused("InvalidLabelRef")
    BY <2>3 DEF StatementEnds, ErrorKind
  <2>4. CASE Assembled(<<u, v>>)
    <3> HIDE DEF u, v
    <3> QED
      BY <2>2, <2>4 DEF StatementEnds
  <2> QED
    BY <2>1, <2>3, <2>4
<1>6. CASE ParseLi
  <2> DEFINE imm == peekToken(3).num
             addi == [Statement EXCEPT !.op = "addi", !.rd = Register(1)]
             lui  == [Statement EXCEPT !.op = "lui", !.rd = Register(1), !.imm = UpperPart(imm)]
             short == [addi EXCEPT !.imm = imm]
             rest == [addi EXCEPT !.rs1 = Register(1), !.imm = LowerPart(imm)]
  <2>1. \/ Assembled(<<short>>) \/ Refused("ImmediateOutOfRange") \/ Assembled(<<lui>>)
        \/ Assembled(<<lui, rest>>)
    BY <1>6 DEF ParseLi
  <2>2. short.label = "" /\ lui.label = "" /\ rest.label = ""
    BY DEF Statement
  <2> HIDE DEF short, lui, rest
  <2>3. Lands(short) /\ Lands(lui)
    BY <2>2 DEF Lands
  <2>4. CASE Refused("ImmediateOutOfRange")
    BY <2>4 DEF StatementEnds, ErrorKind
  <2> QED
    BY <2>1, <2>2, <2>3, <2>4 DEF StatementEnds
<1>7. CASE ParsePseudo
  <2>1. Assembled(<<PseudoUnit>>) /\ PseudoUnit.label = ""
    BY <1>7, NothingLabelled DEF ParsePseudo
  <2>2. Lands(PseudoUnit)
    BY <2>1 DEF Lands
  <2> QED
    BY <2>1, <2>2 DEF StatementEnds
<1>8. CASE SyntaxError
  BY <1>8 DEF SyntaxError, StatementEnds, ErrorKind
<1>9. CASE UnknownAlias
  BY <1>9 DEF UnknownAlias, StatementEnds
<1> QED
  BY <1>1, <1>2, <1>3, <1>4, <1>5, <1>6, <1>7, <1>8, <1>9 DEF ParseStatement

----------------------------------------------------------------------------
(* intermediate_code_ *)

\* The instructions after an Emit of a sequence of n units.
LEMMA Emission ==
  ASSUME TextOK, CursorOK, NEW units, NEW n \in Nat, Len(units) = n, NEW resolved \in BOOLEAN,
         Emit(units, resolved)
  PROVE  /\ instruction_index' = instruction_index + n
         /\ DOMAIN intermediate_code' = 0..instruction_index + n - 1
         /\ DOMAIN line_number_mapping' = 0..instruction_index + n - 1
         /\ \A i \in DOMAIN intermediate_code :
              /\ intermediate_code'[i] = intermediate_code[i]
              /\ line_number_mapping'[i] = line_number_mapping[i]
         /\ \A i \in instruction_index..instruction_index + n - 1 :
              /\ intermediate_code'[i] =
                   [unit |-> units[i - instruction_index + 1], resolved |-> resolved]
              /\ line_number_mapping'[i] = currentToken.line
<1> DEFINE new == instruction_index..instruction_index + n - 1
           all == DOMAIN intermediate_code \cup new
<1>1. all = 0..instruction_index + n - 1
  BY DEF TextOK
<1>2. /\ instruction_index' = instruction_index + n
      /\ intermediate_code' =
           [i \in all |->
              IF i \in new
              THEN [unit |-> units[i - instruction_index + 1], resolved |-> resolved]
              ELSE intermediate_code[i]]
      /\ line_number_mapping' =
           [i \in all |-> IF i \in new THEN currentToken.line ELSE line_number_mapping[i]]
  BY DEF Emit, TextOK
<1>3. \A i \in DOMAIN intermediate_code : i \in all /\ i \notin new
  BY DEF TextOK
<1>4. new \subseteq all
  OBVIOUS
<1> HIDE DEF new, all
<1>5. \A i \in DOMAIN intermediate_code :
        /\ intermediate_code'[i] = intermediate_code[i]
        /\ line_number_mapping'[i] = line_number_mapping[i]
  BY <1>2, <1>3
<1>6. \A i \in new :
        /\ intermediate_code'[i] =
             [unit |-> units[i - instruction_index + 1], resolved |-> resolved]
        /\ line_number_mapping'[i] = currentToken.line
  BY <1>2, <1>4
<1> QED
  BY <1>1, <1>2, <1>5, <1>6 DEF new

\* A sequence of indices stays one when there are more indices.
LEMMA LongerSeq ==
  ASSUME NEW m \in Nat, NEW k \in Nat, NEW s \in Seq(0..m - 1)
  PROVE  s \in Seq(0..m + k - 1)
<1>1. s \in [1..Len(s) -> 0..m - 1]
  OBVIOUS
<1>2. 0..m - 1 \subseteq 0..m + k - 1
  OBVIOUS
<1>3. s \in [1..Len(s) -> 0..m + k - 1]
  BY <1>1, <1>2
<1> QED
  BY <1>3

LEMMA EmissionOK ==
  ASSUME TextOK, CursorOK, NEW units, NEW n \in Nat, Len(units) = n, NEW resolved \in BOOLEAN,
         Emit(units, resolved), patched' = patched,
         back_patch' \in Seq(0..instruction_index + n - 1), Len(back_patch') >= Len(back_patch)
  PROVE  TextOK'
<1>1. /\ instruction_index' = instruction_index + n /\ instruction_index \in Nat
      /\ DOMAIN intermediate_code' = 0..instruction_index + n - 1
      /\ DOMAIN line_number_mapping' = 0..instruction_index + n - 1
  BY Emission DEF TextOK
<1>2. /\ DOMAIN intermediate_code' = 0..instruction_index' - 1
      /\ DOMAIN line_number_mapping' = 0..instruction_index' - 1
  BY <1>1
<1>3. ASSUME NEW i \in DOMAIN intermediate_code'
      PROVE  intermediate_code'[i].resolved \in BOOLEAN /\ line_number_mapping'[i] \in Nat
  <2>1. CASE i \in DOMAIN intermediate_code
    <3>1. /\ intermediate_code'[i] = intermediate_code[i]
          /\ line_number_mapping'[i] = line_number_mapping[i]
      BY <2>1, Emission
    <3>2. intermediate_code[i].resolved \in BOOLEAN /\ line_number_mapping[i] \in Nat
      BY <2>1 DEF TextOK
    <3> QED
      BY <3>1, <3>2
  <2>2. CASE i \in instruction_index..instruction_index + n - 1
    <3>1. /\ intermediate_code'[i] =
               [unit |-> units[i - instruction_index + 1], resolved |-> resolved]
          /\ line_number_mapping'[i] = currentToken.line
      BY <2>2, Emission
    <3> QED
      BY <3>1, CurrentIsToken
  <2> QED
    BY <1>1, <1>2, <2>1, <2>2 DEF TextOK
<1>4. back_patch' \in Seq(0..instruction_index' - 1)
  BY <1>1
<1>5. patched' \in 0..Len(back_patch')
  BY <1>4 DEF TextOK
<1> QED
  BY <1>1, <1>2, <1>3, <1>4, <1>5 DEF TextOK

----------------------------------------------------------------------------
(* Types *)

FileOK == source \in Seq(Lexeme) /\ (stage = "source" => pos = 1)

LEMMA CursorStep ==
  ASSUME CursorOK, FileOK, Next
  PROVE  CursorOK'
<1> USE DEF Stages
<1>1. CASE ReadTokens
  <2>1. CASE tokens' = getTokenList(source) /\ stage' = "first"
    <3>1. /\ tokens' \in Seq(Token) /\ Len(tokens') \in Nat \ {0}
          /\ tokens'[Len(tokens')].type = "EOF"
      BY <2>1, TokenList DEF FileOK
    <3>2. pos' = 1 /\ directive' = directive
      BY <1>1 DEF ReadTokens, FileOK
    <3> QED
      BY <2>1, <3>1, <3>2 DEF CursorOK
  <2>2. CASE UNCHANGED tokens /\ stage' = "aborted"
    BY <1>1, <2>2 DEF ReadTokens, CursorOK
  <2> QED
    BY <1>1, <2>1, <2>2 DEF ReadTokens, Abort
<1>2. CASE SkipSection \/ EnterData \/ UnexpectedOutside \/ UnknownDirective \/ PassComma
           \/ DataLabel \/ TextLabel \/ DataDirective \/ DataValue \/ ZeroValue
  <2>1. currentToken.type # "EOF" /\ pos' = pos + 1 /\ UNCHANGED tokens
    <3>1. CASE SkipSection \/ EnterData \/ UnexpectedOutside
      BY <3>1 DEF SkipSection, EnterData, UnexpectedOutside, At, AtEnd, nextToken, fileVars
    <3>2. CASE UnknownDirective \/ DataLabel \/ DataDirective
      BY <3>2 DEF UnknownDirective, DataLabel, DataDirective, InData, AtEnd, nextToken, fileVars
    <3>3. CASE PassComma \/ TextLabel \/ DataValue \/ ZeroValue
      BY <3>3 DEF PassComma, TextLabel, DataValue, ZeroValue, AtValue, ValueType, nextToken,
         fileVars
    <3> QED
      BY <1>2, <3>1, <3>2, <3>3
  <2>2. /\ stage' \in Stages /\ directive' \in DataDirectives \cup {"none"}
        /\ stage' = "values" => directive' \in DataDirectives
    BY <1>2 DEF CursorOK, SkipSection, EnterData, UnexpectedOutside, UnknownDirective,
       DataLabel, DataDirective, PassComma, TextLabel, DataValue, ZeroValue
  <2> QED
    BY <2>1, <2>2, NextIsToken DEF CursorOK
<1>3. CASE PassBss \/ PassText \/ PassDataOrBss
  <2>1. pos \in Nat \ {0} /\ pos + 1 \in Nat \ {0}
    BY DEF CursorOK
  <2>2. pos' \in 1..Len(tokens)
    BY <1>3, <2>1, SkipOnTokens DEF PassBss, PassText, PassDataOrBss
  <2> QED
    BY <1>3, <2>2 DEF CursorOK, PassBss, PassText, PassDataOrBss, fileVars
<1>4. CASE EndFirstPass \/ EndData \/ EndValues \/ EndSecondPass \/ EndText \/ EndPatch \/ Patch
  BY <1>4 DEF CursorOK, EndFirstPass, EndData, EndValues, EndSecondPass, EndText, EndPatch, Patch,
     fileVars, cursorVars
<1>5. CASE Assemble \/ Refuse \/ LoadProgram
  BY <1>5 DEF CursorOK, Assemble, Refuse, LoadProgram, Abort, fileVars
<1>6. CASE ThrowingValue
  BY <1>6 DEF ThrowingValue, CursorOK, Abort, fileVars
<1>7. CASE EnterText
  <2>1. pos' = pos \/ (pos' = pos + 1 /\ currentToken.type # "EOF")
    BY <1>7 DEF EnterText, At
  <2> QED
    <3>1. pos' \in 1..Len(tokens)
      BY <2>1, NextIsToken DEF CursorOK
    <3> QED
      BY <1>7, <3>1 DEF EnterText, CursorOK, fileVars
<1>8. CASE UnexpectedInText
  BY <1>8, SkipLineOnTokens DEF UnexpectedInText, CursorOK, fileVars
<1>9. CASE ParseStatement
  <2>1. StatementEnds
    BY <1>9, StatementStep
  <2>2. CASE EndStatement
    <3>1. pos' \in 1..Len(tokens)
      BY <2>2, SkipLineOnTokens DEF EndStatement
    <3> QED
      BY <2>2, <3>1 DEF EndStatement, CursorOK, fileVars
  <2>3. CASE Abort /\ UNCHANGED <<fileVars, pos, directive>>
    BY <2>3 DEF Abort, CursorOK, fileVars
  <2> QED
    BY <2>1, <2>2, <2>3 DEF StatementEnds, Assembled, Refused
<1> QED
  BY <1>1, <1>2, <1>3, <1>4, <1>5, <1>6, <1>7, <1>8, <1>9
     DEF Next, Parse, FirstPass, ReadData, ReadValues, SecondPass, ReadText

\* Only these steps change the data and the symbols.
LEMMA DataFrame ==
  ASSUME Next
  PROVE  DataLabel \/ TextLabel \/ DataValue \/ ZeroValue \/ UNCHANGED <<dataVars, symbol_table>>
<1>1. CASE ParseStatement
  BY <1>1, StatementStep DEF StatementEnds, Assembled, Refused, EndStatement
<1>2. CASE \/ ReadTokens \/ SkipSection \/ UnexpectedOutside \/ FirstPass \/ EndData
           \/ DataDirective \/ UnknownDirective
  BY <1>2 DEF ReadTokens, SkipSection, UnexpectedOutside, FirstPass, PassBss, PassText, EnterData,
     EndFirstPass, EndData, DataDirective, UnknownDirective
<1>3. CASE \/ PassComma \/ ThrowingValue \/ EndValues \/ SecondPass \/ EndText \/ UnexpectedInText
  BY <1>3 DEF PassComma, ThrowingValue, EndValues, SecondPass, PassDataOrBss, EnterText, EndSecondPass, EndText,
     UnexpectedInText
<1>4. CASE Patch \/ EndPatch \/ Assemble \/ Refuse \/ LoadProgram
  BY <1>4 DEF Patch, EndPatch, Assemble, Refuse, LoadProgram
<1> QED
  BY <1>1, <1>2, <1>3, <1>4 DEF Next, Parse, ReadData, ReadValues, ReadText

\* What the parser aligns to is not zero, and what it aligns stays a natural number.
LEMMA Aligned ==
  ASSUME NEW d \in DataDirectives, NEW n \in Nat
  PROVE  AlignTo(n, Alignment[d]) \in Nat
<1>1. Alignment[d] \in {1, 2, 4, 8}
  BY DEF DataDirectives, Alignment
<1> DEFINE a == Alignment[d]
<1> HIDE DEF a
<1>2. a \in Nat \ {0}
  BY <1>1 DEF a
<1>3. n % a \in 0..a - 1
  BY <1>2
<1>4. AlignTo(n, a) \in Nat
  BY <1>2, <1>3 DEF AlignTo
<1> QED
  BY <1>4 DEF a

Datums == [kind : DataDirectives, size : Nat]

LEMMA DatumOK ==
  ASSUME NEW d \in DataDirectives, NEW value \in Int, d = "string" => value \in Nat
  PROVE  Datum(d, value) \in Datums
<1>1. Alignment[d] \in Nat
  BY DEF DataDirectives, Alignment
<1> QED
  BY <1>1 DEF Datum, Datums

LEMMA DefineOK ==
  ASSUME DataOK, NEW name, NEW address \in Nat, NEW line \in Nat, NEW isData \in BOOLEAN,
         Define(name, address, line, isData)
  PROVE  \A l \in DOMAIN symbol_table' : symbol_table'[l] \in SymbolData
<1>1. Len(data_buffer) + 1 \in Nat
  BY DEF DataOK
<1>2. [address |-> address, line_number |-> line, isData |-> isData,
       datum |-> Len(data_buffer) + 1] \in SymbolData
  BY <1>1 DEF SymbolData
<1> QED
  BY <1>2 DEF Define, DataOK

LEMMA DataStep ==
  ASSUME CursorOK, DataOK, TextOK, Next
  PROVE  DataOK'
<1> USE CurrentIsToken
<1>1. CASE DataLabel
  <2>1. data_index' \in Nat
    BY <1>1, Aligned DEF DataLabel, DataOK
  <2>2. Define(currentToken.value, data_index', currentToken.line, TRUE)
    BY <1>1 DEF DataLabel
  <2>3. \A l \in DOMAIN symbol_table' : symbol_table'[l] \in SymbolData
    BY <2>1, <2>2, DefineOK
  <2> QED
    BY <1>1, <2>1, <2>3 DEF DataLabel, DataOK
<1>2. CASE TextLabel
  <2>1. CASE UNCHANGED symbol_table
    BY <1>2, <2>1 DEF TextLabel, DataOK, dataVars
  <2>2. CASE Define(currentToken.value, instruction_index * 4, currentToken.line, FALSE)
    <3>1. instruction_index * 4 \in Nat
      BY DEF TextOK
    <3>2. \A l \in DOMAIN symbol_table' : symbol_table'[l] \in SymbolData
      BY <2>2, <3>1, DefineOK
    <3> QED
      BY <1>2, <3>2 DEF TextLabel, DataOK, dataVars
  <2> QED
    BY <1>2, <2>1, <2>2 DEF TextLabel
<1>3. CASE DataValue
  <2>1. directive \in DataDirectives
    BY <1>3 DEF DataValue, AtValue, CursorOK
  <2> DEFINE d == Datum(directive, currentToken.num)
  <2>2. d \in Datums
    <3>1. directive = "string" => currentToken.type = "STRING"
      BY <1>3 DEF DataValue, AtValue, ValueType
    <3>2. currentToken.num \in Int /\ (directive = "string" => currentToken.num \in Nat)
      BY <3>1
    <3> QED
      BY <2>1, <3>2, DatumOK
  <2> HIDE DEF d
  <2>3. data_buffer' = Append(data_buffer, d)
    BY <1>3 DEF DataValue, d
  <2>4. data_index' = AlignTo(data_index, Alignment[directive]) + d.size
    BY <1>3 DEF DataValue, d
  <2>5. data_index' \in Nat
    <3>1. AlignTo(data_index, Alignment[directive]) \in Nat
      BY <2>1, Aligned DEF DataOK
    <3>2. d.size \in Nat
      BY <2>2 DEF Datums
    <3> QED
      BY <2>4, <3>1, <3>2
  <2>6. data_buffer' \in Seq(Datums)
    BY <2>2, <2>3 DEF DataOK, Datums
  <2> QED
    BY <1>3, <2>5, <2>6 DEF DataValue, DataOK, Datums
<1>4. CASE ZeroValue
  <2>1. CASE UNCHANGED dataVars
    BY <1>4, <2>1 DEF ZeroValue, DataOK, dataVars
  <2> DEFINE n == currentToken.num
             more == [i \in 1..n |-> Datum("byte", 0)]
  <2>2. CASE n > 0 /\ data_buffer' = data_buffer \o more /\ data_index' = data_index + n
    <3>1. "byte" \in DataDirectives
      BY DEF DataDirectives, Alignment
    <3>2. Datum("byte", 0) \in Datums
      BY <3>1, DatumOK
    <3>3. n \in Nat
      BY <2>2
    <3>4. more \in Seq(Datums)
      BY <3>2, <3>3
    <3> HIDE DEF more, n
    <3>5. data_buffer' \in Seq(Datums) /\ data_index' \in Nat
      BY <2>2, <3>3, <3>4 DEF DataOK, Datums
    <3> QED
      BY <1>4, <3>5 DEF ZeroValue, DataOK, Datums
  <2> QED
    BY <1>4, <2>1, <2>2 DEF ZeroValue
<1>5. CASE UNCHANGED <<dataVars, symbol_table>>
  BY <1>5 DEF DataOK, dataVars
<1> QED
  BY <1>1, <1>2, <1>3, <1>4, <1>5, DataFrame

LEMMA RecordedOK ==
  ASSUME ErrorsOK, NEW kind \in ErrorKind, NEW line \in Nat, recordError(kind, line)
  PROVE  ErrorsOK'
<1>1. [kind |-> kind, line |-> line] \in [kind : ErrorKind, line : Nat]
  OBVIOUS
<1>2. count' \in Nat
  BY DEF ErrorsOK, recordError
<1>3. all_errors' \in Seq([kind : ErrorKind, line : Nat])
  BY <1>1 DEF ErrorsOK, recordError
<1> QED
  BY <1>2, <1>3 DEF ErrorsOK

LEMMA PatchErrors ==
  ASSUME NEW u, NEW i
  PROVE  PatchError(u, i) \in ErrorKind \cup {"none"}
BY DEF PatchError, ErrorKind

\* A step leaves the errors as they are or records one.
LEMMA ErrorFrame ==
  ASSUME CursorOK, TextOK, Next
  PROVE  \/ UNCHANGED errorVars
         \/ \E kind \in ErrorKind, line \in Nat : recordError(kind, line)
<1> USE CurrentIsToken
<1>1. CASE ParseStatement
  BY <1>1, StatementStep DEF StatementEnds, Assembled, Refused
<1>2. CASE Patch
  <2> DEFINE i == back_patch[patched + 1]
             e == PatchError(intermediate_code[i].unit, i)
  <2>1. patched + 1 \in 1..Len(back_patch)
    BY <1>2 DEF Patch, TextOK
  <2>2. i \in 0..instruction_index - 1
    BY <2>1 DEF TextOK
  <2>3. line_number_mapping[i] \in Nat
    BY <2>2 DEF TextOK
  <2>4. UNCHANGED errorVars \/ (e # "none" /\ recordError(e, line_number_mapping[i]))
    BY <1>2 DEF Patch
  <2>5. e \in ErrorKind \cup {"none"}
    BY PatchErrors
  <2> HIDE DEF e, i
  <2> QED
    BY <2>3, <2>4, <2>5
<1>3. CASE UnexpectedOutside \/ DataLabel \/ UnknownDirective \/ ZeroValue \/ TextLabel
           \/ UnexpectedInText
  <2>1. \/ UNCHANGED errorVars
        \/ \E kind \in ErrorKind : recordError(kind, currentToken.line)
    BY <1>3 DEF UnexpectedOutside, DataLabel, UnknownDirective, ZeroValue, TextLabel,
       UnexpectedInText, ErrorKind
  <2> QED
    BY <2>1
<1>4. CASE \/ ReadTokens \/ SkipSection \/ FirstPass \/ EndData \/ DataDirective \/ PassComma
           \/ DataValue \/ ThrowingValue \/ EndValues
  BY <1>4 DEF ReadTokens, SkipSection, FirstPass, PassBss, PassText, EnterData,
     EndFirstPass, EndData, DataDirective, PassComma, DataValue, ThrowingValue, EndValues
<1>5. CASE SecondPass \/ EndText \/ EndPatch \/ Assemble \/ Refuse \/ LoadProgram
  BY <1>5 DEF SecondPass, PassDataOrBss, EnterText, EndSecondPass, EndText, EndPatch, Assemble,
     Refuse, LoadProgram
<1> QED
  BY <1>1, <1>2, <1>3, <1>4, <1>5 DEF Next, Parse, ReadData, ReadValues, ReadText

LEMMA ErrorStep ==
  ASSUME CursorOK, TextOK, ErrorsOK, Next
  PROVE  ErrorsOK'
<1>1. CASE UNCHANGED errorVars
  BY <1>1 DEF ErrorsOK, errorVars
<1> QED
  BY <1>1, ErrorFrame, RecordedOK

\* Only a statement and Patch change the instructions.
LEMMA TextFrame ==
  ASSUME Next
  PROVE  ParseStatement \/ Patch \/ UNCHANGED <<textVars, patched>>
<1>1. CASE \/ ReadTokens \/ SkipSection \/ UnexpectedOutside \/ FirstPass \/ ReadData
  BY <1>1 DEF ReadTokens, SkipSection, UnexpectedOutside, FirstPass, PassBss, PassText, EnterData,
     EndFirstPass, ReadData, EndData, DataLabel, DataDirective, UnknownDirective
<1>2. CASE ReadValues \/ SecondPass \/ ReadText
  BY <1>2 DEF ReadValues, PassComma, DataValue, ZeroValue, ThrowingValue, EndValues, SecondPass, PassDataOrBss,
     EnterText, EndSecondPass, ReadText, EndText, TextLabel, UnexpectedInText
<1>3. CASE EndPatch \/ Assemble \/ Refuse \/ LoadProgram
  BY <1>3 DEF EndPatch, Assemble, Refuse, LoadProgram
<1> QED
  BY <1>1, <1>2, <1>3 DEF Next, Parse

LEMMA TextStep ==
  ASSUME CursorOK, TextOK, Next
  PROVE  TextOK'
<1>1. CASE UNCHANGED <<textVars, patched>>
  BY <1>1 DEF TextOK, textVars
<1>2. CASE ParseStatement
  <2>1. CASE \E units : \E n \in 1..2 : Len(units) = n /\ Assembled(units)
    <3>1. PICK units : \E n \in 1..2 : Len(units) = n /\ Assembled(units)
      BY <2>1
    <3>2. PICK n \in 1..2 : Len(units) = n /\ Assembled(units)
      BY <3>1
    <3>3. n \in Nat /\ instruction_index \in Nat /\ back_patch \in Seq(0..instruction_index - 1)
      BY DEF TextOK
    <3>4. Emit(units, TRUE) /\ back_patch' = back_patch /\ patched' = patched
      BY <3>2 DEF Assembled, EndStatement
    <3>5. back_patch' \in Seq(0..instruction_index + n - 1)
      BY <3>3, <3>4, LongerSeq
    <3>6. Len(back_patch') >= Len(back_patch)
      BY <3>3, <3>4
    <3> QED
      BY <3>2, <3>3, <3>4, <3>5, <3>6, EmissionOK
  <2>2. CASE \E u : /\ Emit(<<u>>, FALSE)
                    /\ back_patch' = Append(back_patch, instruction_index) /\ EndStatement
    <3>1. PICK u : /\ Emit(<<u>>, FALSE)
                   /\ back_patch' = Append(back_patch, instruction_index) /\ EndStatement
      BY <2>2
    <3>2. /\ patched' = patched /\ instruction_index \in Nat
          /\ back_patch \in Seq(0..instruction_index - 1)
      BY <3>1 DEF EndStatement, TextOK
    <3>3. back_patch \in Seq(0..instruction_index + 1 - 1)
      BY <3>2, LongerSeq
    <3>4. instruction_index \in 0..instruction_index + 1 - 1
      BY <3>2
    <3>5. /\ back_patch' \in Seq(0..instruction_index + 1 - 1)
          /\ Len(back_patch') >= Len(back_patch)
      BY <3>1, <3>3, <3>4
    <3>6. Len(<<u>>) = 1
      OBVIOUS
    <3> QED
      BY <3>1, <3>2, <3>5, <3>6, EmissionOK
  <2>3. CASE UNCHANGED <<textVars, patched>>
    BY <2>3 DEF TextOK, textVars
  <2>4. \A u, v : Len(<<u>>) = 1 /\ Len(<<u, v>>) = 2
    OBVIOUS
  <2>5. ASSUME NEW units, NEW n \in 1..2, Len(units) = n, Assembled(units)
        PROVE  TextOK'
    BY <2>1, <2>5
  <2>6. ASSUME NEW u, Assembled(<<u>>)
        PROVE  TextOK'
    BY <2>4, <2>5, <2>6
  <2>7. ASSUME NEW u, NEW v, Assembled(<<u, v>>)
        PROVE  TextOK'
    BY <2>4, <2>5, <2>7
  <2>8. ASSUME NEW kind, Refused(kind)
        PROVE  TextOK'
    BY <2>3, <2>8 DEF Refused, EndStatement
  <2> QED
    BY <1>2, <2>2, <2>3, <2>6, <2>7, <2>8, StatementStep DEF StatementEnds
<1>3. CASE Patch
  <2> DEFINE i == back_patch[patched + 1]
  <2>1. /\ DOMAIN intermediate_code' = DOMAIN intermediate_code
        /\ \A k \in DOMAIN intermediate_code : k # i => intermediate_code'[k] = intermediate_code[k]
        /\ i \in DOMAIN intermediate_code => intermediate_code'[i].resolved \in BOOLEAN
    BY <1>3 DEF Patch, StoredAnyway
  <2>2. /\ UNCHANGED <<instruction_index, line_number_mapping, back_patch>>
        /\ patched' = patched + 1 /\ patched < Len(back_patch)
    BY <1>3 DEF Patch
  <2> HIDE DEF i
  <2>3. \A k \in DOMAIN intermediate_code' :
          intermediate_code'[k].resolved \in BOOLEAN /\ line_number_mapping'[k] \in Nat
    BY <2>1, <2>2 DEF TextOK
  <2>4. patched' \in 0..Len(back_patch')
    BY <2>2 DEF TextOK
  <2> QED
    BY <2>1, <2>2, <2>3, <2>4 DEF TextOK
<1> QED
  BY <1>1, <1>2, <1>3, TextFrame

LEMMA TypesInit == AssemblerInit => TypeOK /\ FileOK
<1> SUFFICES ASSUME AssemblerInit PROVE TypeOK /\ FileOK
  OBVIOUS
<1>1. /\ source \in Sources /\ tokens = <<EndOfFile(0)>> /\ pos = 1 /\ stage = "source"
      /\ directive = "none"
  BY DEF AssemblerInit, Init
<1>2. FileOK
  BY <1>1, ParserAssumption DEF FileOK
<1>3. CursorOK
  <2>1. tokens \in Seq(Token) /\ Len(tokens) = 1
    BY <1>1, EndOfFileIsToken
  <2>2. tokens[1].type = "EOF"
    BY <1>1 DEF EndOfFile
  <2> QED
    BY <1>1, <2>1, <2>2 DEF CursorOK, Stages
<1>4. DataOK
  BY DEF AssemblerInit, Init, DataOK
<1>5. TextOK
  BY DEF AssemblerInit, Init, TextOK
<1>6. ErrorsOK
  BY DEF AssemblerInit, Init, ErrorsOK
<1> QED
  BY <1>2, <1>3, <1>4, <1>5, <1>6 DEF TypeOK

----------------------------------------------------------------------------
(* The inductive invariant *)

EarlyStages == {"source", "first", "data", "values"}

\* The first pass meets no instruction and no label of one.
Early ==
  stage \in EarlyStages =>
    /\ instruction_index = 0
    /\ \A l \in DOMAIN symbol_table : symbol_table[l].isData

\* An instruction that is not resolved is in the part of back_patch that is still to come.
Waiting ==
  all_errors = <<>> =>
    \A i \in Instructions :
      \/ intermediate_code[i].resolved
      \/ \E k \in patched + 1..Len(back_patch) : back_patch[k] = i

Landing ==
  all_errors = <<>> =>
    \A i \in Instructions :
      /\ intermediate_code[i].resolved /\ HasLabel(i)
      /\ intermediate_code[i].unit.op \in BTypeInstructions
      => LandsOnText(i)

\* Every unit of back_patch has an immediate to set.
Patchable ==
  \A k \in 1..Len(back_patch) : "imm" \in DOMAIN intermediate_code[back_patch[k]].unit

Counted == count = 2 * Len(all_errors)

\* What assemble decides on.
Decided ==
  /\ stage \in {"parsed", "refused", "assembled", "loaded"} => patched = Len(back_patch)
  /\ stage \in {"assembled", "loaded"} => count = 0 /\ program.errorCount = 0
  /\ stage = "refused" => program.errorCount > 0

AssemblerInv == TypeOK /\ FileOK /\ Early /\ Waiting /\ Landing /\ Patchable /\ Counted
                  /\ Decided

LEMMA InvInit == AssemblerInit => AssemblerInv
<1> SUFFICES ASSUME AssemblerInit PROVE AssemblerInv
  OBVIOUS
<1>1. /\ stage = "source" /\ symbol_table = <<>> /\ instruction_index = 0
      /\ intermediate_code = <<>> /\ count = 0 /\ all_errors = <<>>
  BY DEF AssemblerInit, Init
<1>2. Instructions = {}
  BY <1>1 DEF Instructions
<1> QED
  BY <1>1, <1>2, TypesInit
     DEF AssemblerInv, Early, EarlyStages, Waiting, Landing, Patchable, Counted, Decided,
     AssemblerInit, Init

\* The stages of a step, by the action.
LEMMA StageFrame ==
  ASSUME Next
  PROVE  /\ stage' \in EarlyStages => stage \in EarlyStages
         /\ stage \in EarlyStages => ~ParseStatement /\ ~Patch /\ ~TextLabel
         /\ stage' = "source" => UNCHANGED <<pos, source>> /\ stage = "source"
         /\ DataLabel => stage = "data"
         /\ UNCHANGED source
<1> USE DEF EarlyStages
<1>1. CASE ReadTokens \/ SkipSection \/ UnexpectedOutside \/ FirstPass
  BY <1>1, StatementInText
     DEF ReadTokens, Abort, SkipSection, UnexpectedOutside, FirstPass, PassBss, PassText, EnterData,
     EndFirstPass, fileVars, Patch, TextLabel, DataLabel, InData
<1>2. CASE ReadData \/ ReadValues
  BY <1>2, StatementInText
     DEF ReadData, EndData, DataLabel, DataDirective, UnknownDirective, InData, ReadValues,
     PassComma, DataValue, ZeroValue, ThrowingValue, EndValues, AtValue, Abort, fileVars, Patch, TextLabel
<1>3. CASE SecondPass \/ ReadText
  BY <1>3, StatementInText
     DEF SecondPass, PassDataOrBss, EnterText, EndSecondPass, ReadText, EndText, TextLabel,
     UnexpectedInText, fileVars, Patch, DataLabel, InData
<1>4. CASE ParseStatement
  <2>1. stage = "text" /\ stage' \in {"text", "aborted"} /\ UNCHANGED source
    BY <1>4, StatementInText, StatementStep DEF StatementEnds, Assembled, Refused, EndStatement,
       Abort, fileVars
  <2> QED
    BY <2>1 DEF DataLabel, InData
<1>5. CASE Patch \/ EndPatch \/ Assemble \/ Refuse \/ LoadProgram
  BY <1>5, StatementInText
     DEF Patch, EndPatch, Assemble, Refuse, LoadProgram, Abort, fileVars, cursorVars, TextLabel,
     DataLabel, InData
<1> QED
  BY <1>1, <1>2, <1>3, <1>4, <1>5 DEF Next, Parse

LEMMA FileStep ==
  ASSUME FileOK, Next
  PROVE  FileOK'
BY StageFrame DEF FileOK

LEMMA EarlyStep ==
  ASSUME Early, Next
  PROVE  Early'
<1> SUFFICES ASSUME stage' \in EarlyStages
             PROVE  /\ instruction_index' = 0
                    /\ \A l \in DOMAIN symbol_table' : symbol_table'[l].isData
  BY DEF Early
<1>1. /\ stage \in EarlyStages /\ instruction_index = 0
      /\ \A l \in DOMAIN symbol_table : symbol_table[l].isData
      /\ ~ParseStatement /\ ~Patch /\ ~TextLabel
  BY StageFrame DEF Early
<1>2. instruction_index' = 0
  BY <1>1, TextFrame DEF textVars
<1>3. CASE DataLabel
  BY <1>1, <1>2, <1>3 DEF DataLabel, Define
<1>4. CASE UNCHANGED symbol_table
  BY <1>1, <1>2, <1>4
<1> QED
  BY <1>1, <1>2, <1>3, <1>4, DataFrame DEF DataValue, ZeroValue

LEMMA CountedStep ==
  ASSUME Counted, CursorOK, TextOK, ErrorsOK, Next
  PROVE  Counted'
<1>1. CASE UNCHANGED errorVars
  BY <1>1 DEF Counted, errorVars
<1>2. ASSUME NEW kind, NEW line, recordError(kind, line)
      PROVE  Counted'
  <2>1. Len(all_errors') = Len(all_errors) + 1 /\ Len(all_errors) \in Nat
    BY <1>2 DEF recordError, ErrorsOK
  <2> QED
    BY <1>2, <2>1 DEF recordError, Counted
<1> QED
  BY <1>1, <1>2, ErrorFrame

\* After an error there is an error.
LEMMA NewErrors ==
  ASSUME CursorOK, TextOK, ErrorsOK, Next, all_errors' = <<>>
  PROVE  UNCHANGED errorVars
<1>1. ASSUME NEW kind, NEW line, recordError(kind, line)
      PROVE  FALSE
  <2>1. Len(all_errors') = Len(all_errors) + 1 /\ Len(all_errors) \in Nat
    BY <1>1 DEF recordError, ErrorsOK
  <2> QED
    BY <2>1
<1> QED
  BY <1>1, ErrorFrame

LEMMA DecidedStep ==
  ASSUME Decided, Counted, TypeOK, Next
  PROVE  Decided'
<1> USE DEF Decided
<1>1. CASE Assemble
  BY <1>1 DEF Assemble, Abort, textVars, errorVars
<1>2. CASE Refuse
  <2>1. program'.errorCount = Len(all_errors)
    BY <1>2 DEF Refuse, NoProgram
  <2>2. Len(all_errors) > 0
    BY <1>2 DEF Refuse, Counted, TypeOK, ErrorsOK
  <2> QED
    BY <1>2, <2>1, <2>2 DEF Refuse, textVars
<1>3. CASE LoadProgram
  BY <1>3 DEF LoadProgram, textVars, errorVars
<1>4. CASE EndPatch
  BY <1>4 DEF EndPatch, textVars
<1>5. CASE Patch
  BY <1>5 DEF Patch, cursorVars
<1>6. CASE ParseStatement
  <2>1. stage' \in {"text", "aborted"}
    BY <1>6, StatementInText, StatementStep DEF StatementEnds, Assembled, Refused, EndStatement,
       Abort
  <2> QED
    BY <2>1
<1>7. CASE ReadTokens \/ SkipSection \/ UnexpectedOutside \/ FirstPass
  BY <1>7 DEF ReadTokens, Abort, SkipSection, UnexpectedOutside, FirstPass, PassBss, PassText,
     EnterData, EndFirstPass
<1>8. CASE ReadData \/ ReadValues
  BY <1>8 DEF ReadData, EndData, DataLabel, DataDirective, UnknownDirective, InData, ReadValues,
     PassComma, DataValue, ZeroValue, ThrowingValue, EndValues, AtValue, Abort
<1>9. CASE SecondPass \/ ReadText
  BY <1>9 DEF SecondPass, PassDataOrBss, EnterText, EndSecondPass, ReadText, EndText, TextLabel,
     UnexpectedInText
<1> QED
  BY <1>1, <1>2, <1>3, <1>4, <1>5, <1>6, <1>7, <1>8, <1>9 DEF Next, Parse

\* The step that appends the instructions of a statement, and the one that leaves one behind.
LEMMA StatementAdds ==
  ASSUME ParseStatement, TypeOK
  PROVE  \/ \E units : \E n \in 1..2 :
              /\ Len(units) = n /\ Emit(units, TRUE)
              /\ \/ units[1].label = "" /\ units[n].label = ""
                 \/ n = 1 /\ Lands(units[1])
              /\ UNCHANGED <<symbol_table, back_patch, patched>>
         \/ \E u : /\ "imm" \in DOMAIN u /\ Emit(<<u>>, FALSE)
                   /\ back_patch' = Append(back_patch, instruction_index)
                   /\ UNCHANGED <<symbol_table, patched>>
         \/ UNCHANGED <<textVars, patched, symbol_table>>
<1>1. ASSUME NEW u, Lands(u), Assembled(<<u>>)
      PROVE  /\ Len(<<u>>) = 1 /\ Emit(<<u>>, TRUE) /\ Lands(<<u>>[1])
             /\ UNCHANGED <<symbol_table, back_patch, patched>>
  BY <1>1 DEF Assembled, EndStatement
<1>2. ASSUME NEW u, NEW v, u.label = "", v.label = "", Assembled(<<u, v>>)
      PROVE  /\ Len(<<u, v>>) = 2 /\ Emit(<<u, v>>, TRUE)
             /\ <<u, v>>[1].label = "" /\ <<u, v>>[2].label = ""
             /\ UNCHANGED <<symbol_table, back_patch, patched>>
  BY <1>2 DEF Assembled, EndStatement
<1>3. ASSUME NEW kind, Refused(kind)
      PROVE  UNCHANGED <<textVars, patched, symbol_table>>
  BY <1>3 DEF Refused, EndStatement
<1> DEFINE goal ==
      \E units : \E n \in 1..2 :
        /\ Len(units) = n /\ Emit(units, TRUE)
        /\ \/ units[1].label = "" /\ units[n].label = ""
           \/ n = 1 /\ Lands(units[1])
        /\ UNCHANGED <<symbol_table, back_patch, patched>>
<1>4. ASSUME NEW u, Lands(u), Assembled(<<u>>)
      PROVE  goal
  <2>1. 1 \in 1..2
    OBVIOUS
  <2> QED
    BY <1>1, <1>4, <2>1
<1>5. ASSUME NEW u, NEW v, u.label = "", v.label = "", Assembled(<<u, v>>)
      PROVE  goal
  <2>1. 2 \in 1..2
    OBVIOUS
  <2> QED
    BY <1>2, <1>5, <2>1
<1> HIDE DEF goal
<1>6. StatementEnds
  BY StatementStep
<1>7. CASE \E u : /\ "imm" \in DOMAIN u /\ Emit(<<u>>, FALSE)
                  /\ back_patch' = Append(back_patch, instruction_index)
                  /\ UNCHANGED errorVars /\ EndStatement
  BY <1>7 DEF EndStatement
<1>8. goal \/ UNCHANGED <<textVars, patched, symbol_table>>
      \/ \E u : /\ "imm" \in DOMAIN u /\ Emit(<<u>>, FALSE)
                /\ back_patch' = Append(back_patch, instruction_index)
                /\ UNCHANGED <<symbol_table, patched>>
  BY <1>3, <1>4, <1>5, <1>6, <1>7 DEF StatementEnds
<1> QED
  BY <1>8 DEF goal

LEMMA TextSymbolsStand ==
  ASSUME Early, Next
  PROVE  \A l \in DOMAIN symbol_table :
           ~symbol_table[l].isData =>
             l \in DOMAIN symbol_table' /\ symbol_table'[l] = symbol_table[l]
<1>1. CASE DataLabel
  BY <1>1, StageFrame DEF Early, EarlyStages
<1>2. CASE TextLabel
  BY <1>2 DEF TextLabel, Define
<1>3. CASE UNCHANGED symbol_table
  BY <1>3
<1> QED
  BY <1>1, <1>2, <1>3, DataFrame DEF DataValue, ZeroValue

LEMMA WaitingStep ==
  ASSUME TypeOK, Waiting, Next
  PROVE  Waiting'
<1> SUFFICES ASSUME all_errors' = <<>>, NEW i \in DOMAIN intermediate_code'
             PROVE  \/ intermediate_code'[i].resolved
                    \/ \E k \in patched' + 1..Len(back_patch') : back_patch'[k] = i
  BY DEF Waiting, Instructions
<1>1. UNCHANGED errorVars /\ all_errors = <<>>
  BY NewErrors DEF TypeOK, errorVars
<1>2. \A j \in DOMAIN intermediate_code :
        \/ intermediate_code[j].resolved
        \/ \E k \in patched + 1..Len(back_patch) : back_patch[k] = j
  BY <1>1 DEF Waiting, Instructions
<1>3. /\ instruction_index \in Nat /\ DOMAIN intermediate_code = 0..instruction_index - 1
      /\ back_patch \in Seq(0..instruction_index - 1) /\ patched \in 0..Len(back_patch)
  BY DEF TypeOK, TextOK
<1>4. CASE UNCHANGED <<textVars, patched>>
  BY <1>2, <1>4 DEF textVars
<1>5. ASSUME NEW units, NEW n \in 1..2, Len(units) = n, Emit(units, TRUE),
             UNCHANGED <<back_patch, patched>>
      PROVE  \/ intermediate_code'[i].resolved
             \/ \E k \in patched' + 1..Len(back_patch') : back_patch'[k] = i
  <2>1. n \in Nat
    OBVIOUS
  <2>2. /\ DOMAIN intermediate_code' = 0..instruction_index + n - 1
        /\ \A j \in DOMAIN intermediate_code : intermediate_code'[j] = intermediate_code[j]
        /\ \A j \in instruction_index..instruction_index + n - 1 :
             intermediate_code'[j] =
               [unit |-> units[j - instruction_index + 1], resolved |-> TRUE]
    BY <1>5, <2>1, Emission DEF TypeOK
  <2>3. CASE i \in DOMAIN intermediate_code
    BY <1>2, <1>5, <2>2, <2>3
  <2>4. CASE i \in instruction_index..instruction_index + n - 1
    <3>1. intermediate_code'[i] =
            [unit |-> units[i - instruction_index + 1], resolved |-> TRUE]
      BY <2>2, <2>4
    <3> QED
      BY <3>1
  <2> QED
    BY <1>3, <2>1, <2>2, <2>3, <2>4
<1>6. ASSUME NEW u, Emit(<<u>>, FALSE), back_patch' = Append(back_patch, instruction_index),
             UNCHANGED patched
      PROVE  \/ intermediate_code'[i].resolved
             \/ \E k \in patched' + 1..Len(back_patch') : back_patch'[k] = i
  <2>1. 1 \in Nat /\ Len(<<u>>) = 1 /\ FALSE \in BOOLEAN
    OBVIOUS
  <2>2. /\ DOMAIN intermediate_code' = 0..instruction_index + 1 - 1
        /\ \A j \in DOMAIN intermediate_code : intermediate_code'[j] = intermediate_code[j]
    BY <1>6, <2>1, Emission DEF TypeOK
  <2>3. /\ Len(back_patch') = Len(back_patch) + 1 /\ Len(back_patch) \in Nat
        /\ back_patch'[Len(back_patch) + 1] = instruction_index
        /\ \A k \in 1..Len(back_patch) : back_patch'[k] = back_patch[k]
    BY <1>3, <1>6
  <2>4. CASE i \in DOMAIN intermediate_code
    BY <1>2, <1>3, <1>6, <2>2, <2>3, <2>4
  <2>5. CASE i = instruction_index
    BY <1>3, <1>6, <2>3, <2>5
  <2> QED
    BY <1>3, <2>2, <2>4, <2>5
<1>7. CASE Patch
  <2> DEFINE b == back_patch[patched + 1]
             e == PatchError(intermediate_code[b].unit, b)
  <2>1. /\ patched' = patched + 1 /\ patched < Len(back_patch) /\ UNCHANGED back_patch
        /\ IF e = "none" THEN UNCHANGED errorVars ELSE recordError(e, line_number_mapping[b])
        /\ intermediate_code' =
              [intermediate_code EXCEPT ![b] =
                 IF e = "none"
                 THEN [unit |-> [intermediate_code[b].unit EXCEPT !.imm =
                          symbol_table[intermediate_code[b].unit.label].address - b * 4],
                       resolved |-> TRUE]
                 ELSE [unit |-> intermediate_code[b].unit,
                       resolved |-> StoredAnyway(intermediate_code[b].unit)]]
    BY <1>7 DEF Patch
  <2> HIDE DEF e
  <2>2. e = "none"
    <3>1. SUFFICES ASSUME recordError(e, line_number_mapping[b])
                   PROVE  FALSE
      BY <2>1
    <3>2. all_errors' = Append(all_errors, [kind |-> e, line |-> line_number_mapping[b]])
      BY <3>1 DEF recordError
    <3> QED
      BY <1>1, <3>2
  <2>3. CASE i = b
    BY <2>1, <2>2, <2>3
  <2>4. CASE i # b
    <3>1. i \in DOMAIN intermediate_code /\ intermediate_code'[i] = intermediate_code[i]
      BY <2>1, <2>4
    <3>2. CASE intermediate_code[i].resolved
      BY <3>1, <3>2
    <3>3. CASE \E k \in patched + 1..Len(back_patch) : back_patch[k] = i
      <4>1. PICK k \in patched + 1..Len(back_patch) : back_patch[k] = i
        BY <3>3
      <4>2. k \in patched' + 1..Len(back_patch')
        BY <1>3, <2>1, <2>4, <4>1
      <4> QED
        BY <2>1, <4>1, <4>2
    <3> QED
      BY <1>2, <3>1, <3>2, <3>3
  <2> QED
    BY <2>3, <2>4
<1>8. CASE ParseStatement
  BY <1>4, <1>5, <1>6, <1>8, StatementAdds
<1> QED
  BY <1>4, <1>7, <1>8, TextFrame

LEMMA PatchableStep ==
  ASSUME TypeOK, Patchable, Next
  PROVE  Patchable'
<1>1. /\ instruction_index \in Nat /\ DOMAIN intermediate_code = 0..instruction_index - 1
      /\ back_patch \in Seq(0..instruction_index - 1) /\ patched \in 0..Len(back_patch)
  BY DEF TypeOK, TextOK
<1>2. \A k \in 1..Len(back_patch) : back_patch[k] \in DOMAIN intermediate_code
  BY <1>1
<1>3. CASE UNCHANGED <<textVars, patched>>
  BY <1>3 DEF Patchable, textVars
<1>4. ASSUME NEW units, NEW n \in 1..2, Len(units) = n, Emit(units, TRUE),
             UNCHANGED back_patch
      PROVE  Patchable'
  <2>1. n \in Nat
    OBVIOUS
  <2>2. \A j \in DOMAIN intermediate_code : intermediate_code'[j] = intermediate_code[j]
    BY <1>4, <2>1, Emission DEF TypeOK
  <2> QED
    BY <1>2, <1>4, <2>2 DEF Patchable
<1>5. ASSUME NEW u, "imm" \in DOMAIN u, Emit(<<u>>, FALSE),
             back_patch' = Append(back_patch, instruction_index)
      PROVE  Patchable'
  <2>1. 1 \in Nat /\ Len(<<u>>) = 1 /\ FALSE \in BOOLEAN
    OBVIOUS
  <2>2. /\ \A j \in DOMAIN intermediate_code : intermediate_code'[j] = intermediate_code[j]
        /\ \A j \in instruction_index..instruction_index + 1 - 1 :
             intermediate_code'[j] =
               [unit |-> <<u>>[j - instruction_index + 1], resolved |-> FALSE]
    BY <1>5, <2>1, Emission DEF TypeOK
  <2>3. intermediate_code'[instruction_index].unit = u
    <3>1. /\ instruction_index \in instruction_index..instruction_index + 1 - 1
          /\ <<u>>[instruction_index - instruction_index + 1] = u
      BY <1>1
    <3>2. intermediate_code'[instruction_index] =
            [unit |-> <<u>>[instruction_index - instruction_index + 1], resolved |-> FALSE]
      BY <2>2, <3>1
    <3> QED
      BY <3>1, <3>2
  <2>4. ASSUME NEW k \in 1..Len(back_patch')
        PROVE  "imm" \in DOMAIN intermediate_code'[back_patch'[k]].unit
    <3>1. CASE k \in 1..Len(back_patch)
      <4>1. back_patch'[k] = back_patch[k]
        BY <1>1, <1>5, <3>1
      <4> QED
        BY <1>2, <2>2, <3>1, <4>1 DEF Patchable
    <3>2. CASE k = Len(back_patch) + 1
      <4>1. back_patch'[k] = instruction_index
        BY <1>1, <1>5, <3>2
      <4> QED
        BY <1>5, <2>3, <4>1
    <3> QED
      BY <1>1, <1>5, <3>1, <3>2
  <2> QED
    BY <2>4 DEF Patchable
<1>6. CASE Patch
  <2> DEFINE b == back_patch[patched + 1]
  <2>1. \E imm, r, s :
          /\ intermediate_code' =
               [intermediate_code EXCEPT ![b] =
                  IF r THEN [unit |-> [intermediate_code[b].unit EXCEPT !.imm = imm],
                             resolved |-> TRUE]
                  ELSE [unit |-> intermediate_code[b].unit, resolved |-> s]]
          /\ UNCHANGED back_patch
    BY <1>6 DEF Patch
  <2>2. \A j \in DOMAIN intermediate_code :
          "imm" \in DOMAIN intermediate_code[j].unit =>
            "imm" \in DOMAIN intermediate_code'[j].unit
    BY <2>1
  <2> QED
    BY <1>2, <2>1, <2>2 DEF Patchable
<1>7. CASE ParseStatement
  BY <1>3, <1>4, <1>5, <1>7, StatementAdds
<1> QED
  BY <1>3, <1>6, <1>7, TextFrame

\* A branch that landed still does when its label and it stay.
LEMMA StillLands ==
  ASSUME Early, Next, NEW i, LandsOnText(i), intermediate_code'[i] = intermediate_code[i]
  PROVE  LandsOnText(i)'
<1>1. PICK u : u = intermediate_code[i].unit
  OBVIOUS
<1>2. /\ u.label \in DOMAIN symbol_table /\ ~symbol_table[u.label].isData
      /\ u.imm = symbol_table[u.label].address - i * 4
      /\ Within(u.imm, -BranchReach, BranchReach - 1)
  BY <1>1 DEF LandsOnText, IsTextLabel, Reach
<1>3. u.label \in DOMAIN symbol_table' /\ symbol_table'[u.label] = symbol_table[u.label]
  BY <1>2, TextSymbolsStand
<1>4. intermediate_code'[i].unit = u
  BY <1>1
<1>5. /\ u.label \in DOMAIN symbol_table' /\ ~symbol_table'[u.label].isData
      /\ u.imm = symbol_table'[u.label].address - i * 4
  BY <1>2, <1>3
<1> QED
  BY <1>2, <1>4, <1>5 DEF LandsOnText, IsTextLabel, Within, Reach

LEMMA LandingStep ==
  ASSUME TypeOK, Early, Landing, Patchable, Next
  PROVE  Landing'
<1>0. SUFFICES ASSUME NEW i, i \in DOMAIN intermediate_code', all_errors' = <<>>,
                      intermediate_code'[i].resolved = TRUE,
                      intermediate_code'[i].unit.label # "",
                      intermediate_code'[i].unit.op \in BTypeInstructions
               PROVE  LandsOnText(i)'
  BY DEF Landing, Instructions, HasLabel
<1>1. UNCHANGED errorVars /\ all_errors = <<>>
  BY <1>0, NewErrors DEF TypeOK, errorVars
<1>2. instruction_index \in Nat /\ DOMAIN intermediate_code = 0..instruction_index - 1
  BY DEF TypeOK, TextOK
<1>3. ASSUME i \in DOMAIN intermediate_code, intermediate_code'[i] = intermediate_code[i]
      PROVE  LandsOnText(i)'
  BY <1>0, <1>1, <1>3, StillLands DEF Landing, Instructions, HasLabel
<1>4. CASE UNCHANGED <<textVars, patched>>
  BY <1>0, <1>3, <1>4 DEF textVars
<1>5. ASSUME NEW units, NEW n \in 1..2, Len(units) = n, Emit(units, TRUE),
             \/ units[1].label = "" /\ units[n].label = ""
             \/ n = 1 /\ Lands(units[1]),
             UNCHANGED symbol_table
      PROVE  LandsOnText(i)'
  <2>1. n \in Nat
    OBVIOUS
  <2>2. /\ DOMAIN intermediate_code' = 0..instruction_index + n - 1
        /\ \A j \in DOMAIN intermediate_code : intermediate_code'[j] = intermediate_code[j]
        /\ \A j \in instruction_index..instruction_index + n - 1 :
             intermediate_code'[j] =
               [unit |-> units[j - instruction_index + 1], resolved |-> TRUE]
    BY <1>5, <2>1, Emission DEF TypeOK
  <2>3. CASE i \in DOMAIN intermediate_code
    BY <1>3, <2>2, <2>3
  <2>4. CASE i \in instruction_index..instruction_index + n - 1
    <3>1. intermediate_code'[i] = [unit |-> units[i - instruction_index + 1], resolved |-> TRUE]
      BY <2>2, <2>4
    <3>2. PICK u : u = units[i - instruction_index + 1]
      OBVIOUS
    <3>3. intermediate_code'[i].unit = u
      BY <3>1, <3>2
    <3>4. u.label # "" /\ u.op \in BTypeInstructions
      BY <1>0, <3>3
    <3>5. i \in Int /\ (i = instruction_index \/ (n = 2 /\ i = instruction_index + 1))
      BY <1>2, <2>4
    <3>6. u = units[1] \/ u = units[n]
      BY <1>2, <3>2, <3>5
    <3>7. n = 1 /\ Lands(u)
      BY <1>5, <3>4, <3>6
    <3>8. i = instruction_index
      BY <3>5, <3>7
    <3>9. /\ u.label \in DOMAIN symbol_table' /\ ~symbol_table'[u.label].isData
          /\ u.imm = symbol_table'[u.label].address - i * 4
          /\ Within(u.imm, -BranchReach, BranchReach - 1)
      BY <1>5, <3>4, <3>7, <3>8 DEF Lands, IsTextLabel
    <3> QED
      BY <3>3, <3>9 DEF LandsOnText, IsTextLabel, Within, Reach
  <2>5. i \in 0..instruction_index + n - 1
    BY <1>0, <2>2
  <2> QED
    BY <1>2, <2>3, <2>4, <2>5
<1>6. ASSUME NEW u, Emit(<<u>>, FALSE)
      PROVE  LandsOnText(i)'
  <2>1. 1 \in Nat /\ Len(<<u>>) = 1 /\ FALSE \in BOOLEAN
    OBVIOUS
  <2>2. /\ DOMAIN intermediate_code' = 0..instruction_index + 1 - 1
        /\ \A j \in DOMAIN intermediate_code : intermediate_code'[j] = intermediate_code[j]
        /\ \A j \in instruction_index..instruction_index + 1 - 1 :
             intermediate_code'[j] =
               [unit |-> <<u>>[j - instruction_index + 1], resolved |-> FALSE]
    BY <1>6, <2>1, Emission DEF TypeOK
  <2>3. CASE i \in DOMAIN intermediate_code
    BY <1>3, <2>2, <2>3
  <2>4. CASE i \in instruction_index..instruction_index + 1 - 1
    <3>1. intermediate_code'[i] = [unit |-> <<u>>[i - instruction_index + 1], resolved |-> FALSE]
      BY <2>2, <2>4
    <3>2. intermediate_code'[i].resolved = FALSE
      BY <3>1
    <3> QED
      BY <1>0, <3>2
  <2>5. i \in 0..instruction_index + 1 - 1
    BY <1>0, <2>2
  <2> QED
    BY <1>2, <2>3, <2>4, <2>5
<1>7. CASE Patch
  <2>1. PICK b, u, e, offset :
          /\ b = back_patch[patched + 1] /\ u = intermediate_code[b].unit
          /\ e = PatchError(u, b) /\ offset = symbol_table[u.label].address - b * 4
    OBVIOUS
  <2>2. patched < Len(back_patch) /\ UNCHANGED symbol_table
    BY <1>7 DEF Patch
  <2>3. /\ IF e = "none" THEN UNCHANGED errorVars ELSE recordError(e, line_number_mapping[b])
        /\ intermediate_code' =
              [intermediate_code EXCEPT ![b] =
                 IF e = "none" THEN [unit |-> [u EXCEPT !.imm = offset], resolved |-> TRUE]
                 ELSE [unit |-> u, resolved |-> StoredAnyway(u)]]
    BY <1>7, <2>1 DEF Patch
  <2>4. CASE i # b
    BY <1>0, <1>3, <2>3, <2>4
  <2>5. CASE i = b
    <3>1. e = "none"
      <4>1. SUFFICES ASSUME recordError(e, line_number_mapping[b])
                     PROVE  FALSE
        BY <2>3
      <4>2. all_errors' = Append(all_errors, [kind |-> e, line |-> line_number_mapping[b]])
        BY <4>1 DEF recordError
      <4>3. Append(<<>>, [kind |-> e, line |-> line_number_mapping[b]]) # <<>>
        OBVIOUS
      <4> QED
        BY <1>0, <1>1, <4>2, <4>3
    <3>2. b \in DOMAIN intermediate_code
      BY <1>0, <2>3, <2>5
    <3>3. intermediate_code'[i] = [unit |-> [u EXCEPT !.imm = offset], resolved |-> TRUE]
      BY <2>3, <2>5, <3>1, <3>2
    <3>4. "imm" \in DOMAIN u
      <4>1. patched + 1 \in 1..Len(back_patch)
        BY <2>2 DEF TypeOK, TextOK
      <4> QED
        BY <2>1, <4>1 DEF Patchable
    <3>5. PICK w : w = [u EXCEPT !.imm = offset]
      OBVIOUS
    <3>6. intermediate_code'[i].unit = w /\ w.label = u.label /\ w.op = u.op /\ w.imm = offset
      BY <3>3, <3>4, <3>5
    <3>7. u.label # "" /\ u.op \in BTypeInstructions
      BY <1>0, <3>6
    <3>8. /\ u.label \in DOMAIN symbol_table /\ ~symbol_table[u.label].isData
          /\ Within(offset, -BranchReach, BranchReach - 1)
      BY <2>1, <3>1, <3>7 DEF PatchError
    <3>9. offset = symbol_table[u.label].address - i * 4
      BY <2>1, <2>5
    <3>10. /\ w.label \in DOMAIN symbol_table' /\ ~symbol_table'[w.label].isData
           /\ w.imm = symbol_table'[w.label].address - i * 4
           /\ Within(w.imm, -BranchReach, BranchReach - 1)
      BY <2>2, <3>6, <3>8, <3>9
    <3> QED
      BY <3>6, <3>10 DEF LandsOnText, IsTextLabel, Within, Reach
  <2> QED
    BY <2>4, <2>5
<1>8. CASE ParseStatement
  BY <1>4, <1>5, <1>6, <1>8, StatementAdds
<1> QED
  BY <1>4, <1>7, <1>8, TextFrame

----------------------------------------------------------------------------
(* The theorems *)

LEMMA InvStep == AssemblerInv /\ [Next]_vars => AssemblerInv'
<1>1. CASE UNCHANGED vars
  <2> USE <1>1 DEF vars
  <2>1. TypeOK => TypeOK'
    BY DEF TypeOK, CursorOK, DataOK, TextOK, ErrorsOK
  <2>2. (FileOK => FileOK') /\ (Early => Early') /\ (Counted => Counted') /\ (Decided => Decided')
    BY DEF FileOK, Early, Counted, Decided
  <2>3. (Waiting => Waiting') /\ (Patchable => Patchable')
    BY DEF Waiting, Patchable, Instructions
  <2>4. Landing => Landing'
    BY DEF Landing, Instructions, HasLabel, LandsOnText, IsTextLabel
  <2> QED
    BY <2>1, <2>2, <2>3, <2>4 DEF AssemblerInv
<1>2. ASSUME AssemblerInv, Next
      PROVE  AssemblerInv'
  <2>1. /\ TypeOK /\ FileOK /\ Early /\ Waiting /\ Landing /\ Patchable /\ Counted /\ Decided
        /\ CursorOK /\ DataOK /\ TextOK /\ ErrorsOK
    BY <1>2 DEF AssemblerInv, TypeOK
  <2>2. TypeOK'
    BY <1>2, <2>1, CursorStep, DataStep, TextStep, ErrorStep DEF TypeOK
  <2>3. FileOK' /\ Early' /\ Counted' /\ Decided'
    BY <1>2, <2>1, FileStep, EarlyStep, CountedStep, DecidedStep
  <2>4. Waiting' /\ Landing' /\ Patchable'
    BY <1>2, <2>1, WaitingStep, LandingStep, PatchableStep
  <2> QED
    BY <2>2, <2>3, <2>4 DEF AssemblerInv
<1> QED
  BY <1>1, <1>2

LEMMA AlwaysInv == Spec => []AssemblerInv
BY InvInit, InvStep, PTL DEF Spec

\* The parser keeps its cursor on a token, its instructions numbered without a gap and its back
\* patches on instructions, whatever the file (parser.h).
THEOREM TypeCorrect == Spec => []TypeOK
<1>1. AssemblerInv => TypeOK
  BY DEF AssemblerInv
<1> QED
  BY <1>1, AlwaysInv, PTL

LEMMA AcceptedIsDone ==
  ASSUME AssemblerInv, stage \in {"assembled", "loaded"}
  PROVE  all_errors = <<>> /\ \A i \in Instructions : intermediate_code[i].resolved
<1>1. count = 0 /\ patched = Len(back_patch)
  BY DEF AssemblerInv, Decided
<1>2. all_errors = <<>>
  <2>1. /\ Len(all_errors) \in Nat /\ 2 * Len(all_errors) = 0
        /\ all_errors \in Seq([kind : ErrorKind, line : Nat])
    BY <1>1 DEF AssemblerInv, Counted, TypeOK, ErrorsOK
  <2> QED
    BY <2>1
<1>3. patched \in Nat
  BY DEF AssemblerInv, TypeOK, TextOK
<1>4. patched + 1..Len(back_patch) = {}
  BY <1>1, <1>3
<1> QED
  BY <1>2, <1>4 DEF AssemblerInv, Waiting

\* No file becomes machine code with a label the third pass did not resolve (parser.cpp).
THEOREM AllResolved == Spec => []AcceptedIsResolved
<1>1. AssemblerInv => AcceptedIsResolved
  BY AcceptedIsDone DEF AcceptedIsResolved
<1> QED
  BY <1>1, AlwaysInv, PTL

\* Every branch of an accepted file reaches the instruction its label stands for.
THEOREM AllBranchesLand == Spec => []BranchesLand
<1>1. AssemblerInv => BranchesLand
  BY AcceptedIsDone DEF AssemblerInv, Landing, BranchesLand
<1> QED
  BY <1>1, AlwaysInv, PTL

\* The count the assembler decides on is twice the number of messages: it refuses a file exactly
\* if the window has a message to show (assembler.cpp).
THEOREM ErrorsReported == Spec => []RefusedIsReported
<1>1. AssemblerInv => RefusedIsReported
  BY AcceptedIsDone DEF AssemblerInv, Decided, RefusedIsReported
<1> QED
  BY <1>1, AlwaysInv, PTL

\* Once a label names an instruction it does so for good (processLabel and the text section).
THEOREM LabelsStand == Spec => TextLabelsStand
<1>1. AssemblerInv /\ [Next]_vars =>
        [\A l \in DOMAIN symbol_table :
           ~symbol_table[l].isData =>
             l \in DOMAIN symbol_table' /\ symbol_table'[l] = symbol_table[l]]_vars
  BY TextSymbolsStand DEF AssemblerInv
<1> QED
  BY <1>1, AlwaysInv, PTL DEF Spec, TextLabelsStand

\* The parts lui or auipc and the instruction after it carry: the lower one fits its twelve bits
\* with its sign, and the two add up again (pseudo_formats.cpp).
THEOREM PartsAddUp ==
  ASSUME NEW n \in Int
  PROVE  n = 4096 * UpperPart(n) + LowerPart(n) /\ Within(LowerPart(n), -2048, 2047)
<1> DEFINE q == (n + 2048) \div 4096
           r == (n + 2048) % 4096
           m == n - 4096 * q
<1>1. q \in Int /\ r \in 0..4095 /\ n + 2048 = 4096 * q + r
  BY SMT
<1>2. UpperPart(n) = q /\ LowerPart(n) = m
  BY DEF UpperPart, LowerPart
<1> HIDE DEF q, r
<1>3. r \in Int /\ 0 <= r /\ r <= 4095
  BY <1>1
<1>4. m \in Int /\ n = 4096 * q + m
  BY <1>1
<1>5. m = r - 2048
  BY <1>1, <1>3
<1>6. -2048 <= m /\ m <= 2047
  BY <1>3, <1>5, SMT
<1> HIDE DEF m
<1> QED
  BY <1>2, <1>4, <1>6 DEF Within

----------------------------------------------------------------------------
(* What ends the program *)

Unpacked == {"fence", "fence_i", "fclass_s", "fclass_d"}

\* The operations generateMachineCode has a format for.
Packed ==
  RTypeInstructions \cup I1TypeInstructions \cup I2TypeInstructions \cup I3TypeInstructions
  \cup STypeInstructions \cup BTypeInstructions \cup UTypeInstructions \cup JTypeInstructions
  \cup CSRRInstructions \cup CSRIInstructions \cup FDExtensionRTypeInstructions
  \cup FDExtensionR1TypeInstructions \cup FDExtensionR2TypeInstructions
  \cup (DOMAIN F_D_R3_type_instruction_encoding_map \ {"fclass_s", "fclass_d"})
  \cup FDExtensionR4TypeInstructions \cup FDExtensionITypeInstructions
  \cup FDExtensionSTypeInstructions

LEMMA IntegerOpcodes ==
  /\ \A n \in RTypeInstructions : R_type_instruction_encoding_map[n].opcode # 0
  /\ \A n \in I1TypeInstructions : I1_type_instruction_encoding_map[n].opcode # 0
  /\ \A n \in I2TypeInstructions : I2_type_instruction_encoding_map[n].opcode # 0
  /\ \A n \in I3TypeInstructions : I3_type_instruction_encoding_map[n].opcode # 0
  /\ \A n \in STypeInstructions : S_type_instruction_encoding_map[n].opcode # 0
  /\ \A n \in BTypeInstructions : B_type_instruction_encoding_map[n].opcode # 0
  /\ \A n \in UTypeInstructions : U_type_instruction_encoding_map[n].opcode # 0
  /\ \A n \in JTypeInstructions : J_type_instruction_encoding_map[n].opcode # 0
  /\ \A n \in CSRRInstructions : CSR_R_type_instruction_encoding_map[n].opcode # 0
  /\ \A n \in CSRIInstructions : CSR_I_type_instruction_encoding_map[n].opcode # 0
<1> USE DEF Enc, OP, OP32, OP_IMM, OP_IMM32, LOAD, STORE, BRANCH, JAL, JALR, LUI, AUIPC, SYSTEM
<1>1. \A n \in RTypeInstructions : R_type_instruction_encoding_map[n].opcode # 0
  BY SMTT(30) DEF RTypeInstructions, R_type_instruction_encoding_map
<1>2. /\ \A n \in I1TypeInstructions : I1_type_instruction_encoding_map[n].opcode # 0
      /\ \A n \in I2TypeInstructions : I2_type_instruction_encoding_map[n].opcode # 0
      /\ \A n \in I3TypeInstructions : I3_type_instruction_encoding_map[n].opcode # 0
  BY SMTT(30) DEF I1TypeInstructions, I1_type_instruction_encoding_map, I2TypeInstructions,
     I2_type_instruction_encoding_map, I3TypeInstructions, I3_type_instruction_encoding_map
<1>3. /\ \A n \in STypeInstructions : S_type_instruction_encoding_map[n].opcode # 0
      /\ \A n \in BTypeInstructions : B_type_instruction_encoding_map[n].opcode # 0
      /\ \A n \in UTypeInstructions : U_type_instruction_encoding_map[n].opcode # 0
      /\ \A n \in JTypeInstructions : J_type_instruction_encoding_map[n].opcode # 0
  BY SMTT(30) DEF STypeInstructions, S_type_instruction_encoding_map, BTypeInstructions,
     B_type_instruction_encoding_map, UTypeInstructions, U_type_instruction_encoding_map,
     JTypeInstructions, J_type_instruction_encoding_map
<1>4. /\ \A n \in CSRRInstructions : CSR_R_type_instruction_encoding_map[n].opcode # 0
      /\ \A n \in CSRIInstructions : CSR_I_type_instruction_encoding_map[n].opcode # 0
  BY SMTT(30) DEF CSRRInstructions, CSR_R_type_instruction_encoding_map, CSRIInstructions,
     CSR_I_type_instruction_encoding_map
<1> QED
  BY <1>1, <1>2, <1>3, <1>4

LEMMA FloatOpcodes ==
  /\ \A n \in FDExtensionRTypeInstructions : F_D_R_type_instruction_encoding_map[n].opcode # 0
  /\ \A n \in FDExtensionR1TypeInstructions : F_D_R1_type_instruction_encoding_map[n].opcode # 0
  /\ \A n \in FDExtensionR2TypeInstructions : F_D_R2_type_instruction_encoding_map[n].opcode # 0
  /\ \A n \in DOMAIN F_D_R3_type_instruction_encoding_map :
       F_D_R3_type_instruction_encoding_map[n].opcode # 0
  /\ \A n \in FDExtensionR4TypeInstructions : F_D_R4_type_instruction_encoding_map[n].opcode # 0
  /\ \A n \in FDExtensionITypeInstructions : F_D_I_type_instruction_encoding_map[n].opcode # 0
  /\ \A n \in FDExtensionSTypeInstructions : F_D_S_type_instruction_encoding_map[n].opcode # 0
<1> USE DEF Enc, EncFP, OP_FP, LOAD_FP, STORE_FP, MADD, MSUB, NMSUB, NMADD
<1>1. \A n \in FDExtensionRTypeInstructions : F_D_R_type_instruction_encoding_map[n].opcode # 0
  BY SMTT(30) DEF FDExtensionRTypeInstructions, F_D_R_type_instruction_encoding_map
<1>2. \A n \in FDExtensionR1TypeInstructions : F_D_R1_type_instruction_encoding_map[n].opcode # 0
  BY SMTT(30) DEF FDExtensionR1TypeInstructions, F_D_R1_type_instruction_encoding_map
<1>3. \A n \in FDExtensionR2TypeInstructions : F_D_R2_type_instruction_encoding_map[n].opcode # 0
  BY SMTT(30) DEF FDExtensionR2TypeInstructions, F_D_R2_type_instruction_encoding_map
<1>4. \A n \in DOMAIN F_D_R3_type_instruction_encoding_map :
        F_D_R3_type_instruction_encoding_map[n].opcode # 0
  BY SMTT(30) DEF F_D_R3_type_instruction_encoding_map
<1>5. /\ \A n \in FDExtensionR4TypeInstructions :
           F_D_R4_type_instruction_encoding_map[n].opcode # 0
      /\ \A n \in FDExtensionITypeInstructions : F_D_I_type_instruction_encoding_map[n].opcode # 0
      /\ \A n \in FDExtensionSTypeInstructions : F_D_S_type_instruction_encoding_map[n].opcode # 0
  BY SMTT(30) DEF FDExtensionR4TypeInstructions, F_D_R4_type_instruction_encoding_map,
     FDExtensionITypeInstructions, F_D_I_type_instruction_encoding_map,
     FDExtensionSTypeInstructions, F_D_S_type_instruction_encoding_map
<1> QED
  BY <1>1, <1>2, <1>3, <1>4, <1>5

\* Every packing function puts the opcode of the entry into the word.
LEMMA OpcodeOfPacking ==
  ASSUME NEW u
  PROVE  /\ \A e : generateRType(u, e).opcode = e.opcode
         /\ \A e : generateI1Type(u, e).opcode = e.opcode
         /\ \A e : generateI2Type(u, e).opcode = e.opcode
         /\ \A e : generateI3Type(e).opcode = e.opcode
         /\ \A e : generateSType(u, e).opcode = e.opcode
         /\ \A e : generateBType(u, e).opcode = e.opcode
         /\ \A e : generateUType(u, e).opcode = e.opcode
         /\ \A e : generateJType(u, e).opcode = e.opcode
         /\ \A e, s : generateCSRType(u, e, s).opcode = e.opcode
         /\ \A e : generateFDR1Type(u, e).opcode = e.opcode
         /\ \A e : generateFDR2Type(u, e).opcode = e.opcode
         /\ \A e : generateFDR3Type(u, e).opcode = e.opcode
         /\ \A e : generateFDR4Type(u, e).opcode = e.opcode
BY DEF generateRType, generateI1Type, generateI2Type, generateI3Type, generateSType, generateBType,
   generateUType, generateJType, generateCSRType, generateFDR1Type, generateFDR2Type,
   generateFDR3Type, generateFDR4Type, Pack

LEMMA PackedIsCode ==
  ASSUME NEW u, u.op \in Packed
  PROVE  generateMachineCode(u) # InvalidInstructionType
<1> DEFINE n == u.op
           three == DOMAIN F_D_R3_type_instruction_encoding_map
<1>1. InvalidInstructionType.opcode = 0
  BY DEF InvalidInstructionType, Pack
<1>2. n \in three \ {"fclass_s", "fclass_d"} => n \in FDExtensionR3TypeInstructions
  BY DEF F_D_R3_type_instruction_encoding_map, FDExtensionR3TypeInstructions
<1>3. n \in FDExtensionR3TypeInstructions => n \in three \/ n = "fclass_sfclass_d"
  BY DEF F_D_R3_type_instruction_encoding_map, FDExtensionR3TypeInstructions
<1>4. n # "fclass_sfclass_d"
  BY SMTT(60) DEF Packed,
     RTypeInstructions, I1TypeInstructions, I2TypeInstructions, I3TypeInstructions,
     STypeInstructions, BTypeInstructions, UTypeInstructions, JTypeInstructions,
     CSRRInstructions, CSRIInstructions, FDExtensionRTypeInstructions,
     FDExtensionR1TypeInstructions, FDExtensionR2TypeInstructions, FDExtensionR4TypeInstructions,
     FDExtensionITypeInstructions, FDExtensionSTypeInstructions,
     R_type_instruction_encoding_map, I1_type_instruction_encoding_map,
     I2_type_instruction_encoding_map, I3_type_instruction_encoding_map,
     S_type_instruction_encoding_map, B_type_instruction_encoding_map,
     U_type_instruction_encoding_map, J_type_instruction_encoding_map,
     CSR_R_type_instruction_encoding_map, CSR_I_type_instruction_encoding_map,
     F_D_R_type_instruction_encoding_map, F_D_R1_type_instruction_encoding_map,
     F_D_R2_type_instruction_encoding_map, F_D_R3_type_instruction_encoding_map,
     F_D_R4_type_instruction_encoding_map, F_D_I_type_instruction_encoding_map,
     F_D_S_type_instruction_encoding_map
<1>5. n \in Packed /\ (n \in FDExtensionR3TypeInstructions => n \in three)
  BY <1>3, <1>4
<1> DEFINE double ==
             IF n \in FDExtensionR3TypeInstructions
               THEN generateFDR3Type(u, F_D_R3_type_instruction_encoding_map[n])
             ELSE IF n \in FDExtensionR4TypeInstructions
               THEN generateFDR4Type(u, F_D_R4_type_instruction_encoding_map[n])
             ELSE IF n \in FDExtensionITypeInstructions
               THEN generateI1Type(u, F_D_I_type_instruction_encoding_map[n])
             ELSE IF n \in FDExtensionSTypeInstructions
               THEN generateSType(u, F_D_S_type_instruction_encoding_map[n])
             ELSE InvalidInstructionType
           float ==
             IF n \in FDExtensionRTypeInstructions
               THEN generateRType(u, F_D_R_type_instruction_encoding_map[n])
             ELSE IF n \in FDExtensionR1TypeInstructions
               THEN generateFDR1Type(u, F_D_R1_type_instruction_encoding_map[n])
             ELSE IF n \in FDExtensionR2TypeInstructions
               THEN generateFDR2Type(u, F_D_R2_type_instruction_encoding_map[n])
             ELSE double
           integer ==
             IF n \in BTypeInstructions THEN generateBType(u, B_type_instruction_encoding_map[n])
             ELSE IF n \in UTypeInstructions
               THEN generateUType(u, U_type_instruction_encoding_map[n])
             ELSE IF n \in JTypeInstructions
               THEN generateJType(u, J_type_instruction_encoding_map[n])
             ELSE IF n \in CSRRInstructions
               THEN generateCSRType(u, CSR_R_type_instruction_encoding_map[n], u.rs1)
             ELSE IF n \in CSRIInstructions
               THEN generateCSRType(u, CSR_I_type_instruction_encoding_map[n], Bits(u.imm, 1, 32))
             ELSE float
<1>6. generateMachineCode(u) =
        IF n \in RTypeInstructions THEN generateRType(u, R_type_instruction_encoding_map[n])
        ELSE IF n \in I1TypeInstructions THEN generateI1Type(u, I1_type_instruction_encoding_map[n])
        ELSE IF n \in I2TypeInstructions THEN generateI2Type(u, I2_type_instruction_encoding_map[n])
        ELSE IF n \in I3TypeInstructions THEN generateI3Type(I3_type_instruction_encoding_map[n])
        ELSE IF n \in STypeInstructions THEN generateSType(u, S_type_instruction_encoding_map[n])
        ELSE integer
  BY DEF generateMachineCode
<1>7. n \in FDExtensionR3TypeInstructions \cup FDExtensionR4TypeInstructions
            \cup FDExtensionITypeInstructions \cup FDExtensionSTypeInstructions
      => double.opcode # 0
  BY <1>5, FloatOpcodes, OpcodeOfPacking DEF three
<1> HIDE DEF double, three
<1>8. n \in FDExtensionRTypeInstructions \cup FDExtensionR1TypeInstructions
            \cup FDExtensionR2TypeInstructions \/ double.opcode # 0
      => float.opcode # 0
  BY FloatOpcodes, OpcodeOfPacking
<1> HIDE DEF float
<1>9. n \in BTypeInstructions \cup UTypeInstructions \cup JTypeInstructions \cup CSRRInstructions
            \cup CSRIInstructions \/ float.opcode # 0
      => integer.opcode # 0
  BY IntegerOpcodes, OpcodeOfPacking
<1> HIDE DEF integer
<1>10. n \in RTypeInstructions \cup I1TypeInstructions \cup I2TypeInstructions
             \cup I3TypeInstructions \cup STypeInstructions \/ integer.opcode # 0
       => generateMachineCode(u).opcode # 0
  BY <1>6, IntegerOpcodes, OpcodeOfPacking
<1>11. generateMachineCode(u).opcode # 0
  BY <1>2, <1>5, <1>7, <1>8, <1>9, <1>10 DEF Packed, three
<1> QED
  BY <1>1, <1>11

\* The lists of instruction_syntax_map name instructions.
LEMMA SyntaxLists ==
  /\ RegisterForms \cup ImmediateForms \cup Loads \cup UnsignedLoads \cup {"jalr"} \subseteq Packed
  /\ {"fsqrt_s", "fsqrt_d"} \subseteq Packed
  /\ {"feq_s", "flt_s", "fle_s", "feq_d", "flt_d", "fle_d"} \subseteq Packed
  /\ {"fsgnj_s", "fsgnjn_s", "fsgnjx_s", "fmin_s", "fmax_s",
      "fsgnj_d", "fsgnjn_d", "fsgnjx_d", "fmin_d", "fmax_d"} \subseteq Packed
  /\ {"fmv_x_w", "fmv_x_d", "fmv_w_x", "fmv_d_x"} \subseteq Packed
  /\ {"fcvt_w_s", "fcvt_wu_s", "fcvt_l_s", "fcvt_lu_s", "fcvt_w_d", "fcvt_wu_d", "fcvt_l_d",
      "fcvt_lu_d", "fcvt_s_w", "fcvt_s_wu", "fcvt_s_l", "fcvt_s_lu", "fcvt_d_l", "fcvt_d_lu",
      "fcvt_d_w", "fcvt_d_wu", "fcvt_s_d", "fcvt_d_s"} \subseteq Packed
<1>1. RegisterForms \subseteq RTypeInstructions
  BY DEF RegisterForms
<1>2. /\ ImmediateForms \subseteq I1TypeInstructions \cup I2TypeInstructions
      /\ {"jalr"} \cup Loads \cup UnsignedLoads \subseteq I1TypeInstructions
  BY DEF ImmediateForms, Loads, UnsignedLoads, I1TypeInstructions,
     I1_type_instruction_encoding_map, I2TypeInstructions, I2_type_instruction_encoding_map
<1>3. {"fsgnj_s", "fsgnjn_s", "fsgnjx_s", "fmin_s", "fmax_s",
       "fsgnj_d", "fsgnjn_d", "fsgnjx_d", "fmin_d", "fmax_d",
       "feq_s", "flt_s", "fle_s", "feq_d", "flt_d", "fle_d"} \subseteq FDExtensionRTypeInstructions
  BY DEF FDExtensionRTypeInstructions, F_D_R_type_instruction_encoding_map
<1>4. {"fsqrt_s", "fsqrt_d",
       "fcvt_w_s", "fcvt_wu_s", "fcvt_l_s", "fcvt_lu_s", "fcvt_w_d", "fcvt_wu_d", "fcvt_l_d",
       "fcvt_lu_d", "fcvt_s_w", "fcvt_s_wu", "fcvt_s_l", "fcvt_s_lu", "fcvt_d_l", "fcvt_d_lu",
       "fcvt_d_w", "fcvt_d_wu", "fcvt_s_d", "fcvt_d_s"} \subseteq FDExtensionR2TypeInstructions
  BY DEF FDExtensionR2TypeInstructions, F_D_R2_type_instruction_encoding_map
<1>5. {"fmv_x_w", "fmv_x_d", "fmv_w_x", "fmv_d_x"} \subseteq
        DOMAIN F_D_R3_type_instruction_encoding_map \ {"fclass_s", "fclass_d"}
  BY DEF F_D_R3_type_instruction_encoding_map
<1> QED
  BY <1>1, <1>2, <1>3, <1>4, <1>5 DEF Packed

\* What has a syntax, other than those of parse_pseudo, has a format, or is a fence or an fclass.
LEMMA SyntaxOfPacked ==
  ASSUME NEW n, NEW s, s \in instruction_syntax_map(n), s # "PSEUDO"
  PROVE  n \in Packed \cup Unpacked
<1> SUFFICES ASSUME n \notin Packed, n \notin Unpacked
             PROVE  instruction_syntax_map(n) \in {{}, {"PSEUDO"}}
  OBVIOUS
<1>1. /\ n \notin BTypeInstructions \cup STypeInstructions \cup UTypeInstructions
                    \cup JTypeInstructions \cup I3TypeInstructions \cup CSRRInstructions
                    \cup CSRIInstructions
      /\ n \notin FDExtensionITypeInstructions \cup FDExtensionSTypeInstructions
                    \cup FDExtensionR4TypeInstructions \cup FDExtensionR1TypeInstructions
  BY DEF Packed
<1>2. n \notin RegisterForms \cup ImmediateForms \cup Loads \cup UnsignedLoads \cup {"jalr"}
  BY SyntaxLists
<1>3. n \notin {"fence", "fence_i", "fclass_s", "fclass_d"}
  BY DEF Unpacked
<1>4. /\ n \notin {"fsqrt_s", "fsqrt_d"}
      /\ n \notin {"feq_s", "flt_s", "fle_s", "feq_d", "flt_d", "fle_d"}
      /\ n \notin {"fsgnj_s", "fsgnjn_s", "fsgnjx_s", "fmin_s", "fmax_s",
                   "fsgnj_d", "fsgnjn_d", "fsgnjx_d", "fmin_d", "fmax_d"}
      /\ n \notin {"fclass_s", "fclass_d", "fmv_x_w", "fmv_x_d"}
      /\ n \notin {"fmv_w_x", "fmv_d_x"}
  BY <1>3, SyntaxLists
<1>5. /\ n \notin {"fcvt_w_s", "fcvt_wu_s", "fcvt_l_s", "fcvt_lu_s"}
      /\ n \notin {"fcvt_w_d", "fcvt_wu_d", "fcvt_l_d", "fcvt_lu_d"}
      /\ n \notin {"fcvt_s_w", "fcvt_s_wu", "fcvt_s_l", "fcvt_s_lu", "fcvt_d_l", "fcvt_d_lu"}
      /\ n \notin {"fcvt_d_w", "fcvt_d_wu"}
      /\ n \notin {"fcvt_s_d", "fcvt_d_s"}
  BY SyntaxLists
<1> QED
  BY <1>1, <1>2, <1>3, <1>4, <1>5, SMTT(30) DEF instruction_syntax_map

\* An operation with a format, or one of the four without that is written in the file.
Nameable(op) ==
  \/ op \in Packed
  \/ op \in Unpacked /\ \E k \in 1..Len(tokens) : tokens[k].value = op

NamedUnit(u) == "op" \in DOMAIN u /\ Nameable(u.op)

\* The units of a statement.
LEMMA OpcodeUnits ==
  /\ "op" \in DOMAIN Statement /\ Statement.op = Opcode
  /\ \A p : "op" \in DOMAIN RegisterUnit(p) /\ RegisterUnit(p).op = Opcode
  /\ \A s \in DOMAIN ImmediatePattern :
       "op" \in DOMAIN ImmediateUnit(s) /\ ImmediateUnit(s).op = Opcode
  /\ \A s, label : "op" \in DOMAIN LabelUnit(s, label) /\ LabelUnit(s, label).op = Opcode
<1>1. "op" \in DOMAIN Statement /\ Statement.op = Opcode
  BY DEF Statement
<1>2. ASSUME NEW p
      PROVE  "op" \in DOMAIN RegisterUnit(p) /\ RegisterUnit(p).op = Opcode
  BY DEF RegisterUnit, Statement
<1>3. ASSUME NEW s \in DOMAIN ImmediatePattern
      PROVE  "op" \in DOMAIN ImmediateUnit(s) /\ ImmediateUnit(s).op = Opcode
  BY DEF ImmediateUnit, Statement, ImmediatePattern
<1>4. ASSUME NEW s, NEW label
      PROVE  "op" \in DOMAIN LabelUnit(s, label) /\ LabelUnit(s, label).op = Opcode
  BY DEF LabelUnit, Statement
<1> QED
  BY <1>1, <1>2, <1>3, <1>4

LEMMA SyntaxNamed ==
  ASSUME CursorOK, NEW s, HasSyntax(s), s # "PSEUDO"
  PROVE  Nameable(Opcode)
<1>1. Opcode \in Packed \cup Unpacked
  BY SyntaxOfPacked DEF HasSyntax
<1>2. pos \in 1..Len(tokens) /\ Opcode = tokens[pos].value
  BY DEF CursorOK, Opcode, currentToken
<1> QED
  BY <1>1, <1>2 DEF Nameable

\* The operations pseudo instructions stand for.
LEMMA PseudoNamed == \A op \in {"addi", "jalr", "add", "xori", "auipc", "lui"} : Nameable(op)
<1>1. "add" \in RTypeInstructions /\ {"auipc", "lui"} \subseteq UTypeInstructions
  BY DEF RTypeInstructions, R_type_instruction_encoding_map, UTypeInstructions,
     U_type_instruction_encoding_map
<1>2. {"addi", "jalr", "xori"} \subseteq I1TypeInstructions
  BY DEF I1TypeInstructions, I1_type_instruction_encoding_map
<1> QED
  BY <1>1, <1>2 DEF Nameable, Packed

\* What a statement appends is named.
StatementAppends ==
  \/ UNCHANGED intermediate_code
  \/ \E u : NamedUnit(u) /\ \E resolved \in BOOLEAN : Emit(<<u>>, resolved)
  \/ \E u, v : NamedUnit(u) /\ NamedUnit(v) /\ Emit(<<u, v>>, TRUE)

LEMMA StatementNames ==
  ASSUME CursorOK, ParseStatement
  PROVE  StatementAppends
<1>0. ASSUME NEW kind, Refused(kind)
      PROVE  StatementAppends
  BY <1>0 DEF Refused, textVars, StatementAppends
<1>1. CASE ParseRegisters
  <2>1. PICK s \in DOMAIN RegisterPattern :
          HasSyntax(s) /\ Assembled(<<RegisterUnit(RegisterPattern[s])>>)
    BY <1>1 DEF ParseRegisters
  <2>2. NamedUnit(RegisterUnit(RegisterPattern[s]))
    BY <2>1, SyntaxNamed, OpcodeUnits DEF NamedUnit, RegisterPattern
  <2> QED
    BY <2>1, <2>2 DEF StatementAppends, Assembled
<1>2. CASE ParseCsr
  <2>1. PICK rd, rs1, csr :
          Assembled(<<[Statement EXCEPT !.rd = rd, !.rs1 = rs1, !.csr = csr]>>)
    BY <1>2 DEF ParseCsr
  <2> DEFINE u == [Statement EXCEPT !.rd = rd, !.rs1 = rs1, !.csr = csr]
  <2>2. "op" \in DOMAIN u /\ u.op = Opcode
    BY DEF Statement
  <2>3. Nameable(Opcode)
    BY <1>2, SyntaxNamed DEF ParseCsr
  <2> HIDE DEF u
  <2>4. NamedUnit(u) /\ Emit(<<u>>, TRUE)
    BY <2>1, <2>2, <2>3 DEF NamedUnit, Assembled, u
  <2> QED
    BY <2>4 DEF StatementAppends
<1>3. CASE ParseImmediate
  <2>1. PICK s \in DOMAIN ImmediatePattern :
          /\ HasSyntax(s)
          /\ LET e == ImmediateError(Opcode, peekToken(ImmediatePlace(s)).num) IN
             IF e = "none" THEN Assembled(<<ImmediateUnit(s)>>) ELSE Refused(e)
    BY <1>3 DEF ParseImmediate
  <2>2. NamedUnit(ImmediateUnit(s))
    BY <2>1, SyntaxNamed, OpcodeUnits DEF NamedUnit, ImmediatePattern
  <2>3. CASE Assembled(<<ImmediateUnit(s)>>)
    BY <2>2, <2>3 DEF StatementAppends, Assembled
  <2> QED
    BY <1>0, <2>1, <2>3
<1>4. CASE ParseLabel
  <2>1. PICK s \in DOMAIN LabelPattern :
          /\ HasSyntax(s)
          /\ LET label == peekToken(Len(LabelPattern[s])).value
                 unit  == LabelUnit(s, label)
             IN
             IF IsTextLabel(label)
             THEN LET offset == symbol_table[label].address - instruction_index * 4 IN
                  IF Within(offset, -Reach(s), Reach(s) - 1)
                  THEN Assembled(<<[unit EXCEPT !.imm = offset]>>)
                  ELSE Refused("ImmediateOutOfRange")
             ELSE /\ back_patch' = Append(back_patch, instruction_index)
                  /\ Emit(<<unit>>, FALSE)
                  /\ UNCHANGED errorVars
                  /\ EndStatement
    BY <1>4 DEF ParseLabel
  <2> DEFINE label == peekToken(Len(LabelPattern[s])).value
             unit == LabelUnit(s, label)
             offset == symbol_table[label].address - instruction_index * 4
             done == [unit EXCEPT !.imm = offset]
  <2>2. Nameable(Opcode)
    BY <2>1, SyntaxNamed DEF LabelPattern
  <2>3. NamedUnit(unit)
    BY <2>2, OpcodeUnits DEF NamedUnit
  <2>4. NamedUnit(done)
    BY <2>2, OpcodeUnits DEF NamedUnit
  <2>5. Emit(<<unit>>, FALSE) \/ Assembled(<<done>>) \/ Refused("ImmediateOutOfRange")
    BY <2>1
  <2> HIDE DEF unit, done
  <2> QED
    BY <1>0, <2>3, <2>4, <2>5 DEF StatementAppends, Assembled
<1>5. CASE ParseDataLabel
  <2>1. PICK imm, low :
          LET second == IF Opcode = "la" THEN "addi" ELSE Opcode IN
          \/ Refused("InvalidLabelRef")
          \/ Assembled(<<[Statement EXCEPT !.op = "auipc", !.rd = Register(1), !.imm = imm],
                         [Statement EXCEPT !.op = second, !.rd = Register(1),
                            !.rs1 = Register(1), !.imm = low]>>)
    BY <1>5 DEF ParseDataLabel
  <2> DEFINE second == IF Opcode = "la" THEN "addi" ELSE Opcode
             u == [Statement EXCEPT !.op = "auipc", !.rd = Register(1), !.imm = imm]
             v == [Statement EXCEPT !.op = second, !.rd = Register(1), !.rs1 = Register(1),
                     !.imm = low]
  <2>2. "op" \in DOMAIN u /\ u.op = "auipc" /\ "op" \in DOMAIN v /\ v.op = second
    BY DEF Statement
  <2>3. Nameable(second)
    <3>1. CASE Opcode = "la"
      BY <3>1, PseudoNamed
    <3>2. CASE Opcode # "la"
      <4>1. HasSyntax("O_GPR_C_DL")
        BY <1>5, <3>2 DEF ParseDataLabel
      <4> QED
        BY <3>2, <4>1, SyntaxNamed
    <3> QED
      BY <3>1, <3>2
  <2>4. Assembled(<<u, v>>) \/ Refused("InvalidLabelRef")
    BY <2>1
  <2> HIDE DEF u, v, second
  <2>5. NamedUnit(u) /\ NamedUnit(v)
    BY <2>2, <2>3, PseudoNamed DEF NamedUnit
  <2> QED
    BY <1>0, <2>4, <2>5 DEF StatementAppends, Assembled
<1>6. CASE ParseLi
  <2> DEFINE imm == peekToken(3).num
             addi == [Statement EXCEPT !.op = "addi", !.rd = Register(1)]
             lui  == [Statement EXCEPT !.op = "lui", !.rd = Register(1), !.imm = UpperPart(imm)]
             short == [addi EXCEPT !.imm = imm]
             rest == [addi EXCEPT !.rs1 = Register(1), !.imm = LowerPart(imm)]
  <2>1. \/ Assembled(<<short>>) \/ Refused("ImmediateOutOfRange") \/ Assembled(<<lui>>)
        \/ Assembled(<<lui, rest>>)
    BY <1>6 DEF ParseLi
  <2>2. /\ "op" \in DOMAIN short /\ short.op = "addi" /\ "op" \in DOMAIN lui /\ lui.op = "lui"
        /\ "op" \in DOMAIN rest /\ rest.op = "addi"
    BY DEF Statement
  <2> HIDE DEF short, lui, rest
  <2>3. NamedUnit(short) /\ NamedUnit(lui) /\ NamedUnit(rest)
    BY <2>2, PseudoNamed DEF NamedUnit
  <2> QED
    BY <1>0, <2>1, <2>3 DEF StatementAppends, Assembled
<1>7. CASE ParsePseudo
  <2>1. Opcode \in {"nop", "ret", "mv", "not"} /\ Assembled(<<PseudoUnit>>)
    BY <1>7 DEF ParsePseudo
  <2>2. "op" \in DOMAIN PseudoUnit /\ PseudoUnit.op \in {"addi", "jalr", "add", "xori"}
    BY <2>1 DEF PseudoUnit, Statement
  <2>3. NamedUnit(PseudoUnit)
    BY <2>2, PseudoNamed DEF NamedUnit
  <2> QED
    BY <2>1, <2>3 DEF StatementAppends, Assembled
<1>8. CASE SyntaxError \/ UnknownAlias
  BY <1>0, <1>8 DEF SyntaxError, UnknownAlias, textVars, StatementAppends
<1> QED
  BY <1>1, <1>2, <1>3, <1>4, <1>5, <1>6, <1>7, <1>8 DEF ParseStatement

\* What a token and a directive stand for.
RegistersKnown ==
  \A k \in 1..Len(tokens) :
    tokens[k].type = "GP_REGISTER" => tokens[k].value \in valid_general_purpose_registers

DirectiveWritten == stage = "values" => \E k \in 1..Len(tokens) : tokens[k].value = directive

UnitsNamed == \A i \in Instructions : NamedUnit(intermediate_code[i].unit)

AbortInv == RegistersKnown /\ DirectiveWritten /\ UnitsNamed /\ OnlyTheseAbort

\* The tokens are read once.
LEMMA TokensStay ==
  ASSUME Next
  PROVE  \/ UNCHANGED tokens
         \/ /\ stage = "source" /\ stage' = "first" /\ tokens' = getTokenList(source)
            /\ UNCHANGED textVars
<1>1. CASE ReadTokens
  BY <1>1 DEF ReadTokens
<1>2. CASE SkipSection \/ UnexpectedOutside \/ FirstPass \/ ReadData
  BY <1>2 DEF SkipSection, UnexpectedOutside, FirstPass, PassBss, PassText, EnterData,
     EndFirstPass, ReadData, EndData, DataLabel, DataDirective, UnknownDirective, fileVars
<1>3. CASE ReadValues \/ SecondPass \/ ReadText
  BY <1>3 DEF ReadValues, PassComma, DataValue, ZeroValue, ThrowingValue, EndValues, SecondPass, PassDataOrBss,
     EnterText, EndSecondPass, ReadText, EndText, TextLabel, UnexpectedInText, fileVars
<1>4. CASE ParseStatement
  BY <1>4, StatementStep DEF StatementEnds, Assembled, Refused, EndStatement, fileVars
<1>5. CASE Patch \/ EndPatch \/ Assemble \/ Refuse \/ LoadProgram
  BY <1>5 DEF Patch, EndPatch, Assemble, Refuse, LoadProgram, fileVars, cursorVars
<1> QED
  BY <1>1, <1>2, <1>3, <1>4, <1>5 DEF Next, Parse

LEMMA RegisterLexemes ==
  ASSUME NEW x, NEW afterComma, x.form \in Form, LexemeType(x, afterComma) = "GP_REGISTER"
  PROVE  x.text \in valid_general_purpose_registers
<1> DEFINE f == x.form
           name == NameType(x.text, afterComma)
<1>1. name = "GP_REGISTER" => x.text \in valid_general_purpose_registers
  BY DEF NameType
<1>2. f \in Form
  OBVIOUS
<1>3. LexemeType(x, afterComma) =
        CASE f = "word" -> name [] f = "definition" -> "LABEL" [] f = "number" -> "NUM"
          [] f = "float" -> "FLOAT" [] f = "string" -> "STRING" [] f = "directive" -> "DIRECTIVE"
          [] f = "comma" -> "COMMA" [] f = "lparen" -> "LPAREN" [] f = "rparen" -> "RPAREN"
          [] f \in {"dotted", "huge", "other"} -> "INVALID"
  BY DEF LexemeType
<1> HIDE DEF f, name
<1>4. CASE f = "word"
  BY <1>1, <1>3, <1>4
<1>5. CASE f \in Form \ {"word"}
  BY <1>3, <1>5, SMT DEF Form
<1> QED
  BY <1>2, <1>4, <1>5

LEMMA RegistersStep ==
  ASSUME CursorOK, FileOK, RegistersKnown, Next
  PROVE  RegistersKnown'
<1>1. CASE UNCHANGED tokens
  BY <1>1 DEF RegistersKnown
<1>2. CASE tokens' = getTokenList(source)
  <2>1. source \in Seq(Lexeme) /\ Len(source) \in Nat
    BY DEF FileOK
  <2>2. Len(tokens') = Len(source) + 1
    BY <1>2, <2>1, TokenList
  <2>3. ASSUME NEW k \in 1..Len(tokens'), tokens'[k].type = "GP_REGISTER"
        PROVE  tokens'[k].value \in valid_general_purpose_registers
    <3> DEFINE after == k > 1 /\ source[k - 1].form = "comma"
               last == EndOfFile(IF source = <<>> THEN 0 ELSE source[Len(source)].line)
    <3>1. tokens'[k] = IF k <= Len(source) THEN getNextToken(source[k], after) ELSE last
      BY <1>2, <2>1, <2>2 DEF getTokenList
    <3>2. last.type = "EOF"
      BY DEF EndOfFile
    <3> HIDE DEF after, last
    <3>3. k \in 1..Len(source) /\ tokens'[k] = getNextToken(source[k], after)
      BY <2>1, <2>2, <2>3, <3>1, <3>2
    <3>4. source[k] \in Lexeme
      BY <2>1, <3>3
    <3>5. source[k].form \in Form
      BY <3>4 DEF Lexeme
    <3>6. LexemeType(source[k], after) = "GP_REGISTER" /\ tokens'[k].value = source[k].text
      BY <2>3, <3>3 DEF getNextToken
    <3> QED
      BY <3>5, <3>6, RegisterLexemes
  <2> QED
    BY <2>3 DEF RegistersKnown
<1> QED
  BY <1>1, <1>2, TokensStay

LEMMA DirectiveStep ==
  ASSUME CursorOK, DirectiveWritten, Next
  PROVE  DirectiveWritten'
<1> SUFFICES ASSUME stage' = "values"
             PROVE  \E k \in 1..Len(tokens') : tokens'[k].value = directive'
  BY DEF DirectiveWritten
<1>1. UNCHANGED tokens
  BY TokensStay
<1>2. CASE DataDirective
  <2>1. pos \in 1..Len(tokens) /\ tokens[pos].value = directive'
    BY <1>2 DEF DataDirective, CursorOK, currentToken
  <2> QED
    BY <1>1, <2>1
<1>3. CASE stage = "values" /\ UNCHANGED directive
  BY <1>1, <1>3 DEF DirectiveWritten
<1>4. CASE ReadTokens \/ SkipSection \/ UnexpectedOutside \/ FirstPass
  BY <1>4 DEF ReadTokens, Abort, SkipSection, UnexpectedOutside, FirstPass, PassBss, PassText,
     EnterData, EndFirstPass
<1>5. CASE EndData \/ DataLabel \/ UnknownDirective \/ ReadValues
  BY <1>3, <1>5 DEF EndData, DataLabel, UnknownDirective, InData, ReadValues, PassComma, DataValue,
     ZeroValue, ThrowingValue, EndValues, AtValue, Abort
<1>6. CASE SecondPass \/ ReadText
  BY <1>6 DEF SecondPass, PassDataOrBss, EnterText, EndSecondPass, ReadText, EndText, TextLabel,
     UnexpectedInText
<1>7. CASE ParseStatement
  BY <1>7, StatementInText, StatementStep DEF StatementEnds, Assembled, Refused, EndStatement, Abort
<1>8. CASE Patch \/ EndPatch \/ Assemble \/ Refuse \/ LoadProgram
  BY <1>8 DEF Patch, EndPatch, Assemble, Refuse, LoadProgram, Abort, cursorVars
<1> QED
  BY <1>2, <1>4, <1>5, <1>6, <1>7, <1>8 DEF Next, Parse, ReadData

\* A name stays a name as long as the tokens stay.
LEMMA StaysNamed ==
  ASSUME UNCHANGED tokens, NEW CONSTANT u, NamedUnit(u)
  PROVE  NamedUnit(u)'
BY DEF NamedUnit, Nameable

LEMMA UnitsStep ==
  ASSUME TypeOK, Early, UnitsNamed, Next
  PROVE  UnitsNamed'
<1>1. instruction_index \in Nat /\ DOMAIN intermediate_code = 0..instruction_index - 1
  BY DEF TypeOK, TextOK
<1>2. CASE /\ stage = "source" /\ UNCHANGED textVars
  <2>1. DOMAIN intermediate_code' = {}
    BY <1>1, <1>2 DEF Early, EarlyStages, textVars
  <2> QED
    BY <2>1 DEF UnitsNamed, Instructions
<1>3. ASSUME UNCHANGED tokens, UNCHANGED intermediate_code
      PROVE  UnitsNamed'
  BY <1>3 DEF UnitsNamed, Instructions, NamedUnit, Nameable
<1>4. ASSUME UNCHANGED tokens, NEW units, NEW n \in 1..2, Len(units) = n,
             NEW resolved \in BOOLEAN, Emit(units, resolved),
             NamedUnit(units[1]), NamedUnit(units[n])
      PROVE  UnitsNamed'
  <2>1. n \in Nat
    OBVIOUS
  <2>2. /\ DOMAIN intermediate_code' = 0..instruction_index + n - 1
        /\ \A j \in DOMAIN intermediate_code : intermediate_code'[j] = intermediate_code[j]
        /\ \A j \in instruction_index..instruction_index + n - 1 :
             intermediate_code'[j] =
               [unit |-> units[j - instruction_index + 1], resolved |-> resolved]
    BY <1>4, <2>1, Emission DEF TypeOK
  <2>3. ASSUME NEW i \in 0..instruction_index + n - 1
        PROVE  NamedUnit(intermediate_code'[i].unit)
    <3>1. CASE i \in DOMAIN intermediate_code
      BY <2>2, <3>1 DEF UnitsNamed, Instructions
    <3>2. CASE i \in instruction_index..instruction_index + n - 1
      <4>1. intermediate_code'[i] =
              [unit |-> units[i - instruction_index + 1], resolved |-> resolved]
        BY <2>2, <3>2
      <4>2. intermediate_code'[i].unit = units[i - instruction_index + 1]
        BY <4>1
      <4>3. i - instruction_index + 1 \in {1, n}
        BY <1>1, <3>2
      <4> QED
        BY <1>4, <4>2, <4>3
    <3> QED
      BY <1>1, <3>1, <3>2
  <2> QED
    BY <1>4, <2>2, <2>3 DEF UnitsNamed, Instructions, NamedUnit, Nameable
<1>5. CASE ParseStatement
  <2>1. UNCHANGED tokens
    BY <1>5, StatementInText, TokensStay
  <2>2. ASSUME NEW u, NamedUnit(u), NEW resolved \in BOOLEAN, Emit(<<u>>, resolved)
        PROVE  UnitsNamed'
    <3>1. 1 \in 1..2 /\ Len(<<u>>) = 1 /\ <<u>>[1] = u
      OBVIOUS
    <3> QED
      BY <1>4, <2>1, <2>2, <3>1
  <2>3. ASSUME NEW u, NEW v, NamedUnit(u), NamedUnit(v), Emit(<<u, v>>, TRUE)
        PROVE  UnitsNamed'
    <3>1. 2 \in 1..2 /\ Len(<<u, v>>) = 2 /\ <<u, v>>[1] = u /\ <<u, v>>[2] = v
      OBVIOUS
    <3> QED
      BY <1>4, <2>1, <2>3, <3>1
  <2> QED
    BY <1>3, <1>5, <2>1, <2>2, <2>3, StatementNames DEF StatementAppends, TypeOK
<1>6. CASE Patch
  <2> DEFINE b == back_patch[patched + 1]
  <2>1. PICK imm, r, s :
          intermediate_code' =
            [intermediate_code EXCEPT ![b] =
               IF r THEN [unit |-> [intermediate_code[b].unit EXCEPT !.imm = imm],
                          resolved |-> TRUE]
               ELSE [unit |-> intermediate_code[b].unit, resolved |-> s]]
    BY <1>6 DEF Patch
  <2>2. DOMAIN intermediate_code' = DOMAIN intermediate_code
    BY <2>1
  <2>3. UNCHANGED tokens
    BY <1>6 DEF Patch, cursorVars
  <2>4. ASSUME NEW i \in DOMAIN intermediate_code
        PROVE  /\ "op" \in DOMAIN intermediate_code'[i].unit
               /\ intermediate_code'[i].unit.op = intermediate_code[i].unit.op
    <3>1. "op" \in DOMAIN intermediate_code[i].unit
      BY DEF UnitsNamed, NamedUnit, Instructions
    <3> QED
      BY <2>1, <3>1
  <2> QED
    BY <2>2, <2>3, <2>4 DEF UnitsNamed, Instructions, NamedUnit, Nameable
<1> QED
  BY <1>2, <1>3, <1>5, <1>6, TextFrame, TokensStay DEF textVars

\* What throws.
LEMMA Aborts ==
  ASSUME Next, stage' = "aborted"
  PROVE  \/ ReadTokens /\ Overflows(source)
         \/ ThrowingValue
         \/ UnknownAlias
         \/ Assemble /\ \E i \in Instructions : Encoded(i) = InvalidInstructionType
<1>1. CASE ReadTokens \/ SkipSection \/ UnexpectedOutside \/ FirstPass
  BY <1>1 DEF ReadTokens, SkipSection, UnexpectedOutside, FirstPass, PassBss, PassText, EnterData,
     EndFirstPass
<1>2. CASE ReadData \/ ReadValues
  BY <1>2 DEF ReadData, EndData, DataLabel, DataDirective, UnknownDirective, InData, ReadValues,
     PassComma, DataValue, ZeroValue, ThrowingValue, EndValues, AtValue
<1>3. CASE SecondPass \/ ReadText
  BY <1>3 DEF SecondPass, PassDataOrBss, EnterText, EndSecondPass, ReadText, EndText, TextLabel,
     UnexpectedInText
<1>4. CASE ParseStatement
  <2>1. stage = "text"
    BY <1>4, StatementInText
  <2>2. CASE ParseRegisters \/ ParseCsr \/ ParseImmediate
    BY <2>1, <2>2 DEF ParseRegisters, ParseCsr, ParseImmediate, Assembled, Refused, EndStatement
  <2>3. CASE ParseLabel
    BY <2>1, <2>3 DEF ParseLabel, Assembled, Refused, EndStatement
  <2>4. CASE ParseDataLabel \/ ParseLi \/ ParsePseudo \/ SyntaxError
    BY <2>1, <2>4 DEF ParseDataLabel, ParseLi, ParsePseudo, SyntaxError, Assembled, Refused,
       EndStatement
  <2> QED
    BY <1>4, <2>2, <2>3, <2>4 DEF ParseStatement
<1>5. CASE Patch \/ EndPatch \/ Refuse \/ LoadProgram
  BY <1>5 DEF Patch, EndPatch, Refuse, LoadProgram, cursorVars
<1>6. CASE Assemble
  BY <1>6 DEF Assemble
<1> QED
  BY <1>1, <1>2, <1>3, <1>4, <1>5, <1>6 DEF Next, Parse

LEMMA GprAliases ==
  valid_general_purpose_registers \subseteq DOMAIN reg_alias_to_name
BY DEF valid_general_purpose_registers, reg_alias_to_name

LEMMA AbortStep ==
  ASSUME TypeOK, RegistersKnown, DirectiveWritten, UnitsNamed, Next
  PROVE  OnlyTheseAbort'
<1> SUFFICES ASSUME stage' = "aborted"
             PROVE  \/ Overflows(source')
                    \/ \E k \in 1..Len(tokens') :
                         \/ tokens'[k].value \in {"fence", "fence_i", "fclass_s", "fclass_d"}
                         \/ /\ tokens'[k].type = "FP_REGISTER"
                            /\ tokens'[k].value \notin DOMAIN reg_alias_to_name
                         \/ /\ tokens'[k].value = "float" /\ currentToken'.type = "FLOAT"
                            /\ ~Within(currentToken'.num, -FloatReach, FloatReach)
                         \/ /\ tokens'[k].value = "zero" /\ currentToken'.type = "NUM"
                            /\ ~Within(currentToken'.num, 0, HostMemory - Len(data_buffer'))
  BY DEF OnlyTheseAbort
<1>1. UNCHANGED tokens /\ UNCHANGED source
  BY StageFrame, TokensStay
<1>2. CASE ReadTokens /\ Overflows(source)
  BY <1>1, <1>2
<1>3. CASE ThrowingValue
  <2>1. /\ stage = "values" /\ UNCHANGED <<pos, data_buffer>>
        /\ currentToken.type = ValueType(directive) /\ (FloatOverflows \/ ZeroTooLong)
    BY <1>3 DEF ThrowingValue, AtValue, dataVars
  <2>2. PICK k \in 1..Len(tokens) : tokens[k].value = directive
    BY <2>1 DEF DirectiveWritten
  <2>3. currentToken' = currentToken
    BY <1>1, <2>1 DEF currentToken
  <2>4. CASE FloatOverflows
    BY <1>1, <2>1, <2>2, <2>3, <2>4 DEF FloatOverflows, ValueType
  <2>5. CASE ZeroTooLong
    BY <1>1, <2>1, <2>2, <2>3, <2>5 DEF ZeroTooLong, ValueType
  <2> QED
    BY <2>1, <2>4, <2>5
<1>4. CASE UnknownAlias
  <2>1. PICK p : Fits(p) /\ ~AliasesKnown(p)
    BY <1>4 DEF UnknownAlias
  <2>2. PICK n \in 1..Len(p) :
          p[n] \in {G, F} /\ peekToken(n).value \notin DOMAIN reg_alias_to_name
    BY <2>1 DEF AliasesKnown
  <2>3. peekToken(n).type # "EOF" /\ peekToken(n).type \in {G, F}
    BY <2>1, <2>2 DEF Fits, OnLine
  <2>4. n \in Nat /\ n >= 1
    BY <2>2
  <2>5. pos + n \in 1..Len(tokens) /\ peekToken(n) = tokens[pos + n]
    <3>1. pos \in Nat /\ Len(tokens) \in Nat /\ pos >= 1
      BY DEF TypeOK, CursorOK
    <3>2. EndOfFile(1).type = "EOF"
      BY DEF EndOfFile
    <3>3. pos + n <= Len(tokens)
      BY <2>3, <3>2 DEF peekToken
    <3> QED
      BY <2>4, <3>1, <3>3 DEF peekToken
  <2>6. tokens[pos + n].type = "FP_REGISTER"
    BY <2>2, <2>3, <2>5, GprAliases DEF RegistersKnown, G, F
  <2> QED
    BY <1>1, <2>2, <2>5, <2>6
<1>5. CASE Assemble /\ \E i \in Instructions : Encoded(i) = InvalidInstructionType
  <2>1. PICK i \in Instructions : Encoded(i) = InvalidInstructionType
    BY <1>5
  <2>2. intermediate_code[i].unit.op \in Unpacked
          /\ \E k \in 1..Len(tokens) : tokens[k].value = intermediate_code[i].unit.op
    BY <2>1, PackedIsCode DEF Encoded, UnitsNamed, NamedUnit, Nameable
  <2> QED
    BY <1>1, <2>2 DEF Unpacked
<1> QED
  BY <1>2, <1>3, <1>4, <1>5, Aborts

LEMMA AbortInvInit == AssemblerInit => AbortInv
<1> SUFFICES ASSUME AssemblerInit PROVE AbortInv
  OBVIOUS
<1>1. stage = "source" /\ intermediate_code = <<>> /\ tokens = <<EndOfFile(0)>>
  BY DEF AssemblerInit, Init
<1>2. \A k \in 1..Len(tokens) : tokens[k].type = "EOF"
  <2>1. EndOfFile(0).type = "EOF"
    BY DEF EndOfFile
  <2> QED
    BY <1>1, <2>1
<1>3. Instructions = {}
  BY <1>1 DEF Instructions
<1> QED
  BY <1>1, <1>2, <1>3 DEF AbortInv, RegistersKnown, DirectiveWritten, UnitsNamed, OnlyTheseAbort

LEMMA AbortInvStep == AssemblerInv /\ AbortInv /\ [Next]_vars => AbortInv'
<1>1. CASE UNCHANGED vars
  BY <1>1 DEF vars, AbortInv, RegistersKnown, DirectiveWritten, UnitsNamed, OnlyTheseAbort,
     Instructions, NamedUnit, Nameable, currentToken
<1>2. ASSUME AssemblerInv, AbortInv, Next
      PROVE  AbortInv'
  <2>1. /\ TypeOK /\ CursorOK /\ FileOK /\ Early
        /\ RegistersKnown /\ DirectiveWritten /\ UnitsNamed
    BY <1>2 DEF AssemblerInv, AbortInv, TypeOK
  <2> QED
    BY <1>2, <2>1, RegistersStep, DirectiveStep, UnitsStep, AbortStep DEF AbortInv
<1> QED
  BY <1>1, <1>2

\* Whatever the file, assembling it ends the program only for one of the four reasons: everything
\* else the parser lets through has a format in generateMachineCode (code_generator.cpp).
THEOREM NothingElseAborts == Spec => []OnlyTheseAbort
<1>1. AbortInv => OnlyTheseAbort
  BY DEF AbortInv
<1> QED
  BY <1>1, AbortInvInit, AbortInvStep, AlwaysInv, PTL DEF Spec

----------------------------------------------------------------------------
(* The map of lines *)

LEMMA Least ==
  ASSUME NEW S, S \subseteq Nat, S # {}
  PROVE  \E m \in S : \A n \in S : m <= n
<1> DEFINE T == {1..m : m \in S}
<1>1. IsWellFoundedOn(StrictSubsetOrdering(Nat), FiniteSubsetsOf(Nat))
  BY FS_StrictSubsetOrderingWellFounded
<1>2. T \subseteq FiniteSubsetsOf(Nat)
  <2>1. ASSUME NEW m \in S PROVE IsFiniteSet(1..m) /\ 1..m \subseteq Nat
    <3>1. m \in Int /\ 1 \in Int
      OBVIOUS
    <3> QED  BY <3>1, FS_Interval
  <2>2. \A t \in T : t \in FiniteSubsetsOf(Nat)
    BY <2>1, Zenon DEF FiniteSubsetsOf
  <2> QED  BY <2>2
<1>3. PICK t \in T : \A u \in T : ~(<<u, t>> \in StrictSubsetOrdering(Nat))
  <2>1. T # {}
    OBVIOUS
  <2> HIDE DEF T
  <2> QED  BY <1>1, <1>2, <2>1, WFMin
<1>4. PICK m \in S : t = 1..m
  BY <1>3
<1>5. ASSUME NEW n \in S PROVE m <= n
  <2>1. SUFFICES ASSUME n < m PROVE FALSE
    BY <1>4
  <2>2. 1..n \subseteq 1..m /\ 1..n # 1..m /\ 1..n \in SUBSET Nat /\ 1..m \in SUBSET Nat
    <3>1. m \in 1..m /\ m \notin 1..n
      BY <2>1
    <3>2. m \in Nat /\ n \in Nat
      OBVIOUS
    <3>3. \A i : i \in 1..n => i \in 1..m /\ i \in Nat
      BY <2>1, <3>2
    <3>4. \A i : i \in 1..m => i \in Nat
      BY <3>2
    <3> QED  BY <3>1, <3>3, <3>4, Zenon
  <2>3. <<1..n, 1..m>> \in StrictSubsetOrdering(Nat)
    BY <2>2, Zenon DEF StrictSubsetOrdering
  <2>4. 1..n \in T
    OBVIOUS
  <2> QED  BY <1>3, <1>4, <2>3, <2>4
<1> QED
  BY <1>4, <1>5

\* The lines of the tokens and of the instructions do not decrease, and the parser is at a token
\* behind the last instruction.
TokensRise ==
  \A j, k \in 1..Len(tokens) : j <= k => tokens[j].line <= tokens[k].line

LinesRise ==
  \A j, k \in 0..instruction_index - 1 : j <= k => line_number_mapping[j] <= line_number_mapping[k]

Behind ==
  stage \in {"second", "text"} =>
    \A i \in 0..instruction_index - 1 : line_number_mapping[i] <= currentToken.line

SourceRises == source \in Sources

LineInv == SourceRises /\ TokensRise /\ LinesRise /\ Behind /\ LineMapExact

LEMMA TokenLines ==
  ASSUME SourceRises, FileOK, tokens' = getTokenList(source)
  PROVE  TokensRise'
<1> DEFINE n == Len(source)
           end == IF source = <<>> THEN 0 ELSE source[Len(source)].line
<1>1. /\ source \in Seq(Lexeme) /\ n \in Nat
      /\ \A i, j \in 1..n : i <= j => source[i].line <= source[j].line
  BY ParserAssumption DEF SourceRises, FileOK
<1>2. Len(tokens') = n + 1
  BY <1>1, TokenList
<1>3. ASSUME NEW k \in 1..n
      PROVE  tokens'[k].line = source[k].line /\ source[k].line \in Nat
  <2>1. tokens'[k] = getNextToken(source[k], k > 1 /\ source[k - 1].form = "comma")
    BY <1>1 DEF getTokenList
  <2>2. source[k] \in Lexeme
    BY <1>1
  <2> QED
    BY <2>1, <2>2 DEF getNextToken, Lexeme
<1>4. tokens'[n + 1].line = end
  <2>1. tokens'[n + 1] = EndOfFile(end)
    BY <1>1 DEF getTokenList
  <2> HIDE DEF end
  <2>2. EndOfFile(end).line = end
    BY DEF EndOfFile
  <2> QED
    BY <2>1, <2>2
<1>5. n >= 1 => end = source[n].line
  BY <1>1
<1>6. end \in Nat
  <2>1. CASE n = 0
    BY <1>1, <2>1
  <2>2. CASE n >= 1
    BY <1>1, <1>3, <1>5, <2>2
  <2> QED
    BY <1>1, <2>1, <2>2
<1> HIDE DEF end, n
<1>7. ASSUME NEW j \in 1..n + 1, NEW k \in 1..n + 1, j <= k
      PROVE  tokens'[j].line <= tokens'[k].line
  <2>1. CASE k \in 1..n
    BY <1>1, <1>3, <1>7, <2>1
  <2>2. CASE k = n + 1 /\ j \in 1..n
    <3>1. source[j].line <= source[n].line /\ n >= 1
      BY <1>1, <2>2
    <3> QED
      BY <1>3, <1>4, <1>5, <2>2, <3>1
  <2>3. CASE k = n + 1 /\ j = n + 1
    BY <1>4, <1>6, <2>3
  <2> QED
    BY <1>1, <1>7, <2>1, <2>2, <2>3
<1> QED
  BY <1>2, <1>7 DEF TokensRise

LEMMA TokensRiseStep ==
  ASSUME SourceRises, FileOK, TokensRise, Next
  PROVE  SourceRises' /\ TokensRise'
BY TokenLines, TokensStay, StageFrame DEF SourceRises, TokensRise

\* In the second pass the parser only goes forwards, and it begins without an instruction.
LEMMA Forwards ==
  ASSUME CursorOK, Next, stage' \in {"second", "text"}
  PROVE  stage = "first" \/ (stage \in {"second", "text"} /\ pos' >= pos)
<1>1. pos \in Nat /\ Len(tokens) \in Nat
  BY DEF CursorOK
<1>2. ASSUME NEW names, SkipTo(names, pos)
      PROVE  pos' >= pos
  BY <1>1, <1>2 DEF SkipTo
<1>3. skipCurrentLine => pos' >= pos
  BY <1>1 DEF skipCurrentLine
<1>4. CASE ReadTokens \/ FirstPass \/ ReadData \/ ReadValues
  BY <1>4 DEF ReadTokens, Abort, FirstPass, PassBss, PassText, EnterData, EndFirstPass, ReadData,
     EndData, DataLabel, DataDirective, UnknownDirective, InData, ReadValues, PassComma, DataValue,
     ZeroValue, ThrowingValue, EndValues, AtValue
<1>5. CASE SkipSection \/ UnexpectedOutside
  BY <1>1, <1>5 DEF SkipSection, UnexpectedOutside, nextToken
<1>6. CASE SecondPass
  BY <1>1, <1>2, <1>6 DEF SecondPass, PassDataOrBss, EnterText, EndSecondPass
<1>7. CASE ReadText
  <2>1. CASE EndText
    BY <1>1, <2>1 DEF EndText
  <2>2. CASE TextLabel
    BY <1>1, <2>2 DEF TextLabel, nextToken
  <2>3. CASE UnexpectedInText
    BY <1>3, <2>3 DEF UnexpectedInText
  <2> QED
    BY <1>7, <2>1, <2>2, <2>3 DEF ReadText
<1>8. CASE ParseStatement
  <2>1. stage = "text" /\ StatementEnds
    BY <1>8, StatementInText, StatementStep
  <2>2. EndStatement \/ Abort
    BY <2>1 DEF StatementEnds, Assembled, Refused
  <2> QED
    BY <1>3, <2>1, <2>2 DEF EndStatement, Abort
<1>9. CASE Patch \/ EndPatch \/ Assemble \/ Refuse \/ LoadProgram
  BY <1>9 DEF Patch, EndPatch, Assemble, Refuse, LoadProgram, Abort, cursorVars
<1> QED
  BY <1>4, <1>5, <1>6, <1>7, <1>8, <1>9 DEF Next, Parse

LEMMA LaterLine ==
  ASSUME CursorOK, FileOK, TokensRise, Next, stage' \in {"second", "text"}, stage # "first"
  PROVE  /\ stage \in {"second", "text"} /\ currentToken.line \in Nat
         /\ (currentToken.line)' \in Nat /\ currentToken.line <= (currentToken.line)'
<1>1. stage \in {"second", "text"} /\ pos' >= pos
  BY Forwards
<1>2. UNCHANGED tokens
  BY <1>1, TokensStay
<1>3. pos \in 1..Len(tokens) /\ pos' \in 1..Len(tokens) /\ tokens \in Seq(Token)
  BY <1>2, CursorStep DEF CursorOK
<1>4. tokens[pos].line <= tokens[pos'].line
  BY <1>1, <1>3 DEF TokensRise
<1>5. tokens[pos] \in Token /\ tokens[pos'] \in Token
  BY <1>3
<1>6. tokens[pos].line \in Nat /\ tokens[pos'].line \in Nat
  BY <1>5 DEF Token
<1> QED
  BY <1>1, <1>2, <1>4, <1>6 DEF currentToken

\* An emission on the line the parser is at.
LEMMA EmittedLines ==
  ASSUME TypeOK, LinesRise, Behind, stage = "text",
         NEW units, NEW n \in Nat, Len(units) = n, NEW resolved \in BOOLEAN, Emit(units, resolved)
  PROVE  /\ LinesRise'
         /\ \A i \in 0..instruction_index' - 1 : line_number_mapping'[i] <= currentToken.line
<1>1. /\ instruction_index \in Nat /\ currentToken.line \in Nat
      /\ DOMAIN intermediate_code = 0..instruction_index - 1
      /\ \A i \in 0..instruction_index - 1 : line_number_mapping[i] \in Nat
  BY CurrentIsToken DEF TypeOK, TextOK
<1>2. /\ instruction_index' = instruction_index + n
      /\ \A i \in 0..instruction_index - 1 : line_number_mapping'[i] = line_number_mapping[i]
      /\ \A i \in instruction_index..instruction_index + n - 1 :
           line_number_mapping'[i] = currentToken.line
  BY <1>1, Emission DEF TypeOK
<1>3. \A i \in 0..instruction_index - 1 :
        line_number_mapping'[i] \in Nat /\ line_number_mapping'[i] <= currentToken.line
  BY <1>1, <1>2 DEF Behind
<1>4. \A i \in 0..instruction_index' - 1 :
        i \in 0..instruction_index - 1 \/ i \in instruction_index..instruction_index + n - 1
  BY <1>1, <1>2
<1>5. \A i \in 0..instruction_index' - 1 : line_number_mapping'[i] <= currentToken.line
  BY <1>1, <1>2, <1>3, <1>4
<1>6. ASSUME NEW j \in 0..instruction_index' - 1, NEW k \in 0..instruction_index' - 1, j <= k
      PROVE  line_number_mapping'[j] <= line_number_mapping'[k]
  <2>1. CASE k \in 0..instruction_index - 1
    <3>1. j \in 0..instruction_index - 1
      BY <1>1, <1>6, <2>1
    <3> QED
      BY <1>2, <1>6, <2>1, <3>1 DEF LinesRise
  <2>2. CASE k \in instruction_index..instruction_index + n - 1
    BY <1>2, <1>5, <2>2
  <2> QED
    BY <1>4, <2>1, <2>2
<1> QED
  BY <1>5, <1>6 DEF LinesRise

LEMMA LinesStep ==
  ASSUME TypeOK, FileOK, Early, TokensRise, LinesRise, Behind, Next
  PROVE  LinesRise' /\ Behind'
<1>1. /\ instruction_index \in Nat
       /\ \A i \in 0..instruction_index - 1 : line_number_mapping[i] \in Nat
  BY DEF TypeOK, TextOK
<1>2. CASE UNCHANGED <<instruction_index, line_number_mapping>>
  <2>1. LinesRise'
    BY <1>2 DEF LinesRise
  <2>2. ASSUME stage' \in {"second", "text"}, NEW i \in 0..instruction_index - 1
        PROVE  line_number_mapping[i] <= (currentToken.line)'
    <3>1. /\ stage \in {"second", "text"} /\ currentToken.line \in Nat
          /\ (currentToken.line)' \in Nat /\ currentToken.line <= (currentToken.line)'
      <4>1. CASE stage = "first" \/ stage = "source"
        <5>1. instruction_index = 0
          BY <4>1 DEF Early, EarlyStages
        <5> QED
          BY <2>2, <5>1
      <4>2. CASE stage # "first"
        BY <2>2, <4>2, LaterLine DEF TypeOK
      <4> QED
        BY <4>1, <4>2
    <3> HIDE DEF currentToken
    <3>2. line_number_mapping[i] <= currentToken.line
      BY <3>1 DEF Behind
    <3> QED
      BY <1>1, <3>1, <3>2
  <2> QED
    BY <1>2, <2>1, <2>2 DEF Behind
<1>3. CASE ParseStatement
  <2>1. stage = "text"
    BY <1>3, StatementInText
  <2>2. ASSUME NEW units, NEW n \in Nat, Len(units) = n, NEW resolved \in BOOLEAN,
               Emit(units, resolved)
        PROVE  LinesRise' /\ Behind'
    <3>1. /\ LinesRise'
          /\ \A i \in 0..instruction_index' - 1 : line_number_mapping'[i] <= currentToken.line
      BY <2>1, <2>2, EmittedLines
    <3>2. ASSUME stage' \in {"second", "text"}
          PROVE  /\ currentToken.line \in Nat /\ (currentToken.line)' \in Nat
                 /\ currentToken.line <= (currentToken.line)'
      BY <2>1, <3>2, LaterLine DEF TypeOK
    <3>3. \A i \in 0..instruction_index' - 1 : line_number_mapping'[i] \in Nat
      BY TextStep DEF TypeOK, TextOK
    <3>4. ASSUME stage' \in {"second", "text"}, NEW i \in 0..instruction_index' - 1
          PROVE  line_number_mapping'[i] <= (currentToken.line)'
      BY <3>1, <3>2, <3>3, <3>4
    <3> QED
      BY <3>1, <3>4 DEF Behind
  <2>3. ASSUME NEW u, NEW resolved \in BOOLEAN, Emit(<<u>>, resolved)
        PROVE  LinesRise' /\ Behind'
    <3>1. Len(<<u>>) = 1 /\ 1 \in Nat
      OBVIOUS
    <3> QED
      BY <2>2, <2>3, <3>1
  <2>4. ASSUME NEW u, NEW v, Emit(<<u, v>>, TRUE)
        PROVE  LinesRise' /\ Behind'
    <3>1. Len(<<u, v>>) = 2 /\ 2 \in Nat
      OBVIOUS
    <3> QED
      BY <2>2, <2>4, <3>1
  <2> QED
    BY <1>2, <1>3, <2>3, <2>4, StatementStep DEF StatementEnds, Assembled, Refused, textVars
<1>4. CASE Patch
  BY <1>2, <1>4 DEF Patch
<1> QED
  BY <1>2, <1>3, <1>4, TextFrame DEF textVars

----------------------------------------------------------------------------
\* The map itself.
LEMMA FirstInstruction ==
  ASSUME TextOK, LinesRise, NEW l \in Nat, l >= 1, NEW m \in 0..instruction_index - 1,
         l <= line_number_mapping[m]
  PROVE  \E k \in 0..instruction_index - 1 :
           l \in LinesOf(k) /\ \A i \in 0..k - 1 : line_number_mapping[i] < l
<1>1. /\ instruction_index \in Nat
      /\ \A i \in 0..instruction_index - 1 : line_number_mapping[i] \in Nat
  BY DEF TextOK
<1> DEFINE T == {k \in 0..instruction_index - 1 : l <= line_number_mapping[k]}
<1>2. T \subseteq Nat /\ m \in T
  BY <1>1
<1>3. PICK k \in T : \A i \in T : k <= i
  BY <1>2, Least
<1>4. k \in 0..instruction_index - 1 /\ l <= line_number_mapping[k]
  OBVIOUS
<1>5. ASSUME NEW i \in 0..k - 1
      PROVE  line_number_mapping[i] < l
  <2>1. i \in 0..instruction_index - 1 /\ ~(k <= i)
    BY <1>1, <1>4
  <2>2. i \notin T
    BY <1>3, <2>1
  <2> QED
    BY <1>1, <2>1, <2>2
<1>6. FirstLine(k) <= l /\ FirstLine(k) \in Nat
  <2>1. CASE k = 0
    BY <2>1 DEF FirstLine
  <2>2. CASE k # 0
    <3>1. k - 1 \in 0..k - 1 /\ k - 1 \in 0..instruction_index - 1
      BY <1>1, <1>4, <2>2
    <3>2. line_number_mapping[k - 1] < l /\ line_number_mapping[k - 1] \in Nat
      BY <1>1, <1>5, <3>1
    <3> QED
      BY <2>2, <3>2 DEF FirstLine
  <2> QED
    BY <2>1, <2>2
<1>7. l \in LinesOf(k)
  BY <1>1, <1>4, <1>6 DEF LinesOf
<1> QED
  BY <1>4, <1>5, <1>7

\* The lines of an instruction begin behind those of the one before it.
LEMMA LinesBetween ==
  ASSUME TextOK, LinesRise, NEW k \in 0..instruction_index - 1, NEW l \in LinesOf(k)
  PROVE  /\ l \in Nat /\ l >= 1 /\ l <= line_number_mapping[k]
         /\ \A i \in 0..k - 1 : line_number_mapping[i] < l
<1>1. /\ instruction_index \in Nat
      /\ \A i \in 0..instruction_index - 1 : line_number_mapping[i] \in Nat
  BY DEF TextOK
<1>2. l \in FirstLine(k)..line_number_mapping[k] /\ line_number_mapping[k] \in Nat
  BY <1>1 DEF LinesOf
<1>3. CASE k = 0
  <2>1. FirstLine(k) = 1
    BY <1>3 DEF FirstLine
  <2> QED
    BY <1>2, <1>3, <2>1
<1>4. CASE k # 0
  <2>1. k - 1 \in 0..instruction_index - 1
    BY <1>1, <1>4
  <2>2. FirstLine(k) = line_number_mapping[k - 1] + 1 /\ line_number_mapping[k - 1] \in Nat
    BY <1>1, <1>4, <2>1 DEF FirstLine
  <2>3. l \in Nat /\ l >= 1 /\ l <= line_number_mapping[k] /\ line_number_mapping[k - 1] < l
    BY <1>2, <2>2
  <2>4. ASSUME NEW i \in 0..k - 1
        PROVE  line_number_mapping[i] < l
    <3>1. i \in 0..instruction_index - 1 /\ i <= k - 1
      BY <1>1
    <3>2. line_number_mapping[i] <= line_number_mapping[k - 1] /\ line_number_mapping[i] \in Nat
      BY <1>1, <2>1, <3>1 DEF LinesRise
    <3> QED
      BY <2>2, <2>3, <3>2
  <2> QED
    BY <2>3, <2>4
<1> QED
  BY <1>3, <1>4

LEMMA MapOfLines ==
  ASSUME TextOK, LinesRise, instruction_index > 0
  PROVE  /\ DOMAIN LineToInstruction = 1..line_number_mapping[instruction_index - 1]
         /\ \A l \in DOMAIN LineToInstruction :
              /\ line_number_mapping[LineToInstruction[l]] >= l
              /\ \A i \in 0..LineToInstruction[l] - 1 : line_number_mapping[i] < l
<1> DEFINE N == instruction_index
           all == UNION {LinesOf(k) : k \in DOMAIN line_number_mapping}
<1>1. /\ N \in Nat \ {0} /\ DOMAIN line_number_mapping = 0..N - 1
      /\ \A i \in 0..N - 1 : line_number_mapping[i] \in Nat
  BY DEF TextOK
<1>2. N - 1 \in 0..N - 1 /\ line_number_mapping[N - 1] \in Nat
  BY <1>1
<1>3. ASSUME NEW l \in all
      PROVE  l \in 1..line_number_mapping[N - 1]
  <2>1. PICK k \in 0..N - 1 : l \in LinesOf(k)
    BY <1>1
  <2>2. l \in Nat /\ l >= 1 /\ l <= line_number_mapping[k]
    BY <2>1, LinesBetween
  <2>3. line_number_mapping[k] <= line_number_mapping[N - 1]
    BY <1>1, <1>2 DEF LinesRise
  <2> QED
    BY <1>1, <1>2, <2>2, <2>3
<1>4. ASSUME NEW l \in 1..line_number_mapping[N - 1]
      PROVE  \E k \in 0..N - 1 :
               l \in LinesOf(k) /\ \A i \in 0..k - 1 : line_number_mapping[i] < l
  <2>1. l \in Nat /\ l >= 1 /\ l <= line_number_mapping[N - 1]
    BY <1>2
  <2> QED
    BY <1>2, <2>1, FirstInstruction
<1>5. all = 1..line_number_mapping[N - 1]
  BY <1>1, <1>3, <1>4
<1> DEFINE first(l) ==
      CHOOSE k \in DOMAIN line_number_mapping :
        l \in LinesOf(k) /\ \A m \in DOMAIN line_number_mapping : l \in LinesOf(m) => m <= k
<1>6. LineToInstruction = [l \in all |-> first(l)]
  BY DEF LineToInstruction
<1>7. ASSUME NEW l \in all
      PROVE  /\ line_number_mapping[first(l)] >= l
             /\ \A i \in 0..first(l) - 1 : line_number_mapping[i] < l
  <2>1. PICK k \in 0..N - 1 :
          l \in LinesOf(k) /\ \A i \in 0..k - 1 : line_number_mapping[i] < l
    BY <1>4, <1>5
  <2>2. ASSUME NEW m \in 0..N - 1, l \in LinesOf(m)
        PROVE  m <= k
    <3>1. SUFFICES ASSUME ~(m <= k) PROVE FALSE
      OBVIOUS
    <3>2. k \in 0..m - 1
      BY <1>1, <3>1
    <3>3. line_number_mapping[k] < l
      BY <2>2, <3>2, LinesBetween
    <3>4. l \in Nat /\ l <= line_number_mapping[k]
      BY <2>1, LinesBetween
    <3> QED
      BY <1>1, <3>3, <3>4
  <2>3. /\ first(l) \in 0..N - 1 /\ l \in LinesOf(first(l))
    <3>1. \E j \in DOMAIN line_number_mapping :
            l \in LinesOf(j) /\ \A m \in DOMAIN line_number_mapping : l \in LinesOf(m) => m <= j
      BY <1>1, <2>1, <2>2
    <3> QED
      BY <1>1, <3>1
  <2> HIDE DEF first
  <2>4. l \in Nat /\ l <= line_number_mapping[first(l)]
        /\ \A i \in 0..first(l) - 1 : line_number_mapping[i] < l
    BY <2>3, LinesBetween
  <2> QED
    BY <1>1, <2>3, <2>4
<1> HIDE DEF first, all
<1> QED
  BY <1>5, <1>6, <1>7

LEMMA MapStep ==
  ASSUME TypeOK, LinesRise, LineMapExact, Next
  PROVE  LineMapExact'
<1> SUFFICES ASSUME stage' = "assembled", Instructions' # {}
             PROVE  LET map == program'.line_to_instruction IN
                    /\ DOMAIN map = 1..line_number_mapping'[instruction_index' - 1]
                    /\ \A l \in DOMAIN map :
                         /\ line_number_mapping'[map[l]] >= l
                         /\ \A i \in 0..map[l] - 1 : line_number_mapping'[i] < l
  BY DEF LineMapExact
<1>1. Assemble
  <2>1. CASE ReadTokens \/ SkipSection \/ UnexpectedOutside \/ FirstPass
    BY <2>1 DEF ReadTokens, Abort, SkipSection, UnexpectedOutside, FirstPass, PassBss, PassText,
       EnterData, EndFirstPass
  <2>2. CASE ReadData \/ ReadValues
    BY <2>2 DEF ReadData, EndData, DataLabel, DataDirective, UnknownDirective, InData, ReadValues,
       PassComma, DataValue, ZeroValue, ThrowingValue, EndValues, AtValue, Abort
  <2>3. CASE SecondPass \/ ReadText
    BY <2>3 DEF SecondPass, PassDataOrBss, EnterText, EndSecondPass, ReadText, EndText, TextLabel,
       UnexpectedInText
  <2>4. CASE ParseStatement
    BY <2>4, StatementInText, StatementStep DEF StatementEnds, Assembled, Refused, EndStatement,
       Abort
  <2>5. CASE Patch \/ EndPatch \/ Refuse \/ LoadProgram
    BY <2>5 DEF Patch, EndPatch, Refuse, LoadProgram, cursorVars
  <2> QED
    BY <2>1, <2>2, <2>3, <2>4, <2>5 DEF Next, Parse
<1>2. /\ program'.line_to_instruction = LineToInstruction
      /\ UNCHANGED <<instruction_index, line_number_mapping, intermediate_code>>
  BY <1>1 DEF Assemble, Abort, textVars
<1>3. instruction_index > 0
  BY <1>2 DEF Instructions, TypeOK, TextOK
<1> QED
  BY <1>2, <1>3, MapOfLines DEF TypeOK

LEMMA LineInvInit == AssemblerInit => LineInv
<1> SUFFICES ASSUME AssemblerInit PROVE LineInv
  OBVIOUS
<1>1. /\ source \in Sources /\ stage = "source" /\ instruction_index = 0
      /\ tokens = <<EndOfFile(0)>>
  BY DEF AssemblerInit, Init
<1>2. TokensRise
  <2>1. EndOfFile(0).line = 0
    BY DEF EndOfFile
  <2> QED
    BY <1>1, <2>1 DEF TokensRise
<1> QED
  BY <1>1, <1>2 DEF LineInv, SourceRises, LinesRise, Behind, LineMapExact

LEMMA LineInvStep == AssemblerInv /\ LineInv /\ [Next]_vars => LineInv'
<1>1. CASE UNCHANGED vars
  BY <1>1 DEF vars, LineInv, SourceRises, TokensRise, LinesRise, Behind, currentToken, LineMapExact,
     Instructions
<1>2. ASSUME AssemblerInv, LineInv, Next
      PROVE  LineInv'
  <2>1. /\ TypeOK /\ CursorOK /\ FileOK /\ Early
        /\ SourceRises /\ TokensRise /\ LinesRise /\ Behind /\ LineMapExact
    BY <1>2 DEF AssemblerInv, LineInv, TypeOK
  <2> QED
    BY <1>2, <2>1, TokensRiseStep, LinesStep, MapStep DEF LineInv
<1> QED
  BY <1>1, <1>2

\* Whatever the file, the first instruction at a line or behind it is the one the line is mapped
\* to, up to the last line of a statement (assembler.cpp, the loop over the lines).
THEOREM LineMapAlwaysExact == Spec => []LineMapExact
<1>1. LineInv => LineMapExact
  BY DEF LineInv
<1> QED
  BY <1>1, LineInvInit, LineInvStep, AlwaysInv, PTL DEF Spec

----------------------------------------------------------------------------
(* The layout of the data *)

\* f is where LoadProgram puts each entry of the buffer
Solves(f, buffer) ==
  f = [i \in 1..Len(buffer) |->
         AlignTo(IF i = 1 THEN 0 ELSE f[i - 1] + buffer[i - 1].size, Alignment[buffer[i].kind])]

\* where the next entry would begin without its alignment
EndOf(buffer) ==
  IF Len(buffer) = 0 THEN 0 ELSE Placement(buffer)[Len(buffer)] + buffer[Len(buffer)].size

LEMMA PlacementSolves ==
  ASSUME NEW buffer, NEW f, Solves(f, buffer)
  PROVE  Solves(Placement(buffer), buffer)
<1>1. Placement(buffer) = CHOOSE g : Solves(g, buffer)
  BY Zenon DEF Placement, Solves
<1>2. \E g : Solves(g, buffer)
  OBVIOUS
<1> HIDE DEF Solves
<1> QED
  BY <1>1, <1>2, Zenon

\* The place of an entry depends on the entries up to it only.
LEMMA SamePlaces ==
  ASSUME NEW old \in Seq(Datums), NEW new \in Seq(Datums), Len(old) <= Len(new),
         \A i \in 1..Len(old) : old[i] = new[i],
         NEW f, Solves(f, old), NEW g, Solves(g, new)
  PROVE  \A i \in 1..Len(old) : f[i] = g[i]
<1> DEFINE S == {i \in 1..Len(old) : f[i] # g[i]}
<1>0. Len(old) \in Nat /\ Len(new) \in Nat
  OBVIOUS
<1>1. SUFFICES ASSUME S # {} PROVE FALSE
  OBVIOUS
<1>2. PICK m \in S : \A n \in S : m <= n
  <2>1. S \subseteq Nat
    BY <1>0
  <2> HIDE DEF S
  <2> QED
    BY <1>1, <2>1, Least
<1>3. m \in 1..Len(old) /\ m \in 1..Len(new) /\ f[m] # g[m] /\ old[m] = new[m]
  BY <1>0
<1>4. /\ f[m] = AlignTo(IF m = 1 THEN 0 ELSE f[m - 1] + old[m - 1].size, Alignment[old[m].kind])
      /\ g[m] = AlignTo(IF m = 1 THEN 0 ELSE g[m - 1] + new[m - 1].size, Alignment[new[m].kind])
  BY <1>3 DEF Solves
<1>5. m # 1
  BY <1>3, <1>4
<1>6. m - 1 \in 1..Len(old) /\ m - 1 \notin S
  BY <1>0, <1>2, <1>3, <1>5
<1>7. f[m - 1] = g[m - 1] /\ old[m - 1] = new[m - 1]
  BY <1>6
<1> QED
  BY <1>3, <1>4, <1>5, <1>7

\* One more entry: it begins at the end, aligned, and the others stay where they are.
LEMMA OneMore ==
  ASSUME NEW old \in Seq(Datums), NEW d \in Datums,
         Solves(Placement(old), old), EndOf(old) \in Nat
  PROVE  LET new == Append(old, d) IN
         /\ Solves(Placement(new), new)
         /\ \A i \in 1..Len(old) : Placement(new)[i] = Placement(old)[i]
         /\ Len(new) = Len(old) + 1
         /\ Placement(new)[Len(new)] = AlignTo(EndOf(old), Alignment[d.kind])
         /\ EndOf(new) = AlignTo(EndOf(old), Alignment[d.kind]) + d.size
         /\ EndOf(new) \in Nat
<1> DEFINE new == Append(old, d)
           n == Len(old)
           f == Placement(old)
           last == AlignTo(EndOf(old), Alignment[d.kind])
           h == [i \in 1..n + 1 |-> IF i <= n THEN f[i] ELSE last]
<1>1. /\ n \in Nat /\ new \in Seq(Datums) /\ Len(new) = n + 1 /\ new[n + 1] = d
      /\ \A i \in 1..n : new[i] = old[i]
  OBVIOUS
<1>2. Solves(h, new)
  <2>1. ASSUME NEW i \in 1..n + 1
        PROVE  h[i] = AlignTo(IF i = 1 THEN 0 ELSE h[i - 1] + new[i - 1].size,
                              Alignment[new[i].kind])
    <3>1. CASE i <= n
      <4>1. i \in 1..n /\ h[i] = f[i] /\ new[i] = old[i]
        BY <1>1, <3>1
      <4>2. f[i] = AlignTo(IF i = 1 THEN 0 ELSE f[i - 1] + old[i - 1].size, Alignment[old[i].kind])
        BY <4>1 DEF Solves
      <4>3. i # 1 => h[i - 1] = f[i - 1] /\ new[i - 1] = old[i - 1]
        BY <1>1, <4>1
      <4> QED
        BY <4>1, <4>2, <4>3
    <3>2. CASE i = n + 1
      <4>1. h[i] = last /\ new[i] = d
        BY <1>1, <3>2
      <4>2. i # 1 => h[i - 1] = f[n] /\ new[i - 1] = old[n] /\ n # 0
        BY <1>1, <3>2
      <4>3. i = 1 => n = 0
        BY <1>1, <3>2
      <4> QED
        BY <4>1, <4>2, <4>3 DEF EndOf
    <3> QED
      BY <1>1, <3>1, <3>2
  <2> HIDE DEF new
  <2> QED
    BY <1>1, <2>1 DEF Solves
<1>3. Solves(Placement(new), new)
  BY <1>2, PlacementSolves
<1> HIDE DEF new, h
<1>4. \A i \in 1..n : Placement(new)[i] = f[i]
  BY <1>1, <1>3, SamePlaces
<1>5. Placement(new)[n + 1] = last
  <2>1. new \in Seq(Datums) /\ Len(new) <= Len(new) /\ Len(new) = n + 1
    BY <1>1
  <2>2. \A i \in 1..Len(new) : Placement(new)[i] = h[i]
    BY <1>2, <1>3, <2>1, SamePlaces
  <2>3. n + 1 \in 1..Len(new) /\ h[n + 1] = last
    BY <1>1, <2>1 DEF h
  <2> QED
    BY <2>2, <2>3
<1>6. EndOf(new) = last + d.size
  BY <1>1, <1>5 DEF EndOf
<1>7. last \in Nat /\ d.size \in Nat
  <2>1. d.kind \in DataDirectives /\ d.size \in Nat
    BY DEF Datums
  <2> QED
    BY <2>1, Aligned
<1> QED
  BY <1>1, <1>3, <1>4, <1>5, <1>6, <1>7 DEF new

\* The bytes of .zero need no alignment.
LEMMA ManyBytes ==
  ASSUME NEW old \in Seq(Datums), NEW k \in Nat, k > 0,
         Solves(Placement(old), old), EndOf(old) \in Nat
  PROVE  LET new == old \o [i \in 1..k |-> Datum("byte", 0)] IN
         /\ Solves(Placement(new), new)
         /\ \A i \in 1..Len(old) : Placement(new)[i] = Placement(old)[i]
         /\ Len(new) = Len(old) + k
         /\ Placement(new)[Len(old) + 1] = EndOf(old)
         /\ EndOf(new) = EndOf(old) + k
<1> DEFINE more == [i \in 1..k |-> Datum("byte", 0)]
           new == old \o more
           n == Len(old)
           f == Placement(old)
           h == [i \in 1..n + k |-> IF i <= n THEN f[i] ELSE EndOf(old) + (i - n - 1)]
<1>0. /\ "byte" \in DataDirectives /\ Alignment["byte"] = 1
      /\ Datum("byte", 0) = [kind |-> "byte", size |-> 1]
  BY DEF DataDirectives, Alignment, Datum
<1>1. /\ n \in Nat /\ new \in Seq(Datums) /\ Len(new) = n + k
      /\ \A i \in 1..n : new[i] = old[i]
      /\ \A i \in n + 1..n + k : new[i] = [kind |-> "byte", size |-> 1]
  <2>1. Datum("byte", 0) \in Datums
    BY <1>0 DEF Datums
  <2>2. more \in Seq(Datums) /\ Len(more) = k
    BY <2>1
  <2>3. \A i \in 1..k : more[i] = [kind |-> "byte", size |-> 1]
    BY <1>0
  <2> HIDE DEF more
  <2>4. /\ n \in Nat /\ new \in Seq(Datums) /\ Len(new) = n + k
        /\ \A i \in 1..n : new[i] = old[i]
    BY <2>2
  <2>5. ASSUME NEW i \in n + 1..n + k
        PROVE  new[i] = [kind |-> "byte", size |-> 1]
    <3>1. i - n \in 1..k /\ new[i] = more[i - n]
      BY <2>2, <2>4
    <3> QED
      BY <2>3, <3>1
  <2> QED
    BY <2>4, <2>5
<1>2. ASSUME NEW x \in Nat
      PROVE  AlignTo(x, 1) = x
  BY DEF AlignTo
<1> HIDE DEF new
<1>3. Solves(h, new)
  <2>1. ASSUME NEW i \in 1..n + k
        PROVE  h[i] = AlignTo(IF i = 1 THEN 0 ELSE h[i - 1] + new[i - 1].size,
                              Alignment[new[i].kind])
    <3>1. CASE i <= n
      <4>1. i \in 1..n /\ h[i] = f[i] /\ new[i] = old[i]
        BY <1>1, <3>1
      <4>2. f[i] = AlignTo(IF i = 1 THEN 0 ELSE f[i - 1] + old[i - 1].size, Alignment[old[i].kind])
        BY <4>1 DEF Solves
      <4>3. i # 1 => i - 1 \in 1..n /\ i - 1 \in 1..n + k
        BY <1>1, <4>1
      <4>4. i # 1 => h[i - 1] = f[i - 1] /\ new[i - 1] = old[i - 1]
        BY <1>1, <4>3
      <4> QED
        BY <4>1, <4>2, <4>4
    <3>2. CASE i = n + 1
      <4>1. h[i] = EndOf(old) /\ Alignment[new[i].kind] = 1
        BY <1>0, <1>1, <3>2
      <4>2. i # 1 => h[i - 1] = f[n] /\ new[i - 1] = old[n] /\ n # 0
        BY <1>1, <3>2
      <4>3. i = 1 => n = 0
        BY <1>1, <3>2
      <4>4. (IF i = 1 THEN 0 ELSE h[i - 1] + new[i - 1].size) = EndOf(old)
        BY <3>2, <4>2, <4>3 DEF EndOf
      <4> QED
        BY <1>2, <4>1, <4>4
    <3>3. CASE i > n + 1
      <4>0. /\ i \in n + 1..n + k /\ i - 1 \in n + 1..n + k /\ i - 1 \in 1..n + k
            /\ ~(i <= n) /\ ~(i - 1 <= n) /\ i # 1
        BY <1>1, <3>3
      <4>1. /\ h[i] = EndOf(old) + (i - n - 1) /\ h[i - 1] = EndOf(old) + (i - 1 - n - 1)
            /\ new[i] = [kind |-> "byte", size |-> 1] /\ new[i - 1] = [kind |-> "byte", size |-> 1]
        BY <1>1, <4>0
      <4>2. h[i - 1] + new[i - 1].size = h[i] /\ h[i] \in Nat /\ i # 1
        <5>1. h[i - 1] + 1 = h[i] /\ h[i] \in Nat
          BY <1>1, <3>3, <4>1
        <5> QED
          BY <4>0, <4>1, <5>1
      <4>3. Alignment[new[i].kind] = 1
        BY <1>0, <4>1
      <4> QED
        BY <1>2, <4>2, <4>3
    <3> QED
      BY <1>1, <3>1, <3>2, <3>3
  <2> QED
    BY <1>1, <2>1 DEF Solves
<1>4. Solves(Placement(new), new)
  BY <1>3, PlacementSolves
<1>5. \A i \in 1..n : Placement(new)[i] = f[i]
  <2>1. Len(old) <= Len(new)
    BY <1>1
  <2> QED
    BY <1>1, <1>4, <2>1, SamePlaces
<1>6. \A i \in 1..n + k : Placement(new)[i] = h[i]
  <2> HIDE DEF h
  <2>1. new \in Seq(Datums) /\ Len(new) <= Len(new) /\ Len(new) = n + k
    BY <1>1
  <2>2. \A i \in 1..Len(new) : Placement(new)[i] = h[i]
    BY <1>3, <1>4, <2>1, SamePlaces
  <2> QED
    BY <2>1, <2>2
<1>7. Placement(new)[n + 1] = EndOf(old)
  BY <1>1, <1>6
<1>8. EndOf(new) = EndOf(old) + k
  <2>1. Placement(new)[n + k] = EndOf(old) + (k - 1) /\ new[n + k].size = 1 /\ n + k # 0
    BY <1>1, <1>6
  <2> QED
    BY <1>1, <2>1 DEF EndOf
<1> QED
  BY <1>1, <1>4, <1>5, <1>7, <1>8 DEF new

----------------------------------------------------------------------------
(* The parser and LoadProgram are level *)

Laid == Solves(Placement(data_buffer), data_buffer) /\ EndOf(data_buffer) \in Nat

Untouched == stage = "source" => data_index = 0 /\ data_buffer = <<>> /\ symbol_table = <<>>

Clean == ~EmptyDirective /\ all_errors = <<>>

\* the address of a label and the datum behind it
Stands(s) == s.datum \in 1..Len(data_buffer) /\ Placement(data_buffer)[s.datum] = s.address

Settled ==
  /\ data_index = EndOf(data_buffer)
  /\ \A l \in DOMAIN symbol_table : symbol_table[l].isData => Stands(symbol_table[l])

\* a label was read, and the first value of its directive d was not
Pending(d) ==
  /\ data_index = AlignTo(EndOf(data_buffer), Alignment[d])
  /\ \A l \in DOMAIN symbol_table :
       symbol_table[l].isData =>
         \/ Stands(symbol_table[l])
         \/ symbol_table[l].datum = Len(data_buffer) + 1 /\ symbol_table[l].address = data_index

AtDirective ==
  /\ stage = "data"
  /\ currentToken.value \in DataDirectives /\ currentToken.type \notin {"LABEL", "EOF"}
  /\ pos < Len(tokens) /\ tokens[pos + 1].type = ValueType(currentToken.value)
  /\ Pending(currentToken.value)

AtFirstValue ==
  stage = "values" /\ currentToken.type = ValueType(directive) /\ Pending(directive)

\* In a file without errors the parser is level with LoadProgram, except between a label and the
\* first value behind it.
Level == Clean /\ stage # "aborted" => Settled \/ AtDirective \/ AtFirstValue

LayoutInv == Laid /\ Untouched /\ Level /\ LayoutsAgree

LEMMA StagesApart ==
  ASSUME Next
  PROVE  /\ stage \notin {"aborted", "loaded", "refused"}
         /\ stage = "source" => ReadTokens
         /\ stage = "data" => ReadData
         /\ stage = "values" => ReadValues
         /\ stage' = "loaded" => LoadProgram
<1>1. CASE ReadTokens \/ SkipSection \/ UnexpectedOutside \/ FirstPass
  BY <1>1 DEF ReadTokens, Abort, SkipSection, UnexpectedOutside, FirstPass, PassBss, PassText,
     EnterData, EndFirstPass
<1>2. CASE ReadData \/ ReadValues
  BY <1>2 DEF ReadData, EndData, DataLabel, DataDirective, UnknownDirective, InData, ReadValues,
     PassComma, DataValue, ZeroValue, ThrowingValue, EndValues, AtValue, Abort
<1>3. CASE SecondPass \/ ReadText
  BY <1>3 DEF SecondPass, PassDataOrBss, EnterText, EndSecondPass, ReadText, EndText, TextLabel,
     UnexpectedInText
<1>4. CASE ParseStatement
  BY <1>4, StatementInText, StatementStep DEF StatementEnds, Assembled, Refused, EndStatement,
     Abort
<1>5. CASE Patch \/ EndPatch \/ Assemble \/ Refuse \/ LoadProgram
  BY <1>5 DEF Patch, EndPatch, Assemble, Refuse, LoadProgram, cursorVars, Abort
<1> QED
  BY <1>1, <1>2, <1>3, <1>4, <1>5 DEF Next, Parse

\* What one value of a directive does to the layout.
LEMMA ValueLaid ==
  ASSUME CursorOK, DataOK, Laid, DataValue
  PROVE  /\ Laid'
         /\ Len(data_buffer') = Len(data_buffer) + 1
         /\ \A i \in 1..Len(data_buffer) : Placement(data_buffer')[i] = Placement(data_buffer)[i]
         /\ Placement(data_buffer')[Len(data_buffer) + 1]
              = AlignTo(EndOf(data_buffer), Alignment[directive])
         /\ \E size :
              /\ EndOf(data_buffer') = AlignTo(EndOf(data_buffer), Alignment[directive]) + size
              /\ data_index' = AlignTo(data_index, Alignment[directive]) + size
<1> USE CurrentIsToken
<1> DEFINE d == Datum(directive, currentToken.num)
<1>1. directive \in DataDirectives
  BY DEF DataValue, AtValue, CursorOK
<1>2. d \in Datums /\ d.kind = directive
  <2>1. directive = "string" => currentToken.type = "STRING"
    BY DEF DataValue, AtValue, ValueType
  <2>2. currentToken.num \in Int /\ (directive = "string" => currentToken.num \in Nat)
    BY <2>1
  <2>3. d.kind = directive
    BY DEF Datum
  <2> QED
    BY <1>1, <2>2, <2>3, DatumOK
<1> HIDE DEF d
<1>3. /\ data_buffer' = Append(data_buffer, d)
      /\ data_index' = AlignTo(data_index, Alignment[directive]) + d.size
  BY DEF DataValue, d
<1>4. data_buffer \in Seq(Datums)
  BY DEF DataOK, Datums
<1>5. Solves(Placement(data_buffer), data_buffer) /\ EndOf(data_buffer) \in Nat
  BY DEF Laid
<1> QED
  BY <1>2, <1>3, <1>4, <1>5, OneMore DEF Laid

LEMMA ZerosLaid ==
  ASSUME CursorOK, DataOK, Laid, ZeroValue, UNCHANGED errorVars, ErrorsOK
  PROVE  LET n == currentToken.num IN
         /\ Laid'
         /\ n \in Nat /\ Len(data_buffer') = Len(data_buffer) + n /\ n > 0
         /\ \A i \in 1..Len(data_buffer) : Placement(data_buffer')[i] = Placement(data_buffer)[i]
         /\ Placement(data_buffer')[Len(data_buffer) + 1] = EndOf(data_buffer)
         /\ EndOf(data_buffer') = EndOf(data_buffer) + n
         /\ data_index' = data_index + n
<1> DEFINE n == currentToken.num
<1>1. n \in Int
  BY CurrentIsToken
<1>2. /\ n > 0 /\ n \in Nat
      /\ data_buffer' = data_buffer \o [i \in 1..n |-> Datum("byte", 0)]
      /\ data_index' = data_index + n
  <2>1. \A kind, line : ~(recordError(kind, line) /\ UNCHANGED errorVars)
    BY DEF recordError, errorVars, ErrorsOK
  <2> QED
    BY <1>1, <2>1 DEF ZeroValue
<1>3. data_buffer \in Seq(Datums)
  BY DEF DataOK, Datums
<1>4. Solves(Placement(data_buffer), data_buffer) /\ EndOf(data_buffer) \in Nat
  BY DEF Laid
<1> HIDE DEF n
<1>5. /\ Laid'
      /\ n \in Nat /\ Len(data_buffer') = Len(data_buffer) + n /\ n > 0
      /\ \A i \in 1..Len(data_buffer) : Placement(data_buffer')[i] = Placement(data_buffer)[i]
      /\ Placement(data_buffer')[Len(data_buffer) + 1] = EndOf(data_buffer)
      /\ EndOf(data_buffer') = EndOf(data_buffer) + n
      /\ data_index' = data_index + n
  <2>1. EndOf(data_buffer) + n \in Nat
    BY <1>2, <1>4
  <2> QED
    BY <1>2, <1>3, <1>4, <2>1, ManyBytes DEF Laid
<1> QED
  BY <1>5 DEF n

\* What is aligned is not moved again.
LEMMA AlignedStays ==
  ASSUME NEW d \in DataDirectives, NEW n \in Nat
  PROVE  AlignTo(AlignTo(n, Alignment[d]), Alignment[d]) = AlignTo(n, Alignment[d])
<1>1. Alignment[d] \in {1, 2, 4, 8}
  BY DEF DataDirectives, Alignment
<1>2. CASE Alignment[d] = 1
  BY <1>2 DEF AlignTo
<1>3. CASE Alignment[d] = 2
  BY <1>3 DEF AlignTo
<1>4. CASE Alignment[d] = 4
  BY <1>4 DEF AlignTo
<1>5. CASE Alignment[d] = 8
  BY <1>5 DEF AlignTo
<1> QED
  BY <1>1, <1>2, <1>3, <1>4, <1>5

LEMMA LaidStep ==
  ASSUME TypeOK, Laid, Next
  PROVE  Laid'
<1> USE DEF TypeOK
<1>1. CASE UNCHANGED data_buffer
  BY <1>1 DEF Laid
<1>2. CASE DataValue
  BY <1>2, ValueLaid
<1>3. CASE ZeroValue /\ UNCHANGED errorVars
  BY <1>3, ZerosLaid
<1>4. CASE ZeroValue /\ ~UNCHANGED errorVars
  <2>1. UNCHANGED data_buffer
    BY <1>4 DEF ZeroValue, dataVars, errorVars
  <2> QED
    BY <1>1, <2>1
<1> QED
  BY <1>1, <1>2, <1>3, <1>4, DataFrame DEF DataLabel, TextLabel, dataVars

\* A label that stands goes on to stand while data are appended.
LEMMA StillStands ==
  ASSUME DataOK, NEW s, Stands(s), Len(data_buffer') \in Nat, Len(data_buffer') >= Len(data_buffer),
         \A i \in 1..Len(data_buffer) : Placement(data_buffer')[i] = Placement(data_buffer)[i]
  PROVE  s.datum \in 1..Len(data_buffer') /\ Placement(data_buffer')[s.datum] = s.address
<1>1. Len(data_buffer) \in Nat
  BY DEF DataOK
<1> QED
  BY <1>1 DEF Stands

\* The first value behind a label settles it.
LEMMA ValueSettles ==
  ASSUME CursorOK, DataOK, Laid, DataValue, Settled \/ Pending(directive)
  PROVE  Settled'
<1> DEFINE a == Alignment[directive]
           end == EndOf(data_buffer)
           N == Len(data_buffer)
<1>1. /\ Len(data_buffer') = N + 1 /\ N \in Nat
      /\ \A i \in 1..N : Placement(data_buffer')[i] = Placement(data_buffer)[i]
      /\ Placement(data_buffer')[N + 1] = AlignTo(end, a)
  BY ValueLaid DEF DataOK
<1>2. PICK size : EndOf(data_buffer') = AlignTo(end, a) + size
                  /\ data_index' = AlignTo(data_index, a) + size
  BY ValueLaid
<1>3. UNCHANGED symbol_table
  BY DEF DataValue
<1>4. AlignTo(AlignTo(end, a), a) = AlignTo(end, a)
  <2>1. directive \in DataDirectives /\ end \in Nat
    BY DEF DataValue, AtValue, CursorOK, Laid
  <2> QED
    BY <2>1, AlignedStays
<1>5. data_index' = EndOf(data_buffer')
  BY <1>2, <1>4 DEF Settled, Pending
<1>6. ASSUME NEW l \in DOMAIN symbol_table, symbol_table[l].isData
      PROVE  /\ symbol_table[l].datum \in 1..N + 1
             /\ Placement(data_buffer')[symbol_table[l].datum] = symbol_table[l].address
  <2>1. CASE Stands(symbol_table[l])
    BY <1>1, <2>1, StillStands
  <2>2. CASE /\ symbol_table[l].datum = N + 1 /\ symbol_table[l].address = data_index
             /\ Pending(directive)
    BY <1>1, <2>2 DEF Pending
  <2> QED
    BY <1>6, <2>1, <2>2 DEF Settled, Pending
<1> QED
  BY <1>1, <1>3, <1>5, <1>6 DEF Settled, Stands

LEMMA ZerosSettle ==
  ASSUME CursorOK, DataOK, Laid, ZeroValue, UNCHANGED errorVars, ErrorsOK,
         Settled \/ Pending(directive)
  PROVE  Settled'
<1> DEFINE end == EndOf(data_buffer)
           N == Len(data_buffer)
           n == currentToken.num
<1>1. /\ Len(data_buffer') = N + n /\ N \in Nat /\ n \in Nat /\ n > 0
      /\ \A i \in 1..N : Placement(data_buffer')[i] = Placement(data_buffer)[i]
      /\ Placement(data_buffer')[N + 1] = end
      /\ EndOf(data_buffer') = end + n
      /\ data_index' = data_index + n
  BY ZerosLaid DEF DataOK
<1>2. UNCHANGED symbol_table
  BY DEF ZeroValue
<1>3. AlignTo(end, Alignment[directive]) = end
  <2>1. directive = "zero" /\ Alignment["zero"] = 1 /\ end \in Nat
    BY DEF ZeroValue, Laid, Alignment
  <2> QED
    BY <2>1 DEF AlignTo
<1>4. data_index = end
  BY <1>3 DEF Settled, Pending
<1> HIDE DEF n
<1>5. ASSUME NEW l \in DOMAIN symbol_table, symbol_table[l].isData
      PROVE  /\ symbol_table[l].datum \in 1..N + n
             /\ Placement(data_buffer')[symbol_table[l].datum] = symbol_table[l].address
  <2>1. CASE Stands(symbol_table[l])
    BY <1>1, <2>1, StillStands
  <2>2. CASE symbol_table[l].datum = N + 1 /\ symbol_table[l].address = data_index
    BY <1>1, <1>4, <2>2
  <2> QED
    BY <1>5, <2>1, <2>2 DEF Settled, Pending
<1> QED
  BY <1>1, <1>2, <1>4, <1>5 DEF Settled, Stands

\* In a file without errors a label of the data section is followed by the directive it is
\* aligned for, and that by a value.
LEMMA LabelPends ==
  ASSUME CursorOK, DataOK, ErrorsOK, Laid, Clean, Settled, DataLabel, UNCHANGED errorVars
  PROVE  AtDirective'
<1>0. PICK d : d = tokens[pos + 1].value
  OBVIOUS
<1>1. /\ stage = "data" /\ stage' = "data" /\ pos' = pos + 1 /\ currentToken.type = "LABEL"
      /\ UNCHANGED <<tokens, data_buffer>>
  BY DEF DataLabel, InData, nextToken, fileVars
<1>2. pos \in 1..Len(tokens) - 1 /\ pos + 1 \in 1..Len(tokens)
  BY <1>1, NextIsToken DEF CursorOK
<1>3. peekToken(1) = tokens[pos + 1]
  BY <1>2 DEF peekToken, CursorOK
<1>4. /\ d \in DataDirectives
      /\ data_index' = AlignTo(data_index, Alignment[d])
  <2>1. \A kind, line : ~(recordError(kind, line) /\ UNCHANGED errorVars)
    BY DEF recordError, errorVars, ErrorsOK
  <2> QED
    BY <1>0, <1>3, <2>1 DEF DataLabel
<1>5. tokens[pos + 1].type = "DIRECTIVE" /\ tokens[pos + 2].type = ValueType(d)
  <2>1. ~(/\ tokens[pos].type = "LABEL" /\ tokens[pos + 1].value \in DataDirectives
          /\ tokens[pos + 1].type = "DIRECTIVE" =>
               tokens[pos + 2].type # ValueType(tokens[pos + 1].value))
    BY <1>2 DEF Clean, EmptyDirective
  <2> QED
    BY <1>0, <1>1, <1>4, <2>1 DEF currentToken
<1>6. pos + 1 < Len(tokens) /\ (pos + 1) + 1 = pos + 2
  BY <1>2, <1>5 DEF CursorOK
<1>7. currentToken' = tokens[pos + 1]
  BY <1>1 DEF currentToken
<1>8. Pending(d)'
  <2>1. ASSUME NEW l \in DOMAIN symbol_table', symbol_table'[l].isData
        PROVE  \/ Stands(symbol_table'[l])
               \/ /\ symbol_table'[l].datum = Len(data_buffer) + 1
                  /\ symbol_table'[l].address = data_index'
    <3>1. Define(currentToken.value, data_index', currentToken.line, TRUE)
      BY DEF DataLabel
    <3> QED
      BY <2>1, <3>1 DEF Define, Settled
  <2>2. data_index' = AlignTo(EndOf(data_buffer'), Alignment[d])
    BY <1>1, <1>4 DEF Settled
  <2> QED
    BY <1>1, <2>1, <2>2 DEF Pending, Stands
<1>9. (currentToken.value)' = d
  BY <1>0, <1>7
<1>10. Pending(currentToken.value)'
  BY <1>8, <1>9 DEF Pending
<1> QED
  BY <1>1, <1>4, <1>5, <1>6, <1>7, <1>9, <1>10 DEF AtDirective

LEMMA LevelStep ==
  ASSUME TypeOK, Laid, Untouched, Level, Next
  PROVE  Level'
<1> SUFFICES ASSUME Clean', stage' # "aborted"
             PROVE  Settled' \/ AtDirective' \/ AtFirstValue'
  BY DEF Level
<1> USE DEF TypeOK
<1>1. UNCHANGED errorVars /\ all_errors = <<>>
  BY NewErrors DEF Clean, errorVars
<1>2. CASE stage = "source"
  <2>1. /\ data_index = 0 /\ data_buffer = <<>> /\ symbol_table = <<>>
        /\ UNCHANGED <<data_index, data_buffer, symbol_table>>
    BY <1>2, StagesApart DEF Untouched, ReadTokens, dataVars
  <2>2. DOMAIN symbol_table' = {}
    BY <2>1
  <2> QED
    BY <2>1, <2>2 DEF Settled, EndOf
<1>3. CASE stage # "source"
  <2>1. UNCHANGED tokens
    BY <1>3, TokensStay
  <2>2. Clean
    BY <1>1, <2>1 DEF Clean, EmptyDirective
  <2>3. Settled \/ AtDirective \/ AtFirstValue
    BY <2>2, StagesApart DEF Level
  <2>4. CASE DataLabel
    <3>1. Settled
      BY <2>3, <2>4 DEF DataLabel, InData, AtDirective, AtFirstValue
    <3> QED
      BY <1>1, <2>2, <2>4, <3>1, LabelPends
  <2>5. CASE DataValue
    <3>1. Settled \/ Pending(directive)
      BY <2>3, <2>5 DEF DataValue, AtValue, AtDirective, AtFirstValue
    <3> QED
      BY <2>5, <3>1, ValueSettles
  <2>6. CASE ZeroValue
    <3>1. Settled \/ Pending(directive)
      BY <2>3, <2>6 DEF ZeroValue, AtValue, AtDirective, AtFirstValue
    <3> QED
      BY <1>1, <2>6, <3>1, ZerosSettle
  <2>7. CASE TextLabel
    <3>1. Settled
      BY <2>3, <2>7 DEF TextLabel, AtDirective, AtFirstValue
    <3>2. /\ UNCHANGED <<data_index, data_buffer>>
          /\ Define(currentToken.value, instruction_index * 4, currentToken.line, FALSE)
               \/ UNCHANGED symbol_table
      BY <2>7 DEF TextLabel, dataVars
    <3>3. ASSUME NEW l \in DOMAIN symbol_table', symbol_table'[l].isData
          PROVE  Stands(symbol_table'[l])
      BY <3>1, <3>2, <3>3 DEF Define, Settled
    <3> QED
      BY <3>1, <3>2, <3>3 DEF Settled, Stands
  <2>8. CASE UNCHANGED <<dataVars, symbol_table>> /\ ~DataLabel /\ ~DataValue /\ ~ZeroValue
    <3> USE DEF dataVars
    <3>1. CASE Settled
      BY <2>8, <3>1 DEF Settled, Stands
    <3>2. CASE AtDirective
      <4>1. DataDirective
        <5>1. ReadData /\ ~AtEnd /\ currentToken.value \notin SectionNames
              /\ currentToken.type # "LABEL" /\ currentToken.value \in DataDirectives
          BY <3>2, StagesApart
             DEF AtDirective, AtEnd, SectionNames, DataDirectives, Alignment
        <5> QED
          BY <5>1, <2>8 DEF ReadData, EndData, UnknownDirective
      <4>2. /\ stage' = "values" /\ directive' = currentToken.value /\ pos' = pos + 1
        BY <4>1 DEF DataDirective, nextToken
      <4>3. currentToken' = tokens[pos + 1]
        BY <2>1, <4>2 DEF currentToken
      <4>4. Pending(directive')
        BY <3>2, <4>2 DEF AtDirective
      <4>5. Pending(directive)'
        BY <2>8, <4>4 DEF Pending, Stands
      <4> QED
        BY <3>2, <4>2, <4>3, <4>5 DEF AtDirective, AtFirstValue
    <3>3. CASE AtFirstValue
      <4>1. ReadValues
        BY <3>3, StagesApart DEF AtFirstValue
      <4>2. ValueType(directive) # "COMMA"
        BY DEF ValueType
      <4>3. ~ThrowingValue
        BY DEF ThrowingValue, Abort
      <4> QED
        BY <2>8, <3>3, <4>1, <4>2, <4>3 DEF AtFirstValue, ReadValues, PassComma, EndValues
    <3> QED
      BY <2>3, <3>1, <3>2, <3>3
  <2> QED
    BY <2>4, <2>5, <2>6, <2>7, <2>8, DataFrame
<1> QED
  BY <1>2, <1>3

LEMMA LoadedStep ==
  ASSUME AssemblerInv, Level, Next
  PROVE  LayoutsAgree'
<1> SUFFICES ASSUME stage' = "loaded", ~EmptyDirective'
             PROVE  LabelsMatchMemory'
  BY DEF LayoutsAgree
<1>1. LoadProgram
  BY StagesApart
<1>2. /\ stage = "assembled" /\ UNCHANGED <<tokens, data_buffer, symbol_table>>
      /\ placed' = Placement(data_buffer)
  BY <1>1 DEF LoadProgram, fileVars, dataVars
<1>3. Clean
  <2>1. ~EmptyDirective
    BY <1>2 DEF EmptyDirective
  <2>2. all_errors = <<>>
    BY <1>2, AcceptedIsDone
  <2> QED
    BY <2>1, <2>2 DEF Clean
<1>4. Settled
  BY <1>2, <1>3 DEF Level, AtDirective, AtFirstValue
<1> QED
  BY <1>2, <1>4 DEF LabelsMatchMemory, Settled, Stands

LEMMA UntouchedStep ==
  ASSUME Next
  PROVE  Untouched'
BY StageFrame, StagesApart DEF Untouched, ReadTokens, Abort

LEMMA LayoutInvInit == AssemblerInit => LayoutInv
<1> SUFFICES ASSUME AssemblerInit PROVE LayoutInv
  OBVIOUS
<1>1. /\ stage = "source" /\ data_index = 0 /\ data_buffer = <<>> /\ symbol_table = <<>>
  BY DEF AssemblerInit, Init
<1>2. Laid
  <2> DEFINE f == [i \in 1..0 |-> 0]
  <2>1. Len(<<>>) = 0 /\ 1..0 = {}
    OBVIOUS
  <2>2. Solves(f, <<>>)
    BY <2>1 DEF Solves
  <2>3. Solves(Placement(<<>>), <<>>)
    BY <2>2, PlacementSolves
  <2> QED
    BY <1>1, <2>1, <2>3 DEF Laid, EndOf
<1>3. Settled
  BY <1>1 DEF Settled, EndOf
<1> QED
  BY <1>1, <1>2, <1>3 DEF LayoutInv, Untouched, Level, LayoutsAgree

LEMMA LayoutInvStep == AssemblerInv /\ LayoutInv /\ [Next]_vars => LayoutInv'
<1>1. CASE UNCHANGED vars
  <2>1. /\ tokens' = tokens /\ pos' = pos /\ stage' = stage /\ directive' = directive
        /\ data_index' = data_index /\ data_buffer' = data_buffer
        /\ symbol_table' = symbol_table /\ all_errors' = all_errors /\ placed' = placed
    BY <1>1 DEF vars
  <2>2. (Laid => Laid') /\ (Untouched => Untouched') /\ (LayoutsAgree => LayoutsAgree')
    BY <2>1 DEF Laid, Untouched, LayoutsAgree, LabelsMatchMemory, EmptyDirective
  <2>3. Settled => Settled'
    BY <2>1 DEF Settled, Stands
  <2>4. Clean' => Clean
    BY <2>1 DEF Clean, EmptyDirective
  <2>5. (AtDirective => AtDirective') /\ (AtFirstValue => AtFirstValue')
    BY <2>1 DEF AtDirective, AtFirstValue, Pending, Stands, currentToken
  <2> QED
    BY <2>1, <2>2, <2>3, <2>4, <2>5 DEF LayoutInv, Level
<1>2. ASSUME AssemblerInv, LayoutInv, Next
      PROVE  LayoutInv'
  <2>1. TypeOK /\ Laid /\ Untouched /\ Level
    BY <1>2 DEF AssemblerInv, LayoutInv
  <2> QED
    BY <1>2, <2>1, LaidStep, UntouchedStep, LevelStep, LoadedStep DEF LayoutInv
<1> QED
  BY <1>1, <1>2

\* The address of every data label (parser.cpp, parseDataDirective) is the one at which
\* LoadProgram (vm_base.cpp) puts the datum behind it, in every file whose labels stand before a
\* directive with a value.
THEOREM LayoutsAlwaysAgree == Spec => []LayoutsAgree
<1>1. LayoutInv => LayoutsAgree
  BY DEF LayoutInv
<1> QED
  BY <1>1, LayoutInvInit, LayoutInvStep, AlwaysInv, PTL DEF Spec

----------------------------------------------------------------------------
(* The addresses of the data *)

\* Only the last token ends the file.
OneEnd == \A k \in 1..Len(tokens) - 1 : tokens[k].type # "EOF"

Branching == BTypeInstructions \cup JTypeInstructions

LEMMA NoLexemeEnds ==
  ASSUME NEW x \in Lexeme, NEW afterComma
  PROVE  getNextToken(x, afterComma).type # "EOF"
<1>1. NameType(x.text, afterComma) # "EOF"
  BY DEF NameType
<1> DEFINE f == x.form
           name == NameType(x.text, afterComma)
<1>2. f \in Form
  BY DEF Lexeme
<1>3. LexemeType(x, afterComma) =
        CASE f = "word" -> name [] f = "definition" -> "LABEL" [] f = "number" -> "NUM"
          [] f = "float" -> "FLOAT" [] f = "string" -> "STRING" [] f = "directive" -> "DIRECTIVE"
          [] f = "comma" -> "COMMA" [] f = "lparen" -> "LPAREN" [] f = "rparen" -> "RPAREN"
          [] f \in {"dotted", "huge", "other"} -> "INVALID"
  BY DEF LexemeType
<1>4. name # "EOF"
  BY <1>1
<1> HIDE DEF f, name
<1>5. LexemeType(x, afterComma) # "EOF"
  BY <1>2, <1>3, <1>4, SMT DEF Form
<1> QED
  BY <1>5 DEF getNextToken

LEMMA OneEndStep ==
  ASSUME FileOK, OneEnd, Next
  PROVE  OneEnd'
<1>1. CASE UNCHANGED tokens
  BY <1>1 DEF OneEnd
<1>2. CASE tokens' = getTokenList(source)
  <2>1. source \in Seq(Lexeme) /\ Len(tokens') = Len(source) + 1 /\ Len(source) \in Nat
    BY <1>2, TokenList DEF FileOK
  <2>2. ASSUME NEW k \in 1..Len(source)
        PROVE  tokens'[k].type # "EOF"
    <3>1. tokens'[k] = getNextToken(source[k], k > 1 /\ source[k - 1].form = "comma")
      BY <1>2, <2>1 DEF getTokenList
    <3>2. source[k] \in Lexeme
      BY <2>1
    <3> QED
      BY <3>1, <3>2, NoLexemeEnds
  <2> QED
    BY <2>1, <2>2 DEF OneEnd
<1> QED
  BY <1>1, <1>2, TokensStay

\* The label at the end of the line is the last operand of the statement.
LEMMA LabelIsOperand ==
  ASSUME CursorOK, TokensRise, OneEnd, InText, NEW p, NEW n \in Nat, Len(p) = n, Fits(p),
         NEW l \in LabelOnLine(currentToken.line)
  PROVE  n \in 1..n /\ p[n] = "LABEL_REF" /\ l = peekToken(n).value
<1> DEFINE N == Len(tokens)
           line == currentToken.line
           q == pos + n
<1>1. /\ N \in Nat /\ pos \in 1..N - 1 /\ tokens[pos] = currentToken
      /\ currentToken.type = "OPCODE" /\ tokens[N].type = "EOF"
  BY DEF CursorOK, InText, currentToken
<1>2. \A k \in 1..N : tokens[k].line \in Nat
  <2>1. \A k \in 1..N : tokens[k] \in Token
    BY DEF CursorOK
  <2> QED
    BY <2>1 DEF Token
<1>3. ASSUME NEW m \in 1..n
      PROVE  /\ pos + m \in 1..N - 1 /\ peekToken(m) = tokens[pos + m]
             /\ tokens[pos + m].line = line /\ tokens[pos + m].type = p[m]
  <2>1. peekToken(m).type # "EOF" /\ peekToken(m).line = line /\ peekToken(m).type = p[m]
    BY DEF Fits, OnLine
  <2>2. pos + m <= N
    BY <1>1, <2>1 DEF peekToken, EndOfFile
  <2>3. peekToken(m) = tokens[pos + m]
    BY <2>2 DEF peekToken
  <2>4. pos + m # N
    BY <1>1, <2>1, <2>3
  <2> QED
    BY <1>1, <2>1, <2>2, <2>3, <2>4
<1>4. q \in 1..N - 1 /\ tokens[q].line = line
  <2>1. CASE n = 0
    BY <1>1, <2>1
  <2>2. CASE n # 0
    <3>1. n \in 1..n
      BY <2>2
    <3> QED
      BY <1>3, <3>1
  <2> QED
    BY <2>1, <2>2
<1>5. tokens[q + 1].type = "EOF" \/ tokens[q + 1].line # line
  <2>1. peekToken(n + 1) = tokens[q + 1]
    BY <1>1, <1>4 DEF peekToken
  <2> QED
    BY <2>1 DEF Fits, OnLine
<1>6. PICK j \in 1..N - 1 :
        /\ l = tokens[j].value /\ tokens[j].line = line /\ tokens[j].type = "LABEL_REF"
        /\ tokens[j + 1].type = "EOF" \/ tokens[j + 1].line # line
  BY DEF LabelOnLine
<1> HIDE DEF line, q
<1>7. ~(j < q)
  <2>1. SUFFICES ASSUME j < q PROVE FALSE
    OBVIOUS
  <2>2. j + 1 \in 1..N - 1 /\ j + 1 <= q /\ j <= j + 1 /\ j \in 1..N /\ j + 1 \in 1..N /\ q \in 1..N
    BY <1>1, <1>4, <2>1
  <2>3. tokens[j].line <= tokens[j + 1].line /\ tokens[j + 1].line <= tokens[q].line
    BY <2>2 DEF TokensRise
  <2>4. tokens[j + 1].line = line
    BY <1>2, <1>4, <1>6, <2>2, <2>3
  <2>5. tokens[j + 1].type # "EOF"
    BY <2>2 DEF OneEnd
  <2> QED
    BY <1>6, <2>4, <2>5
<1>8. ~(q < j)
  <2>1. SUFFICES ASSUME q < j PROVE FALSE
    OBVIOUS
  <2>2. q + 1 \in 1..N - 1 /\ q + 1 <= j /\ q <= q + 1 /\ j \in 1..N /\ q + 1 \in 1..N /\ q \in 1..N
    BY <1>1, <1>4, <2>1
  <2>3. tokens[q].line <= tokens[q + 1].line /\ tokens[q + 1].line <= tokens[j].line
    BY <2>2 DEF TokensRise
  <2>4. tokens[q + 1].line = line
    BY <1>2, <1>4, <1>6, <2>2, <2>3
  <2>5. tokens[q + 1].type # "EOF"
    BY <2>2 DEF OneEnd
  <2> QED
    BY <1>5, <2>4, <2>5
<1>9. j = q
  BY <1>1, <1>4, <1>7, <1>8
<1>10. n # 0
  BY <1>1, <1>6, <1>9 DEF q
<1>11. n \in 1..n
  BY <1>10
<1> QED
  BY <1>3, <1>6, <1>9, <1>11 DEF q

\* No other syntax has a label for an operand.
LEMMA PatternsWithoutLabel ==
  /\ \A s \in DOMAIN RegisterPattern :
       /\ Len(RegisterPattern[s]) \in Nat
       /\ \A n \in 1..Len(RegisterPattern[s]) : RegisterPattern[s][n] # "LABEL_REF"
  /\ \A s \in DOMAIN ImmediatePattern :
       /\ Len(ImmediatePattern[s]) \in Nat
       /\ \A n \in 1..Len(ImmediatePattern[s]) : ImmediatePattern[s][n] # "LABEL_REF"
  /\ Len(CsrPattern) = 5 /\ CsrPattern[5] # "LABEL_REF"
<1> DEFINE T == {"GP_REGISTER", "FP_REGISTER", "CSR_REGISTER", "COMMA", "NUM", "RM", "LPAREN",
                 "RPAREN"}
<1>1. /\ <<>> \in Seq(T) /\ <<G, C, G, C, G>> \in Seq(T) /\ <<F, C, F, C, F, C, F>> \in Seq(T)
      /\ <<F, C, F, C, F, C, F, C, "RM">> \in Seq(T) /\ <<F, C, F, C, F>> \in Seq(T)
      /\ <<F, C, F, C, F, C, "RM">> \in Seq(T) /\ <<F, C, F>> \in Seq(T)
      /\ <<F, C, F, C, "RM">> \in Seq(T) /\ <<F, C, G>> \in Seq(T)
      /\ <<F, C, G, C, "RM">> \in Seq(T) /\ <<G, C, F>> \in Seq(T)
      /\ <<G, C, F, C, "RM">> \in Seq(T) /\ <<G, C, F, C, F>> \in Seq(T)
  BY DEF G, F, C
<1>3. /\ <<G, C, G, C, "NUM">> \in Seq(T) /\ <<G, C, "NUM">> \in Seq(T)
      /\ <<G, C, "NUM", "LPAREN", G, "RPAREN">> \in Seq(T)
      /\ <<F, C, "NUM", "LPAREN", G, "RPAREN">> \in Seq(T)
      /\ <<G, C, "CSR_REGISTER", C, "NUM">> \in Seq(T)
  BY DEF G, F, C
<1> HIDE DEF T
<1>2. ASSUME NEW s \in DOMAIN RegisterPattern
      PROVE  RegisterPattern[s] \in Seq(T)
  <2>1. RegisterPattern[s] \in
          { <<>>, <<G, C, G, C, G>>, <<F, C, F, C, F, C, F>>,
            <<F, C, F, C, F, C, F, C, "RM">>, <<F, C, F, C, F>>, <<F, C, F, C, F, C, "RM">>,
            <<F, C, F>>, <<F, C, F, C, "RM">>, <<F, C, G>>, <<F, C, G, C, "RM">>,
            <<G, C, F>>, <<G, C, F, C, "RM">>, <<G, C, F, C, F>> }
    BY DEF RegisterPattern
  <2> QED
    BY <1>1, <2>1
<1>4. ASSUME NEW s \in DOMAIN ImmediatePattern
      PROVE  ImmediatePattern[s] \in Seq(T)
  <2>1. ImmediatePattern[s] \in
          { <<G, C, G, C, "NUM">>, <<G, C, "NUM">>, <<G, C, "NUM", "LPAREN", G, "RPAREN">>,
            <<F, C, "NUM", "LPAREN", G, "RPAREN">>, <<G, C, "CSR_REGISTER", C, "NUM">> }
    BY DEF ImmediatePattern
  <2> QED
    BY <1>3, <2>1
<1>5. ASSUME NEW p \in Seq(T)
      PROVE  Len(p) \in Nat /\ \A n \in 1..Len(p) : p[n] # "LABEL_REF"
  BY DEF T
<1>6. Len(CsrPattern) = 5 /\ CsrPattern[5] # "LABEL_REF"
  BY DEF CsrPattern, G, C
<1> QED
  BY <1>2, <1>4, <1>5, <1>6

\* The opcodes whose syntax has one.
LEMMA LabelledOpcodes ==
  ASSUME NEW n
  PROVE  /\ "O_GPR_C_IL" \in instruction_syntax_map(n) => n \in Branching
         /\ "O_GPR_C_GPR_C_IL" \in instruction_syntax_map(n) => n \in Branching
         /\ "O_GPR_C_DL" \in instruction_syntax_map(n) => n \in Loads
<1>1. CASE n \in BTypeInstructions
  BY <1>1, SyntaxOfBranches DEF Branching
<1>2. ASSUME n \notin Branching
      PROVE  /\ "O_GPR_C_IL" \notin instruction_syntax_map(n)
             /\ "O_GPR_C_GPR_C_IL" \notin instruction_syntax_map(n)
  BY <1>2, SMTT(30) DEF instruction_syntax_map, Branching
<1>3. ASSUME n \notin BTypeInstructions, n \notin Loads
      PROVE  "O_GPR_C_DL" \notin instruction_syntax_map(n)
  BY <1>3, SMTT(30) DEF instruction_syntax_map
<1> QED
  BY <1>1, <1>2, <1>3

\* u and v, at instruction i, add up to the address of label l.
Reaches(u, v, i, l) ==
  /\ IsDataLabel(l) /\ v.rs1 = u.rd /\ Within(v.imm, -2048, 2047)
  /\ i * 4 + u.imm * 4096 + v.imm = DataSectionStart + symbol_table[l].address

\* What an auipc from a statement on the line is followed by.
PairOn(line, u, v, i) ==
  u.op = "auipc" => \A l \in LabelOnLine(line) : v.op \notin Branching /\ Reaches(u, v, i, l)

Alone(line, u) == u.op = "auipc" => LabelOnLine(line) = {}

\* What a statement appends, with the label of its line.
StatementPairs ==
  LET line == currentToken.line IN
  \/ UNCHANGED textVars
  \/ \E u : Alone(line, u) /\ Emit(<<u>>, TRUE) /\ UNCHANGED back_patch
  \/ \E u : /\ u.op \in Branching /\ Emit(<<u>>, FALSE)
            /\ back_patch' = Append(back_patch, instruction_index)
  \/ \E u, v : /\ v.op # "auipc" /\ PairOn(line, u, v, instruction_index)
               /\ Emit(<<u, v>>, TRUE) /\ UNCHANGED back_patch

LEMMA DataLabelPair ==
  ASSUME CursorOK, DataOK, TextOK, TokensRise, OneEnd, ParseDataLabel
  PROVE  StatementPairs
<1> DEFINE label == peekToken(3).value
           offset == DataSectionStart + symbol_table[label].address - instruction_index * 4
           second == IF Opcode = "la" THEN "addi" ELSE Opcode
           r == Register(1)
           up == UpperPart(offset)
           low == LowerPart(offset)
           u == [Statement EXCEPT !.op = "auipc", !.rd = r, !.imm = up]
           v == [Statement EXCEPT !.op = second, !.rd = r, !.rs1 = r, !.imm = low]
<1>1. CASE ~IsDataLabel(label)
  <2>1. Refused("InvalidLabelRef")
    BY <1>1 DEF ParseDataLabel
  <2> QED
    BY <2>1 DEF Refused, StatementPairs
<1>2. CASE IsDataLabel(label)
  <2>1. Assembled(<<u, v>>)
    BY <1>2 DEF ParseDataLabel
  <2>2. /\ u.op = "auipc" /\ u.rd = r /\ u.imm = up
        /\ v.op = second /\ v.rs1 = r /\ v.imm = low
    BY DEF Statement
  <2>3. second \notin Branching /\ second # "auipc"
    <3>1. second \in {"addi"} \cup Loads
      BY LabelledOpcodes DEF ParseDataLabel, HasSyntax
    <3> HIDE DEF second
    <3>2. {"addi", "lb", "lh", "lw", "ld"} \cap Branching = {}
      BY DEF Branching, BTypeInstructions, B_type_instruction_encoding_map, JTypeInstructions,
         J_type_instruction_encoding_map
    <3> QED
      BY <3>1, <3>2 DEF Loads
  <2>4. /\ offset \in Int
        /\ offset + instruction_index * 4 = DataSectionStart + symbol_table[label].address
    <3>1. symbol_table[label].address \in Nat
      BY <1>2 DEF IsDataLabel, DataOK, SymbolData
    <3> QED
      BY <3>1, ParserAssumption DEF TextOK
  <2> HIDE DEF offset
  <2>5. /\ offset = 4096 * up + low /\ Within(low, -2048, 2047) /\ up \in Int /\ low \in Int
    <3>1. up \in Int /\ low \in Int
      BY <2>4 DEF UpperPart, LowerPart
    <3> QED
      BY <2>4, <3>1, PartsAddUp
  <2> HIDE DEF up, low
  <2>6. instruction_index * 4 + up * 4096 + low = DataSectionStart + symbol_table[label].address
    BY <2>4, <2>5 DEF TextOK
  <2>7. ASSUME NEW l \in LabelOnLine(currentToken.line)
        PROVE  l = label
    <3>1. Fits(DataLabelPattern) /\ InText
      BY DEF ParseDataLabel, Accepts
    <3>2. Len(DataLabelPattern) = 3 /\ 3 \in Nat
      BY DEF DataLabelPattern
    <3> HIDE DEF label
    <3>3. l = peekToken(3).value
      BY <3>1, <3>2, LabelIsOperand
    <3> QED
      BY <3>3 DEF label
  <2> HIDE DEF label, second, r, u, v
  <2>8. PairOn(currentToken.line, u, v, instruction_index)
    BY <1>2, <2>2, <2>3, <2>5, <2>6, <2>7 DEF PairOn, Reaches
  <2>9. v.op # "auipc"
    BY <2>2, <2>3
  <2> QED
    BY <2>1, <2>8, <2>9 DEF StatementPairs, Assembled
<1> QED
  BY <1>1, <1>2

LEMMA StatementPaired ==
  ASSUME CursorOK, DataOK, TextOK, TokensRise, OneEnd, ParseStatement
  PROVE  StatementPairs
<1> DEFINE line == currentToken.line
<1>0. \A kind : Refused(kind) => UNCHANGED textVars
  BY DEF Refused
<1>1. ASSUME NEW p, Fits(p), InText, Len(p) \in Nat,
             \A n \in 1..Len(p) : p[n] # "LABEL_REF"
      PROVE  LabelOnLine(line) = {}
  BY <1>1, LabelIsOperand
<1>2. CASE ParseRegisters
  <2>1. PICK s \in DOMAIN RegisterPattern :
          Accepts(RegisterPattern[s]) /\ Assembled(<<RegisterUnit(RegisterPattern[s])>>)
    BY <1>2 DEF ParseRegisters
  <2>2. LabelOnLine(line) = {}
    BY <1>1, <2>1, PatternsWithoutLabel DEF Accepts
  <2> QED
    BY <2>1, <2>2 DEF StatementPairs, Assembled, Alone
<1>3. CASE ParseCsr
  <2>1. PICK u : Assembled(<<u>>)
    BY <1>3 DEF ParseCsr
  <2>2. ASSUME NEW l \in LabelOnLine(line)
        PROVE  FALSE
    <3>1. Fits(CsrPattern) /\ InText
      BY <1>3 DEF ParseCsr, Accepts
    <3>2. CsrPattern[5] = "LABEL_REF"
      BY <3>1, PatternsWithoutLabel, LabelIsOperand
    <3> QED
      BY <3>2, PatternsWithoutLabel
  <2> QED
    BY <2>1, <2>2 DEF StatementPairs, Assembled, Alone
<1>4. CASE ParseImmediate
  <2>1. PICK s \in DOMAIN ImmediatePattern :
          /\ Accepts(ImmediatePattern[s])
          /\ \/ Assembled(<<ImmediateUnit(s)>>)
             \/ \E kind : Refused(kind)
    BY <1>4 DEF ParseImmediate
  <2>2. LabelOnLine(line) = {}
    BY <1>1, <2>1, PatternsWithoutLabel DEF Accepts
  <2> QED
    BY <1>0, <2>1, <2>2 DEF StatementPairs, Assembled, Alone
<1>5. CASE ParseLabel
  <2>1. PICK s \in DOMAIN LabelPattern :
          /\ HasSyntax(s)
          /\ LET label == peekToken(Len(LabelPattern[s])).value
                 unit  == LabelUnit(s, label)
             IN
             IF IsTextLabel(label)
             THEN LET offset == symbol_table[label].address - instruction_index * 4 IN
                  IF Within(offset, -Reach(s), Reach(s) - 1)
                  THEN Assembled(<<[unit EXCEPT !.imm = offset]>>)
                  ELSE Refused("ImmediateOutOfRange")
             ELSE /\ back_patch' = Append(back_patch, instruction_index)
                  /\ Emit(<<unit>>, FALSE)
                  /\ UNCHANGED errorVars
                  /\ EndStatement
    BY <1>5 DEF ParseLabel
  <2> DEFINE label == peekToken(Len(LabelPattern[s])).value
             unit == LabelUnit(s, label)
             offset == symbol_table[label].address - instruction_index * 4
             done == [unit EXCEPT !.imm = offset]
  <2>2. Opcode \in Branching
    BY <2>1, LabelledOpcodes DEF HasSyntax, LabelPattern
  <2>3. unit.op = Opcode /\ done.op = Opcode
    BY OpcodeUnits
  <2>4. "auipc" \notin Branching
    BY DEF Branching, BTypeInstructions, B_type_instruction_encoding_map, JTypeInstructions,
       J_type_instruction_encoding_map
  <2>5. \/ Assembled(<<done>>) \/ Refused("ImmediateOutOfRange")
        \/ back_patch' = Append(back_patch, instruction_index) /\ Emit(<<unit>>, FALSE)
    BY <2>1
  <2> HIDE DEF unit, done
  <2>6. CASE Assembled(<<done>>)
    BY <2>2, <2>3, <2>4, <2>6 DEF StatementPairs, Assembled, Alone
  <2>7. CASE back_patch' = Append(back_patch, instruction_index) /\ Emit(<<unit>>, FALSE)
    BY <2>2, <2>3, <2>7 DEF StatementPairs
  <2> QED
    BY <1>0, <2>5, <2>6, <2>7 DEF StatementPairs
<1>6. CASE ParseLi
  <2> DEFINE imm == peekToken(3).num
             addi == [Statement EXCEPT !.op = "addi", !.rd = Register(1)]
             lui  == [Statement EXCEPT !.op = "lui", !.rd = Register(1), !.imm = UpperPart(imm)]
             short == [addi EXCEPT !.imm = imm]
             rest == [addi EXCEPT !.rs1 = Register(1), !.imm = LowerPart(imm)]
  <2>1. \/ Assembled(<<short>>) \/ Refused("ImmediateOutOfRange") \/ Assembled(<<lui>>)
        \/ Assembled(<<lui, rest>>)
    BY <1>6 DEF ParseLi
  <2>2. short.op = "addi" /\ lui.op = "lui" /\ rest.op = "addi"
    BY DEF Statement
  <2> HIDE DEF short, lui, rest
  <2>3. CASE Assembled(<<short>>)
    BY <2>2, <2>3 DEF StatementPairs, Assembled, Alone
  <2>4. CASE Assembled(<<lui>>)
    BY <2>2, <2>4 DEF StatementPairs, Assembled, Alone
  <2>5. CASE Assembled(<<lui, rest>>)
    BY <2>2, <2>5 DEF StatementPairs, Assembled, PairOn
  <2> QED
    BY <1>0, <2>1, <2>3, <2>4, <2>5 DEF StatementPairs
<1>7. CASE ParsePseudo
  <2>1. Assembled(<<PseudoUnit>>)
    BY <1>7 DEF ParsePseudo
  <2>2. PseudoUnit.op \in {"addi", "jalr", "add", "xori"}
    BY <1>7 DEF ParsePseudo, PseudoUnit, Statement
  <2> QED
    BY <2>1, <2>2 DEF StatementPairs, Assembled, Alone
<1>8. CASE SyntaxError \/ UnknownAlias
  BY <1>0, <1>8 DEF SyntaxError, UnknownAlias, StatementPairs
<1> QED
  BY <1>2, <1>3, <1>4, <1>5, <1>6, <1>7, <1>8, DataLabelPair DEF ParseStatement

\* Only a branch or a jump is left to the third pass.
BackOps == \A k \in 1..Len(back_patch) : intermediate_code[back_patch[k]].unit.op \in Branching

\* What instruction i is followed by if it is an auipc of a statement with a label.
PairedAt(i) ==
  intermediate_code[i].unit.op = "auipc" =>
    \A l \in LabelOnLine(line_number_mapping[i]) :
      /\ i + 1 \in Instructions
      /\ intermediate_code[i + 1].unit.op \notin Branching
      /\ Reaches(intermediate_code[i].unit, intermediate_code[i + 1].unit, i, l)

Paired == \A i \in Instructions : PairedAt(i)

AddressInv == OneEnd /\ BackOps /\ Paired

LEMMA NotBranching == "auipc" \notin Branching
BY DEF Branching, BTypeInstructions, B_type_instruction_encoding_map, JTypeInstructions,
   J_type_instruction_encoding_map

\* An instruction stays paired while it, the one behind it and the labels stay.
LEMMA StaysPaired ==
  ASSUME NEW i, PairedAt(i), UNCHANGED tokens,
         \A l : IsDataLabel(l) => IsDataLabel(l)' /\ symbol_table'[l] = symbol_table[l],
         intermediate_code'[i].unit = intermediate_code[i].unit,
         line_number_mapping'[i] = line_number_mapping[i],
         i + 1 \in Instructions => i + 1 \in Instructions',
         \/ intermediate_code'[i + 1] = intermediate_code[i + 1]
         \/ i + 1 \notin Instructions
         \/ intermediate_code[i + 1].unit.op \in Branching
  PROVE  PairedAt(i)'
<1>1. LabelOnLine(line_number_mapping[i])' = LabelOnLine(line_number_mapping[i])
  BY DEF LabelOnLine
<1> DEFINE u == intermediate_code[i].unit
           v == intermediate_code[i + 1].unit
<1>2. ASSUME NEW l, Reaches(u, v, i, l), UNCHANGED <<u, v>>
      PROVE  Reaches(u, v, i, l)'
  <2>1. IsDataLabel(l)' /\ symbol_table'[l] = symbol_table[l]
    BY <1>2 DEF Reaches
  <2> QED
    BY <1>2, <2>1 DEF Reaches, Within
<1>3. CASE u.op # "auipc"
  BY <1>3 DEF PairedAt
<1>4. CASE LabelOnLine(line_number_mapping[i]) = {}
  BY <1>1, <1>4 DEF PairedAt
<1>5. CASE u.op = "auipc" /\ LabelOnLine(line_number_mapping[i]) # {}
  <2>1. i + 1 \in Instructions /\ v.op \notin Branching
    BY <1>5 DEF PairedAt
  <2>2. UNCHANGED <<u, v>>
    BY <2>1
  <2>3. ASSUME NEW l \in LabelOnLine(line_number_mapping[i])'
        PROVE  i + 1 \in Instructions' /\ v'.op \notin Branching /\ Reaches(u, v, i, l)'
    <3>1. Reaches(u, v, i, l)
      BY <1>1, <1>5, <2>3 DEF PairedAt
    <3> QED
      BY <1>2, <2>1, <2>2, <3>1
  <2> QED
    BY <2>3 DEF PairedAt
<1> QED
  BY <1>3, <1>4, <1>5

\* The statement of a step takes its place behind the instructions there are.
LEMMA StatementStaysPaired ==
  ASSUME TypeOK, BackOps, Paired, StatementPairs, UNCHANGED <<tokens, symbol_table>>
  PROVE  BackOps' /\ Paired'
<1>0. SUFFICES ASSUME NEW N, N = instruction_index, NEW line, line = currentToken.line
               PROVE  BackOps' /\ Paired'
  OBVIOUS
<1>1. /\ N \in Nat /\ Instructions = 0..N - 1
      /\ back_patch \in Seq(0..N - 1)
      /\ \A k \in 1..Len(back_patch) : back_patch[k] \in Instructions
  BY <1>0 DEF TypeOK, TextOK, Instructions
<1>2. \A l : IsDataLabel(l) => IsDataLabel(l)' /\ symbol_table'[l] = symbol_table[l]
  BY DEF IsDataLabel
<1>3. CASE UNCHANGED textVars
  <2>1. BackOps'
    BY <1>3 DEF BackOps, textVars
  <2>2. ASSUME NEW i \in Instructions
        PROVE  PairedAt(i)'
    BY <1>2, <1>3, StaysPaired DEF Paired, textVars, Instructions
  <2> QED
    BY <1>3, <2>1, <2>2 DEF Paired, Instructions, textVars
<1>4. ASSUME NEW units, NEW n \in 1..2, Len(units) = n, NEW resolved \in BOOLEAN,
             Emit(units, resolved)
      PROVE  /\ Instructions' = 0..N + n - 1
             /\ \A i \in Instructions : intermediate_code'[i] = intermediate_code[i]
             /\ \A m \in 1..n : /\ intermediate_code'[N + m - 1].unit = units[m]
                                /\ line_number_mapping'[N + m - 1] = line
             /\ \A i \in 0..N - 1 : PairedAt(i)'
  <2>1. n \in Nat
    OBVIOUS
  <2>2. /\ DOMAIN intermediate_code' = 0..N + n - 1
        /\ \A i \in DOMAIN intermediate_code :
             /\ intermediate_code'[i] = intermediate_code[i]
             /\ line_number_mapping'[i] = line_number_mapping[i]
        /\ \A i \in N..N + n - 1 :
             /\ intermediate_code'[i] = [unit |-> units[i - N + 1], resolved |-> resolved]
             /\ line_number_mapping'[i] = line
    BY <1>0, <1>4, <2>1, Emission DEF TypeOK
  <2>3. ASSUME NEW m \in 1..n
        PROVE  /\ intermediate_code'[N + m - 1].unit = units[m]
               /\ line_number_mapping'[N + m - 1] = line
    <3>1. N + m - 1 \in N..N + n - 1 /\ (N + m - 1) - N + 1 = m
      BY <1>1
    <3>2. intermediate_code'[N + m - 1] =
            [unit |-> units[(N + m - 1) - N + 1], resolved |-> resolved]
      BY <2>2, <3>1
    <3> QED
      BY <2>2, <3>1, <3>2
  <2>4. Instructions \subseteq Instructions'
    BY <1>1, <2>2 DEF Instructions
  <2>5. ASSUME NEW i \in 0..N - 1
        PROVE  PairedAt(i)'
    <3>1. i \in Instructions /\ PairedAt(i)
      BY <1>1 DEF Paired
    <3>2. i + 1 \in Instructions => intermediate_code'[i + 1] = intermediate_code[i + 1]
      BY <2>2 DEF Instructions
    <3> QED
      BY <1>2, <2>2, <2>4, <3>1, <3>2, StaysPaired DEF Instructions
  <2> QED
    BY <2>2, <2>3, <2>5 DEF Instructions
<1>5. ASSUME NEW units, Emit(units, TRUE) \/ Emit(units, FALSE), Len(units) \in 1..2,
             UNCHANGED back_patch
      PROVE  BackOps'
  <2>1. \A i \in Instructions : intermediate_code'[i] = intermediate_code[i]
    BY <1>4, <1>5
  <2> QED
    BY <1>1, <1>5, <2>1 DEF BackOps
<1>6. ASSUME NEW u, NEW resolved \in BOOLEAN, Emit(<<u>>, resolved), Alone(line, u)
      PROVE  /\ Paired' /\ intermediate_code'[N].unit = u
             /\ \A i \in Instructions : intermediate_code'[i] = intermediate_code[i]
  <2>1. Len(<<u>>) = 1 /\ <<u>>[1] = u /\ 1 \in 1..2
    OBVIOUS
  <2>2. /\ Instructions' = 0..N /\ intermediate_code'[N].unit = u
        /\ line_number_mapping'[N] = line
        /\ \A i \in Instructions : intermediate_code'[i] = intermediate_code[i]
        /\ \A i \in 0..N - 1 : PairedAt(i)'
    <3>1. /\ Instructions' = 0..N + 1 - 1
          /\ intermediate_code'[N + 1 - 1].unit = u
          /\ line_number_mapping'[N + 1 - 1] = line
          /\ \A i \in Instructions : intermediate_code'[i] = intermediate_code[i]
          /\ \A i \in 0..N - 1 : PairedAt(i)'
      BY <1>4, <1>6, <2>1
    <3>2. N + 1 - 1 = N
      BY <1>1
    <3> QED
      BY <3>1, <3>2
  <2>3. LabelOnLine(line_number_mapping[N])' = LabelOnLine(line)
    BY <2>2 DEF LabelOnLine
  <2>4. PairedAt(N)'
    BY <1>6, <2>2, <2>3 DEF PairedAt, Alone
  <2>5. \A i \in 0..N : i \in 0..N - 1 \/ i = N
    BY <1>1
  <2> QED
    BY <2>2, <2>4, <2>5 DEF Paired
<1>7. ASSUME NEW u, Alone(line, u), Emit(<<u>>, TRUE), UNCHANGED back_patch
      PROVE  BackOps' /\ Paired'
  <2>1. Len(<<u>>) \in 1..2
    OBVIOUS
  <2>2. BackOps'
    BY <1>5, <1>7, <2>1
  <2> QED
    BY <1>6, <1>7, <2>2
<1>8. ASSUME NEW u, u.op \in Branching, Emit(<<u>>, FALSE),
             back_patch' = Append(back_patch, N)
      PROVE  BackOps' /\ Paired'
  <2>1. Alone(line, u)
    BY <1>8, NotBranching DEF Alone
  <2>2. /\ Paired' /\ intermediate_code'[N].unit = u
        /\ \A i \in Instructions : intermediate_code'[i] = intermediate_code[i]
    BY <1>6, <1>8, <2>1
  <2>3. ASSUME NEW k \in 1..Len(back_patch')
        PROVE  intermediate_code'[back_patch'[k]].unit.op \in Branching
    <3>1. CASE k \in 1..Len(back_patch)
      <4>1. back_patch'[k] = back_patch[k]
        BY <1>1, <1>8, <3>1
      <4> QED
        BY <1>1, <2>2, <3>1, <4>1 DEF BackOps
    <3>2. CASE k = Len(back_patch) + 1
      <4>1. back_patch'[k] = N
        BY <1>1, <1>8, <3>2
      <4> QED
        BY <1>8, <2>2, <4>1
    <3> QED
      BY <1>1, <1>8, <3>1, <3>2
  <2> QED
    BY <2>2, <2>3 DEF BackOps
<1>9. ASSUME NEW u, NEW v, v.op # "auipc", PairOn(line, u, v, N), Emit(<<u, v>>, TRUE),
             UNCHANGED back_patch
      PROVE  BackOps' /\ Paired'
  <2>1. Len(<<u, v>>) = 2 /\ <<u, v>>[1] = u /\ <<u, v>>[2] = v /\ 2 \in 1..2 /\ 1 \in 1..2
    OBVIOUS
  <2>2. /\ Instructions' = 0..N + 1 /\ intermediate_code'[N].unit = u
        /\ intermediate_code'[N + 1].unit = v /\ line_number_mapping'[N] = line
        /\ \A i \in 0..N - 1 : PairedAt(i)'
    <3>1. /\ Instructions' = 0..N + 2 - 1
          /\ intermediate_code'[N + 1 - 1].unit = u /\ intermediate_code'[N + 2 - 1].unit = v
          /\ line_number_mapping'[N + 1 - 1] = line
          /\ \A i \in 0..N - 1 : PairedAt(i)'
      BY <1>4, <1>9, <2>1
    <3>2. N + 1 - 1 = N /\ N + 2 - 1 = N + 1
      BY <1>1
    <3> QED
      BY <3>1, <3>2
  <2>3. ASSUME NEW l, Reaches(u, v, N, l)
        PROVE  /\ IsDataLabel(l)' /\ v.rs1 = u.rd /\ Within(v.imm, -2048, 2047)
               /\ N * 4 + u.imm * 4096 + v.imm = DataSectionStart + symbol_table'[l].address
    BY <1>2, <2>3 DEF Reaches
  <2>4. PairedAt(N)'
    <3>1. SUFFICES ASSUME u.op = "auipc", NEW l \in LabelOnLine(line)
                   PROVE  /\ N + 1 \in Instructions' /\ v.op \notin Branching
                          /\ Reaches(u, v, N, l)
      BY <2>2, <2>3 DEF PairedAt, LabelOnLine, Reaches
    <3> QED
      BY <1>1, <1>9, <2>2, <3>1 DEF PairOn
  <2>5. PairedAt(N + 1)'
    BY <1>9, <2>2 DEF PairedAt
  <2>6. \A i \in 0..N + 1 : i \in 0..N - 1 \/ i = N \/ i = N + 1
    BY <1>1
  <2>7. BackOps'
    BY <1>5, <1>9, <2>1
  <2> QED
    BY <2>2, <2>4, <2>5, <2>6, <2>7 DEF Paired
<1> QED
  BY <1>0, <1>3, <1>7, <1>8, <1>9 DEF StatementPairs

LEMMA PatchStaysPaired ==
  ASSUME TypeOK, UnitsNamed, BackOps, Paired, Patch
  PROVE  BackOps' /\ Paired'
<1> DEFINE b == back_patch[patched + 1]
<1>1. /\ back_patch \in Seq(0..instruction_index - 1) /\ patched \in 0..Len(back_patch)
      /\ Instructions = 0..instruction_index - 1
      /\ \A k \in 1..Len(back_patch) : back_patch[k] \in Instructions
  BY DEF TypeOK, TextOK, Instructions
<1>2. patched + 1 \in 1..Len(back_patch)
  BY <1>1 DEF Patch
<1>3. b \in Instructions /\ intermediate_code[b].unit.op \in Branching
  BY <1>1, <1>2 DEF BackOps
<1>4. PICK imm, r, s :
        intermediate_code' =
          [intermediate_code EXCEPT ![b] =
             IF r THEN [unit |-> [intermediate_code[b].unit EXCEPT !.imm = imm],
                        resolved |-> TRUE]
             ELSE [unit |-> intermediate_code[b].unit, resolved |-> s]]
  BY DEF Patch
<1>5. UNCHANGED <<back_patch, tokens, symbol_table, line_number_mapping>>
  BY DEF Patch, cursorVars
<1>6. Instructions' = Instructions
  BY <1>4 DEF Instructions
<1>7. ASSUME NEW i \in Instructions
      PROVE  /\ intermediate_code'[i].unit.op = intermediate_code[i].unit.op
             /\ i # b => intermediate_code'[i] = intermediate_code[i]
  <2>1. "op" \in DOMAIN intermediate_code[i].unit
    BY DEF UnitsNamed, NamedUnit
  <2> QED
    BY <1>4, <2>1 DEF Instructions
<1> HIDE DEF b
<1>8. BackOps'
  BY <1>1, <1>5, <1>7 DEF BackOps
<1>9. ASSUME NEW i \in Instructions
      PROVE  PairedAt(i)'
  <2>1. CASE i = b
    <3>1. intermediate_code'[i].unit.op # "auipc"
      BY <1>3, <1>7, <2>1, NotBranching
    <3> QED
      BY <3>1 DEF PairedAt
  <2>2. CASE i # b
    <3>1. PairedAt(i) /\ intermediate_code'[i].unit = intermediate_code[i].unit
      BY <1>7, <2>2 DEF Paired
    <3>2. \A l : IsDataLabel(l) => IsDataLabel(l)' /\ symbol_table'[l] = symbol_table[l]
      BY <1>5 DEF IsDataLabel
    <3>3. \/ intermediate_code'[i + 1] = intermediate_code[i + 1]
          \/ i + 1 \notin Instructions
          \/ intermediate_code[i + 1].unit.op \in Branching
      BY <1>3, <1>7
    <3> QED
      BY <1>5, <1>6, <3>1, <3>2, <3>3, StaysPaired
  <2> QED
    BY <2>1, <2>2
<1> QED
  BY <1>6, <1>8, <1>9 DEF Paired

LEMMA AddressStep ==
  ASSUME AssemblerInv, UnitsNamed, TokensRise, OneEnd, BackOps, Paired, Next
  PROVE  BackOps' /\ Paired'
<1>1. TypeOK /\ CursorOK /\ DataOK /\ TextOK /\ FileOK /\ Early
  BY DEF AssemblerInv, TypeOK
<1>2. /\ instruction_index \in Nat /\ Instructions = 0..instruction_index - 1
      /\ back_patch \in Seq(0..instruction_index - 1)
  BY <1>1 DEF TextOK, Instructions
<1>3. CASE instruction_index = 0 /\ UNCHANGED textVars
  <2>1. Instructions = {} /\ Len(back_patch) = 0
    BY <1>2, <1>3
  <2> QED
    BY <1>3, <2>1 DEF BackOps, Paired, textVars, Instructions
<1>4. CASE Patch
  BY <1>1, <1>4, PatchStaysPaired
<1>5. CASE ParseStatement
  <2>1. UNCHANGED tokens
    BY <1>5, StatementInText, TokensStay
  <2>2. UNCHANGED symbol_table
    BY <1>5, StatementStep DEF StatementEnds, Assembled, Refused, EndStatement
  <2> QED
    BY <1>1, <1>5, <2>1, <2>2, StatementPaired, StatementStaysPaired
<1>6. CASE UNCHANGED textVars /\ UNCHANGED tokens /\ stage \notin EarlyStages
  <2>1. \A l : IsDataLabel(l) => IsDataLabel(l)' /\ symbol_table'[l] = symbol_table[l]
    <3>1. CASE TextLabel
      BY <3>1 DEF TextLabel, Define, IsDataLabel
    <3>2. CASE UNCHANGED symbol_table
      BY <3>2 DEF IsDataLabel
    <3> QED
      BY <1>6, <3>1, <3>2, DataFrame, StageFrame DEF EarlyStages, DataValue, ZeroValue
  <2>2. ASSUME NEW i \in Instructions
        PROVE  PairedAt(i)'
    BY <1>6, <2>1, StaysPaired DEF Paired, textVars, Instructions
  <2> QED
    BY <1>6, <2>2 DEF BackOps, Paired, textVars, Instructions
<1>7. CASE UNCHANGED textVars
  BY <1>1, <1>3, <1>6, <1>7, TokensStay DEF Early, EarlyStages
<1> QED
  BY <1>4, <1>5, <1>7, TextFrame DEF textVars

LEMMA AddressInvInit == AssemblerInit => AddressInv
<1> SUFFICES ASSUME AssemblerInit PROVE AddressInv
  OBVIOUS
<1>1. tokens = <<EndOfFile(0)>> /\ intermediate_code = <<>> /\ back_patch = <<>>
  BY DEF AssemblerInit, Init
<1>2. Len(tokens) = 1 /\ Instructions = {} /\ Len(back_patch) = 0
  BY <1>1 DEF Instructions
<1> QED
  BY <1>2 DEF AddressInv, OneEnd, BackOps, Paired

LEMMA AddressInvStep ==
  AssemblerInv /\ AbortInv /\ LineInv /\ AddressInv /\ [Next]_vars => AddressInv'
<1>1. CASE UNCHANGED vars
  <2> USE <1>1 DEF vars
  <2>1. (OneEnd => OneEnd') /\ (BackOps => BackOps') /\ UNCHANGED Instructions
    BY DEF OneEnd, BackOps, Instructions
  <2>2. \A l : IsDataLabel(l) => IsDataLabel(l)' /\ symbol_table'[l] = symbol_table[l]
    BY DEF IsDataLabel
  <2>3. Paired => Paired'
    BY <2>1, <2>2, StaysPaired DEF Paired
  <2> QED
    BY <2>1, <2>3 DEF AddressInv
<1>2. ASSUME AssemblerInv, AbortInv, LineInv, AddressInv, Next
      PROVE  AddressInv'
  <2>1. FileOK /\ UnitsNamed /\ TokensRise /\ OneEnd /\ BackOps /\ Paired
    BY <1>2 DEF AssemblerInv, AbortInv, LineInv, AddressInv
  <2> QED
    BY <1>2, <2>1, OneEndStep, AddressStep DEF AddressInv
<1> QED
  BY <1>1, <1>2

\* Whatever the file, the two instructions of la, and of a load from a label, add up to the address
\* of the label, whatever the sign of the lower one and wherever they stand (i_m_formats.cpp,
\* pseudo_formats.cpp).
THEOREM AddressesAlwaysAddUp == Spec => []AddressesAddUp
<1>1. AddressInv => AddressesAddUp
  <2>1. SUFFICES ASSUME AddressInv, NEW i \in Instructions, intermediate_code[i].unit.op = "auipc",
                        LabelOnLine(line_number_mapping[i]) # {}
                 PROVE  LET u == intermediate_code[i].unit
                            v == intermediate_code[i + 1].unit
                        IN
                        /\ v.rs1 = u.rd /\ Within(v.imm, -2048, 2047)
                        /\ \A l \in LabelOnLine(line_number_mapping[i]) :
                             i * 4 + u.imm * 4096 + v.imm
                               = DataSectionStart + symbol_table[l].address
    BY DEF AddressesAddUp
  <2> QED
    BY <2>1 DEF AddressInv, Paired, PairedAt, Reaches
<1> QED
  BY <1>1, AddressInvInit, AddressInvStep, AbortInvInit, AbortInvStep, LineInvInit, LineInvStep,
     AlwaysInv, PTL DEF Spec

----------------------------------------------------------------------------
(* No statement is lost *)

LEMMA OpcodesAreNoDirectives ==
  ASSUME NEW n \in valid_instructions
  PROVE  n \notin DataDirectives \cup SectionNames
<1> DEFINE D == {"dword", "word", "halfword", "byte", "float", "double", "string", "zero",
                 "text", "data", "bss", "section"}
<1>1. SUFFICES n \notin D
  BY DEF DataDirectives, Alignment, SectionNames
<1>2. CASE n \in RTypeInstructions \cup I1TypeInstructions
  BY <1>2, SMTT(30) DEF RTypeInstructions, R_type_instruction_encoding_map, I1TypeInstructions,
     I1_type_instruction_encoding_map
<1>3. CASE n \in I2TypeInstructions \cup I3TypeInstructions \cup STypeInstructions
                   \cup BTypeInstructions \cup UTypeInstructions \cup JTypeInstructions
  BY <1>3, SMTT(30)
     DEF I2TypeInstructions, I2_type_instruction_encoding_map, I3TypeInstructions,
     I3_type_instruction_encoding_map, STypeInstructions, S_type_instruction_encoding_map,
     BTypeInstructions, B_type_instruction_encoding_map, UTypeInstructions,
     U_type_instruction_encoding_map, JTypeInstructions, J_type_instruction_encoding_map
<1>4. CASE n \in CSRRInstructions \cup CSRIInstructions \cup FDExtensionRTypeInstructions
                   \cup FDExtensionR1TypeInstructions
  BY <1>4, SMTT(30)
     DEF CSRRInstructions, CSR_R_type_instruction_encoding_map, CSRIInstructions,
     CSR_I_type_instruction_encoding_map, FDExtensionRTypeInstructions,
     F_D_R_type_instruction_encoding_map, FDExtensionR1TypeInstructions,
     F_D_R1_type_instruction_encoding_map
<1>5. CASE n \in FDExtensionR2TypeInstructions \cup DOMAIN F_D_R3_type_instruction_encoding_map
                   \cup FDExtensionR4TypeInstructions
  BY <1>5, SMTT(30)
     DEF FDExtensionR2TypeInstructions, F_D_R2_type_instruction_encoding_map,
     F_D_R3_type_instruction_encoding_map, FDExtensionR4TypeInstructions,
     F_D_R4_type_instruction_encoding_map
<1>6. CASE n \in FDExtensionITypeInstructions \cup FDExtensionSTypeInstructions
                   \cup PseudoInstructions
  BY <1>6, SMTT(30)
     DEF FDExtensionITypeInstructions, F_D_I_type_instruction_encoding_map,
     FDExtensionSTypeInstructions, F_D_S_type_instruction_encoding_map, PseudoInstructions
<1> HIDE DEF D
<1> QED
  BY <1>2, <1>3, <1>4, <1>5, <1>6 DEF valid_instructions, MachineInstructions

\* An opcode is not mistaken for a directive, which the data section knows by its value alone.
OpcodesApart ==
  \A k \in 1..Len(tokens) :
    tokens[k].type = "OPCODE" => tokens[k].value \notin DataDirectives \cup SectionNames

LEMMA OpcodeLexemes ==
  ASSUME NEW x, NEW afterComma, x.form \in Form, LexemeType(x, afterComma) = "OPCODE"
  PROVE  x.text \in valid_instructions
<1> DEFINE f == x.form
           name == NameType(x.text, afterComma)
<1>1. name = "OPCODE" => x.text \in valid_instructions
  BY DEF NameType
<1>2. f \in Form
  OBVIOUS
<1>3. LexemeType(x, afterComma) =
        CASE f = "word" -> name [] f = "definition" -> "LABEL" [] f = "number" -> "NUM"
          [] f = "float" -> "FLOAT" [] f = "string" -> "STRING" [] f = "directive" -> "DIRECTIVE"
          [] f = "comma" -> "COMMA" [] f = "lparen" -> "LPAREN" [] f = "rparen" -> "RPAREN"
          [] f \in {"dotted", "huge", "other"} -> "INVALID"
  BY DEF LexemeType
<1> HIDE DEF f, name
<1>4. CASE f = "word"
  BY <1>1, <1>3, <1>4
<1>5. CASE f \in Form \ {"word"}
  BY <1>3, <1>5, SMT DEF Form
<1> QED
  BY <1>2, <1>4, <1>5

LEMMA OpcodesStep ==
  ASSUME CursorOK, FileOK, OpcodesApart, Next
  PROVE  OpcodesApart'
<1>1. CASE UNCHANGED tokens
  BY <1>1 DEF OpcodesApart
<1>2. CASE tokens' = getTokenList(source)
  <2>1. source \in Seq(Lexeme) /\ Len(source) \in Nat
    BY DEF FileOK
  <2>2. Len(tokens') = Len(source) + 1
    BY <1>2, <2>1, TokenList
  <2>3. ASSUME NEW k \in 1..Len(tokens'), tokens'[k].type = "OPCODE"
        PROVE  tokens'[k].value \notin DataDirectives \cup SectionNames
    <3> DEFINE after == k > 1 /\ source[k - 1].form = "comma"
               last == EndOfFile(IF source = <<>> THEN 0 ELSE source[Len(source)].line)
    <3>1. tokens'[k] = IF k <= Len(source) THEN getNextToken(source[k], after) ELSE last
      BY <1>2, <2>1, <2>2 DEF getTokenList
    <3>2. last.type = "EOF"
      BY DEF EndOfFile
    <3> HIDE DEF after, last
    <3>3. k \in 1..Len(source) /\ tokens'[k] = getNextToken(source[k], after)
      BY <2>1, <2>2, <2>3, <3>1, <3>2
    <3>4. source[k] \in Lexeme
      BY <2>1, <3>3
    <3>5. source[k].form \in Form
      BY <3>4 DEF Lexeme
    <3>6. LexemeType(source[k], after) = "OPCODE" /\ tokens'[k].value = source[k].text
      BY <2>3, <3>3 DEF getNextToken
    <3> QED
      BY <3>5, <3>6, OpcodeLexemes, OpcodesAreNoDirectives
  <2> QED
    BY <2>3 DEF OpcodesApart
<1> QED
  BY <1>1, <1>2, TokensStay

\* An instruction keeps its line, and an error is never taken back.
LEMMA AnswersStay ==
  ASSUME TypeOK, Next, UNCHANGED tokens, NEW k, Answered(k)
  PROVE  Answered(k)'
<1>1. CursorOK /\ TextOK /\ ErrorsOK
  BY DEF TypeOK
<1>2. ASSUME NEW i \in DOMAIN line_number_mapping
      PROVE  i \in DOMAIN line_number_mapping' /\ line_number_mapping'[i] = line_number_mapping[i]
  <2>1. CASE UNCHANGED line_number_mapping
    BY <2>1
  <2>2. ASSUME NEW units, NEW n \in Nat, Len(units) = n, NEW resolved \in BOOLEAN,
               Emit(units, resolved)
        PROVE  i \in DOMAIN line_number_mapping' /\ line_number_mapping'[i] = line_number_mapping[i]
    BY <1>1, <2>2, Emission DEF TextOK
  <2>3. CASE ParseStatement
    <3>1. ASSUME NEW u, NEW resolved \in BOOLEAN, Emit(<<u>>, resolved)
          PROVE  /\ i \in DOMAIN line_number_mapping'
                 /\ line_number_mapping'[i] = line_number_mapping[i]
      <4>1. Len(<<u>>) = 1 /\ 1 \in Nat
        OBVIOUS
      <4> QED
        BY <2>2, <3>1, <4>1
    <3>2. ASSUME NEW u, NEW v, Emit(<<u, v>>, TRUE)
          PROVE  /\ i \in DOMAIN line_number_mapping'
                 /\ line_number_mapping'[i] = line_number_mapping[i]
      <4>1. Len(<<u, v>>) = 2 /\ 2 \in Nat
        OBVIOUS
      <4> QED
        BY <2>2, <3>2, <4>1
    <3> QED
      BY <2>1, <2>3, <3>1, <3>2, StatementStep DEF StatementEnds, Assembled, Refused, textVars
  <2> QED
    BY <2>1, <2>3, TextFrame DEF textVars, Patch
<1>3. ASSUME NEW e \in 1..Len(all_errors)
      PROVE  e \in 1..Len(all_errors') /\ all_errors'[e] = all_errors[e]
  <2>1. CASE UNCHANGED errorVars
    BY <2>1 DEF errorVars
  <2>2. ASSUME NEW kind, NEW line, recordError(kind, line)
        PROVE  e \in 1..Len(all_errors') /\ all_errors'[e] = all_errors[e]
    BY <1>1, <2>2 DEF recordError, ErrorsOK
  <2> QED
    BY <1>1, <2>1, <2>2, ErrorFrame
<1> QED
  BY <1>2, <1>3 DEF Answered

\* An error on the line of a token answers it.
LEMMA ErrorAnswers ==
  ASSUME ErrorsOK, UNCHANGED tokens, NEW kind, NEW line, recordError(kind, line),
         NEW k, tokens[k].line = line
  PROVE  Answered(k)'
<1>1. /\ Len(all_errors') = Len(all_errors) + 1 /\ Len(all_errors) \in Nat
      /\ all_errors'[Len(all_errors) + 1].line = line
  BY DEF ErrorsOK, recordError
<1> QED
  BY <1>1 DEF Answered

\* So does an instruction.
LEMMA StatementAnswers ==
  ASSUME TypeOK, Next, ParseStatement, stage' # "aborted",
         NEW k, tokens[k].line = currentToken.line
  PROVE  Answered(k)' /\ EndStatement
<1>1. UNCHANGED tokens /\ stage = "text"
  BY StatementInText, TokensStay
<1>2. ASSUME NEW units, NEW n \in Nat, n > 0, Len(units) = n, NEW resolved \in BOOLEAN,
             Emit(units, resolved)
      PROVE  Answered(k)'
  <2>1. CursorOK /\ TextOK /\ instruction_index \in Nat
    BY DEF TypeOK, TextOK
  <2>2. /\ DOMAIN line_number_mapping' = 0..instruction_index + n - 1
        /\ \A i \in instruction_index..instruction_index + n - 1 :
             line_number_mapping'[i] = currentToken.line
    BY <1>2, <2>1, Emission
  <2>3. /\ instruction_index \in DOMAIN line_number_mapping'
        /\ line_number_mapping'[instruction_index] = currentToken.line
    BY <1>2, <2>1, <2>2
  <2> QED
    BY <1>1, <2>3 DEF Answered
<1>3. ASSUME NEW u, NEW resolved \in BOOLEAN, Emit(<<u>>, resolved)
      PROVE  Answered(k)'
  <2>1. Len(<<u>>) = 1 /\ 1 \in Nat /\ 1 > 0
    OBVIOUS
  <2> QED
    BY <1>2, <1>3, <2>1
<1>4. ASSUME NEW u, NEW v, Emit(<<u, v>>, TRUE)
      PROVE  Answered(k)'
  <2>1. Len(<<u, v>>) = 2 /\ 2 \in Nat /\ 2 > 0
    OBVIOUS
  <2> QED
    BY <1>2, <1>4, <2>1
<1>5. ASSUME NEW kind, Refused(kind)
      PROVE  Answered(k)'
  BY <1>1, <1>5, ErrorAnswers DEF Refused, TypeOK
<1>6. StatementEnds
  BY StatementStep
<1>7. ~Abort
  BY DEF Abort
<1> QED
  BY <1>3, <1>4, <1>5, <1>6, <1>7 DEF StatementEnds, Assembled, Refused

\* The statements of the data sections that the first pass has passed.
DataAnswered ==
  stage # "aborted" =>
    \A k \in 1..Len(tokens) :
      /\ tokens[k].type = "OPCODE" /\ UnderData(k)
      /\ stage \in EarlyStages => k < pos
      => Answered(k)

\* Between two sections the first pass is not behind an open .data.
Outside == stage = "first" => AtEnd \/ currentToken.value \in SectionNames \/ ~UnderData(pos)

\* The statements of the text sections that the second pass has passed.
TextAnswered ==
  stage \notin EarlyStages \cup {"aborted"} =>
    \A k \in 1..Len(tokens) :
      /\ tokens[k].type = "OPCODE" /\ UnderText(k)
      /\ stage \in {"second", "text"} => k < pos
      => Answered(k)

AnswerInv == OneEnd /\ OpcodesApart /\ DataAnswered /\ Outside /\ TextAnswered

\* The statements between the cursor and where the step puts it have their answer.
PassedInData ==
  \A k \in pos..pos' - 1 : tokens[k].type = "OPCODE" /\ UnderData(k) => Answered(k)'

PassedInText ==
  \A k \in pos..pos' - 1 : tokens[k].type = "OPCODE" /\ UnderText(k) => Answered(k)'

LEMMA OneTokenPassed ==
  ASSUME CursorOK,
         \/ pos' = pos
         \/ /\ pos' = pos + 1
            /\ currentToken.type # "OPCODE" \/ \A k : k = pos => Answered(k)'
  PROVE  PassedInData /\ PassedInText
<1>1. pos \in Nat
  BY DEF CursorOK
<1>2. \A k \in pos..pos' - 1 : k = pos /\ pos' = pos + 1
  BY <1>1
<1> QED
  BY <1>2 DEF PassedInData, PassedInText, currentToken

\* A region of the data section ends at the name of a section.
LEMMA UnderDataBehind ==
  ASSUME CursorOK, NEW p \in 1..Len(tokens), NEW k \in p + 1..Len(tokens), UnderData(k),
         tokens[p].value # "data" \/ tokens[p].type # "DIRECTIVE",
         \A m \in p + 1..k - 1 : tokens[m].value # "data"
  PROVE  UnderData(p) /\ tokens[p].value \notin SectionNames
<1>1. PICK j \in 1..k - 1 :
        /\ tokens[j].type = "DIRECTIVE" /\ tokens[j].value = "data"
        /\ \A m \in j + 1..k - 1 : tokens[m].value \notin SectionNames
  BY DEF UnderData
<1>2. p \in Nat /\ k \in Nat /\ p < k /\ j \in Nat /\ j < k
  BY DEF CursorOK
<1>3. j \in 1..p - 1
  <2>1. j # p
    BY <1>1
  <2>2. ~(j > p)
    <3>1. SUFFICES ASSUME j > p PROVE FALSE
      OBVIOUS
    <3>2. j \in p + 1..k - 1
      BY <1>2, <3>1
    <3> QED
      BY <1>1, <3>2
  <2> QED
    BY <1>2, <2>1, <2>2
<1>4. p \in j + 1..k - 1 /\ \A m \in j + 1..p - 1 : m \in j + 1..k - 1
  BY <1>2, <1>3
<1> QED
  BY <1>1, <1>3, <1>4 DEF UnderData

\* What the first pass passes over as text or bss holds no statement of the data section.
LEMMA SkippedIsOutside ==
  ASSUME CursorOK, OneEnd, OpcodesApart, Outside, stage = "first", ~AtEnd,
         NEW q \in pos..Len(tokens), pos' = q,
         \/ At("bss")
         \/ tokens[pos].value \notin {"data", "section", "bss"},
         \A r \in pos + 1..q - 1 : tokens[r].value \notin {"data", "section", "bss"}
  PROVE  PassedInData
<1>1. pos \in 1..Len(tokens) /\ pos \in Nat /\ Len(tokens) \in Nat /\ q \in Nat
  BY DEF CursorOK
<1>2. tokens[pos].value # "data"
  BY DEF At, currentToken
<1>3. ASSUME NEW k \in pos..q - 1, tokens[k].type = "OPCODE", UnderData(k)
      PROVE  FALSE
  <2>1. k \in 1..Len(tokens)
    BY <1>1
  <2>2. CASE k = pos
    <3>1. tokens[pos].value \notin SectionNames
      BY <1>3, <2>1, <2>2 DEF OpcodesApart
    <3> QED
      BY <1>3, <2>2, <3>1 DEF Outside, currentToken
  <2>3. CASE k # pos
    <3>1. k \in pos + 1..Len(tokens)
      BY <1>1, <2>1, <2>3
    <3>2. \A m \in pos + 1..k - 1 : tokens[m].value # "data"
      BY <1>1
    <3>3. UnderData(pos) /\ tokens[pos].value \notin SectionNames
      BY <1>1, <1>2, <1>3, <3>1, <3>2, UnderDataBehind
    <3> QED
      BY <3>3 DEF Outside, currentToken
  <2> QED
    BY <2>2, <2>3
<1> QED
  BY <1>3 DEF PassedInData

LEMMA FirstPassed ==
  ASSUME CursorOK, ErrorsOK, OneEnd, OpcodesApart, Outside, Next,
         stage \in EarlyStages \ {"source"}, stage' # "aborted"
  PROVE  \/ stage' \in EarlyStages \ {"source"} /\ PassedInData
         \/ stage' = "second" /\ AtEnd /\ pos' = 1
<1> USE DEF EarlyStages
<1>0. UNCHANGED tokens
  BY TokensStay
<1>1. CASE SkipSection \/ UnexpectedOutside \/ EnterData
  <2>1. /\ pos' = pos + 1 /\ currentToken.type # "OPCODE"
        /\ stage' \in EarlyStages \ {"source"}
    BY <1>1 DEF SkipSection, UnexpectedOutside, EnterData, At, BeginsText, nextToken
  <2> QED
    BY <2>1, OneTokenPassed
<1>2. CASE PassBss
  <2>1. PICK q \in pos + 1..Len(tokens) :
          /\ \A r \in pos + 1..q - 1 : tokens[r].value \notin SectionNames
          /\ pos' = q
    BY <1>2 DEF PassBss, SkipTo
  <2>2. /\ stage = "first" /\ At("bss") /\ ~AtEnd /\ stage' = stage
        /\ q \in pos..Len(tokens)
    BY <1>2, <2>1 DEF PassBss, At, AtEnd, CursorOK
  <2>3. \A r \in pos + 1..q - 1 : tokens[r].value \notin {"data", "section", "bss"}
    BY <2>1 DEF SectionNames
  <2> QED
    BY <2>1, <2>2, <2>3, SkippedIsOutside
<1>3. CASE PassText
  <2>1. PICK q \in pos..Len(tokens) :
          /\ \A r \in pos..q - 1 : tokens[r].value \notin {"data", "section", "bss"}
          /\ pos' = q
    BY <1>3 DEF PassText, SkipTo
  <2>2. stage = "first" /\ ~AtEnd /\ stage' = stage /\ pos \in Nat
    BY <1>3 DEF PassText, BeginsText, At, AtEnd, CursorOK
  <2>3. CASE q = pos
    BY <2>1, <2>2, <2>3, OneTokenPassed
  <2>4. CASE q # pos
    <3>1. pos \in pos..q - 1 /\ \A r \in pos + 1..q - 1 : r \in pos..q - 1
      BY <2>1, <2>2, <2>4
    <3> QED
      BY <2>1, <2>2, <3>1, SkippedIsOutside
  <2> QED
    BY <2>3, <2>4
<1>4. CASE EndFirstPass
  BY <1>4 DEF EndFirstPass
<1>5. CASE DataLabel \/ DataDirective
  <2>1. pos' = pos + 1 /\ stage' \in EarlyStages \ {"source"}
    BY <1>5 DEF DataLabel, DataDirective, InData, nextToken
  <2>2. currentToken.type # "OPCODE"
    BY <1>5 DEF DataLabel, DataDirective, OpcodesApart, currentToken, CursorOK
  <2> QED
    BY <2>1, <2>2, OneTokenPassed
<1>6. CASE UnknownDirective
  <2>1. ASSUME NEW k, k = pos
        PROVE  Answered(k)'
    <3>1. recordError("SyntaxError", currentToken.line) /\ tokens[k].line = currentToken.line
      BY <1>6, <2>1 DEF UnknownDirective, currentToken
    <3> QED
      BY <1>0, <3>1, ErrorAnswers
  <2> QED
    BY <1>6, <2>1, OneTokenPassed DEF UnknownDirective, InData, nextToken
<1>7. CASE EndData \/ EndValues
  BY <1>7, OneTokenPassed DEF EndData, EndValues
<1>8. CASE PassComma \/ DataValue \/ ZeroValue
  <2>1. pos' = pos + 1 /\ stage' = stage
    BY <1>8 DEF PassComma, DataValue, ZeroValue, AtValue, nextToken
  <2>2. currentToken.type # "OPCODE"
    BY <1>8 DEF PassComma, DataValue, ZeroValue, AtValue, ValueType
  <2> QED
    BY <2>1, <2>2, OneTokenPassed
<1>9. ReadTokens \/ SkipSection \/ UnexpectedOutside \/ FirstPass \/ ReadData \/ ReadValues
  <2>1. ~ParseStatement
    BY StatementInText
  <2>2. ~SecondPass /\ ~ReadText
    BY DEF SecondPass, PassDataOrBss, EnterText, EndSecondPass, ReadText, EndText, TextLabel,
       UnexpectedInText
  <2>3. ~Patch /\ ~EndPatch /\ ~Assemble /\ ~Refuse /\ ~LoadProgram
    BY DEF Patch, EndPatch, Assemble, Refuse, LoadProgram
  <2> QED
    BY <2>1, <2>2, <2>3 DEF Next, Parse
<1>10. ~ReadTokens /\ ~ThrowingValue
  BY DEF ReadTokens, ThrowingValue, Abort
<1> QED
  BY <1>1, <1>2, <1>3, <1>4, <1>5, <1>6, <1>7, <1>8, <1>9, <1>10
     DEF FirstPass, ReadData, ReadValues

LEMMA SecondPassed ==
  ASSUME TypeOK, Next, stage \in {"second", "text"}, stage' # "aborted"
  PROVE  \/ stage' \in {"second", "text"} /\ PassedInText
         \/ stage' = "patch" /\ AtEnd
<1>0. /\ UNCHANGED tokens /\ CursorOK /\ ErrorsOK
      /\ pos \in Nat /\ pos \in 1..Len(tokens) /\ Len(tokens) \in Nat
  BY TokensStay DEF TypeOK, CursorOK
<1>1. CASE SkipSection \/ UnexpectedOutside \/ TextLabel
  <2>1. pos' = pos + 1 /\ currentToken.type # "OPCODE" /\ stage' = stage
    BY <1>1 DEF SkipSection, UnexpectedOutside, TextLabel, At, BeginsText, nextToken
  <2> QED
    BY <1>0, <2>1, OneTokenPassed
<1>2. CASE EnterText \/ EndText
  <2>1. /\ pos' = pos \/ (pos' = pos + 1 /\ currentToken.type # "OPCODE")
        /\ stage' \in {"second", "text"}
    BY <1>2 DEF EnterText, EndText, At
  <2> QED
    BY <1>0, <2>1, OneTokenPassed
<1>3. CASE EndSecondPass
  BY <1>3 DEF EndSecondPass
<1>4. CASE PassDataOrBss
  <2>1. PICK q \in pos..Len(tokens) :
          (\A r \in pos..q - 1 : tokens[r].value # "text") /\ pos' = q
    BY <1>4 DEF PassDataOrBss, SkipTo
  <2>2. /\ tokens[pos].type = "DIRECTIVE" /\ tokens[pos].value \in {"data", "bss"}
        /\ stage' = stage
    BY <1>4 DEF PassDataOrBss, At, currentToken
  <2>3. ASSUME NEW k \in pos..q - 1, tokens[k].type = "OPCODE", UnderText(k)
        PROVE  FALSE
    <3>1. k # pos
      BY <2>2, <2>3
    <3>2. pos \in 1..k - 1 /\ \A m \in pos + 1..k - 1 : m \in pos..q - 1
      BY <1>0, <3>1
    <3> QED
      BY <2>1, <2>2, <2>3, <3>2 DEF UnderText
  <2> QED
    BY <2>1, <2>2, <2>3 DEF PassedInText
<1>5. ASSUME skipCurrentLine, stage' = "text",
             \A k : tokens[k].line = currentToken.line => Answered(k)'
      PROVE  stage' \in {"second", "text"} /\ PassedInText
  <2>1. PICK q \in pos..Len(tokens) :
          (\A r \in pos..q - 1 : tokens[r].line = currentToken.line) /\ pos' = q
    BY <1>5 DEF skipCurrentLine
  <2> QED
    BY <1>5, <2>1 DEF PassedInText
<1>6. CASE UnexpectedInText
  <2>1. /\ skipCurrentLine /\ stage' = "text"
        /\ recordError("UnexpectedToken", currentToken.line)
    BY <1>6 DEF UnexpectedInText
  <2>2. ASSUME NEW k, tokens[k].line = currentToken.line
        PROVE  Answered(k)'
    BY <1>0, <2>1, <2>2, ErrorAnswers
  <2> QED
    BY <1>5, <2>1, <2>2
<1>7. CASE ParseStatement
  <2>1. ASSUME NEW k, tokens[k].line = currentToken.line
        PROVE  Answered(k)'
    BY <1>7, <2>1, StatementAnswers
  <2>2. EndStatement /\ stage = "text"
    <3>1. tokens[pos].line = currentToken.line
      BY DEF currentToken
    <3> QED
      BY <1>7, <3>1, StatementAnswers, StatementInText
  <2>3. skipCurrentLine /\ stage' = "text"
    BY <2>2 DEF EndStatement
  <2> QED
    BY <1>5, <2>1, <2>3
<1>8. SkipSection \/ UnexpectedOutside \/ SecondPass \/ ReadText \/ ParseStatement
  <2>1. ~ReadTokens /\ ~FirstPass
    BY DEF ReadTokens, FirstPass, PassBss, PassText, EnterData, EndFirstPass
  <2>2. ~ReadData /\ ~ReadValues
    BY DEF ReadData, EndData, DataLabel, DataDirective, UnknownDirective, InData, ReadValues,
       PassComma, DataValue, ZeroValue, ThrowingValue, EndValues, AtValue
  <2>3. ~Patch /\ ~EndPatch /\ ~Assemble /\ ~Refuse /\ ~LoadProgram
    BY DEF Patch, EndPatch, Assemble, Refuse, LoadProgram
  <2> QED
    BY <2>1, <2>2, <2>3 DEF Next, Parse
<1> QED
  BY <1>1, <1>2, <1>3, <1>4, <1>6, <1>7, <1>8 DEF SecondPass, ReadText

LEMMA LastIsNoStatement ==
  ASSUME CursorOK, OneEnd, AtEnd, NEW k \in 1..Len(tokens), tokens[k].type = "OPCODE"
  PROVE  k < pos
<1>1. pos \in 1..Len(tokens) /\ Len(tokens) \in Nat /\ tokens[pos].type = "EOF"
  BY DEF CursorOK, AtEnd, currentToken
<1>2. pos = Len(tokens)
  BY <1>1 DEF OneEnd
<1> QED
  BY <1>1, <1>2

LEMMA DataAnsweredStep ==
  ASSUME TypeOK, FileOK, OneEnd, OpcodesApart, DataAnswered, Outside, Next
  PROVE  DataAnswered'
<1>1. CursorOK /\ ErrorsOK /\ pos \in Nat /\ Len(tokens) \in Nat /\ stage # "aborted"
  BY StagesApart DEF TypeOK, CursorOK
<1>2. CASE stage = "source"
  <2>1. pos' = 1 /\ (stage' = "first" \/ stage' = "aborted")
    BY <1>2, StagesApart DEF FileOK, ReadTokens, Abort
  <2> QED
    BY <2>1 DEF DataAnswered, EarlyStages
<1>3. SUFFICES ASSUME stage # "source", stage' # "aborted", NEW k \in 1..Len(tokens),
                      tokens[k].type = "OPCODE", UnderData(k), stage' \in EarlyStages => k < pos'
               PROVE  Answered(k)'
  <2>1. CASE stage # "source"
    BY <2>1, TokensStay DEF DataAnswered, UnderData
  <2> QED
    BY <1>2, <2>1
<1>4. UNCHANGED tokens
  BY <1>3, TokensStay
<1>5. CASE Answered(k)
  BY <1>4, <1>5, AnswersStay
<1>6. CASE ~Answered(k)
  <2>1. stage \in EarlyStages /\ ~(k < pos)
    BY <1>1, <1>3, <1>6 DEF DataAnswered
  <2>2. \/ stage' \in EarlyStages /\ PassedInData
        \/ AtEnd
    BY <1>1, <1>3, <2>1, FirstPassed
  <2>3. ~AtEnd
    BY <1>1, <1>3, <2>1, LastIsNoStatement
  <2>4. k \in pos..pos' - 1
    <3>1. k < pos' /\ pos' \in Nat
      BY <1>1, <1>3, <2>2, <2>3, CursorStep DEF CursorOK
    <3>2. \A q \in Nat : k < q => k \in pos..q - 1
      BY <1>1, <2>1
    <3> QED
      BY <3>1, <3>2
  <2> QED
    BY <1>3, <2>2, <2>3, <2>4 DEF PassedInData
<1> QED
  BY <1>5, <1>6

LEMMA TextAnsweredStep ==
  ASSUME TypeOK, FileOK, OneEnd, OpcodesApart, Outside, TextAnswered, Next
  PROVE  TextAnswered'
<1> SUFFICES ASSUME stage' \notin EarlyStages \cup {"aborted"}
             PROVE  TextAnswered'
  BY DEF TextAnswered
<1>1. /\ CursorOK /\ ErrorsOK /\ stage # "aborted"
      /\ pos \in Nat /\ pos' \in Nat /\ Len(tokens) \in Nat
  BY StagesApart, CursorStep DEF TypeOK, CursorOK
<1>2. CASE stage \in EarlyStages
  <2>1. stage' = "second" /\ pos' = 1
    <3>1. stage # "source"
      BY <1>2, StagesApart DEF ReadTokens, Abort, EarlyStages
    <3> QED
      BY <1>1, <1>2, <3>1, FirstPassed
  <2> QED
    BY <2>1 DEF TextAnswered
<1>3. SUFFICES ASSUME stage \notin EarlyStages, NEW k \in 1..Len(tokens),
                      tokens[k].type = "OPCODE", UnderText(k),
                      stage' \in {"second", "text"} => k < pos'
               PROVE  Answered(k)'
  <2>1. CASE stage \notin EarlyStages
    BY <2>1, TokensStay DEF TextAnswered, UnderText, EarlyStages
  <2> QED
    BY <1>2, <2>1
<1>4. UNCHANGED tokens
  BY <1>3, TokensStay DEF EarlyStages
<1>5. CASE Answered(k)
  BY <1>4, <1>5, AnswersStay
<1>6. CASE ~Answered(k)
  <2>1. stage \in {"second", "text"} /\ ~(k < pos)
    BY <1>1, <1>3, <1>6 DEF TextAnswered
  <2>2. \/ stage' \in {"second", "text"} /\ PassedInText
        \/ AtEnd
    BY <1>1, <2>1, SecondPassed
  <2>3. ~AtEnd
    BY <1>1, <1>3, <2>1, LastIsNoStatement
  <2>4. k \in pos..pos' - 1
    <3>1. k < pos'
      BY <1>3, <2>2, <2>3
    <3>2. \A q \in Nat : k < q => k \in pos..q - 1
      BY <1>1, <2>1
    <3> QED
      BY <1>1, <3>1, <3>2
  <2> QED
    BY <1>3, <2>2, <2>3, <2>4 DEF PassedInText
<1> QED
  BY <1>5, <1>6

LEMMA OutsideStep ==
  ASSUME CursorOK, FileOK, Outside, Next
  PROVE  Outside'
<1> SUFFICES ASSUME stage' = "first"
             PROVE  \/ AtEnd' \/ (currentToken.value)' \in SectionNames
                    \/ \A p : p = pos' => ~UnderData(p)'
  BY DEF Outside
<1>1. /\ pos \in 1..Len(tokens) /\ pos \in Nat /\ Len(tokens) \in Nat
  BY DEF CursorOK
<1>2. CASE stage = "source"
  <2>1. pos' = 1
    BY <1>2, StagesApart DEF FileOK, ReadTokens
  <2> QED
    BY <2>1 DEF UnderData
<1>3. stage # "source" => UNCHANGED tokens
  BY TokensStay
<1>4. CASE EndData
  BY <1>4 DEF EndData, AtEnd, currentToken, fileVars
<1>5. CASE stage = "first" /\ (SkipSection \/ UnexpectedOutside)
  <2>1. /\ pos' = pos + 1 /\ ~At("data") /\ ~AtEnd
        /\ tokens[pos].value # "data" \/ tokens[pos].type # "DIRECTIVE"
    BY <1>5 DEF SkipSection, UnexpectedOutside, At, AtEnd, nextToken, currentToken
  <2>2. pos' \in pos + 1..Len(tokens)
    <3>1. pos' \in 1..Len(tokens)
      BY <2>1, NextIsToken DEF AtEnd
    <3> QED
      BY <1>1, <2>1, <3>1
  <2>3. ASSUME NEW p, p = pos', UnderData(p)
        PROVE  FALSE
    <3>1. \A m \in pos + 1..p - 1 : tokens[m].value # "data"
      BY <1>1, <2>1, <2>3
    <3>2. UnderData(pos) /\ tokens[pos].value \notin SectionNames
      BY <1>1, <2>1, <2>2, <2>3, <3>1, UnderDataBehind
    <3> QED
      BY <1>5, <2>1, <3>2 DEF Outside, currentToken
  <2> QED
    BY <1>3, <1>5, <2>3 DEF UnderData
<1>6. CASE PassBss \/ PassText
  <2>1. PICK q \in 1..Len(tokens) :
          pos' = q /\ (tokens[q].type = "EOF" \/ tokens[q].value \in SectionNames)
    BY <1>1, <1>6 DEF PassBss, PassText, SkipTo, SectionNames
  <2>2. UNCHANGED tokens
    BY <1>6 DEF PassBss, PassText, fileVars
  <2> QED
    BY <2>1, <2>2 DEF AtEnd, currentToken
<1>7. CASE stage # "source"
  <2>1. ~ReadTokens /\ ~EnterData /\ ~EndFirstPass
    BY <1>7 DEF ReadTokens, EnterData, EndFirstPass
  <2>2. ~DataLabel /\ ~DataDirective /\ ~UnknownDirective
    BY DEF DataLabel, DataDirective, UnknownDirective, InData
  <2>3. ~ReadValues
    BY DEF ReadValues, PassComma, DataValue, ZeroValue, ThrowingValue, EndValues, AtValue, Abort
  <2>4. ~SecondPass /\ ~ReadText
    BY DEF SecondPass, PassDataOrBss, EnterText, EndSecondPass, ReadText, EndText, TextLabel,
       UnexpectedInText
  <2>5. ~ParseStatement
    BY StageFrame, StatementInText DEF EarlyStages
  <2>6. ~Patch /\ ~EndPatch /\ ~Assemble /\ ~Refuse /\ ~LoadProgram
    BY DEF Patch, EndPatch, Assemble, Refuse, LoadProgram, Abort, cursorVars
  <2>7. SkipSection \/ UnexpectedOutside => stage = "first"
    BY DEF SkipSection, UnexpectedOutside
  <2> QED
    BY <1>4, <1>5, <1>6, <2>1, <2>2, <2>3, <2>4, <2>5, <2>6, <2>7
       DEF Next, Parse, FirstPass, ReadData
<1> QED
  BY <1>2, <1>7

LEMMA AnswerInvInit == AssemblerInit => AnswerInv
<1> SUFFICES ASSUME AssemblerInit PROVE AnswerInv
  OBVIOUS
<1>1. tokens = <<EndOfFile(0)>> /\ stage = "source"
  BY DEF AssemblerInit, Init
<1>2. Len(tokens) = 1 /\ tokens[1].type = "EOF"
  BY <1>1 DEF EndOfFile
<1> QED
  BY <1>1, <1>2
     DEF AnswerInv, OneEnd, OpcodesApart, DataAnswered, Outside, TextAnswered, EarlyStages

LEMMA AnswerInvStep == AssemblerInv /\ AnswerInv /\ [Next]_vars => AnswerInv'
<1>1. CASE UNCHANGED vars
  BY <1>1 DEF vars, AnswerInv, OneEnd, OpcodesApart, DataAnswered, Outside, TextAnswered,
     UnderData, UnderText, Answered, AtEnd, currentToken
<1>2. ASSUME AssemblerInv, AnswerInv, Next
      PROVE  AnswerInv'
  <2>1. /\ TypeOK /\ CursorOK /\ FileOK
        /\ OneEnd /\ OpcodesApart /\ DataAnswered /\ Outside /\ TextAnswered
    BY <1>2 DEF AssemblerInv, AnswerInv, TypeOK
  <2> QED
    BY <1>2, <2>1, OneEndStep, OpcodesStep, DataAnsweredStep, OutsideStep, TextAnsweredStep
       DEF AnswerInv
<1> QED
  BY <1>1, <1>2

\* Whatever the file, the two passes lose no statement of the data section and none of the text
\* section, although each skips what it takes for the other's (parser.cpp).
THEOREM NoStatementIsLost == Spec => []EveryStatementAnswered
<1>1. AnswerInv => EveryStatementAnswered
  BY DEF AnswerInv, EveryStatementAnswered, DataAnswered, TextAnswered, EarlyStages
<1> QED
  BY <1>1, AnswerInvInit, AnswerInvStep, AlwaysInv, PTL DEF Spec
=============================================================================
