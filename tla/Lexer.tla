------------------------------- MODULE Lexer -------------------------------
(***************************************************************************)
(* Lexer (lexer.cpp): the classification of the lexemes of a source file   *)
(* into tokens, with the tables of register names it consults              *)
(* (registers.cpp, rounding_modes.h).                                      *)
(*                                                                         *)
(* A source is the sequence of its lexemes.  Where a lexeme begins and     *)
(* ends is not modelled: comments, blanks and the rest of a line behind a  *)
(* character that begins no lexeme are not in the sequence.  Each lexeme   *)
(* has a form, its text, the number it stands for and its line; of a       *)
(* float, the number is the whole part.                                    *)
(***************************************************************************)
EXTENDS InstructionSet

Form ==
  { "word",        \* a name
    "definition",  \* a name and the colon behind it
    "dotted",      \* the same, with a dot in the name
    "number", "float",
    "huge",        \* a number that std::stoll, or one that std::stod, cannot represent
    "string",      \* its num is the number of its characters
    "directive", "comma", "lparen", "rparen",
    "other" }      \* anything else

Lexeme == {x \in [form : Form, text : STRING, num : Int, line : Nat] :
             x.form = "string" => x.num \in Nat}

TokenType ==
  {"INVALID", "EOF", "DIRECTIVE", "OPCODE", "GP_REGISTER", "FP_REGISTER", "CSR_REGISTER",
   "NUM", "FLOAT", "LABEL", "LABEL_REF", "COMMA", "LPAREN", "RPAREN", "STRING", "RM"}

\* the value of EOF_ is empty
Token == {t \in [type : TokenType, value : STRING \cup {""}, num : Int, line : Nat] :
            t.type = "STRING" => t.num \in Nat}

GprNumber ==
  [zero |-> 0, ra |-> 1, sp |-> 2, gp |-> 3, tp |-> 4, t0 |-> 5, t1 |-> 6, t2 |-> 7, s0 |-> 8,
   fp |-> 8, s1 |-> 9, a0 |-> 10, a1 |-> 11, a2 |-> 12, a3 |-> 13, a4 |-> 14, a5 |-> 15,
   a6 |-> 16, a7 |-> 17, s2 |-> 18, s3 |-> 19, s4 |-> 20, s5 |-> 21, s6 |-> 22, s7 |-> 23,
   s8 |-> 24, s9 |-> 25, s10 |-> 26, s11 |-> 27, t3 |-> 28, t4 |-> 29, t5 |-> 30, t6 |-> 31,
   x0 |-> 0, x1 |-> 1, x2 |-> 2, x3 |-> 3, x4 |-> 4, x5 |-> 5, x6 |-> 6, x7 |-> 7, x8 |-> 8,
   x9 |-> 9, x10 |-> 10, x11 |-> 11, x12 |-> 12, x13 |-> 13, x14 |-> 14, x15 |-> 15, x16 |-> 16,
   x17 |-> 17, x18 |-> 18, x19 |-> 19, x20 |-> 20, x21 |-> 21, x22 |-> 22, x23 |-> 23, x24 |-> 24,
   x25 |-> 25, x26 |-> 26, x27 |-> 27, x28 |-> 28, x29 |-> 29, x30 |-> 30, x31 |-> 31]

FprNumber ==
  [ft0 |-> 0, ft1 |-> 1, ft2 |-> 2, ft3 |-> 3, ft4 |-> 4, ft5 |-> 5, ft6 |-> 6, ft7 |-> 7,
   fs0 |-> 8, fs1 |-> 9, fa0 |-> 10, fa1 |-> 11, fa2 |-> 12, fa3 |-> 13, fa4 |-> 14, fa5 |-> 15,
   fa6 |-> 16, fa7 |-> 17, fs2 |-> 18, fs3 |-> 19, fs4 |-> 20, fs5 |-> 21, fs6 |-> 22, fs7 |-> 23,
   fs8 |-> 24, fs9 |-> 25, fs10 |-> 26, fs11 |-> 27, ft8 |-> 28, ft9 |-> 29, ft10 |-> 30,
   ft11 |-> 31,
   f0 |-> 0, f1 |-> 1, f2 |-> 2, f3 |-> 3, f4 |-> 4, f5 |-> 5, f6 |-> 6, f7 |-> 7, f8 |-> 8,
   f9 |-> 9, f10 |-> 10, f11 |-> 11, f12 |-> 12, f13 |-> 13, f14 |-> 14, f15 |-> 15, f16 |-> 16,
   f17 |-> 17, f18 |-> 18, f19 |-> 19, f20 |-> 20, f21 |-> 21, f22 |-> 22, f23 |-> 23, f24 |-> 24,
   f25 |-> 25, f26 |-> 26, f27 |-> 27, f28 |-> 28, f29 |-> 29, f30 |-> 30, f31 |-> 31]

\* reg_alias_to_name, as the number of the register in its bank
reg_alias_to_name ==
  [r \in DOMAIN GprNumber \cup DOMAIN FprNumber |->
     IF r \in DOMAIN GprNumber THEN GprNumber[r] ELSE FprNumber[r]]

\* fp has an alias and is not recognised
valid_general_purpose_registers == DOMAIN GprNumber \ {"fp"}

\* ft12 to ft31 are recognised and have no alias
valid_floating_point_registers ==
  DOMAIN FprNumber \cup
    {"ft12", "ft13", "ft14", "ft15", "ft16", "ft17", "ft18", "ft19", "ft20", "ft21",
     "ft22", "ft23", "ft24", "ft25", "ft26", "ft27", "ft28", "ft29", "ft30", "ft31"}

csr_to_address == [fflags |-> 1, frm |-> 2, fcsr |-> 3]

roundingModeEncoding == [rne |-> 0, rtz |-> 1, rdn |-> 2, rup |-> 3, rmm |-> 4, dyn |-> 7]

\* identifier, for a name without a colon; afterComma: the last token was a comma
NameType(name, afterComma) ==
  IF name \in valid_instructions THEN "OPCODE"
  ELSE IF name \in valid_general_purpose_registers THEN "GP_REGISTER"
  ELSE IF name \in valid_floating_point_registers THEN "FP_REGISTER"
  ELSE IF name \in DOMAIN csr_to_address THEN "CSR_REGISTER"
  ELSE IF name \in DOMAIN roundingModeEncoding THEN "RM"
  ELSE IF afterComma THEN "LABEL_REF"
  ELSE "INVALID"

LexemeType(x, afterComma) ==
  CASE x.form = "word"       -> NameType(x.text, afterComma)
    [] x.form = "definition" -> "LABEL"
    [] x.form = "number"     -> "NUM"
    [] x.form = "float"      -> "FLOAT"
    [] x.form = "string"     -> "STRING"
    [] x.form = "directive"  -> "DIRECTIVE"
    [] x.form = "comma"         -> "COMMA"
    [] x.form = "lparen"        -> "LPAREN"
    [] x.form = "rparen"        -> "RPAREN"
    [] x.form \in {"dotted", "huge", "other"} -> "INVALID"

getNextToken(x, afterComma) ==
  [type |-> LexemeType(x, afterComma), value |-> x.text, num |-> x.num, line |-> x.line]

EndOfFile(line) == [type |-> "EOF", value |-> "", num |-> 0, line |-> line]

getTokenList(source) ==
  [i \in 1..Len(source) + 1 |->
     IF i <= Len(source) THEN getNextToken(source[i], i > 1 /\ source[i - 1].form = "comma")
     ELSE EndOfFile(IF source = <<>> THEN 0 ELSE source[Len(source)].line)]

\* std::out_of_range of std::stoll and std::stod, which nothing catches: an integer of
\* more than 64 bits, a float too large or too small
Overflows(source) == \E i \in 1..Len(source) : source[i].form = "huge"
=============================================================================
