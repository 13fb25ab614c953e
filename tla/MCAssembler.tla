---------------------------- MODULE MCAssembler ----------------------------
(***************************************************************************)
(* Files of a data and a text section, or of a text section alone, from a  *)
(* choice of lines, and one file per mnemonic and syntax.                  *)
(***************************************************************************)
EXTENDS AssemblerCorrect, SequencesExt

Lex(form, text, num) == [form |-> form, text |-> text, num |-> num]
W(name) == Lex("word", name, 0)
D(name) == Lex("directive", name, 0)
L(name) == Lex("definition", name, 0)
N(n) == Lex("number", "", n)
Comma == Lex("comma", ",", 0)

\* the words of a line, with a comma between two operands
Line(op, operands) ==
  <<W(op)>> \o FlattenSeq([i \in 1..Len(operands) |->
                             IF i = 1 THEN <<operands[i]>> ELSE <<Comma, operands[i]>>])

File(lines) ==
  FlattenSeq([i \in 1..Len(lines) |->
                [j \in 1..Len(lines[i]) |-> lines[i][j] @@ [line |-> i]]])

DataLines ==
  { <<L("a"), D("byte"), N(7)>>,
    <<L("b"), D("dword"), N(5), Comma, N(6)>>,
    <<L("a"), D("word")>>,                              \* no value
    <<D("string"), Lex("string", "text", 4)>>,
    <<L("c"), D("zero"), N(2)>>,
    <<L("b"), D("half"), N(1)>> }                       \* an unknown directive

TextLines ==
  { <<L("t")>>,
    <<L("a"), W("ret")>>,
    Line("beq", <<W("x1"), W("x2"), W("t")>>),
    Line("beq", <<W("x1"), W("x2"), W("a")>>),
    Line("jal", <<W("x1"), W("t")>>),
    Line("jal", <<W("x1"), W("b")>>),
    Line("la", <<W("x1"), W("a")>>),
    Line("ld", <<W("x1"), W("b")>>),
    Line("li", <<W("x1"), N(70000)>>),
    Line("addi", <<W("x1"), W("x0"), N(5000)>>),
    Line("beq", <<W("x1"), W("x2"), N(6)>>),
    <<Lex("other", "", 0)>> }

Upto(S, n) == UNION {[1..k -> S] : k \in 0..n}

\* an operand for every type of token
Sample(type) ==
  CASE type = G -> W("x5") [] type = F -> W("fa0") [] type = C -> Comma
    [] type = "RM" -> W("rtz") [] type = "CSR_REGISTER" -> W("frm") [] type = "NUM" -> N(4)
    [] type = "LABEL_REF" -> W("b")
    [] type = "LPAREN" -> Lex("lparen", "(", 0) [] type = "RPAREN" -> Lex("rparen", ")", 0)

AllPatterns ==
  Range(RegisterPattern) \cup Range(ImmediatePattern) \cup Range(LabelPattern)
    \cup {CsrPattern, DataLabelPattern} \cup Range(PseudoPattern)

\* every mnemonic before every row of operands, most of which it does not take
Singles ==
  { << <<W(n)>> \o [i \in 1..Len(p) |-> Sample(p[i])] >> :
      n \in valid_instructions, p \in AllPatterns }

Odd ==
  { << <<L("data")>>, <<W("ret")>> >>,
    << <<W("ret")>>, <<L("text")>>, <<W("ret")>> >>,
    << <<L("addi")>>, Line("beq", <<W("x1"), W("x2"), W("addi")>>) >>,
    << <<L("x5"), W("nop")>>, Line("jal", <<W("x1"), W("x5")>>) >>,
    << <<D("data")>>, <<L("a"), D("dword"), Lex("huge", "", 0)>> >>,
    << <<D("data")>>, <<L("a"), D("float"), Lex("float", "", 1), Comma, Lex("huge", "", 0)>> >>,
    << <<D("data")>>, <<L("a"), D("float"), Lex("float", "", 7), Comma, Lex("float", "", -8)>> >>,
    << <<D("data")>>, <<L("a"), D("double"), Lex("float", "", 8)>>, <<D("text")>>, <<W("nop")>> >>,
    << <<D("data")>>, <<L("a"), D("zero"), N(-1)>> >>,
    << <<D("data")>>, <<L("a"), D("zero"), N(9)>>, <<D("byte"), N(1)>>, <<D("text")>>, <<W("nop")>> >>,
    << <<D("data")>>, <<L("a"), D("byte"), N(1)>>, <<L("b"), D("zero"), N(9)>> >>,
    << <<D("data")>>, <<L("a"), D("byte"), N(7)>>, <<D("word")>>, <<L("b"), D("byte"), N(8)>> >>,
    << <<D("data")>>, <<L("a")>>, <<L("byte"), D("dword"), N(5), N(6)>>, <<D("zero"), N(3)>>,
       <<L("b"), D("word"), N(1)>> >>,
    << <<D("data")>>, <<L("a"), D("zero"), N(0)>>, <<D("text")>>, <<W("nop")>> >>,
    << <<D("data")>>, <<L("a"), D("float"), N(1)>>, <<D("text")>>, <<W("nop")>> >>,
    << <<D("data")>>, <<L("a"), D("float"), Lex("float", "", 1)>>, <<D("text")>>, <<W("nop")>> >>,
    << Line("flw", <<W("ft12"), N(0)>>) \o <<Lex("lparen", "(", 0), W("sp"), Lex("rparen", ")", 0)>> >>,
    << Line("fadd_s", <<W("fa0"), W("ft12"), W("ft1")>>) >>,
    << <<W("nop")>>, <<W("fence")>>, <<W("nop")>> >>,
    << Line("mv", <<W("fp"), W("sp")>>) >>,
    << <<D("bss")>>, <<L("u"), D("space"), N(4)>>, <<D("text")>>, <<W("ret")>> >>,
    << <<D("section")>>, <<D("text")>>, <<D("globl"), W("main")>>, <<W("nop")>> >>,
    << <<D("data")>>, <<D("section")>>, <<W("nop")>> >>,
    << <<D("data")>>, <<L("a"), W("nop")>>, <<D("byte"), N(7), W("nop")>>, <<W("nop")>>,
       <<L("text")>>, <<W("nop")>> >>,
    << Line("li", <<W("x1"), N(4096)>>), Line("li", <<W("x1"), N(2000000)>>),
       Line("jal", <<W("x1"), N(3)>>), Line("jal", <<W("x1"), N(2000)>>),
       Line("slli", <<W("x1"), W("x1"), N(32)>>), Line("lui", <<W("x1"), N(-1)>>) >> }

Layouts ==
  { << <<D("data")>> >> \o d \o << <<D("text")>> >> \o t :
      d \in Upto(DataLines, 2), t \in Upto(TextLines, 2) }
  \cup { << <<D("text")>> >> \o t \o << <<D("data")>> >> \o d :
           d \in Upto(DataLines, 1), t \in Upto(TextLines, 2) }
  \cup Upto(TextLines, 3)

MCSources == {File(f) : f \in Layouts \cup Singles \cup Odd}
=============================================================================
