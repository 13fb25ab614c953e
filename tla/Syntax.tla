------------------------------- MODULE Syntax -------------------------------
(***************************************************************************)
(* The operand syntaxes of every mnemonic (instruction_syntax_map of       *)
(* instructions.cpp) and the row of tokens each of them wants behind the   *)
(* mnemonic (the conditions of the parse_O_... functions).                 *)
(***************************************************************************)
EXTENDS Lexer, MachineCode

\* the W forms of the shifts and of addition are missing from the map
RegisterForms == RTypeInstructions \ {"addw", "subw", "sllw", "srlw", "sraw"}

Loads == {"lb", "lh", "lw", "ld"}
UnsignedLoads == {"lbu", "lhu", "lwu"}

ImmediateForms ==
  {"addi", "xori", "ori", "andi", "slti", "sltiu", "slli", "srli", "srai"}

instruction_syntax_map(n) ==
  IF n \in BTypeInstructions THEN {"O_GPR_C_GPR_C_I", "O_GPR_C_GPR_C_IL"} ELSE
  CASE n \in RegisterForms    -> {"O_GPR_C_GPR_C_GPR"}
    [] n \in ImmediateForms   -> {"O_GPR_C_GPR_C_I"}
    [] n \in Loads            -> {"O_GPR_C_I_LP_GPR_RP", "O_GPR_C_DL"}
    [] n \in UnsignedLoads \cup STypeInstructions \cup {"jalr"} -> {"O_GPR_C_I_LP_GPR_RP"}
    [] n \in UTypeInstructions -> {"O_GPR_C_I"}
    [] n \in JTypeInstructions -> {"O_GPR_C_I", "O_GPR_C_IL"}
    [] n \in I3TypeInstructions \cup {"fence", "fence_i"} -> {"O"}
    [] n \in CSRRInstructions -> {"O_GPR_C_CSR_C_GPR"}
    [] n \in CSRIInstructions -> {"O_GPR_C_CSR_C_I"}
    [] n \in PseudoInstructions \ {"fence", "fence_i"} -> {"PSEUDO"}
    [] n \in FDExtensionITypeInstructions \cup FDExtensionSTypeInstructions ->
         {"O_FPR_C_I_LP_GPR_RP"}
    [] n \in FDExtensionR4TypeInstructions ->
         {"O_FPR_C_FPR_C_FPR_C_FPR", "O_FPR_C_FPR_C_FPR_C_FPR_C_RM"}
    [] n \in FDExtensionR1TypeInstructions -> {"O_FPR_C_FPR_C_FPR", "O_FPR_C_FPR_C_FPR_C_RM"}
    [] n \in {"fsqrt_s", "fsqrt_d"} -> {"O_FPR_C_FPR", "O_FPR_C_FPR_C_RM"}
    [] n \in {"feq_s", "flt_s", "fle_s", "feq_d", "flt_d", "fle_d"} -> {"O_GPR_C_FPR_C_FPR"}
    [] n \in {"fsgnj_s", "fsgnjn_s", "fsgnjx_s", "fmin_s", "fmax_s",
              "fsgnj_d", "fsgnjn_d", "fsgnjx_d", "fmin_d", "fmax_d"} -> {"O_FPR_C_FPR_C_FPR"}
    [] n \in {"fclass_s", "fclass_d", "fmv_x_w", "fmv_x_d"} -> {"O_GPR_C_FPR"}
    [] n \in {"fmv_w_x", "fmv_d_x"} -> {"O_FPR_C_GPR"}
    [] n \in {"fcvt_w_s", "fcvt_wu_s", "fcvt_l_s", "fcvt_lu_s"} ->
         {"O_GPR_C_FPR", "O_GPR_C_FPR_C_RM"}
    [] n \in {"fcvt_w_d", "fcvt_wu_d", "fcvt_l_d", "fcvt_lu_d"} ->
         {"O_GPR_C_FPR", "O_FPR_C_GPR_C_RM"}
    [] n \in {"fcvt_s_w", "fcvt_s_wu", "fcvt_s_l", "fcvt_s_lu", "fcvt_d_l", "fcvt_d_lu"} ->
         {"O_FPR_C_GPR", "O_FPR_C_GPR_C_RM"}
    [] n \in {"fcvt_d_w", "fcvt_d_wu"} -> {"O_FPR_C_GPR", "O_GPR_C_FPR_C_RM"}
    [] n \in {"fcvt_s_d", "fcvt_d_s"}  -> {"O_FPR_C_FPR", "O_GPR_C_FPR_C_RM"}
    [] OTHER -> {}

G == "GP_REGISTER"
F == "FP_REGISTER"
C == "COMMA"

\* the statements that consist of registers, and a rounding mode
RegisterPattern ==
  [O |-> <<>>,
   O_GPR_C_GPR_C_GPR |-> <<G, C, G, C, G>>,
   O_FPR_C_FPR_C_FPR_C_FPR |-> <<F, C, F, C, F, C, F>>,
   O_FPR_C_FPR_C_FPR_C_FPR_C_RM |-> <<F, C, F, C, F, C, F, C, "RM">>,
   O_FPR_C_FPR_C_FPR |-> <<F, C, F, C, F>>,
   O_FPR_C_FPR_C_FPR_C_RM |-> <<F, C, F, C, F, C, "RM">>,
   O_FPR_C_FPR |-> <<F, C, F>>,
   O_FPR_C_FPR_C_RM |-> <<F, C, F, C, "RM">>,
   O_FPR_C_GPR |-> <<F, C, G>>,
   O_FPR_C_GPR_C_RM |-> <<F, C, G, C, "RM">>,
   O_GPR_C_FPR |-> <<G, C, F>>,
   O_GPR_C_FPR_C_RM |-> <<G, C, F, C, "RM">>,
   O_GPR_C_FPR_C_FPR |-> <<G, C, F, C, F>>]

\* those with a number
ImmediatePattern ==
  [O_GPR_C_GPR_C_I |-> <<G, C, G, C, "NUM">>,
   O_GPR_C_I |-> <<G, C, "NUM">>,
   O_GPR_C_I_LP_GPR_RP |-> <<G, C, "NUM", "LPAREN", G, "RPAREN">>,
   O_FPR_C_I_LP_GPR_RP |-> <<F, C, "NUM", "LPAREN", G, "RPAREN">>,
   O_GPR_C_CSR_C_I |-> <<G, C, "CSR_REGISTER", C, "NUM">>]

CsrPattern == <<G, C, "CSR_REGISTER", C, G>>

\* those with the label of an instruction
LabelPattern ==
  [O_GPR_C_GPR_C_IL |-> <<G, C, G, C, "LABEL_REF">>,
   O_GPR_C_IL |-> <<G, C, "LABEL_REF">>]

\* of la, and of the loads
DataLabelPattern == <<G, C, "LABEL_REF">>

\* the pseudo instructions parse_pseudo knows, apart from la
PseudoPattern ==
  [nop |-> <<>>, ret |-> <<>>, li |-> <<G, C, "NUM">>, mv |-> <<G, C, G>>, not |-> <<G, C, G>>]
=============================================================================
