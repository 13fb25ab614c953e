-------------------------- MODULE InstructionProofs --------------------------
(***************************************************************************)
(* The packing of operands into words and their recovery, for every        *)
(* statement: what MCInstruction samples at the boundaries.                *)
(***************************************************************************)
EXTENDS OneInstructionCorrect, TLAPS

\* a number is its quotient and its remainder put together
LEMMA Split ==
  ASSUME NEW n \in Int, NEW p \in Nat \ {0}
  PROVE  n = p * (n \div p) + (n % p) /\ n % p \in 0..(p - 1) /\ n \div p \in Int
BY SMT

\* quotient and remainder are the only such pair
LEMMA Join ==
  ASSUME NEW p \in Nat \ {0}, NEW q \in Int, NEW r \in 0..(p - 1)
  PROVE  (p * q + r) \div p = q /\ (p * q + r) % p = r
BY SMT

LEMMA BitsType ==
  ASSUME NEW n \in Int, NEW p \in Nat \ {0}, NEW s \in Nat \ {0}
  PROVE  Bits(n, p, s) \in 0..(s - 1)
BY Split, SMT DEF Bits

----------------------------------------------------------------------------
\* the immediate of loads and jalr, also stores: two fields, the upper one signed
LEMMA FieldI ==
  ASSUME NEW i \in Int, -2048 <= i, i < 2048
  PROVE  LET f == Bits(i, 32, 128)
             d == Bits(i, 1, 32)
         IN  f \in 0..127 /\ d \in 0..31 /\ sign_extend(32 * f + d, 4096) = i
BY SMTT(30) DEF Bits, sign_extend

\* the upper immediate fills four fields, with the 20 low bits of its two's complement
LEMMA FieldU ==
  ASSUME NEW i \in Int
  PROVE  LET f == Bits(i, 8192, 128)
             s == Bits(i, 256, 32)
             r == Bits(i, 8, 32)
             t == Bits(i, 1, 8)
         IN  /\ f \in 0..127 /\ s \in 0..31 /\ r \in 0..31 /\ t \in 0..7
             /\ 8192 * f + 256 * s + 8 * r + t = i % 1048576
<1> DEFINE q1 == i \div 8
           q2 == i \div 256
           q3 == i \div 8192
           q4 == q3 \div 128
           m1 == i % 8
           m2 == q1 % 32
           m3 == q2 % 32
           m4 == q3 % 128
           m == 8192 * m4 + 256 * m3 + 8 * m2 + m1
<1>1. i = 8 * q1 + m1 /\ m1 \in 0..7 /\ q1 \in Int
  BY SMT
<1>2. q1 = 32 * q2 + m2 /\ m2 \in 0..31 /\ q2 \in Int
  BY SMT
<1>3. q2 = 32 * q3 + m3 /\ m3 \in 0..31 /\ q3 \in Int
  BY SMT
<1>4. q3 = 128 * q4 + m4 /\ m4 \in 0..127 /\ q4 \in Int
  BY SMT
<1>5. Bits(i, 8192, 128) = m4 /\ Bits(i, 256, 32) = m3 /\ Bits(i, 8, 32) = m2
      /\ Bits(i, 1, 8) = m1
  BY SMT DEF Bits
<1> HIDE DEF q1, q2, q3, q4, m1, m2, m3, m4
<1>6. q1 = 131072 * q4 + 1024 * m4 + 32 * m3 + m2
  BY <1>2, <1>3, <1>4, SMT
<1>7. i = 1048576 * q4 + m
  BY <1>1, <1>2, <1>3, <1>4, <1>6, SMT
<1>8. m \in Int /\ 0 <= m /\ m < 1048576
  BY <1>1, <1>2, <1>3, <1>4, SMT
<1>9. i % 1048576 = m
  <2> HIDE DEF m
  <2> QED  BY <1>4, <1>7, <1>8, SMT
<1>10. /\ Bits(i, 8192, 128) \in 0..127 /\ Bits(i, 256, 32) \in 0..31
       /\ Bits(i, 8, 32) \in 0..31 /\ Bits(i, 1, 8) \in 0..7
  BY <1>1, <1>2, <1>3, <1>4, <1>5, SMT
<1>11. 8192 * Bits(i, 8192, 128) + 256 * Bits(i, 256, 32) + 8 * Bits(i, 8, 32) + Bits(i, 1, 8) = m
  BY <1>5, SMT
<1> HIDE DEF m
<1> QED  BY <1>9, <1>10, <1>11, SMT

\* the fields of a branch: sign, bit 11, and two runs between
LEMMA FieldB ==
  ASSUME NEW i \in Int, -4096 <= i, i < 4096, i % 4 = 0
  PROVE  LET f == 64 * Bits(i, 4096, 2) + Bits(i, 32, 64)
             d == 2 * Bits(i, 2, 16) + Bits(i, 2048, 2)
         IN  /\ f \in 0..127 /\ d \in 0..31
             /\ sign_extend(2 * (Bits(d, 2, 16) + 16 * Bits(f, 1, 64)
                    + 1024 * Bits(d, 1, 2) + 2048 * Bits(f, 64, 2)), 8192) = i
<1> DEFINE q1 == i \div 2
           q2 == i \div 32
           q3 == i \div 2048
           q4 == i \div 4096
           m1 == Bits(i, 2, 16)
           m2 == Bits(i, 32, 64)
           m3 == Bits(i, 2048, 2)
           m4 == Bits(i, 4096, 2)
<1>1. i = 2 * q1 /\ q1 \in Int
  BY SMT
<1>2. q1 = 16 * q2 + m1 /\ m1 \in 0..15 /\ q2 \in Int
  BY SMT DEF Bits
<1>3. q2 = 64 * q3 + m2 /\ m2 \in 0..63 /\ q3 \in Int
  BY SMT DEF Bits
<1>4. q3 = 2 * q4 + m3 /\ m3 \in 0..1 /\ q4 \in Int
  BY SMT DEF Bits
<1>5. q4 \in -1..0 /\ m4 \in 0..1 /\ m4 = -q4
  BY SMT DEF Bits
<1> HIDE DEF q1, q2, q3, q4, m1, m2, m3, m4
<1> DEFINE f == 64 * m4 + m2
           d == 2 * m1 + m3
<1>6. Bits(f, 1, 64) = m2 /\ Bits(f, 64, 2) = m4
  BY <1>3, <1>5, SMT DEF Bits
<1>7. Bits(d, 2, 16) = m1 /\ Bits(d, 1, 2) = m3
  BY <1>2, <1>4, SMT DEF Bits
<1>8. f \in 0..127 /\ d \in 0..31
  BY <1>2, <1>3, <1>4, <1>5, SMT
<1>9. sign_extend(2 * (m1 + 16 * m2 + 1024 * m3 + 2048 * m4), 8192) = i
  BY <1>1, <1>2, <1>3, <1>4, <1>5, SMT DEF sign_extend
<1> QED  BY <1>6, <1>7, <1>8, <1>9 DEF m1, m2, m3, m4

\* the fields of a jump: sign, bits 10:5, bits 4:1 with bit 11, and bits 19:12
LEMMA FieldJ ==
  ASSUME NEW i \in Int, -1048576 <= i, i < 1048576, i % 2 = 0
  PROVE  LET f == 64 * Bits(i, 1048576, 2) + Bits(i, 32, 64)
             s == 2 * Bits(i, 2, 16) + Bits(i, 2048, 2)
             r == Bits(i, 32768, 32)
             t == Bits(i, 4096, 8)
         IN  /\ f \in 0..127 /\ s \in 0..31 /\ r \in 0..31 /\ t \in 0..7
             /\ sign_extend(2 * (16 * Bits(f, 1, 64) + Bits(s, 2, 16)
                            + 1024 * Bits(s, 1, 2) + 2048 * (8 * r + t)
                            + 524288 * Bits(f, 64, 2)), 2097152) = i
<1> DEFINE q1 == i \div 2
           q2 == i \div 32
           q3 == i \div 2048
           q4 == i \div 4096
           q5 == i \div 32768
           q6 == i \div 1048576
           m1 == Bits(i, 2, 16)
           m2 == Bits(i, 32, 64)
           m3 == Bits(i, 2048, 2)
           m4 == Bits(i, 4096, 8)
           m5 == Bits(i, 32768, 32)
           m6 == Bits(i, 1048576, 2)
<1>1. i = 2 * q1 /\ q1 \in Int
  BY SMT
<1>2. q1 = 16 * q2 + m1 /\ m1 \in 0..15 /\ q2 \in Int
  BY SMT DEF Bits
<1>3. q2 = 64 * q3 + m2 /\ m2 \in 0..63 /\ q3 \in Int
  BY SMT DEF Bits
<1>4. q3 = 2 * q4 + m3 /\ m3 \in 0..1 /\ q4 \in Int
  BY SMT DEF Bits
<1>5. q4 = 8 * q5 + m4 /\ m4 \in 0..7 /\ q5 \in Int
  BY SMT DEF Bits
<1>6. q5 = 32 * q6 + m5 /\ m5 \in 0..31 /\ q6 \in Int
  BY SMT DEF Bits
<1>7. q6 \in -1..0 /\ m6 \in 0..1 /\ m6 = -q6
  BY SMT DEF Bits
<1> HIDE DEF q1, q2, q3, q4, q5, q6, m1, m2, m3, m4, m5, m6
<1> DEFINE f == 64 * m6 + m2
           s == 2 * m1 + m3
<1>8. Bits(f, 1, 64) = m2 /\ Bits(f, 64, 2) = m6
  BY <1>3, <1>7, SMT DEF Bits
<1>9. Bits(s, 2, 16) = m1 /\ Bits(s, 1, 2) = m3
  BY <1>2, <1>4, SMT DEF Bits
<1>10. f \in 0..127 /\ s \in 0..31
  BY <1>2, <1>3, <1>4, <1>7, SMT
<1>11. sign_extend(2 * (16 * m2 + m1 + 1024 * m3 + 2048 * (8 * m5 + m4) + 524288 * m6), 2097152) = i
  BY <1>1, <1>2, <1>3, <1>4, <1>5, <1>6, <1>7, SMT DEF sign_extend
<1> QED  BY <1>5, <1>6, <1>8, <1>9, <1>10, <1>11, SMT DEF m1, m2, m3, m4, m5, m6

----------------------------------------------------------------------------
(***************************************************************************)
(* The tables.  No name is in two of the sets: every statement has one     *)
(* format, one range of immediates, one set of operands and an entry whose *)
(* fields fit.                                                             *)
(***************************************************************************)
Fits(e) == e.opcode \in 1..127 /\ e.funct3 \in 0..7 /\ e.funct5 \in 0..31 /\ e.funct7 \in 0..127

USE DEF RTypeInstructions, I1TypeInstructions, I2TypeInstructions, I3TypeInstructions,
        STypeInstructions, BTypeInstructions, UTypeInstructions, JTypeInstructions,
        CSRRInstructions, CSRIInstructions, FDExtensionRTypeInstructions,
        FDExtensionR1TypeInstructions, FDExtensionR2TypeInstructions,
        FDExtensionR3TypeInstructions, FDExtensionR4TypeInstructions,
        FDExtensionITypeInstructions, FDExtensionSTypeInstructions,
        R_type_instruction_encoding_map, I1_type_instruction_encoding_map,
        I2_type_instruction_encoding_map, I3_type_instruction_encoding_map,
        S_type_instruction_encoding_map, B_type_instruction_encoding_map,
        U_type_instruction_encoding_map, J_type_instruction_encoding_map,
        CSR_R_type_instruction_encoding_map, CSR_I_type_instruction_encoding_map,
        F_D_R_type_instruction_encoding_map, F_D_R1_type_instruction_encoding_map,
        F_D_R2_type_instruction_encoding_map, F_D_R3_type_instruction_encoding_map,
        F_D_R4_type_instruction_encoding_map, F_D_I_type_instruction_encoding_map,
        F_D_S_type_instruction_encoding_map

LEMMA I1Apart ==
  \A n \in I1TypeInstructions :
    n \notin RTypeInstructions
BY SMTT(30)

LEMMA I2Apart ==
  \A n \in I2TypeInstructions :
    n \notin RTypeInstructions \cup I1TypeInstructions
BY SMTT(30)

LEMMA I3Apart ==
  \A n \in I3TypeInstructions :
    n \notin RTypeInstructions \cup I1TypeInstructions \cup I2TypeInstructions
BY SMTT(30)

LEMMA SApart ==
  \A n \in STypeInstructions :
    n \notin RTypeInstructions \cup I1TypeInstructions \cup I2TypeInstructions
              \cup I3TypeInstructions
BY SMTT(30)

LEMMA BApart ==
  \A n \in BTypeInstructions :
    n \notin RTypeInstructions \cup I1TypeInstructions \cup I2TypeInstructions
              \cup I3TypeInstructions \cup STypeInstructions
BY SMTT(30)

LEMMA UApart ==
  \A n \in UTypeInstructions :
    n \notin RTypeInstructions \cup I1TypeInstructions \cup I2TypeInstructions
              \cup I3TypeInstructions \cup STypeInstructions \cup BTypeInstructions
BY SMTT(30)

LEMMA JApart ==
  \A n \in JTypeInstructions :
    n \notin RTypeInstructions \cup I1TypeInstructions \cup I2TypeInstructions
              \cup I3TypeInstructions \cup STypeInstructions \cup BTypeInstructions
              \cup UTypeInstructions
BY SMTT(30)

LEMMA CSRRApart ==
  \A n \in CSRRInstructions :
    n \notin RTypeInstructions \cup I1TypeInstructions \cup I2TypeInstructions
              \cup I3TypeInstructions \cup STypeInstructions \cup BTypeInstructions
              \cup UTypeInstructions \cup JTypeInstructions
BY SMTT(30)

LEMMA CSRIApart ==
  \A n \in CSRIInstructions :
    n \notin RTypeInstructions \cup I1TypeInstructions \cup I2TypeInstructions
              \cup I3TypeInstructions \cup STypeInstructions \cup BTypeInstructions
              \cup UTypeInstructions \cup JTypeInstructions \cup CSRRInstructions
BY SMTT(30)

LEMMA FDRApart ==
  \A n \in FDExtensionRTypeInstructions :
    n \notin RTypeInstructions \cup I1TypeInstructions \cup I2TypeInstructions
              \cup I3TypeInstructions \cup STypeInstructions \cup BTypeInstructions
              \cup UTypeInstructions \cup JTypeInstructions \cup CSRRInstructions
              \cup CSRIInstructions
BY SMTT(30)

LEMMA FDR1Apart ==
  \A n \in FDExtensionR1TypeInstructions :
    n \notin RTypeInstructions \cup I1TypeInstructions \cup I2TypeInstructions
              \cup I3TypeInstructions \cup STypeInstructions \cup BTypeInstructions
              \cup UTypeInstructions \cup JTypeInstructions \cup CSRRInstructions
              \cup CSRIInstructions \cup FDExtensionRTypeInstructions
BY SMTT(30)

LEMMA FDR2Apart ==
  \A n \in FDExtensionR2TypeInstructions :
    n \notin RTypeInstructions \cup I1TypeInstructions \cup I2TypeInstructions
              \cup I3TypeInstructions \cup STypeInstructions \cup BTypeInstructions
              \cup UTypeInstructions \cup JTypeInstructions \cup CSRRInstructions
              \cup CSRIInstructions \cup FDExtensionRTypeInstructions
              \cup FDExtensionR1TypeInstructions
BY SMTT(30)

LEMMA FDR3Apart ==
  \A n \in FDExtensionR3TypeInstructions :
    n \notin RTypeInstructions \cup I1TypeInstructions \cup I2TypeInstructions
              \cup I3TypeInstructions \cup STypeInstructions \cup BTypeInstructions
              \cup UTypeInstructions \cup JTypeInstructions \cup CSRRInstructions
              \cup CSRIInstructions \cup FDExtensionRTypeInstructions
              \cup FDExtensionR1TypeInstructions \cup FDExtensionR2TypeInstructions
BY SMTT(30)

LEMMA FDR4Apart ==
  \A n \in FDExtensionR4TypeInstructions :
    n \notin RTypeInstructions \cup I1TypeInstructions \cup I2TypeInstructions
              \cup I3TypeInstructions \cup STypeInstructions \cup BTypeInstructions
              \cup UTypeInstructions \cup JTypeInstructions \cup CSRRInstructions
              \cup CSRIInstructions \cup FDExtensionRTypeInstructions
              \cup FDExtensionR1TypeInstructions \cup FDExtensionR2TypeInstructions
              \cup FDExtensionR3TypeInstructions
BY SMTT(30)

LEMMA FDIApart ==
  \A n \in FDExtensionITypeInstructions :
    n \notin RTypeInstructions \cup I1TypeInstructions \cup I2TypeInstructions
              \cup I3TypeInstructions \cup STypeInstructions \cup BTypeInstructions
              \cup UTypeInstructions \cup JTypeInstructions \cup CSRRInstructions
              \cup CSRIInstructions \cup FDExtensionRTypeInstructions
              \cup FDExtensionR1TypeInstructions \cup FDExtensionR2TypeInstructions
              \cup FDExtensionR3TypeInstructions \cup FDExtensionR4TypeInstructions
BY SMTT(30)

LEMMA FDSApart ==
  \A n \in FDExtensionSTypeInstructions :
    n \notin RTypeInstructions \cup I1TypeInstructions \cup I2TypeInstructions
              \cup I3TypeInstructions \cup STypeInstructions \cup BTypeInstructions
              \cup UTypeInstructions \cup JTypeInstructions \cup CSRRInstructions
              \cup CSRIInstructions \cup FDExtensionRTypeInstructions
              \cup FDExtensionR1TypeInstructions \cup FDExtensionR2TypeInstructions
              \cup FDExtensionR3TypeInstructions \cup FDExtensionR4TypeInstructions
              \cup FDExtensionITypeInstructions
BY SMTT(30)

HIDE DEF RTypeInstructions, I1TypeInstructions, I2TypeInstructions, I3TypeInstructions,
         STypeInstructions, BTypeInstructions, UTypeInstructions, JTypeInstructions,
         CSRRInstructions, CSRIInstructions, FDExtensionRTypeInstructions,
         FDExtensionR1TypeInstructions, FDExtensionR2TypeInstructions,
         FDExtensionR3TypeInstructions, FDExtensionR4TypeInstructions,
         FDExtensionITypeInstructions, FDExtensionSTypeInstructions,
         R_type_instruction_encoding_map, I1_type_instruction_encoding_map,
         I2_type_instruction_encoding_map, I3_type_instruction_encoding_map,
         S_type_instruction_encoding_map, B_type_instruction_encoding_map,
         U_type_instruction_encoding_map, J_type_instruction_encoding_map,
         CSR_R_type_instruction_encoding_map, CSR_I_type_instruction_encoding_map,
         F_D_R_type_instruction_encoding_map, F_D_R1_type_instruction_encoding_map,
         F_D_R2_type_instruction_encoding_map, F_D_R3_type_instruction_encoding_map,
         F_D_R4_type_instruction_encoding_map, F_D_I_type_instruction_encoding_map,
         F_D_S_type_instruction_encoding_map

LEMMA RFormat ==
  ASSUME NEW u, u.op \in RTypeInstructions
  PROVE  /\ generateMachineCode(u) = generateRType(u, R_type_instruction_encoding_map[u.op])
         /\ Fits(R_type_instruction_encoding_map[u.op])
         /\ u.op \notin UsesRm \cup UsesImm \cup FDExtensionR4TypeInstructions \cup CSRRInstructions
                  \cup CSRIInstructions \cup I2TypeInstructions
<1>1. generateMachineCode(u) = generateRType(u, R_type_instruction_encoding_map[u.op])
  BY SMT DEF generateMachineCode
<1>2. Fits(R_type_instruction_encoding_map[u.op])
  BY SMT DEF RTypeInstructions, R_type_instruction_encoding_map, Fits, Enc, OP, OP32
<1>3. u.op \notin UsesRm \cup UsesImm \cup FDExtensionR4TypeInstructions \cup CSRRInstructions
                  \cup CSRIInstructions \cup I2TypeInstructions
  BY BApart, CSRIApart, CSRRApart, FDIApart, FDR1Apart, FDR2Apart, FDR4Apart, FDSApart,
        I1Apart, I2Apart, JApart, SApart, UApart, SMT DEF UsesRd, UsesRs1, UsesRs2, UsesRm,
        UsesImm
<1> QED  BY <1>1, <1>2, <1>3

LEMMA I1Format ==
  ASSUME NEW u, u.op \in I1TypeInstructions
  PROVE  /\ generateMachineCode(u) = generateI1Type(u, I1_type_instruction_encoding_map[u.op])
         /\ Fits(I1_type_instruction_encoding_map[u.op])
         /\ I1_type_instruction_encoding_map[u.op].opcode \in {19, 27, 3, 103}
         /\ I1_type_instruction_encoding_map[u.op].opcode = 27 => u.op \in WithoutImmediate
         /\ ImmInRange(u.op, u.imm) => -2048 <= u.imm /\ u.imm < 2048
         /\ u.op \notin UsesRs2 \cup UsesRm \cup FDExtensionR4TypeInstructions \cup CSRRInstructions
                  \cup CSRIInstructions \cup I2TypeInstructions
<1>1. generateMachineCode(u) = generateI1Type(u, I1_type_instruction_encoding_map[u.op])
  BY I1Apart, SMT DEF generateMachineCode
<1>2. /\ Fits(I1_type_instruction_encoding_map[u.op])
      /\ I1_type_instruction_encoding_map[u.op].opcode \in {19, 27, 3, 103}
      /\ I1_type_instruction_encoding_map[u.op].opcode = 27 => u.op \in WithoutImmediate
  BY SMT DEF I1TypeInstructions, I1_type_instruction_encoding_map, Fits, Enc, OP_IMM,
        OP_IMM32, LOAD, JALR, WithoutImmediate
<1>3. ImmInRange(u.op, u.imm) => -2048 <= u.imm /\ u.imm < 2048
  BY BApart, CSRIApart, FDIApart, FDSApart, I1Apart, I2Apart, JApart, SApart, UApart,
        SMT DEF ImmInRange
<1>4. u.op \notin UsesRs2 \cup UsesRm \cup FDExtensionR4TypeInstructions \cup CSRRInstructions
                  \cup CSRIInstructions \cup I2TypeInstructions
  BY BApart, CSRIApart, CSRRApart, FDR1Apart, FDR2Apart, FDR4Apart, FDRApart, FDSApart,
        I1Apart, I2Apart, SApart, SMT DEF UsesRd, UsesRs1, UsesRs2, UsesRm, UsesImm
<1> QED  BY <1>1, <1>2, <1>3, <1>4

LEMMA I2Format ==
  ASSUME NEW u, u.op \in I2TypeInstructions
  PROVE  /\ generateMachineCode(u) = generateI2Type(u, I2_type_instruction_encoding_map[u.op])
         /\ Fits(I2_type_instruction_encoding_map[u.op])
         /\ I2_type_instruction_encoding_map[u.op].opcode \in {19, 27}
         /\ I2_type_instruction_encoding_map[u.op].opcode = 27 => u.op \in WithoutImmediate
         /\ I2_type_instruction_encoding_map[u.op].funct7 \in 0..63
         /\ ImmInRange(u.op, u.imm) => 0 <= u.imm /\ u.imm < 32
         /\ u.op \notin UsesRs2 \cup UsesRm \cup UsesImm \cup FDExtensionR4TypeInstructions
                  \cup CSRRInstructions \cup CSRIInstructions
<1>1. generateMachineCode(u) = generateI2Type(u, I2_type_instruction_encoding_map[u.op])
  BY I2Apart, SMT DEF generateMachineCode
<1>2. /\ Fits(I2_type_instruction_encoding_map[u.op])
      /\ I2_type_instruction_encoding_map[u.op].opcode \in {19, 27}
      /\ I2_type_instruction_encoding_map[u.op].opcode = 27 => u.op \in WithoutImmediate
      /\ I2_type_instruction_encoding_map[u.op].funct7 \in 0..63
  BY SMT DEF I2TypeInstructions, I2_type_instruction_encoding_map, Fits, Enc, OP_IMM,
        OP_IMM32, WithoutImmediate
<1>3. ImmInRange(u.op, u.imm) => 0 <= u.imm /\ u.imm < 32
  BY BApart, CSRIApart, FDIApart, FDSApart, I1Apart, I2Apart, JApart, SApart, UApart,
        SMT DEF ImmInRange
<1>4. u.op \notin UsesRs2 \cup UsesRm \cup UsesImm \cup FDExtensionR4TypeInstructions
                  \cup CSRRInstructions \cup CSRIInstructions
  BY BApart, CSRIApart, CSRRApart, FDIApart, FDR1Apart, FDR2Apart, FDR4Apart, FDRApart,
        FDSApart, I1Apart, I2Apart, JApart, SApart, UApart, SMT DEF UsesRd, UsesRs1,
        UsesRs2, UsesRm, UsesImm
<1> QED  BY <1>1, <1>2, <1>3, <1>4

LEMMA I3Format ==
  ASSUME NEW u, u.op \in I3TypeInstructions
  PROVE  /\ generateMachineCode(u) = generateI3Type(I3_type_instruction_encoding_map[u.op])
         /\ Fits(I3_type_instruction_encoding_map[u.op])
         /\ u.op \notin UsesRd \cup UsesRs1 \cup UsesRs2 \cup UsesRm \cup UsesImm
                  \cup FDExtensionR4TypeInstructions \cup CSRRInstructions
                  \cup CSRIInstructions \cup I2TypeInstructions
<1>1. generateMachineCode(u) = generateI3Type(I3_type_instruction_encoding_map[u.op])
  BY I3Apart, SMT DEF generateMachineCode
<1>2. Fits(I3_type_instruction_encoding_map[u.op])
  BY SMT DEF I3TypeInstructions, I3_type_instruction_encoding_map, Fits, Enc, SYSTEM
<1>3. u.op \notin UsesRd \cup UsesRs1 \cup UsesRs2 \cup UsesRm \cup UsesImm
                  \cup FDExtensionR4TypeInstructions \cup CSRRInstructions
                  \cup CSRIInstructions \cup I2TypeInstructions
  BY BApart, CSRIApart, CSRRApart, FDIApart, FDR1Apart, FDR2Apart, FDR3Apart, FDR4Apart,
        FDRApart, FDSApart, I1Apart, I2Apart, I3Apart, JApart, SApart, UApart,
        SMT DEF UsesRd, UsesRs1, UsesRs2, UsesRm, UsesImm
<1> QED  BY <1>1, <1>2, <1>3

LEMMA SFormat ==
  ASSUME NEW u, u.op \in STypeInstructions
  PROVE  /\ generateMachineCode(u) = generateSType(u, S_type_instruction_encoding_map[u.op])
         /\ Fits(S_type_instruction_encoding_map[u.op])
         /\ S_type_instruction_encoding_map[u.op].opcode \in {35}
         /\ ImmInRange(u.op, u.imm) => -2048 <= u.imm /\ u.imm < 2048
         /\ u.op \notin UsesRd \cup UsesRm \cup FDExtensionR4TypeInstructions \cup CSRRInstructions
                  \cup CSRIInstructions \cup I2TypeInstructions
<1>1. generateMachineCode(u) = generateSType(u, S_type_instruction_encoding_map[u.op])
  BY SApart, SMT DEF generateMachineCode
<1>2. /\ Fits(S_type_instruction_encoding_map[u.op])
      /\ S_type_instruction_encoding_map[u.op].opcode \in {35}
  BY SMT DEF STypeInstructions, S_type_instruction_encoding_map, Fits, Enc, STORE
<1>3. ImmInRange(u.op, u.imm) => -2048 <= u.imm /\ u.imm < 2048
  BY BApart, CSRIApart, FDIApart, FDSApart, I1Apart, I2Apart, JApart, SApart, UApart,
        SMT DEF ImmInRange
<1>4. u.op \notin UsesRd \cup UsesRm \cup FDExtensionR4TypeInstructions \cup CSRRInstructions
                  \cup CSRIInstructions \cup I2TypeInstructions
  BY CSRIApart, CSRRApart, FDIApart, FDR1Apart, FDR2Apart, FDR3Apart, FDR4Apart, FDRApart,
        I1Apart, I2Apart, JApart, SApart, UApart, SMT DEF UsesRd, UsesRs1, UsesRs2, UsesRm,
        UsesImm
<1> QED  BY <1>1, <1>2, <1>3, <1>4

LEMMA BFormat ==
  ASSUME NEW u, u.op \in BTypeInstructions
  PROVE  /\ generateMachineCode(u) = generateBType(u, B_type_instruction_encoding_map[u.op])
         /\ Fits(B_type_instruction_encoding_map[u.op])
         /\ B_type_instruction_encoding_map[u.op].opcode \in {99}
         /\ ImmInRange(u.op, u.imm) => -4096 <= u.imm /\ u.imm < 4096 /\ u.imm % 4 = 0
         /\ u.op \notin UsesRd \cup UsesRm \cup FDExtensionR4TypeInstructions \cup CSRRInstructions
                  \cup CSRIInstructions \cup I2TypeInstructions
<1>1. generateMachineCode(u) = generateBType(u, B_type_instruction_encoding_map[u.op])
  BY BApart, SMT DEF generateMachineCode
<1>2. /\ Fits(B_type_instruction_encoding_map[u.op])
      /\ B_type_instruction_encoding_map[u.op].opcode \in {99}
  BY SMT DEF BTypeInstructions, B_type_instruction_encoding_map, Fits, Enc, BRANCH
<1>3. ImmInRange(u.op, u.imm) => -4096 <= u.imm /\ u.imm < 4096 /\ u.imm % 4 = 0
  BY BApart, CSRIApart, FDIApart, FDSApart, I1Apart, I2Apart, JApart, SApart, UApart,
        SMT DEF ImmInRange
<1>4. u.op \notin UsesRd \cup UsesRm \cup FDExtensionR4TypeInstructions \cup CSRRInstructions
                  \cup CSRIInstructions \cup I2TypeInstructions
  BY BApart, CSRIApart, CSRRApart, FDIApart, FDR1Apart, FDR2Apart, FDR3Apart, FDR4Apart,
        FDRApart, I1Apart, I2Apart, JApart, UApart, SMT DEF UsesRd, UsesRs1, UsesRs2,
        UsesRm, UsesImm
<1> QED  BY <1>1, <1>2, <1>3, <1>4

LEMMA UFormat ==
  ASSUME NEW u, u.op \in UTypeInstructions
  PROVE  /\ generateMachineCode(u) = generateUType(u, U_type_instruction_encoding_map[u.op])
         /\ Fits(U_type_instruction_encoding_map[u.op])
         /\ U_type_instruction_encoding_map[u.op].opcode \in {55, 23}
         /\ u.op \notin UsesRs1 \cup UsesRs2 \cup UsesRm \cup FDExtensionR4TypeInstructions
                  \cup CSRRInstructions \cup CSRIInstructions \cup I2TypeInstructions
<1>1. generateMachineCode(u) = generateUType(u, U_type_instruction_encoding_map[u.op])
  BY UApart, SMT DEF generateMachineCode
<1>2. /\ Fits(U_type_instruction_encoding_map[u.op])
      /\ U_type_instruction_encoding_map[u.op].opcode \in {55, 23}
  BY SMT DEF UTypeInstructions, U_type_instruction_encoding_map, Fits, Enc, LUI, AUIPC
<1>3. u.op \notin UsesRs1 \cup UsesRs2 \cup UsesRm \cup FDExtensionR4TypeInstructions
                  \cup CSRRInstructions \cup CSRIInstructions \cup I2TypeInstructions
  BY BApart, CSRIApart, CSRRApart, FDIApart, FDR1Apart, FDR2Apart, FDR3Apart, FDR4Apart,
        FDRApart, FDSApart, I1Apart, I2Apart, SApart, UApart, SMT DEF UsesRd, UsesRs1,
        UsesRs2, UsesRm, UsesImm
<1> QED  BY <1>1, <1>2, <1>3, SMT

LEMMA JFormat ==
  ASSUME NEW u, u.op \in JTypeInstructions
  PROVE  /\ generateMachineCode(u) = generateJType(u, J_type_instruction_encoding_map[u.op])
         /\ Fits(J_type_instruction_encoding_map[u.op])
         /\ J_type_instruction_encoding_map[u.op].opcode \in {111}
         /\ ImmInRange(u.op, u.imm) => -1048576 <= u.imm /\ u.imm < 1048576 /\ u.imm % 2 = 0
         /\ u.op \notin UsesRs1 \cup UsesRs2 \cup UsesRm \cup FDExtensionR4TypeInstructions
                  \cup CSRRInstructions \cup CSRIInstructions \cup I2TypeInstructions
<1>1. generateMachineCode(u) = generateJType(u, J_type_instruction_encoding_map[u.op])
  BY JApart, SMT DEF generateMachineCode
<1>2. /\ Fits(J_type_instruction_encoding_map[u.op])
      /\ J_type_instruction_encoding_map[u.op].opcode \in {111}
  BY SMT DEF JTypeInstructions, J_type_instruction_encoding_map, Fits, Enc, JAL
<1>3. ImmInRange(u.op, u.imm) => -1048576 <= u.imm /\ u.imm < 1048576 /\ u.imm % 2 = 0
  BY BApart, CSRIApart, FDIApart, FDSApart, I1Apart, I2Apart, JApart, SApart, UApart,
        SMT DEF ImmInRange
<1>4. u.op \notin UsesRs1 \cup UsesRs2 \cup UsesRm \cup FDExtensionR4TypeInstructions
                  \cup CSRRInstructions \cup CSRIInstructions \cup I2TypeInstructions
  BY BApart, CSRIApart, CSRRApart, FDIApart, FDR1Apart, FDR2Apart, FDR3Apart, FDR4Apart,
        FDRApart, FDSApart, I1Apart, I2Apart, JApart, SApart, SMT DEF UsesRd, UsesRs1,
        UsesRs2, UsesRm, UsesImm
<1> QED  BY <1>1, <1>2, <1>3, <1>4, SMT

LEMMA CSRRFormat ==
  ASSUME NEW u, u.op \in CSRRInstructions
  PROVE  /\ generateMachineCode(u) = generateCSRType(u, CSR_R_type_instruction_encoding_map[u.op], u.rs1)
         /\ Fits(CSR_R_type_instruction_encoding_map[u.op])
         /\ u.op \notin UsesRs2 \cup UsesRm \cup UsesImm \cup FDExtensionR4TypeInstructions
                  \cup CSRIInstructions \cup I2TypeInstructions
<1>1. generateMachineCode(u) = generateCSRType(u, CSR_R_type_instruction_encoding_map[u.op], u.rs1)
  BY CSRRApart, SMT DEF generateMachineCode
<1>2. Fits(CSR_R_type_instruction_encoding_map[u.op])
  BY SMT DEF CSRRInstructions, CSR_R_type_instruction_encoding_map, Fits, Enc, SYSTEM
<1>3. u.op \notin UsesRs2 \cup UsesRm \cup UsesImm \cup FDExtensionR4TypeInstructions
                  \cup CSRIInstructions \cup I2TypeInstructions
  BY BApart, CSRIApart, CSRRApart, FDIApart, FDR1Apart, FDR2Apart, FDR4Apart, FDRApart,
        FDSApart, I1Apart, I2Apart, JApart, SApart, UApart, SMT DEF UsesRd, UsesRs1,
        UsesRs2, UsesRm, UsesImm
<1> QED  BY <1>1, <1>2, <1>3

LEMMA CSRIFormat ==
  ASSUME NEW u, u.op \in CSRIInstructions
  PROVE  /\ generateMachineCode(u) = generateCSRType(u, CSR_I_type_instruction_encoding_map[u.op], Bits(u.imm, 1, 32))
         /\ Fits(CSR_I_type_instruction_encoding_map[u.op])
         /\ ImmInRange(u.op, u.imm) => 0 <= u.imm /\ u.imm < 32
         /\ u.op \notin UsesRs1 \cup UsesRs2 \cup UsesRm \cup UsesImm
                  \cup FDExtensionR4TypeInstructions \cup CSRRInstructions
                  \cup I2TypeInstructions
<1>1. generateMachineCode(u) = generateCSRType(u, CSR_I_type_instruction_encoding_map[u.op], Bits(u.imm, 1, 32))
  BY CSRIApart, SMT DEF generateMachineCode
<1>2. Fits(CSR_I_type_instruction_encoding_map[u.op])
  BY SMT DEF CSRIInstructions, CSR_I_type_instruction_encoding_map, Fits, Enc, SYSTEM
<1>3. ImmInRange(u.op, u.imm) => 0 <= u.imm /\ u.imm < 32
  BY BApart, CSRIApart, FDIApart, FDSApart, I1Apart, I2Apart, JApart, SApart, UApart,
        SMT DEF ImmInRange
<1>4. u.op \notin UsesRs1 \cup UsesRs2 \cup UsesRm \cup UsesImm
                  \cup FDExtensionR4TypeInstructions \cup CSRRInstructions
                  \cup I2TypeInstructions
  BY BApart, CSRIApart, CSRRApart, FDIApart, FDR1Apart, FDR2Apart, FDR3Apart, FDR4Apart,
        FDRApart, FDSApart, I1Apart, I2Apart, JApart, SApart, UApart, SMT DEF UsesRd,
        UsesRs1, UsesRs2, UsesRm, UsesImm
<1> QED  BY <1>1, <1>2, <1>3, <1>4

LEMMA FDRFormat ==
  ASSUME NEW u, u.op \in FDExtensionRTypeInstructions
  PROVE  /\ generateMachineCode(u) = generateRType(u, F_D_R_type_instruction_encoding_map[u.op])
         /\ Fits(F_D_R_type_instruction_encoding_map[u.op])
         /\ u.op \notin UsesRm \cup UsesImm \cup FDExtensionR4TypeInstructions \cup CSRRInstructions
                  \cup CSRIInstructions \cup I2TypeInstructions
<1>1. generateMachineCode(u) = generateRType(u, F_D_R_type_instruction_encoding_map[u.op])
  BY FDRApart, SMT DEF generateMachineCode
<1>2. Fits(F_D_R_type_instruction_encoding_map[u.op])
  BY SMT DEF FDExtensionRTypeInstructions, F_D_R_type_instruction_encoding_map, Fits, Enc,
        OP_FP
<1>3. u.op \notin UsesRm \cup UsesImm \cup FDExtensionR4TypeInstructions \cup CSRRInstructions
                  \cup CSRIInstructions \cup I2TypeInstructions
  BY BApart, CSRIApart, CSRRApart, FDIApart, FDR1Apart, FDR2Apart, FDR4Apart, FDRApart,
        FDSApart, I1Apart, I2Apart, JApart, SApart, UApart, SMT DEF UsesRd, UsesRs1,
        UsesRs2, UsesRm, UsesImm
<1> QED  BY <1>1, <1>2, <1>3

LEMMA FDR1Format ==
  ASSUME NEW u, u.op \in FDExtensionR1TypeInstructions
  PROVE  /\ generateMachineCode(u) = generateFDR1Type(u, F_D_R1_type_instruction_encoding_map[u.op])
         /\ Fits(F_D_R1_type_instruction_encoding_map[u.op])
         /\ u.op \notin UsesImm \cup FDExtensionR4TypeInstructions \cup CSRRInstructions
                  \cup CSRIInstructions \cup I2TypeInstructions
<1>1. generateMachineCode(u) = generateFDR1Type(u, F_D_R1_type_instruction_encoding_map[u.op])
  BY FDR1Apart, SMT DEF generateMachineCode
<1>2. Fits(F_D_R1_type_instruction_encoding_map[u.op])
  BY SMT DEF FDExtensionR1TypeInstructions, F_D_R1_type_instruction_encoding_map, Fits,
        EncFP, OP_FP
<1>3. u.op \notin UsesImm \cup FDExtensionR4TypeInstructions \cup CSRRInstructions
                  \cup CSRIInstructions \cup I2TypeInstructions
  BY BApart, CSRIApart, CSRRApart, FDIApart, FDR1Apart, FDR4Apart, FDSApart, I1Apart,
        I2Apart, JApart, SApart, UApart, SMT DEF UsesRd, UsesRs1, UsesRs2, UsesRm, UsesImm
<1> QED  BY <1>1, <1>2, <1>3

LEMMA FDR2Format ==
  ASSUME NEW u, u.op \in FDExtensionR2TypeInstructions
  PROVE  /\ generateMachineCode(u) = generateFDR2Type(u, F_D_R2_type_instruction_encoding_map[u.op])
         /\ Fits(F_D_R2_type_instruction_encoding_map[u.op])
         /\ u.op \notin UsesRs2 \cup UsesImm \cup FDExtensionR4TypeInstructions \cup CSRRInstructions
                  \cup CSRIInstructions \cup I2TypeInstructions
<1>1. generateMachineCode(u) = generateFDR2Type(u, F_D_R2_type_instruction_encoding_map[u.op])
  BY FDR2Apart, SMT DEF generateMachineCode
<1>2. Fits(F_D_R2_type_instruction_encoding_map[u.op])
  BY SMT DEF FDExtensionR2TypeInstructions, F_D_R2_type_instruction_encoding_map, Fits,
        EncFP, OP_FP
<1>3. u.op \notin UsesRs2 \cup UsesImm \cup FDExtensionR4TypeInstructions \cup CSRRInstructions
                  \cup CSRIInstructions \cup I2TypeInstructions
  BY BApart, CSRIApart, CSRRApart, FDIApart, FDR1Apart, FDR2Apart, FDR4Apart, FDRApart,
        FDSApart, I1Apart, I2Apart, JApart, SApart, UApart, SMT DEF UsesRd, UsesRs1,
        UsesRs2, UsesRm, UsesImm
<1> QED  BY <1>1, <1>2, <1>3

LEMMA FDR3Format ==
  ASSUME NEW u, u.op \in FDExtensionR3TypeInstructions \cap DOMAIN F_D_R3_type_instruction_encoding_map
  PROVE  /\ generateMachineCode(u) = generateFDR3Type(u, F_D_R3_type_instruction_encoding_map[u.op])
         /\ Fits(F_D_R3_type_instruction_encoding_map[u.op])
         /\ u.op \notin UsesRs2 \cup UsesRm \cup UsesImm \cup FDExtensionR4TypeInstructions
                  \cup CSRRInstructions \cup CSRIInstructions \cup I2TypeInstructions
<1>1. generateMachineCode(u) = generateFDR3Type(u, F_D_R3_type_instruction_encoding_map[u.op])
  BY FDR3Apart, SMT DEF generateMachineCode
<1>2. Fits(F_D_R3_type_instruction_encoding_map[u.op])
  BY SMT DEF FDExtensionR3TypeInstructions, F_D_R3_type_instruction_encoding_map, Fits,
        EncFP, OP_FP
<1>3. u.op \notin UsesRs2 \cup UsesRm \cup UsesImm \cup FDExtensionR4TypeInstructions
                  \cup CSRRInstructions \cup CSRIInstructions \cup I2TypeInstructions
  BY BApart, CSRIApart, CSRRApart, FDIApart, FDR1Apart, FDR2Apart, FDR3Apart, FDR4Apart,
        FDRApart, FDSApart, I1Apart, I2Apart, JApart, SApart, UApart, SMT DEF UsesRd,
        UsesRs1, UsesRs2, UsesRm, UsesImm
<1> QED  BY <1>1, <1>2, <1>3

LEMMA FDR4Format ==
  ASSUME NEW u, u.op \in FDExtensionR4TypeInstructions
  PROVE  /\ generateMachineCode(u) = generateFDR4Type(u, F_D_R4_type_instruction_encoding_map[u.op])
         /\ Fits(F_D_R4_type_instruction_encoding_map[u.op])
         /\ F_D_R4_type_instruction_encoding_map[u.op].funct7 \in 0..3
         /\ u.op \notin UsesImm \cup CSRRInstructions \cup CSRIInstructions \cup I2TypeInstructions
<1>1. generateMachineCode(u) = generateFDR4Type(u, F_D_R4_type_instruction_encoding_map[u.op])
  BY FDR4Apart, SMT DEF generateMachineCode
<1>2. /\ Fits(F_D_R4_type_instruction_encoding_map[u.op])
      /\ F_D_R4_type_instruction_encoding_map[u.op].funct7 \in 0..3
  BY SMT DEF FDExtensionR4TypeInstructions, F_D_R4_type_instruction_encoding_map, Fits,
        Enc, MADD, MSUB, NMSUB, NMADD
<1>3. u.op \notin UsesImm \cup CSRRInstructions \cup CSRIInstructions \cup I2TypeInstructions
  BY BApart, CSRIApart, CSRRApart, FDIApart, FDR4Apart, FDSApart, I1Apart, I2Apart, JApart,
        SApart, UApart, SMT DEF UsesRd, UsesRs1, UsesRs2, UsesRm, UsesImm
<1> QED  BY <1>1, <1>2, <1>3

LEMMA FDIFormat ==
  ASSUME NEW u, u.op \in FDExtensionITypeInstructions
  PROVE  /\ generateMachineCode(u) = generateI1Type(u, F_D_I_type_instruction_encoding_map[u.op])
         /\ Fits(F_D_I_type_instruction_encoding_map[u.op])
         /\ F_D_I_type_instruction_encoding_map[u.op].opcode \in {7}
         /\ ImmInRange(u.op, u.imm) => -2048 <= u.imm /\ u.imm < 2048
         /\ u.op \notin UsesRs2 \cup UsesRm \cup FDExtensionR4TypeInstructions \cup CSRRInstructions
                  \cup CSRIInstructions \cup I2TypeInstructions
<1>1. generateMachineCode(u) = generateI1Type(u, F_D_I_type_instruction_encoding_map[u.op])
  BY FDIApart, SMT DEF generateMachineCode
<1>2. /\ Fits(F_D_I_type_instruction_encoding_map[u.op])
      /\ F_D_I_type_instruction_encoding_map[u.op].opcode \in {7}
  BY SMT DEF FDExtensionITypeInstructions, F_D_I_type_instruction_encoding_map, Fits, Enc,
        LOAD_FP, STORE_FP
<1>3. ImmInRange(u.op, u.imm) => -2048 <= u.imm /\ u.imm < 2048
  BY BApart, CSRIApart, FDIApart, FDSApart, I1Apart, I2Apart, JApart, SApart, UApart,
        SMT DEF ImmInRange
<1>4. u.op \notin UsesRs2 \cup UsesRm \cup FDExtensionR4TypeInstructions \cup CSRRInstructions
                  \cup CSRIInstructions \cup I2TypeInstructions
  BY BApart, CSRIApart, CSRRApart, FDIApart, FDR1Apart, FDR2Apart, FDR4Apart, FDRApart,
        FDSApart, I2Apart, SApart, SMT DEF UsesRd, UsesRs1, UsesRs2, UsesRm, UsesImm
<1> QED  BY <1>1, <1>2, <1>3, <1>4

LEMMA FDSFormat ==
  ASSUME NEW u, u.op \in FDExtensionSTypeInstructions
  PROVE  /\ generateMachineCode(u) = generateSType(u, F_D_S_type_instruction_encoding_map[u.op])
         /\ Fits(F_D_S_type_instruction_encoding_map[u.op])
         /\ F_D_S_type_instruction_encoding_map[u.op].opcode \in {39}
         /\ ImmInRange(u.op, u.imm) => -2048 <= u.imm /\ u.imm < 2048
         /\ u.op \notin UsesRd \cup UsesRm \cup FDExtensionR4TypeInstructions \cup CSRRInstructions
                  \cup CSRIInstructions \cup I2TypeInstructions
<1>1. generateMachineCode(u) = generateSType(u, F_D_S_type_instruction_encoding_map[u.op])
  BY FDSApart, SMT DEF generateMachineCode
<1>2. /\ Fits(F_D_S_type_instruction_encoding_map[u.op])
      /\ F_D_S_type_instruction_encoding_map[u.op].opcode \in {39}
  BY SMT DEF FDExtensionSTypeInstructions, F_D_S_type_instruction_encoding_map, Fits, Enc,
        STORE_FP
<1>3. ImmInRange(u.op, u.imm) => -2048 <= u.imm /\ u.imm < 2048
  BY BApart, CSRIApart, FDIApart, FDSApart, I1Apart, I2Apart, JApart, SApart, UApart,
        SMT DEF ImmInRange
<1>4. u.op \notin UsesRd \cup UsesRm \cup FDExtensionR4TypeInstructions \cup CSRRInstructions
                  \cup CSRIInstructions \cup I2TypeInstructions
  BY CSRIApart, CSRRApart, FDIApart, FDR1Apart, FDR2Apart, FDR3Apart, FDR4Apart, FDRApart,
        FDSApart, I1Apart, I2Apart, JApart, UApart, SMT DEF UsesRd, UsesRs1, UsesRs2,
        UsesRm, UsesImm
<1> QED  BY <1>1, <1>2, <1>3, <1>4

\* the missing comma: neither name is in any of the sets
LEMMA FclassInvalid ==
  ASSUME NEW u, u.op \in {"fclass_s", "fclass_d"}
  PROVE  generateMachineCode(u) = InvalidInstructionType
BY SMTT(60) DEF generateMachineCode,
   RTypeInstructions, I1TypeInstructions, I2TypeInstructions, I3TypeInstructions,
   STypeInstructions, BTypeInstructions, UTypeInstructions, JTypeInstructions,
   CSRRInstructions, CSRIInstructions, FDExtensionRTypeInstructions,
   FDExtensionR1TypeInstructions, FDExtensionR2TypeInstructions,
   FDExtensionR3TypeInstructions, FDExtensionR4TypeInstructions,
   FDExtensionITypeInstructions, FDExtensionSTypeInstructions,
   R_type_instruction_encoding_map, I1_type_instruction_encoding_map,
   I2_type_instruction_encoding_map, I3_type_instruction_encoding_map,
   S_type_instruction_encoding_map, B_type_instruction_encoding_map,
   U_type_instruction_encoding_map, J_type_instruction_encoding_map,
   CSR_R_type_instruction_encoding_map, CSR_I_type_instruction_encoding_map,
   F_D_R_type_instruction_encoding_map, F_D_R1_type_instruction_encoding_map,
   F_D_R2_type_instruction_encoding_map, F_D_R4_type_instruction_encoding_map,
   F_D_I_type_instruction_encoding_map, F_D_S_type_instruction_encoding_map

\* every name is in one of the sets, or it has no machine code
LEMMA EveryFormat ==
  ASSUME NEW u, u.op \in MachineInstructions
  PROVE  \/ u.op \in RTypeInstructions \cup I1TypeInstructions \cup I2TypeInstructions
                    \cup I3TypeInstructions \cup STypeInstructions \cup BTypeInstructions
                    \cup UTypeInstructions \cup JTypeInstructions \cup CSRRInstructions
                    \cup CSRIInstructions \cup FDExtensionRTypeInstructions
                    \cup FDExtensionR1TypeInstructions \cup FDExtensionR2TypeInstructions
                    \cup (FDExtensionR3TypeInstructions \cap DOMAIN F_D_R3_type_instruction_encoding_map)
                    \cup FDExtensionR4TypeInstructions \cup FDExtensionITypeInstructions
                    \cup FDExtensionSTypeInstructions
         \/ /\ u.op \in {"fclass_s", "fclass_d"}
            /\ generateMachineCode(u) = InvalidInstructionType
<1>1. DOMAIN F_D_R3_type_instruction_encoding_map \ FDExtensionR3TypeInstructions
        = {"fclass_s", "fclass_d"}
  BY SMT DEF F_D_R3_type_instruction_encoding_map, FDExtensionR3TypeInstructions
<1> QED
  BY <1>1, FclassInvalid, SMT DEF MachineInstructions

----------------------------------------------------------------------------
(***************************************************************************)
(* One lemma for each way of packing: what the machine takes from the word *)
(* is what the statement names.                                            *)
(***************************************************************************)
Carried(u, w) ==
  /\ w \in Word /\ w.opcode # 0
  /\ OperandsOf(u, w)
  /\ u.op \notin WithoutImmediate => ImmediateOf(u, w)

\* a statement the parser accepts
Accepted(u) == u \in UnitType /\ ImmInRange(u.op, u.imm)

\* only an upper immediate leaves its sign to the machine
LEMMA PlainOperand ==
  ASSUME NEW u, u.op \in I1TypeInstructions \cup STypeInstructions \cup BTypeInstructions
                          \cup JTypeInstructions \cup FDExtensionITypeInstructions
                          \cup FDExtensionSTypeInstructions
  PROVE  ImmOperand(u) = u.imm
BY UApart, JApart, FDIApart, FDSApart, SMT DEF ImmOperand

\* the opcode selects the immediate
LEMMA ImmediateCases ==
  ASSUME NEW w
  PROVE  /\ w.opcode \in {19, 3, 103, 7} => ImmGenerator(w) = ImmI(w)
         /\ w.opcode \in {35, 39} => ImmGenerator(w) = ImmS(w)
         /\ w.opcode = 99 => ImmGenerator(w) = ImmB(w)
         /\ w.opcode \in {55, 23} => ImmGenerator(w) = ImmU(w)
         /\ w.opcode = 111 => ImmGenerator(w) = ImmJ(w)
BY SMT DEF ImmGenerator, OP_IMM, LOAD, JALR, LOAD_FP, STORE, STORE_FP, BRANCH, LUI, AUIPC, JAL

\* the number of a CSR in two fields
LEMMA FieldCsr ==
  ASSUME NEW c \in Int, 0 <= c, c < 4096
  PROVE  /\ Bits(c, 32, 128) \in 0..127 /\ Bits(c, 1, 32) \in 0..31
         /\ 32 * Bits(c, 32, 128) + Bits(c, 1, 32) = c
BY SMT DEF Bits

LEMMA UnitFields ==
  ASSUME NEW u, Accepted(u)
  PROVE  /\ u.rd \in Reg /\ u.rs1 \in Reg /\ u.rs2 \in Reg /\ u.rs3 \in Reg
         /\ u.imm \in Int /\ u.csr \in Int /\ 0 <= u.csr /\ u.csr < 4096 /\ u.rm \in 0..7
<1> DEFINE c == u.csr
<1>1. c \in 0..4095
  BY DEF UnitType, Accepted
<1>2. /\ u.rd \in Reg /\ u.rs1 \in Reg /\ u.rs2 \in Reg /\ u.rs3 \in Reg
      /\ u.imm \in Int /\ u.rm \in 0..7
  BY DEF UnitType, Accepted
<1>3. c \in Int /\ 0 <= c /\ c < 4096
  <2> HIDE DEF c
  <2> QED  BY <1>1
<1> QED  BY <1>2, <1>3

\* registers only
LEMMA RCarried ==
  ASSUME NEW u, Accepted(u), u.op \in RTypeInstructions
  PROVE  Carried(u, generateMachineCode(u))
<1> DEFINE e == R_type_instruction_encoding_map[u.op]
           w == generateRType(u, e)
<1>1. generateMachineCode(u) = w /\ Fits(e)
  BY RFormat
<1> HIDE DEF e
<1>2. w \in Word /\ w.opcode # 0 /\ w.rd = u.rd /\ w.rs1 = u.rs1 /\ w.rs2 = u.rs2
  BY <1>1, UnitFields, SMT DEF generateRType, Pack, Word, Reg, Fits
<1> HIDE DEF w
<1> QED  BY <1>1, <1>2, RFormat DEF Carried, OperandsOf, ImmediateOf

\* the same of the floating-point registers
LEMMA FDRCarried ==
  ASSUME NEW u, Accepted(u), u.op \in FDExtensionRTypeInstructions
  PROVE  Carried(u, generateMachineCode(u))
<1> DEFINE e == F_D_R_type_instruction_encoding_map[u.op]
           w == generateRType(u, e)
<1>1. generateMachineCode(u) = w /\ Fits(e)
  BY FDRFormat
<1> HIDE DEF e
<1>2. w \in Word /\ w.opcode # 0 /\ w.rd = u.rd /\ w.rs1 = u.rs1 /\ w.rs2 = u.rs2
  BY <1>1, UnitFields, SMT DEF generateRType, Pack, Word, Reg, Fits
<1> HIDE DEF w
<1> QED  BY <1>1, <1>2, FDRFormat DEF Carried, OperandsOf, ImmediateOf

\* with a rounding mode
LEMMA FDR1Carried ==
  ASSUME NEW u, Accepted(u), u.op \in FDExtensionR1TypeInstructions
  PROVE  Carried(u, generateMachineCode(u))
<1> DEFINE e == F_D_R1_type_instruction_encoding_map[u.op]
           w == generateFDR1Type(u, e)
<1>1. generateMachineCode(u) = w /\ Fits(e)
  BY FDR1Format
<1> HIDE DEF e
<1>2. w \in Word /\ w.opcode # 0 /\ w.rd = u.rd /\ w.rs1 = u.rs1 /\ w.rs2 = u.rs2 /\ w.funct3 = u.rm
  BY <1>1, UnitFields, SMT DEF generateFDR1Type, Pack, Word, Reg, Fits
<1> HIDE DEF w
<1> QED  BY <1>1, <1>2, FDR1Format DEF Carried, OperandsOf, ImmediateOf

\* one source register and a rounding mode
LEMMA FDR2Carried ==
  ASSUME NEW u, Accepted(u), u.op \in FDExtensionR2TypeInstructions
  PROVE  Carried(u, generateMachineCode(u))
<1> DEFINE e == F_D_R2_type_instruction_encoding_map[u.op]
           w == generateFDR2Type(u, e)
<1>1. generateMachineCode(u) = w /\ Fits(e)
  BY FDR2Format
<1> HIDE DEF e
<1>2. w \in Word /\ w.opcode # 0 /\ w.rd = u.rd /\ w.rs1 = u.rs1 /\ w.funct3 = u.rm
  BY <1>1, UnitFields, SMT DEF generateFDR2Type, Pack, Word, Reg, Fits
<1> HIDE DEF w
<1> QED  BY <1>1, <1>2, FDR2Format DEF Carried, OperandsOf, ImmediateOf

\* one source register
LEMMA FDR3Carried ==
  ASSUME NEW u, Accepted(u), u.op \in FDExtensionR3TypeInstructions \cap DOMAIN F_D_R3_type_instruction_encoding_map
  PROVE  Carried(u, generateMachineCode(u))
<1> DEFINE e == F_D_R3_type_instruction_encoding_map[u.op]
           w == generateFDR3Type(u, e)
<1>1. generateMachineCode(u) = w /\ Fits(e)
  BY FDR3Format
<1> HIDE DEF e
<1>2. w \in Word /\ w.opcode # 0 /\ w.rd = u.rd /\ w.rs1 = u.rs1
  BY <1>1, UnitFields, SMT DEF generateFDR3Type, Pack, Word, Reg, Fits
<1> HIDE DEF w
<1> QED  BY <1>1, <1>2, FDR3Format DEF Carried, OperandsOf, ImmediateOf

\* three source registers
LEMMA FDR4Carried ==
  ASSUME NEW u, Accepted(u), u.op \in FDExtensionR4TypeInstructions
  PROVE  Carried(u, generateMachineCode(u))
<1> DEFINE e == F_D_R4_type_instruction_encoding_map[u.op]
           w == generateFDR4Type(u, e)
<1>1. generateMachineCode(u) = w /\ Fits(e) /\ e.funct7 \in 0..3
  BY FDR4Format
<1> HIDE DEF e
<1>2. w \in Word /\ w.opcode # 0 /\ w.rd = u.rd /\ w.rs1 = u.rs1 /\ w.rs2 = u.rs2 /\ w.funct3 = u.rm /\ w.funct7 \div 4 = u.rs3
  BY <1>1, UnitFields, SMT DEF generateFDR4Type, Pack, Word, Reg, Fits
<1> HIDE DEF w
<1> QED  BY <1>1, <1>2, FDR4Format DEF Carried, OperandsOf, ImmediateOf

\* register and immediate: the two fields of FieldI
LEMMA I1Carried ==
  ASSUME NEW u, Accepted(u), u.op \in I1TypeInstructions
  PROVE  Carried(u, generateMachineCode(u))
<1> DEFINE e == I1_type_instruction_encoding_map[u.op]
           w == generateI1Type(u, e)
<1>1. generateMachineCode(u) = w /\ Fits(e) /\ e.opcode \in {19, 27, 3, 103} /\ (e.opcode = 27 => u.op \in WithoutImmediate)
  BY I1Format
<1>2. u.imm \in Int /\ -2048 <= u.imm /\ u.imm < 2048
  BY I1Format, UnitFields DEF Accepted
<1>3. LET f == Bits(u.imm, 32, 128)
          d == Bits(u.imm, 1, 32)
      IN  f \in 0..127 /\ d \in 0..31 /\ sign_extend(32 * f + d, 4096) = u.imm
  BY <1>2, FieldI
<1> HIDE DEF e
<1>4. w \in Word /\ w.opcode # 0 /\ w.rd = u.rd /\ w.rs1 = u.rs1 /\ w.opcode = e.opcode /\ w.funct7 = Bits(u.imm, 32, 128) /\ w.rs2 = Bits(u.imm, 1, 32)
  BY <1>1, <1>2, <1>3, UnitFields, SMT DEF generateI1Type, Pack, Word, Reg, Fits
<1>5. u.op \notin WithoutImmediate => ImmGenerator(w) = u.imm
  BY <1>1, <1>2, <1>3, <1>4, ImmediateCases DEF ImmI
<1> HIDE DEF w
<1> QED  BY <1>1, <1>4, <1>5, I1Format, PlainOperand DEF Carried, OperandsOf, ImmediateOf

\* the loads of a floating-point register
LEMMA FDICarried ==
  ASSUME NEW u, Accepted(u), u.op \in FDExtensionITypeInstructions
  PROVE  Carried(u, generateMachineCode(u))
<1> DEFINE e == F_D_I_type_instruction_encoding_map[u.op]
           w == generateI1Type(u, e)
<1>1. generateMachineCode(u) = w /\ Fits(e) /\ e.opcode \in {7}
  BY FDIFormat
<1>2. u.imm \in Int /\ -2048 <= u.imm /\ u.imm < 2048
  BY FDIFormat, UnitFields DEF Accepted
<1>3. LET f == Bits(u.imm, 32, 128)
          d == Bits(u.imm, 1, 32)
      IN  f \in 0..127 /\ d \in 0..31 /\ sign_extend(32 * f + d, 4096) = u.imm
  BY <1>2, FieldI
<1> HIDE DEF e
<1>4. w \in Word /\ w.opcode # 0 /\ w.rd = u.rd /\ w.rs1 = u.rs1 /\ w.opcode = e.opcode /\ w.funct7 = Bits(u.imm, 32, 128) /\ w.rs2 = Bits(u.imm, 1, 32)
  BY <1>1, <1>2, <1>3, UnitFields, SMT DEF generateI1Type, Pack, Word, Reg, Fits
<1>5. ImmGenerator(w) = u.imm
  BY <1>1, <1>2, <1>3, <1>4, ImmediateCases DEF ImmI
<1> HIDE DEF w
<1> QED  BY <1>1, <1>4, <1>5, FDIFormat, PlainOperand DEF Carried, OperandsOf, ImmediateOf

\* stores: rd gives its place to the low bits of the immediate
LEMMA SCarried ==
  ASSUME NEW u, Accepted(u), u.op \in STypeInstructions
  PROVE  Carried(u, generateMachineCode(u))
<1> DEFINE e == S_type_instruction_encoding_map[u.op]
           w == generateSType(u, e)
<1>1. generateMachineCode(u) = w /\ Fits(e) /\ e.opcode \in {35}
  BY SFormat
<1>2. u.imm \in Int /\ -2048 <= u.imm /\ u.imm < 2048
  BY SFormat, UnitFields DEF Accepted
<1>3. LET f == Bits(u.imm, 32, 128)
          d == Bits(u.imm, 1, 32)
      IN  f \in 0..127 /\ d \in 0..31 /\ sign_extend(32 * f + d, 4096) = u.imm
  BY <1>2, FieldI
<1> HIDE DEF e
<1>4. w \in Word /\ w.opcode # 0 /\ w.rs1 = u.rs1 /\ w.rs2 = u.rs2 /\ w.opcode = e.opcode /\ w.funct7 = Bits(u.imm, 32, 128) /\ w.rd = Bits(u.imm, 1, 32)
  BY <1>1, <1>2, <1>3, UnitFields, SMT DEF generateSType, Pack, Word, Reg, Fits
<1>5. ImmGenerator(w) = u.imm
  BY <1>1, <1>2, <1>3, <1>4, ImmediateCases DEF ImmS
<1> HIDE DEF w
<1> QED  BY <1>1, <1>4, <1>5, SFormat, PlainOperand DEF Carried, OperandsOf, ImmediateOf

\* the stores of a floating-point register
LEMMA FDSCarried ==
  ASSUME NEW u, Accepted(u), u.op \in FDExtensionSTypeInstructions
  PROVE  Carried(u, generateMachineCode(u))
<1> DEFINE e == F_D_S_type_instruction_encoding_map[u.op]
           w == generateSType(u, e)
<1>1. generateMachineCode(u) = w /\ Fits(e) /\ e.opcode \in {39}
  BY FDSFormat
<1>2. u.imm \in Int /\ -2048 <= u.imm /\ u.imm < 2048
  BY FDSFormat, UnitFields DEF Accepted
<1>3. LET f == Bits(u.imm, 32, 128)
          d == Bits(u.imm, 1, 32)
      IN  f \in 0..127 /\ d \in 0..31 /\ sign_extend(32 * f + d, 4096) = u.imm
  BY <1>2, FieldI
<1> HIDE DEF e
<1>4. w \in Word /\ w.opcode # 0 /\ w.rs1 = u.rs1 /\ w.rs2 = u.rs2 /\ w.opcode = e.opcode /\ w.funct7 = Bits(u.imm, 32, 128) /\ w.rd = Bits(u.imm, 1, 32)
  BY <1>1, <1>2, <1>3, UnitFields, SMT DEF generateSType, Pack, Word, Reg, Fits
<1>5. ImmGenerator(w) = u.imm
  BY <1>1, <1>2, <1>3, <1>4, ImmediateCases DEF ImmS
<1> HIDE DEF w
<1> QED  BY <1>1, <1>4, <1>5, FDSFormat, PlainOperand DEF Carried, OperandsOf, ImmediateOf

\* shifts by an immediate
LEMMA I2Carried ==
  ASSUME NEW u, Accepted(u), u.op \in I2TypeInstructions
  PROVE  Carried(u, generateMachineCode(u))
<1> DEFINE e == I2_type_instruction_encoding_map[u.op]
           w == generateI2Type(u, e)
<1>1. generateMachineCode(u) = w /\ Fits(e) /\ e.funct7 \in 0..63 /\ e.opcode \in {19, 27} /\ (e.opcode = 27 => u.op \in WithoutImmediate)
  BY I2Format
<1>2. u.imm \in Int /\ 0 <= u.imm /\ u.imm < 32 /\ Bits(u.imm, 32, 2) = 0 /\ Bits(u.imm, 1, 32) = u.imm
  BY I2Format, UnitFields, SMT DEF Accepted, Bits
<1> HIDE DEF e
<1>3. w \in Word /\ w.opcode # 0 /\ w.rd = u.rd /\ w.rs1 = u.rs1 /\ w.opcode = e.opcode /\ w.funct7 = 2 * e.funct7 /\ w.rs2 = u.imm
  BY <1>1, <1>2, UnitFields, SMT DEF generateI2Type, Pack, Word, Reg, Fits
<1>4. u.op \notin WithoutImmediate => ImmGenerator(w) % 64 = u.imm
  <2> DEFINE i == u.imm
             k == e.funct7
  <2>1. ImmI(w) \in {64 * k + i, 64 * (k - 64) + i}
    BY <1>1, <1>2, <1>3, SMT DEF ImmI, sign_extend
  <2>2. i \in 0..63 /\ k \in Int /\ k - 64 \in Int
    BY <1>1, <1>2
  <2> HIDE DEF i, k
  <2>3. ImmI(w) % 64 = i
    BY <2>1, <2>2, Join
  <2> QED
    BY <1>1, <1>3, <2>3, ImmediateCases DEF i
<1> HIDE DEF w
<1> QED  BY <1>1, <1>3, <1>4, I2Format DEF Carried, OperandsOf, ImmediateOf

\* the number of a CSR in the place of an immediate
LEMMA CSRRCarried ==
  ASSUME NEW u, Accepted(u), u.op \in CSRRInstructions
  PROVE  Carried(u, generateMachineCode(u))
<1> DEFINE e == CSR_R_type_instruction_encoding_map[u.op]
           w == generateCSRType(u, e, u.rs1)
<1>1. generateMachineCode(u) = w /\ Fits(e)
  BY CSRRFormat
<1>2. Bits(u.csr, 32, 128) \in 0..127 /\ Bits(u.csr, 1, 32) \in 0..31
      /\ 32 * Bits(u.csr, 32, 128) + Bits(u.csr, 1, 32) = u.csr
  BY UnitFields, FieldCsr
<1> HIDE DEF e
<1>3. w \in Word /\ w.opcode # 0 /\ w.rd = u.rd /\ w.rs1 = u.rs1 /\ CsrAddress(w) = u.csr
  <2>1. w = Pack(Bits(u.csr, 32, 128), Bits(u.csr, 1, 32), u.rs1, e.funct3, u.rd, e.opcode)
    BY <1>1, <1>2 DEF generateCSRType
  <2>2. e.opcode \in 1..127 /\ e.funct3 \in 0..7
    BY <1>1 DEF Fits
  <2>3. u.rs1 \in 0..31 /\ u.rd \in 0..31
    BY UnitFields DEF Reg
  <2> HIDE DEF w
  <2> QED
    BY <1>2, <2>1, <2>2, <2>3, SMT DEF CsrAddress, Pack, Word, Reg
<1> HIDE DEF w
<1> QED  BY <1>1, <1>3, CSRRFormat DEF Carried, OperandsOf, ImmediateOf

\* a CSR and an immediate in the place of rs1
LEMMA CSRICarried ==
  ASSUME NEW u, Accepted(u), u.op \in CSRIInstructions
  PROVE  Carried(u, generateMachineCode(u))
<1> DEFINE e == CSR_I_type_instruction_encoding_map[u.op]
           w == generateCSRType(u, e, Bits(u.imm, 1, 32))
<1>1. generateMachineCode(u) = w /\ Fits(e)
  BY CSRIFormat
<1>2. Bits(u.csr, 32, 128) \in 0..127 /\ Bits(u.csr, 1, 32) \in 0..31
      /\ 32 * Bits(u.csr, 32, 128) + Bits(u.csr, 1, 32) = u.csr
  BY UnitFields, FieldCsr
<1>3. u.imm \in Int /\ 0 <= u.imm /\ u.imm < 32 /\ Bits(u.imm, 1, 32) = u.imm
      /\ Bits(u.imm, 1, 32) \in 0..31
  BY CSRIFormat, UnitFields, SMT DEF Accepted, Bits
<1> HIDE DEF e
<1>4. w \in Word /\ w.opcode # 0 /\ w.rd = u.rd /\ w.rs1 = u.imm /\ CsrAddress(w) = u.csr
  <2>1. w = Pack(Bits(u.csr, 32, 128), Bits(u.csr, 1, 32), u.imm, e.funct3, u.rd, e.opcode)
    BY <1>1, <1>2, <1>3 DEF generateCSRType
  <2>2. e.opcode \in 1..127 /\ e.funct3 \in 0..7
    BY <1>1 DEF Fits
  <2>3. u.imm \in 0..31 /\ u.rd \in 0..31
    BY <1>3, UnitFields DEF Reg
  <2> HIDE DEF w
  <2> QED
    BY <1>2, <2>1, <2>2, <2>3, SMT DEF CsrAddress, Pack, Word, Reg
<1> HIDE DEF w
<1> QED  BY <1>1, <1>4, CSRIFormat DEF Carried, OperandsOf, ImmediateOf

\* branches: the four fields of FieldB
LEMMA BCarried ==
  ASSUME NEW u, Accepted(u), u.op \in BTypeInstructions
  PROVE  Carried(u, generateMachineCode(u))
<1> DEFINE e == B_type_instruction_encoding_map[u.op]
           w == generateBType(u, e)
<1>1. generateMachineCode(u) = w /\ Fits(e) /\ e.opcode \in {99}
  BY BFormat
<1>2. u.imm \in Int /\ -4096 <= u.imm /\ u.imm < 4096 /\ u.imm % 4 = 0
  BY BFormat, UnitFields DEF Accepted
<1>3. LET f == 64 * Bits(u.imm, 4096, 2) + Bits(u.imm, 32, 64)
          d == 2 * Bits(u.imm, 2, 16) + Bits(u.imm, 2048, 2)
      IN  /\ f \in 0..127 /\ d \in 0..31
          /\ sign_extend(2 * (Bits(d, 2, 16) + 16 * Bits(f, 1, 64)
                 + 1024 * Bits(d, 1, 2) + 2048 * Bits(f, 64, 2)), 8192) = u.imm
  BY <1>2, FieldB
<1> HIDE DEF e
<1>4. w \in Word /\ w.opcode # 0 /\ w.rs1 = u.rs1 /\ w.rs2 = u.rs2 /\ w.opcode = 99 /\
      w.funct7 = 64 * Bits(u.imm, 4096, 2) + Bits(u.imm, 32, 64) /\
      w.rd = 2 * Bits(u.imm, 2, 16) + Bits(u.imm, 2048, 2)
  BY <1>1, <1>2, <1>3, UnitFields, SMT DEF generateBType, Pack, Word, Reg, Fits
<1>5. ImmGenerator(w) = u.imm
  BY <1>1, <1>2, <1>3, <1>4, ImmediateCases DEF ImmB
<1> HIDE DEF w
<1> QED  BY <1>1, <1>4, <1>5, BFormat, PlainOperand DEF Carried, OperandsOf, ImmediateOf

\* upper immediates
LEMMA UCarried ==
  ASSUME NEW u, Accepted(u), u.op \in UTypeInstructions
  PROVE  Carried(u, generateMachineCode(u))
<1> DEFINE e == U_type_instruction_encoding_map[u.op]
           w == generateUType(u, e)
           i == u.imm
           f == Bits(i, 8192, 128)
           s == Bits(i, 256, 32)
           r == Bits(i, 8, 32)
           t == Bits(i, 1, 8)
<1>1. generateMachineCode(u) = w /\ Fits(e) /\ e.opcode \in {55, 23}
  BY UFormat, SMT
<1>2. i \in Int
  BY UnitFields, SMT DEF Accepted
<1>3. /\ f \in 0..127 /\ s \in 0..31 /\ r \in 0..31 /\ t \in 0..7
      /\ UpperImmediate(f, s, r, t) = i % 1048576
  BY <1>2, FieldU, SMT DEF UpperImmediate
<1>4. w = Pack(f, s, r, t, u.rd, e.opcode)
  BY SMT DEF generateUType
<1> HIDE DEF e, i, f, s, r, t
<1>5. /\ w \in Word /\ w.opcode # 0 /\ w.rd = u.rd /\ w.opcode = e.opcode
      /\ w.funct7 = f /\ w.rs2 = s /\ w.rs1 = r /\ w.funct3 = t
  BY <1>1, <1>3, <1>4, UnitFields, SMT DEF Pack, Word, Reg, Fits
<1> HIDE DEF w
<1>6. ImmGenerator(w) = ImmOperand(u)
  BY <1>1, <1>3, <1>5, ImmediateCases DEF ImmU, ImmOperand, i
<1> QED  BY <1>1, <1>5, <1>6, UFormat, SMT DEF Carried, OperandsOf, ImmediateOf, i

\* jumps: the six fields of FieldJ
LEMMA JCarried ==
  ASSUME NEW u, Accepted(u), u.op \in JTypeInstructions
  PROVE  Carried(u, generateMachineCode(u))
<1> DEFINE e == J_type_instruction_encoding_map[u.op]
           w == generateJType(u, e)
           i == u.imm
           f == 64 * Bits(i, 1048576, 2) + Bits(i, 32, 64)
           s == 2 * Bits(i, 2, 16) + Bits(i, 2048, 2)
           r == Bits(i, 32768, 32)
           t == Bits(i, 4096, 8)
<1>1. generateMachineCode(u) = w /\ Fits(e) /\ e.opcode \in {111}
  BY JFormat, SMT
<1>2. i \in Int /\ -1048576 <= i /\ i < 1048576 /\ i % 2 = 0
  BY JFormat, UnitFields, SMT DEF Accepted
<1>3. /\ f \in 0..127 /\ s \in 0..31 /\ r \in 0..31 /\ t \in 0..7
      /\ JumpOffset(f, s, r, t) = i
  BY <1>2, FieldJ, SMT DEF JumpOffset
<1>4. w = Pack(f, s, r, t, u.rd, e.opcode)
  BY SMT DEF generateJType
<1> HIDE DEF e, i, f, s, r, t
<1>5. /\ w \in Word /\ w.opcode # 0 /\ w.rd = u.rd /\ w.opcode = 111
      /\ w.funct7 = f /\ w.rs2 = s /\ w.rs1 = r /\ w.funct3 = t
  BY <1>1, <1>3, <1>4, UnitFields, SMT DEF Pack, Word, Reg, Fits
<1> HIDE DEF w
<1>6. ImmGenerator(w) = i
  BY <1>3, <1>5, ImmediateCases DEF ImmJ
<1> QED  BY <1>1, <1>5, <1>6, JFormat, PlainOperand, SMT DEF Carried, OperandsOf, ImmediateOf, i

\* no operand at all
LEMMA I3Carried ==
  ASSUME NEW u, Accepted(u), u.op \in I3TypeInstructions
  PROVE  Carried(u, generateMachineCode(u))
<1> DEFINE e == I3_type_instruction_encoding_map[u.op]
           w == generateI3Type(e)
<1>1. generateMachineCode(u) = w /\ Fits(e)
  BY I3Format
<1> HIDE DEF e
<1>2. w \in Word /\ w.opcode # 0 /\ w.rd = 0
  BY <1>1, UnitFields, SMT DEF generateI3Type, Pack, Word, Reg, Fits
<1> HIDE DEF w
<1> QED  BY <1>1, <1>2, I3Format DEF Carried, OperandsOf, ImmediateOf

\* every statement, whatever its format, but for the two without machine code
LEMMA EveryCarried ==
  ASSUME NEW u, Accepted(u)
  PROVE  \/ Carried(u, generateMachineCode(u))
         \/ /\ u.op \in {"fclass_s", "fclass_d"}
            /\ generateMachineCode(u) = InvalidInstructionType
<1>1. u.op \in MachineInstructions
  BY SMT DEF Accepted, UnitType
<1> QED
  BY <1>1, EveryFormat, RCarried, I1Carried, I2Carried, I3Carried, SCarried, BCarried, UCarried,
     JCarried, CSRRCarried, CSRICarried, FDRCarried, FDR1Carried, FDR2Carried, FDR3Carried,
     FDR4Carried, FDICarried, FDSCarried, SMT

----------------------------------------------------------------------------
(***************************************************************************)
(* The inductive invariant: once it has been packed, the word is that of   *)
(* the statement, which is one the parser has accepted.                    *)
(***************************************************************************)
WordInv ==
  /\ Accepted(unit)
  /\ a \in Value /\ b \in Value
  /\ stage \in Stage
  /\ Encoded => word = generateMachineCode(unit) /\ word # InvalidInstructionType
  /\ ~Encoded => word = InvalidInstructionType
  /\ stage = "not_encoded" => generateMachineCode(unit) = InvalidInstructionType

LEMMA ValueZero == 0 \in Value
BY WidthAssumption, PowersOfTwo DEF Value

LEMMA WordInit == Init => WordInv
BY UnitsAssumption, ValueZero DEF Init, WordInv, Accepted, Stage, Encoded

LEMMA WordNext == WordInv /\ [Next]_vars => WordInv'
<1> SUFFICES ASSUME WordInv, [Next]_vars
             PROVE  WordInv'
  OBVIOUS
<1>1. CASE Generate
  BY <1>1 DEF Generate, WordInv, Stage, Encoded
<1>2. ASSUME NEW c \in Contents, Execute(c[1], c[2])
      PROVE  WordInv'
  <2>1. c[1] \in Value /\ c[2] \in Value
    BY UnitsAssumption
  <2> QED  BY <1>2, <2>1 DEF Execute, WordInv, Stage, Encoded
<1>3. CASE UNCHANGED vars
  BY <1>3 DEF vars, WordInv, Encoded
<1> QED  BY <1>1, <1>2, <1>3 DEF Next

THEOREM AlwaysWord == Spec => []WordInv
BY WordInit, WordNext, PTL DEF Spec

\* InvalidInstructionType is a word as well
LEMMA InvalidIsWord == InvalidInstructionType \in Word
BY SMT DEF InvalidInstructionType, Pack, Word, Reg

\* every statement the parser accepts is packed into the fields of a word
THEOREM TypeCorrect == Spec => []TypeOK
<1>1. WordInv => TypeOK
  BY EveryCarried, InvalidIsWord DEF WordInv, TypeOK, Accepted, Carried
<1> QED  BY <1>1, AlwaysWord, PTL

\* the machine takes from the word the operands the statement names
THEOREM OperandsAlwaysSurvive == Spec => []OperandsSurvive
<1>1. WordInv => OperandsSurvive
  BY EveryCarried DEF WordInv, OperandsSurvive, Carried
<1> QED  BY <1>1, AlwaysWord, PTL

\* only the two names the missing comma joins have no machine code
THEOREM OnlyFclassEverFails == Spec => []OnlyFclassFails
<1>1. WordInv => OnlyFclassFails
  <2>1. InvalidInstructionType.opcode = 0
    BY DEF InvalidInstructionType, Pack
  <2> QED
    BY <2>1, EveryCarried DEF WordInv, OnlyFclassFails, Carried
<1> QED  BY <1>1, AlwaysWord, PTL

\* and its immediate, for every immediate in the range of its format
THEOREM ImmediateAlwaysSurvives == Spec => []ImmediateSurvives
<1>1. WordInv => ImmediateSurvives
  BY EveryCarried DEF WordInv, ImmediateSurvives, Carried
<1> QED  BY <1>1, AlwaysWord, PTL
==============================================================================
