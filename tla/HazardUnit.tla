----------------------------- MODULE HazardUnit -----------------------------
(***************************************************************************)
(* HazardDetectionUnit (hazardUnit.cpp): pure predicates over the fields   *)
(* of the instruction in ID and of the destinations ahead of it.           *)
(***************************************************************************)
EXTENDS Naturals

\* the operand r, read from the FPRs iff isFloat, is the destination exRd
LoadUse(exRd, exIsFloat, r, isFloat) ==
  /\ isFloat = exIsFloat
  /\ r # 0 \/ isFloat
  /\ exRd = r

\* a mistake the properties are tested with: rs2 is forgotten
LoadUseRs1Only(exRd, exMemRead, rs1, rs2, rs1Float, rs2Float, exFloat) ==
  exMemRead /\ LoadUse(exRd, exFloat, rs1, rs1Float)

DetectLoadUseHazard(exRd, exMemRead, rs1, rs2, rs1Float, rs2Float, exFloat) ==
  /\ exMemRead
  /\ LoadUse(exRd, exFloat, rs1, rs1Float) \/ LoadUse(exRd, exFloat, rs2, rs2Float)

\* a mistake: rs2 is forgotten
WriteHazardRs1Only(rd, regWrite, rs1, rs2) == regWrite /\ rd # 0 /\ rd = rs1

\* DetectEXHazard and DetectMEMHazard: the same test on the EX and on the MEM
\* destination, blind to the register file of either side
DetectWriteHazard(rd, regWrite, rs1, rs2) ==
  /\ regWrite
  /\ rd # 0
  /\ rd = rs1 \/ rd = rs2
=============================================================================
