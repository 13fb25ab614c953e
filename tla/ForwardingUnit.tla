--------------------------- MODULE ForwardingUnit ---------------------------
(***************************************************************************)
(* ForwardingUnit (forwarding_unit.cpp): which copy of an operand is the   *)
(* youngest.  GetRs1Source and GetRs2Source are the same function of their *)
(* operand.                                                                *)
(***************************************************************************)
EXTENDS Naturals

IsGprZero(rd, isFloat) == ~isFloat /\ rd = 0

Matches(regWrite, rd, isFloat, rs, rsFloat) ==
  regWrite /\ isFloat = rsFloat /\ rd = rs

\* a mistake the properties are tested with: the older result is preferred
OldestSource(exRegWrite, exRd, exFloat, memRegWrite, memRd, memFloat, rs, rsFloat) ==
  CASE Matches(memRegWrite, memRd, memFloat, rs, rsFloat) /\ ~IsGprZero(memRd, memFloat)
         -> "FROM_MEM_WB"
    [] ~Matches(memRegWrite, memRd, memFloat, rs, rsFloat)
         /\ Matches(exRegWrite, exRd, exFloat, rs, rsFloat) /\ ~IsGprZero(exRd, exFloat)
         -> "FROM_EX_MEM"
    [] OTHER -> "FROM_REG_FILE"

GetRsSource(exRegWrite, exRd, exFloat, memRegWrite, memRd, memFloat, rs, rsFloat) ==
  IF Matches(exRegWrite, exRd, exFloat, rs, rsFloat)
  THEN IF IsGprZero(exRd, exFloat) THEN "FROM_REG_FILE" ELSE "FROM_EX_MEM"
  ELSE IF Matches(memRegWrite, memRd, memFloat, rs, rsFloat)
  THEN IF IsGprZero(memRd, memFloat) THEN "FROM_REG_FILE" ELSE "FROM_MEM_WB"
  ELSE "FROM_REG_FILE"
=============================================================================
