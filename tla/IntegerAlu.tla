----------------------------- MODULE IntegerAlu -----------------------------
(***************************************************************************)
(* Alu::execute (alu.cpp): the integer operations, on registers of Width   *)
(* bits with a lower half of Half bits (64 and 32 in the source).  A value *)
(* is the unsigned number of its bits.                                     *)
(*                                                                         *)
(* What an operation returns is a set.  It has one element, but where the  *)
(* code divides without asking: INT64_MIN % -1 and a 32-bit division by a  *)
(* truncated zero are undefined in C++.  The build then traps (x86 idiv)   *)
(* or returns what the divider leaves (an ARM divides by zero to zero).    *)
(* The overflow flag is not modelled: nothing reads it.                    *)
(***************************************************************************)
EXTENDS Integers, FiniteSetsExt

CONSTANTS Width, Half

\* a shift amount is encoded in six bits, and a register has 64, or a divisor of it
ASSUME WidthAssumption ==
  Width \in Nat \ {0} /\ Half \in 1..Width /\ 64 % Width = 0

\* a law of arithmetic the provers do not know
ASSUME PowersOfTwo ==
  \A m, n \in 0..Width :
    m + n <= Width => 2^m \in Nat \ {0} /\ 2^(m + n) = 2^m * 2^n

Value == 0..(2^Width - 1)

\* the process dies with an arithmetic exception (no value is negative)
Trap == -1

Unsigned(x, bits) == x % 2^bits
Signed(x, bits) == IF Unsigned(x, bits) >= 2^(bits - 1)
                   THEN Unsigned(x, bits) - 2^bits ELSE Unsigned(x, bits)

\* forgets the sign of the 32-bit result
SignExtendHalf_Unsigned(x) == Unsigned(x, Half)

\* static_cast<uint64_t>(static_cast<int32_t>(x))
SignExtendHalf(x) == Unsigned(Signed(x, Half), Width)

\* division and remainder of C++ round towards zero
Magnitude(x) == IF x < 0 THEN -x ELSE x
Quotient(x, y) == IF (x < 0) = (y < 0) THEN Magnitude(x) \div Magnitude(y)
                  ELSE -(Magnitude(x) \div Magnitude(y))
Remainder(x, y) == x - y * Quotient(x, y)

OneBits(x) == {i \in 0..(Width - 1) : (x \div 2^i) % 2 = 1}
OfBits(s) == CHOOSE x \in Value : OneBits(x) = s

Smallest(bits) == -(2^(bits - 1))

\* the signed operations of one width: 64 bits, or 32 with the result extended
DivideSigned(x, y, bits) ==
  IF y = 0 THEN 0
  ELSE IF x = Smallest(bits) /\ y = -1
  THEN IF bits = Half THEN x ELSE 2^(bits - 1) - 1     \* INT32_MIN, INT64_MAX
  ELSE Quotient(x, y)

\* divides without looking at the divisor
DivideUnsigned_Unguarded(x, y) == IF y = 0 THEN {Trap, 0} ELSE {x \div y}

DivideUnsigned(x, y) == IF y = 0 THEN {0} ELSE {x \div y}

execute(op, a, b) ==
  LET sa == Signed(a, Width)
      sb == Signed(b, Width)
      wa == Signed(a, Half)
      wb == Signed(b, Half)
      ua == Unsigned(a, Half)
      ub == Unsigned(b, Half)
      high(x) == Unsigned(x \div 2^Width, Width)
      shift == b % Width
      shiftw == b % Half
  IN  CASE op = "kAdd"    -> {Unsigned(sa + sb, Width)}
        [] op = "kAddw"   -> {SignExtendHalf(wa + wb)}
        [] op = "kSub"    -> {Unsigned(sa - sb, Width)}
        [] op = "kSubw"   -> {SignExtendHalf(wa - wb)}
        [] op = "kMul"    -> {Unsigned(sa * sb, Width)}
        [] op = "kMulh"   -> {high(sa * sb)}
        [] op = "kMulhsu" -> {high(sa * b)}
        [] op = "kMulhu"  -> {high(a * b)}
        [] op = "kMulw"   -> {SignExtendHalf(wa * wb)}
        [] op = "kDiv"    -> {Unsigned(DivideSigned(sa, sb, Width), Width)}
        [] op = "kDivw"   -> {SignExtendHalf(DivideSigned(wa, wb, Half))}
        [] op = "kDivu"   -> DivideUnsigned(a, b)
        [] op = "kDivuw"  -> IF b = 0 THEN {0}
                             ELSE IF ub = 0 THEN {Trap, 0} ELSE {ua \div ub}
        [] op = "kRem"    -> IF b = 0 THEN {0}
                             ELSE IF sa = Smallest(Width) /\ sb = -1 THEN {Trap, 0}
                             ELSE {Unsigned(Remainder(sa, sb), Width)}
        [] op = "kRemw"   -> IF b = 0 THEN {0}
                             ELSE IF wb = 0 THEN {Trap, SignExtendHalf(wa)}
                             ELSE IF wa = Smallest(Half) /\ wb = -1 THEN {Trap, 0}
                             ELSE {SignExtendHalf(Remainder(wa, wb))}
        [] op = "kRemu"   -> IF b = 0 THEN {0} ELSE {a % b}
        [] op = "kRemuw"  -> IF b = 0 THEN {0}
                             ELSE IF ub = 0 THEN {Trap, ua} ELSE {ua % ub}
        [] op = "kAnd"    -> {OfBits(OneBits(a) \cap OneBits(b))}
        [] op = "kOr"     -> {OfBits(OneBits(a) \cup OneBits(b))}
        [] op = "kXor"    -> {OfBits(SymDiff(OneBits(a), OneBits(b)))}
        [] op = "kSll"    -> {Unsigned(a * 2^shift, Width)}
        [] op = "kSllw"   -> {SignExtendHalf(ua * 2^shiftw)}
        [] op = "kSrl"    -> {a \div 2^shift}
        [] op = "kSrlw"   -> {SignExtendHalf(ua \div 2^shiftw)}
        [] op = "kSra"    -> {Unsigned(sa \div 2^shift, Width)}
        [] op = "kSraw"   -> {SignExtendHalf(wa \div 2^shiftw)}
        [] op = "kSlt"    -> {IF sa < sb THEN 1 ELSE 0}
        [] op = "kSltu"   -> {IF a < b THEN 1 ELSE 0}
        [] OTHER -> {0}
=============================================================================
