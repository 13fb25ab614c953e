------------------------ MODULE InstructionStepProofs ------------------------
(***************************************************************************)
(* What a statement does, for registers of any width and any contents: the *)
(* operations of the ALU against the meaning of the mnemonics, and the     *)
(* step of the machine.                                                    *)
(***************************************************************************)
EXTENDS InstructionProofs, FiniteSetTheorems

----------------------------------------------------------------------------
(* Numbers modulo p *)

LEMMA Distributive ==
  ASSUME NEW p \in Int, NEW k \in Int, NEW l \in Int
  PROVE  p * (k + l) = p * k + p * l /\ p * (k - l) = p * k - p * l
BY SMT

\* two numbers with the same remainder differ by a multiple
LEMMA SameRemainder ==
  ASSUME NEW p \in Nat \ {0}, NEW x \in Int, NEW y \in Int
  PROVE  x % p = y % p <=> \E k \in Int : x = y + p * k
<1>1. x = p * (x \div p) + (x % p) /\ x \div p \in Int /\ x % p \in 0..(p - 1)
  BY Split
<1>2. y = p * (y \div p) + (y % p) /\ y \div p \in Int /\ y % p \in 0..(p - 1)
  BY Split
<1>3. ASSUME x % p = y % p
      PROVE  \E k \in Int : x = y + p * k
  <2> DEFINE q == x \div p
             r == y \div p
  <2>1. x = p * q + (x % p) /\ y = p * r + (x % p) /\ q \in Int /\ r \in Int /\ x % p \in Int
    BY <1>1, <1>2, <1>3
  <2> HIDE DEF q, r
  <2>2. p * (q - r) = p * q - p * r
    BY <2>1, Distributive
  <2>3. x = y + p * (q - r) /\ q - r \in Int
    BY <2>1, <2>2
  <2> QED
    BY <2>3
<1>4. ASSUME NEW k \in Int, x = y + p * k
      PROVE  x % p = y % p
  <2> DEFINE r == y \div p
  <2>1. y = p * r + (y % p) /\ r \in Int /\ y % p \in Int
    BY <1>2
  <2> HIDE DEF r
  <2>2. p * (r + k) = p * r + p * k
    BY <2>1, Distributive
  <2>3. x = p * (r + k) + (y % p) /\ r + k \in Int
    BY <1>4, <2>1, <2>2
  <2> QED
    BY <1>2, <2>3, Join
<1> QED
  BY <1>3, <1>4

Congruent(x, y, p) == x % p = y % p

\* sums, differences and products modulo p
LEMMA Modular ==
  ASSUME NEW p \in Nat \ {0}, NEW x \in Int, NEW y \in Int, NEW u \in Int, NEW v \in Int,
         Congruent(x, u, p), Congruent(y, v, p)
  PROVE  /\ Congruent(x + y, u + v, p)
         /\ Congruent(x - y, u - v, p)
         /\ Congruent(x * y, u * v, p)
<1>1. PICK k \in Int : x = u + p * k
  BY SameRemainder DEF Congruent
<1>2. PICK l \in Int : y = v + p * l
  BY SameRemainder DEF Congruent
<1>3. x + y = (u + v) + p * (k + l) /\ x - y = (u - v) + p * (k - l)
  BY <1>1, <1>2, Distributive
<1>4. x * y = (u * v) + p * (u * l + k * v + p * k * l)
  BY <1>1, <1>2, SMT
<1>5. k + l \in Int /\ k - l \in Int /\ u * l + k * v + p * k * l \in Int /\ x * y \in Int
      /\ u * v \in Int
  BY SMT
<1>6. (x + y) % p = (u + v) % p
  <2> DEFINE s == x + y
             t == u + v
             m == k + l
  <2>1. s \in Int /\ t \in Int /\ m \in Int /\ s = t + p * m
    BY <1>3, <1>5
  <2> HIDE DEF s, t, m
  <2>2. s % p = t % p
    <3>1. \E n \in Int : s = t + p * n
      BY <2>1
    <3> QED  BY <2>1, <3>1, SameRemainder
  <2> QED  BY <2>2, Zenon DEF s, t
<1>7. (x - y) % p = (u - v) % p
  <2> DEFINE s == x - y
             t == u - v
             m == k - l
  <2>1. s \in Int /\ t \in Int /\ m \in Int /\ s = t + p * m
    BY <1>3, <1>5
  <2> HIDE DEF s, t, m
  <2>2. s % p = t % p
    <3>1. \E n \in Int : s = t + p * n
      BY <2>1
    <3> QED  BY <2>1, <3>1, SameRemainder
  <2> QED  BY <2>2, Zenon DEF s, t
<1>8. (x * y) % p = (u * v) % p
  <2> DEFINE s == x * y
             t == u * v
             m == u * l + k * v + p * k * l
  <2>1. s \in Int /\ t \in Int /\ m \in Int /\ s = t + p * m
    BY <1>4, <1>5
  <2> HIDE DEF s, t, m
  <2>2. s % p = t % p
    <3>1. \E n \in Int : s = t + p * n
      BY <2>1
    <3> QED  BY <2>1, <3>1, SameRemainder
  <2> QED  BY <2>2, Zenon DEF s, t
<1> QED
  BY <1>6, <1>7, <1>8, Zenon DEF Congruent

\* a number in the range is its own remainder
LEMMA OwnRemainder ==
  ASSUME NEW p \in Nat \ {0}, NEW x \in 0..(p - 1)
  PROVE  x % p = x
<1>1. x = p * 0 + x
  BY SMT
<1> QED
  BY <1>1, Join

LEMMA TwiceRemainder ==
  ASSUME NEW p \in Nat \ {0}, NEW x \in Int
  PROVE  (x % p) % p = x % p
BY Split, OwnRemainder

----------------------------------------------------------------------------
(* Two's complement *)

LEMMA Powers ==
  /\ 2^Width \in Nat \ {0} /\ 2^Half \in Nat \ {0} /\ 2^0 = 1
  /\ 2^(Width - 1) \in Nat \ {0} /\ 2^(Half - 1) \in Nat \ {0}
  /\ 2^Width = 2 * 2^(Width - 1) /\ 2^Half = 2 * 2^(Half - 1)
  /\ \E k \in Nat \ {0} : 2^Width = 2^Half * k
  /\ 2^Half <= 2^Width
<1>1. Width \in Nat /\ Half \in Nat /\ 1 <= Half /\ Half <= Width
  BY WidthAssumption
<1>2. 2^0 = 1 /\ 2^1 = 2
  BY SMT
<1>3. 2^Width \in Nat \ {0}
  <2>1. Width + 0 = Width /\ Width \in 0..Width /\ 0 \in 0..Width
    BY <1>1
  <2> QED
    BY <2>1, <1>1, PowersOfTwo
<1>4. 2^Half \in Nat \ {0} /\ 2^(Half + (Width - Half)) = 2^Half * 2^(Width - Half)
  <2>1. Half + (Width - Half) = Width /\ Width - Half \in 0..Width /\ Half \in 0..Width
    BY <1>1
  <2> QED
    BY <2>1, <1>1, PowersOfTwo
<1>5. 2^(Width - Half) \in Nat \ {0}
  <2>1. Width - Half \in 0..Width /\ 0 \in 0..Width /\ (Width - Half) + 0 <= Width
    BY <1>1
  <2> QED
    BY <2>1, <1>1, PowersOfTwo
<1>6. 2^(Width - 1) \in Nat \ {0} /\ 2^((Width - 1) + 1) = 2^(Width - 1) * 2^1
  <2>1. Width - 1 \in 0..Width /\ 1 \in 0..Width /\ (Width - 1) + 1 <= Width
    BY <1>1
  <2> QED
    BY <2>1, PowersOfTwo
<1>7. 2^(Half - 1) \in Nat \ {0} /\ 2^((Half - 1) + 1) = 2^(Half - 1) * 2^1
  <2>1. Half - 1 \in 0..Width /\ 1 \in 0..Width /\ (Half - 1) + 1 <= Width
    BY <1>1
  <2> QED
    BY <2>1, PowersOfTwo
<1>8. (Width - 1) + 1 = Width /\ (Half - 1) + 1 = Half /\ Half + (Width - Half) = Width
  BY <1>1
<1>9. 2^Width = 2 * 2^(Width - 1)
  <2> DEFINE q == 2^(Width - 1)
  <2>1. 2^Width = q * 2 /\ q \in Nat
    BY <1>2, <1>6, <1>8
  <2> HIDE DEF q
  <2>2. 2^Width = 2 * q
    BY <2>1
  <2> QED BY <2>2 DEF q
<1>10. 2^Half = 2 * 2^(Half - 1)
  <2> DEFINE q == 2^(Half - 1)
  <2>1. 2^Half = q * 2 /\ q \in Nat
    BY <1>2, <1>7, <1>8
  <2> HIDE DEF q
  <2>2. 2^Half = 2 * q
    BY <2>1
  <2> QED BY <2>2 DEF q
<1>11. 2^Width = 2^Half * 2^(Width - Half)
  BY <1>4, <1>8
<1>12. 2^Half <= 2^Width
  <2> DEFINE h == 2^Half
             k == 2^(Width - Half)
  <2>1. h \in Nat \ {0} /\ k \in Nat \ {0} /\ 2^Width = h * k
    BY <1>4, <1>5, <1>11
  <2> HIDE DEF h, k
  <2>2. h <= h * k
    BY <2>1, SMT
  <2> QED  BY <2>1, <2>2 DEF h
<1> QED
  BY <1>2, <1>3, <1>4, <1>5, <1>6, <1>7, <1>9, <1>10, <1>11, <1>12

\* the two widths
Bitwidths == {Width, Half}

LEMMA PowersOf ==
  ASSUME NEW n \in Bitwidths
  PROVE  2^n \in Nat \ {0} /\ 2^(n - 1) \in Nat \ {0} /\ 2^n = 2 * 2^(n - 1)
BY Powers DEF Bitwidths

\* the sign changes nothing modulo the width
LEMMA SignedFacts ==
  ASSUME NEW n \in Bitwidths, NEW x \in Int
  PROVE  /\ Signed(x, n) \in Int /\ Signed(x, n) % 2^n = x % 2^n
         /\ -(2^(n - 1)) <= Signed(x, n) /\ Signed(x, n) < 2^(n - 1)
<1> DEFINE p == 2^n
           h == 2^(n - 1)
           r == x % p
           s == Signed(x, n)
<1>1. p \in Nat \ {0} /\ h \in Nat \ {0} /\ p = 2 * h
  BY PowersOf
<1>2. s = IF r >= h THEN r - p ELSE r
  BY DEF Signed, Unsigned
<1> HIDE DEF p, h, s
<1>3. r \in 0..(p - 1) /\ r % p = r
  BY <1>1, Split, TwiceRemainder
<1> HIDE DEF r
<1>4. s \in Int /\ -h <= s /\ s < h
  BY <1>1, <1>2, <1>3
<1>5. s % p = r
  <2>1. CASE r >= h
    <3>1. s = r + p * (-1)
      BY <1>1, <1>2, <1>3, <2>1
    <3>2. \E k \in Int : s = r + p * k
      BY <3>1
    <3>3. r \in Int
      BY <1>1, <1>3
    <3> QED  BY <1>1, <1>3, <1>4, <3>2, <3>3, SameRemainder
  <2>2. CASE ~(r >= h)
    BY <1>2, <1>3, <2>2
  <2> QED  BY <2>1, <2>2
<1> QED
  BY <1>4, <1>5 DEF p, h, r, s

LEMMA SignedSame ==
  ASSUME NEW n, NEW x, NEW y, x % 2^n = y % 2^n
  PROVE  Signed(x, n) = Signed(y, n)
BY DEF Signed, Unsigned

\* a number in the range of the signed ones is what its bits say
LEMMA SignedOwn ==
  ASSUME NEW n \in Bitwidths, NEW x \in Int, -(2^(n - 1)) <= x, x < 2^(n - 1)
  PROVE  Signed(x, n) = x
<1> DEFINE p == 2^n
           h == 2^(n - 1)
           r == x % p
           s == Signed(x, n)
<1>1. p \in Nat \ {0} /\ h \in Nat \ {0} /\ p = 2 * h
  BY PowersOf
<1>2. s = IF r >= h THEN r - p ELSE r
  BY DEF Signed, Unsigned
<1>3. -h <= x /\ x < h
  OBVIOUS
<1> HIDE DEF p, h, s
<1>4. CASE x >= 0
  <2>1. r = x
    BY <1>1, <1>3, <1>4, OwnRemainder
  <2> QED
    BY <1>1, <1>2, <1>3, <1>4, <2>1 DEF s
<1>5. CASE x < 0
  <2> DEFINE t == x + p
  <2>1. p * (-1) + t = x /\ t \in 0..(p - 1) /\ t \in Int
    BY <1>1, <1>3, <1>5
  <2> HIDE DEF t
  <2>2. t % p = t
    BY <1>1, <2>1, OwnRemainder
  <2>3. x % p = t % p
    <3>1. x = t + p * (-1)
      BY <1>1, <2>1
    <3>2. \E k \in Int : x = t + p * k
      BY <3>1
    <3>3. p \in Nat \ {0}
      BY <1>1
    <3> QED  BY <2>1, <3>2, <3>3, SameRemainder
  <2> QED
    BY <1>1, <1>2, <1>3, <1>5, <2>1, <2>2, <2>3 DEF s
<1> QED
  BY <1>4, <1>5

----------------------------------------------------------------------------
(* Division *)

LEMMA MagnitudeFacts ==
  ASSUME NEW x \in Int
  PROVE  /\ Magnitude(x) \in Nat /\ (x >= 0 => Magnitude(x) = x) /\ (x < 0 => Magnitude(x) = -x)
         /\ Magnitude(x) = 0 <=> x = 0
BY DEF Magnitude

LEMMA Larger ==
  ASSUME NEW p \in Nat, NEW k \in Int, k >= 1
  PROVE  p * k >= p
BY SMT

\* the quotient of C++ is the one the manual describes
LEMMA QuotientDivides ==
  ASSUME NEW x \in Int, NEW y \in Int, y # 0
  PROVE  /\ Quotient(x, y) \in Int /\ Divides(Quotient(x, y), x, y)
         /\ Magnitude(Quotient(x, y)) <= Magnitude(x)
<1> DEFINE m == Magnitude(x)
           d == Magnitude(y)
           q == m \div d
           r == m % d
<1>1. m \in Nat /\ d \in Nat \ {0} /\ (x >= 0 => m = x) /\ (x < 0 => m = -x)
      /\ (y >= 0 => d = y) /\ (y < 0 => d = -y)
  BY MagnitudeFacts
<1> HIDE DEF m, d
<1>2. m = d * q + r /\ r \in 0..(d - 1) /\ q \in Int
  BY <1>1, Split
<1> HIDE DEF q, r
<1>3. q >= 0 /\ q <= m
  <2>1. ASSUME q <= -1 PROVE FALSE
    <3>1. d * (-q) >= d /\ d * (-q) = -(d * q)
      BY <1>1, <1>2, <2>1, Larger
    <3> QED  BY <1>1, <1>2, <3>1
  <2>2. q >= 0
    BY <1>2, <2>1
  <2>3. d * q >= q
    BY <1>1, <1>2, <2>2, SMT
  <2> QED  BY <1>1, <1>2, <2>2, <2>3
<1>4. Quotient(x, y) = IF (x < 0) = (y < 0) THEN q ELSE -q
  BY DEF Quotient, m, d, q
<1>5. x - y * Quotient(x, y) = IF x < 0 THEN -r ELSE r
  <2> DEFINE dq == d * q
  <2>1. dq \in Int
    BY <1>1, <1>2
  <2>2. CASE y < 0
    <3>1. y * q = -dq /\ y * (-q) = dq
      BY <1>1, <1>2, <2>2, SMT
    <3> HIDE DEF dq
    <3>2. m = dq + r
      BY <1>2 DEF dq
    <3> QED  BY <1>1, <1>2, <1>4, <2>1, <2>2, <3>1, <3>2
  <2>3. CASE y >= 0
    <3>1. y * q = dq /\ y * (-q) = -dq
      BY <1>1, <1>2, <2>3, SMT
    <3> HIDE DEF dq
    <3>2. m = dq + r
      BY <1>2 DEF dq
    <3> QED  BY <1>1, <1>2, <1>4, <2>1, <2>3, <3>1, <3>2
  <2> QED  BY <2>2, <2>3
<1>6. Divides(Quotient(x, y), x, y)
  <2> DEFINE z == x - Quotient(x, y) * y
  <2>1. Divides(Quotient(x, y), x, y) <=> Magnitude(z) < d /\ (z = 0 \/ (z < 0 <=> x < 0))
    BY DEF Divides, d
  <2>2. z = IF x < 0 THEN -r ELSE r
    <3>1. Quotient(x, y) \in Int
      BY <1>2, <1>4
    <3>2. Quotient(x, y) * y = y * Quotient(x, y)
      BY <3>1
    <3> QED  BY <1>5, <3>2
  <2> HIDE DEF z
  <2>3. Magnitude(z) = r
    BY <1>1, <1>2, <2>2 DEF Magnitude
  <2>4. r \in Nat /\ r < d /\ (z = 0 \/ (z < 0 <=> x < 0))
    BY <1>1, <1>2, <2>2
  <2> QED
    BY <2>1, <2>3, <2>4
<1>7. Quotient(x, y) \in Int /\ Magnitude(Quotient(x, y)) <= m
  BY <1>2, <1>3, <1>4 DEF Magnitude
<1> QED
  BY <1>6, <1>7 DEF m

\* and there is no other
LEMMA OneQuotient ==
  ASSUME NEW x \in Int, NEW y \in Int, y # 0, NEW q \in Int, NEW t \in Int,
         Divides(q, x, y), Divides(t, x, y)
  PROVE  q = t
<1> DEFINE d == Magnitude(y)
           qr == x - q * y
           tr == x - t * y
           k == q - t
           l == t - q
<1>1. d \in Nat \ {0} /\ (y >= 0 => d = y) /\ (y < 0 => d = -y)
  BY MagnitudeFacts
<1>2. qr \in Int /\ tr \in Int /\ k \in Int /\ l \in Int
  BY SMT
<1>3. /\ Magnitude(qr) < d /\ (qr = 0 \/ (qr < 0 <=> x < 0))
      /\ Magnitude(tr) < d /\ (tr = 0 \/ (tr < 0 <=> x < 0))
  BY DEF Divides
<1>4. tr - qr = k * y /\ qr - tr = l * y
  BY SMT
<1> HIDE DEF qr, tr
<1>5. tr - qr < d /\ qr - tr < d
  <2>1. (qr >= 0 => qr < d) /\ (qr < 0 => -qr < d) /\ (tr >= 0 => tr < d) /\ (tr < 0 => -tr < d)
    BY <1>2, <1>3 DEF Magnitude
  <2> HIDE DEF d
  <2> QED  BY <1>1, <1>2, <1>3, <2>1
<1>6. k * y \in {d * k, d * l}
  <2> HIDE DEF d
  <2>1. CASE y >= 0
    BY <1>1, <2>1
  <2>2. CASE y < 0
    <3>1. k * y = (-k) * (-y) /\ -k = l /\ -y = d
      BY <1>1, <2>2
    <3> QED  BY <1>1, <1>2, <3>1
  <2> QED  BY <2>1, <2>2
<1>7. l * y \in {d * k, d * l} /\ l * y = -(k * y)
  <2> HIDE DEF d
  <2>1. CASE y >= 0
    BY <1>1, <2>1
  <2>2. CASE y < 0
    <3>1. l * y = (-l) * (-y) /\ -l = k /\ -y = d
      BY <1>1, <2>2
    <3> QED  BY <1>1, <1>2, <3>1
  <2> QED  BY <2>1, <2>2
<1>8. ~(k >= 1)
  <2>1. d * l = -(d * k)
    BY <1>1
  <2> HIDE DEF d, k, l
  <2>2. ASSUME k >= 1 PROVE d * k >= d
    BY <1>1, <1>2, <2>2, Larger
  <2> QED  BY <1>1, <1>2, <1>4, <1>5, <1>6, <1>7, <2>1, <2>2
<1>9. ~(l >= 1)
  <2>1. d * l = -(d * k)
    BY <1>1
  <2> HIDE DEF d, k, l
  <2>2. ASSUME l >= 1 PROVE d * l >= d
    BY <1>1, <1>2, <2>2, Larger
  <2> QED  BY <1>1, <1>2, <1>4, <1>5, <1>6, <1>7, <2>1, <2>2
<1> QED
  BY <1>2, <1>8, <1>9

\* so that the manual's choice is what the operations of the ALU compute
LEMMA QuotientIsMeant ==
  ASSUME NEW x \in Int, NEW y \in Int, y # 0, Magnitude(x) <= 2^Width
  PROVE  QuotientOf(x, y) = Quotient(x, y) /\ RemainderOf(x, y) = Remainder(x, y)
<1> DEFINE p == 2^Width
           q == Quotient(x, y)
<1>1. p \in Nat /\ q \in Int /\ Divides(q, x, y) /\ Magnitude(q) <= p
  <2>1. p \in Nat /\ Magnitude(x) \in Nat /\ Magnitude(q) \in Nat
    BY Powers, MagnitudeFacts, QuotientDivides
  <2> HIDE DEF p, q
  <2>2. q \in Int /\ Divides(q, x, y) /\ Magnitude(q) <= Magnitude(x) /\ Magnitude(x) <= p
    BY QuotientDivides DEF p, q
  <2> QED  BY <2>1, <2>2
<1> HIDE DEF p, q
<1>2. q \in -p..p
  BY <1>1 DEF Magnitude
<1>3. \A t \in -p..p : Divides(t, x, y) => t = q
  BY <1>1, OneQuotient
<1>4. QuotientOf(x, y) = q
  <2>1. QuotientOf(x, y) = CHOOSE t \in -p..p : Divides(t, x, y)
    BY DEF QuotientOf, p
  <2> QED  BY <1>1, <1>2, <1>3, <2>1
<1> QED
  BY <1>4 DEF RemainderOf, Remainder, q

----------------------------------------------------------------------------
(* Bits *)

\* a set of natural numbers has a least element
LEMMA Least ==
  ASSUME NEW S, S \subseteq Nat, S # {}
  PROVE  \E m \in S : \A n \in S : m <= n
<1> DEFINE T == {1..m : m \in S}
<1>1. IsWellFoundedOn(StrictSubsetOrdering(Nat), FiniteSubsetsOf(Nat))
  BY FS_StrictSubsetOrderingWellFounded
<1>2. T \subseteq FiniteSubsetsOf(Nat)
  <2>1. ASSUME NEW m \in S PROVE IsFiniteSet(1..m) /\ 1..m \subseteq Nat
    <3>1. m \in Int /\ 1 \in Int
      OBVIOUS
    <3> QED  BY <3>1, FS_Interval
  <2>2. \A t \in T : t \in FiniteSubsetsOf(Nat)
    BY <2>1, Zenon DEF FiniteSubsetsOf
  <2> QED  BY <2>2
<1>3. PICK t \in T : \A u \in T : ~(<<u, t>> \in StrictSubsetOrdering(Nat))
  <2>1. T # {}
    OBVIOUS
  <2> HIDE DEF T
  <2> QED  BY <1>1, <1>2, <2>1, WFMin
<1>4. PICK m \in S : t = 1..m
  BY <1>3
<1>5. ASSUME NEW n \in S PROVE m <= n
  <2>1. SUFFICES ASSUME n < m PROVE FALSE
    BY <1>4
  <2>2. 1..n \subseteq 1..m /\ 1..n # 1..m /\ 1..n \in SUBSET Nat /\ 1..m \in SUBSET Nat
    <3>1. m \in 1..m /\ m \notin 1..n
      BY <2>1
    <3>2. m \in Nat /\ n \in Nat
      OBVIOUS
    <3>3. \A i : i \in 1..n => i \in 1..m /\ i \in Nat
      BY <2>1, <3>2
    <3>4. \A i : i \in 1..m => i \in Nat
      BY <3>2
    <3> QED  BY <3>1, <3>3, <3>4, Zenon
  <2>3. <<1..n, 1..m>> \in StrictSubsetOrdering(Nat)
    BY <2>2, Zenon DEF StrictSubsetOrdering
  <2>4. 1..n \in T
    OBVIOUS
  <2> QED  BY <1>3, <1>4, <2>3, <2>4
<1> QED
  BY <1>4, <1>5

LEMMA PowerOf ==
  ASSUME NEW i \in 0..Width
  PROVE  /\ 2^i \in Nat \ {0}
         /\ i < Width => 2^(i + 1) = 2 * 2^i
         /\ \A j \in 0..Width : i < j => \E k \in Nat \ {0} : 2^j = 2^i * (2 * k)
<1>1. Width \in Nat /\ i + 0 <= Width /\ 0 \in 0..Width /\ 1 \in 0..Width
  BY WidthAssumption
<1>2. 2^i \in Nat \ {0}
  BY <1>1, PowersOfTwo
<1>3. 2^1 = 2
  BY SMT
<1>4. ASSUME i < Width PROVE 2^(i + 1) = 2 * 2^i
  <2>1. i + 1 <= Width
    BY <1>1, <1>4
  <2>2. 2^(i + 1) = 2^i * 2^1
    BY <1>1, <2>1, PowersOfTwo
  <2> QED  BY <1>2, <1>3, <2>2
<1>5. ASSUME NEW j \in 0..Width, i < j
      PROVE  \E k \in Nat \ {0} : 2^j = 2^i * (2 * k)
  <2> DEFINE l == j - i - 1
  <2>1. l \in 0..Width /\ l + 1 \in 0..Width /\ l + 1 <= Width /\ i + (l + 1) = j
        /\ i + (l + 1) <= Width
    BY <1>1, <1>5
  <2> HIDE DEF l
  <2>2. 2^(i + (l + 1)) = 2^i * 2^(l + 1)
    BY <2>1, PowersOfTwo
  <2>3. 2^l \in Nat \ {0} /\ 2^(l + 1) = 2^l * 2^1
    BY <1>1, <2>1, PowersOfTwo
  <2>4. 2^(l + 1) = 2 * 2^l
    BY <1>3, <2>3
  <2> QED  BY <2>1, <2>2, <2>3, <2>4
<1> QED
  BY <1>2, <1>4, <1>5

BitSet(x, i) == (x \div 2^i) % 2 = 1

\* some number below 2^n has the bits s, all of them below n
Numbered(n) ==
  \A s \in SUBSET (0..(n - 1)) :
    \E x \in 0..(2^n - 1) : \A i \in 0..(Width - 1) : BitSet(x, i) <=> i \in s

\* a bit may be put on top of a number
LEMMA TopBit ==
  ASSUME NEW n \in 0..(Width - 1), NEW x \in 0..(2^n - 1), NEW i \in 0..(Width - 1)
  PROVE  BitSet(x + 2^n, i) <=> i = n \/ BitSet(x, i)
<1> DEFINE p == 2^n
           d == 2^i
           y == x + p
<1>1. Width \in Nat /\ n \in 0..Width /\ i \in 0..Width /\ n \in Int /\ i \in Int
  BY WidthAssumption
<1>2. p \in Nat \ {0} /\ d \in Nat \ {0}
  BY <1>1, PowerOf
<1>3. x \in 0..(p - 1)
  OBVIOUS
<1>4. (i < n => \E k \in Nat \ {0} : p = d * (2 * k)) /\ (n < i => \E k \in Nat \ {0} : d = p * (2 * k))
  BY <1>1, PowerOf
<1>5. (BitSet(y, i) <=> (y \div d) % 2 = 1) /\ (BitSet(x, i) <=> (x \div d) % 2 = 1)
  BY DEF BitSet
<1>6. i = n => d = p
  OBVIOUS
<1> SUFFICES BitSet(y, i) <=> i = n \/ BitSet(x, i)
  OBVIOUS
<1>7. y = x + p
  OBVIOUS
<1> HIDE DEF p, d, y
<1>8. CASE i = n
  <2>1. y = p * 1 + x
    BY <1>2, <1>3, <1>7
  <2>2. (p * 1 + x) \div p = 1
    BY <1>2, <1>3, Join
  <2>3. 1 % 2 = 1
    BY SMT
  <2>4. y \div d = 1
    BY <1>6, <1>8, <2>1, <2>2
  <2> QED  BY <1>5, <1>8, <2>3, <2>4
<1>9. CASE n < i
  <2>1. d >= 2 * p
    <3>1. PICK k \in Nat \ {0} : d = p * (2 * k)
      BY <1>4, <1>9
    <3>2. p * (2 * k) = 2 * (p * k) /\ p * k >= p /\ p * k \in Nat
      BY <1>2, SMT
    <3> QED  BY <1>2, <3>1, <3>2
  <2>2. x \in 0..(d - 1) /\ y \in 0..(d - 1)
    BY <1>2, <1>3, <1>7, <2>1
  <2>3. x = d * 0 + x /\ y = d * 0 + y
    BY <1>2, <2>2
  <2>4. x \div d = 0 /\ y \div d = 0
    <3>1. (d * 0 + x) \div d = 0
      BY <1>2, <2>2, Join
    <3>2. (d * 0 + y) \div d = 0
      BY <1>2, <2>2, Join
    <3> QED  BY <2>3, <3>1, <3>2
  <2>5. 0 % 2 = 0
    BY SMT
  <2> QED  BY <1>1, <1>5, <1>9, <2>4, <2>5
<1>10. CASE i < n
  <2>1. PICK k \in Nat \ {0} : p = d * (2 * k)
    BY <1>4, <1>10
  <2> DEFINE q == x \div d
             r == x % d
             m == q + 2 * k
  <2>2. x = d * q + r /\ r \in 0..(d - 1) /\ q \in Int
    BY <1>2, <1>3, Split
  <2>3. d * m = d * q + d * (2 * k) /\ m \in Int
    BY <1>2, <2>2, Distributive
  <2>4. y = d * m + r
    <3>1. d * q \in Int /\ d * (2 * k) \in Int /\ r \in Int /\ x \in Int
      BY <1>2, <1>3, <2>2
    <3> HIDE DEF q, r, m
    <3> QED  BY <1>7, <2>1, <2>2, <2>3, <3>1
  <2> HIDE DEF m, r
  <2>5. y \div d = m
    BY <1>2, <2>2, <2>3, <2>4, Join
  <2> HIDE DEF q
  <2>6. m % 2 = q % 2
    BY <2>2, SMT DEF m
  <2> QED  BY <1>1, <1>5, <1>10, <2>5, <2>6 DEF q
<1> QED
  BY <1>1, <1>8, <1>9, <1>10

LEMMA NumberedNext ==
  ASSUME NEW n \in 0..(Width - 1), Numbered(n)
  PROVE  Numbered(n + 1)
<1>1. Width \in Nat /\ n \in 0..Width /\ n < Width /\ n \in Nat
  BY WidthAssumption
<1>2. 2^n \in Nat \ {0} /\ 2^(n + 1) = 2 * 2^n
  BY <1>1, PowerOf
<1>3. SUFFICES ASSUME NEW s \in SUBSET (0..n)
               PROVE  \E x \in 0..(2 * 2^n - 1) : \A i \in 0..(Width - 1) : BitSet(x, i) <=> i \in s
  <2>1. (n + 1) - 1 = n
    BY <1>1
  <2> QED  BY <1>2, <2>1 DEF Numbered
<1>4. s \ {n} \in SUBSET (0..(n - 1))
  BY <1>1
<1>5. PICK x \in 0..(2^n - 1) : \A i \in 0..(Width - 1) : BitSet(x, i) <=> i \in s \ {n}
  BY <1>4, Zenon DEF Numbered
<1>6. x \in 0..(2 * 2^n - 1) /\ x + 2^n \in 0..(2 * 2^n - 1)
  <2> DEFINE p == 2^n
  <2>1. p \in Nat /\ x \in 0..(p - 1)
    BY <1>2
  <2> HIDE DEF p
  <2>2. x \in 0..(2 * p - 1) /\ x + p \in 0..(2 * p - 1)
    BY <2>1
  <2> QED  BY <2>2 DEF p
<1>7. CASE n \in s
  <2>1. \A i \in 0..(Width - 1) : BitSet(x + 2^n, i) <=> i \in s
    BY <1>5, <1>7, TopBit
  <2> QED  BY <1>6, <2>1
<1>8. CASE n \notin s
  BY <1>5, <1>6, <1>8
<1> QED
  BY <1>7, <1>8

\* every set of bits is that of a number
LEMMA EveryBits ==
  ASSUME NEW s \in SUBSET (0..(Width - 1))
  PROVE  OfBits(s) \in Value /\ OneBits(OfBits(s)) = s
<1> DEFINE Failing == {n \in 0..Width : ~Numbered(n)}
<1>1. Numbered(0)
  <2>1. 2^0 = 1 /\ 0 \in 0..(1 - 1)
    BY SMT
  <2>2. \A i \in 0..(Width - 1) : ~BitSet(0, i)
    <3>1. ASSUME NEW i \in 0..(Width - 1) PROVE ~BitSet(0, i)
      <4>1. 2^i \in Nat \ {0}
        BY WidthAssumption, PowerOf
      <4>2. 0 \div 2^i = 0
        <5> DEFINE d == 2^i
        <5>1. d \in Nat \ {0} /\ 0 \in 0..(d - 1) /\ d * 0 + 0 = 0
          BY <4>1
        <5> HIDE DEF d
        <5>2. (d * 0 + 0) \div d = 0
          BY <5>1, Join
        <5> QED  BY <5>1, <5>2 DEF d
      <4>3. ~(0 % 2 = 1)
        BY SMT
      <4> QED  BY <4>2, <4>3, Zenon DEF BitSet
    <3> QED  BY <3>1
  <2>3. \A t \in SUBSET (0..(0 - 1)) : \A i : i \notin t
    <3>1. \A i : i \notin 0..(0 - 1)
      BY SMT
    <3> QED  BY <3>1, Zenon
  <2> QED  BY <2>1, <2>2, <2>3 DEF Numbered
<1>2. Failing = {}
  <2>1. SUFFICES ASSUME Failing # {} PROVE FALSE
    OBVIOUS
  <2>2. Failing \subseteq Nat
    BY WidthAssumption
  <2>3. PICK m \in Failing : \A n \in Failing : m <= n
    <3> HIDE DEF Failing
    <3> QED  BY <2>1, <2>2, Least
  <2>4. m \in Nat /\ m <= Width /\ Width \in Nat /\ ~Numbered(m) /\ m # 0
    BY <1>1, WidthAssumption
  <2>5. m - 1 \in 0..(Width - 1) /\ m - 1 \in 0..Width /\ (m - 1) + 1 = m /\ ~(m <= m - 1)
    BY <2>4
  <2>6. Numbered(m - 1)
    BY <2>3, <2>5
  <2> QED  BY <2>4, <2>5, <2>6, NumberedNext
<1>3. Numbered(Width)
  BY <1>2, WidthAssumption
<1>4. PICK x \in Value : \A i \in 0..(Width - 1) : BitSet(x, i) <=> i \in s
  BY <1>3, Zenon DEF Numbered, Value
<1>5. OneBits(x) = s
  BY <1>4 DEF OneBits, BitSet
<1> QED
  BY <1>5 DEF OfBits

----------------------------------------------------------------------------
(* The operations, one by one *)

LEMMA Operand ==
  ASSUME NEW x \in Value, NEW n \in Bitwidths
  PROVE  /\ x \in Int /\ x \in 0..(2^Width - 1)
         /\ Signed(x, n) \in Int /\ Signed(x, n) % 2^n = x % 2^n
         /\ x % 2^n \in Int /\ (x % 2^n) % 2^n = x % 2^n
         /\ 2^n \in Nat \ {0}
<1>1. 2^Width \in Nat \ {0} /\ 2^n \in Nat \ {0}
  BY Powers, PowersOf
<1>2. x \in Int /\ x \in 0..(2^Width - 1)
  BY <1>1 DEF Value
<1>3. Signed(x, n) \in Int /\ Signed(x, n) % 2^n = x % 2^n
  BY <1>2, SignedFacts
<1>4. x % 2^n \in Int /\ (x % 2^n) % 2^n = x % 2^n
  <2> DEFINE q == 2^n
  <2>1. q \in Nat \ {0}
    BY <1>1
  <2> HIDE DEF q
  <2>2. x % q \in 0..(q - 1) /\ (x % q) % q = x % q
    BY <1>2, <2>1, Split, TwiceRemainder
  <2>3. x % q \in Int
    BY <2>1, <2>2
  <2> QED  BY <2>2, <2>3 DEF q
<1> QED
  BY <1>1, <1>2, <1>3, <1>4

LEMMA BothWidths == Width \in Bitwidths /\ Half \in Bitwidths
BY DEF Bitwidths

\* sums, differences and low products ignore the sign of the operands
LEMMA LowResults ==
  ASSUME NEW x \in Value, NEW y \in Value, NEW n \in Bitwidths
  PROVE  LET sx == Signed(x, n)  sy == Signed(y, n) IN
         /\ (sx + sy) % 2^n = (x + y) % 2^n
         /\ (sx - sy) % 2^n = (x - y) % 2^n
         /\ (sx * sy) % 2^n = (x * y) % 2^n
<1> DEFINE sx == Signed(x, n)
           sy == Signed(y, n)
           p == 2^n
<1>1. /\ p \in Nat \ {0} /\ x \in Int /\ y \in Int /\ sx \in Int /\ sy \in Int
      /\ sx % p = x % p /\ sy % p = y % p
  BY Operand
<1> HIDE DEF sx, sy, p
<1>2. /\ (sx + sy) % p = (x + y) % p
      /\ (sx - sy) % p = (x - y) % p
      /\ (sx * sy) % p = (x * y) % p
  <2>1. Congruent(sx, x, p) /\ Congruent(sy, y, p)
    BY <1>1 DEF Congruent
  <2>2. /\ Congruent(sx + sy, x + y, p)
        /\ Congruent(sx - sy, x - y, p)
        /\ Congruent(sx * sy, x * y, p)
    BY <1>1, <2>1, Modular
  <2> QED  BY <2>2, Zenon DEF Congruent
<1> QED
  BY <1>2 DEF sx, sy, p

LEMMA MeansSum ==
  ASSUME NEW x \in Value, NEW y \in Value
  PROVE  /\ execute("kAdd", x, y) = {Meant("add", x, y)}
         /\ execute("kAdd", x, y) = {Meant("addi", x, y)}
         /\ execute("kSub", x, y) = {Meant("sub", x, y)}
         /\ execute("kMul", x, y) = {Meant("mul", x, y)}
<1> DEFINE sx == Signed(x, Width)
           sy == Signed(y, Width)
<1>1. /\ execute("kAdd", x, y) = {(sx + sy) % 2^Width}
      /\ execute("kSub", x, y) = {(sx - sy) % 2^Width}
      /\ execute("kMul", x, y) = {(sx * sy) % 2^Width}
  BY DEF execute, Unsigned
<1>2. /\ Meant("add", x, y) = (x + y) % 2^Width
      /\ Meant("addi", x, y) = (x + y) % 2^Width
      /\ Meant("sub", x, y) = (x - y) % 2^Width
      /\ Meant("mul", x, y) = (x * y) % 2^Width
  BY DEF Meant
<1> QED
  BY <1>1, <1>2, LowResults, BothWidths

LEMMA MeansHalfSum ==
  ASSUME NEW x \in Value, NEW y \in Value
  PROVE  /\ execute("kAddw", x, y) = {Meant("addw", x, y)}
         /\ execute("kSubw", x, y) = {Meant("subw", x, y)}
         /\ execute("kMulw", x, y) = {Meant("mulw", x, y)}
<1> DEFINE sx == Signed(x, Half)
           sy == Signed(y, Half)
<1>1. /\ execute("kAddw", x, y) = {Signed(sx + sy, Half) % 2^Width}
      /\ execute("kSubw", x, y) = {Signed(sx - sy, Half) % 2^Width}
      /\ execute("kMulw", x, y) = {Signed(sx * sy, Half) % 2^Width}
  BY DEF execute, Unsigned, SignExtendHalf
<1>2. /\ Meant("addw", x, y) = Signed(x + y, Half) % 2^Width
      /\ Meant("subw", x, y) = Signed(x - y, Half) % 2^Width
      /\ Meant("mulw", x, y) = Signed(x * y, Half) % 2^Width
  BY DEF Meant
<1>3. /\ Signed(sx + sy, Half) = Signed(x + y, Half)
      /\ Signed(sx - sy, Half) = Signed(x - y, Half)
      /\ Signed(sx * sy, Half) = Signed(x * y, Half)
  BY LowResults, BothWidths, SignedSame
<1> QED
  BY <1>1, <1>2, <1>3

\* these are computed as they are meant
LEMMA MeansSame ==
  ASSUME NEW x, NEW y
  PROVE  /\ execute("kMulh", x, y) = {Meant("mulh", x, y)}
         /\ execute("kMulhsu", x, y) = {Meant("mulhsu", x, y)}
         /\ execute("kMulhu", x, y) = {Meant("mulhu", x, y)}
         /\ execute("kSll", x, y) = {Meant("sll", x, y)}
         /\ execute("kSll", x, y) = {Meant("slli", x, y)}
         /\ execute("kSra", x, y) = {Meant("sra", x, y)}
         /\ execute("kSra", x, y) = {Meant("srai", x, y)}
         /\ execute("kSllw", x, y) = {Meant("sllw", x, y)}
         /\ execute("kSrlw", x, y) = {Meant("srlw", x, y)}
<1>1. /\ execute("kMulh", x, y) = {Meant("mulh", x, y)}
      /\ execute("kMulhsu", x, y) = {Meant("mulhsu", x, y)}
      /\ execute("kMulhu", x, y) = {Meant("mulhu", x, y)}
  BY DEF execute, Meant, Unsigned
<1>2. /\ execute("kSll", x, y) = {Meant("sll", x, y)}
      /\ execute("kSll", x, y) = {Meant("slli", x, y)}
      /\ execute("kSra", x, y) = {Meant("sra", x, y)}
      /\ execute("kSra", x, y) = {Meant("srai", x, y)}
  BY DEF execute, Meant, Unsigned
<1>3. /\ execute("kSllw", x, y) = {Meant("sllw", x, y)}
      /\ execute("kSrlw", x, y) = {Meant("srlw", x, y)}
  BY DEF execute, Meant, Unsigned, SignExtendHalf
<1> QED
  BY <1>1, <1>2, <1>3

LEMMA MeansCompare ==
  ASSUME NEW x \in Value, NEW y \in Value
  PROVE  /\ execute("kSlt", x, y) = {Meant("slt", x, y)}
         /\ execute("kSlt", x, y) = {Meant("slti", x, y)}
         /\ execute("kSltu", x, y) = {Meant("sltu", x, y)}
         /\ execute("kSltu", x, y) = {Meant("sltiu", x, y)}
<1> DEFINE less == IF Signed(x, Width) < Signed(y, Width) THEN 1 ELSE 0
           below == IF x < y THEN 1 ELSE 0
<1>1. execute("kSlt", x, y) = {less} /\ execute("kSltu", x, y) = {below}
  BY DEF execute
<1>2. /\ Meant("slt", x, y) = less % 2^Width /\ Meant("slti", x, y) = less % 2^Width
      /\ Meant("sltu", x, y) = below % 2^Width /\ Meant("sltiu", x, y) = below % 2^Width
  BY DEF Meant
<1>3. \A r \in {0, 1} : r % 2^Width = r
  <2> DEFINE p == 2^Width
  <2>1. p \in Nat \ {0} /\ 0 \in 0..(p - 1) /\ 1 \in 0..(p - 1)
    BY Powers
  <2> HIDE DEF p
  <2>2. 0 % p = 0 /\ 1 % p = 1
    BY <2>1, OwnRemainder
  <2> QED  BY <2>2 DEF p
<1>4. less \in {0, 1} /\ below \in {0, 1}
  OBVIOUS
<1> HIDE DEF less, below
<1> QED
  BY <1>1, <1>2, <1>3, <1>4

\* the bits of a result of and, or and xor are those of a register
LEMMA MeansBits ==
  ASSUME NEW x \in Value, NEW y \in Value
  PROVE  /\ execute("kAnd", x, y) = {Meant("and", x, y)} /\ execute("kAnd", x, y) = {Meant("andi", x, y)}
         /\ execute("kOr", x, y) = {Meant("or", x, y)} /\ execute("kOr", x, y) = {Meant("ori", x, y)}
         /\ execute("kXor", x, y) = {Meant("xor", x, y)} /\ execute("kXor", x, y) = {Meant("xori", x, y)}
<1> DEFINE c == OfBits(OneBits(x) \cap OneBits(y))
           d == OfBits(OneBits(x) \cup OneBits(y))
           e == OfBits(SymDiff(OneBits(x), OneBits(y)))
<1>1. execute("kAnd", x, y) = {c} /\ execute("kOr", x, y) = {d} /\ execute("kXor", x, y) = {e}
  BY DEF execute
<1>2. /\ Meant("and", x, y) = c % 2^Width /\ Meant("andi", x, y) = c % 2^Width
      /\ Meant("or", x, y) = d % 2^Width /\ Meant("ori", x, y) = d % 2^Width
      /\ Meant("xor", x, y) = e % 2^Width /\ Meant("xori", x, y) = e % 2^Width
  BY DEF Meant
<1>3. c \in Value /\ d \in Value /\ e \in Value
  <2>1. OneBits(x) \subseteq 0..(Width - 1) /\ OneBits(y) \subseteq 0..(Width - 1)
    BY DEF OneBits
  <2>2. SymDiff(OneBits(x), OneBits(y)) \subseteq OneBits(x) \cup OneBits(y)
    BY DEF SymDiff
  <2> QED  BY <2>1, <2>2, EveryBits
<1>4. \A r \in Value : r % 2^Width = r
  BY Powers, OwnRemainder DEF Value
<1> HIDE DEF c, d, e
<1> QED
  BY <1>1, <1>2, <1>3, <1>4

\* a quotient lies between the bounds of the dividend
LEMMA QuotientBounds ==
  ASSUME NEW h \in Nat, NEW d \in Nat \ {0}, NEW n \in Int, -h <= n, n < h
  PROVE  /\ n \div d \in Int /\ -h <= n \div d /\ n \div d < h
         /\ n >= 0 => n \div d >= 0
<1> DEFINE q == n \div d
           r == n % d
<1>1. n = d * q + r /\ r \in 0..(d - 1) /\ q \in Int
  BY Split
<1> HIDE DEF q, r
<1>2. ASSUME q >= h PROVE FALSE
  <2>1. d * q >= q
    BY <1>1, <1>2, SMT
  <2> QED  BY <1>1, <1>2, <2>1
<1>3. ASSUME q <= -1 PROVE n <= q
  <2>1. d * (q + 1) <= q + 1 /\ d * (q + 1) = d * q + d
    BY <1>1, <1>3, SMT
  <2> QED  BY <1>1, <2>1
<1>4. -h <= q /\ q < h /\ (n >= 0 => q >= 0)
  BY <1>1, <1>2, <1>3
<1> QED
  BY <1>1, <1>4 DEF q

LEMMA ShiftPower ==
  ASSUME NEW y \in Value, NEW n \in Bitwidths
  PROVE  y % n \in 0..Width /\ 2^(y % n) \in Nat \ {0}
<1>1. n \in Nat \ {0} /\ n <= Width /\ Width \in Nat
  BY WidthAssumption DEF Bitwidths
<1>2. y \in Int
  BY Operand
<1>3. y % n \in 0..(n - 1)
  BY <1>1, <1>2, Split
<1>4. y % n \in 0..Width
  BY <1>1, <1>3
<1> HIDE DEF Bitwidths
<1> QED
  BY <1>4, PowerOf

LEMMA MeansShift ==
  ASSUME NEW x \in Value, NEW y \in Value
  PROVE  /\ execute("kSrl", x, y) = {Meant("srl", x, y)}
         /\ execute("kSrl", x, y) = {Meant("srli", x, y)}
         /\ execute("kSraw", x, y) = {Meant("sraw", x, y)}
<1> DEFINE d == 2^(y % Width)
           e == 2^(y % Half)
           p == 2^Width
           h == 2^(Half - 1)
           w == Signed(x, Half)
<1>1. /\ d \in Nat \ {0} /\ e \in Nat \ {0} /\ p \in Nat \ {0} /\ h \in Nat
      /\ x \in 0..(p - 1) /\ x \in Int
      /\ w \in Int /\ -h <= w /\ w < h
  BY ShiftPower, BothWidths, Powers, Operand, SignedFacts
<1>2. execute("kSrl", x, y) = {x \div d} /\ execute("kSraw", x, y) = {Signed(w \div e, Half) % p}
  BY DEF execute, SignExtendHalf, Unsigned
<1>3. /\ Meant("srl", x, y) = (x \div d) % p /\ Meant("srli", x, y) = (x \div d) % p
      /\ Meant("sraw", x, y) = (w \div e) % p
  BY DEF Meant
<1> DEFINE q == x \div d
           r == w \div e
<1>4. q \in Int /\ 0 <= q /\ q < p
  <2> HIDE DEF d, p
  <2>1. -p <= x /\ x < p /\ p \in Nat /\ x >= 0
    BY <1>1
  <2> QED  BY <1>1, <2>1, QuotientBounds
<1>5. r \in Int /\ -h <= r /\ r < h
  <2> HIDE DEF e, h, w
  <2> QED  BY <1>1, QuotientBounds
<1>6. q % p = q
  <2> HIDE DEF p, q
  <2> QED  BY <1>1, <1>4, OwnRemainder
<1>7. Signed(r, Half) = r
  <2> HIDE DEF r
  <2> QED  BY <1>5, SignedOwn, BothWidths DEF h
<1> HIDE DEF q, r
<1> QED
  BY <1>2, <1>3, <1>6, <1>7 DEF q, r

\* the operands of a division, read as signed numbers
LEMMA Divisor ==
  ASSUME NEW x \in Value, NEW y \in Value, NEW n \in Bitwidths, y % 2^n # 0
  PROVE  /\ Signed(x, n) \in Int /\ Signed(y, n) \in Int /\ Signed(y, n) # 0
         /\ QuotientOf(Signed(x, n), Signed(y, n)) = Quotient(Signed(x, n), Signed(y, n))
         /\ RemainderOf(Signed(x, n), Signed(y, n)) = Remainder(Signed(x, n), Signed(y, n))
         /\ Quotient(Signed(x, n), Signed(y, n)) \in Int
<1> DEFINE sx == Signed(x, n)
           sy == Signed(y, n)
<1>1. sx \in Int /\ sy \in Int
  BY Operand
<1>2. sy # 0
  <2>1. 0 % 2^n = 0
    <3> DEFINE p == 2^n
    <3>1. p \in Nat \ {0} /\ 0 \in 0..(p - 1)
      BY PowersOf
    <3> HIDE DEF p
    <3>2. 0 % p = 0
      BY <3>1, OwnRemainder
    <3> QED  BY <3>2 DEF p
  <2>2. sy % 2^n = y % 2^n
    BY Operand
  <2> HIDE DEF sy
  <2> QED  BY <2>1, <2>2
<1>3. Magnitude(sx) <= 2^Width
  <2> DEFINE h == 2^(n - 1)
             p == 2^Width
  <2>1. h \in Nat /\ p \in Nat /\ 2 * h <= p
    BY PowersOf, Powers DEF Bitwidths
  <2>2. -h <= sx /\ sx < h
    <3>1. x \in Int
      BY Operand
    <3> QED  BY <3>1, SignedFacts
  <2> HIDE DEF h, p, sx
  <2>3. Magnitude(sx) <= p
    BY <1>1, <2>1, <2>2 DEF Magnitude
  <2> QED  BY <2>3 DEF p
<1> HIDE DEF sx, sy
<1>4. QuotientOf(sx, sy) = Quotient(sx, sy) /\ RemainderOf(sx, sy) = Remainder(sx, sy)
      /\ Quotient(sx, sy) \in Int
  BY <1>1, <1>2, <1>3, QuotientIsMeant, QuotientDivides
<1> QED
  BY <1>1, <1>2, <1>4 DEF sx, sy

LEMMA ValueNotZero ==
  ASSUME NEW y \in Value
  PROVE  y % 2^Width = y /\ (y % 2^Half # 0 => y # 0)
<1>1. y % 2^Width = y
  BY Powers, OwnRemainder, Operand, BothWidths
<1>2. 0 % 2^Half = 0
  <2> DEFINE p == 2^Half
  <2>1. p \in Nat \ {0} /\ 0 \in 0..(p - 1)
    BY Powers
  <2> HIDE DEF p
  <2>2. 0 % p = 0
    BY <2>1, OwnRemainder
  <2> QED  BY <2>2 DEF p
<1> QED
  BY <1>1, <1>2

LEMMA MeansDivide ==
  ASSUME NEW x \in Value, NEW y \in Value
  PROVE  /\ ~DivisionEdge("div", x, y) => execute("kDiv", x, y) = {Meant("div", x, y)}
         /\ ~DivisionEdge("rem", x, y) => execute("kRem", x, y) = {Meant("rem", x, y)}
<1> DEFINE sx == Signed(x, Width)
           sy == Signed(y, Width)
<1>1. ASSUME y # 0, ~(sx = Smallest(Width) /\ sy = -1)
      PROVE  /\ execute("kDiv", x, y) = {Meant("div", x, y)}
             /\ execute("kRem", x, y) = {Meant("rem", x, y)}
  <2>1. /\ sy # 0
        /\ QuotientOf(sx, sy) = Quotient(sx, sy)
        /\ RemainderOf(sx, sy) = Remainder(sx, sy)
    BY <1>1, ValueNotZero, Divisor, BothWidths
  <2>2. /\ Meant("div", x, y) = QuotientOf(sx, sy) % 2^Width
        /\ Meant("rem", x, y) = RemainderOf(sx, sy) % 2^Width
    BY DEF Meant
  <2>3. execute("kDiv", x, y) = {DivideSigned(sx, sy, Width) % 2^Width}
    BY DEF execute, Unsigned
  <2>4. execute("kRem", x, y) = {Remainder(sx, sy) % 2^Width}
    BY <1>1 DEF execute, Unsigned
  <2> HIDE DEF sx, sy
  <2>5. DivideSigned(sx, sy, Width) = Quotient(sx, sy)
    BY <1>1, <2>1 DEF DivideSigned
  <2> QED  BY <2>1, <2>2, <2>3, <2>4, <2>5
<1>2. ~DivisionEdge("div", x, y) \/ ~DivisionEdge("rem", x, y)
        => y # 0 /\ ~(sx = Smallest(Width) /\ sy = -1)
  BY DEF DivisionEdge
<1> QED
  BY <1>1, <1>2

\* of natural numbers, C++ computes quotient and remainder of the division
LEMMA NaturalQuotient ==
  ASSUME NEW x \in Nat, NEW y \in Nat \ {0}, x <= 2^Width
  PROVE  /\ QuotientOf(x, y) = x \div y /\ RemainderOf(x, y) = x % y
         /\ x \div y \in 0..x /\ x % y \in 0..x /\ x % y < y
<1>1. Magnitude(x) = x /\ Magnitude(y) = y
  BY DEF Magnitude
<1>2. Quotient(x, y) = x \div y
  BY <1>1 DEF Quotient
<1>3. x = y * (x \div y) + (x % y) /\ x \div y \in Int /\ x % y \in 0..(y - 1)
  BY Split
<1>4. Remainder(x, y) = x % y
  <2> DEFINE m == y * (x \div y)
             r == x % y
  <2>1. x = m + r /\ m \in Int /\ r \in Int /\ Remainder(x, y) = x - m
    BY <1>2, <1>3 DEF Remainder
  <2> HIDE DEF m, r
  <2>2. Remainder(x, y) = r
    BY <2>1
  <2> QED  BY <2>2 DEF r
<1>5. QuotientOf(x, y) = Quotient(x, y) /\ RemainderOf(x, y) = Remainder(x, y)
  BY <1>1, QuotientIsMeant
<1>6. x \div y \in 0..x
  <2>1. -x <= x /\ x < x + 1 /\ x + 1 \in Nat /\ -(x + 1) <= x
    OBVIOUS
  <2>2. x \div y < x + 1 /\ x \div y >= 0
    <3> DEFINE h == x + 1
    <3>1. h \in Nat /\ -h <= x /\ x < h /\ x \in Int /\ x >= 0
      BY <2>1
    <3> HIDE DEF h
    <3>2. x \div y < h /\ x \div y >= 0
      BY <3>1, QuotientBounds
    <3> QED  BY <3>2 DEF h
  <2> QED  BY <1>3, <2>2
<1>7. x % y \in 0..x
  <2> DEFINE q == x \div y
             r == x % y
  <2>1. y * q >= 0 /\ y * q \in Int
    BY <1>3, <1>6, SMT
  <2>2. x = y * q + r /\ r \in Int /\ r >= 0
    BY <1>3
  <2> HIDE DEF q, r
  <2>3. r \in 0..x
    BY <2>1, <2>2
  <2> QED  BY <2>3 DEF r
<1> QED
  BY <1>2, <1>3, <1>4, <1>5, <1>6, <1>7

LEMMA MeansDivideUnsigned ==
  ASSUME NEW x \in Value, NEW y \in Value
  PROVE  /\ ~DivisionEdge("divu", x, y) => execute("kDivu", x, y) = {Meant("divu", x, y)}
         /\ ~DivisionEdge("remu", x, y) => execute("kRemu", x, y) = {Meant("remu", x, y)}
<1>1. ASSUME y # 0
      PROVE  /\ execute("kDivu", x, y) = {Meant("divu", x, y)}
             /\ execute("kRemu", x, y) = {Meant("remu", x, y)}
  <2> DEFINE p == 2^Width
  <2>1. p \in Nat \ {0} /\ x \in 0..(p - 1) /\ y \in 0..(p - 1)
    BY Powers DEF Value
  <2>2. x \in Nat /\ y \in Nat \ {0} /\ x <= p
    <3> HIDE DEF p
    <3> QED  BY <1>1, <2>1
  <2>3. /\ QuotientOf(x, y) = x \div y /\ RemainderOf(x, y) = x % y
        /\ x \div y \in 0..x /\ x % y \in 0..x
    BY <2>2, NaturalQuotient
  <2>4. execute("kDivu", x, y) = {x \div y} /\ execute("kRemu", x, y) = {x % y}
    BY <1>1 DEF execute, DivideUnsigned
  <2>5. Meant("divu", x, y) = QuotientOf(x, y) % p /\ Meant("remu", x, y) = RemainderOf(x, y) % p
    BY DEF Meant
  <2> DEFINE q == x \div y
             r == x % y
  <2>6. q % p = q /\ r % p = r
    <3>1. q \in 0..x /\ r \in 0..x
      BY <2>3
    <3> HIDE DEF p, q, r
    <3>2. q \in 0..(p - 1) /\ r \in 0..(p - 1)
      BY <2>1, <2>2, <3>1
    <3> QED  BY <2>1, <3>2, OwnRemainder
  <2> HIDE DEF p, q, r
  <2> QED  BY <2>3, <2>4, <2>5, <2>6 DEF q, r
<1>2. ~DivisionEdge("divu", x, y) \/ ~DivisionEdge("remu", x, y) => y # 0
  BY DEF DivisionEdge
<1> QED
  BY <1>1, <1>2

\* the 32-bit divisions, with the one overflow the code treats as the manual does
LEMMA MeansHalfDivide ==
  ASSUME NEW x \in Value, NEW y \in Value
  PROVE  /\ ~DivisionEdge("divw", x, y) => execute("kDivw", x, y) = {Meant("divw", x, y)}
         /\ ~DivisionEdge("remw", x, y) => execute("kRemw", x, y) = {Meant("remw", x, y)}
<1> DEFINE wx == Signed(x, Half)
           wy == Signed(y, Half)
           h == 2^(Half - 1)
<1>1. h \in Nat \ {0} /\ 2^Half = 2 * h
  BY Powers
<1>2. ASSUME y % 2^Half # 0
      PROVE  /\ execute("kDivw", x, y) = {Meant("divw", x, y)}
             /\ ~(wx = Smallest(Half) /\ wy = -1) => execute("kRemw", x, y) = {Meant("remw", x, y)}
  <2>1. /\ wx \in Int /\ wy \in Int /\ wy # 0
        /\ QuotientOf(wx, wy) = Quotient(wx, wy)
        /\ RemainderOf(wx, wy) = Remainder(wx, wy)
    BY <1>2, Divisor, BothWidths
  <2>2. /\ Meant("divw", x, y) = Signed(QuotientOf(wx, wy), Half) % 2^Width
        /\ Meant("remw", x, y) = Signed(RemainderOf(wx, wy), Half) % 2^Width
    BY DEF Meant
  <2>3. execute("kDivw", x, y) = {Signed(DivideSigned(wx, wy, Half), Half) % 2^Width}
    BY DEF execute, Unsigned, SignExtendHalf
  <2>4. ~(wx = Smallest(Half) /\ wy = -1)
          => execute("kRemw", x, y) = {Signed(Remainder(wx, wy), Half) % 2^Width}
    <3>1. y # 0
      BY <1>2, ValueNotZero
    <3> QED  BY <2>1, <3>1 DEF execute, Unsigned, SignExtendHalf
  <2>5. Signed(DivideSigned(wx, wy, Half), Half) = Signed(Quotient(wx, wy), Half)
    <3>1. CASE wx = Smallest(Half) /\ wy = -1
      <4>1. wx = -h
        BY <3>1 DEF Smallest
      <4>2. DivideSigned(wx, wy, Half) = wx
        BY <2>1, <3>1 DEF DivideSigned
      <4>3. Quotient(wx, wy) = h
        <5> HIDE DEF wx, wy, h
        <5>1. Magnitude(wx) = h /\ Magnitude(wy) = 1 /\ wx < 0 /\ wy < 0
          <6>1. h \in Nat /\ h > 0
            BY <1>1
          <6>2. -h < 0 /\ -(-h) = h
            BY <6>1
          <6>3. wy < 0 /\ -wy = 1
            <7>1. wy \in Int /\ wy + 1 = 0
              BY <2>1, <3>1
            <7> QED  BY <7>1
          <6> QED  BY <4>1, <6>2, <6>3 DEF Magnitude
        <5>2. h \div 1 = h
          BY <1>1, SMT
        <5> QED  BY <5>1, <5>2 DEF Quotient
      <4>4. (-h) % 2^Half = h % 2^Half
        <5> DEFINE p == 2^Half
        <5>1. p \in Nat \ {0} /\ h \in Int /\ -h \in Int /\ -h = h + p * (-1)
          BY <1>1
        <5>2. \E k \in Int : -h = h + p * k
          BY <5>1
        <5>3. p \in Nat \ {0} /\ h \in Int /\ -h \in Int
          BY <5>1
        <5> HIDE DEF p, h
        <5>4. (-h) % p = h % p
          BY <5>2, <5>3, SameRemainder
        <5> QED  BY <5>4 DEF p
      <4> QED  BY <4>1, <4>2, <4>3, <4>4, SignedSame
    <3>2. CASE ~(wx = Smallest(Half) /\ wy = -1)
      BY <2>1, <3>2 DEF DivideSigned
    <3> QED  BY <3>1, <3>2
  <2> HIDE DEF wx, wy
  <2> QED  BY <2>1, <2>2, <2>3, <2>4, <2>5
<1>3. /\ ~DivisionEdge("divw", x, y) => y % 2^Half # 0
      /\ ~DivisionEdge("remw", x, y) => y % 2^Half # 0 /\ ~(wx = Smallest(Half) /\ wy = -1)
  BY DEF DivisionEdge
<1> QED
  BY <1>2, <1>3

\* a result with the sign bit set is the one the code does not extend
LEMMA Unextended ==
  ASSUME NEW q \in 0..(2^Half - 1), ~(Signed(q, Half) % 2^Width >= 2^(Half - 1))
  PROVE  Signed(q, Half) % 2^Width = q
<1> DEFINE p == 2^Width
           t == 2^Half
           h == 2^(Half - 1)
           s == Signed(q, Half)
<1>1. p \in Nat \ {0} /\ h \in Nat \ {0} /\ t = 2 * h /\ t <= p /\ t \in Nat \ {0}
  BY Powers
<1>2. q \in 0..(t - 1) /\ ~(s % p >= h)
  OBVIOUS
<1>3. s = IF q % t >= h THEN (q % t) - t ELSE q % t
  BY DEF Signed, Unsigned
<1> HIDE DEF p, t, h, s
<1>4. q % t = q
  BY <1>1, <1>2, OwnRemainder
<1>5. CASE q >= h
  <2> DEFINE r == s + p
  <2>1. r \in 0..(p - 1) /\ r >= h /\ r \in Int /\ s \in Int
    BY <1>1, <1>2, <1>3, <1>4, <1>5
  <2>2. s = r + p * (-1)
    BY <1>1, <2>1
  <2>3. \E k \in Int : s = r + p * k
    BY <2>2
  <2>4. p \in Nat \ {0}
    BY <1>1
  <2> HIDE DEF r
  <2>5. s % p = r % p
    BY <2>1, <2>3, <2>4, SameRemainder
  <2>6. r % p = r
    BY <2>1, <2>4, OwnRemainder
  <2> QED  BY <1>2, <2>1, <2>5, <2>6
<1>6. CASE ~(q >= h)
  <2>1. s = q /\ q \in 0..(p - 1)
    BY <1>1, <1>2, <1>3, <1>4, <1>6
  <2>2. q % p = q
    BY <1>1, <2>1, OwnRemainder
  <2> QED  BY <2>1, <2>2 DEF s, p
<1> QED
  BY <1>5, <1>6

LEMMA MeansHalfDivideUnsigned ==
  ASSUME NEW x \in Value, NEW y \in Value
  PROVE  /\ ~DivisionEdge("divuw", x, y) => execute("kDivuw", x, y) = {Meant("divuw", x, y)}
         /\ ~DivisionEdge("remuw", x, y) => execute("kRemuw", x, y) = {Meant("remuw", x, y)}
<1> DEFINE t == 2^Half
           ux == x % t
           uy == y % t
<1>1. t \in Nat \ {0} /\ t <= 2^Width /\ 2^Width \in Nat
  BY Powers
<1>2. ux \in 0..(t - 1) /\ uy \in 0..(t - 1)
  <2>1. x \in Int /\ y \in Int
    BY Operand, BothWidths
  <2> HIDE DEF t
  <2> QED  BY <1>1, <2>1, Split
<1>3. ASSUME uy # 0
      PROVE  /\ QuotientOf(ux, uy) = ux \div uy /\ RemainderOf(ux, uy) = ux % uy
             /\ ux \div uy \in 0..(t - 1) /\ ux % uy \in 0..(t - 1)
             /\ execute("kDivuw", x, y) = {ux \div uy}
             /\ execute("kRemuw", x, y) = {ux % uy}
  <2>1. y # 0
    BY <1>3, ValueNotZero
  <2>2. execute("kDivuw", x, y) = {ux \div uy} /\ execute("kRemuw", x, y) = {ux % uy}
    BY <1>3, <2>1 DEF execute, Unsigned
  <2> HIDE DEF t, ux, uy
  <2>3. ux \in Nat /\ uy \in Nat \ {0} /\ ux <= 2^Width
    BY <1>1, <1>2, <1>3
  <2>4. /\ QuotientOf(ux, uy) = ux \div uy /\ RemainderOf(ux, uy) = ux % uy
        /\ ux \div uy \in 0..ux /\ ux % uy \in 0..ux
    BY <2>3, NaturalQuotient
  <2>5. ux \div uy \in 0..(t - 1) /\ ux % uy \in 0..(t - 1)
    BY <1>1, <1>2, <2>4
  <2> QED  BY <2>2, <2>4, <2>5
<1>4. /\ Meant("divuw", x, y) = Signed(QuotientOf(ux, uy), Half) % 2^Width
      /\ Meant("remuw", x, y) = Signed(RemainderOf(ux, uy), Half) % 2^Width
  BY DEF Meant
<1>5. /\ ~DivisionEdge("divuw", x, y) => uy # 0 /\ ~(Meant("divuw", x, y) >= 2^(Half - 1))
      /\ ~DivisionEdge("remuw", x, y) => uy # 0 /\ ~(Meant("remuw", x, y) >= 2^(Half - 1))
  BY DEF DivisionEdge
<1> HIDE DEF ux, uy
<1> QED
  BY <1>3, <1>4, <1>5, Unextended DEF t

----------------------------------------------------------------------------
(* The signal of every mnemonic *)

\* a table with one row for each key gives what the row says
LEMMA SelectRow ==
  ASSUME NEW rows, \A r, s \in rows : r[1] = s[1] => r[2] = s[2],
         NEW key, NEW signal, <<key, signal>> \in rows
  PROVE  Select(rows, key) = signal
<1> DEFINE row == <<key, signal>>
           c == CHOOSE r \in rows : r[1] = key
<1>1. row \in rows /\ row[1] = key /\ row[2] = signal
  OBVIOUS
<1>2. c \in rows /\ c[1] = key
  BY <1>1
<1>3. c[2] = signal
  BY <1>1, <1>2
<1> QED
  BY <1>1, <1>3 DEF Select

LEMMA OneRow ==
  /\ \A r, s \in RegisterSignals : r[1] = s[1] => r[2] = s[2]
  /\ \A r, s \in RegisterSignals32 : r[1] = s[1] => r[2] = s[2]
  /\ \A r, s \in ImmediateSignals : r[1] = s[1] => r[2] = s[2]
<1>1. \A r, s \in RegisterSignals : r[1] = s[1] => r[2] = s[2]
  BY SMT DEF RegisterSignals
<1>2. \A r, s \in RegisterSignals32 : r[1] = s[1] => r[2] = s[2]
  BY SMT DEF RegisterSignals32
<1>3. \A r, s \in ImmediateSignals : r[1] = s[1] => r[2] = s[2]
  BY SMT DEF ImmediateSignals
<1> QED
  BY <1>1, <1>2, <1>3

\* of the mnemonics whose opcode is OP, OP_IMM or OP32
SignalOf ==
  [add |-> "kAdd", sub |-> "kSub", xor |-> "kXor", or |-> "kOr", and |-> "kAnd",
   sll |-> "kSll", srl |-> "kSrl", sra |-> "kSra", slt |-> "kSlt", sltu |-> "kSltu",
   mul |-> "kMul", mulh |-> "kMulh", mulhsu |-> "kMulhsu", mulhu |-> "kMulhu",
   div |-> "kDiv", divu |-> "kDivu", rem |-> "kRem", remu |-> "kRemu",
   addw |-> "kAddw", subw |-> "kSubw", sllw |-> "kSllw", srlw |-> "kSrlw", sraw |-> "kSraw",
   mulw |-> "kMulw", divw |-> "kDivw", divuw |-> "kDivuw", remw |-> "kRemw", remuw |-> "kRemuw",
   addi |-> "kAdd", xori |-> "kXor", ori |-> "kOr", andi |-> "kAnd", slti |-> "kSlt",
   sltiu |-> "kSltu", slli |-> "kSll", srli |-> "kSrl", srai |-> "kSra"]

\* what the tables of instruction_set and the switch of GetAluSignal agree on
LEMMA RegisterRows ==
  \A n \in RTypeInstructions :
    LET e == R_type_instruction_encoding_map[n] IN
    /\ e.opcode \in {OP, OP32}
    /\ e.opcode = OP => <<<<e.funct3, e.funct7>>, SignalOf[n]>> \in RegisterSignals
    /\ e.opcode = OP32 /\ n # "sllw" =>
         e.funct3 # 1 /\ <<<<e.funct3, e.funct7>>, SignalOf[n]>> \in RegisterSignals32
    /\ n = "sllw" => e.opcode = OP32 /\ e.funct3 = 1
BY SMTT(60) DEF RTypeInstructions, R_type_instruction_encoding_map, Enc, OP, OP32, SignalOf,
   RegisterSignals, RegisterSignals32

LEMMA ImmediateRows ==
  /\ \A n \in I1TypeInstructions :
       LET e == I1_type_instruction_encoding_map[n] IN
       e.opcode = OP_IMM => e.funct3 # 5 /\ <<<<e.funct3>>, SignalOf[n]>> \in ImmediateSignals
  /\ \A n \in I2TypeInstructions :
       LET e == I2_type_instruction_encoding_map[n] IN
       e.opcode = OP_IMM =>
         /\ n \in {"slli", "srli", "srai"}
         /\ e.funct3 # 5 => <<<<e.funct3>>, SignalOf[n]>> \in ImmediateSignals
         /\ e.funct3 = 5 => <<<<5, 2 * e.funct7>>, SignalOf[n]>> \in ImmediateSignals
BY SMTT(60) DEF I1TypeInstructions, I1_type_instruction_encoding_map, I2TypeInstructions,
   I2_type_instruction_encoding_map, Enc, OP_IMM, OP_IMM32, LOAD, JALR, SignalOf,
   ImmediateSignals

HIDE DEF SignalOf

\* the operation of a signal computes what the mnemonics that have the signal stand for
LEMMA EverySignal ==
  ASSUME NEW n \in DOMAIN SignalOf, NEW x \in Value, NEW y \in Value, ~DivisionEdge(n, x, y)
  PROVE  execute(SignalOf[n], x, y) = {Meant(n, x, y)}
<1>1. CASE n \in {"add", "addi", "sub", "mul"}
  BY <1>1, MeansSum DEF SignalOf
<1>2. CASE n \in {"addw", "subw", "mulw"}
  BY <1>2, MeansHalfSum DEF SignalOf
<1>3. CASE n \in {"mulh", "mulhsu", "mulhu", "sll", "slli", "sra", "srai", "sllw", "srlw"}
  BY <1>3, MeansSame DEF SignalOf
<1>4. CASE n \in {"slt", "slti", "sltu", "sltiu"}
  BY <1>4, MeansCompare DEF SignalOf
<1>5. CASE n \in {"and", "andi", "or", "ori", "xor", "xori"}
  BY <1>5, MeansBits DEF SignalOf
<1>6. CASE n \in {"srl", "srli", "sraw"}
  BY <1>6, MeansShift DEF SignalOf
<1>7. CASE n \in {"div", "rem"}
  BY <1>7, MeansDivide DEF SignalOf
<1>8. CASE n \in {"divu", "remu"}
  BY <1>8, MeansDivideUnsigned DEF SignalOf
<1>9. CASE n \in {"divw", "remw"}
  BY <1>9, MeansHalfDivide DEF SignalOf
<1>10. CASE n \in {"divuw", "remuw"}
  BY <1>10, MeansHalfDivideUnsigned DEF SignalOf
<1> QED
  BY <1>1, <1>2, <1>3, <1>4, <1>5, <1>6, <1>7, <1>8, <1>9, <1>10 DEF SignalOf

----------------------------------------------------------------------------
(* The signal and the operands of a word *)

\* the opcode selects the table
LEMMA SignalCases ==
  ASSUME NEW w
  PROVE  /\ w.opcode = OP => GetAluSignal(w) = Select(RegisterSignals, <<w.funct3, w.funct7>>)
         /\ w.opcode = OP_IMM => GetAluSignal(w) = Select(ImmediateSignals, ImmediateKey(w))
         /\ w.opcode = OP32 /\ w.funct3 = 1 => GetAluSignal(w) = "kSllw"
         /\ w.opcode = OP32 /\ w.funct3 # 1 =>
              GetAluSignal(w) = Select(RegisterSignals32, <<w.funct3, w.funct7>>)
BY SMTT(30) DEF GetAluSignal, OP, OP32, OP_IMM, OP_IMM32, BRANCH, MADD, OP_FP, LOAD, STORE, JALR, JAL,
   LUI, AUIPC, LOAD_FP, STORE_FP

LEMMA RegisterSignal ==
  ASSUME NEW u, u.op \in RTypeInstructions
  PROVE  LET w == generateMachineCode(u) IN
         /\ u.op \in DOMAIN SignalOf
         /\ GetAluSignal(w) = SignalOf[u.op]
         /\ w.opcode \in {OP, OP32}
<1> DEFINE e == R_type_instruction_encoding_map[u.op]
           w == generateMachineCode(u)
<1>1. w.opcode = e.opcode /\ w.funct3 = e.funct3 /\ w.funct7 = e.funct7
  BY RFormat DEF generateRType, Pack
<1>2. u.op \in DOMAIN SignalOf
  BY SMTT(30) DEF SignalOf, RTypeInstructions, R_type_instruction_encoding_map
<1>3. /\ e.opcode \in {OP, OP32}
      /\ e.opcode = OP => <<<<e.funct3, e.funct7>>, SignalOf[u.op]>> \in RegisterSignals
      /\ e.opcode = OP32 /\ u.op # "sllw" =>
           e.funct3 # 1 /\ <<<<e.funct3, e.funct7>>, SignalOf[u.op]>> \in RegisterSignals32
      /\ u.op = "sllw" => e.opcode = OP32 /\ e.funct3 = 1
  BY RegisterRows
<1>4. OP # OP32
  BY SMT DEF OP, OP32
<1> HIDE DEF e, w
<1>5. CASE e.opcode = OP
  <2>1. GetAluSignal(w) = Select(RegisterSignals, <<w.funct3, w.funct7>>)
    BY <1>1, <1>5, SignalCases
  <2>2. Select(RegisterSignals, <<e.funct3, e.funct7>>) = SignalOf[u.op]
    BY <1>3, <1>5, OneRow, SelectRow
  <2> QED  BY <1>1, <1>2, <1>5, <2>1, <2>2 DEF w
<1>6. CASE e.opcode = OP32 /\ u.op # "sllw"
  <2>1. GetAluSignal(w) = Select(RegisterSignals32, <<w.funct3, w.funct7>>)
    BY <1>1, <1>3, <1>6, SignalCases
  <2>2. Select(RegisterSignals32, <<e.funct3, e.funct7>>) = SignalOf[u.op]
    BY <1>3, <1>6, OneRow, SelectRow
  <2> QED  BY <1>1, <1>2, <1>6, <2>1, <2>2 DEF w
<1>7. CASE u.op = "sllw"
  <2>1. GetAluSignal(w) = "kSllw"
    BY <1>1, <1>3, <1>7, SignalCases
  <2>2. SignalOf[u.op] = "kSllw"
    BY <1>7 DEF SignalOf
  <2> QED  BY <1>1, <1>2, <1>3, <1>7, <2>1, <2>2 DEF w
<1> QED
  BY <1>3, <1>5, <1>6, <1>7

LEMMA ImmediateSignal ==
  ASSUME NEW u, Accepted(u), u.op \in I1TypeInstructions \cup I2TypeInstructions,
         generateMachineCode(u).opcode = OP_IMM
  PROVE  LET w == generateMachineCode(u) IN
         /\ u.op \in DOMAIN SignalOf
         /\ GetAluSignal(w) = SignalOf[u.op]
         /\ u.op \notin WithoutImmediate
<1> DEFINE w == generateMachineCode(u)
<1>1. CASE u.op \in I1TypeInstructions
  <2> DEFINE e == I1_type_instruction_encoding_map[u.op]
  <2>1. w.opcode = e.opcode /\ w.funct3 = e.funct3
    BY <1>1, I1Format DEF generateI1Type, Pack
  <2>2. e.funct3 # 5 /\ <<<<e.funct3>>, SignalOf[u.op]>> \in ImmediateSignals
    BY <1>1, <2>1, ImmediateRows
  <2>3. u.op \in DOMAIN SignalOf /\ u.op \notin WithoutImmediate
    BY <1>1, <2>1, SMTT(30) DEF SignalOf, I1TypeInstructions, I1_type_instruction_encoding_map,
       Enc, OP_IMM, OP_IMM32, LOAD, JALR, WithoutImmediate
  <2>4. GetAluSignal(w) = Select(ImmediateSignals, ImmediateKey(w))
    BY SignalCases
  <2> HIDE DEF w, e
  <2>5. ImmediateKey(w) = <<e.funct3>>
    BY <2>1, <2>2 DEF ImmediateKey
  <2>6. Select(ImmediateSignals, <<e.funct3>>) = SignalOf[u.op]
    BY <2>2, OneRow, SelectRow
  <2> QED  BY <2>3, <2>4, <2>5, <2>6 DEF w
<1>2. CASE u.op \in I2TypeInstructions
  <2> DEFINE e == I2_type_instruction_encoding_map[u.op]
  <2>1. w.opcode = e.opcode /\ w.funct3 = e.funct3 /\ w.funct7 = 2 * e.funct7 + Bits(u.imm, 32, 2)
    BY <1>2, I2Format DEF generateI2Type, Pack
  <2>2. Bits(u.imm, 32, 2) = 0
    <3>1. u.imm \in Int /\ 0 <= u.imm /\ u.imm < 32
      BY <1>2, I2Format, UnitFields DEF Accepted
    <3> QED  BY <3>1, SMT DEF Bits
  <2>3. e.funct7 \in 0..63
    BY <1>2, I2Format
  <2>4. /\ u.op \in {"slli", "srli", "srai"}
        /\ e.funct3 # 5 => <<<<e.funct3>>, SignalOf[u.op]>> \in ImmediateSignals
        /\ e.funct3 = 5 => <<<<5, 2 * e.funct7>>, SignalOf[u.op]>> \in ImmediateSignals
    BY <1>2, <2>1, ImmediateRows
  <2>5. u.op \in DOMAIN SignalOf /\ u.op \notin WithoutImmediate
    BY <2>4 DEF SignalOf, WithoutImmediate
  <2>6. GetAluSignal(w) = Select(ImmediateSignals, ImmediateKey(w))
    BY SignalCases
  <2> HIDE DEF w, e
  <2>7. w.funct7 = 2 * e.funct7
    BY <2>1, <2>2, <2>3
  <2>8. CASE e.funct3 = 5
    <3>1. ImmediateKey(w) = <<5, 2 * e.funct7>>
      BY <2>1, <2>7, <2>8 DEF ImmediateKey
    <3>2. Select(ImmediateSignals, <<5, 2 * e.funct7>>) = SignalOf[u.op]
      BY <2>4, <2>8, OneRow, SelectRow
    <3> QED  BY <2>5, <2>6, <3>1, <3>2 DEF w
  <2>9. CASE e.funct3 # 5
    <3>1. ImmediateKey(w) = <<e.funct3>>
      BY <2>1, <2>9 DEF ImmediateKey
    <3>2. Select(ImmediateSignals, <<e.funct3>>) = SignalOf[u.op]
      BY <2>4, <2>9, OneRow, SelectRow
    <3> QED  BY <2>5, <2>6, <3>1, <3>2 DEF w
  <2> QED  BY <2>8, <2>9
<1> QED
  BY <1>1, <1>2

----------------------------------------------------------------------------
(* The second operand *)

Multiple(p, d) == \E k \in Int : p = d * k

LEMMA DivisorModulo ==
  ASSUME NEW p \in Nat \ {0}, NEW d \in Nat \ {0}, Multiple(p, d), NEW x \in Int
  PROVE  (x % p) % d = x % d
<1> DEFINE q == x \div p
           r == x % p
<1>1. x = p * q + r /\ q \in Int /\ r \in Int
  <2>1. x = p * q + r /\ r \in 0..(p - 1) /\ q \in Int
    BY Split, Zenon
  <2> HIDE DEF q, r
  <2> QED  BY <2>1
<1> HIDE DEF q, r
<1>2. PICK k \in Int : p = d * k
  BY DEF Multiple
<1>3. x = r + d * (k * q) /\ k * q \in Int
  <2> DEFINE t == p * q
             m == k * q
  <2>1. (d * k) * q = d * (k * q) /\ k * q \in Int /\ t \in Int
    BY <1>1, SMT
  <2>2. t = d * m /\ m \in Int
    BY <1>2, <2>1
  <2>3. x = t + r
    BY <1>1
  <2> HIDE DEF t
  <2>4. x = r + t
    BY <1>1, <2>1, <2>3
  <2> QED  BY <2>2, <2>4
<1>4. \E m \in Int : x = r + d * m
  BY <1>3
<1>5. x % d = r % d
  BY <1>1, <1>4, SameRemainder
<1> QED
  BY <1>5 DEF r

LEMMA WidthCases == Width \in {1, 2, 4, 8, 16, 32, 64}
<1>1. Width \in Nat \ {0} /\ 64 % Width = 0
  BY WidthAssumption
<1>2. Width \in 1..64
  <2>1. CASE Width > 64
    <3>1. 64 \in 0..(Width - 1)
      BY <1>1, <2>1
    <3>2. 64 % Width = 64
      BY <1>1, <3>1, OwnRemainder
    <3> QED  BY <1>1, <3>2
  <2> QED  BY <1>1, <2>1
<1> QED
  BY <1>1, <1>2, SMTT(30)

LEMMA WidthDivides == Multiple(64, Width) /\ Multiple(2^Width, Width)
<1>1. 64 = 1 * 64 /\ 64 = 2 * 32 /\ 64 = 4 * 16 /\ 64 = 8 * 8 /\ 64 = 16 * 4 /\ 64 = 32 * 2 /\ 64 = 64 * 1
  BY SMT
<1>2. Multiple(64, Width)
  BY <1>1, WidthCases, SMT DEF Multiple
<1>3. \A w \in {1, 2, 4, 8, 16, 32} : Multiple(2^w, w)
  <2>1. 2^1 = 1 * 2 /\ 2^2 = 2 * 2 /\ 2^4 = 4 * 4 /\ 2^8 = 8 * 32
    BY SMT
  <2>2. Multiple(2^1, 1) /\ Multiple(2^2, 2) /\ Multiple(2^4, 4) /\ Multiple(2^8, 8)
    BY <2>1 DEF Multiple
  <2>3. 2^16 = 16 * 4096 /\ 2^32 = 32 * 134217728
    BY SMT
  <2>4. Multiple(2^16, 16) /\ Multiple(2^32, 32)
    BY <2>3, SMT DEF Multiple
  <2> QED  BY <2>2, <2>4
<1>4. CASE Width = 64
  <2> DEFINE h == 2^32
             m == 67108864 * h
             p == 2^Width
  <2>1. h = 64 * 67108864
    BY SMT
  <2>2. 2^(32 + 32) = h * h /\ 32 + 32 = 64
    BY <1>4, PowersOfTwo
  <2> HIDE DEF h
  <2>3. p = h * h
    BY <1>4, <2>2
  <2> HIDE DEF p
  <2>4. h \in Int /\ h * h = 64 * m /\ m \in Int
    BY <2>1, SMT
  <2> HIDE DEF m
  <2>5. p = Width * m
    BY <1>4, <2>3, <2>4
  <2> QED  BY <1>2, <2>4, <2>5 DEF p, Multiple
<1>5. CASE Width # 64
  <2>1. Width \in {1, 2, 4, 8, 16, 32}
    BY <1>5, WidthCases
  <2> QED  BY <1>2, <1>3, <2>1
<1> QED
  BY <1>4, <1>5

\* a shift looks at its second operand modulo the width
LEMMA ShiftOperand ==
  ASSUME NEW signal \in {"kSll", "kSrl", "kSra"}, NEW x, NEW y, NEW z, y % Width = z % Width
  PROVE  execute(signal, x, y) = execute(signal, x, z)
BY DEF execute

\* the immediate of a shift: only its low six bits are the shift amount
LEMMA ShiftAmount ==
  ASSUME NEW i \in Int, NEW j \in Int, i % 64 = j % 64
  PROVE  (i % 2^Width) % Width = (j % 2^Width) % Width
<1> DEFINE p == 2^Width
<1>1. p \in Nat \ {0} /\ Width \in Nat \ {0} /\ Multiple(p, Width) /\ Multiple(64, Width)
  BY Powers, WidthAssumption, WidthDivides
<1> HIDE DEF p
<1>2. (i % p) % Width = i % Width /\ (j % p) % Width = j % Width
  BY <1>1, DivisorModulo
<1>3. (i % 64) % Width = i % Width /\ (j % 64) % Width = j % Width
  <2>1. 64 \in Nat \ {0}
    BY SMT
  <2> QED  BY <1>1, <2>1, DivisorModulo
<1> QED
  BY <1>2, <1>3 DEF p

----------------------------------------------------------------------------
(* The opcode of a word *)

LEMMA RegisterOpcodes ==
  ASSUME NEW u
  PROVE  LET c == generateMachineCode(u).opcode IN
         /\ u.op \in RTypeInstructions => c \in {OP, OP32}
         /\ u.op \in I1TypeInstructions => c \in {OP_IMM, OP_IMM32, LOAD, JALR}
         /\ u.op \in I2TypeInstructions => c \in {OP_IMM, OP_IMM32}
<1> DEFINE c == generateMachineCode(u).opcode
<1>1. ASSUME u.op \in RTypeInstructions
      PROVE  c \in {OP, OP32}
  <2>1. c = R_type_instruction_encoding_map[u.op].opcode
    BY <1>1, RFormat DEF generateRType, Pack
  <2> QED  BY <1>1, <2>1, RegisterRows
<1>2. ASSUME u.op \in I1TypeInstructions
      PROVE  c \in {OP_IMM, OP_IMM32, LOAD, JALR}
  <2>1. c = I1_type_instruction_encoding_map[u.op].opcode
    BY <1>2, I1Format DEF generateI1Type, Pack
  <2> HIDE DEF c
  <2> QED
    BY <1>2, <2>1, SMTT(30) DEF I1TypeInstructions, I1_type_instruction_encoding_map, Enc,
       OP_IMM, OP_IMM32, LOAD, JALR
<1>3. ASSUME u.op \in I2TypeInstructions
      PROVE  c \in {OP_IMM, OP_IMM32}
  <2>1. c = I2_type_instruction_encoding_map[u.op].opcode
    BY <1>3, I2Format DEF generateI2Type, Pack
  <2> HIDE DEF c
  <2> QED
    BY <1>3, <2>1, SMTT(30) DEF I2TypeInstructions, I2_type_instruction_encoding_map, Enc,
       OP_IMM, OP_IMM32
<1> QED
  BY <1>1, <1>2, <1>3

LEMMA OtherOpcodes ==
  ASSUME NEW u
  PROVE  LET c == generateMachineCode(u).opcode IN
         /\ u.op \in STypeInstructions => c = STORE
         /\ u.op \in BTypeInstructions => c = BRANCH
         /\ u.op \in UTypeInstructions => c = IF u.op = "lui" THEN LUI ELSE AUIPC
         /\ u.op \in JTypeInstructions => c = JAL
         /\ u.op \in I3TypeInstructions \cup CSRRInstructions \cup CSRIInstructions => c = SYSTEM
<1> DEFINE c == generateMachineCode(u).opcode
<1>1. ASSUME u.op \in STypeInstructions
      PROVE  c = STORE
  <2>1. c = S_type_instruction_encoding_map[u.op].opcode
    BY <1>1, SFormat DEF generateSType, Pack
  <2> HIDE DEF c
  <2> QED  BY <1>1, <2>1, SMTT(30) DEF STypeInstructions, S_type_instruction_encoding_map, Enc
<1>2. ASSUME u.op \in BTypeInstructions
      PROVE  c = BRANCH
  <2>1. c = B_type_instruction_encoding_map[u.op].opcode
    BY <1>2, BFormat DEF generateBType, Pack
  <2> HIDE DEF c
  <2> QED  BY <1>2, <2>1, SMTT(30) DEF BTypeInstructions, B_type_instruction_encoding_map, Enc
<1>3. ASSUME u.op \in UTypeInstructions
      PROVE  c = IF u.op = "lui" THEN LUI ELSE AUIPC
  <2>1. c = U_type_instruction_encoding_map[u.op].opcode
    BY <1>3, UFormat DEF generateUType, Pack
  <2> HIDE DEF c
  <2> QED  BY <1>3, <2>1, SMTT(30) DEF UTypeInstructions, U_type_instruction_encoding_map, Enc
<1>4. ASSUME u.op \in JTypeInstructions
      PROVE  c = JAL
  <2>1. c = J_type_instruction_encoding_map[u.op].opcode
    BY <1>4, JFormat DEF generateJType, Pack
  <2> HIDE DEF c
  <2> QED  BY <1>4, <2>1, SMTT(30) DEF JTypeInstructions, J_type_instruction_encoding_map, Enc
<1>5. ASSUME u.op \in I3TypeInstructions
      PROVE  c = SYSTEM
  <2>1. c = I3_type_instruction_encoding_map[u.op].opcode
    BY <1>5, I3Format DEF generateI3Type, Pack
  <2> HIDE DEF c
  <2> QED  BY <1>5, <2>1, SMTT(30) DEF I3TypeInstructions, I3_type_instruction_encoding_map, Enc
<1>6. ASSUME u.op \in CSRRInstructions
      PROVE  c = SYSTEM
  <2>1. c = CSR_R_type_instruction_encoding_map[u.op].opcode
    BY <1>6, CSRRFormat DEF generateCSRType, Pack
  <2> HIDE DEF c
  <2> QED  BY <1>6, <2>1, SMTT(30) DEF CSRRInstructions, CSR_R_type_instruction_encoding_map, Enc
<1>7. ASSUME u.op \in CSRIInstructions
      PROVE  c = SYSTEM
  <2>1. c = CSR_I_type_instruction_encoding_map[u.op].opcode
    BY <1>7, CSRIFormat DEF generateCSRType, Pack
  <2> HIDE DEF c
  <2> QED  BY <1>7, <2>1, SMTT(30) DEF CSRIInstructions, CSR_I_type_instruction_encoding_map, Enc
<1> QED
  BY <1>1, <1>2, <1>3, <1>4, <1>5, <1>6, <1>7

LEMMA FloatOpcodes ==
  ASSUME NEW u
  PROVE  LET w == generateMachineCode(u) IN
         /\ u.op \in FDExtensionRTypeInstructions \cup FDExtensionR1TypeInstructions
                     \cup FDExtensionR2TypeInstructions => w.opcode = OP_FP
         /\ u.op \in FDExtensionR3TypeInstructions \cap DOMAIN F_D_R3_type_instruction_encoding_map
              => w.opcode = OP_FP
         /\ u.op \in FDExtensionR4TypeInstructions => w.opcode \in {MADD, MSUB, NMSUB, NMADD}
         /\ u.op \in FDExtensionITypeInstructions => w.opcode = LOAD_FP /\ w.funct3 \in {2, 3}
         /\ u.op \in FDExtensionSTypeInstructions => w.opcode = STORE_FP /\ w.funct3 \in {2, 3}
<1> DEFINE w == generateMachineCode(u)
           c == w.opcode
           t == w.funct3
<1>1. ASSUME u.op \in FDExtensionRTypeInstructions
      PROVE  c = OP_FP
  <2>1. c = F_D_R_type_instruction_encoding_map[u.op].opcode
    BY <1>1, FDRFormat DEF generateRType, Pack
  <2> HIDE DEF c
  <2> QED  BY <1>1, <2>1, SMTT(30) DEF FDExtensionRTypeInstructions,
              F_D_R_type_instruction_encoding_map, Enc
<1>2. ASSUME u.op \in FDExtensionR1TypeInstructions
      PROVE  c = OP_FP
  <2>1. c = F_D_R1_type_instruction_encoding_map[u.op].opcode
    BY <1>2, FDR1Format DEF generateFDR1Type, Pack
  <2> HIDE DEF c
  <2> QED  BY <1>2, <2>1, SMTT(30) DEF FDExtensionR1TypeInstructions,
              F_D_R1_type_instruction_encoding_map, EncFP
<1>3. ASSUME u.op \in FDExtensionR2TypeInstructions
      PROVE  c = OP_FP
  <2>1. c = F_D_R2_type_instruction_encoding_map[u.op].opcode
    BY <1>3, FDR2Format DEF generateFDR2Type, Pack
  <2> HIDE DEF c
  <2> QED  BY <1>3, <2>1, SMTT(30) DEF FDExtensionR2TypeInstructions,
              F_D_R2_type_instruction_encoding_map, EncFP
<1>4. ASSUME u.op \in FDExtensionR3TypeInstructions \cap DOMAIN F_D_R3_type_instruction_encoding_map
      PROVE  c = OP_FP
  <2>1. c = F_D_R3_type_instruction_encoding_map[u.op].opcode
    BY <1>4, FDR3Format DEF generateFDR3Type, Pack
  <2> HIDE DEF c
  <2> QED  BY <1>4, <2>1, SMTT(30) DEF F_D_R3_type_instruction_encoding_map, EncFP
<1>5. ASSUME u.op \in FDExtensionR4TypeInstructions
      PROVE  c \in {MADD, MSUB, NMSUB, NMADD}
  <2>1. c = F_D_R4_type_instruction_encoding_map[u.op].opcode
    BY <1>5, FDR4Format DEF generateFDR4Type, Pack
  <2> HIDE DEF c
  <2> QED  BY <1>5, <2>1, SMTT(30) DEF FDExtensionR4TypeInstructions,
              F_D_R4_type_instruction_encoding_map, Enc
<1>6. ASSUME u.op \in FDExtensionITypeInstructions
      PROVE  c = LOAD_FP /\ t \in {2, 3}
  <2>1. /\ c = F_D_I_type_instruction_encoding_map[u.op].opcode
        /\ t = F_D_I_type_instruction_encoding_map[u.op].funct3
    BY <1>6, FDIFormat DEF generateI1Type, Pack
  <2> HIDE DEF c, t
  <2> QED  BY <1>6, <2>1, SMTT(30) DEF FDExtensionITypeInstructions,
              F_D_I_type_instruction_encoding_map, Enc
<1>7. ASSUME u.op \in FDExtensionSTypeInstructions
      PROVE  c = STORE_FP /\ t \in {2, 3}
  <2>1. /\ c = F_D_S_type_instruction_encoding_map[u.op].opcode
        /\ t = F_D_S_type_instruction_encoding_map[u.op].funct3
    BY <1>7, FDSFormat DEF generateSType, Pack
  <2> HIDE DEF c, t
  <2> QED  BY <1>7, <2>1, SMTT(30) DEF FDExtensionSTypeInstructions,
              F_D_S_type_instruction_encoding_map, Enc
<1> QED
  BY <1>1, <1>2, <1>3, <1>4, <1>5, <1>6, <1>7

\* only these formats have an opcode of the ALU
LEMMA ArithmeticFormats ==
  ASSUME NEW u, Accepted(u), generateMachineCode(u).opcode \in {OP, OP_IMM, OP32}
  PROVE  u.op \in RTypeInstructions \cup I1TypeInstructions \cup I2TypeInstructions
<1> DEFINE c == generateMachineCode(u).opcode
<1>1. u.op \in MachineInstructions
  BY SMT DEF Accepted, UnitType
<1>2. generateMachineCode(u) # InvalidInstructionType
  <2>1. InvalidInstructionType.opcode = 0
    BY DEF InvalidInstructionType, Pack
  <2> QED  BY <2>1, SMT DEF OP, OP_IMM, OP32
<1>3. c \notin {STORE, BRANCH, LUI, AUIPC, JAL, SYSTEM, OP_FP, MADD, MSUB, NMSUB, NMADD, LOAD_FP, STORE_FP}
  <2> HIDE DEF c
  <2>1. c \in {OP, OP_IMM, OP32}
    BY DEF c
  <2> QED  BY <2>1, SMT DEF OP, OP_IMM, OP32, STORE, BRANCH, LUI, AUIPC, JAL, SYSTEM, OP_FP,
              MADD, MSUB, NMSUB, NMADD, LOAD_FP, STORE_FP
<1>4. /\ u.op \notin STypeInstructions \cup BTypeInstructions \cup UTypeInstructions \cup JTypeInstructions
      /\ u.op \notin I3TypeInstructions \cup CSRRInstructions \cup CSRIInstructions
  BY <1>3, OtherOpcodes
<1>5. /\ u.op \notin FDExtensionRTypeInstructions \cup FDExtensionR1TypeInstructions
                     \cup FDExtensionR2TypeInstructions
      /\ u.op \notin FDExtensionR3TypeInstructions \cap DOMAIN F_D_R3_type_instruction_encoding_map
      /\ u.op \notin FDExtensionR4TypeInstructions \cup FDExtensionITypeInstructions
                     \cup FDExtensionSTypeInstructions
  BY <1>3, FloatOpcodes
<1> QED
  BY <1>1, <1>2, <1>4, <1>5, EveryFormat, SMT

\* the operand the ALU gets for an immediate does what the immediate itself would
LEMMA SecondOperand ==
  ASSUME NEW u, Accepted(u), u.op \in I1TypeInstructions \cup I2TypeInstructions,
         generateMachineCode(u).opcode = OP_IMM, NEW x \in Value
  PROVE  LET w == generateMachineCode(u)
             y == u.imm % 2^Width
         IN  /\ execute(SignalOf[u.op], x, Unsigned(ImmGenerator(w), Width)) = execute(SignalOf[u.op], x, y)
             /\ y \in Value
<1> DEFINE w == generateMachineCode(u)
           i == ImmGenerator(w)
<1>1. u.op \notin WithoutImmediate
  BY ImmediateSignal
<1>2. ImmediateOf(u, w)
  <2>1. OP_IMM # 0 /\ InvalidInstructionType.opcode = 0
    BY SMT DEF OP_IMM, InvalidInstructionType, Pack
  <2> QED  BY <1>1, <2>1, EveryCarried DEF Carried
<1>3. u.imm \in Int
  BY UnitFields
<1>4. u.imm % 2^Width \in Value
  <2> DEFINE p == 2^Width
  <2>1. p \in Nat \ {0}
    BY Powers
  <2> HIDE DEF p
  <2>2. u.imm % p \in 0..(p - 1)
    BY <1>3, <2>1, Split
  <2> QED  BY <2>2 DEF p, Value
<1>5. CASE u.op \in I1TypeInstructions
  <2>1. i = u.imm
    BY <1>2, <1>5, PlainOperand DEF ImmediateOf, UsesImm
  <2> QED  BY <1>4, <2>1 DEF Unsigned
<1>6. CASE u.op \in I2TypeInstructions
  <2>1. i % 64 = u.imm
    BY <1>2, <1>6 DEF ImmediateOf
  <2>2. 0 <= u.imm /\ u.imm < 32
    BY <1>6, I2Format DEF Accepted
  <2>3. u.imm % 64 = u.imm
    BY <1>3, <2>2, SMT
  <2>4. i = ImmI(w) /\ ImmI(w) \in Int
    <3>1. w \in Word
      BY EveryCarried, InvalidIsWord DEF Carried
    <3>2. w.funct7 \in Int /\ w.rs2 \in Int
      BY <3>1, SMT DEF Word, Reg
    <3>3. ImmI(w) \in Int
      BY <3>2, SMT DEF ImmI, sign_extend
    <3>4. w.opcode = 19
      BY SMT DEF OP_IMM
    <3> QED  BY <3>3, <3>4, ImmediateCases
  <2>5. (i % 2^Width) % Width = (u.imm % 2^Width) % Width
    <3> HIDE DEF i
    <3> QED  BY <1>3, <2>1, <2>3, <2>4, ShiftAmount
  <2>6. u.op \in {"slli", "srli", "srai"}
    <3>1. w.opcode = I2_type_instruction_encoding_map[u.op].opcode
      BY <1>6, I2Format DEF generateI2Type, Pack
    <3> QED  BY <1>6, <3>1, ImmediateRows
  <2>7. SignalOf[u.op] \in {"kSll", "kSrl", "kSra"}
    BY <2>6 DEF SignalOf
  <2> QED  BY <1>4, <2>5, <2>7, ShiftOperand DEF Unsigned
<1> QED
  BY <1>5, <1>6

(***************************************************************************)
(* For registers of any width, any contents and any immediate, the         *)
(* operation that the control unit selects computes what the mnemonic      *)
(* stands for.                                                             *)
(***************************************************************************)
LEMMA EveryMeaning ==
  ASSUME NEW u, Accepted(u), NEW x \in Value, NEW y \in Value,
         generateMachineCode(u).opcode \in {OP, OP_IMM, OP32},
         ~DivisionEdge(u.op, x, IF Immediate(u.op) THEN u.imm % 2^Width ELSE y)
  PROVE  AluResults(generateMachineCode(u), x, y)
           = {Meant(u.op, x, IF Immediate(u.op) THEN u.imm % 2^Width ELSE y)}
<1> DEFINE w == generateMachineCode(u)
           second == IF AluSrc(w) THEN Unsigned(ImmGenerator(w), Width) ELSE y
<1>1. AluResults(w, x, y) = execute(GetAluSignal(w), x, second)
  <2>1. w.opcode \notin {LOAD, STORE}
    BY SMT DEF OP, OP_IMM, OP32, LOAD, STORE
  <2> QED  BY <2>1 DEF AluResults
<1>2. CASE u.op \in RTypeInstructions
  <2>1. ~Immediate(u.op)
    BY <1>2, I1Apart, I2Apart DEF Immediate
  <2>2. u.op \in DOMAIN SignalOf /\ GetAluSignal(w) = SignalOf[u.op] /\ w.opcode \in {OP, OP32}
    BY <1>2, RegisterSignal
  <2>3. ~AluSrc(w)
    BY <2>2, SMT DEF AluSrc, OP, OP32, LOAD, STORE, OP_IMM, LUI, AUIPC, JALR, LOAD_FP, STORE_FP
  <2> QED  BY <1>1, <2>1, <2>2, <2>3, EverySignal
<1>3. CASE u.op \in I1TypeInstructions \cup I2TypeInstructions
  <2>1. Immediate(u.op)
    BY <1>3 DEF Immediate
  <2>2. w.opcode = OP_IMM
    <3>1. w.opcode \in {OP_IMM, OP_IMM32, LOAD, JALR}
      BY <1>3, RegisterOpcodes
    <3> QED  BY <3>1, SMT DEF OP, OP_IMM, OP32, OP_IMM32, LOAD, JALR
  <2>3. u.op \in DOMAIN SignalOf /\ GetAluSignal(w) = SignalOf[u.op]
    BY <1>3, <2>2, ImmediateSignal
  <2>4. AluSrc(w)
    BY <2>2 DEF AluSrc
  <2>5. /\ execute(SignalOf[u.op], x, Unsigned(ImmGenerator(w), Width))
             = execute(SignalOf[u.op], x, u.imm % 2^Width)
        /\ u.imm % 2^Width \in Value
    BY <1>3, <2>2, SecondOperand
  <2> QED  BY <1>1, <2>1, <2>3, <2>4, <2>5, EverySignal
<1> QED
  BY <1>2, <1>3, ArithmeticFormats

(***************************************************************************)
(* An accepted arithmetic statement leaves in the ALU what its mnemonic    *)
(* means, whatever the width, the registers and the immediate, but at the  *)
(* divisions that DivisionEdge names.                                      *)
(***************************************************************************)
THEOREM AluAlwaysComputesTheMeaning == Spec => []AluComputesTheMeaning
<1>1. WordInv => AluComputesTheMeaning
  <2> SUFFICES ASSUME WordInv, stage = "executed", word.opcode \in {OP, OP_IMM, OP32},
                      ~DivisionEdge(unit.op, a, IF Immediate(unit.op) THEN unit.imm % 2^Width ELSE b)
               PROVE  AluResults(word, a, b)
                        = {Meant(unit.op, a, IF Immediate(unit.op) THEN unit.imm % 2^Width ELSE b)}
    BY DEF AluComputesTheMeaning
  <2>1. Accepted(unit) /\ a \in Value /\ b \in Value /\ word = generateMachineCode(unit)
    BY DEF WordInv, Encoded
  <2> QED  BY <2>1, EveryMeaning
<1> QED  BY <1>1, AlwaysWord, PTL

----------------------------------------------------------------------------
(* The exception of the divider *)

\* what is cut to a width is a value, and no value is Trap
LEMMA NotTrap ==
  ASSUME NEW z \in Int
  PROVE  Unsigned(z, Width) # Trap /\ SignExtendHalf(z) # Trap
<1> DEFINE p == 2^Width
           s == Signed(z, Half)
<1>1. p \in Nat \ {0} /\ s \in Int
  BY Powers, SignedFacts, BothWidths
<1> HIDE DEF p, s
<1>2. z % p \in 0..(p - 1) /\ s % p \in 0..(p - 1)
  BY <1>1, Split
<1>3. z % p # -1 /\ s % p # -1
  BY <1>1, <1>2
<1> QED
  BY <1>3 DEF p, s, Unsigned, SignExtendHalf, Trap

LEMMA SumsDoNotTrap ==
  ASSUME NEW x \in Value, NEW y \in Value, NEW s \in {"kAdd", "kAddw", "kSub", "kSubw", "kMul", "kMulw"}
  PROVE  Trap \notin execute(s, x, y)
<1> DEFINE sa == Signed(x, Width)  sb == Signed(y, Width)
           wa == Signed(x, Half)   wb == Signed(y, Half)
<1>1. sa \in Int /\ sb \in Int /\ wa \in Int /\ wb \in Int
  BY Operand, BothWidths
<1>2. /\ execute("kAdd", x, y) = {Unsigned(sa + sb, Width)}
      /\ execute("kSub", x, y) = {Unsigned(sa - sb, Width)}
      /\ execute("kMul", x, y) = {Unsigned(sa * sb, Width)}
      /\ execute("kAddw", x, y) = {SignExtendHalf(wa + wb)}
      /\ execute("kSubw", x, y) = {SignExtendHalf(wa - wb)}
      /\ execute("kMulw", x, y) = {SignExtendHalf(wa * wb)}
  BY DEF execute
<1> HIDE DEF sa, sb, wa, wb
<1>3. /\ sa + sb \in Int /\ sa - sb \in Int /\ sa * sb \in Int
      /\ wa + wb \in Int /\ wa - wb \in Int /\ wa * wb \in Int
  BY <1>1, SMT
<1> QED
  BY <1>2, <1>3, NotTrap

LEMMA HighProductsDoNotTrap ==
  ASSUME NEW x \in Value, NEW y \in Value, NEW s \in {"kMulh", "kMulhsu", "kMulhu"}
  PROVE  Trap \notin execute(s, x, y)
<1> DEFINE sa == Signed(x, Width)  sb == Signed(y, Width)
           p == 2^Width
<1>1. sa \in Int /\ sb \in Int /\ x \in Int /\ y \in Int /\ p \in Nat \ {0}
  BY Operand, BothWidths
<1>2. /\ execute("kMulh", x, y) = {Unsigned((sa * sb) \div p, Width)}
      /\ execute("kMulhsu", x, y) = {Unsigned((sa * y) \div p, Width)}
      /\ execute("kMulhu", x, y) = {Unsigned((x * y) \div p, Width)}
  BY DEF execute
<1> HIDE DEF sa, sb, p
<1>3. sa * sb \in Int /\ sa * y \in Int /\ x * y \in Int
  BY <1>1, SMT
<1>4. (sa * sb) \div p \in Int /\ (sa * y) \div p \in Int /\ (x * y) \div p \in Int
  BY <1>1, <1>3, Split
<1> QED
  BY <1>2, <1>4, NotTrap

LEMMA LogicDoesNotTrap ==
  ASSUME NEW x \in Value, NEW y \in Value, NEW s \in {"kAnd", "kOr", "kXor", "kSlt", "kSltu"}
  PROVE  Trap \notin execute(s, x, y)
<1> DEFINE c == OneBits(x) \cap OneBits(y)
           d == OneBits(x) \cup OneBits(y)
           e == SymDiff(OneBits(x), OneBits(y))
<1>1. /\ execute("kAnd", x, y) = {OfBits(c)}
      /\ execute("kOr", x, y) = {OfBits(d)}
      /\ execute("kXor", x, y) = {OfBits(e)}
  BY DEF execute
<1>2. /\ c \in SUBSET (0..(Width - 1)) /\ d \in SUBSET (0..(Width - 1))
      /\ e \in SUBSET (0..(Width - 1))
  BY DEF OneBits, SymDiff
<1>3. \A v \in Value : v # Trap
  <2>1. \A v \in Nat : v # -1
    BY SMT
  <2> QED  BY <2>1, Powers DEF Value, Trap
<1> HIDE DEF c, d, e
<1>4. OfBits(c) # Trap /\ OfBits(d) # Trap /\ OfBits(e) # Trap
  BY <1>2, <1>3, EveryBits
<1>5. execute("kSlt", x, y) \subseteq {0, 1} /\ execute("kSltu", x, y) \subseteq {0, 1}
  BY DEF execute
<1>6. Trap \notin {0, 1}
  BY SMT DEF Trap
<1> QED
  BY <1>1, <1>4, <1>5, <1>6

LEMMA ShiftsDoNotTrap ==
  ASSUME NEW x \in Value, NEW y \in Value,
         NEW s \in {"kSll", "kSllw", "kSrl", "kSrlw", "kSra", "kSraw"}
  PROVE  Trap \notin execute(s, x, y)
<1> DEFINE sa == Signed(x, Width)
           wa == Signed(x, Half)
           ua == x % 2^Half
           d == 2^(y % Width)
           e == 2^(y % Half)
<1>1. /\ sa \in Int /\ wa \in Int /\ ua \in Int /\ x \in Int /\ x >= 0
      /\ d \in Nat \ {0} /\ e \in Nat \ {0}
  <2>1. x >= 0
    BY Powers DEF Value
  <2> QED  BY <2>1, Operand, BothWidths, ShiftPower
<1>2. /\ execute("kSll", x, y) = {Unsigned(x * d, Width)}
      /\ execute("kSllw", x, y) = {SignExtendHalf(ua * e)}
      /\ execute("kSrl", x, y) = {x \div d}
      /\ execute("kSrlw", x, y) = {SignExtendHalf(ua \div e)}
      /\ execute("kSra", x, y) = {Unsigned(sa \div d, Width)}
      /\ execute("kSraw", x, y) = {SignExtendHalf(wa \div e)}
  BY DEF execute, Unsigned
<1> HIDE DEF sa, wa, ua, d, e
<1>3. x * d \in Int /\ ua * e \in Int
  BY <1>1, SMT
<1>4. ua \div e \in Int /\ sa \div d \in Int /\ wa \div e \in Int /\ x \div d \in Int
  BY <1>1, Split
<1>5. x \div d # Trap
  <2>1. x + 1 \in Nat /\ -(x + 1) <= x /\ x < x + 1
    BY <1>1
  <2>2. x \div d >= 0
    BY <1>1, <2>1, QuotientBounds
  <2> DEFINE q == x \div d
  <2>3. q \in Int /\ q >= 0
    BY <1>4, <2>2
  <2> HIDE DEF q
  <2> QED  BY <2>3 DEF q, Trap
<1> QED
  BY <1>2, <1>3, <1>4, <1>5, NotTrap

\* the divisor whose signed value is -1 has all bits of its lower half set
LEMMA MinusOne ==
  ASSUME NEW y \in Value, NEW n \in Bitwidths, Signed(y, n) = -1
  PROVE  y % 2^Half = 2^Half - 1
<1> DEFINE p == 2^n
           t == 2^Half
<1>1. p \in Nat \ {0} /\ t \in Nat \ {0} /\ y \in Int
  BY Operand, BothWidths
<1>2. Multiple(p, t)
  <2>1. Multiple(2^Width, t)
    BY Powers DEF Multiple
  <2>2. t = t * 1
    BY <1>1
  <2>3. Multiple(t, t)
    <3> HIDE DEF t
    <3> QED  BY <2>2 DEF Multiple
  <2> QED  BY <2>1, <2>3 DEF Bitwidths
<1>3. y % p = (-1) % p
  BY Operand
<1> HIDE DEF p, t
<1>4. (y % p) % t = y % t /\ ((-1) % p) % t = (-1) % t
  <2>1. -1 \in Int
    BY SMT
  <2> QED  BY <1>1, <1>2, <2>1, DivisorModulo
<1>5. (-1) % t = t - 1
  <2>1. t * (-1) + (t - 1) = -1 /\ t - 1 \in 0..(t - 1) /\ -1 \in Int
    BY <1>1
  <2> DEFINE r == t - 1
             m == -1
  <2>2. r \in 0..(t - 1) /\ m \in Int /\ t * m + r = -1
    BY <2>1
  <2> HIDE DEF r, m
  <2>3. (t * m + r) % t = r
    BY <1>1, <2>2, Join
  <2> QED  BY <2>2, <2>3 DEF r
<1> QED
  BY <1>3, <1>4, <1>5 DEF t

LEMMA QuotientsDoNotTrap ==
  ASSUME NEW x \in Value, NEW y \in Value, NEW s \in {"kDiv", "kDivw", "kDivu", "kRemu"}
  PROVE  Trap \notin execute(s, x, y)
<1> DEFINE sa == Signed(x, Width)  sb == Signed(y, Width)
           wa == Signed(x, Half)   wb == Signed(y, Half)
<1>1. /\ sa \in Int /\ sb \in Int /\ wa \in Int /\ wb \in Int
      /\ x \in Int /\ x >= 0 /\ y \in Int /\ y >= 0
  <2>1. x >= 0 /\ y >= 0
    BY Powers DEF Value
  <2> QED  BY <2>1, Operand, BothWidths
<1>2. /\ execute("kDiv", x, y) = {Unsigned(DivideSigned(sa, sb, Width), Width)}
      /\ execute("kDivw", x, y) = {SignExtendHalf(DivideSigned(wa, wb, Half))}
      /\ execute("kDivu", x, y) = IF y = 0 THEN {0} ELSE {x \div y}
      /\ execute("kRemu", x, y) = IF y = 0 THEN {0} ELSE {x % y}
  BY DEF execute, DivideUnsigned
<1> HIDE DEF sa, sb, wa, wb
<1>3. ASSUME NEW v \in Int, NEW d \in Int, NEW n \in Bitwidths
      PROVE  DivideSigned(v, d, n) \in Int
  <2> DEFINE h == 2^(n - 1)
  <2>1. h \in Nat
    BY PowersOf
  <2>2. d # 0 => Quotient(v, d) \in Int
    BY QuotientDivides
  <2>3. DivideSigned(v, d, n) \in {0, v, h - 1, Quotient(v, d)} /\ (d = 0 => DivideSigned(v, d, n) = 0)
    BY DEF DivideSigned
  <2> HIDE DEF h
  <2>4. 0 \in Int /\ h - 1 \in Int
    BY <2>1
  <2> QED  BY <2>2, <2>3, <2>4
<1>4. DivideSigned(sa, sb, Width) \in Int /\ DivideSigned(wa, wb, Half) \in Int
  BY <1>1, <1>3, BothWidths
<1>5. ASSUME y # 0
      PROVE  x \div y # Trap /\ x % y # Trap
  <2>1. x + 1 \in Nat /\ -(x + 1) <= x /\ x < x + 1 /\ y \in Nat \ {0}
    BY <1>1, <1>5
  <2> DEFINE q == x \div y
             r == x % y
  <2>2. q \in Int /\ q >= 0
    BY <1>1, <2>1, QuotientBounds
  <2>3. r \in 0..(y - 1)
    BY <1>1, <2>1, Split
  <2> HIDE DEF q, r
  <2>4. q # -1 /\ r # -1
    BY <1>1, <2>2, <2>3
  <2> QED  BY <2>4 DEF q, r, Trap
<1>6. 0 # Trap
  BY SMT DEF Trap
<1> QED
  BY <1>2, <1>4, <1>5, <1>6, NotTrap

\* where the code divides without looking at the divisor
LEMMA RemaindersTrap ==
  ASSUME NEW x \in Value, NEW y \in Value, NEW s \in {"kRem", "kRemw", "kDivuw", "kRemuw"},
         Trap \in execute(s, x, y)
  PROVE  y % 2^Half \in {0, 2^Half - 1}
<1> DEFINE sa == Signed(x, Width)  sb == Signed(y, Width)
           wa == Signed(x, Half)   wb == Signed(y, Half)
           t == 2^Half
           ua == x % t  ub == y % t
<1>1. /\ sa \in Int /\ sb \in Int /\ wa \in Int /\ wb \in Int
      /\ t \in Nat \ {0} /\ x \in Int /\ y \in Int
      /\ ua \in Int /\ ub \in Int
  BY Operand, BothWidths
<1>2. 0 # Trap
  BY SMT DEF Trap
<1>3. wb = 0 => ub = 0
  <2>1. wb % t = ub
    BY Operand, BothWidths
  <2>2. 0 % t = 0
    <3> HIDE DEF t
    <3>1. 0 \in 0..(t - 1)
      BY <1>1
    <3> QED  BY <1>1, <3>1, OwnRemainder
  <2> QED  BY <2>1, <2>2
<1>4. CASE s = "kRem"
  <2>1. execute(s, x, y) = IF y = 0 THEN {0}
                           ELSE IF sa = Smallest(Width) /\ sb = -1 THEN {Trap, 0}
                           ELSE {Unsigned(Remainder(sa, sb), Width)}
    BY <1>4 DEF execute
  <2>2. ASSUME sb # 0
        PROVE  Unsigned(Remainder(sa, sb), Width) # Trap
    <3> HIDE DEF sa, sb
    <3>1. Quotient(sa, sb) \in Int
      BY <1>1, <2>2, QuotientDivides
    <3>2. Remainder(sa, sb) \in Int
      <4> DEFINE q == Quotient(sa, sb)
      <4>1. q \in Int
        BY <3>1
      <4> HIDE DEF q
      <4>2. sa - sb * q \in Int
        BY <1>1, <4>1, SMT
      <4> QED  BY <4>2 DEF q, Remainder
    <3> QED  BY <3>2, NotTrap
  <2>3. y # 0 => sb # 0
    <3>1. y % 2^Width = y /\ sb % 2^Width = y % 2^Width
      BY ValueNotZero, Operand, BothWidths
    <3>2. 0 % 2^Width = 0
      <4> DEFINE p == 2^Width
      <4>1. p \in Nat \ {0} /\ 0 \in 0..(p - 1)
        BY Powers
      <4> HIDE DEF p
      <4>2. 0 % p = 0
        BY <4>1, OwnRemainder
      <4> QED  BY <4>2 DEF p
    <3> QED  BY <3>1, <3>2
  <2>4. sb = -1
    <3> HIDE DEF sa, sb
    <3> QED  BY <1>2, <2>1, <2>2, <2>3
  <2> QED  BY <2>4, MinusOne, BothWidths
<1>5. CASE s = "kRemw"
  <2>1. execute(s, x, y) = IF y = 0 THEN {0}
                           ELSE IF wb = 0 THEN {Trap, SignExtendHalf(wa)}
                           ELSE IF wa = Smallest(Half) /\ wb = -1 THEN {Trap, 0}
                           ELSE {SignExtendHalf(Remainder(wa, wb))}
    BY <1>5 DEF execute
  <2>2. ASSUME wb # 0
        PROVE  SignExtendHalf(Remainder(wa, wb)) # Trap
    <3> HIDE DEF wa, wb
    <3>1. Quotient(wa, wb) \in Int
      BY <1>1, <2>2, QuotientDivides
    <3>2. Remainder(wa, wb) \in Int
      <4> DEFINE q == Quotient(wa, wb)
      <4>1. q \in Int
        BY <3>1
      <4> HIDE DEF q
      <4>2. wa - wb * q \in Int
        BY <1>1, <4>1, SMT
      <4> QED  BY <4>2 DEF q, Remainder
    <3> QED  BY <3>2, NotTrap
  <2>3. wb = 0 \/ wb = -1
    <3> HIDE DEF wa, wb
    <3> QED  BY <1>2, <2>1, <2>2
  <2> QED  BY <1>3, <2>3, MinusOne, BothWidths
<1>6. CASE s \in {"kDivuw", "kRemuw"}
  <2>1. /\ s = "kDivuw" => execute(s, x, y) = IF y = 0 THEN {0}
                             ELSE IF ub = 0 THEN {Trap, 0} ELSE {ua \div ub}
        /\ s = "kRemuw" => execute(s, x, y) = IF y = 0 THEN {0}
                             ELSE IF ub = 0 THEN {Trap, ua} ELSE {ua % ub}
    BY <1>6 DEF execute, Unsigned
  <2>2. ASSUME ub # 0
        PROVE  ua \div ub # Trap /\ ua % ub # Trap
    <3>1. ua \in 0..(t - 1) /\ ub \in 0..(t - 1)
      <4> HIDE DEF t
      <4> QED  BY <1>1, Split
    <3> HIDE DEF t, ua, ub
    <3>2. ua \in Int /\ ua + 1 \in Nat /\ -(ua + 1) <= ua /\ ua < ua + 1 /\ ua >= 0 /\ ub \in Nat \ {0}
      BY <1>1, <2>2, <3>1
    <3> DEFINE q == ua \div ub
               r == ua % ub
    <3>3. q \in Int /\ q >= 0
      BY <3>2, QuotientBounds
    <3>4. r \in 0..(ub - 1)
      BY <3>2, Split
    <3> HIDE DEF q, r
    <3>5. q # -1 /\ r # -1
      BY <3>2, <3>3, <3>4
    <3> QED  BY <3>5 DEF q, r, Trap
  <2>3. ub = 0
    <3> HIDE DEF ua, ub
    <3> QED  BY <1>2, <1>6, <2>1, <2>2
  <2> QED  BY <2>3
<1> QED
  BY <1>4, <1>5, <1>6

\* whatever the signal, an exception is that of a division by 0 or -1
LEMMA OnlyTheseTrap ==
  ASSUME NEW x \in Value, NEW y \in Value, NEW s, Trap \in execute(s, x, y)
  PROVE  s \in {"kRem", "kRemw", "kDivuw", "kRemuw"} /\ y % 2^Half \in {0, 2^Half - 1}
<1> DEFINE Signals ==
            {"kAdd", "kAddw", "kSub", "kSubw", "kMul", "kMulw", "kMulh", "kMulhsu", "kMulhu",
             "kAnd", "kOr", "kXor", "kSlt", "kSltu", "kSll", "kSllw", "kSrl", "kSrlw", "kSra",
             "kSraw", "kDiv", "kDivw", "kDivu", "kRemu", "kRem", "kRemw", "kDivuw", "kRemuw"}
<1>1. s \notin Signals => execute(s, x, y) = {0}
  BY DEF execute
<1>2. 0 # Trap
  BY SMT DEF Trap
<1> QED
  BY <1>1, <1>2, SumsDoNotTrap, HighProductsDoNotTrap, LogicDoesNotTrap, ShiftsDoNotTrap,
     QuotientsDoNotTrap, RemaindersTrap

Trapping == {"kRem", "kRemw", "kDivuw", "kRemuw"}

\* a table gives one of its signals, or none
LEMMA SelectRange ==
  ASSUME NEW rows, NEW key
  PROVE  Select(rows, key) = "kNone" \/ \E r \in rows : Select(rows, key) = r[2]
BY DEF Select

\* outside the register operations no table holds a division that may trap
LEMMA OtherSignals ==
  ASSUME NEW w, w.opcode \notin {OP, OP_IMM, OP32, OP_FP}
  PROVE  GetAluSignal(w) \notin Trapping
<1>1. \A r \in BranchSignals : r[2] \notin Trapping
  BY SMT DEF BranchSignals, Trapping
<1>2. \A r \in ImmediateSignals32 : r[2] \notin Trapping
  BY SMT DEF ImmediateSignals32, Trapping
<1>3. "kNone" \notin Trapping /\ "kAdd" \notin Trapping /\ "kFmadd_s" \notin Trapping
  BY DEF Trapping
<1>4. /\ Select(BranchSignals, w.funct3) \notin Trapping
      /\ Select(ImmediateSignals32, ImmediateKey(w)) \notin Trapping
  <2>1. Select(BranchSignals, w.funct3) \notin Trapping
    BY <1>1, <1>3, SelectRange
  <2>2. Select(ImmediateSignals32, ImmediateKey(w)) \notin Trapping
    BY <1>2, <1>3, SelectRange
  <2> QED  BY <2>1, <2>2
<1>5. GetAluSignal(w) \in {Select(BranchSignals, w.funct3), Select(ImmediateSignals32, ImmediateKey(w)),
                           "kNone", "kAdd", "kFmadd_s"}
  BY SMTT(30) DEF GetAluSignal, OP, OP32, OP_IMM, OP_IMM32, BRANCH, MADD, OP_FP, LOAD, STORE, JALR, JAL,
     LUI, AUIPC, LOAD_FP, STORE_FP
<1> QED
  BY <1>3, <1>4, <1>5

LEMMA ImmediateType ==
  ASSUME NEW w \in Word
  PROVE  ImmGenerator(w) \in Int
<1>1. w.funct7 \in Int /\ w.rs2 \in Int /\ w.rs1 \in Int /\ w.funct3 \in Int /\ w.rd \in Int
  BY SMT DEF Word, Reg
<1>2. \A n, s \in Int : sign_extend(n, s) \in Int
  BY SMT DEF sign_extend
<1>3. \A n \in Int : \A p, s \in {1, 2, 16, 64} : Bits(n, p, s) \in Int
  <2> SUFFICES ASSUME NEW n \in Int, NEW p \in {1, 2, 16, 64}, NEW s \in {1, 2, 16, 64}
               PROVE  Bits(n, p, s) \in Int
    OBVIOUS
  <2>1. p \in Nat \ {0} /\ s \in Nat \ {0}
    BY SMT
  <2>2. Bits(n, p, s) \in 0..(s - 1)
    BY <2>1, BitsType
  <2> QED  BY <2>1, <2>2
<1>4. ImmI(w) \in Int /\ ImmS(w) \in Int /\ ImmU(w) \in Int
  <2> DEFINE i == 32 * w.funct7 + w.rs2
             s == 32 * w.funct7 + w.rd
  <2>1. i \in Int /\ s \in Int /\ 4096 \in Int
    BY <1>1, SMT
  <2>2. ImmU(w) \in Int
    BY <1>1, SMT DEF ImmU, UpperImmediate
  <2>3. ImmI(w) = sign_extend(i, 4096) /\ ImmS(w) = sign_extend(s, 4096)
    BY DEF ImmI, ImmS
  <2> HIDE DEF i, s
  <2> QED  BY <1>2, <2>1, <2>2, <2>3
<1>5. ImmB(w) \in Int
  <2> DEFINE c == Bits(w.rd, 2, 16)
             d == Bits(w.funct7, 1, 64)
             e == Bits(w.rd, 1, 2)
             f == Bits(w.funct7, 64, 2)
  <2>1. c \in Int /\ d \in Int /\ e \in Int /\ f \in Int
    BY <1>1, <1>3
  <2>2. ImmB(w) = sign_extend(2 * (c + 16 * d + 1024 * e + 2048 * f), 8192)
    BY DEF ImmB
  <2> HIDE DEF c, d, e, f
  <2>3. 2 * (c + 16 * d + 1024 * e + 2048 * f) \in Int /\ 8192 \in Int
    BY <2>1, SMT
  <2> QED  BY <1>2, <2>2, <2>3
<1>6. ImmJ(w) \in Int
  <2> DEFINE c == Bits(w.funct7, 1, 64)
             d == Bits(w.rs2, 2, 16)
             e == Bits(w.rs2, 1, 2)
             f == Bits(w.funct7, 64, 2)
             n == 2 * (16 * c + d + 1024 * e + 2048 * (8 * w.rs1 + w.funct3) + 524288 * f)
  <2>1. c \in Int /\ d \in Int /\ e \in Int /\ f \in Int
    BY <1>1, <1>3
  <2>2. ImmJ(w) = sign_extend(n, 2097152)
    BY DEF ImmJ, JumpOffset
  <2> HIDE DEF c, d, e, f
  <2>3. n \in Int /\ 2097152 \in Int
    BY <1>1, <2>1, SMT
  <2> HIDE DEF n
  <2> QED  BY <1>2, <2>2, <2>3
<1>7. ImmGenerator(w) \in {ImmI(w), ImmS(w), ImmB(w), ImmU(w), ImmJ(w), 0}
  BY Zenon DEF ImmGenerator
<1> QED
  BY <1>4, <1>5, <1>6, <1>7, SMT

LEMMA UnsignedType ==
  ASSUME NEW z \in Int
  PROVE  Unsigned(z, Width) \in Value
<1> DEFINE p == 2^Width
<1>1. p \in Nat \ {0}
  BY Powers
<1> HIDE DEF p
<1>2. z % p \in 0..(p - 1)
  BY <1>1, Split
<1> QED
  BY <1>2 DEF p, Unsigned, Value

\* the machine traps in four instructions, for a divisor whose low half is 0 or -1
LEMMA OnlyFourTrap ==
  ASSUME NEW u, Accepted(u), NEW x \in Value, NEW y \in Value,
         generateMachineCode(u).opcode # OP_FP, Trap \in AluResults(generateMachineCode(u), x, y)
  PROVE  u.op \in {"rem", "remw", "divuw", "remuw"} /\ y % 2^Half \in {0, 2^Half - 1}
<1> DEFINE w == generateMachineCode(u)
           second == IF AluSrc(w) THEN Unsigned(ImmGenerator(w), Width) ELSE y
<1>1. w \in Word
  BY EveryCarried, InvalidIsWord DEF Carried
<1>2. ImmGenerator(w) \in Int
  BY <1>1, ImmediateType
<1>3. second \in Value
  BY <1>2, UnsignedType
<1>4. AluResults(w, x, y) = IF w.opcode \in {LOAD, STORE} THEN {Unsigned(x + ImmGenerator(w), Width)}
                            ELSE execute(GetAluSignal(w), x, second)
  BY DEF AluResults
<1>5. Unsigned(x + ImmGenerator(w), Width) # Trap
  <2> DEFINE i == ImmGenerator(w)
  <2>1. x \in Int /\ i \in Int
    BY <1>2, Operand, BothWidths
  <2> HIDE DEF i
  <2>2. x + i \in Int
    BY <2>1
  <2> QED  BY <2>2, NotTrap DEF i
<1>6. Trap \in execute(GetAluSignal(w), x, second)
  BY <1>4, <1>5
<1>7. GetAluSignal(w) \in Trapping /\ second % 2^Half \in {0, 2^Half - 1}
  BY <1>3, <1>6, OnlyTheseTrap DEF Trapping
<1>8. w.opcode \in {OP, OP_IMM, OP32}
  BY <1>7, OtherSignals
<1>9. CASE u.op \in RTypeInstructions
  <2>1. u.op \in DOMAIN SignalOf /\ GetAluSignal(w) = SignalOf[u.op] /\ w.opcode \in {OP, OP32}
    BY <1>9, RegisterSignal
  <2>2. ~AluSrc(w)
    BY <2>1, SMT DEF AluSrc, OP, OP32, LOAD, STORE, OP_IMM, LUI, AUIPC, JALR, LOAD_FP, STORE_FP
  <2>3. u.op \in {"rem", "remw", "divuw", "remuw"}
    BY <1>7, <2>1, SMTT(30) DEF SignalOf, Trapping
  <2> QED  BY <1>7, <2>2, <2>3
<1>10. CASE u.op \in I1TypeInstructions \cup I2TypeInstructions
  <2>1. w.opcode = OP_IMM
    <3>1. w.opcode \in {OP_IMM, OP_IMM32, LOAD, JALR}
      BY <1>10, RegisterOpcodes
    <3> QED  BY <1>8, <3>1, SMT DEF OP, OP_IMM, OP32, OP_IMM32, LOAD, JALR
  <2>2. u.op \in DOMAIN SignalOf /\ GetAluSignal(w) = SignalOf[u.op]
    BY <1>10, <2>1, ImmediateSignal
  <2>3. u.op \in {"rem", "remw", "divuw", "remuw"}
    BY <1>7, <2>2, SMTT(30) DEF SignalOf, Trapping
  <2>4. {"rem", "remw", "divuw", "remuw"} \subseteq RTypeInstructions
    BY SMTT(30) DEF RTypeInstructions, R_type_instruction_encoding_map
  <2> QED  BY <1>9, <2>3, <2>4
<1> QED
  BY <1>8, <1>9, <1>10, ArithmeticFormats

----------------------------------------------------------------------------
(***************************************************************************)
(* The invariant of the step: the outcome is one of those that Execute     *)
(* computes from the word and the two registers.                           *)
(***************************************************************************)
OutcomeInv ==
  outcome \in IF stage = "executed" THEN Outcomes(word, a, b) ELSE {Nothing("none")}

LEMMA OutcomeInit == Init => OutcomeInv
BY DEF Init, OutcomeInv

LEMMA OutcomeNext == OutcomeInv /\ [Next]_vars => OutcomeInv'
<1> SUFFICES ASSUME OutcomeInv, [Next]_vars
             PROVE  OutcomeInv'
  OBVIOUS
<1>1. CASE Generate
  BY <1>1 DEF Generate, OutcomeInv
<1>2. ASSUME NEW c \in Contents, Execute(c[1], c[2])
      PROVE  OutcomeInv'
  BY <1>2 DEF Execute, OutcomeInv
<1>3. CASE UNCHANGED vars
  BY <1>3 DEF vars, OutcomeInv
<1> QED  BY <1>1, <1>2, <1>3 DEF Next

StepInv == WordInv /\ OutcomeInv

\* the outcome is always that of the word, and the word that of the statement
THEOREM AlwaysStep == Spec => []StepInv
<1>1. Init => StepInv
  BY WordInit, OutcomeInit DEF StepInv
<1>2. StepInv /\ [Next]_vars => StepInv'
  BY WordNext, OutcomeNext DEF StepInv
<1> QED  BY <1>1, <1>2, PTL DEF Spec

\* no outcome of a word is that of a statement not yet executed
LEMMA OutcomeRoutes ==
  ASSUME NEW w, NEW x, NEW y, NEW o \in Outcomes(w, x, y)
  PROVE  /\ o.route \in {"HandleSyscall", "ExecuteFloat", "ExecuteDouble", "ExecuteCsr", "Execute", "SIGFPE"}
         /\ o.route = "SIGFPE" => Route(w) = "Execute" /\ Trap \in AluResults(w, x, y)
         /\ o.route = "Execute" =>
              /\ Route(w) = "Execute"
              /\ \E r \in AluResults(w, x, y) :
                   o = [route |-> "Execute", pc |-> NextPc(w, x, y, r),
                        written |-> Written(w, r), stored |-> Stored(w, r, y)]
<1>1. Route(w) \in {"HandleSyscall", "ExecuteFloat", "ExecuteDouble", "ExecuteCsr", "Execute"}
  BY DEF Route
<1>2. CASE Route(w) # "Execute"
  BY <1>1, <1>2 DEF Outcomes, Nothing
<1>3. CASE Route(w) = "Execute"
  <2>1. PICK r \in AluResults(w, x, y) :
          o = IF r = Trap THEN Nothing("SIGFPE")
              ELSE [route |-> "Execute", pc |-> NextPc(w, x, y, r),
                    written |-> Written(w, r), stored |-> Stored(w, r, y)]
    BY <1>3 DEF Outcomes
  <2> QED  BY <1>3, <2>1 DEF Nothing
<1> QED
  BY <1>2, <1>3

\* the floating-point operations go to the other units
LEMMA ExecuteRoute ==
  ASSUME NEW w \in Word, Route(w) = "Execute"
  PROVE  w.opcode \notin {OP_FP, SYSTEM} /\ ~(w.opcode \in {LOAD_FP, STORE_FP} /\ w.funct3 \in {2, 3})
<1>1. w.funct7 \in Int
  BY SMT DEF Word
<1>2. w.funct7 % 2 = 0 \/ w.funct7 % 2 = 1
  BY <1>1, SMT
<1> QED
  BY <1>2 DEF Route, isFInstruction, isDInstruction

\* only a division ends in the SIGFPE of the host, and only at its edges
THEOREM OnlyDivisionEverTraps == Spec => []OnlyDivisionTraps
<1>1. StepInv => OnlyDivisionTraps
  <2> SUFFICES ASSUME StepInv, outcome.route = "SIGFPE"
               PROVE  unit.op \in {"rem", "remw", "divuw", "remuw"} /\ b % 2^Half \in {0, 2^Half - 1}
    BY DEF OnlyDivisionTraps
  <2>1. stage = "executed" /\ outcome \in Outcomes(word, a, b)
    BY DEF StepInv, OutcomeInv, Nothing
  <2>2. Accepted(unit) /\ a \in Value /\ b \in Value /\ word = generateMachineCode(unit)
    BY <2>1 DEF StepInv, WordInv, Encoded
  <2>3. Route(word) = "Execute" /\ Trap \in AluResults(word, a, b)
    BY <2>1, OutcomeRoutes
  <2>4. word \in Word
    BY <2>2, EveryCarried, InvalidIsWord DEF Carried
  <2> QED  BY <2>2, <2>3, <2>4, ExecuteRoute, OnlyFourTrap
<1> QED  BY <1>1, AlwaysStep, PTL

----------------------------------------------------------------------------
(* What a word does is what its statement says *)

\* the formats the integer part of the machine executes
LEMMA ExecutedFormats ==
  ASSUME NEW u, Accepted(u), generateMachineCode(u) # InvalidInstructionType,
         Route(generateMachineCode(u)) = "Execute"
  PROVE  /\ u.op \in RTypeInstructions \cup I1TypeInstructions \cup I2TypeInstructions
                \cup STypeInstructions \cup BTypeInstructions \cup UTypeInstructions
                \cup JTypeInstructions \cup FDExtensionR4TypeInstructions
         /\ u.op \notin I3TypeInstructions \cup FDExtensionSTypeInstructions
         /\ u.op \in MachineInstructions
<1> DEFINE w == generateMachineCode(u)
<1>1. u.op \in MachineInstructions
  BY SMT DEF Accepted, UnitType
<1>2. w \in Word
  BY EveryCarried DEF Carried
<1>3. w.opcode \notin {OP_FP, SYSTEM} /\ ~(w.opcode \in {LOAD_FP, STORE_FP} /\ w.funct3 \in {2, 3})
  BY <1>2, ExecuteRoute
<1>4. u.op \notin I3TypeInstructions \cup CSRRInstructions \cup CSRIInstructions
  BY <1>3, OtherOpcodes
<1>5. /\ u.op \notin FDExtensionRTypeInstructions \cup FDExtensionR1TypeInstructions
                     \cup FDExtensionR2TypeInstructions
      /\ u.op \notin FDExtensionR3TypeInstructions \cap DOMAIN F_D_R3_type_instruction_encoding_map
      /\ u.op \notin FDExtensionITypeInstructions \cup FDExtensionSTypeInstructions
  BY <1>3, FloatOpcodes
<1> QED
  BY <1>1, <1>4, <1>5, EveryFormat, SMT

\* the names that the tables give an opcode of their own
LEMMA NamedOpcodes ==
  ASSUME NEW u
  PROVE  LET c == generateMachineCode(u).opcode IN
         /\ u.op \in I1TypeInstructions => (c = JALR <=> u.op = "jalr")
         /\ u.op \in I1TypeInstructions \cup I2TypeInstructions =>
              (c = OP_IMM32 <=> u.op \in WithoutImmediate)
         /\ u.op \in RTypeInstructions => R_type_instruction_encoding_map[u.op].opcode = c
<1> DEFINE c == generateMachineCode(u).opcode
<1>1. ASSUME u.op \in I1TypeInstructions
      PROVE  (c = JALR <=> u.op = "jalr") /\ (c = OP_IMM32 <=> u.op \in WithoutImmediate)
  <2>1. c = I1_type_instruction_encoding_map[u.op].opcode
    BY <1>1, I1Format DEF generateI1Type, Pack
  <2> HIDE DEF c
  <2> QED
    BY <1>1, <2>1, SMTT(30) DEF I1TypeInstructions, I1_type_instruction_encoding_map, Enc,
       OP_IMM, OP_IMM32, LOAD, JALR, WithoutImmediate
<1>2. ASSUME u.op \in I2TypeInstructions
      PROVE  c = OP_IMM32 <=> u.op \in WithoutImmediate
  <2>1. c = I2_type_instruction_encoding_map[u.op].opcode
    BY <1>2, I2Format DEF generateI2Type, Pack
  <2> HIDE DEF c
  <2> QED
    BY <1>2, <2>1, SMTT(30) DEF I2TypeInstructions, I2_type_instruction_encoding_map, Enc,
       OP_IMM, OP_IMM32, WithoutImmediate
<1>3. ASSUME u.op \in RTypeInstructions
      PROVE  R_type_instruction_encoding_map[u.op].opcode = c
  BY <1>3, RFormat DEF generateRType, Pack
<1> QED
  BY <1>1, <1>2, <1>3

LEMMA SpecialNames ==
  /\ UTypeInstructions = {"lui", "auipc"} /\ JTypeInstructions = {"jal"}
  /\ "jalr" \in I1TypeInstructions
  /\ WithoutImmediate \subseteq I1TypeInstructions \cup I2TypeInstructions
BY SMTT(30) DEF UTypeInstructions, U_type_instruction_encoding_map, JTypeInstructions,
   J_type_instruction_encoding_map, I1TypeInstructions, I1_type_instruction_encoding_map,
   I2TypeInstructions, I2_type_instruction_encoding_map, WithoutImmediate

\* the opcode tells the mnemonics that do something of their own
LEMMA ExecutedOpcodes ==
  ASSUME NEW u, Accepted(u), generateMachineCode(u) # InvalidInstructionType,
         Route(generateMachineCode(u)) = "Execute"
  PROVE  LET c == generateMachineCode(u).opcode IN
         /\ c \in {OP, OP32, OP_IMM, OP_IMM32, LOAD, JALR, STORE, BRANCH, LUI, AUIPC, JAL,
                   MADD, MSUB, NMSUB, NMADD}
         /\ u.op \in STypeInstructions <=> c = STORE
         /\ u.op \in BTypeInstructions <=> c = BRANCH
         /\ u.op = "jalr" <=> c = JALR
         /\ u.op = "jal" <=> c = JAL
         /\ u.op = "lui" <=> c = LUI
         /\ u.op = "auipc" <=> c = AUIPC
         /\ u.op \in UsesRd <=> c \notin {STORE, BRANCH}
         /\ u.op \in WithoutEffect <=> c \in {OP32, OP_IMM32, MADD, MSUB, NMSUB, NMADD}
         /\ c = LOAD => u.op \in I1TypeInstructions
<1> DEFINE c == generateMachineCode(u).opcode
           n == u.op
<1>1. /\ n \in RTypeInstructions \cup I1TypeInstructions \cup I2TypeInstructions
                \cup STypeInstructions \cup BTypeInstructions \cup UTypeInstructions
                \cup JTypeInstructions \cup FDExtensionR4TypeInstructions
      /\ n \notin I3TypeInstructions \cup FDExtensionSTypeInstructions
      /\ n \in MachineInstructions
  BY ExecutedFormats
<1>2. /\ n \in RTypeInstructions => c \in {OP, OP32}
      /\ n \in I1TypeInstructions => c \in {OP_IMM, OP_IMM32, LOAD, JALR}
      /\ n \in I2TypeInstructions => c \in {OP_IMM, OP_IMM32}
      /\ n \in STypeInstructions => c = STORE
      /\ n \in BTypeInstructions => c = BRANCH
      /\ n \in UTypeInstructions => c = IF n = "lui" THEN LUI ELSE AUIPC
      /\ n \in JTypeInstructions => c = JAL
      /\ n \in FDExtensionR4TypeInstructions => c \in {MADD, MSUB, NMSUB, NMADD}
  BY RegisterOpcodes, OtherOpcodes, FloatOpcodes
<1>3. /\ n \in I1TypeInstructions => (c = JALR <=> n = "jalr")
      /\ n \in I1TypeInstructions \cup I2TypeInstructions => (c = OP_IMM32 <=> n \in WithoutImmediate)
      /\ n \in RTypeInstructions => R_type_instruction_encoding_map[n].opcode = c
  BY NamedOpcodes
<1>4. n \in UsesRd <=> n \notin STypeInstructions \cup BTypeInstructions
  BY <1>1 DEF UsesRd
<1>5. n \in WithoutEffect <=>
        \/ n \in FDExtensionR4TypeInstructions
        \/ n \in RTypeInstructions /\ c = OP32
        \/ n \in WithoutImmediate
  BY <1>1, <1>3 DEF WithoutEffect
<1> HIDE DEF c, n
<1>6. /\ c \in {OP, OP32, OP_IMM, OP_IMM32, LOAD, JALR, STORE, BRANCH, LUI, AUIPC, JAL,
                MADD, MSUB, NMSUB, NMADD}
      /\ n \in STypeInstructions <=> c = STORE
      /\ n \in BTypeInstructions <=> c = BRANCH
      /\ n = "jalr" <=> c = JALR
      /\ n = "jal" <=> c = JAL
      /\ n = "lui" <=> c = LUI
      /\ n = "auipc" <=> c = AUIPC
  BY <1>1, <1>2, <1>3, SpecialNames, SMTT(60) DEF OP, OP32, OP_IMM, OP_IMM32, LOAD, JALR, STORE, BRANCH,
     LUI, AUIPC, JAL, MADD, MSUB, NMSUB, NMADD
<1>7. /\ n \in WithoutEffect <=> c \in {OP32, OP_IMM32, MADD, MSUB, NMSUB, NMADD}
      /\ c = LOAD => n \in I1TypeInstructions
  BY <1>1, <1>2, <1>3, <1>5, SpecialNames, SMTT(60) DEF OP, OP32, OP_IMM, OP_IMM32, LOAD, JALR, STORE,
     BRANCH, LUI, AUIPC, JAL, MADD, MSUB, NMSUB, NMADD
<1> QED
  BY <1>4, <1>6, <1>7 DEF c, n

\* the address of a load, a store or a jalr
LEMMA Address ==
  ASSUME NEW w, w.opcode \in {LOAD, STORE, JALR}, NEW x \in Value, NEW y \in Value,
         ImmGenerator(w) \in Int
  PROVE  AluResults(w, x, y) = {(x + ImmGenerator(w)) % 2^Width}
<1> DEFINE i == ImmGenerator(w)
           p == 2^Width
<1>1. CASE w.opcode \in {LOAD, STORE}
  BY <1>1 DEF AluResults, Unsigned
<1>2. CASE w.opcode = JALR
  <2> DEFINE z == Unsigned(i, Width)
  <2>1. AluSrc(w) /\ w.opcode \notin {LOAD, STORE} /\ GetAluSignal(w) = "kAdd"
    <3>1. w.opcode \notin {LOAD, STORE}
      BY <1>2, SMT DEF LOAD, STORE, JALR
    <3>2. GetAluSignal(w) = "kAdd"
      BY <1>2, SMTT(30) DEF GetAluSignal, OP, OP32, OP_IMM, OP_IMM32, BRANCH, MADD, OP_FP, LOAD, STORE,
         JALR, JAL, LUI, AUIPC, LOAD_FP, STORE_FP
    <3> QED  BY <1>2, <3>1, <3>2 DEF AluSrc
  <2>2. AluResults(w, x, y) = execute("kAdd", x, z)
    BY <2>1 DEF AluResults
  <2>3. z \in Value
    BY UnsignedType
  <2>4. execute("kAdd", x, z) = {(x + z) % p}
    <3>1. execute("kAdd", x, z) = {Meant("add", x, z)}
      BY <2>3, MeansSum
    <3> QED  BY <3>1 DEF Meant
  <2>5. (x + z) % p = (x + i) % p
    <3>1. p \in Nat \ {0} /\ x \in Int /\ z \in Int /\ i \in Int
      BY <2>3, Operand, BothWidths
    <3>2. z = i % p
      BY DEF Unsigned
    <3> HIDE DEF p, z, i
    <3>3. Congruent(z, i, p) /\ Congruent(x, x, p)
      BY <3>1, <3>2, TwiceRemainder DEF Congruent
    <3>4. Congruent(x + z, x + i, p)
      BY <3>1, <3>3, Modular
    <3> QED  BY <3>4 DEF Congruent
  <2> QED  BY <2>2, <2>4, <2>5
<1> QED
  BY <1>1, <1>2

\* the comparison the machine makes is the one of the mnemonic
LEMMA BranchAsMeant ==
  ASSUME NEW u, u.op \in BTypeInstructions, NEW x \in Value, NEW y \in Value
  PROVE  TakeBranch(generateMachineCode(u), x, y) <=> Branches(u.op, x, y)
<1> DEFINE w == generateMachineCode(u)
           sx == Signed(x, Width)
           sy == Signed(y, Width)
           n == u.op
           f == w.funct3
<1>1. f = B_type_instruction_encoding_map[n].funct3
  BY BFormat DEF generateBType, Pack
<1>2. /\ f = 0 => (TakeBranch(w, x, y) <=> x = y)
      /\ f = 1 => (TakeBranch(w, x, y) <=> x # y)
      /\ f = 4 => (TakeBranch(w, x, y) <=> sx < sy)
      /\ f = 5 => (TakeBranch(w, x, y) <=> sx >= sy)
      /\ f = 6 => (TakeBranch(w, x, y) <=> x < y)
      /\ f = 7 => (TakeBranch(w, x, y) <=> x >= y)
  <2>1. /\ 0 # 1 /\ 0 # 4 /\ 0 # 5 /\ 0 # 6 /\ 0 # 7 /\ 1 # 4 /\ 1 # 5 /\ 1 # 6 /\ 1 # 7
        /\ 4 # 5 /\ 4 # 6 /\ 4 # 7 /\ 5 # 6 /\ 5 # 7 /\ 6 # 7
    BY SMT
  <2> HIDE DEF f, w, sx, sy
  <2> QED  BY <2>1, Zenon DEF TakeBranch, f, sx, sy
<1>3. sx \in Int /\ sy \in Int /\ x \in Int /\ y \in Int
  BY Operand, BothWidths
<1> HIDE DEF f, sx, sy
<1>4. /\ n = "beq" => f = 0
      /\ n = "bne" => f = 1
      /\ n = "blt" => f = 4
      /\ n = "bge" => f = 5
      /\ n = "bltu" => f = 6
      /\ n = "bgeu" => f = 7
      /\ n \in {"beq", "bne", "blt", "bge", "bltu", "bgeu"}
  BY <1>1, SMTT(30) DEF BTypeInstructions, B_type_instruction_encoding_map, Enc
<1>5. /\ Branches("beq", x, y) <=> x = y
      /\ Branches("bne", x, y) <=> x # y
      /\ Branches("blt", x, y) <=> sx < sy
      /\ Branches("bge", x, y) <=> ~(sx < sy)
      /\ Branches("bltu", x, y) <=> x < y
      /\ Branches("bgeu", x, y) <=> ~(x < y)
  <2>1. Branches("beq", x, y) <=> x = y
    BY DEF Branches
  <2>2. Branches("bne", x, y) <=> x # y
    BY DEF Branches
  <2>3. Branches("blt", x, y) <=> sx < sy
    BY DEF Branches, sx, sy
  <2>4. Branches("bge", x, y) <=> ~(sx < sy)
    BY DEF Branches, sx, sy
  <2>5. Branches("bltu", x, y) <=> x < y
    BY DEF Branches
  <2>6. Branches("bgeu", x, y) <=> ~(x < y)
    BY DEF Branches
  <2> QED  BY <2>1, <2>2, <2>3, <2>4, <2>5, <2>6
<1>6. (sx >= sy <=> ~(sx < sy)) /\ (x >= y <=> ~(x < y))
  BY <1>3
<1> HIDE DEF n, w
<1>7. TakeBranch(w, x, y) <=> Branches(n, x, y)
  BY <1>2, <1>4, <1>5, <1>6
<1> QED
  BY <1>7 DEF n, w

\* the immediate of a statement that is not without effect reaches the machine
LEMMA ExecutedImmediate ==
  ASSUME NEW u, Accepted(u), generateMachineCode(u) # InvalidInstructionType,
         Route(generateMachineCode(u)) = "Execute"
  PROVE  LET w == generateMachineCode(u) IN
         /\ w.opcode \in {LUI, AUIPC} => ImmGenerator(w) = ImmOperand(u)
         /\ w.opcode \in {LOAD, STORE, JALR, JAL, BRANCH} => ImmGenerator(w) = u.imm
<1> DEFINE w == generateMachineCode(u)
<1> SUFFICES ASSUME w.opcode \in {LOAD, STORE, JALR, JAL, BRANCH, LUI, AUIPC}
             PROVE  /\ ImmGenerator(w) = ImmOperand(u)
                    /\ w.opcode \in {LOAD, STORE, JALR, JAL, BRANCH} => ImmOperand(u) = u.imm
  OBVIOUS
<1>1. w.opcode \notin {OP32, OP_IMM32, MADD, MSUB, NMSUB, NMADD}
  BY SMT DEF LOAD, STORE, JAL, JALR, BRANCH, LUI, AUIPC, OP32, OP_IMM32, MADD, MSUB, NMSUB, NMADD
<1>2. u.op \notin WithoutEffect
  BY <1>1, ExecutedOpcodes
<1>3. u.op \notin WithoutImmediate
  BY <1>2, ExecutedFormats DEF WithoutEffect
<1>4. ImmediateOf(u, w)
  BY <1>3, EveryCarried DEF Carried
<1>5. u.op \in UsesImm
  BY ExecutedOpcodes, SpecialNames DEF UsesImm
<1>6. w.opcode \in {LOAD, STORE, JALR, JAL, BRANCH} => w.opcode \notin {LUI, AUIPC}
  <2> DEFINE c == w.opcode
  <2> HIDE DEF c
  <2>1. c \in {LOAD, STORE, JALR, JAL, BRANCH} => c \notin {LUI, AUIPC}
    BY SMT DEF LOAD, STORE, JAL, JALR, BRANCH, LUI, AUIPC
  <2> QED  BY <2>1 DEF c
<1>7. w.opcode \in {LOAD, STORE, JALR, JAL, BRANCH} => u.op \notin UTypeInstructions
  BY <1>6, ExecutedOpcodes, SpecialNames
<1> QED
  BY <1>4, <1>5, <1>7 DEF ImmediateOf, ImmOperand

LEMMA NextPcAsWritten ==
  ASSUME NEW u, Accepted(u), generateMachineCode(u) # InvalidInstructionType,
         Route(generateMachineCode(u)) = "Execute", ImmGenerator(generateMachineCode(u)) \in Int,
         NEW x \in Value, NEW y \in Value, NEW r \in AluResults(generateMachineCode(u), x, y)
  PROVE  LET address == (x + u.imm) % 2^Width
             jumps == u.op = "jal" \/ (u.op \in BTypeInstructions /\ Branches(u.op, x, y))
         IN  NextPc(generateMachineCode(u), x, y, r)
               = IF u.op = "jalr" THEN At("zero", address - (address % 2))
                 ELSE At("pc", IF jumps THEN u.imm ELSE 4)
<1> DEFINE w == generateMachineCode(u)
           address == (x + u.imm) % 2^Width
           taken == u.op \in BTypeInstructions /\ Branches(u.op, x, y)
<1>1. /\ u.op \in BTypeInstructions <=> w.opcode = BRANCH
      /\ u.op = "jalr" <=> w.opcode = JALR
      /\ u.op = "jal" <=> w.opcode = JAL
  BY ExecutedOpcodes
<1>2. w.opcode \in {JAL, JALR, BRANCH} => ImmGenerator(w) = u.imm
  BY ExecutedImmediate
<1>3. w.opcode = JALR => r = address
  BY <1>2, Address
<1>4. u.op \in BTypeInstructions => (TakeBranch(w, x, y) <=> Branches(u.op, x, y))
  BY BranchAsMeant
<1>5. /\ w.opcode = JALR => NextPc(w, x, y, r) = At("zero", r - (r % 2))
      /\ w.opcode = JAL \/ (w.opcode = BRANCH /\ TakeBranch(w, x, y))
           => NextPc(w, x, y, r) = At("pc", ImmGenerator(w))
      /\ ~(w.opcode = JALR \/ w.opcode = JAL \/ (w.opcode = BRANCH /\ TakeBranch(w, x, y)))
           => NextPc(w, x, y, r) = At("pc", 4)
  <2>1. JALR # JAL /\ JALR # BRANCH /\ JAL # BRANCH
    BY SMT DEF JALR, JAL, BRANCH
  <2> HIDE DEF w
  <2> QED  BY <2>1, Zenon DEF NextPc
<1>6. w.opcode = JAL => ~(w.opcode = JALR)
  BY SMT DEF JALR, JAL
<1>7. w.opcode = BRANCH => ~(w.opcode = JALR)
  BY SMT DEF JALR, BRANCH
<1> HIDE DEF w, address
<1> QED
  BY <1>1, <1>2, <1>3, <1>4, <1>5, <1>6, <1>7, Zenon DEF w, address

LEMMA StoredAsWritten ==
  ASSUME NEW u, Accepted(u), generateMachineCode(u) # InvalidInstructionType,
         Route(generateMachineCode(u)) = "Execute", ImmGenerator(generateMachineCode(u)) \in Int,
         NEW x \in Value, NEW y \in Value, NEW r \in AluResults(generateMachineCode(u), x, y)
  PROVE  Stored(generateMachineCode(u), r, y)
           = IF u.op \in STypeInstructions
             THEN {[address |-> (x + u.imm) % 2^Width, value |-> y]} ELSE {}
<1> DEFINE w == generateMachineCode(u)
<1>1. MemWrite(w) <=> u.op \in STypeInstructions
  <2>1. w.opcode # STORE_FP
    <3>1. w.opcode \in {OP, OP32, OP_IMM, OP_IMM32, LOAD, JALR, STORE, BRANCH, LUI, AUIPC, JAL,
                        MADD, MSUB, NMSUB, NMADD}
      BY ExecutedOpcodes
    <3> HIDE DEF w
    <3> QED  BY <3>1, SMT DEF OP, OP32, OP_IMM, OP_IMM32, LOAD, JALR, STORE, BRANCH, LUI, AUIPC, JAL,
                MADD, MSUB, NMSUB, NMADD, STORE_FP
  <2>2. w.opcode = STORE <=> u.op \in STypeInstructions
    BY ExecutedOpcodes
  <2> QED  BY <2>1, <2>2 DEF MemWrite
<1>2. u.op \in STypeInstructions => r = (x + u.imm) % 2^Width
  <2>1. u.op \in STypeInstructions => w.opcode = STORE
    BY ExecutedOpcodes
  <2> QED  BY <2>1, ExecutedImmediate, Address
<1> QED
  BY <1>1, <1>2 DEF Stored

LEMMA WrittenAsWritten ==
  ASSUME NEW u, Accepted(u), generateMachineCode(u) # InvalidInstructionType,
         Route(generateMachineCode(u)) = "Execute", ImmGenerator(generateMachineCode(u)) \in Int,
         NEW x \in Value, NEW y \in Value, NEW r \in AluResults(generateMachineCode(u), x, y)
  PROVE  LET n == u.op
             w == generateMachineCode(u)
             address == (x + u.imm) % 2^Width
             written == Written(w, r)
         IN  /\ \A v \in written : v.rd = u.rd /\ v.rd # 0
             /\ (written = {}) = (u.rd = 0 \/ n \notin UsesRd \/ n \in WithoutEffect)
             /\ n \in {"jal", "jalr"} => \A v \in written : v.value = At("pc", 4)
             /\ n = "lui"   => \A v \in written : v.value = At("upper", ImmOperand(u))
             /\ n = "auipc" => \A v \in written : v.value = At("pc + upper", ImmOperand(u))
             /\ w.opcode = LOAD => \A v \in written : v.value = At("memory", address)
             /\ w.opcode \in {OP, OP_IMM} => \A v \in written : v.value.offset \in AluResults(w, x, y)
<1> DEFINE n == u.op
           w == generateMachineCode(u)
           address == (x + u.imm) % 2^Width
           value == WriteBackValue(w, r)
           written == Written(w, r)
<1>1. /\ w.opcode \in {OP, OP32, OP_IMM, OP_IMM32, LOAD, JALR, STORE, BRANCH, LUI, AUIPC, JAL,
                       MADD, MSUB, NMSUB, NMADD}
      /\ n = "jalr" <=> w.opcode = JALR
      /\ n = "jal" <=> w.opcode = JAL
      /\ n = "lui" <=> w.opcode = LUI
      /\ n = "auipc" <=> w.opcode = AUIPC
      /\ n \in UsesRd <=> w.opcode \notin {STORE, BRANCH}
      /\ n \in WithoutEffect <=> w.opcode \in {OP32, OP_IMM32, MADD, MSUB, NMSUB, NMADD}
  BY ExecutedOpcodes
<1>2. RegWrite(w) <=> n \in UsesRd /\ n \notin WithoutEffect
  <2> DEFINE c == w.opcode
  <2>1. c \in {OP, OP32, OP_IMM, OP_IMM32, LOAD, JALR, STORE, BRANCH, LUI, AUIPC, JAL,
               MADD, MSUB, NMSUB, NMADD}
    BY <1>1
  <2> HIDE DEF c
  <2>2. c \in {OP, LOAD, OP_IMM, LUI, AUIPC, JAL, JALR, LOAD_FP, OP_FP} <=>
          c \notin {STORE, BRANCH} /\ c \notin {OP32, OP_IMM32, MADD, MSUB, NMSUB, NMADD}
    BY <2>1, SMT DEF OP, OP32, OP_IMM, OP_IMM32, LOAD, JALR, STORE, BRANCH, LUI, AUIPC, JAL,
       MADD, MSUB, NMSUB, NMADD, LOAD_FP, OP_FP
  <2> QED  BY <1>1, <2>2 DEF c, RegWrite
<1>3. n \in UsesRd => w.rd = u.rd
  BY EveryCarried DEF Carried, OperandsOf
<1>4. /\ RegWrite(w) /\ w.rd # 0 => written = {[rd |-> w.rd, value |-> value]}
      /\ ~(RegWrite(w) /\ w.rd # 0) => written = {}
  BY DEF Written
<1>5. (\A v \in written : v.rd = u.rd /\ v.rd # 0 /\ v.value = value)
  BY <1>2, <1>3, <1>4
<1>6. (written = {}) = (u.rd = 0 \/ n \notin UsesRd \/ n \in WithoutEffect)
  <2>1. [rd |-> w.rd, value |-> value] \in {[rd |-> w.rd, value |-> value]}
    OBVIOUS
  <2>2. written = {} <=> ~(RegWrite(w) /\ w.rd # 0)
    <3> HIDE DEF written
    <3> QED  BY <1>4, <2>1
  <2> QED  BY <1>2, <1>3, <2>2
<1>7. /\ w.opcode \in {JAL, JALR} => value = At("pc", 4)
      /\ w.opcode = LUI => value = At("upper", ImmGenerator(w))
      /\ w.opcode = AUIPC => value = At("pc + upper", ImmGenerator(w))
      /\ w.opcode = LOAD => value = At("memory", r)
      /\ w.opcode \in {OP, OP_IMM} => value = At("zero", r)
  <2> HIDE DEF w
  <2>1. \A c \in {JAL, JALR, LUI, AUIPC, LOAD, OP, OP_IMM} :
          /\ c \in {JAL, JALR} => c \notin {OP, OP_IMM, LUI, AUIPC, LOAD}
          /\ c = LUI => c \notin {OP, OP_IMM, JAL, JALR, AUIPC, LOAD}
          /\ c = AUIPC => c \notin {OP, OP_IMM, JAL, JALR, LUI, LOAD}
          /\ c = LOAD => c \notin {OP, OP_IMM, JAL, JALR, LUI, AUIPC}
          /\ c \in {OP, OP_IMM} => c \notin {JAL, JALR, LUI, AUIPC, LOAD}
    BY SMT DEF JAL, JALR, LUI, AUIPC, LOAD, OP, OP_IMM
  <2>2. CASE w.opcode \in {JAL, JALR}
    BY <2>1, <2>2, Zenon DEF WriteBackValue
  <2>3. CASE w.opcode = LUI
    BY <2>1, <2>3, Zenon DEF WriteBackValue
  <2>4. CASE w.opcode = AUIPC
    BY <2>1, <2>4, Zenon DEF WriteBackValue
  <2>5. CASE w.opcode = LOAD
    BY <2>1, <2>5, Zenon DEF WriteBackValue
  <2>6. CASE w.opcode \in {OP, OP_IMM}
    BY <2>1, <2>6, Zenon DEF WriteBackValue
  <2> QED  BY <2>2, <2>3, <2>4, <2>5, <2>6
<1>8. /\ w.opcode \in {LUI, AUIPC} => ImmGenerator(w) = ImmOperand(u)
      /\ w.opcode = LOAD => r = address
  BY ExecutedImmediate, Address
<1>9. At("zero", r).offset = r
  BY DEF At
<1> HIDE DEF n, w, address, value, written
<1>10. /\ \A v \in written : v.rd = u.rd /\ v.rd # 0
       /\ (written = {}) = (u.rd = 0 \/ n \notin UsesRd \/ n \in WithoutEffect)
       /\ n \in {"jal", "jalr"} => \A v \in written : v.value = At("pc", 4)
       /\ n = "lui"   => \A v \in written : v.value = At("upper", ImmOperand(u))
       /\ n = "auipc" => \A v \in written : v.value = At("pc + upper", ImmOperand(u))
       /\ w.opcode = LOAD => \A v \in written : v.value = At("memory", address)
  BY <1>1, <1>5, <1>6, <1>7, <1>8
<1>11. w.opcode \in {OP, OP_IMM} => \A v \in written : v.value.offset \in AluResults(w, x, y)
  BY <1>5, <1>7, <1>9 DEF w
<1> QED
  BY <1>10, <1>11 DEF n, w, address, written

(***************************************************************************)
(* The step of every integer instruction ends as its statement says.       *)
(***************************************************************************)
THEOREM StepAlwaysDoesWhatIsWritten == Spec => []StepDoesWhatIsWritten
<1>1. StepInv => StepDoesWhatIsWritten
  <2> SUFFICES ASSUME StepInv, stage = "executed", outcome.route = "Execute"
               PROVE  StepDoesWhatIsWritten
    BY DEF StepDoesWhatIsWritten
  <2>1. /\ Accepted(unit) /\ a \in Value /\ b \in Value
        /\ word = generateMachineCode(unit) /\ word # InvalidInstructionType
        /\ outcome \in Outcomes(word, a, b)
    BY DEF StepInv, WordInv, OutcomeInv, Encoded
  <2>2. PICK r \in AluResults(word, a, b) :
          outcome = [route |-> "Execute", pc |-> NextPc(word, a, b, r),
                     written |-> Written(word, r), stored |-> Stored(word, r, b)]
    BY <2>1, OutcomeRoutes
  <2>3. Route(word) = "Execute" /\ ImmGenerator(word) \in Int
    <3>1. word \in Word
      BY <2>1, EveryCarried DEF Carried
    <3> QED  BY <2>1, <3>1, OutcomeRoutes, ImmediateType
  <2>4. /\ outcome.pc = NextPc(word, a, b, r)
        /\ outcome.written = Written(word, r) /\ outcome.stored = Stored(word, r, b)
    BY <2>2
  <2> DEFINE n == unit.op
             address == (a + unit.imm) % 2^Width
             jumps == n = "jal" \/ (n \in BTypeInstructions /\ Branches(n, a, b))
             written == outcome.written
  <2>5. outcome.pc = IF n = "jalr" THEN At("zero", address - (address % 2))
                     ELSE At("pc", IF jumps THEN unit.imm ELSE 4)
    BY <2>1, <2>3, <2>4, NextPcAsWritten
  <2>6. outcome.stored = IF n \in STypeInstructions THEN {[address |-> address, value |-> b]} ELSE {}
    BY <2>1, <2>3, <2>4, StoredAsWritten
  <2>7. /\ \A v \in written : v.rd = unit.rd /\ v.rd # 0
        /\ (written = {}) = (unit.rd = 0 \/ n \notin UsesRd \/ n \in WithoutEffect)
        /\ n \in {"jal", "jalr"} => \A v \in written : v.value = At("pc", 4)
        /\ n = "lui"   => \A v \in written : v.value = At("upper", ImmOperand(unit))
        /\ n = "auipc" => \A v \in written : v.value = At("pc + upper", ImmOperand(unit))
        /\ word.opcode = LOAD => \A v \in written : v.value = At("memory", address)
        /\ word.opcode \in {OP, OP_IMM} => \A v \in written : v.value.offset \in AluResults(word, a, b)
    <3> DEFINE m == generateMachineCode(unit)
               put == Written(m, r)
    <3>1. /\ Accepted(unit) /\ m # InvalidInstructionType
          /\ Route(m) = "Execute" /\ ImmGenerator(m) \in Int
          /\ a \in Value /\ b \in Value /\ r \in AluResults(m, a, b)
      BY <2>1, <2>2, <2>3
    <3>2. /\ \A v \in put : v.rd = unit.rd /\ v.rd # 0
          /\ (put = {}) = (unit.rd = 0 \/ n \notin UsesRd \/ n \in WithoutEffect)
          /\ n \in {"jal", "jalr"} => \A v \in put : v.value = At("pc", 4)
          /\ n = "lui"   => \A v \in put : v.value = At("upper", ImmOperand(unit))
          /\ n = "auipc" => \A v \in put : v.value = At("pc + upper", ImmOperand(unit))
          /\ m.opcode = LOAD => \A v \in put : v.value = At("memory", address)
          /\ m.opcode \in {OP, OP_IMM} => \A v \in put : v.value.offset \in AluResults(m, a, b)
      BY <3>1, WrittenAsWritten
    <3>3. written = put /\ word = m
      BY <2>1, <2>4
    <3> HIDE DEF m, put, n, address, written
    <3> QED  BY <3>2, <3>3
  <2> QED
    BY <2>5, <2>6, <2>7 DEF StepDoesWhatIsWritten
<1> QED  BY <1>1, AlwaysStep, PTL

----------------------------------------------------------------------------
(***************************************************************************)
(* What the machine looks at in a word, besides the operands, belongs to   *)
(* one mnemonic.                                                           *)
(***************************************************************************)

\* of the mnemonics whose opcode is OP_FP
FloatSignalOf ==
  [fsgnj_s |-> "FSGNJ_S", fsgnjn_s |-> "FSGNJN_S", fsgnjx_s |-> "FSGNJX_S",
   fsgnj_d |-> "FSGNJ_D", fsgnjn_d |-> "FSGNJN_D", fsgnjx_d |-> "FSGNJX_D",
   fmin_s |-> "FMIN_S", fmax_s |-> "FMAX_S", fmin_d |-> "FMIN_D", fmax_d |-> "FMAX_D",
   feq_s |-> "FEQ_S", flt_s |-> "FLT_S", fle_s |-> "FLE_S",
   feq_d |-> "FEQ_D", flt_d |-> "FLT_D", fle_d |-> "FLE_D",
   fadd_s |-> "FADD_S", fsub_s |-> "FSUB_S", fmul_s |-> "FMUL_S", fdiv_s |-> "FDIV_S",
   fadd_d |-> "FADD_D", fsub_d |-> "FSUB_D", fmul_d |-> "FMUL_D", fdiv_d |-> "FDIV_D",
   fsqrt_s |-> "FSQRT_S", fsqrt_d |-> "FSQRT_D",
   fcvt_w_s |-> "FCVT_W_S", fcvt_wu_s |-> "FCVT_WU_S", fcvt_l_s |-> "FCVT_L_S", fcvt_lu_s |-> "FCVT_LU_S",
   fcvt_w_d |-> "FCVT_W_D", fcvt_wu_d |-> "FCVT_WU_D", fcvt_l_d |-> "FCVT_L_D", fcvt_lu_d |-> "FCVT_LU_D",
   fcvt_s_w |-> "FCVT_S_W", fcvt_s_wu |-> "FCVT_S_WU", fcvt_s_l |-> "FCVT_S_L", fcvt_s_lu |-> "FCVT_S_LU",
   fcvt_d_w |-> "FCVT_D_W", fcvt_d_wu |-> "FCVT_D_WU", fcvt_d_l |-> "FCVT_D_L", fcvt_d_lu |-> "FCVT_D_LU",
   fcvt_s_d |-> "kNone", fcvt_d_s |-> "kNone",
   fmv_w_x |-> "FMV_W_X", fmv_x_w |-> "FMV_X_W", fmv_d_x |-> "FMV_D_X", fmv_x_d |-> "FMV_X_D"]

\* the three tables of FloatSignal have no funct7 in common
FloatCodes == {\b0000000, \b0000001, \b0000100, \b0000101, \b0001000, \b0001001, \b0001100,
               \b0001101, \b0101100, \b0101101, \b1111000, \b1111001}
ConversionCodes == {\b1100000, \b1100001, \b1101000, \b1101001}
ComparisonCodes == {\b0010000, \b0010001, \b0010100, \b0010101, \b1010000, \b1010001, \b1110000, \b1110001}

LEMMA CodesOfTables ==
  /\ \A r \in FloatSignals : r[1] \in FloatCodes
  /\ \A r \in FloatConversions : r[1][1] \in ConversionCodes
  /\ \A r \in FloatComparisons : r[1][1] \in ComparisonCodes
<1>1. \A r \in FloatSignals : r[1] \in FloatCodes
  BY SMTT(30) DEF FloatSignals, FloatCodes
<1>2. \A r \in FloatConversions : r[1][1] \in ConversionCodes
  BY SMTT(30) DEF FloatConversions, ConversionCodes
<1>3. \A r \in FloatComparisons : r[1][1] \in ComparisonCodes
  BY SMTT(30) DEF FloatComparisons, ComparisonCodes
<1> QED  BY <1>1, <1>2, <1>3

LEMMA OneFloatRow ==
  /\ \A r, s \in FloatSignals : r[1] = s[1] => r[2] = s[2]
  /\ \A r, s \in FloatConversions : r[1] = s[1] => r[2] = s[2]
  /\ \A r, s \in FloatComparisons : r[1] = s[1] => r[2] = s[2]
<1>1. \A r, s \in FloatSignals : r[1] = s[1] => r[2] = s[2]
  BY SMTT(30) DEF FloatSignals
<1>2. \A r, s \in FloatConversions : r[1] = s[1] => r[2] = s[2]
  BY SMTT(30) DEF FloatConversions
<1>3. \A r, s \in FloatComparisons : r[1] = s[1] => r[2] = s[2]
  BY SMTT(60) DEF FloatComparisons
<1> QED  BY <1>1, <1>2, <1>3

\* what the tables of instruction_set and those of FloatSignal agree on
LEMMA FloatRows ==
  /\ \A n \in FDExtensionRTypeInstructions :
       LET e == F_D_R_type_instruction_encoding_map[n] IN
       <<<<e.funct7, e.funct3>>, FloatSignalOf[n]>> \in FloatComparisons
  /\ \A n \in FDExtensionR1TypeInstructions :
       LET e == F_D_R1_type_instruction_encoding_map[n] IN
       <<e.funct7, FloatSignalOf[n]>> \in FloatSignals
  /\ \A n \in FDExtensionR2TypeInstructions :
       LET e == F_D_R2_type_instruction_encoding_map[n] IN
       \/ <<e.funct7, FloatSignalOf[n]>> \in FloatSignals
       \/ <<<<e.funct7, e.funct5>>, FloatSignalOf[n]>> \in FloatConversions
       \/ e.funct7 \in {\b0100000, \b0100001} /\ FloatSignalOf[n] = "kNone"
  /\ \A n \in FDExtensionR3TypeInstructions \cap DOMAIN F_D_R3_type_instruction_encoding_map :
       LET e == F_D_R3_type_instruction_encoding_map[n] IN
       \/ <<e.funct7, FloatSignalOf[n]>> \in FloatSignals
       \/ <<<<e.funct7, e.funct3>>, FloatSignalOf[n]>> \in FloatComparisons
<1>1. \A n \in FDExtensionRTypeInstructions :
        LET e == F_D_R_type_instruction_encoding_map[n] IN
        <<<<e.funct7, e.funct3>>, FloatSignalOf[n]>> \in FloatComparisons
  BY SMTT(60) DEF FDExtensionRTypeInstructions, F_D_R_type_instruction_encoding_map, Enc,
     FloatSignalOf, FloatComparisons
<1>2. \A n \in FDExtensionR1TypeInstructions :
        LET e == F_D_R1_type_instruction_encoding_map[n] IN
        <<e.funct7, FloatSignalOf[n]>> \in FloatSignals
  BY SMTT(60) DEF FDExtensionR1TypeInstructions, F_D_R1_type_instruction_encoding_map, EncFP,
     FloatSignalOf, FloatSignals
<1>3. \A n \in FDExtensionR2TypeInstructions :
        LET e == F_D_R2_type_instruction_encoding_map[n] IN
        \/ <<e.funct7, FloatSignalOf[n]>> \in FloatSignals
        \/ <<<<e.funct7, e.funct5>>, FloatSignalOf[n]>> \in FloatConversions
        \/ e.funct7 \in {\b0100000, \b0100001} /\ FloatSignalOf[n] = "kNone"
  BY SMTT(60) DEF FDExtensionR2TypeInstructions, F_D_R2_type_instruction_encoding_map, EncFP,
     FloatSignalOf, FloatSignals, FloatConversions
<1>4. \A n \in FDExtensionR3TypeInstructions \cap DOMAIN F_D_R3_type_instruction_encoding_map :
        LET e == F_D_R3_type_instruction_encoding_map[n] IN
        \/ <<e.funct7, FloatSignalOf[n]>> \in FloatSignals
        \/ <<<<e.funct7, e.funct3>>, FloatSignalOf[n]>> \in FloatComparisons
  BY SMTT(60) DEF FDExtensionR3TypeInstructions, F_D_R3_type_instruction_encoding_map, EncFP,
     FloatSignalOf, FloatSignals, FloatComparisons
<1> QED  BY <1>1, <1>2, <1>3, <1>4

\* each table is looked at after the ones before it
LEMMA FloatTables ==
  ASSUME NEW w, w.opcode = OP_FP, NEW signal
  PROVE  /\ <<w.funct7, signal>> \in FloatSignals => GetAluSignal(w) = signal
         /\ <<<<w.funct7, w.rs2>>, signal>> \in FloatConversions => GetAluSignal(w) = signal
         /\ <<<<w.funct7, w.funct3>>, signal>> \in FloatComparisons => GetAluSignal(w) = signal
         /\ w.funct7 \in {\b0100000, \b0100001} => GetAluSignal(w) = "kNone"
<1> DEFINE f == w.funct7
<1>1. GetAluSignal(w) = FloatSignal(w)
  BY SMTT(30) DEF GetAluSignal, OP, OP32, OP_IMM, OP_IMM32, BRANCH, MADD, OP_FP, LOAD, STORE, JALR, JAL,
     LUI, AUIPC, LOAD_FP, STORE_FP
<1>2. ASSUME f \in FloatCodes
      PROVE  f \notin ConversionCodes \cup ComparisonCodes \cup {\b0100000, \b0100001}
  <2> HIDE DEF f
  <2> QED  BY <1>2, SMT DEF FloatCodes, ConversionCodes, ComparisonCodes
<1>3. ASSUME f \in ConversionCodes
      PROVE  f \notin FloatCodes \cup ComparisonCodes \cup {\b0100000, \b0100001}
  <2> HIDE DEF f
  <2> QED  BY <1>3, SMT DEF FloatCodes, ConversionCodes, ComparisonCodes
<1>4. ASSUME f \in ComparisonCodes
      PROVE  f \notin FloatCodes \cup ConversionCodes \cup {\b0100000, \b0100001}
  <2> HIDE DEF f
  <2> QED  BY <1>4, SMT DEF FloatCodes, ConversionCodes, ComparisonCodes
<1>5. ASSUME <<f, signal>> \in FloatSignals
      PROVE  FloatSignal(w) = signal
  <2>1. \E r \in FloatSignals : r[1] = f
    <3>1. <<f, signal>>[1] = f
      OBVIOUS
    <3> QED  BY <1>5, <3>1
  <2>2. Select(FloatSignals, f) = signal
    BY <1>5, OneFloatRow, SelectRow
  <2> QED  BY <2>1, <2>2 DEF FloatSignal
<1>6. ASSUME <<<<f, w.rs2>>, signal>> \in FloatConversions
      PROVE  FloatSignal(w) = signal
  <2> DEFINE row == <<<<f, w.rs2>>, signal>>
  <2>1. row[1][1] = f
    OBVIOUS
  <2>2. \E r \in FloatConversions : r[1][1] = f
    BY <1>6, <2>1
  <2>3. f \in ConversionCodes
    BY <2>2, CodesOfTables
  <2>4. ~\E r \in FloatSignals : r[1] = f
    BY <1>3, <2>3, CodesOfTables
  <2>5. Select(FloatConversions, <<f, w.rs2>>) = signal
    BY <1>6, OneFloatRow, SelectRow
  <2> QED  BY <2>2, <2>4, <2>5 DEF FloatSignal
<1>7. ASSUME <<<<f, w.funct3>>, signal>> \in FloatComparisons
      PROVE  FloatSignal(w) = signal
  <2> DEFINE row == <<<<f, w.funct3>>, signal>>
  <2>1. row[1][1] = f
    OBVIOUS
  <2>2. f \in ComparisonCodes
    BY <1>7, <2>1, CodesOfTables
  <2>3. ~\E r \in FloatSignals : r[1] = f
    BY <1>4, <2>2, CodesOfTables
  <2>4. ~\E r \in FloatConversions : r[1][1] = f
    BY <1>4, <2>2, CodesOfTables
  <2>5. Select(FloatComparisons, <<f, w.funct3>>) = signal
    BY <1>7, OneFloatRow, SelectRow
  <2> QED  BY <2>3, <2>4, <2>5 DEF FloatSignal
<1>8. ASSUME f \in {\b0100000, \b0100001}
      PROVE  FloatSignal(w) = "kNone"
  <2>1. f \notin FloatCodes \cup ConversionCodes \cup ComparisonCodes
    BY <1>2, <1>3, <1>4, <1>8
  <2>2. /\ ~\E r \in FloatSignals : r[1] = f
        /\ ~\E r \in FloatConversions : r[1][1] = f
    BY <2>1, CodesOfTables
  <2>3. ~\E r \in FloatComparisons : r[1] = <<f, w.funct3>>
    <3>1. <<f, w.funct3>>[1] = f
      OBVIOUS
    <3> QED  BY <2>1, <3>1, CodesOfTables
  <2>4. Select(FloatComparisons, <<f, w.funct3>>) = "kNone"
    BY <2>3 DEF Select
  <2> QED  BY <2>2, <2>4 DEF FloatSignal
<1> QED
  BY <1>1, <1>5, <1>6, <1>7, <1>8

LEMMA FloatingSignal ==
  ASSUME NEW u,
         u.op \in FDExtensionRTypeInstructions \cup FDExtensionR1TypeInstructions
                    \cup FDExtensionR2TypeInstructions
                    \cup (FDExtensionR3TypeInstructions \cap DOMAIN F_D_R3_type_instruction_encoding_map)
  PROVE  /\ GetAluSignal(generateMachineCode(u)) = FloatSignalOf[u.op]
         /\ generateMachineCode(u).funct7 \in Int
<1> DEFINE w == generateMachineCode(u)
<1>1. w.opcode = OP_FP
  BY FloatOpcodes
<1>2. CASE u.op \in FDExtensionRTypeInstructions
  <2> DEFINE e == F_D_R_type_instruction_encoding_map[u.op]
  <2>1. w.funct3 = e.funct3 /\ w.funct7 = e.funct7 /\ e.funct7 \in 0..127
    BY <1>2, FDRFormat DEF generateRType, Pack, Fits
  <2>2. <<<<e.funct7, e.funct3>>, FloatSignalOf[u.op]>> \in FloatComparisons
    BY <1>2, FloatRows
  <2> HIDE DEF e, w
  <2>3. GetAluSignal(w) = FloatSignalOf[u.op]
    BY <1>1, <2>1, <2>2, FloatTables
  <2> QED  BY <2>1, <2>3 DEF w
<1>3. CASE u.op \in FDExtensionR1TypeInstructions
  <2> DEFINE e == F_D_R1_type_instruction_encoding_map[u.op]
  <2>1. w.funct7 = e.funct7 /\ e.funct7 \in 0..127
    BY <1>3, FDR1Format DEF generateFDR1Type, Pack, Fits
  <2>2. <<e.funct7, FloatSignalOf[u.op]>> \in FloatSignals
    BY <1>3, FloatRows
  <2> HIDE DEF e, w
  <2>3. GetAluSignal(w) = FloatSignalOf[u.op]
    BY <1>1, <2>1, <2>2, FloatTables
  <2> QED  BY <2>1, <2>3 DEF w
<1>4. CASE u.op \in FDExtensionR2TypeInstructions
  <2> DEFINE e == F_D_R2_type_instruction_encoding_map[u.op]
  <2>1. w.funct7 = e.funct7 /\ w.rs2 = e.funct5 /\ e.funct7 \in 0..127
    BY <1>4, FDR2Format DEF generateFDR2Type, Pack, Fits
  <2>2. \/ <<e.funct7, FloatSignalOf[u.op]>> \in FloatSignals
        \/ <<<<e.funct7, e.funct5>>, FloatSignalOf[u.op]>> \in FloatConversions
        \/ e.funct7 \in {\b0100000, \b0100001} /\ FloatSignalOf[u.op] = "kNone"
    BY <1>4, FloatRows
  <2> HIDE DEF e, w
  <2>3. GetAluSignal(w) = FloatSignalOf[u.op]
    BY <1>1, <2>1, <2>2, FloatTables
  <2> QED  BY <2>1, <2>3 DEF w
<1>5. CASE u.op \in FDExtensionR3TypeInstructions \cap DOMAIN F_D_R3_type_instruction_encoding_map
  <2> DEFINE e == F_D_R3_type_instruction_encoding_map[u.op]
  <2>1. w.funct7 = e.funct7 /\ w.funct3 = e.funct3 /\ e.funct7 \in 0..127
    BY <1>5, FDR3Format DEF generateFDR3Type, Pack, Fits
  <2>2. \/ <<e.funct7, FloatSignalOf[u.op]>> \in FloatSignals
        \/ <<<<e.funct7, e.funct3>>, FloatSignalOf[u.op]>> \in FloatComparisons
    BY <1>5, FloatRows
  <2> HIDE DEF e, w
  <2>3. GetAluSignal(w) = FloatSignalOf[u.op]
    BY <1>1, <2>1, <2>2, FloatTables
  <2> QED  BY <2>1, <2>3 DEF w
<1> QED
  BY <1>2, <1>3, <1>4, <1>5

----------------------------------------------------------------------------
(* The mnemonic of an opcode, a signal and a funct3 *)

\* the inverses of SignalOf, for each of its two opcodes, and of FloatSignalOf
RegisterName ==
  [kAdd |-> "add", kSub |-> "sub", kXor |-> "xor", kOr |-> "or", kAnd |-> "and", kSll |-> "sll",
   kSrl |-> "srl", kSra |-> "sra", kSlt |-> "slt", kSltu |-> "sltu", kMul |-> "mul",
   kMulh |-> "mulh", kMulhsu |-> "mulhsu", kMulhu |-> "mulhu", kDiv |-> "div", kDivu |-> "divu",
   kRem |-> "rem", kRemu |-> "remu"]

ImmediateName ==
  [kAdd |-> "addi", kXor |-> "xori", kOr |-> "ori", kAnd |-> "andi", kSlt |-> "slti",
   kSltu |-> "sltiu", kSll |-> "slli", kSrl |-> "srli", kSra |-> "srai"]

FloatName ==
  [FSGNJ_S |-> "fsgnj_s", FSGNJN_S |-> "fsgnjn_s", FSGNJX_S |-> "fsgnjx_s",
   FSGNJ_D |-> "fsgnj_d", FSGNJN_D |-> "fsgnjn_d", FSGNJX_D |-> "fsgnjx_d",
   FMIN_S |-> "fmin_s", FMAX_S |-> "fmax_s", FMIN_D |-> "fmin_d", FMAX_D |-> "fmax_d",
   FEQ_S |-> "feq_s", FLT_S |-> "flt_s", FLE_S |-> "fle_s",
   FEQ_D |-> "feq_d", FLT_D |-> "flt_d", FLE_D |-> "fle_d",
   FADD_S |-> "fadd_s", FSUB_S |-> "fsub_s", FMUL_S |-> "fmul_s", FDIV_S |-> "fdiv_s",
   FADD_D |-> "fadd_d", FSUB_D |-> "fsub_d", FMUL_D |-> "fmul_d", FDIV_D |-> "fdiv_d",
   FSQRT_S |-> "fsqrt_s", FSQRT_D |-> "fsqrt_d",
   FCVT_W_S |-> "fcvt_w_s", FCVT_WU_S |-> "fcvt_wu_s", FCVT_L_S |-> "fcvt_l_s", FCVT_LU_S |-> "fcvt_lu_s",
   FCVT_W_D |-> "fcvt_w_d", FCVT_WU_D |-> "fcvt_wu_d", FCVT_L_D |-> "fcvt_l_d", FCVT_LU_D |-> "fcvt_lu_d",
   FCVT_S_W |-> "fcvt_s_w", FCVT_S_WU |-> "fcvt_s_wu", FCVT_S_L |-> "fcvt_s_l", FCVT_S_LU |-> "fcvt_s_lu",
   FCVT_D_W |-> "fcvt_d_w", FCVT_D_WU |-> "fcvt_d_wu", FCVT_D_L |-> "fcvt_d_l", FCVT_D_LU |-> "fcvt_d_lu",
   FMV_W_X |-> "fmv_w_x", FMV_X_W |-> "fmv_x_w", FMV_D_X |-> "fmv_d_x", FMV_X_D |-> "fmv_x_d"]

\* two mnemonics with the same entry are the same, or the machine confuses them
LEMMA RegisterNames ==
  \A n \in RTypeInstructions :
    R_type_instruction_encoding_map[n].opcode = OP => n = RegisterName[SignalOf[n]]
BY SMTT(60) DEF RTypeInstructions, R_type_instruction_encoding_map, Enc, OP, OP32, SignalOf, RegisterName

LEMMA ImmediateNames ==
  \A n \in {"addi", "xori", "ori", "andi", "slti", "sltiu", "slli", "srli", "srai"} :
    n = ImmediateName[SignalOf[n]] /\ SignalOf[n] # "kNone"
BY SMTT(60) DEF SignalOf, ImmediateName

LEMMA ImmediateMnemonics ==
  /\ \A n \in I1TypeInstructions : I1_type_instruction_encoding_map[n].opcode = OP_IMM =>
       n \in {"addi", "xori", "ori", "andi", "slti", "sltiu"}
  /\ \A n \in I2TypeInstructions : I2_type_instruction_encoding_map[n].opcode = OP_IMM =>
       n \in {"slli", "srli", "srai"}
<1>1. \A n \in I1TypeInstructions : I1_type_instruction_encoding_map[n].opcode = OP_IMM =>
        n \in {"addi", "xori", "ori", "andi", "slti", "sltiu"}
  BY SMTT(60) DEF I1TypeInstructions, I1_type_instruction_encoding_map, Enc, OP_IMM, OP_IMM32, LOAD, JALR
<1>2. \A n \in I2TypeInstructions : I2_type_instruction_encoding_map[n].opcode = OP_IMM =>
        n \in {"slli", "srli", "srai"}
  BY SMTT(60) DEF I2TypeInstructions, I2_type_instruction_encoding_map, Enc, OP_IMM, OP_IMM32
<1> QED  BY <1>1, <1>2

LEMMA FloatNames ==
  /\ FDExtensionRTypeInstructions \cup FDExtensionR1TypeInstructions \cup FDExtensionR2TypeInstructions
       \cup (FDExtensionR3TypeInstructions \cap DOMAIN F_D_R3_type_instruction_encoding_map)
       \subseteq DOMAIN FloatSignalOf
  /\ \A n \in DOMAIN FloatSignalOf :
       /\ FloatSignalOf[n] = "kNone" <=> n \in {"fcvt_s_d", "fcvt_d_s"}
       /\ FloatSignalOf[n] # "kNone" => n = FloatName[FloatSignalOf[n]]
<1>1. FDExtensionRTypeInstructions \cup FDExtensionR1TypeInstructions \cup FDExtensionR2TypeInstructions
       \cup (FDExtensionR3TypeInstructions \cap DOMAIN F_D_R3_type_instruction_encoding_map)
       \subseteq DOMAIN FloatSignalOf
  BY SMTT(60) DEF FDExtensionRTypeInstructions, F_D_R_type_instruction_encoding_map,
     FDExtensionR1TypeInstructions, F_D_R1_type_instruction_encoding_map,
     FDExtensionR2TypeInstructions, F_D_R2_type_instruction_encoding_map,
     FDExtensionR3TypeInstructions, F_D_R3_type_instruction_encoding_map, FloatSignalOf
<1>2. \A n \in DOMAIN FloatSignalOf : FloatSignalOf[n] = "kNone" <=> n \in {"fcvt_s_d", "fcvt_d_s"}
  BY SMTT(60) DEF FloatSignalOf
<1>3. \A n \in DOMAIN FloatSignalOf : FloatSignalOf[n] # "kNone" => n = FloatName[FloatSignalOf[n]]
  BY SMTT(60) DEF FloatSignalOf, FloatName
<1> QED  BY <1>1, <1>2, <1>3

\* funct3 tells the loads, the stores, the branches and the instructions of the system apart
LEMMA Funct3Names ==
  /\ \A n, m \in I1TypeInstructions :
       LET e == I1_type_instruction_encoding_map[n]  f == I1_type_instruction_encoding_map[m] IN
       e.opcode = LOAD /\ f.opcode = LOAD /\ e.funct3 = f.funct3 => n = m
  /\ \A n, m \in STypeInstructions :
       S_type_instruction_encoding_map[n].funct3 = S_type_instruction_encoding_map[m].funct3 => n = m
  /\ \A n, m \in BTypeInstructions :
       B_type_instruction_encoding_map[n].funct3 = B_type_instruction_encoding_map[m].funct3 => n = m
  /\ \A n, m \in FDExtensionITypeInstructions :
       F_D_I_type_instruction_encoding_map[n].funct3 = F_D_I_type_instruction_encoding_map[m].funct3 => n = m
  /\ \A n, m \in FDExtensionSTypeInstructions :
       F_D_S_type_instruction_encoding_map[n].funct3 = F_D_S_type_instruction_encoding_map[m].funct3 => n = m
<1>1. \A n, m \in I1TypeInstructions :
       LET e == I1_type_instruction_encoding_map[n]  f == I1_type_instruction_encoding_map[m] IN
       e.opcode = LOAD /\ f.opcode = LOAD /\ e.funct3 = f.funct3 => n = m
  BY SMTT(60) DEF I1TypeInstructions, I1_type_instruction_encoding_map, Enc, OP_IMM, OP_IMM32, LOAD, JALR
<1>2. \A n, m \in STypeInstructions :
       S_type_instruction_encoding_map[n].funct3 = S_type_instruction_encoding_map[m].funct3 => n = m
  BY SMTT(60) DEF STypeInstructions, S_type_instruction_encoding_map, Enc
<1>3. \A n, m \in BTypeInstructions :
       B_type_instruction_encoding_map[n].funct3 = B_type_instruction_encoding_map[m].funct3 => n = m
  BY SMTT(60) DEF BTypeInstructions, B_type_instruction_encoding_map, Enc
<1>4. \A n, m \in FDExtensionITypeInstructions :
       F_D_I_type_instruction_encoding_map[n].funct3 = F_D_I_type_instruction_encoding_map[m].funct3 => n = m
  BY SMTT(60) DEF FDExtensionITypeInstructions, F_D_I_type_instruction_encoding_map, Enc
<1>5. \A n, m \in FDExtensionSTypeInstructions :
       F_D_S_type_instruction_encoding_map[n].funct3 = F_D_S_type_instruction_encoding_map[m].funct3 => n = m
  BY SMTT(60) DEF FDExtensionSTypeInstructions, F_D_S_type_instruction_encoding_map, Enc
<1> QED  BY <1>1, <1>2, <1>3, <1>4, <1>5

\* ebreak has the funct3 of csrrw
SystemNames == <<{"ebreak", "csrrw"}, {"csrrs"}, {"csrrc"}, {}, {"csrrwi"}, {"csrrsi"}, {"csrrci"}>>

LEMMA SystemFunct3 ==
  /\ \A n \in I3TypeInstructions :
       LET t == I3_type_instruction_encoding_map[n].funct3 IN
       t \in 0..7 /\ IF t = 0 THEN n = "ecall" ELSE n \in SystemNames[t]
  /\ \A n \in CSRRInstructions :
       LET t == CSR_R_type_instruction_encoding_map[n].funct3 IN
       t \in 0..7 /\ IF t = 0 THEN n = "ecall" ELSE n \in SystemNames[t]
  /\ \A n \in CSRIInstructions :
       LET t == CSR_I_type_instruction_encoding_map[n].funct3 IN
       t \in 0..7 /\ IF t = 0 THEN n = "ecall" ELSE n \in SystemNames[t]
<1>1. \A n \in I3TypeInstructions :
       LET t == I3_type_instruction_encoding_map[n].funct3 IN
       t \in 0..7 /\ IF t = 0 THEN n = "ecall" ELSE n \in SystemNames[t]
  BY SMTT(60) DEF I3TypeInstructions, I3_type_instruction_encoding_map, Enc, SystemNames
<1>2. \A n \in CSRRInstructions :
       LET t == CSR_R_type_instruction_encoding_map[n].funct3 IN
       t \in 0..7 /\ IF t = 0 THEN n = "ecall" ELSE n \in SystemNames[t]
  BY SMTT(60) DEF CSRRInstructions, CSR_R_type_instruction_encoding_map, Enc, SystemNames
<1>3. \A n \in CSRIInstructions :
       LET t == CSR_I_type_instruction_encoding_map[n].funct3 IN
       t \in 0..7 /\ IF t = 0 THEN n = "ecall" ELSE n \in SystemNames[t]
  BY SMTT(60) DEF CSRIInstructions, CSR_I_type_instruction_encoding_map, Enc, SystemNames
<1> QED  BY <1>1, <1>2, <1>3

----------------------------------------------------------------------------
(* What the machine sees of a word tells the mnemonic *)

Opcodes == {OP, OP32, OP_IMM, OP_IMM32, LOAD, JALR, STORE, BRANCH, LUI, AUIPC, JAL,
            MADD, MSUB, NMSUB, NMADD, SYSTEM, OP_FP, LOAD_FP, STORE_FP}

IdleOpcodes == {OP32, OP_IMM32, MADD, MSUB, NMSUB, NMADD}

LEMMA OpcodeFormats ==
  ASSUME NEW u, u.op \in MachineInstructions, generateMachineCode(u) # InvalidInstructionType
  PROVE  LET n == u.op
             c == generateMachineCode(u).opcode
         IN  /\ c \in Opcodes
             /\ c = OP => n \in RTypeInstructions
             /\ c = OP_IMM => n \in I1TypeInstructions \cup I2TypeInstructions
             /\ c = LOAD => n \in I1TypeInstructions
             /\ c = JALR => n = "jalr"
             /\ c = STORE => n \in STypeInstructions
             /\ c = BRANCH => n \in BTypeInstructions
             /\ c = LUI => n = "lui"
             /\ c = AUIPC => n = "auipc"
             /\ c = JAL => n = "jal"
             /\ c = SYSTEM => n \in I3TypeInstructions \cup CSRRInstructions \cup CSRIInstructions
             /\ c = OP_FP => n \in FDExtensionRTypeInstructions \cup FDExtensionR1TypeInstructions
                  \cup FDExtensionR2TypeInstructions
                  \cup (FDExtensionR3TypeInstructions \cap DOMAIN F_D_R3_type_instruction_encoding_map)
             /\ c = LOAD_FP => n \in FDExtensionITypeInstructions
             /\ c = STORE_FP => n \in FDExtensionSTypeInstructions
             /\ c \in IdleOpcodes => n \in WithoutEffect
<1> DEFINE n == u.op
           c == generateMachineCode(u).opcode
           R3 == FDExtensionR3TypeInstructions \cap DOMAIN F_D_R3_type_instruction_encoding_map
<1>1. n \in RTypeInstructions \cup I1TypeInstructions \cup I2TypeInstructions
            \cup I3TypeInstructions \cup STypeInstructions \cup BTypeInstructions
            \cup UTypeInstructions \cup JTypeInstructions \cup CSRRInstructions
            \cup CSRIInstructions \cup FDExtensionRTypeInstructions
            \cup FDExtensionR1TypeInstructions \cup FDExtensionR2TypeInstructions
            \cup R3 \cup FDExtensionR4TypeInstructions \cup FDExtensionITypeInstructions
            \cup FDExtensionSTypeInstructions
  BY EveryFormat
<1>2. /\ n \in RTypeInstructions => c \in {OP, OP32}
      /\ n \in I1TypeInstructions => c \in {OP_IMM, OP_IMM32, LOAD, JALR}
      /\ n \in I2TypeInstructions => c \in {OP_IMM, OP_IMM32}
      /\ n \in STypeInstructions => c = STORE
      /\ n \in BTypeInstructions => c = BRANCH
      /\ n \in UTypeInstructions => c = IF n = "lui" THEN LUI ELSE AUIPC
      /\ n \in JTypeInstructions => c = JAL
      /\ n \in I3TypeInstructions \cup CSRRInstructions \cup CSRIInstructions => c = SYSTEM
  BY RegisterOpcodes, OtherOpcodes
<1>3. /\ n \in FDExtensionRTypeInstructions \cup FDExtensionR1TypeInstructions
                \cup FDExtensionR2TypeInstructions => c = OP_FP
      /\ n \in R3 => c = OP_FP
      /\ n \in FDExtensionR4TypeInstructions => c \in {MADD, MSUB, NMSUB, NMADD}
      /\ n \in FDExtensionITypeInstructions => c = LOAD_FP
      /\ n \in FDExtensionSTypeInstructions => c = STORE_FP
  BY FloatOpcodes
<1>4. /\ n \in I1TypeInstructions => (c = JALR <=> n = "jalr")
      /\ n \in I1TypeInstructions \cup I2TypeInstructions => (c = OP_IMM32 <=> n \in WithoutImmediate)
      /\ n \in RTypeInstructions => R_type_instruction_encoding_map[n].opcode = c
  BY NamedOpcodes
<1>5. n \in FDExtensionR4TypeInstructions \/ (n \in RTypeInstructions /\ c = OP32)
        \/ n \in WithoutImmediate => n \in WithoutEffect
  BY <1>4 DEF WithoutEffect
<1> HIDE DEF n, c, R3
<1>6. /\ c \in Opcodes
      /\ c = OP => n \in RTypeInstructions
      /\ c = OP_IMM => n \in I1TypeInstructions \cup I2TypeInstructions
      /\ c = LOAD => n \in I1TypeInstructions
      /\ c = JALR => n = "jalr"
      /\ c = STORE => n \in STypeInstructions
      /\ c = BRANCH => n \in BTypeInstructions
      /\ c = LUI => n = "lui"
      /\ c = AUIPC => n = "auipc"
      /\ c = JAL => n = "jal"
  BY <1>1, <1>2, <1>3, <1>4, SpecialNames, SMTT(60) DEF Opcodes, OP, OP32, OP_IMM, OP_IMM32, LOAD, JALR,
     STORE, BRANCH, LUI, AUIPC, JAL, MADD, MSUB, NMSUB, NMADD, SYSTEM, OP_FP, LOAD_FP, STORE_FP
<1>7. /\ c = SYSTEM => n \in I3TypeInstructions \cup CSRRInstructions \cup CSRIInstructions
      /\ c = OP_FP => n \in FDExtensionRTypeInstructions \cup FDExtensionR1TypeInstructions
           \cup FDExtensionR2TypeInstructions \cup R3
      /\ c = LOAD_FP => n \in FDExtensionITypeInstructions
      /\ c = STORE_FP => n \in FDExtensionSTypeInstructions
  BY <1>1, <1>2, <1>3, SMTT(60) DEF OP, OP32, OP_IMM, OP_IMM32, LOAD, JALR,
     STORE, BRANCH, LUI, AUIPC, JAL, MADD, MSUB, NMSUB, NMADD, SYSTEM, OP_FP, LOAD_FP, STORE_FP
<1>8. c \in IdleOpcodes => n \in WithoutEffect
  BY <1>1, <1>2, <1>3, <1>4, <1>5, SMTT(60) DEF IdleOpcodes, OP, OP32, OP_IMM, OP_IMM32, LOAD, JALR,
     STORE, BRANCH, LUI, AUIPC, JAL, MADD, MSUB, NMSUB, NMADD, SYSTEM, OP_FP, LOAD_FP, STORE_FP
<1> QED
  BY <1>6, <1>7, <1>8 DEF n, c, R3

\* a shift whose amount has a sixth bit has no case of its own
LEMMA AnyImmediateSignal ==
  ASSUME NEW u, u.imm \in Int, u.op \in I1TypeInstructions \cup I2TypeInstructions,
         generateMachineCode(u).opcode = OP_IMM
  PROVE  /\ u.op \in {"addi", "xori", "ori", "andi", "slti", "sltiu", "slli", "srli", "srai"}
         /\ GetAluSignal(generateMachineCode(u)) \in {SignalOf[u.op], "kNone"}
<1> DEFINE w == generateMachineCode(u)
<1>1. GetAluSignal(w) = Select(ImmediateSignals, ImmediateKey(w))
  BY SignalCases
<1>2. CASE u.op \in I1TypeInstructions
  <2> DEFINE e == I1_type_instruction_encoding_map[u.op]
  <2>1. w.opcode = e.opcode /\ w.funct3 = e.funct3
    BY <1>2, I1Format DEF generateI1Type, Pack
  <2>2. e.funct3 # 5 /\ <<<<e.funct3>>, SignalOf[u.op]>> \in ImmediateSignals
    BY <1>2, <2>1, ImmediateRows
  <2>3. u.op \in {"addi", "xori", "ori", "andi", "slti", "sltiu"}
    BY <1>2, <2>1, ImmediateMnemonics
  <2> HIDE DEF w, e
  <2>4. ImmediateKey(w) = <<e.funct3>>
    BY <2>1, <2>2 DEF ImmediateKey
  <2>5. Select(ImmediateSignals, <<e.funct3>>) = SignalOf[u.op]
    BY <2>2, OneRow, SelectRow
  <2> QED  BY <1>1, <2>3, <2>4, <2>5 DEF w
<1>3. CASE u.op \in I2TypeInstructions
  <2> DEFINE e == I2_type_instruction_encoding_map[u.op]
             bit == Bits(u.imm, 32, 2)
  <2>1. w.opcode = e.opcode /\ w.funct3 = e.funct3 /\ w.funct7 = 2 * e.funct7 + bit
    BY <1>3, I2Format DEF generateI2Type, Pack
  <2>2. bit \in {0, 1}
    BY SMT DEF Bits
  <2>3. e.funct7 \in 0..63
    BY <1>3, I2Format
  <2>4. /\ u.op \in {"slli", "srli", "srai"}
        /\ e.funct3 # 5 => <<<<e.funct3>>, SignalOf[u.op]>> \in ImmediateSignals
        /\ e.funct3 = 5 => <<<<5, 2 * e.funct7>>, SignalOf[u.op]>> \in ImmediateSignals
    BY <1>3, <2>1, ImmediateRows
  <2> HIDE DEF w, e, bit
  <2>5. CASE e.funct3 # 5
    <3>1. ImmediateKey(w) = <<e.funct3>>
      BY <2>1, <2>5 DEF ImmediateKey
    <3>2. Select(ImmediateSignals, <<e.funct3>>) = SignalOf[u.op]
      BY <2>4, <2>5, OneRow, SelectRow
    <3> QED  BY <1>1, <2>4, <3>1, <3>2 DEF w
  <2>6. CASE e.funct3 = 5 /\ bit = 0
    <3>1. ImmediateKey(w) = <<5, 2 * e.funct7>>
      BY <2>1, <2>3, <2>6 DEF ImmediateKey
    <3>2. Select(ImmediateSignals, <<5, 2 * e.funct7>>) = SignalOf[u.op]
      BY <2>4, <2>6, OneRow, SelectRow
    <3> QED  BY <1>1, <2>4, <3>1, <3>2 DEF w
  <2>7. CASE e.funct3 = 5 /\ bit = 1
    <3>1. ImmediateKey(w) = <<5, w.funct7>> /\ w.funct7 = 2 * e.funct7 + 1
      BY <2>1, <2>7 DEF ImmediateKey
    <3>2. w.funct7 \notin {0, 32}
      BY <2>3, <3>1
    <3>3. ~\E r \in ImmediateSignals : r[1] = <<5, w.funct7>>
      <4> DEFINE f == w.funct7
      <4> HIDE DEF f
      <4>1. f \notin {0, 32} => ~\E r \in ImmediateSignals : r[1] = <<5, f>>
        BY SMTT(30) DEF ImmediateSignals
      <4> QED  BY <3>2, <4>1 DEF f
    <3>4. Select(ImmediateSignals, ImmediateKey(w)) = "kNone"
      BY <3>1, <3>3 DEF Select
    <3> QED  BY <1>1, <2>4, <3>4 DEF w
  <2> QED  BY <2>2, <2>5, <2>6, <2>7
<1> QED
  BY <1>2, <1>3

\* the part of the machine a word goes to
LEMMA RouteOf ==
  ASSUME NEW u, u.op \in MachineInstructions, generateMachineCode(u) # InvalidInstructionType
  PROVE  LET w == generateMachineCode(u) IN
         /\ w.opcode = SYSTEM => Route(w) = IF w.funct3 = 0 THEN "HandleSyscall" ELSE "ExecuteCsr"
         /\ w.opcode \in {OP_FP, LOAD_FP, STORE_FP} => Route(w) \in {"ExecuteFloat", "ExecuteDouble"}
         /\ w.opcode \notin {SYSTEM, OP_FP, LOAD_FP, STORE_FP} => Route(w) = "Execute"
<1> DEFINE w == generateMachineCode(u)
<1>1. SYSTEM \notin {OP_FP, LOAD_FP, STORE_FP} /\ OP_FP \notin {LOAD_FP, STORE_FP}
  BY SMT DEF SYSTEM, OP_FP, LOAD_FP, STORE_FP
<1>2. w.opcode = OP_FP => w.funct7 \in Int
  BY OpcodeFormats, FloatingSignal
<1>3. w.opcode \in {LOAD_FP, STORE_FP} => w.funct3 \in {2, 3}
  BY OpcodeFormats, FloatOpcodes
<1> HIDE DEF w
<1>4. w.opcode = OP_FP => w.funct7 % 2 = 0 \/ w.funct7 % 2 = 1
  BY <1>2, SMT
<1>5. w.opcode = SYSTEM => Route(w) = IF w.funct3 = 0 THEN "HandleSyscall" ELSE "ExecuteCsr"
  BY <1>1, Zenon DEF Route, isFInstruction, isDInstruction
<1>6. w.opcode = OP_FP => isFInstruction(w) \/ isDInstruction(w)
  BY <1>4, Zenon DEF isFInstruction, isDInstruction
<1>7. w.opcode \in {LOAD_FP, STORE_FP} => isFInstruction(w) \/ isDInstruction(w)
  BY <1>3, Zenon DEF isFInstruction, isDInstruction
<1>8. w.opcode \in {OP_FP, LOAD_FP, STORE_FP} => Route(w) \in {"ExecuteFloat", "ExecuteDouble"}
  BY <1>1, <1>6, <1>7, Zenon DEF Route
<1>9. w.opcode \notin {SYSTEM, OP_FP, LOAD_FP, STORE_FP} => Route(w) = "Execute"
  BY Zenon DEF Route, isFInstruction, isDInstruction
<1> QED
  BY <1>5, <1>8, <1>9 DEF w

\* of two words, whatever their fields
LEMMA SameBehaviour ==
  ASSUME NEW w, NEW x, Behaviour(w) = Behaviour(x)
  PROVE  /\ Route(w) = Route(x)
         /\ AluSrc(w) <=> AluSrc(x)
         /\ RegWrite(w) <=> RegWrite(x)
         /\ MemRead(w) <=> MemRead(x)
         /\ MemWrite(w) <=> MemWrite(x)
         /\ w.opcode \in {JAL, JALR} <=> x.opcode \in {JAL, JALR}
         /\ w.opcode = BRANCH <=> x.opcode = BRANCH
         /\ w.opcode \in {AUIPC, JALR} <=> x.opcode \in {AUIPC, JALR}
         /\ w.opcode = LUI <=> x.opcode = LUI
         /\ w.opcode = x.opcode /\ RegWrite(w) => GetAluSignal(w) = GetAluSignal(x)
         /\ w.opcode = x.opcode /\ w.opcode \in {LOAD, STORE, BRANCH, SYSTEM, LOAD_FP, STORE_FP} =>
              w.funct3 = x.funct3
<1>1. /\ Behaviour(w)[1] = Behaviour(x)[1] /\ Behaviour(w)[2] = Behaviour(x)[2]
      /\ Behaviour(w)[3] = Behaviour(x)[3] /\ Behaviour(w)[4] = Behaviour(x)[4]
      /\ Behaviour(w)[5] = Behaviour(x)[5] /\ Behaviour(w)[6] = Behaviour(x)[6]
      /\ Behaviour(w)[7] = Behaviour(x)[7] /\ Behaviour(w)[8] = Behaviour(x)[8]
      /\ Behaviour(w)[9] = Behaviour(x)[9] /\ Behaviour(w)[10] = Behaviour(x)[10]
      /\ Behaviour(w)[11] = Behaviour(x)[11]
  OBVIOUS
<1>2. \A y :
        /\ Behaviour(y)[1] = Route(y)
        /\ Behaviour(y)[2] = IF RegWrite(y) \/ MemWrite(y) THEN GetAluSignal(y) ELSE ""
        /\ Behaviour(y)[3] = IF y.opcode \in {LOAD, STORE, BRANCH, SYSTEM, LOAD_FP, STORE_FP}
                             THEN y.funct3 ELSE 0
        /\ Behaviour(y)[4] = AluSrc(y)
        /\ Behaviour(y)[5] = RegWrite(y)
        /\ Behaviour(y)[6] = MemRead(y)
        /\ Behaviour(y)[7] = MemWrite(y)
        /\ Behaviour(y)[8] = (y.opcode \in {JAL, JALR})
        /\ Behaviour(y)[9] = (y.opcode = BRANCH)
        /\ Behaviour(y)[10] = (y.opcode \in {AUIPC, JALR})
        /\ Behaviour(y)[11] = (y.opcode = LUI)
  BY DEF Behaviour
<1>3. /\ Route(w) = Route(x)
      /\ AluSrc(w) = AluSrc(x) /\ RegWrite(w) = RegWrite(x)
      /\ MemRead(w) = MemRead(x) /\ MemWrite(w) = MemWrite(x)
      /\ (w.opcode \in {JAL, JALR}) = (x.opcode \in {JAL, JALR})
      /\ (w.opcode = BRANCH) = (x.opcode = BRANCH)
      /\ (w.opcode \in {AUIPC, JALR}) = (x.opcode \in {AUIPC, JALR})
      /\ (w.opcode = LUI) = (x.opcode = LUI)
  BY <1>1, <1>2, Zenon
<1>4. RegWrite(w) <=> RegWrite(x)
  BY <1>3, Zenon DEF RegWrite
<1>5. w.opcode = x.opcode /\ RegWrite(w) => GetAluSignal(w) = GetAluSignal(x)
  <2>1. RegWrite(w) => Behaviour(w)[2] = GetAluSignal(w)
    BY <1>2
  <2>2. RegWrite(x) => Behaviour(x)[2] = GetAluSignal(x)
    BY <1>2
  <2> QED  BY <1>1, <1>4, <2>1, <2>2
<1>6. w.opcode = x.opcode /\ w.opcode \in {LOAD, STORE, BRANCH, SYSTEM, LOAD_FP, STORE_FP} =>
        w.funct3 = x.funct3
  BY <1>1, <1>2, Zenon
<1>7. /\ AluSrc(w) <=> AluSrc(x)
      /\ MemRead(w) <=> MemRead(x)
      /\ MemWrite(w) <=> MemWrite(x)
  BY <1>3, Zenon DEF AluSrc, MemRead, MemWrite
<1>8. /\ w.opcode \in {JAL, JALR} <=> x.opcode \in {JAL, JALR}
      /\ w.opcode = BRANCH <=> x.opcode = BRANCH
      /\ w.opcode \in {AUIPC, JALR} <=> x.opcode \in {AUIPC, JALR}
      /\ w.opcode = LUI <=> x.opcode = LUI
  BY <1>3, Zenon
<1> QED
  BY <1>3, <1>4, <1>5, <1>6, <1>7, <1>8

\* the signals of the control unit tell the opcodes that have an effect
LEMMA SameOpcode ==
  ASSUME NEW u, u.op \in MachineInstructions, generateMachineCode(u) # InvalidInstructionType,
         NEW v, v.op \in MachineInstructions, generateMachineCode(v) # InvalidInstructionType,
         generateMachineCode(u).opcode \notin IdleOpcodes,
         Behaviour(generateMachineCode(v)) = Behaviour(generateMachineCode(u))
  PROVE  generateMachineCode(v).opcode = generateMachineCode(u).opcode
<1> DEFINE w == generateMachineCode(u)
           x == generateMachineCode(v)
           c == w.opcode
           d == x.opcode
           Floats == {OP_FP, LOAD_FP, STORE_FP}
<1>1. c \in Opcodes \ IdleOpcodes /\ d \in Opcodes
  BY OpcodeFormats
<1>2. /\ Route(x) = Route(w)
      /\ AluSrc(x) <=> AluSrc(w)
      /\ RegWrite(x) <=> RegWrite(w)
      /\ MemRead(x) <=> MemRead(w)
      /\ MemWrite(x) <=> MemWrite(w)
      /\ d \in {JAL, JALR} <=> c \in {JAL, JALR}
      /\ d = BRANCH <=> c = BRANCH
      /\ d \in {AUIPC, JALR} <=> c \in {AUIPC, JALR}
      /\ d = LUI <=> c = LUI
  BY SameBehaviour
<1>3. /\ c = SYSTEM => Route(w) \in {"HandleSyscall", "ExecuteCsr"}
      /\ c \in Floats => Route(w) \in {"ExecuteFloat", "ExecuteDouble"}
      /\ c # SYSTEM /\ c \notin Floats => Route(w) = "Execute"
  BY RouteOf
<1>4. /\ d = SYSTEM => Route(x) \in {"HandleSyscall", "ExecuteCsr"}
      /\ d \in Floats => Route(x) \in {"ExecuteFloat", "ExecuteDouble"}
      /\ d # SYSTEM /\ d \notin Floats => Route(x) = "Execute"
  BY RouteOf
<1> HIDE DEF w, x
<1>5. (d = SYSTEM <=> c = SYSTEM) /\ (d \in Floats <=> c \in Floats)
  <2>1. SYSTEM \notin Floats
    BY SMT DEF SYSTEM, OP_FP, LOAD_FP, STORE_FP
  <2> HIDE DEF c, d, Floats
  <2> QED  BY <1>2, <1>3, <1>4, <2>1
<1>6. /\ d \in {LOAD, STORE, OP_IMM, LUI, AUIPC, JALR, LOAD_FP, STORE_FP} <=>
           c \in {LOAD, STORE, OP_IMM, LUI, AUIPC, JALR, LOAD_FP, STORE_FP}
      /\ d \in {OP, LOAD, OP_IMM, LUI, AUIPC, JAL, JALR, LOAD_FP, OP_FP} <=>
           c \in {OP, LOAD, OP_IMM, LUI, AUIPC, JAL, JALR, LOAD_FP, OP_FP}
      /\ d \in {LOAD, LOAD_FP} <=> c \in {LOAD, LOAD_FP}
      /\ d \in {STORE, STORE_FP} <=> c \in {STORE, STORE_FP}
  BY <1>2, Zenon DEF AluSrc, RegWrite, MemRead, MemWrite
<1> HIDE DEF c, d
<1>7. d = c
  BY <1>1, <1>2, <1>5, <1>6, SMTT(60) DEF Opcodes, IdleOpcodes, OP, OP32, OP_IMM, OP_IMM32, LOAD, JALR,
     STORE, BRANCH, LUI, AUIPC, JAL, MADD, MSUB, NMSUB, NMADD, SYSTEM, OP_FP, LOAD_FP, STORE_FP
<1> QED  BY <1>7 DEF c, d, w, x

\* the fields of the table of the mnemonic are those of the word
LEMMA Funct3Of ==
  ASSUME NEW u
  PROVE  LET w == generateMachineCode(u)
             n == u.op
         IN  /\ n \in I1TypeInstructions =>
                  /\ w.opcode = I1_type_instruction_encoding_map[n].opcode
                  /\ w.funct3 = I1_type_instruction_encoding_map[n].funct3
             /\ n \in STypeInstructions => w.funct3 = S_type_instruction_encoding_map[n].funct3
             /\ n \in BTypeInstructions => w.funct3 = B_type_instruction_encoding_map[n].funct3
             /\ n \in I3TypeInstructions => w.funct3 = I3_type_instruction_encoding_map[n].funct3
             /\ n \in CSRRInstructions => w.funct3 = CSR_R_type_instruction_encoding_map[n].funct3
             /\ n \in CSRIInstructions => w.funct3 = CSR_I_type_instruction_encoding_map[n].funct3
             /\ n \in FDExtensionITypeInstructions =>
                  w.funct3 = F_D_I_type_instruction_encoding_map[n].funct3
             /\ n \in FDExtensionSTypeInstructions =>
                  w.funct3 = F_D_S_type_instruction_encoding_map[n].funct3
BY I1Format, SFormat, BFormat, I3Format, CSRRFormat, CSRIFormat, FDIFormat, FDSFormat
   DEF generateI1Type, generateSType, generateBType, generateI3Type, generateCSRType, Pack

LEMMA Pair ==
  ASSUME NEW p, NEW q, NEW m \in {p, q}, NEW n \in {p, q}
  PROVE  m = n \/ {m, n} = {p, q}
OBVIOUS

\* an opcode, its signal and its funct3 belong to one mnemonic, or to two the machine confuses
LEMMA OneMnemonic ==
  ASSUME NEW u, u.op \in MachineInstructions, generateMachineCode(u) # InvalidInstructionType,
         Accepted(u),
         NEW v, v.op \in MachineInstructions, generateMachineCode(v) # InvalidInstructionType,
         v.imm \in Int,
         generateMachineCode(u).opcode \notin IdleOpcodes,
         Behaviour(generateMachineCode(v)) = Behaviour(generateMachineCode(u))
  PROVE  v.op = u.op \/ {v.op, u.op} \in Confused
<1> DEFINE w == generateMachineCode(u)
           x == generateMachineCode(v)
           c == w.opcode
           m == v.op
           n == u.op
<1>1. x.opcode = c /\ c \in Opcodes \ IdleOpcodes
  BY SameOpcode, OpcodeFormats
<1>2. /\ RegWrite(w) => GetAluSignal(x) = GetAluSignal(w)
      /\ c \in {LOAD, STORE, BRANCH, SYSTEM, LOAD_FP, STORE_FP} => x.funct3 = w.funct3
  BY <1>1, SameBehaviour
<1>3. CASE c = OP
  <2>1. m \in RTypeInstructions /\ n \in RTypeInstructions
    BY <1>1, <1>3, OpcodeFormats
  <2>2. /\ R_type_instruction_encoding_map[m].opcode = OP
        /\ R_type_instruction_encoding_map[n].opcode = OP
    BY <1>1, <1>3, <2>1, NamedOpcodes
  <2>3. SignalOf[m] = SignalOf[n]
    BY <1>2, <1>3, <2>1, RegisterSignal DEF RegWrite
  <2> QED  BY <2>1, <2>2, <2>3, RegisterNames
<1>4. CASE c = OP_IMM
  <2>1. m \in I1TypeInstructions \cup I2TypeInstructions /\ n \in I1TypeInstructions \cup I2TypeInstructions
    BY <1>1, <1>4, OpcodeFormats
  <2>2. GetAluSignal(w) = SignalOf[n]
    BY <1>4, <2>1, ImmediateSignal
  <2>3. u.imm \in Int
    BY UnitFields
  <2> DEFINE Names == {"addi", "xori", "ori", "andi", "slti", "sltiu", "slli", "srli", "srai"}
  <2>4. m \in Names /\ n \in Names /\ GetAluSignal(x) \in {SignalOf[m], "kNone"}
    BY <1>1, <1>4, <2>1, <2>3, AnyImmediateSignal
  <2>5. SignalOf[m] = SignalOf[n]
    BY <1>2, <1>4, <2>2, <2>4, ImmediateNames DEF RegWrite
  <2> QED  BY <2>4, <2>5, ImmediateNames
<1>5. CASE c = OP_FP
  <2>1. /\ m \in DOMAIN FloatSignalOf /\ GetAluSignal(x) = FloatSignalOf[m]
        /\ n \in DOMAIN FloatSignalOf /\ GetAluSignal(w) = FloatSignalOf[n]
    BY <1>1, <1>5, OpcodeFormats, FloatingSignal, FloatNames
  <2>2. FloatSignalOf[m] = FloatSignalOf[n]
    BY <1>2, <1>5, <2>1 DEF RegWrite
  <2>3. CASE FloatSignalOf[n] # "kNone"
    BY <2>1, <2>2, <2>3, FloatNames
  <2>4. CASE FloatSignalOf[n] = "kNone"
    <3>1. m \in {"fcvt_s_d", "fcvt_d_s"} /\ n \in {"fcvt_s_d", "fcvt_d_s"}
      BY <2>1, <2>2, <2>4, FloatNames
    <3>2. m = n \/ {m, n} = {"fcvt_s_d", "fcvt_d_s"}
      BY <3>1, Pair
    <3> QED  BY <3>2 DEF Confused
  <2> QED  BY <2>3, <2>4
<1>6. CASE c = SYSTEM
  <2> DEFINE t == w.funct3
  <2>1. /\ m \in I3TypeInstructions \cup CSRRInstructions \cup CSRIInstructions
        /\ n \in I3TypeInstructions \cup CSRRInstructions \cup CSRIInstructions
    BY <1>1, <1>6, OpcodeFormats
  <2>2. x.funct3 = t
    BY <1>2, <1>6
  <2>3. /\ t \in 0..7
        /\ IF t = 0 THEN m = "ecall" ELSE m \in SystemNames[t]
        /\ IF t = 0 THEN n = "ecall" ELSE n \in SystemNames[t]
    BY <2>1, <2>2, Funct3Of, SystemFunct3
  <2> HIDE DEF t
  <2>4. m = n \/ (m \in {"ebreak", "csrrw"} /\ n \in {"ebreak", "csrrw"})
    BY <2>3, SMTT(30) DEF SystemNames
  <2>5. m = n \/ {m, n} = {"ebreak", "csrrw"}
    BY <2>4, Pair
  <2> QED  BY <2>5 DEF Confused
<1>7. CASE c = LOAD
  <2>1. m \in I1TypeInstructions /\ n \in I1TypeInstructions
    BY <1>1, <1>7, OpcodeFormats
  <2> QED  BY <1>1, <1>2, <1>7, <2>1, Funct3Of, Funct3Names
<1>8. CASE c = STORE
  <2>1. m \in STypeInstructions /\ n \in STypeInstructions
    BY <1>1, <1>8, OpcodeFormats
  <2> QED  BY <1>2, <1>8, <2>1, Funct3Of, Funct3Names
<1>9. CASE c = BRANCH
  <2>1. m \in BTypeInstructions /\ n \in BTypeInstructions
    BY <1>1, <1>9, OpcodeFormats
  <2> QED  BY <1>2, <1>9, <2>1, Funct3Of, Funct3Names
<1>10. CASE c = LOAD_FP
  <2>1. m \in FDExtensionITypeInstructions /\ n \in FDExtensionITypeInstructions
    BY <1>1, <1>10, OpcodeFormats
  <2> QED  BY <1>2, <1>10, <2>1, Funct3Of, Funct3Names
<1>11. CASE c = STORE_FP
  <2>1. m \in FDExtensionSTypeInstructions /\ n \in FDExtensionSTypeInstructions
    BY <1>1, <1>11, OpcodeFormats
  <2> QED  BY <1>2, <1>11, <2>1, Funct3Of, Funct3Names
<1>12. CASE c \in {JALR, JAL, LUI, AUIPC}
  BY <1>1, <1>12, OpcodeFormats
<1> QED
  BY <1>1, <1>3, <1>4, <1>5, <1>6, <1>7, <1>8, <1>9, <1>10, <1>11, <1>12 DEF Opcodes, IdleOpcodes

(***************************************************************************)
(* No two mnemonics are executed alike, but for ebreak and csrrw and for   *)
(* the two conversions between the floating-point formats: for every       *)
(* accepted statement, with whatever operands.                             *)
(***************************************************************************)
THEOREM AlwaysToldApart == Spec => []ToldApart
<1>1. WordInv => ToldApart
  <2> SUFFICES ASSUME WordInv, stage = "loaded", unit.op \notin WithoutEffect,
                      NEW n \in MachineInstructions \ {unit.op},
                      generateMachineCode([unit EXCEPT !.op = n]) # InvalidInstructionType,
                      {n, unit.op} \notin Confused,
                      Behaviour(generateMachineCode([unit EXCEPT !.op = n])) = Behaviour(word)
               PROVE  FALSE
    BY DEF ToldApart
  <2> DEFINE v == [unit EXCEPT !.op = n]
  <2>1. /\ Accepted(unit) /\ unit \in UnitType /\ unit.op \in MachineInstructions
        /\ word = generateMachineCode(unit) /\ word # InvalidInstructionType
    <3>1. Accepted(unit) /\ word = generateMachineCode(unit) /\ word # InvalidInstructionType
      BY DEF WordInv, Encoded
    <3>2. unit \in UnitType
      BY <3>1 DEF Accepted
    <3>3. unit.op \in MachineInstructions
      BY <3>2 DEF UnitType
    <3> QED  BY <3>1, <3>2, <3>3
  <2>2. v.op = n /\ v.imm \in Int
    <3>1. v \in UnitType /\ v.op = n
      BY <2>1 DEF UnitType
    <3>2. v.imm \in Int
      BY <3>1 DEF UnitType
    <3> QED  BY <3>1, <3>2
  <2>3. word.opcode \notin IdleOpcodes
    BY <2>1, OpcodeFormats
  <2> HIDE DEF v
  <2>4. n = unit.op \/ {n, unit.op} \in Confused
    BY <2>1, <2>2, <2>3, OneMnemonic DEF v
  <2> QED  BY <2>4
<1> QED  BY <1>1, AlwaysWord, PTL

==============================================================================
