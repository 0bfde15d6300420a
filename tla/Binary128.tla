----------------------------- MODULE Binary128 -----------------------------
(***************************************************************************)
(* The binary128 arithmetic of lib/lib-arm64.c, which tcc's riscv64 code   *)
(* calls for every long double operation.  A long double is two words of   *)
(* W bits; the upper one holds the sign, E exponent bits and FH fraction   *)
(* bits, the lower one W fraction bits (in the code W = 64, E = 15,        *)
(* FH = 48).  Every constant of the code is written in terms of W and E;   *)
(* a float or a double has ED exponent and FD fraction bits.               *)
(***************************************************************************)
EXTENDS Integers

CONSTANTS W,       \* bits of a word
          E,       \* exponent bits of a long double
          ED, FD   \* exponent and fraction bits of a narrower format

FH == W - E - 1
F == W + FH
Bias == 2^(E - 1) - 1
EMax == 2^E - 1
BiasD == 2^(ED - 1) - 1
EMaxD == 2^ED - 1

ASSUME WidthAssumption == /\ E \in Nat /\ E > 3
                          /\ W \in Nat /\ FH > 0
                          /\ ED \in Nat /\ ED > 1 /\ ED < E
                          /\ FD \in Nat /\ FD > 0 /\ FD < F - 1

(* A long double as one integer: its sign and the rest of its pattern. *)
Sign(f) == f \div 2^(2 * W - 1)
Pattern(f) == f % 2^(2 * W - 1)
IsNaN(f) == Pattern(f) > EMax * 2^F
IsInf(f) == Pattern(f) = EMax * 2^F
Finite(f) == Pattern(f) < EMax * 2^F

-----------------------------------------------------------------------------
(* Words and pairs of words (u128_t). *)

Shl(x, n) == (x * 2^n) % 2^W
Shr(x, n) == x \div 2^n

(* x | (b ? 1 : 0) *)
Or1(x, b) == IF b /\ x % 2 = 0 THEN x + 1 ELSE x

Pair(n) == [x0 |-> n % 2^W, x1 |-> n \div 2^W]
Join(x) == x.x1 * 2^W + x.x0
IsZero(x) == x.x0 = 0 /\ x.x1 = 0

SignBit(sgn) == sgn * 2^(W - 1)

f3_zero(sgn) == [x0 |-> 0, x1 |-> SignBit(sgn)]
f3_infinity(sgn) == [x0 |-> 0, x1 |-> SignBit(sgn) + EMax * 2^FH]
f3_NaN == [x0 |-> 2^W - 1, x1 |-> 2^(W - 1) - 1]

(* The quiet NaN with the payload, the sign and all exponent bits. *)
fp3_convert_NaN(sgn, mnt) ==
  LET frac == mnt.x1 % 2^FH
      quiet == IF frac \div 2^(FH - 1) = 1 THEN frac ELSE frac + 2^(FH - 1)
  IN [x0 |-> mnt.x0, x1 |-> SignBit(sgn) + EMax * 2^FH + quiet]

(* The sign, the exponent and the mantissa with its implicit bit. *)
f3_unpack(f) ==
  LET x == Pair(f)
      e == (x.x1 \div 2^FH) % 2^E
      m == x.x1 % 2^FH
  IN [sgn |-> x.x1 \div 2^(W - 1),
      exp |-> IF e = 0 THEN 1 ELSE e,
      mnt |-> [x0 |-> x.x0, x1 |-> IF e = 0 THEN m ELSE m + 2^FH]]

NaNOperand(u) == u.exp = EMax /\ (u.mnt.x0 # 0 \/ u.mnt.x1 % 2^FH # 0)
Signalling(u) == NaNOperand(u) /\ (u.mnt.x1 \div 2^(FH - 1)) % 2 = 0

(* fp3_detect_NaNs(): a signalling NaN first, then a quiet one. *)
NaNResult(a, b) ==
  LET u == CASE Signalling(a) -> a
             [] ~Signalling(a) /\ Signalling(b) -> b
             [] OTHER -> IF NaNOperand(a) THEN a ELSE b
  IN fp3_convert_NaN(u.sgn, u.mnt)

(* f3_normalise(): shift left until the top bit is set. *)
f3_normalise(exp, mnt) ==
  LET wide == mnt.x1 = 0
      m == IF wide THEN [x0 |-> 0, x1 |-> mnt.x0] ELSE mnt
      sh == CHOOSE n \in 0..(W - 1) : /\ Shl(m.x1, n) = m.x1 * 2^n
                                      /\ Shl(m.x1, n) >= 2^(W - 1)
  IN IF IsZero(mnt) THEN [exp |-> exp, mnt |-> mnt]
     ELSE [exp |-> exp - sh - (IF wide THEN W ELSE 0),
           mnt |-> [x0 |-> Shl(m.x0, sh),
                    x1 |-> Shl(m.x1, sh) + Shr(m.x0, W - sh)]]

(* Mutant: what is shifted out is forgotten. *)
MutSticky(sh, x) ==
  LET y == IF sh >= W THEN [x0 |-> x.x1, x1 |-> 0] ELSE x
      s == IF sh >= W THEN sh - W ELSE sh
  IN IF sh >= 2 * W THEN [x0 |-> 0, x1 |-> 0]
     ELSE [x0 |-> Shr(y.x0, s) + Shl(y.x1, W - s), x1 |-> Shr(y.x1, s)]

(* f3_sticky_shift(): shift right; the lowest bit stays set if any 1 was   *)
(* shifted out.                                                            *)
f3_sticky_shift(sh, x) ==
  LET y == IF sh >= W THEN [x0 |-> Or1(x.x1, x.x0 # 0), x1 |-> 0] ELSE x
      s == IF sh >= W THEN sh - W ELSE sh
  IN IF sh >= 2 * W THEN [x0 |-> IF IsZero(x) THEN 0 ELSE 1, x1 |-> 0]
     ELSE IF s = 0 THEN y
     ELSE [x0 |-> Or1(Shr(y.x0, s) + Shl(y.x1, W - s), Shl(y.x0, W - s) # 0),
           x1 |-> Shr(y.x1, s)]

(* f3_round(): the mantissa has its top bit set; round it to nearest, ties *)
(* to even, with a carry into the upper word and into the exponent.        *)
f3_round(sgn, exp, x) ==
  LET y == f3_sticky_shift(IF exp > 0 THEN E - 2 ELSE E - 1 - exp, x)
      e == IF exp > 0 THEN exp ELSE 0
      lo == Shr(y.x0, 2) + Shl(y.x1, W - 2)
      hi == Shr(y.x1, 2)
      up == y.x0 % 4 = 3 \/ (y.x0 % 4 = 2 /\ lo % 2 = 1)
      carry == up /\ lo = 2^W - 1
      full == carry /\ hi + 1 = 2^(FH + 1)
      exp1 == IF carry /\ hi + 1 = 2^FH THEN 1 ELSE IF full THEN e + 1 ELSE e
      lo1 == IF full THEN Shl(hi + 1, W - 1) ELSE IF up THEN (lo + 1) % 2^W ELSE lo
      hi1 == IF full THEN Shr(hi + 1, 1) ELSE IF carry THEN hi + 1 ELSE hi
  IN IF exp1 >= EMax THEN f3_infinity(sgn)
     ELSE [x0 |-> lo1, x1 |-> (hi1 % 2^FH) + exp1 * 2^FH + SignBit(sgn)]

-----------------------------------------------------------------------------
(* Arithmetic. *)

(* Sum and difference of two pairs, the difference modulo 2^(2W). *)
AddPair(a, b) ==
  LET lo == (a.x0 + b.x0) % 2^W
  IN [x0 |-> lo, x1 |-> (a.x1 + b.x1 + (IF lo < a.x0 THEN 1 ELSE 0)) % 2^W]

SubPair(a, b) ==
  LET lo == (a.x0 - b.x0) % 2^W
  IN [x0 |-> lo, x1 |-> (a.x1 - b.x1 - (IF lo > a.x0 THEN 1 ELSE 0)) % 2^W]

NegPair(a) ==
  LET lo == (-a.x0) % 2^W
  IN [x0 |-> lo, x1 |-> (-a.x1 - (IF lo # 0 THEN 1 ELSE 0)) % 2^W]

Shl3(x) == [x0 |-> Shl(x.x0, 3), x1 |-> Shl(x.x1, 3) + Shr(x.x0, W - 3)]

(* The aligned mantissas are added or subtracted. *)
Magnitude(a_sgn, b_sgn, a, b) ==
  LET d == SubPair(a, b)
  IN IF a_sgn = b_sgn THEN [sgn |-> a_sgn, mnt |-> AddPair(a, b)]
     ELSE IF d.x1 >= 2^(W - 1) THEN [sgn |-> 1 - a_sgn, mnt |-> NegPair(d)]
     ELSE [sgn |-> a_sgn, mnt |-> d]

f3_add(f, g, neg) ==
  LET a == f3_unpack(f)
      b0 == f3_unpack(g)
      b == [b0 EXCEPT !.sgn = (@ + neg) % 2]
      exp == IF a.exp <= b.exp THEN b.exp ELSE a.exp
      x == Magnitude(a.sgn, b.sgn, f3_sticky_shift(exp - a.exp, Shl3(a.mnt)),
                                   f3_sticky_shift(exp - b.exp, Shl3(b.mnt)))
      n == f3_normalise(exp, x.mnt)
  IN CASE NaNOperand(a) \/ NaNOperand(b) -> NaNResult(a, b0)
       [] OTHER ->
          IF a.exp = EMax /\ b.exp = EMax /\ a.sgn # b.sgn THEN f3_NaN
          ELSE IF a.exp = EMax THEN f3_infinity(a.sgn)
          ELSE IF b.exp = EMax THEN f3_infinity(b.sgn)
          ELSE IF IsZero(a.mnt) /\ IsZero(b.mnt) THEN f3_zero(a.sgn * b.sgn)
          ELSE IF IsZero(x.mnt) THEN f3_zero(0)
          ELSE f3_round(x.sgn, n.exp + E - 3, n.mnt)

(* The upper half of the product of two normalised mantissas, renormalised.*)
Product(a, b) ==
  LET p == Join(a.mnt) * Join(b.mnt)
      y == Pair(Or1(p \div 2^(2 * W), p % 2^(2 * W) # 0))
      exp == a.exp + b.exp - Bias + 2 * E + 1
  IN IF y.x1 >= 2^(W - 1) THEN [exp |-> exp, mnt |-> y]
     ELSE [exp |-> exp - 1,
           mnt |-> [x0 |-> Shl(y.x0, 1), x1 |-> Shl(y.x1, 1) + Shr(y.x0, W - 1)]]

multf3(f, g) ==
  LET a == f3_unpack(f)
      b == f3_unpack(g)
      sgn == (a.sgn + b.sgn) % 2
      x == Product(f3_normalise(a.exp, a.mnt), f3_normalise(b.exp, b.mnt))
  IN IF NaNOperand(a) \/ NaNOperand(b) THEN NaNResult(a, b)
     ELSE IF (a.exp = EMax /\ IsZero(b.mnt)) \/ (b.exp = EMax /\ IsZero(a.mnt))
       THEN f3_NaN
     ELSE IF a.exp = EMax \/ b.exp = EMax THEN f3_infinity(sgn)
     ELSE IF IsZero(a.mnt) \/ IsZero(b.mnt) THEN f3_zero(sgn)
     ELSE f3_round(sgn, x.exp, x.mnt)

(* The quotient's bits, one more than rounding needs, and the remainder.   *)
QBits == F + 4

Quotient(a, b) ==
  LET n == (Join(a.mnt) \div 2) * 2^(QBits - 1)
      d == Join(b.mnt) \div 2
  IN f3_normalise(a.exp - b.exp + Bias + 2 * W - QBits,
                  Pair(Or1(n \div d, n % d # 0)))

divtf3(f, g) ==
  LET a == f3_unpack(f)
      b == f3_unpack(g)
      sgn == (a.sgn + b.sgn) % 2
      x == Quotient(f3_normalise(a.exp, a.mnt), f3_normalise(b.exp, b.mnt))
  IN IF NaNOperand(a) \/ NaNOperand(b) THEN NaNResult(a, b)
     ELSE IF (a.exp = EMax /\ b.exp = EMax) \/ (IsZero(a.mnt) /\ IsZero(b.mnt))
       THEN f3_NaN
     ELSE IF a.exp = EMax \/ IsZero(b.mnt) THEN f3_infinity(sgn)
     ELSE IF IsZero(a.mnt) \/ b.exp = EMax THEN f3_zero(sgn)
     ELSE f3_round(sgn, x.exp, x.mnt)

-----------------------------------------------------------------------------
(* Conversions and comparison. *)

(* The exponent of a subnormal number that is shifted left by adj. *)
SubnormalExp(adj) == Bias - BiasD - adj + 1

(* __extendsftf2(), __extenddftf2() *)
extendtf2(a) ==
  LET sgn == a \div 2^(ED + FD)
      e == (a \div 2^FD) % 2^ED
      m == a % 2^FD
      adj == CHOOSE n \in 1..FD : m * 2^n >= 2^FD /\ m * 2^(n - 1) < 2^FD
      Compose(exp, frac) == sgn * 2^(2 * W - 1) + exp * 2^F + frac * 2^(F - FD)
  IN IF e = 0 /\ m = 0 THEN Compose(0, 0)
     ELSE IF e = EMaxD
       THEN Compose(EMax, IF m # 0 /\ m < 2^(FD - 1) THEN m + 2^(FD - 1) ELSE m)
     ELSE IF e = 0 THEN Compose(SubnormalExp(adj), m * 2^adj - 2^FD)
     ELSE Compose(e + Bias - BiasD, m)

(* Mutant: what is below the smallest subnormal is cut off one binade too  *)
(* early.                                                                  *)
MutTooSmall(exp) == exp < Bias - BiasD - FD + 1

TooSmall(exp) == exp < Bias - BiasD - FD

(* __trunctfsf2(), __trunctfdf2() *)
trunctf2(f) ==
  LET u == f3_unpack(f)
      sgn == u.sgn * 2^(ED + FD)
      m == Join(u.mnt)
      exp == u.exp - (Bias - BiasD + 1)
      x == Or1(m \div 2^(F - FD - 2), m % 2^(F - FD - 2) # 0)
      y == IF exp < 0 THEN Or1(x \div 2^(-exp), x % 2^(-exp) # 0) ELSE x
      z == IF y % 4 = 3 \/ y % 8 = 6 THEN y + 4 ELSE y
  IN IF NaNOperand(u)
       THEN sgn + EMaxD * 2^FD
            + (IF (m % 2^F) \div 2^(F - 1) = 1 THEN (m % 2^F) \div 2^(F - FD)
               ELSE (m % 2^F) \div 2^(F - FD) + 2^(FD - 1))
     ELSE IF u.exp > Bias - BiasD + EMaxD - 1 THEN sgn + EMaxD * 2^FD
     ELSE IF TooSmall(u.exp) THEN sgn
     ELSE sgn + z \div 4 + (IF exp < 0 THEN 0 ELSE exp * 2^FD)

(* __fixtfsi(), __fixtfdi(): to a signed word. *)
fixtfdi(f) ==
  LET a == f3_unpack(f)
      top == Shl(a.mnt.x1, E) + Shr(a.mnt.x0, W - E)
      x == Shr(top, Bias + W - 1 - a.exp)
  IN IF a.exp < Bias THEN 0
     ELSE IF a.exp > Bias + W - 2 THEN IF a.sgn = 1 THEN -2^(W - 1) ELSE 2^(W - 1) - 1
     ELSE IF a.sgn = 1 THEN -x ELSE x

(* __fixunstfsi(), __fixunstfdi(): to an unsigned word. *)
fixunstfdi(f) ==
  LET a == f3_unpack(f)
  IN IF a.sgn = 1 \/ a.exp < Bias THEN 0
     ELSE IF a.exp > Bias + W - 1 THEN 2^W - 1
     ELSE Shr(Shl(a.mnt.x1, E) + Shr(a.mnt.x0, W - E), Bias + W - 1 - a.exp)

(* A word, normalised, as the mantissa of a long double. *)
FloatWord(sgn, n) ==
  LET sh == CHOOSE k \in 0..(W - 1) : n * 2^k < 2^W /\ n * 2^k >= 2^(W - 1)
      mnt == Shl(n, sh)
  IN IF n = 0 THEN 0
     ELSE Join([x0 |-> Shl(mnt, W - E),
                x1 |-> SignBit(sgn) + (Bias + W - 1 - sh) * 2^FH
                       + Shr(Shl(mnt, 1), E + 1)])

(* __floatsitf(), __floatditf(), and their unsigned variants. *)
floatditf(a) ==
  IF a >= 2^(W - 1) THEN FloatWord(1, 2^W - a) ELSE FloatWord(0, a)

floatunditf(a) == FloatWord(0, a)

(* f3_cmp(): 0 equal, -1 less, 1 greater, 2 unordered; sign and magnitude  *)
(* are compared as words.                                                  *)
f3_cmp(f, g) ==
  LET a == Pair(f)
      b == Pair(g)
      neg == a.x1 \div 2^(W - 1)
  IN IF f % 2^(2 * W - 1) = 0 /\ g % 2^(2 * W - 1) = 0 THEN 0
     ELSE IF NaNOperand(f3_unpack(f)) \/ NaNOperand(f3_unpack(g)) THEN 2
     ELSE IF neg # b.x1 \div 2^(W - 1) THEN b.x1 \div 2^(W - 1) - neg
     ELSE IF a.x1 < b.x1 \/ (a.x1 = b.x1 /\ a.x0 < b.x0) THEN 2 * neg - 1
     ELSE IF f = g THEN 0
     ELSE 1 - 2 * neg

=============================================================================
