----------------------------- MODULE SoftFloat -----------------------------
(***************************************************************************)
(* A program that calls the long double library (lib/lib-arm64.c): one     *)
(* action per function.  Each result is compared with the exact value,     *)
(* rounded once.                                                           *)
(***************************************************************************)
EXTENDS Binary128

CONSTANT Operand   \* the long doubles the program computes with, as integers

ASSUME OperandAssumption == Operand \subseteq 0..(2^(2 * W) - 1)

VARIABLES
  fa, fb,  \* the arguments
  op,      \* the function that was called, or "none"
  fx       \* its result

vars == <<fa, fb, op, fx>>

-----------------------------------------------------------------------------
Init == /\ fa \in Operand
        /\ fb \in Operand
        /\ op = "none"
        /\ fx = 0

Returns(name, x) == /\ op = "none"
                    /\ op' = name
                    /\ fx' = x
                    /\ UNCHANGED <<fa, fb>>

addtf3 == Returns("add", Join(f3_add(fa, fb, 0)))
subtf3 == Returns("sub", Join(f3_add(fa, fb, 1)))
Multf3 == Returns("mul", Join(multf3(fa, fb)))
Divtf3 == Returns("div", Join(divtf3(fa, fb)))
Extend == Returns("extend", extendtf2(fa % 2^(1 + ED + FD)))
Trunc == Returns("trunc", trunctf2(fa))
Fix == Returns("fix", fixtfdi(fa))
Fixuns == Returns("fixuns", fixunstfdi(fa))
Float == Returns("float", floatditf(fa % 2^W))
Floatun == Returns("floatun", floatunditf(fa % 2^W))

(* __lttf2(), __letf2(), __eqtf2() and __netf2() return f3_cmp(a, b) or    *)
(* its truth value; __gttf2() and __getf2() return -f3_cmp(b, a).          *)
lttf2 == Returns("lt", f3_cmp(fa, fb))
gttf2 == Returns("gt", -f3_cmp(fb, fa))

Next == \/ addtf3 \/ subtf3 \/ Multf3 \/ Divtf3 \/ Extend \/ Trunc
        \/ Fix \/ Fixuns \/ Float \/ Floatun \/ lttf2 \/ gttf2

Spec == Init /\ [][Next]_vars

-----------------------------------------------------------------------------
(* The reference: exact values and one rounding. *)

Pos(n) == IF n > 0 THEN n ELSE 0
Bits(n) == CHOOSE k \in 1..32 : n < 2^k /\ (k = 1 \/ n >= 2^(k - 1))

(* The format with fd fraction bits has its finite values in order at the  *)
(* patterns below emax * 2^fd, which is infinity.  Nearest is the pattern  *)
(* nearest to p/q * 2^x units, a unit being the smallest positive value;   *)
(* of two, the even one.                                                   *)
Nearest(p, q, x, fd, emax) ==
  LET b == Bits(p) - Bits(q)
      lg == IF p * 2^Pos(-b) >= q * 2^Pos(b) THEN x + b ELSE x + b - 1
      k == Pos(lg - fd)
      num == p * 2^Pos(x - k)
      den == q * 2^Pos(k - x)
      m == num \div den
      r == 2 * (num % den)
      n == k * 2^fd + m + (IF r > den \/ (r = den /\ m % 2 = 1) THEN 1 ELSE 0)
  IN IF p = 0 THEN 0 ELSE IF n > emax * 2^fd THEN emax * 2^fd ELSE n

(* A finite f is Mant(f) * 2^Exp(f) units. *)
Exp(f) == Pos(Pattern(f) \div 2^F - 1)
Mant(f) == IF Pattern(f) < 2^F THEN Pattern(f) ELSE (Pattern(f) % 2^F) + 2^F
Units == Bias + F - 1
UnitsD == BiasD + FD - 1

Exact(f) == (IF Sign(f) = 1 THEN -1 ELSE 1) * Mant(f) * 2^Exp(f)
Abs(n) == IF n < 0 THEN -n ELSE n

(* __addtf3() and __subtf3() of finite numbers give the exact sum, rounded *)
(* once to nearest-even, with the sign of the exact sum.                   *)
SumNearest ==
  op \in {"add", "sub"} /\ Finite(fa) /\ Finite(fb) =>
    LET x == Exact(fa) + (IF op = "add" THEN 1 ELSE -1) * Exact(fb)
    IN /\ Pattern(fx) = Nearest(Abs(x), 1, 0, F, EMax)
       /\ x # 0 => Sign(fx) = (IF x < 0 THEN 1 ELSE 0)

(* __multf3() of finite numbers gives the exact product, rounded once. *)
ProductNearest ==
  op = "mul" /\ Finite(fa) /\ Finite(fb) =>
    /\ Pattern(fx) = Nearest(Mant(fa) * Mant(fb), 1, Exp(fa) + Exp(fb) - Units, F, EMax)
    /\ Sign(fx) = (Sign(fa) + Sign(fb)) % 2

(* __divtf3() gives the exact quotient, rounded once. *)
QuotientNearest ==
  op = "div" /\ Finite(fa) /\ Finite(fb) /\ Mant(fb) # 0 =>
    /\ Pattern(fx) = Nearest(Mant(fa), Mant(fb), Exp(fa) - Exp(fb) + Units, F, EMax)
    /\ Sign(fx) = (Sign(fa) + Sign(fb)) % 2

(* NaN comes out where IEEE 754 has an invalid operation or a NaN went in, *)
(* and nowhere else; infinite operands give infinity or zero.              *)
Specials ==
  LET Zero(f) == Pattern(f) = 0
      same == (Sign(fa) + Sign(fb) + (IF op = "sub" THEN 1 ELSE 0)) % 2 = 0
      invalid == CASE op \in {"add", "sub"} -> IsInf(fa) /\ IsInf(fb) /\ ~same
                   [] op = "mul" -> (IsInf(fa) /\ Zero(fb)) \/ (Zero(fa) /\ IsInf(fb))
                   [] op = "div" -> (IsInf(fa) /\ IsInf(fb)) \/ (Zero(fa) /\ Zero(fb))
  IN op \in {"add", "sub", "mul", "div"} =>
       /\ IsNaN(fx) <=> IsNaN(fa) \/ IsNaN(fb) \/ invalid
       /\ ~IsNaN(fx) /\ IsInf(fa) => IsInf(fx)
       /\ ~IsNaN(fx) /\ IsInf(fb) => IF op = "div" THEN Zero(fx) ELSE IsInf(fx)

(* Every sum, difference, product and quotient that __addtf3() and its     *)
(* siblings return is the exact one rounded once, and with operands that   *)
(* are infinite or NaN it is what IEEE 754 says.                           *)
ArithNearest == SumNearest /\ ProductNearest /\ QuotientNearest /\ Specials

(* __trunctfdf2() rounds once, subnormal results included; a NaN stays a   *)
(* NaN.                                                                    *)
TruncNearest ==
  op = "trunc" =>
    /\ fx \div 2^(ED + FD) = Sign(fa)
    /\ IF Finite(fa)
         THEN fx % 2^(ED + FD) = Nearest(Mant(fa), 1, Exp(fa) - Units + UnitsD, FD, EMaxD)
         ELSE IsNaN(fa) <=> fx % 2^(ED + FD) > EMaxD * 2^FD

(* __extenddftf2() is exact: converting back gives the same number. *)
ExtendExact ==
  op = "extend" =>
    LET a == fa % 2^(1 + ED + FD)
        m == a % 2^(ED + FD)
    IN IF m > EMaxD * 2^FD THEN IsNaN(fx)
       ELSE /\ trunctf2(fx) = a
            /\ fx % 2^(F - FD) = 0

(* __fixtfdi() and __fixunstfdi() round towards zero and saturate. *)
FixTruncates ==
  LET t == (Mant(fa) * 2^Exp(fa)) \div 2^Units
      n == IF Sign(fa) = 1 THEN -t ELSE t
      Clamp(lo, hi) == IF n < lo THEN lo ELSE IF n > hi THEN hi ELSE n
  IN Finite(fa) =>
       /\ op = "fix" => fx = Clamp(-2^(W - 1), 2^(W - 1) - 1)
       /\ op = "fixuns" => fx = Clamp(0, 2^W - 1)

(* __floatditf() and __floatunditf() are exact: converting back gives the  *)
(* same integer.                                                           *)
FloatExact ==
  LET a == fa % 2^W
  IN /\ op = "float" => fixtfdi(fx) = (IF a >= 2^(W - 1) THEN a - 2^W ELSE a)
     /\ op = "floatun" => fixunstfdi(fx) = a

(* The comparisons order the numbers by their value, and a NaN is neither  *)
(* less, equal nor greater.                                                *)
CmpOrder ==
  op \in {"lt", "gt"} =>
    IF IsNaN(fa) \/ IsNaN(fb) THEN IF op = "lt" THEN fx > 0 ELSE fx < 0
    ELSE LET Key(f) == (IF Sign(f) = 1 THEN -1 ELSE 1) * Pattern(f)
         IN fx = (IF Key(fa) < Key(fb) THEN -1 ELSE IF Key(fa) > Key(fb) THEN 1 ELSE 0)

(* Conversions between the floating types and from and to integers         *)
(* (__trunctfdf2(), __fixtfdi() and their siblings) lose nothing but what  *)
(* does not fit, which is rounded once or saturated; and the comparisons   *)
(* (__lttf2(), __gttf2()) are those of the values.                         *)
ValuesKept == TruncNearest /\ ExtendExact /\ FixTruncates /\ FloatExact /\ CmpOrder
=============================================================================
