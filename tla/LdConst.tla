------------------------------ MODULE LdConst ------------------------------
(***************************************************************************)
(* How a riscv64 tcc turns a constant of the source into a long double of  *)
(* the program: parse_number() and the casts keep it in the long double of *)
(* the machine tcc runs on (the union CValue, two words here), gen_opif()  *)
(* may fold it, and init_putv() stores it for the target, which reads it   *)
(* as a binary128.  The host's long double is                              *)
(*   "quad"    binary128 itself (riscv64, aarch64);                        *)
(*   "x87"     the 80-bit format of x86-64, 10 bytes in a slot of 16, of   *)
(*             which the other 6 are never written;                        *)
(*   "double"  64 bits, in a union of 128.                                 *)
(***************************************************************************)
EXTENDS Binary128

(* A double fills one of the two words: 1 + ED + FD = W.                   *)
CONSTANTS Hosts,    \* the machines tcc may run on: "quad", "x87" or "double"
          Value,    \* constants that a double can represent, as integers
          Padding,  \* what bytes that are not written may hold: a word
          MaxOps    \* bound: the operators of an expression

VARIABLES
  pc,      \* "token", "cast", "fold", "done" or "error"
  host,    \* the host's long double
  native,  \* TCC_IS_NATIVE: tcc runs on its own target
  static,  \* an initializer of static data: nocode_wanted has DATA_ONLY_WANTED
           \* and, while the expression is parsed, CONST_WANTED
  ty,      \* the constant's type: "int", "double" or "ldouble"
  val,     \* the number the source denotes, as a long double
  c,       \* vtop->c
  slot,    \* what the target finds in memory or in registers
  ops,     \* how many operators have been folded
  fold     \* the operands gen_opif() folded last, and the operator

vars == <<pc, host, native, static, ty, val, c, slot, ops, fold>>

NoFold == [op |-> "none", f1 |-> 0, f2 |-> 0]

-----------------------------------------------------------------------------
(* The bytes of the union when v is stored in it as the given type; pad is *)
(* what the bytes that are not written happen to hold.                     *)
ImageX87(v, pad) ==
  LET exp == Pattern(v) \div 2^F
      frac == (Pattern(v) % 2^F) \div 2^(F - W + 1)
  IN [x0 |-> IF exp = 0 THEN frac ELSE 2^(W - 1) + frac,
      x1 |-> Sign(v) * 2^E + exp + pad * 2^(E + 1)]

ImageLd(v, pad) ==
  CASE host = "quad" -> Pair(v)
    [] host = "x87" -> ImageX87(v, pad % 2^FH)
    [] host = "double" -> [x0 |-> trunctf2(v), x1 |-> pad]

Image(t, v, pad) ==
  CASE t = "int" -> [x0 |-> fixtfdi(v) % 2^W, x1 |-> pad]
    [] t = "double" -> [x0 |-> trunctf2(v), x1 |-> pad]
    [] t = "ldouble" -> ImageLd(v, pad)

IsInteger(v) == Finite(v) /\ floatditf(fixtfdi(v) % 2^W) = v

Init ==
  /\ pc = "token"
  /\ host \in Hosts
  /\ native \in (IF host = "quad" THEN BOOLEAN ELSE {FALSE})
  /\ static \in BOOLEAN
  /\ ty = "int"
  /\ val = 0
  /\ c = [x0 |-> 0, x1 |-> 0]
  /\ slot = [x0 |-> 0, x1 |-> 0]
  /\ ops = 0
  /\ fold = NoFold

(* A literal: strtold(), strtod() or an integer, which has no sign and is  *)
(* not a NaN.                                                              *)
parse_number(t, v, pad) ==
  /\ pc = "token"
  /\ t = "int" => IsInteger(v)
  /\ Sign(v) = 0 /\ ~IsNaN(v)
  /\ pc' = "cast"
  /\ ty' = t
  /\ val' = v
  /\ c' = Image(t, v, pad)
  /\ UNCHANGED <<host, native, static, slot, ops, fold>>

(* "don't try to convert to ldouble when cross-compiling (except when it's *)
(* '0' ...)"; an initializer has no code that could convert.               *)
AtRunTime == ~native /\ ~static /\ (ty = "double" \/ c.x0 # 0)

(* gen_cast() to long double: nothing to do, or the library's function is  *)
(* called by the program, or the host converts.                            *)
gen_cast(pad) ==
  /\ pc = "cast"
  /\ ty' = "ldouble"
  /\ IF ty # "ldouble" /\ AtRunTime
       THEN /\ slot' = Pair(IF ty = "double" THEN extendtf2(c.x0) ELSE floatditf(c.x0))
            /\ pc' = "done"
            /\ c' = c
       ELSE /\ c' = IF ty = "ldouble" THEN c ELSE ImageLd(val, pad)
            /\ pc' = "fold"
            /\ slot' = slot
  /\ UNCHANGED <<host, native, static, val, ops, fold>>

(* ieee_finite() takes a double: a long double beyond its range is not     *)
(* finite to it.                                                           *)
ieee_finite(d) == (trunctf2(d) \div 2^FD) % 2^ED # 2^ED - 1

(* Does gen_opif() fold f1 op f2?  Its test of the operands is             *)
(*   !(ieee_finite(f1) || !ieee_finite(f2)) && !CONST_WANTED               *)
(* and a division by zero is left to the program unless a constant is      *)
(* wanted.  A negation is always folded.                                   *)
Folds(op, f1, f2) ==
  \/ op = "neg"
  \/ /\ ieee_finite(f1) \/ ~ieee_finite(f2) \/ static
     /\ op = "/" /\ Pattern(f2) = 0 => static

(* The value of a folded expression: the host computes as IEEE 754 says,   *)
(* except that 0/0 gives a NaN and x/0 an infinity with the quotient's     *)
(* sign.  A host whose long double is a double rounds to one.              *)
Exact(op, f1, f2) ==
  LET sgn == (Sign(f1) + Sign(f2)) % 2
  IN CASE op = "neg" -> (f1 + 2^(2 * W - 1)) % 2^(2 * W)
       [] op = "+" -> Join(f3_add(f1, f2, 0))
       [] op = "-" -> Join(f3_add(f1, f2, 1))
       [] op = "*" -> Join(multf3(f1, f2))
       [] op = "/" -> IF Pattern(f2) # 0 THEN Join(divtf3(f1, f2))
                      ELSE IF Pattern(f1) = 0
                        THEN Join(f3_infinity(sgn)) + 2^(F - 1)
                      ELSE Join(f3_infinity(sgn))

Compute(op, f1, f2) ==
  IF host = "double" THEN extendtf2(trunctf2(Exact(op, f1, f2))) ELSE Exact(op, f1, f2)

(* gen_opif() with another constant; what it does not fold the program     *)
(* computes, from the operand as it is stored.                             *)
gen_opif(op, f2, pad) ==
  /\ pc = "fold"
  /\ ops < MaxOps
  /\ Folds(op, val, f2)
  /\ ops' = ops + 1
  /\ val' = Compute(op, val, f2)
  /\ c' = ImageLd(val', pad)
  /\ fold' = [op |-> op, f1 |-> val, f2 |-> f2]
  /\ UNCHANGED <<pc, host, native, static, ty, slot>>

(* Mutant: the union is copied whatever the size of the host's type. *)
MutPutv ==
  /\ pc = "fold"
  /\ slot' = c
  /\ pc' = "done"
  /\ UNCHANGED <<host, native, static, ty, val, c, ops, fold>>

(* init_putv(), from an initializer or from gv(): if the sizes agree, the  *)
(* bytes are copied; else zero is what the section already holds, and      *)
(* anything else is an error.                                              *)
init_putv ==
  /\ pc = "fold"
  /\ IF host \in {"quad", "x87"}
       THEN slot' = c /\ pc' = "done"
       ELSE /\ slot' = slot
            /\ pc' = IF c = slot THEN "done" ELSE "error"
  /\ UNCHANGED <<host, native, static, ty, val, c, ops, fold>>

Next ==
  \/ \E t \in {"int", "double", "ldouble"}, v \in Value, pad \in Padding :
       parse_number(t, v, pad)
  \/ \E pad \in Padding : gen_cast(pad)
  \/ \E op \in {"neg", "+", "-", "*", "/"}, f2 \in Value, pad \in Padding :
       gen_opif(op, f2, pad)
  \/ init_putv

Spec == Init /\ [][Next]_vars

-----------------------------------------------------------------------------
(* Whatever path a constant takes (parsed as a long double, converted by   *)
(* the host or by the program, folded or not) the program reads the number *)
(* that the source denotes, or the compilation fails.                      *)
ConstKept ==
  pc = "done" => IF IsNaN(val) THEN IsNaN(Join(slot)) ELSE Join(slot) = val

(* "we only do constant propagation if finite number (not NaN or           *)
(* infinity)": outside initializers gen_opif() folds finite operands only. *)
FoldsFinite ==
  fold.op \in {"+", "-", "*", "/"} /\ ~static => Finite(fold.f1) /\ Finite(fold.f2)

=============================================================================
