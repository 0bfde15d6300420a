------------------------------- MODULE MCFloat -------------------------------
(***************************************************************************)
(* Instances for TLC of the two modules built on Binary128: a program that *)
(* calls the long double library (SoftFloat) and a constant on its way     *)
(* through the compiler (LdConst).  A behaviour is one of the former or    *)
(* one of the latter; the other component rests.                           *)
(***************************************************************************)
EXTENDS SoftFloat

CONSTANTS Hosts, Value, Padding, MaxOps

VARIABLES pc, host, native, static, ty, val, c, slot, ops, fold

Ld == INSTANCE LdConst

ldVars == <<pc, host, native, static, ty, val, c, slot, ops, fold>>
all == <<vars, ldVars>>

LdRests ==
  /\ pc = "rest" /\ host = "quad" /\ native = TRUE /\ static = FALSE /\ ty = "int"
  /\ val = 0 /\ c = [x0 |-> 0, x1 |-> 0] /\ slot = c /\ ops = 0 /\ fold = Ld!NoFold
LibRests == fa = 0 /\ fb = 0 /\ op = "rest" /\ fx = 0

MCInit == (Init /\ LdRests) \/ (Ld!Init /\ LibRests)
MCNext == (Next /\ UNCHANGED ldVars) \/ (Ld!Next /\ UNCHANGED vars)
MCSpec == MCInit /\ [][MCNext]_all

(* ConstKept of LdConst: whatever path a constant of the source takes      *)
(* (parsed as a long double, converted by the host or by the program,      *)
(* folded by gen_opif() or not), the program reads the number that the     *)
(* source denotes, or init_putv() refuses to compile.                      *)
ConstKept == Ld!ConstKept

(* FoldsFinite of LdConst: gen_opif() folds only finite operands, as a     *)
(* comment in it has it.                                                   *)
FoldsFinite == Ld!FoldsFinite

Number(sgn, exp, frac) == sgn * 2^(2 * W - 1) + exp * 2^F + frac

(* Both ends of every field and the bits next to the word boundary. *)
Edges == {Number(sgn, exp, frac) :
            sgn \in {0, 1},
            exp \in {0, 1, 2, Bias - 1, Bias, Bias + 3, Bias + W - 1, EMax - 1, EMax},
            frac \in {0, 1, 2^W - 1, 2^W, 2^W + 1, 2^W + 5, 2^F - 1}}

(* Numbers that a double can hold: zero, powers of two, the largest ones,  *)
(* infinity and a NaN.                                                     *)
Doubles ==
  {Number(sgn, exp, frac) : sgn \in {0, 1},
     exp \in {Bias - 1, Bias, Bias + BiasD},
     frac \in {0, 2^(F - 2)}}
  \union {Number(0, 0, 0), Number(1, 0, 0)}
  \union {Number(0, EMax, 0), Number(1, EMax, 0), Number(0, EMax, 2^(F - 1))}
=============================================================================
