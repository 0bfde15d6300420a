------------------------------ MODULE MCBackend ------------------------------
(***************************************************************************)
(* Instances for TLC of seven parts of the compiler that share no state:   *)
(* the riscv64 instructions (RiscvCode), the passing of arguments          *)
(* (RiscvCall), structures (Bitfields), statements (Scopes), the cases of  *)
(* a switch (Switch), expressions (VStack) and initializers (Inits).  part *)
(* says which of them a behaviour exercises; the others rest.              *)
(***************************************************************************)
EXTENDS RiscvCode

CONSTANTS
  NREG, MaxArgs, Scalar, Aggregate, Layout,   \* of RiscvCall
  CB, MaxFields, FieldType, FieldWidth, Aligned, Pack, \* of Bitfields
  Label, MaxStmts,                            \* of Scopes
  WI, WL, Linear, MaxCases,                   \* of Switch
  NB_REGS, Sig, MaxOps,                       \* of VStack
  InitType, Item(_, _), MaxItems              \* of Inits

VARIABLES part, sret, variadic, open, caller, func, args, decl, fields, layout,
          kinds, fn, src, stmts, status, type, cases, sorted, found, ops, g, ctl, done, object, items

Cl == INSTANCE RiscvCall
Bf == INSTANCE Bitfields
Sc == INSTANCE Scopes
Sw == INSTANCE Switch WITH status <- found
Vs == INSTANCE VStack
In == INSTANCE Inits

clVars == <<sret, variadic, open, caller, func, args>>
bfVars == <<decl, fields, layout>>
scVars == <<kinds, fn, src, stmts, status>>
swVars == <<type, cases, sorted, found>>
vsVars == <<ops, g, ctl, done>>
inVars == <<object, items>>

CodeRests == task = [kind |-> "none"] /\ m = Reset
CallRests ==
  /\ sret = FALSE /\ variadic = FALSE /\ open = FALSE /\ caller = Cl!Begin
  /\ func = [areg |-> Cl!NoRegs, addr |-> 0, ap |-> 0, assert |-> TRUE] /\ args = <<>>
LayoutRests ==
  /\ decl = [ms |-> FALSE, union |-> FALSE, packed |-> FALSE, aligned |-> 0, pack |-> 0]
  /\ fields = <<>> /\ layout = Bf!Begin
ScopesRest == kinds = {} /\ fn = Sc!Function /\ src = <<>> /\ stmts = 0 /\ status = "parse"
SwitchRests == type = "int" /\ cases = <<>> /\ sorted = <<>> /\ found = "open"
ExprsRest == ops = {} /\ g = Vs!Begin /\ ctl = <<>> /\ done = 0
InitsRest == object = [type |-> "", auto |-> FALSE] /\ items = <<>>

MCInit ==
  \/ /\ part = "code" /\ Init
     /\ CallRests /\ LayoutRests /\ ScopesRest /\ SwitchRests /\ ExprsRest /\ InitsRest
  \/ /\ part = "call" /\ Cl!Init
     /\ CodeRests /\ LayoutRests /\ ScopesRest /\ SwitchRests /\ ExprsRest /\ InitsRest
  \/ /\ part = "layout" /\ Bf!Init
     /\ CodeRests /\ CallRests /\ ScopesRest /\ SwitchRests /\ ExprsRest /\ InitsRest
  \/ /\ part = "scopes" /\ Sc!Init
     /\ CodeRests /\ CallRests /\ LayoutRests /\ SwitchRests /\ ExprsRest /\ InitsRest
  \/ /\ part = "switch" /\ Sw!Init
     /\ CodeRests /\ CallRests /\ LayoutRests /\ ScopesRest /\ ExprsRest /\ InitsRest
  \/ /\ part = "exprs" /\ Vs!Init
     /\ CodeRests /\ CallRests /\ LayoutRests /\ ScopesRest /\ SwitchRests /\ InitsRest
  \/ /\ part = "inits" /\ In!Init
     /\ CodeRests /\ CallRests /\ LayoutRests /\ ScopesRest /\ SwitchRests /\ ExprsRest
MCNext ==
  \/ part = "code" /\ Next /\ UNCHANGED <<part, clVars, bfVars, scVars, swVars, vsVars, inVars>>
  \/ part = "call" /\ Cl!Next /\ UNCHANGED <<part, vars, bfVars, scVars, swVars, vsVars, inVars>>
  \/ part = "layout" /\ Bf!Declare /\ UNCHANGED <<part, vars, clVars, scVars, swVars, vsVars, inVars>>
  \/ part = "scopes" /\ Sc!Next /\ UNCHANGED <<part, vars, clVars, bfVars, swVars, vsVars, inVars>>
  \/ part = "switch" /\ Sw!Next /\ UNCHANGED <<part, vars, clVars, bfVars, scVars, vsVars, inVars>>
  \/ part = "exprs" /\ Vs!Next /\ UNCHANGED <<part, vars, clVars, bfVars, scVars, swVars, inVars>>
  \/ part = "inits" /\ In!AddItem /\ UNCHANGED <<part, vars, clVars, bfVars, scVars, swVars, vsVars>>
MCSpec == MCInit /\ [][MCNext]_<<part, vars, clVars, bfVars, scVars, swVars, vsVars, inVars>>

(* Of RiscvCall: in every call but those listed there, gfunc_call(),       *)
(* gfunc_prolog() and __builtin_va_arg() agree on the place of every byte; *)
(* what the caller stores is within the room it made, but for holes; and   *)
(* gfunc_return() and the caller agree on a structure that is returned in  *)
(* registers.                                                              *)
CallsAgree == Cl!ArgsAgree /\ Cl!InRoom /\ Cl!ResultArrives

(* Of Bitfields: struct_layout() puts no two fields on the same bit and    *)
(* each where the ABI has it, and what the code for a bit-field reads and  *)
(* writes is its bits.                                                     *)
BitsRight == Bf!FieldsApart /\ Bf!AccessRight /\ Bf!AbiPlacement

(* Of Scopes: on every way through a function, the functions of exactly    *)
(* those variables are called whose scope is left, in order, and the jumps *)
(* arrive where they go to; and the stack pointer is where the arrays in   *)
(* scope end.                                                              *)
WaysRight == Sc!CleanupsRun /\ Sc!StackRight

(* Of Switch: a value goes to the case it is in, and to the default if it  *)
(* is in none, and cases are refused if, and only if, two overlap.         *)
SwitchFinds == Sw!SwitchFinds

(* Of VStack: whatever is spilled, reloaded, moved or jumped over, every    *)
(* operand that waits and every variable has the value C gives it, on each *)
(* path through the conditions.                                            *)
OperandsKept == Vs!OperandsKept

(* Of Inits: what is stored is what C says that the initializers mean, and *)
(* nothing is stored outside of the object.                                *)
InitRight == part = "inits" => In!InitRight

(* Of RiscvCall and Inits, what tcc-doc.texi promises for every call and   *)
(* every use of designators.                                               *)
ArgsArrive == Cl!ArgsArrive
InitInAnyOrder == part = "inits" => In!InitInAnyOrder

-----------------------------------------------------------------------------
(* Every constant of a register, and the addresses and distances of a word *)
(* twice over.                                                             *)
Half == 2 ^ (2 * W - 1)
MCConstant == -Half .. Half - 1
MCAddress == {c \in MCConstant : -(2 ^ W) <= c /\ c <= 2 ^ (W + 1)}
MCDistance == -(2 ^ (W + 1)) .. 2 ^ (W + 1)
MCFar == {-(2 ^ W), -5, 2 ^ (W - 1) - 5}
MCOffset == {0, -9, 70}
MCSlots == 1 .. 90
MCHome == [pc |-> Half, sym |-> Half + 77, rr |-> 5, t0 |-> 6, t1 |-> 7, s0 |-> Half - 3,
           sp |-> Half - 100, ra |-> 1234]

(* Structures of one and two registers, mixed, by reference. *)
Fld(ofs, bt) == [ofs |-> ofs, type |-> [bt |-> bt]]
Arr(ofs, bt, n) == [ofs |-> ofs, type |-> [bt |-> bt, n |-> n]]
Struct(size, align, fs) == [union |-> FALSE, size |-> size, align |-> align, fields |-> fs]

(* Sets of kinds of statements and the lengths of functions of them. *)
MCStmts ==
  ({{"block", "cleanup", "goto", "label"}, {"block", "vla", "goto", "label"},
    {"if", "else", "cleanup", "vla", "return"}, {"do", "vla", "break", "continue"}} \X {5}) \union
  ({{"while", "for", "break", "continue", "cleanup"}, {"while", "goto", "label", "cleanup", "vla"},
    {"switch", "case", "while", "continue", "break", "cleanup"},
    {"switch", "case", "while", "break", "vla"}} \X {4})
MCMaxStmts == [k \in {p[1] : p \in MCStmts} |-> CHOOSE n \in 0 .. 9 : <<k, n>> \in MCStmts]
MCNoStmts == [k \in {{}} |-> 0]

(* Functions, and sets of kinds of operators with the lengths of           *)
(* expressions of them.                                                    *)
MCSig ==
  [f |-> [id |-> 1, args |-> <<"int", "ld">>, ret |-> "int"],
   h |-> [id |-> 2, args |-> <<"int">>, ret |-> "ld"]]
MCOps ==
  {{"a", "q", "deref", "f", "h", "assign", "d"}, {"a", "b", "&&", "||", "not", "?"},
   {"a", "p", "deref", "op=", "post", "sub", "lt", "const"},
   {"b", "d", "e", "assign", "f", "pre"}, {"a", "d", "?:", "?", "h", "f"},
   {"a", "b", "lt", "?", "?:", "&&", "sub"}, {"p", "q", "deref", "?", "h"}}
MCMaxOps == [k \in MCOps |-> IF "pre" \in k THEN 7 ELSE 6]
MCNoOps == [k \in {{}} |-> 0]

MCLayout ==
  [ll |-> Struct(16, 8, <<Fld(0, "llong"), Fld(8, "llong")>>),
   ff |-> Struct(8, 4, <<Fld(0, "float"), Fld(4, "float")>>),
   d2 |-> Struct(16, 8, <<Arr(0, "double", 2)>>),
   cd |-> Struct(16, 8, <<Fld(0, "char"), Fld(8, "double")>>),
   if |-> Struct(8, 4, <<Fld(0, "int"), Fld(4, "float")>>),
   fi |-> Struct(8, 4, <<Fld(0, "float"), Fld(4, "int")>>),
   fd |-> Struct(16, 8, <<Fld(0, "float"), Fld(8, "double")>>),
   fff |-> Struct(12, 4, <<Fld(0, "float"), Fld(4, "float"), Fld(8, "float")>>),
   ff2 |-> Struct(16, 4, <<Fld(0, "float"), Fld(4, "float"), Arr(8, "float", 2)>>),
   un |-> [union |-> TRUE, size |-> 8, align |-> 8, fields |-> <<Fld(0, "double"), Fld(0, "llong")>>],
   big |-> Struct(24, 8, <<Fld(0, "llong"), Fld(8, "llong"), Fld(16, "llong")>>)]

(* Types that are initialized, whose parts are structures in structures, in *)
(* arrays and in unions, arrays in arrays, one of unknown length, padding.  *)
Num == [k |-> "num", size |-> 1]
Chr == [k |-> "chr", size |-> 1]
ArrayOf(T, n) == [k |-> "arr", of |-> T, n |-> n, size |-> IF n = -1 THEN 0 ELSE n * T.size]
Member(n, T, o) == [name |-> n, type |-> T, ofs |-> o]
StructOf(k, n, size, fs) == [k |-> k, name |-> n, size |-> size, fields |-> fs]
Pair == StructOf("struct", "Pair", 2, <<Member("a", Num, 0), Member("b", Num, 1)>>)
Padded == StructOf("struct", "Padded", 3, <<Member("a", Num, 0), Member("", Num, 1), Member("c", Num, 2)>>)
Ended == StructOf("struct", "Ended", 2, <<Member("a", Num, 0), Member("", Num, 1)>>)
Either == StructOf("union", "Either", 2, <<Member("c", Num, 0), Member("s", Pair, 0)>>)
Nested == StructOf("struct", "Nested", 5, <<Member("s", Pair, 0), Member("t", ArrayOf(Num, 2), 2), Member("c", Num, 4)>>)
Text == StructOf("struct", "Text", 4, <<Member("x", ArrayOf(Chr, 3), 0), Member("c", Num, 3)>>)
Unnamed == StructOf("struct", "Unnamed", 4, <<Member("n", Num, 0), Member("", Pair, 1), Member("c", Num, 3)>>)
Unions == StructOf("struct", "Unions", 4, <<Member("u", Either, 0), Member("c", Num, 2), Member("d", Num, 3)>>)
Tailed == StructOf("struct", "Tailed", 1, <<Member("n", Num, 0), Member("e", ArrayOf(Pair, -1), 1)>>)
Paddings == StructOf("struct", "Paddings", 5, <<Member("p", Padded, 0), Member("q", Ended, 3)>>)

(* The designators that are tried with each. *)
At(i) == [name |-> "", first |-> i, last |-> i]
Upto(i, j) == [name |-> "", first |-> i, last |-> j]
Dot(n) == [name |-> n, first |-> 0, last |-> 0]
MCInitType ==
  [Nested |-> Nested, Pairs |-> ArrayOf(Pair, 2), Matrix |-> ArrayOf(ArrayOf(Num, 2), 2), Text |-> Text,
   Unnamed |-> Unnamed, Unions |-> Unions, Numbers |-> ArrayOf(Num, -1), Tailed |-> Tailed,
   Paddings |-> Paddings, MorePairs |-> ArrayOf(Pair, -1)]
MCDesignators ==
  [Nested |-> {<<Dot("s")>>, <<Dot("s"), Dot("b")>>, <<Dot("c")>>, <<Dot("t"), Upto(0, 1)>>},
   Pairs |-> {<<At(0)>>, <<At(1)>>, <<At(0), Dot("b")>>, <<At(1), Dot("a")>>},
   Matrix |-> {<<At(1)>>, <<At(0), At(1)>>, <<At(1), Upto(0, 1)>>, <<At(2)>>},
   Text |-> {<<Dot("x")>>, <<Dot("x"), At(1)>>, <<Dot("c")>>},
   Unnamed |-> {<<Dot(n)>> : n \in {"n", "a", "b", "c"}},
   Unions |-> {<<Dot("u"), Dot("c")>>, <<Dot("u"), Dot("s")>>, <<Dot("u"), Dot("s"), Dot("b")>>, <<Dot("d")>>},
   Numbers |-> {<<At(0)>>, <<At(2)>>, <<Upto(1, 2)>>},
   Tailed |-> {<<Dot("e")>>, <<Dot("e"), At(1)>>, <<Dot("e"), At(0), Dot("b")>>},
   Paddings |-> {<<Dot("q")>>, <<Dot("p")>>},
   MorePairs |-> {<<At(1)>>, <<At(0)>>, <<At(0), Dot("b")>>}]

Val(n) == [k |-> "val", v |-> n]
Braces(inits) == [k |-> "list", v |-> [i \in DOMAIN inits |-> [des |-> <<>>, init |-> inits[i]]]]
MCInitializer(t, n) ==
  {Val(2 * n)} \union
  (IF n = 1 THEN {Braces(<<Val(2), Val(3)>>)} ELSE {Val(0), Braces(<<Val(2 * n)>>)}) \union
  (IF t = "Text" THEN {[k |-> "str", v |-> <<90 + n>>], [k |-> "str", v |-> <<80 + n, 81, 82, 83>>],
                     Braces(<<[k |-> "str", v |-> <<70 + n>>]>>)}
   ELSE {[k |-> "addr", v |-> "y"]}) \union
  (IF n = 2 /\ t \in {"Nested", "Pairs", "Unions", "MorePairs"} THEN {[k |-> "obj", of |-> "Pair", v |-> <<In!Number(52), In!Number(62)>>]} ELSE {})
MCItem(t, n) ==
  [des : {<<>>} \union {d \in MCDesignators[t] : \A k \in DOMAIN d : d[k].first = d[k].last},
   init : MCInitializer(t, n)] \union
  [des : MCDesignators[t], init : {i \in MCInitializer(t, n) : i.k # "list"}]
=============================================================================
