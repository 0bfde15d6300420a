----------------------------- MODULE RiscvCall -----------------------------
(***************************************************************************)
(* How the riscv64 back end passes arguments: gfunc_call() of the caller,  *)
(* gfunc_prolog() of the function and __builtin_va_arg() choose registers  *)
(* and stack slots each on their own, from the types only, and have to     *)
(* agree on every byte.                                                    *)
(*                                                                         *)
(* A state is a call with the arguments seen so far; every step adds one.  *)
(* NREG is the number of integer and of floating point argument registers, *)
(* 8 in the code.                                                          *)
(***************************************************************************)
EXTENDS Integers, Sequences, FiniteSets

CONSTANTS
  NREG,
  MaxArgs,      \* the longest call
  Scalar,       \* the basic types that occur
  Aggregate,    \* the structures, by name
  Layout        \* of a structure: [union, size, align, fields]

(* The basic types: size, which is the alignment too, and kind.            *)
Basic == [char |-> 1, int |-> 4, llong |-> 8, float |-> 4, double |-> 8, ldouble |-> 16]
is_float(bt) == bt \in {"float", "double", "ldouble"}

(* A type is [bt], a structure [struct], an array of one or more elements  *)
(* of a basic type [bt, n].                                                *)
IsStruct(T) == "struct" \in DOMAIN T
IsArray(T) == "n" \in DOMAIN T
Size(T) == IF IsStruct(T) THEN Layout[T.struct].size
           ELSE IF IsArray(T) THEN T.n * Basic[T.bt] ELSE Basic[T.bt]
Align(T) == IF IsStruct(T) THEN Layout[T.struct].align ELSE Basic[T.bt]
Types == {[bt |-> b] : b \in Scalar} \union {[struct |-> s] : s \in Aggregate}

(* The bytes of a value that mean something.                               *)
Bytes(T) ==
  IF IsStruct(T)
    THEN UNION {f.ofs .. f.ofs + Size(f.type) - 1 :
                f \in {Layout[T.struct].fields[i] : i \in DOMAIN Layout[T.struct].fields}}
    ELSE 0 .. Size(T) - 1

RoundUp(n, k) == ((n + k - 1) \div k) * k
Lower(a, b) == IF a < b THEN a ELSE b

-----------------------------------------------------------------------------
(* reg_pass_rec() and reg_pass(): n registers, 2 at most, or -1 if the     *)
(* value does not go by its fields; of each its class and the field.       *)
Class(n, c, f) == [n |-> n, cls |-> c, fld |-> f]
No(P) == [P EXCEPT !.n = -1]

One(P, bt, ofs) ==
  IF P.n = 2 \/ P.n < 0 \/ bt = "ldouble" THEN No(P)
  ELSE IF P.n = 0 \/ P.cls[1] = "F" \/ is_float(bt)
    THEN Class(P.n + 1, [P.cls EXCEPT ![P.n + 1] = IF is_float(bt) THEN "F" ELSE "I"],
               [P.fld EXCEPT ![P.n + 1] = [ofs |-> ofs, bt |-> bt]])
    ELSE No(P)

(* An array of two floats is two fields.  After a failure the code writes  *)
(* rc[++rc[0]], which is rc[0] itself, and the failure is forgotten.       *)
Second(Q, T, ofs) ==
  IF Q.n > 2 \/ (Q.n = 2 /\ T.n > 1) THEN No(Q)
  ELSE IF T.n = 2 /\ Q.n # 0 /\ Q.cls[1] = "F"
    THEN IF Q.n < 0
           THEN [Q EXCEPT !.n = 2, !.fld[2] = [ofs |-> ofs + Basic[T.bt], bt |-> T.bt]]
           ELSE Class(Q.n + 1, [Q.cls EXCEPT ![Q.n + 1] = "F"],
                      [Q.fld EXCEPT ![Q.n + 1] = [ofs |-> ofs + Basic[T.bt], bt |-> T.bt]])
  ELSE IF T.n = 2 THEN No(Q)
  ELSE Q

Two(P, T, ofs) == IF T.n > 2 THEN No(P) ELSE Second(One(P, T.bt, ofs), T, ofs)

Blank == Class(0, <<"", "">>, [i \in 1 .. 2 |-> [ofs |-> 8 * (i - 1), bt |-> "llong"]])

reg_pass_rec(T) ==
  IF ~IsStruct(T) THEN One(Blank, T.bt, 0)
  ELSE LET s == Layout[T.struct]
           P[i \in 0 .. Len(s.fields)] ==
             IF i = 0 THEN Blank
             ELSE LET f == s.fields[i]
                  IN IF IsArray(f.type) THEN Two(P[i - 1], f.type, f.ofs)
                     ELSE One(P[i - 1], f.type.bt, f.ofs)
       IN IF s.union THEN No(Blank) ELSE P[Len(s.fields)]

ByRegisters(T) ==
  Class((Size(T) + 7) \div 8, <<"I", "I">>,
        [i \in 1 .. 2 |-> [ofs |-> 8 * (i - 1), bt |-> "llong"]])

Pointer == [bt |-> "llong"]
ByFields == [T \in Types \union {Pointer} |-> reg_pass_rec(T)]
reg_pass(T, named) ==
  IF named /\ ByFields[T].n > 0 THEN ByFields[T] ELSE ByRegisters(T)

ByRef(T) == Size(T) > 16

-----------------------------------------------------------------------------
(* Where a byte is: in a register file or in the stack arguments.          *)
Reg(cls, r, j) == <<cls, r * 8 + j>>
Stack(o) == <<"stack", o>>

(* areg: the registers of a class in use.  The caller and the function     *)
(* have the condition for the stack each.                                  *)
NoRegs == [I |-> 0, F |-> 0]
FullCall(areg, P) ==
  \/ areg[P.cls[1]] >= NREG
  \/ P.n = 2 /\ P.cls[1] = "F" /\ P.cls[2] = "F" /\ areg.F >= NREG - 1
  \/ P.n = 2 /\ P.cls[1] # P.cls[2] /\ (areg.F >= NREG \/ areg.I >= NREG)

(* Mutant: two floating point registers are wanted, one is left.           *)
MutFullFunc(areg, P) ==
  \/ areg[P.cls[1]] >= NREG
  \/ P.n = 2 /\ P.cls[1] # P.cls[2] /\ (areg.F >= NREG \/ areg.I >= NREG)

FullFunc(areg, P) ==
  \/ areg[P.cls[1]] >= NREG
  \/ /\ P.n = 2
     /\ \/ P.cls[1] = "F" /\ P.cls[2] = "F" /\ areg.F >= NREG - 1
        \/ P.cls[1] # P.cls[2] /\ (areg.F >= NREG \/ areg.I >= NREG)

(* What the caller adds to stack_adj. *)
Room(size, align) == RoundUp(size, align)

VARIABLES
  sret,        \* does the function return its value by reference?
  variadic,    \* is it declared with "..."?
  open,        \* is the next argument an unnamed one?
  caller,        \* gfunc_call(): areg, stack_adj, tempspace, ofs
  func,        \* gfunc_prolog(): areg, addr; then ap, nva
  args         \* the arguments, with the bytes' places on both sides

vars == <<sret, variadic, open, caller, func, args>>


(* gfunc_call() for one argument.  known says whether a declared parameter *)
(* is left for it.  Both loops of the code go through the arguments in     *)
(* order: the first counts (stack_adj), the second stores (ofs).           *)
Placed(c, T, known, P, areg, size, align) ==
  LET temp == RoundUp(c.tempspace, IF Align(T) < 8 THEN 8 ELSE Align(T))
      b == IF ByRef(T) THEN [c EXCEPT !.tempspace = temp + Size(T)] ELSE c
      wide == IF align < 8 THEN 8 ELSE align
      o == RoundUp(c.ofs, wide)
      r1 == areg[P.cls[1]]
      used1 == [areg EXCEPT ![P.cls[1]] = @ + 1]
      r2 == used1[P.cls[2]]
      two == P.n = 2 /\ ~ByRef(T)
      split == P.n = 2 /\ P.cls[2] = "I" /\ used1.I >= NREG
      used2 == IF P.n = 2 /\ ~split THEN [used1 EXCEPT ![P.cls[2]] = @ + 1] ELSE used1
      of1 == IF two THEN P.fld[2].ofs ELSE size
  IN IF FullCall(areg, P)
       THEN [c |-> [b EXCEPT !.areg = IF known THEN areg ELSE [I |-> NREG, F |-> NREG],
                             !.stack_adj = @ + Room(size, wide),
                             !.ofs = o + size,
                             !.slots = @ \union {<<o, o + size>>}],
             at |-> [k \in 0 .. size - 1 |-> Stack(o + k)]]
       ELSE [c |-> [b EXCEPT !.areg = used2,
                             !.stack_adj = IF split THEN @ + 8 ELSE @,
                             !.ofs = IF split THEN @ + 8 ELSE @,
                             !.slots = IF split THEN @ \union {<<c.ofs, c.ofs + 8>>} ELSE @],
             at |-> [k \in 0 .. size - 1 |->
                       IF two /\ k >= P.fld[2].ofs
                         THEN IF split THEN Stack(c.ofs + k - P.fld[2].ofs)
                              ELSE Reg(P.cls[2], r2, k - P.fld[2].ofs)
                       ELSE IF k < Lower(of1, IF P.cls[1] = "F" THEN Basic[P.fld[1].bt] ELSE 8)
                         THEN Reg(P.cls[1], r1, k)
                       ELSE <<"lost", k>>]]

Passed(c, T, known) ==
  LET even == ~known /\ Align(T) = 16 /\ Size(T) <= 16
  IN Placed(c, T, known, reg_pass(T, known),
            IF even THEN [c.areg EXCEPT !.I = RoundUp(@, 2)] ELSE c.areg,
            IF ByRef(T) THEN 8 ELSE Size(T), IF ByRef(T) THEN 8 ELSE Align(T))

(* gfunc_prolog() for one parameter: where each of its bytes comes from.   *)
(* The stack is addressed from s0; sd stores the second of two registers   *)
(* at 8, wherever its field is.                                            *)
TakenBy(f, V, P, size) ==
  LET wide == IF Align(V) < 8 THEN 8 ELSE Align(V)
      o == RoundUp(f.addr, wide)
      r1 == f.areg[P.cls[1]]
      used1 == [f.areg EXCEPT ![P.cls[1]] = @ + 1]
      split == P.n = 2 /\ used1[P.cls[2]] >= NREG
      width == IF size \div P.n = 4 THEN 4 ELSE 8
      ofs2 == IF P.cls[2] = "F" THEN P.fld[2].ofs ELSE 8
      len1 == IF P.cls[1] = "F" THEN width ELSE 8
      len2 == IF P.cls[2] = "F" THEN width ELSE 8
      second(k) == P.n = 2 /\ k >= ofs2 /\ k < ofs2 + len2
  IN IF FullFunc(f.areg, P)
       THEN [f |-> [f EXCEPT !.addr = o + size],
             from |-> [k \in 0 .. size - 1 |-> <<"s0", o + k>>]]
       ELSE [f |-> [f EXCEPT !.areg = IF P.n = 2 /\ ~split
                                        THEN [used1 EXCEPT ![P.cls[2]] = @ + 1] ELSE used1,
                             !.addr = IF split THEN @ + 8 ELSE @,
                             !.assert = @ /\ (split => f.addr % 8 = 0)],
             from |-> [k \in 0 .. size - 1 |->
                         IF second(k)
                           THEN IF split THEN <<"s0", f.addr + k - 8>>
                                ELSE Reg(P.cls[2], used1[P.cls[2]], k - ofs2)
                         ELSE IF k < len1 THEN Reg(P.cls[1], r1, k)
                         ELSE <<"garbage", k>>]]

Taken(f, T) ==
  IF ByRef(T) THEN TakenBy(f, Pointer, reg_pass(Pointer, TRUE), 8)
              ELSE TakenBy(f, T, reg_pass(T, TRUE), Size(T))

(* The integer registers that are left are saved between s0 and the stack  *)
(* of the caller if there is a "...".                                      *)
SavedRegs(f) == IF variadic THEN NREG - f.areg.I ELSE 0
Resolved(f, place) ==
  LET nva == SavedRegs(f)
      a == place[2]
  IN IF place[1] # "s0" THEN place
     ELSE IF a < nva * 8 THEN <<"I", (NREG - nva) * 8 + a>> ELSE Stack(a - nva * 8)

(* __builtin_va_arg(): sp_old = s0 + nva * 8 is a multiple of 16.          *)
Fetched(f, T) ==
  LET nva == SavedRegs(f)
      al == RoundUp(f.ap - nva * 8, Align(T)) + nva * 8
      to == RoundUp(al + Size(T), 8)
      at == to - RoundUp(Size(T), 8)
  IN IF ByRef(T)
       THEN [f |-> [f EXCEPT !.ap = @ + 8], from |-> [k \in 0 .. 7 |-> <<"s0", f.ap + k>>]]
       ELSE [f |-> [f EXCEPT !.ap = to],
             from |-> [k \in 0 .. Size(T) - 1 |-> <<"s0", at + k>>]]

(* gfunc_sret(): the bytes of each register a structure is returned in; in *)
(* registers of one class they are taken to be of one type and size.       *)
Regsize(T, P) == IF P.cls[1] = "F" THEN Size(T) \div P.n ELSE 8

Returned(T) ==
  LET P == reg_pass(T, TRUE)
      from(i) == IF P.n = 2 /\ P.cls[1] # P.cls[2] THEN P.fld[i].ofs ELSE (i - 1) * Regsize(T, P)
      bt(i) == IF P.n = 2 /\ P.cls[1] # P.cls[2] THEN P.fld[i].bt ELSE P.fld[1].bt
  IN {from(i) .. from(i) + Basic[bt(i)] - 1 : i \in 1 .. P.n}

-----------------------------------------------------------------------------
Begin == [areg |-> NoRegs, stack_adj |-> 0, tempspace |-> 0, ofs |-> 0, slots |-> {}]

(* The address for the result is the first argument. *)
Init ==
  /\ sret \in BOOLEAN /\ variadic \in BOOLEAN
  /\ open = FALSE
  /\ caller = IF sret THEN Passed(Begin, Pointer, TRUE).c ELSE Begin
  /\ func = [areg |-> IF sret THEN [I |-> 1, F |-> 0] ELSE NoRegs,
             addr |-> 0, ap |-> 0, assert |-> TRUE]
  /\ args = <<>>

Record(T, named, at, from) ==
  args' = Append(args, [type |-> T, named |-> named, at |-> at, from |-> from])

(* With a hidden first argument, gfunc_call() is one parameter ahead and   *)
(* has none left for the last.                                             *)
Named(T, last) ==
  LET p == Passed(caller, T, ~(sret /\ last))
      t == Taken(func, T)
  IN /\ ~open /\ Len(args) < MaxArgs
     /\ caller' = p.c
     /\ func' = IF last THEN [t.f EXCEPT !.ap = t.f.addr] ELSE t.f
     /\ Record(T, TRUE, p.at, t.from)
     /\ open' = last
     /\ UNCHANGED <<sret, variadic>>

Unnamed(T) ==
  LET p == Passed(caller, T, FALSE)
      t == Fetched(func, T)
  IN /\ open /\ variadic /\ Len(args) < MaxArgs
     /\ caller' = p.c /\ func' = t.f
     /\ Record(T, FALSE, p.at, t.from)
     /\ UNCHANGED <<sret, variadic, open>>

(* Unnamed arguments have been promoted. *)
Promoted == Types \ {[bt |-> "char"], [bt |-> "float"]}

Next ==
  \/ \E T \in Types, last \in BOOLEAN : Named(T, last)
  \/ \E T \in Promoted : Unnamed(T)

Spec == Init /\ [][Next]_vars

-----------------------------------------------------------------------------
Content(T) == IF ByRef(T) THEN 0 .. 7 ELSE Bytes(T)
Places(a) == {a.at[k] : k \in Content(a.type)}
Arrives(a) == \A k \in Content(a.type) : Resolved(func, a.from[k]) = a.at[k]

(* Every byte of every argument is where the function looks for it, and    *)
(* the function could be compiled.                                         *)
ArgsArrive == open => func.assert /\ \A i \in DOMAIN args : Arrives(args[i])

(* The calls of which the code does not keep this.                         *)
(* Of a structure by its fields: the ones between the two that are passed, *)
(* or an integer that is not the second eight bytes.                       *)
Irregular(T) ==
  LET P == ByFields[T] IN
  /\ ~ByRef(T) /\ P.n = 2
  /\ \/ P.cls = <<"F", "I">> /\ P.fld[2].ofs < 8
     \/ \E k \in Bytes(T) : k >= Basic[P.fld[1].bt] /\ k < P.fld[2].ofs

(* The last parameter of a function with a hidden argument is passed as if *)
(* it were not declared.                                                   *)
Shifted ==
  /\ sret
  /\ \E i \in DOMAIN args :
       /\ args[i].named /\ \A j \in DOMAIN args : args[j].named => j <= i
       /\ "F" \in {reg_pass(args[i].type, TRUE).cls[k] : k \in 1 .. 2}
          \/ Align(args[i].type) = 16

(* Parameters on the stack of a function with "...": they are looked for   *)
(* in front of the registers that were saved there, and the rest begins    *)
(* within the slot of the last.                                            *)
AreaMoved == variadic /\ func.addr > 0 /\ (SavedRegs(func) > 0 \/ func.addr % 8 # 0)

(* In all other calls caller and function agree, and no two arguments are  *)
(* in the same place.                                                      *)
ArgsAgree ==
  open /\ ~Shifted /\ ~AreaMoved /\ func.assert =>
    /\ \A i \in DOMAIN args : Arrives(args[i]) \/ Irregular(args[i].type)
    /\ \A i \in DOMAIN args : \A j \in 1 .. i - 1 : Places(args[i]) \intersect Places(args[j]) = {}

(* What the caller stores for the function is within what it has made room *)
(* for, in front of the copies of what is passed by reference; it may      *)
(* exceed it by the slots that are left empty in front of arguments        *)
(* aligned to 16, which are not counted.                                   *)
Holes == {s \in caller.slots : s[1] > 0 /\ \A t \in caller.slots : RoundUp(t[2], 8) # s[1]}
InRoom ==
  \A s \in caller.slots : s[2] <= RoundUp(caller.stack_adj, 16) + 8 * Cardinality(Holes)

(* A structure of one or two registers, such as the last argument,         *)
(* is returned whole, but for one that is irregular or has fields of two   *)
(* floating point types.                                                   *)
ResultArrives ==
  args # <<>> =>
    LET T == args[Len(args)].type IN
    IsStruct(T) /\ ~ByRef(T) /\ ~Irregular(T) =>
      \/ \A k \in Bytes(T) : \E r \in Returned(T) : k \in r
      \/ /\ reg_pass(T, TRUE).cls = <<"F", "F">>
         /\ reg_pass(T, TRUE).fld[1].bt # reg_pass(T, TRUE).fld[2].bt
=============================================================================
