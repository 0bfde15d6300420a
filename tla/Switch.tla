------------------------------- MODULE Switch -------------------------------
(***************************************************************************)
(* How tcc finds the case of a switch statement (block() and gcase() in    *)
(* tccgen.c): the cases are collected as they are read, sorted at the end, *)
(* checked for duplicates and turned into a binary search that ends in a   *)
(* linear one.                                                             *)
(*                                                                         *)
(* A case is a range of constants as expr_const64() returns them, numbers  *)
(* of a long long; they are not converted to the type of the switch.  The  *)
(* widths of int and long long are WI and WL, 32 and 64 in the code.       *)
(***************************************************************************)
EXTENDS Integers, Sequences, SequencesExt

CONSTANTS
  WI, WL,
  Linear,      \* up to so many cases are searched one by one, 8 in the code
  MaxCases

VARIABLES
  type,        \* of the value that is switched on
  cases,       \* cur_switch->p
  sorted,      \* the same when the end has been read
  status       \* "open", "done", or "error" for a duplicate

vars == <<type, cases, sorted, status>>

LongLong == -(2 ^ (WL - 1)) .. 2 ^ (WL - 1) - 1
Types == {"uchar", "int", "uint", "llong", "ullong"}
Unsigned(t) == t \in {"uchar", "uint", "ullong"}
ll(t) == t \in {"llong", "ullong"}

Signed(v, w) == ((v + 2 ^ (w - 1)) % 2 ^ w) - 2 ^ (w - 1)

(* What case_cmpi() and case_cmpu() take a constant for. *)
Key(v) == IF Unsigned(type) THEN v % 2 ^ WL ELSE v

(* Mutant: unsigned values are sorted as signed ones.                      *)
MutSorted(s) == SortSeq(s, LAMBDA a, b : a.v1 < b.v1)

Sorted(s) == SortSeq(s, LAMBDA a, b : Key(a.v1) < Key(b.v1))
Duplicate(s) == \E b \in 2 .. Len(s) : Key(s[b - 1].v2) >= Key(s[b].v1)

(* gen_op(): the constant becomes an int, unless the value is a long long, *)
(* and both are promoted.                                                  *)
Operand(v) ==
  LET w == IF ll(type) THEN WL ELSE WI
  IN IF type \in {"uint", "ullong"} THEN v % 2 ^ w ELSE Signed(v, w)
LE(x, v) == x <= Operand(v)
GE(x, v) == x >= Operand(v)

(* The case that x goes to in the cases from i on, len of them; 0: none.   *)
RECURSIVE gcase(_, _, _, _)
gcase(x, s, i, len) ==
  LET mid == i + len \div 2
      here == {k \in i .. i + len - 1 : GE(x, s[k].v1) /\ LE(x, s[k].v2)}
  IN IF len <= Linear
       THEN IF here = {} THEN 0 ELSE CHOOSE k \in here : \A j \in here : k <= j
     ELSE IF ~LE(x, s[mid].v2) THEN gcase(x, s, mid + 1, len - len \div 2 - 1)
     ELSE IF GE(x, s[mid].v1) THEN mid
     ELSE gcase(x, s, i, len \div 2)

-----------------------------------------------------------------------------
(* The values of the type, and what C makes of a constant: it is converted *)
(* to the promoted type.                                                   *)
Values ==
  CASE type = "uchar" -> 0 .. 2 ^ (WI - 1) - 1
    [] type = "int" -> -(2 ^ (WI - 1)) .. 2 ^ (WI - 1) - 1
    [] type = "uint" -> 0 .. 2 ^ WI - 1
    [] type = "llong" -> LongLong
    [] type = "ullong" -> 0 .. 2 ^ WL - 1
Converted(v) ==
  CASE type \in {"uchar", "int"} -> Signed(v, WI)
    [] type = "uint" -> v % 2 ^ WI
    [] type = "llong" -> v
    [] type = "ullong" -> v % 2 ^ WL
Of(c) == Converted(c.v1) .. Converted(c.v2)

(* The cases of the model.  The others, constants that the conversion      *)
(* changes (0xffffffff for an int), negative ones when the type is a small *)
(* unsigned one, and empty ranges, are sorted by another number than they  *)
(* are compared with, and are not found when there are more than Linear.   *)
Regular(c) == Key(c.v1) = Converted(c.v1) /\ Key(c.v2) = Converted(c.v2) /\ Of(c) # {}

Init ==
  /\ type \in Types
  /\ cases = <<>> /\ sorted = <<>> /\ status = "open"

(* The order of the cases has no influence: they are read in one order.    *)
Case(v1, v2) ==
  /\ status = "open" /\ Len(cases) < MaxCases
  /\ cases # <<>> => LET c == Last(cases) IN c.v1 < v1 \/ (c.v1 = v1 /\ c.v2 < v2)
  /\ Regular([v1 |-> v1, v2 |-> v2])
  /\ cases' = Append(cases, [v1 |-> v1, v2 |-> v2])
  /\ UNCHANGED <<type, sorted, status>>

End ==
  /\ status = "open"
  /\ sorted' = Sorted(cases)
  /\ status' = IF Duplicate(sorted') THEN "error" ELSE "done"
  /\ UNCHANGED <<type, cases>>

Next == End \/ \E v1, v2 \in LongLong : Case(v1, v2)

Spec == Init /\ [][Next]_vars

-----------------------------------------------------------------------------
(* The code of a switch goes to the case that the value is in, and to the  *)
(* default if it is in none, whatever the type, the number of cases and    *)
(* their order; and it is refused if, and only if, two cases overlap.      *)
SwitchFinds ==
  status # "open" =>
    IF status = "error"
      THEN \E i, j \in DOMAIN cases : i # j /\ Of(cases[i]) \intersect Of(cases[j]) # {}
      ELSE \A x \in Values :
             LET k == gcase(x, sorted, 1, Len(sorted))
             IN IF k = 0 THEN \A i \in DOMAIN cases : x \notin Of(cases[i])
                         ELSE \A i \in DOMAIN cases : x \in Of(cases[i]) <=> cases[i] = sorted[k]
=============================================================================
