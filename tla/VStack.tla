------------------------------- MODULE VStack -------------------------------
(***************************************************************************)
(* The value stack of tcc (tccgen.c): operands wait on it as constants,    *)
(* variables, addresses or registers until an operator wants them, in      *)
(* registers of some class; when these run out, the value that has waited  *)
(* longest is written to a temporary slot of the frame.  The riscv64       *)
(* generator (riscv64-gen.c) asks for the registers and emits the code.    *)
(*                                                                         *)
(* A behaviour compiles one expression, in the order its operators are     *)
(* read, and runs the code at the same time: paths holds an execution for  *)
(* each outcome of the comparisons, with its registers and memory and,     *)
(* next to them, the variables and the operands as C has them.  A word is  *)
(* a term over the first contents of memory, a tuple of numbers.           *)
(*                                                                         *)
(* Types are "int", "ld" (long double, two words) and pointers to them.    *)
(* Left out: operands that are both constant and conditions that are (they *)
(* are folded), and expressions that modify what another operand reads,    *)
(* which have no defined value.                                            *)
(***************************************************************************)
EXTENDS Integers, Sequences, FiniteSets, SequencesExt, FiniteSetsExt, Functions

CONSTANTS
  NB_REGS,     \* integer registers, 8 in the code
  Sig,         \* the functions: name -> [id, args, ret], types
  MaxOps       \* of a set of kinds of operators: how many an expression has

VARIABLES
  ops,         \* the kinds of operators of this behaviour
  g,           \* the generator (value stack, slots, jumps) and the paths
  ctl,         \* the operators that are read in part
  done         \* operators read so far

vars == <<ops, g, ctl, done>>

-----------------------------------------------------------------------------
VT_CONST == 48
VT_LLOCAL == 49
VT_LOCAL == 50
VT_CMP == 51

Reg == 0 .. NB_REGS - 1
RC_INT == Reg
RC_IRET == {0}
RC2_TYPE(t, rc) == IF t # "ld" THEN {} ELSE IF rc = RC_IRET THEN {1} ELSE RC_INT

Size(t) == CASE t = "int" -> 4 [] t = "ld" -> 16 [] OTHER -> 8
Width(t) == IF t = "int" THEN 4 ELSE 8

SValue(t, r, c) ==
  [t |-> t, r |-> r, lv |-> FALSE, r2 |-> VT_CONST, c |-> c,
   cmp |-> <<>>, jtrue |-> {}, jfalse |-> {}]
Lvalue(t, r, c) == [SValue(t, r, c) EXCEPT !.lv = TRUE]

(* Words. *)
Addr(a) == <<0, a>>
Num(k) == <<1, k>>
First(a) == <<2, a>>
Garbage == <<9>>
Sub(a, b) == <<10, Len(a)>> \o a \o b
Less(a, b) == <<11, Len(a)>> \o a \o b
Truth(a) == <<12>> \o a
Result(f, words, i) == FoldLeft(LAMBDA t, w : t \o <<Len(w)>> \o w, <<13 + i, f.id>>, words)

(* The variables of the program, p and q pointing to the outside.          *)
Local == [a |-> -8, b |-> -16, p |-> -24, q |-> -32, d |-> -48, e |-> -64]
TypeOf == [a |-> "int", b |-> "int", p |-> "int*", q |-> "ld*", d |-> "ld", e |-> "ld"]
Pointed(t) == IF t = "int*" THEN "int" ELSE "ld"
Cells ==
  [c \in {-64, -56, -48, -40, -32, -24, -16, -8, 8, 16, 24} |->
     CASE c = Local.p -> Addr(8) [] c = Local.q -> Addr(16) [] OTHER -> First(c)]
CellWidth(c) == IF c \in {-16, -8, 8} THEN 4 ELSE 8

-----------------------------------------------------------------------------
(* Executions.  at is 0 where the code has been generated to, or the jump  *)
(* that the execution waits at.                                            *)
Exec(s, F(_)) == [s EXCEPT !.paths = {IF p.at = 0 THEN F(p) ELSE p : p \in @}]

Read(p, a, w) ==
  IF a[1] = 0 /\ a[2] \in DOMAIN p.mem /\ p.mem[a[2]].w = w THEN p.mem[a[2]].v ELSE Garbage
Write(p, a, w, v) ==
  IF a[1] = 0 THEN [p EXCEPT !.mem = (a[2] :> [v |-> v, w |-> w]) @@ @] ELSE [p EXCEPT !.ok = FALSE]

Place(p, sv) ==
  CASE sv.r = VT_LOCAL -> Addr(sv.c)
    [] sv.r = VT_LLOCAL -> Read(p, Addr(sv.c), 8)
    [] OTHER -> p.reg[sv.r]

(* Every comparison has been decided when its operands were used, unless   *)
(* the registers hold something else by now.                               *)
Undecided(p, t) == t[1] # 1 /\ t \notin DOMAIN p.cond
Decided(p, t) == IF t[1] = 1 THEN t[2] # 0 ELSE t \in DOMAIN p.cond /\ p.cond[t]
Truths(t) == IF t[1] = 1 THEN t ELSE Truth(t)
Compared(p, cmp) == IF cmp.op = "ne" THEN Truths(p.reg[cmp.a]) ELSE Less(p.reg[cmp.a], p.reg[cmp.b])
Flag(p, sv) == Decided(p, Compared(p, sv.cmp)) # sv.cmp.neg
Bool(b) == Num(IF b THEN 1 ELSE 0)
Outcome(p, t, neg) == IF Undecided(p, t) THEN Garbage ELSE Bool(Decided(p, t) # neg)

Word(p, sv) ==
  CASE sv.lv -> Read(p, Place(p, sv), Width(sv.t))
    [] ~sv.lv /\ sv.r = VT_CONST -> Num(sv.c)
    [] ~sv.lv /\ sv.r = VT_LOCAL -> Addr(sv.c)
    [] ~sv.lv /\ sv.r = VT_CMP -> Outcome(p, Compared(p, sv.cmp), sv.cmp.neg)
    [] ~sv.lv /\ sv.r \in Reg -> p.reg[sv.r]

load(s, r, sv) == Exec(s, LAMBDA p : [p EXCEPT !.reg[r] = Word(p, sv)])
(* The generator has no store to VT_LLOCAL. *)
store(s, r, sv) ==
  Exec(s, LAMBDA p : IF sv.r = VT_LLOCAL THEN [p EXCEPT !.ok = FALSE]
                     ELSE Write(p, Place(p, sv), Width(sv.t), p.reg[r]))

JumpIf(s, F(_)) ==
  [s EXCEPT !.nj = @ + 1,
            !.paths = {IF p.at = 0 /\ F(p) THEN [p EXCEPT !.at = s.nj + 1] ELSE p : p \in @}]
gsym(s, t) == [s EXCEPT !.paths = {IF p.at \in t THEN [p EXCEPT !.at = 0] ELSE p : p \in @}]

-----------------------------------------------------------------------------
Top(s) == Last(s.vs)
Push(s, sv) == [s EXCEPT !.vs = Append(@, sv)]
Pop(s) == [s EXCEPT !.vs = Front(@)]
SetTop(s, sv) == Push(Pop(s), sv)
vdup(s) == Push(s, Top(s))
Under(s) == s.vs[Len(s.vs) - 1]
SetUnder(s, sv) == Push(SetTop(Pop(s), sv), Top(s))

(* The last k entries: the first of them goes to the top, or the top       *)
(* before them.                                                            *)
Rotb(vs, k) ==
  LET m == Len(vs) - k IN SubSeq(vs, 1, m) \o SubSeq(vs, m + 2, Len(vs)) \o <<vs[m + 1]>>
Rott(vs, k) ==
  LET m == Len(vs) - k IN SubSeq(vs, 1, m) \o <<Last(vs)>> \o SubSeq(vs, m + 1, Len(vs) - 1)
Rotated(s, k) == [s EXCEPT !.vs = Rotb(@, k)]
vrott(s, k) == [s EXCEPT !.vs = Rott(@, k)]

MAX_TEMP_LOCAL_VARIABLE_NUMBER == 8
Floor(x, align) == (x \div align) * align

Refers(sv, l) == sv.r \in {VT_LOCAL, VT_LLOCAL} /\ sv.c = l

(* The location, in new, of a temporary slot that no entry refers to, or   *)
(* of one more.                                                            *)
get_temp_local_var(s, size, align) ==
  LET free == {i \in DOMAIN s.temps :
                 /\ s.temps[i].size >= size /\ s.temps[i].align = align
                 /\ \A k \in DOMAIN s.vs : ~Refers(s.vs[k], s.temps[i].location)}
      new == Floor(s.loc - size, align)
  IN IF free # {} THEN [s EXCEPT !.new = s.temps[Min(free)].location]
     ELSE [s EXCEPT !.new = new, !.loc = new,
                    !.temps = IF Len(@) = MAX_TEMP_LOCAL_VARIABLE_NUMBER THEN @
                              ELSE Append(@, [location |-> new, size |-> size, align |-> align])]

Saved(sv, l) ==
  [sv EXCEPT !.r = IF sv.lv THEN VT_LLOCAL ELSE VT_LOCAL, !.lv = TRUE, !.r2 = VT_CONST, !.c = l]

(* The entries hit, which are all sv, move to the slot that was found. *)
Spill(s, hit, sv, bt) ==
  LET Low(t) == store(t, sv.r, Lvalue(bt, VT_LOCAL, t.new))
      High(t) == IF bt = "ld" /\ sv.r2 # VT_CONST
                   THEN store(t, sv.r2, Lvalue(bt, VT_LOCAL, t.new + 8)) ELSE t
      Entries(t) == [t EXCEPT !.vs = [i \in DOMAIN @ |-> IF i \in hit THEN Saved(@[i], t.new) ELSE @[i]]]
  IN Entries(High(Low(s)))

\* Mutant of In: the second register of an entry is overlooked.
MutIn(sv, r) == sv.r = r
In(sv, r) == sv.r = r \/ sv.r2 = r

save_reg_upstack(s, r, k) ==
  LET hit == {i \in 1 .. Len(s.vs) - k : In(s.vs[i], r)}
      sv == s.vs[Min(hit)]
      bt == IF sv.lv THEN "ptr" ELSE sv.t
  IN IF r >= VT_CONST \/ hit = {} THEN s
     ELSE Spill(get_temp_local_var(s, Size(bt), Size(bt)), hit, sv, bt)

save_reg(s, r) == save_reg_upstack(s, r, 0)
save_regs(s, k) == FoldLeft(LAMBDA t, i : save_reg(t, t.vs[i].r), s, [i \in 1 .. Len(s.vs) - k |-> i])

(* In new, a register of class rc that no entry is in; if there is none,   *)
(* the first entry from the bottom gives its second or its only one away.  *)
get_reg(s, rc) ==
  LET used == {s.vs[i].r : i \in DOMAIN s.vs} \union {s.vs[i].r2 : i \in DOMAIN s.vs}
      sv == s.vs[Min({i \in DOMAIN s.vs : s.vs[i].r \in rc \/ s.vs[i].r2 \in rc})]
      Take(t, r) == [save_reg(t, r) EXCEPT !.new = r]
  IN Take(s, IF rc \ used # {} THEN Min(rc \ used) ELSE IF sv.r2 \in rc THEN sv.r2 ELSE sv.r)

-----------------------------------------------------------------------------
(* gvtst() for a value that is a comparison: a jump if it holds, or if it  *)
(* does not (inv); t are the jumps so far.                                 *)
Branch(s, inv) ==
  LET sv == Top(s)
      Chained(b) == [Pop(gsym(b, IF inv THEN sv.jtrue ELSE sv.jfalse)) EXCEPT
                       !.t = (IF inv THEN sv.jfalse ELSE sv.jtrue) \union {b.nj}]
  IN Chained(JumpIf(s, LAMBDA p : Flag(p, sv) # inv))

(* The top into r: a condition with jumps becomes 0 or 1. *)
LoadFlag(s, r) ==
  LET Move(b, from, to) == [b EXCEPT !.paths = {[p EXCEPT !.at = IF @ = from THEN to ELSE @] : p \in @}]
      Zero(b) == Move(load(b, r, SValue("int", VT_CONST, 0)), 0, -1)
      One(b) == Move(load(gsym(b, b.t), r, SValue("int", VT_CONST, 1)), -1, 0)
  IN Push(One(Zero(Branch(s, FALSE))), SValue("int", r, 0))
LoadTop(s, r) ==
  IF Top(s).jtrue \union Top(s).jfalse # {} THEN LoadFlag(s, r)
  ELSE SetTop(load(s, r, Top(s)), [SValue(Top(s).t, r, Top(s).c) EXCEPT !.r2 = Top(s).r2])

(* gv() of a value of one word. *)
gv1(s, rc) ==
  LET sv == Top(s)
      Load(t) == LoadTop(t, t.new)
  IN IF sv.r \in rc /\ ~sv.lv THEN s
     ELSE Load(IF sv.r \in rc THEN [save_reg_upstack(s, sv.r, 1) EXCEPT !.new = sv.r] ELSE get_reg(s, rc))

vcheck_cmp(s) == IF s.vs # <<>> /\ Top(s).r = VT_CMP THEN gv1(s, RC_INT) ELSE s
vrotb(s, k) == Rotated(vcheck_cmp(s), k)
vswap(s) == vrotb(s, 2)
vset(s, sv) == Push(vcheck_cmp(s), sv)

(* An operation F with a small constant: the result may take the register  *)
(* of the operand.                                                         *)
Immediate(s) ==
  LET Target(t) == Push(get_reg(Pop(t), RC_INT), Top(t))
  IN Target(gv1(s, RC_INT))
AddImm(s, F(_, _)) ==
  LET Emit(t) == SetTop(Exec(t, LAMBDA p : [p EXCEPT !.reg[t.new] = F(p, p.reg[Top(t).r])]),
                        [Top(t) EXCEPT !.r = t.new])
  IN Emit(Immediate(s))
Next8(a) == IF a[1] = 0 THEN Addr(a[2] + 8) ELSE Garbage

incr_offset(s) ==
  LET sv == Top(s)
      addr == IF sv.r = VT_LLOCAL THEN Lvalue("ptr", VT_LOCAL, sv.c) ELSE SValue("ptr", sv.r, sv.c)
      At8(t) == SetTop(t, [Top(t) EXCEPT !.lv = TRUE, !.t = sv.t])
  IN IF sv.r = VT_LOCAL THEN SetTop(s, [sv EXCEPT !.c = @ + 8])
     ELSE At8(AddImm(SetTop(s, addr), LAMBDA p, x : Next8(x)))

(* gv() of a long double: the second word is on the top. *)
SecondWord(s, r, rc2) ==
  LET Load(t) == Pop(load(t, t.new, Top(t)))
      Both(t) == SetTop(t, [Top(t) EXCEPT !.r = r, !.lv = FALSE, !.r2 = t.new, !.t = "ld"])
  IN Both(Load(get_reg(s, rc2)))
FromMemory(s, r, rc2) ==
  LET sv == [Top(s) EXCEPT !.t = "word"]
      Low(t) == Push(SetTop(t, [sv EXCEPT !.r = r, !.lv = FALSE]), sv)
  IN SecondWord(incr_offset(Low(load(s, r, sv))), r, rc2)
FromRegs(s, r, rc2) ==
  LET sv == Top(s)
      High(t) == IF sv.r2 \in rc2 THEN t ELSE SecondWord(Push(t, [sv EXCEPT !.r = sv.r2]), r, rc2)
  IN High(SetTop(IF sv.r = r THEN s ELSE load(s, r, sv), [sv EXCEPT !.r = r]))
gv2words(s, rc) ==
  LET rc2 == RC2_TYPE("ld", rc)
      r_ok == ~Top(s).lv /\ Top(s).r \in rc
      Load(t) == IF Top(t).lv THEN FromMemory(save_reg_upstack(t, Top(t).r, 1), t.new, rc2)
                 ELSE FromRegs(t, t.new, rc2)
  IN IF r_ok /\ Top(s).r2 \in rc2 THEN s
     ELSE Load(IF r_ok THEN [s EXCEPT !.new = Top(s).r] ELSE get_reg(s, rc))

gv(s, rc) == IF Top(s).t = "ld" THEN gv2words(s, rc) ELSE gv1(s, rc)

(* Both operands, of one word, and again the lower one if it was spilled.  *)
gv2(s) ==
  LET Lower(t) == vswap(gv1(vswap(t), RC_INT))
      Again(t) == IF Under(t).r >= VT_CONST THEN Lower(t) ELSE t
  IN Again(gv1(Lower(s), RC_INT))

gv_dup(s) ==
  LET Copy(t) == SetTop(load(vdup(t), t.new, Top(t)), [Top(t) EXCEPT !.r = t.new])
  IN Copy(get_reg(gv1(s, RC_INT), RC_INT))

-----------------------------------------------------------------------------
IsConst(sv) == sv.r = VT_CONST /\ ~sv.lv
ToFlags(s, cmp) == SetTop(s, [SValue("int", VT_CMP, 0) EXCEPT !.cmp = cmp])
NotZero(s) == ToFlags(s, [op |-> "ne", neg |-> FALSE, a |-> Top(s).r])

(* gen_op() of two ints, and gen_opil(). *)
OfConst(s, op, k) ==
  LET Set(t) == IF op = "sub" THEN t ELSE NotZero(t)
  IN Set(AddImm(s, LAMBDA p, x : IF op = "sub" THEN Sub(x, k) ELSE Outcome(p, Less(x, k), FALSE)))
OfRegs(s, op) ==
  LET a == Under(s).r
      b == Top(s).r
      Emit(t) ==
        IF op = "lt" THEN ToFlags(t, [op |-> "lt", neg |-> FALSE, a |-> a, b |-> b])
        ELSE Exec(t, LAMBDA p : [p EXCEPT !.reg[t.new] = Sub(p.reg[a], p.reg[b])])
      Target(t) == Push(t, [Under(s) EXCEPT !.r = t.new])
  IN Emit(Target(get_reg(Pop(Pop(s)), RC_INT)))
gen_op(s, op) ==
  LET Do(t) == IF IsConst(Top(t)) THEN OfConst(Pop(t), op, Num(Top(t).c)) ELSE OfRegs(gv2(t), op)
  IN Do(vcheck_cmp(s))

(* A value compared with zero. *)
Test(s) == IF Top(s).r = VT_CMP THEN s ELSE NotZero(Immediate(s))
gvtst_set(s, inv, t) ==
  LET Join(b) == SetTop(b, IF inv THEN [Top(b) EXCEPT !.jfalse = @ \union t] ELSE [Top(b) EXCEPT !.jtrue = @ \union t])
  IN Join(Test(s))
gvtst(s, inv, t) == Branch(gvtst_set(s, inv, t), inv)
gen_test_zero(s) ==
  LET Negated(sv) == [sv EXCEPT !.cmp.neg = ~@, !.jtrue = sv.jfalse, !.jfalse = sv.jtrue]
      Set(t) == SetTop(t, Negated(Top(t)))
  IN Set(Test(s))

indir(s) ==
  LET Set(t) == SetTop(t, [Top(t) EXCEPT !.t = Pointed(@), !.lv = TRUE])
  IN Set(IF Top(s).lv THEN gv1(s, RC_INT) ELSE s)

StoreWords(s) ==
  LET Word1(t) == SetUnder(t, [Under(t) EXCEPT !.t = "word"])
      Low(t) == store(t, Top(t).r, Under(t))
      High(t) == store(t, Top(t).r2, Under(t))
  IN IF Top(s).t = "ld" THEN High(vswap(incr_offset(vswap(Low(Word1(s)))))) ELSE Low(s)
vstore(s) ==
  LET Reload(t) == SetUnder(load(t, t.new, Lvalue("ptr", VT_LOCAL, Under(t).c)), [Under(t) EXCEPT !.r = t.new])
      Settled(t) == IF Under(t).r = VT_LLOCAL THEN Reload(get_reg(t, RC_INT)) ELSE t
  IN Pop(vswap(StoreWords(Settled(gv(s, RC_INT)))))

inc(s, post) ==
  LET Keep(t) == IF post THEN vrotb(vrotb(gv_dup(t), 3), 3) ELSE t
      Value_(t) == IF post THEN Pop(t) ELSE t
  IN Value_(vstore(AddImm(Keep(vdup(s)), LAMBDA p, x : Sub(x, Num(-1)))))

(* gfunc_call() with arguments in registers, the last one first; the       *)
(* second word of a long double is moved without a look at what is there.  *)
FirstReg(args, j) == FoldLeft(LAMBDA r, t : r + (IF t = "ld" THEN 2 ELSE 1), 0, SubSeq(args, 1, j - 1))
SecondArgReg(s, r) ==
  LET sv == Top(s)
      used == \E i \in 1 .. Len(s.vs) - 1 : In(s.vs[i], r)
      Move(t) == [SetTop(t, [sv EXCEPT !.r2 = r]) EXCEPT !.ex = @ \union (IF used THEN {"moved"} ELSE {})]
  IN IF sv.t # "ld" \/ sv.r2 = r THEN s
     ELSE Move(Exec(s, LAMBDA p : [p EXCEPT !.reg[r] = p.reg[sv.r2]]))
PassArg(s, args, i) ==
  LET r == FirstReg(args, Len(args) - i)
  IN vrott(SecondArgReg(gv(vrotb(s, i + 1), {r}), r + 1), i + 1)

Words(t, W(_)) == IF t = "ld" THEN <<W(0), W(1)>> ELSE <<W(0)>>
gfunc_call(s, f) ==
  LET k == Len(f.args)
      Passed(t) == FoldLeft(LAMBDA u, i : PassArg(u, f.args, i - 1), t, [i \in 1 .. k |-> i])
      Args(p) == [i \in 1 .. FirstReg(f.args, k + 1) |-> p.reg[i - 1]]
      Returns(p) ==
        [r \in Reg |-> IF r = 0 \/ (r = 1 /\ f.ret = "ld") THEN Result(f, Args(p), r) ELSE Garbage]
      Call(t) == Exec(t, LAMBDA p : [p EXCEPT !.reg = Returns(p)])
  IN Push([Call(save_regs(vrotb(Passed(vcheck_cmp(s)), k + 1), k + 1)) EXCEPT !.vs = SubSeq(@, 1, Len(@) - k - 1)],
          [SValue(f.ret, 0, 0) EXCEPT !.r2 = IF f.ret = "ld" THEN 1 ELSE VT_CONST])

-----------------------------------------------------------------------------
(* What C makes of it.  want are the operands, gm the variables: an lvalue *)
(* is its address, another one its words.  Live are the executions that    *)
(* the operand on the top belongs to.                                      *)
Live(s, p) == p.at = 0 \/ (s.vs # <<>> /\ p.at \in Top(s).jtrue \union Top(s).jfalse)
C(s, F(_)) == [s EXCEPT !.paths = {IF Live(s, p) THEN F(p) ELSE p : p \in @}]

LV(a) == [lv |-> TRUE, v |-> <<Addr(a)>>]
RV(v) == [lv |-> FALSE, v |-> v]
At(w) == w.v[1][2]
Value(p, w, t) ==
  IF ~w.lv THEN w.v ELSE Words(t, LAMBDA i : p.gm[At(w) + 8 * i])
Operand(p, k, s) == Value(p, p.want[Len(p.want) - k], s.vs[Len(s.vs) - k].t)
Want(p, k, w) == [p EXCEPT !.want = Append(SubSeq(@, 1, Len(@) - k), w)]

(* A comparison is decided: one execution for each outcome. *)
Decide(s, T(_)) ==
  LET Both(p) == {[p EXCEPT !.cond = (T(p) :> b) @@ @] : b \in BOOLEAN}
  IN [s EXCEPT !.paths = UNION {IF Live(s, p) /\ Undecided(p, T(p)) THEN Both(p) ELSE {p} : p \in @}]
TruthOf(s) == Decide(s, LAMBDA p : Truths(Operand(p, 0, s)[1]))
IsTrue(p, s) == Decided(p, Truths(Operand(p, 0, s)[1]))

(* The condition is consumed: the executions for which it is b go on, the  *)
(* others jump.                                                            *)
Consume(s, b, Jumping(_)) ==
  LET s1 == TruthOf(s)
  IN [s1 EXCEPT !.paths =
        {CASE Live(s1, p) /\ IsTrue(p, s1) = b -> [p EXCEPT !.want = Front(@)]
           [] Live(s1, p) /\ IsTrue(p, s1) # b -> [Jumping(p) EXCEPT !.goes = FALSE]
           [] ~Live(s1, p) -> [p EXCEPT !.goes = FALSE] : p \in @}]
Dropped(p) == [p EXCEPT !.want = Front(@)]
Arrived(s) ==
  [s EXCEPT !.paths = {[p EXCEPT !.ok = @ /\ (p.at = 0) = p.goes, !.goes = TRUE] : p \in @}]

-----------------------------------------------------------------------------
Base == IF ctl = <<>> THEN 0 ELSE Last(ctl).base
Has(k) == Len(g.vs) >= Base + k
TypeAt(k) == g.vs[Len(g.vs) - k].t
IsScalar(t) == t \in {"int", "int*", "ld*"}

Read_(k) == k \in ops /\ done < MaxOps[ops] /\ done' = done + 1 /\ UNCHANGED ops
Gen(s) == g' = s

Begin ==
  [vs |-> <<>>, temps |-> <<>>, loc |-> Local.e, nj |-> 0, new |-> 0, t |-> {}, ex |-> {},
   paths |-> {[reg |-> [r \in Reg |-> Garbage],
               mem |-> [c \in DOMAIN Cells |-> [v |-> Cells[c], w |-> CellWidth(c)]],
               gm |-> Cells, want |-> <<>>, cond |-> <<>>, at |-> 0, ok |-> TRUE, goes |-> TRUE]}]
Init == ops \in DOMAIN MaxOps /\ g = Begin /\ ctl = <<>> /\ done = 0

Local_(x) ==
  /\ Read_(x)
  /\ Gen(vset(C(g, LAMBDA p : Want(p, 0, LV(Local[x]))), Lvalue(TypeOf[x], VT_LOCAL, Local[x])))
  /\ UNCHANGED ctl

Literal ==
  /\ Read_("const")
  /\ Gen(vset(C(g, LAMBDA p : Want(p, 0, RV(<<Num(5)>>))), SValue("int", VT_CONST, 5)))
  /\ UNCHANGED ctl

Deref ==
  /\ Read_("deref") /\ Has(1) /\ TypeAt(0) \in {"int*", "ld*"}
  /\ Gen(indir(C(g, LAMBDA p : Want(p, 1, LV(Operand(p, 0, g)[1][2])))))
  /\ UNCHANGED ctl

Binary(op) ==
  /\ Read_(op) /\ Has(2) /\ TypeAt(0) = "int" /\ TypeAt(1) = "int"
  /\ ~(IsConst(Top(g)) /\ IsConst(Under(g)))
  /\ LET IsLess(p) == Less(Operand(p, 1, g)[1], Operand(p, 0, g)[1])
         s == IF op = "lt" THEN Decide(g, IsLess) ELSE g
     IN Gen(gen_op(C(s, LAMBDA p : Want(p, 2, RV(<<IF op = "sub" THEN Sub(Operand(p, 1, g)[1], Operand(p, 0, g)[1])
                                                   ELSE Bool(Decided(p, IsLess(p)))>>))), op))
  /\ UNCHANGED ctl

Not ==
  /\ Read_("not") /\ Has(1) /\ IsScalar(TypeAt(0)) /\ ~IsConst(Top(g))
  /\ Gen(gen_test_zero(C(TruthOf(g), LAMBDA p : Want(p, 1, RV(<<Bool(~IsTrue(p, g))>>)))))
  /\ UNCHANGED ctl

(* An lvalue that no other operand reads: k is its place on the stack.     *)
Modifiable(k) ==
  \A p \in g.paths : Live(g, p) =>
    LET w == p.want[Len(p.want) - k]
    IN w.lv /\ \A i \in DOMAIN p.want : p.want[i] = w => i = Len(p.want) - k
Assigned(p, a, v) ==
  [p EXCEPT !.gm = [c \in DOMAIN @ |-> IF \E i \in DOMAIN v : c = a + 8 * (i - 1) THEN v[(c - a) \div 8 + 1] ELSE @[c]]]

Assign ==
  /\ Read_("assign") /\ Has(2) /\ TypeAt(0) = TypeAt(1) /\ TypeAt(0) \in {"int", "ld"}
  /\ Modifiable(1)
  /\ Gen(vstore(C(g, LAMBDA p : LET v == Operand(p, 0, g)
                                IN Want(Assigned(p, At(p.want[Len(p.want) - 1]), v), 2, RV(v)))))
  /\ UNCHANGED ctl

Inc(post) ==
  /\ Read_(IF post THEN "post" ELSE "pre") /\ Has(1) /\ TypeAt(0) = "int" /\ Modifiable(0)
  /\ Gen(inc(C(g, LAMBDA p : LET old == Operand(p, 0, g)
                                 new == <<Sub(old[1], Num(-1))>>
                             IN Want(Assigned(p, At(Last(p.want)), new), 1, RV(IF post THEN old ELSE new))), post))
  /\ UNCHANGED ctl

(* -=, before and after its right operand. *)
OpBegin ==
  /\ Read_("op=") /\ Has(1) /\ TypeAt(0) = "int" /\ Modifiable(0)
  /\ Gen(vdup(C(g, LAMBDA p : Want(p, 0, Last(p.want)))))
  /\ ctl' = Append(ctl, [k |-> "op=", base |-> Len(g.vs) + 1])
OpEnd ==
  /\ ctl # <<>> /\ Last(ctl).k = "op=" /\ Len(g.vs) = Base + 1 /\ TypeAt(0) = "int"
  /\ Gen(vstore(gen_op(C(g, LAMBDA p : LET v == <<Sub(Operand(p, 1, g)[1], Operand(p, 0, g)[1])>>
                                       IN Want(Assigned(p, At(p.want[Len(p.want) - 1]), v), 3, RV(v))), "sub")))
  /\ ctl' = Front(ctl) /\ UNCHANGED <<ops, done>>

Function(f) ==
  /\ Read_(f)
  /\ Gen(vset(C(g, LAMBDA p : Want(p, 0, RV(<<Garbage>>))), SValue(f, VT_CONST, 0)))
  /\ UNCHANGED ctl
CallEnd(f) ==
  LET k == Len(Sig[f].args)
      Args(p) == FlattenSeq([i \in 1 .. k |-> Operand(p, k - i, g)])
  IN /\ Has(k + 1) /\ TypeAt(k) = f /\ \A i \in 1 .. k : TypeAt(k - i) = Sig[f].args[i]
     /\ Gen(gfunc_call(C(g, LAMBDA p : Want(p, k + 1, RV(Words(Sig[f].ret, LAMBDA i : Result(Sig[f], Args(p), i))))), Sig[f]))
     /\ UNCHANGED <<ops, ctl, done>>

(* expr_landor(): i is TRUE for &&. *)
Landor(k) ==
  LET i == k = "&&"
      more == ctl # <<>> /\ Last(ctl).k = k /\ Len(g.vs) = Base + 1
  IN /\ Read_(k) /\ Has(1) /\ IsScalar(TypeAt(0)) /\ ~IsConst(Top(g))
     /\ Gen(Arrived(gvtst(save_regs(Consume(g, i, Dropped), 1), i, IF more THEN Last(ctl).t ELSE {})))
     /\ ctl' = Append(IF more THEN Front(ctl) ELSE ctl, [k |-> k, base |-> Len(g.vs) - 1, t |-> g'.t])
LandorEnd ==
  LET i == Last(ctl).k = "&&"
      s == C(TruthOf(g), LAMBDA p : Want(p, 1, RV(<<Bool(IsTrue(p, g))>>)))
      Short(p) == IF p.at \in Last(ctl).t THEN Want(p, 0, RV(<<Bool(~i)>>)) ELSE p
  IN /\ ctl # <<>> /\ Last(ctl).k \in {"&&", "||"}
     /\ Len(g.vs) = Base + 1 /\ IsScalar(TypeAt(0)) /\ ~IsConst(Top(g))
     /\ Gen(gvtst_set(save_regs([s EXCEPT !.paths = {Short(p) : p \in @}], 1), i, Last(ctl).t))
     /\ ctl' = Front(ctl) /\ UNCHANGED <<ops, done>>

(* expr_cond(): up to the ?, without a second operand (?:), from the : on, *)
(* and the end.                                                            *)
Question ==
  /\ Read_("?") /\ Has(1) /\ IsScalar(TypeAt(0)) /\ ~IsConst(Top(g))
  /\ Gen(Arrived(gvtst(save_regs(Consume(g, TRUE, Dropped), 1), TRUE, {})))
  /\ ctl' = Append(ctl, [k |-> "?", base |-> Len(g.vs) - 1, t |-> g'.t])
Alone ==
  LET s == Consume(g, FALSE, LAMBDA p : Want(p, 1, RV(Operand(p, 0, g))))
  IN /\ Read_("?:") /\ Has(1) /\ IsScalar(TypeAt(0)) /\ ~IsConst(Top(g))
     /\ \E b \in {gvtst(gv_dup(save_regs(s, 1)), FALSE, {})} :
          /\ Gen(Arrived(Pop(b)))
          /\ ctl' = Append(ctl, [k |-> ":", base |-> Len(g.vs) - 1, sv |-> Top(b), t |-> b.t])
Colon ==
  LET s == JumpIf(Pop(C(g, LAMBDA p : Want(p, 1, RV(Operand(p, 0, g))))), LAMBDA p : TRUE)
  IN /\ ctl # <<>> /\ Last(ctl).k = "?" /\ Len(g.vs) = Base + 1 /\ done < MaxOps[ops]
     /\ IsScalar(TypeAt(0)) \/ TypeAt(0) = "ld"
     /\ Gen(gsym(s, Last(ctl).t))
     /\ ctl' = Append(Front(ctl), [k |-> ":", base |-> Base, sv |-> Top(g), t |-> {s.nj}])
     /\ UNCHANGED <<ops, done>>

BothFlags(s, sv, u) ==
  LET Join(b) == gvtst_set(gvtst_set(Push(gsym(b, u), sv), FALSE, b.t), TRUE, {b.nj})
  IN Join(JumpIf(gvtst(s, FALSE, {}), LAMBDA p : TRUE))
move_reg(s, r) ==
  LET Move(t) == SetTop(load(t, r, Top(t)), [Top(t) EXCEPT !.r = r])
  IN IF Top(s).r = r THEN s ELSE Move(save_reg(s, r))
BothValues(s, sv, u) ==
  LET rc == IF sv.t = "ld" THEN RC_IRET ELSE RC_INT
      Join(b) == gsym(move_reg(gv(SetTop(gsym(b, u), sv), rc), Top(b).r), {b.nj})
  IN Join(JumpIf(gv(s, rc), LAMBDA p : TRUE))
CondEnd ==
  LET sv == Last(ctl).sv
      s == C(g, LAMBDA p : Want(p, 1, RV(Operand(p, 0, g))))
  IN /\ ctl # <<>> /\ Last(ctl).k = ":" /\ Len(g.vs) = Base + 1 /\ TypeAt(0) = sv.t
     /\ Gen(IF Top(g).r = VT_CMP /\ sv.r = VT_CMP THEN BothFlags(s, sv, Last(ctl).t)
            ELSE BothValues(s, sv, Last(ctl).t))
     /\ ctl' = Front(ctl) /\ UNCHANGED <<ops, done>>

Next ==
  \/ \E x \in DOMAIN Local : Local_(x)
  \/ Literal \/ Deref \/ Not \/ Assign \/ OpBegin \/ OpEnd
  \/ \E op \in {"sub", "lt"} : Binary(op)
  \/ \E post \in BOOLEAN : Inc(post)
  \/ \E f \in DOMAIN Sig : Function(f) \/ CallEnd(f)
  \/ \E k \in {"&&", "||"} : Landor(k)
  \/ LandorEnd \/ Question \/ Alone \/ Colon \/ CondEnd

Spec == Init /\ [][Next]_vars

-----------------------------------------------------------------------------
(* The words that an entry of the stack denotes, once the instructions     *)
(* generated so far are executed.                                          *)
Denoted(p, sv) ==
  CASE sv.t = "ld" /\ sv.lv -> <<Word(p, sv), Read(p, Next8(Place(p, sv)), 8)>>
    [] sv.t = "ld" /\ ~sv.lv -> <<p.reg[sv.r], p.reg[sv.r2]>>
    [] sv.t # "ld" /\ sv.r = VT_CMP /\ p.at # 0 -> <<Bool(p.at \in sv.jtrue)>>
    [] OTHER -> <<Word(p, sv)>>
Holds(p, sv, w) ==
  \/ sv.t \in DOMAIN Sig
  \/ w.lv /\ sv.lv /\ Place(p, sv) = w.v[1]
  \/ ~w.lv /\ Denoted(p, sv) = w.v

(* Property: whatever is spilled, reloaded, moved or jumped over on the    *)
(* way, an operand denotes what C says on every path to where it waits,    *)
(* and the variables have their values; but for the calls in ex.           *)
OperandsKept ==
  g.ex = {} =>
    \A p \in g.paths :
      /\ p.ok
      /\ \A c \in DOMAIN Cells : p.mem[c].v = p.gm[c]
      /\ Live(g, p) => /\ Len(p.want) = Len(g.vs)
                      /\ \A i \in DOMAIN g.vs : Holds(p, g.vs[i], p.want[i])
=============================================================================
