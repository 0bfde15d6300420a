------------------------------- MODULE Scopes -------------------------------
(***************************************************************************)
(* How tcc compiles the statements of a function in one pass (block() in   *)
(* tccgen.c): the scopes, the chains of jumps that are patched later, what *)
(* leaves a scope on the way (functions of __attribute__((cleanup)), the   *)
(* stack pointer of variable length arrays), labels that are used before   *)
(* they are defined, and the suppression of code that cannot be reached.   *)
(*                                                                         *)
(* A behaviour parses a function statement by statement.  src is what the  *)
(* C language says of it: the variables in scope.  Every statement emits a *)
(* mark with it into the code, so that the properties can compare what the *)
(* code does between two marks with what it has to do.                     *)
(***************************************************************************)
EXTENDS Integers, Sequences, FiniteSets, SequencesExt

CONSTANTS
  Label,
  MaxStmts     \* of a set of kinds of statements: how many a function made of them has

VARIABLES
  kinds,       \* the kinds of statements of the function
  fn,          \* the function as it is compiled
  src,         \* the blocks that are open in the source, with their variables; all declarations
  stmts,       \* how many statements have been parsed
  status       \* "parse", "done", or "error"

vars == <<kinds, fn, src, stmts, status>>

None == [owner |-> 0, sp |-> <<>>]        \* no stack slot

(* fn: code, whether it is suppressed, the scopes (cur_scope is the last), *)
(* loop_scope, the statements block() is in, the labels, pending_gotos     *)
(* with the latest first, the chains (jnext) of those, and rsym.           *)
Scope == [cl |-> <<>>, vla |-> [loc |-> None, locorig |-> None, num |-> 0], bsym |-> 0, csym |-> 0]
Function ==
  [code |-> <<>>, off |-> FALSE, scopes |-> <<Scope>>, loop_scope |-> 0, in |-> <<>>,
   labels |-> [l \in Label |-> [r |-> "none", jnext |-> {}, at |-> 0, cl |-> <<>>, next |-> {}]],
   pending_gotos |-> <<>>, chains |-> <<>>, rsym |-> {}]

-----------------------------------------------------------------------------
(* Code.  A chain is the set of the jumps in it. *)
Emit(f, i) == IF f.off THEN f ELSE [f EXCEPT !.code = Append(@, i)]
Ind(f) == Len(f.code) + 1
To(op, a) == [op |-> op, to |-> a]

Chain(f, t) == IF f.off THEN t ELSE t \union {Ind(f)}
gjmp(f) == [Emit(f, To("jmp", 0)) EXCEPT !.off = TRUE]
gjmp_addr(f, a) == [Emit(f, To("jmp", a)) EXCEPT !.off = TRUE]
gvtst(f) == Emit(f, To("br", 0))

gsym_addr(f, t, a) ==
  [f EXCEPT !.code = [i \in DOMAIN @ |-> IF i \in t THEN [@[i] EXCEPT !.to = a] ELSE @[i]]]
gsym(f, t) == IF t = {} THEN f ELSE [gsym_addr(f, t, Ind(f)) EXCEPT !.off = FALSE]
gind(f) == [f EXCEPT !.off = FALSE]

(* A mark: the number of the statement, the blocks it is in, where it goes *)
(* to if it is a goto or a return, the label if it has one.                *)
Mark(f, blocks, goto, label) ==
  Emit(f, [op |-> "at", n |-> stmts, in |-> blocks, goto |-> goto, label |-> label])

-----------------------------------------------------------------------------
(* Scopes. *)
Cur(f) == Last(f.scopes)
Depth(f) == Len(f.scopes)
Outer(f) == f.scopes[Depth(f) - 1]
SetCur(f, o) == [f EXCEPT !.scopes[Depth(f)] = o]

new_scope(f) == [f EXCEPT !.scopes = Append(@, [Cur(f) EXCEPT !.vla.num = 0])]

(* The functions of the variables of cur_scope but for the n oldest.       *)
try_call_scope_cleanup(f, n) ==
  LET cl == Cur(f).cl
  IN FoldLeft(LAMBDA g, i : Emit(g, [op |-> "call", var |-> cl[i]]), f,
              [i \in 1 .. Len(cl) - n |-> Len(cl) + 1 - i])

(* Mutant: of the two chains only the depth is compared.                   *)
MutCommon(a, b) == IF Len(a) < Len(b) THEN Len(a) ELSE Len(b)

Common(a, b) == Len(LongestCommonPrefix({a, b}))

try_call_cleanup_goto(f, cleanupstate) ==
  IF Cur(f).cl = <<>> THEN f ELSE try_call_scope_cleanup(f, Common(Cur(f).cl, cleanupstate))

(* One of the pending gotos when a scope with variables is left: it goes   *)
(* on behind their functions, to the end of the next scope.                *)
PendingGoto(acc, g, n) ==
  LET begin == IF acc.jmp = {} THEN gjmp(acc.f) ELSE acc.f
      called == try_call_scope_cleanup(gsym(begin, begin.chains[g.chain]), n)
      left == [gjmp(called) EXCEPT !.chains[g.chain] = Chain(called, {})]
  IN IF acc.stop \/ g.c <= n
       THEN [acc EXCEPT !.stop = TRUE, !.kept = Append(@, g)]
     ELSE IF acc.f.labels[g.label].r = "forward"
       THEN [acc EXCEPT !.f = left,
                        !.jmp = IF @ = {} THEN Chain(acc.f, {}) ELSE @,
                        !.kept = IF n = 0 THEN @ ELSE Append(@, [g EXCEPT !.c = n])]
     ELSE acc

block_cleanup(f, n) ==
  LET r == FoldLeft(LAMBDA acc, g : PendingGoto(acc, g, n),
                    [f |-> f, jmp |-> {}, kept |-> <<>>, stop |-> FALSE], f.pending_gotos)
  IN try_call_scope_cleanup(gsym([r.f EXCEPT !.pending_gotos = r.kept], r.jmp), n)

vla_restore(f, slot) == IF slot = None THEN f ELSE Emit(f, [op |-> "restore", slot |-> slot])

(* Mutant: the slot of the innermost scope that has an array.              *)
Mutvla_leave(f, o) ==
  LET with == {i \in o + 1 .. Depth(f) : f.scopes[i].vla.num > 0}
  IN IF with = {} THEN f ELSE vla_restore(f, f.scopes[Max(with)].vla.locorig)

(* To scope o: the slot of the outermost scope below it that has an array. *)
vla_leave(f, o) ==
  LET with == {i \in o + 1 .. Depth(f) : f.scopes[i].vla.num > 0}
  IN IF with = {} THEN f ELSE vla_restore(f, f.scopes[Min(with)].vla.locorig)

prev_scope(f) ==
  LET left == vla_leave(f, Depth(f) - 1)
      done == IF Cur(f).cl # Outer(f).cl THEN block_cleanup(left, Len(Outer(f).cl)) ELSE left
  IN [done EXCEPT !.scopes = Front(@)]

leave_scope(f, o) ==
  IF o = 0 THEN f ELSE vla_leave(try_call_scope_cleanup(f, Len(f.scopes[o].cl)), o)

-----------------------------------------------------------------------------
(* What block() keeps while it is in a statement: its chains a and b, its  *)
(* address d, and what lblock() puts back.                                 *)
Statement(kind) ==
  [kind |-> kind, a |-> {}, b |-> {}, d |-> 0, bsym |-> 0, csym |-> 0, loop_scope |-> 0,
   scope |-> 0, live |-> TRUE, cases |-> <<>>, def_sym |-> 0]

Top(f) == Last(f.in)
SetTop(f, e) == [f EXCEPT !.in[Len(f.in)] = e]
Pop(f) == [f EXCEPT !.in = Front(@)]

(* lblock(), before and after the body; a switch has no continue.          *)
Enter(f, e) ==
  LET me == Len(f.in) + 1
      saved == [e EXCEPT !.bsym = Cur(f).bsym, !.csym = Cur(f).csym,
                         !.loop_scope = f.loop_scope, !.scope = Depth(f)]
      in == [f EXCEPT !.in = Append(@, saved), !.scopes[Depth(f)].bsym = me]
  IN IF e.kind = "switch" THEN in
     ELSE [in EXCEPT !.scopes[Depth(f)].csym = me, !.loop_scope = Depth(f)]
Leave(f) ==
  [f EXCEPT !.scopes[Depth(f)].bsym = Top(f).bsym, !.scopes[Depth(f)].csym = Top(f).csym,
            !.loop_scope = Top(f).loop_scope]

Parses(kind) == status = "parse" /\ kind \in kinds /\ stmts < MaxStmts[kinds] /\ stmts' = stmts + 1
Becomes(f) == fn' = f /\ UNCHANGED <<kinds, status>>

(* The source: a block is opened, closed; a variable is declared in the    *)
(* innermost one.                                                          *)
Vars(blocks) == FlattenSeq([i \in DOMAIN blocks |-> blocks[i].cl])
Arrays(blocks) == FlattenSeq([i \in DOMAIN blocks |-> blocks[i].vla])
Block == [id |-> <<stmts, Len(src.blocks)>>, cl |-> <<>>, vla |-> <<>>]
Var == stmts + 1
Opened == src' = [src EXCEPT !.blocks = Append(@, Block)]
Declare(s, cl, vla) ==
  [blocks |-> [s.blocks EXCEPT ![Len(s.blocks)] = [@ EXCEPT !.cl = @ \o cl, !.vla = @ \o vla]],
   decls |-> Append(s.decls, [n |-> stmts, block |-> Last(s.blocks).id, var |-> Var,
                              arrays |-> Arrays(s.blocks)])]

-----------------------------------------------------------------------------
(* Declarations (decl_initializer_alloc()).  An array in code that is      *)
(* suppressed is not allocated.                                            *)
Cleanup(f) == [f EXCEPT !.scopes[Depth(f)].cl = Append(@, Var)]

DeclCleanup ==
  /\ Parses("cleanup")
  /\ src' = Declare(src, <<Var>>, <<>>)
  /\ Becomes(Mark(Cleanup(fn), src'.blocks, "-", "-"))

DeclVla ==
  /\ Parses("vla")
  /\ LET old == Arrays(src.blocks)
         slot == [owner |-> Var, sp |-> Append(old, Var)]
         before == [owner |-> Var, sp |-> old]
         v == Cur(fn).vla
         o == Outer(fn).vla
         orig == CASE v.num > 0 -> v.locorig
                   [] v.num = 0 /\ o.num > 0 -> o.loc
                   [] v.num = 0 /\ o.num = 0 -> before
         saved == IF orig = before THEN Emit(fn, [op |-> "save", slot |-> before]) ELSE fn
         alloc == Emit(Emit(saved, [op |-> "alloc", var |-> Var]), [op |-> "save", slot |-> slot])
         f == [alloc EXCEPT !.scopes[Depth(fn)].vla = [loc |-> slot, locorig |-> orig, num |-> v.num + 1]]
     IN /\ src' = Declare(src, <<>>, <<Var>>)
        /\ Becomes(IF fn.off THEN fn ELSE Mark(f, src'.blocks, "-", "-"))

-----------------------------------------------------------------------------
(* Compound statements, if and the loops: what comes before the body.      *)
Test(f) == Mark(f, src.blocks, "-", "-")

OpenBlock ==
  /\ Parses("block")
  /\ Opened
  /\ Becomes(new_scope([fn EXCEPT !.in = Append(@, Statement("block"))]))

If ==
  /\ Parses("if")
  /\ Opened
  /\ LET f == Test(fn)
     IN Becomes(new_scope([gvtst(f) EXCEPT !.in = Append(@, [Statement("if") EXCEPT !.a = Chain(f, {})])]))

While ==
  /\ Parses("while")
  /\ Opened
  /\ LET f == Test(gind(fn))
         e == [Statement("while") EXCEPT !.a = Chain(f, {}), !.d = Ind(fn)]
     IN Becomes(new_scope(Enter(gvtst(f), e)))

(* for (init; test; step), perhaps with a variable.                        *)
For ==
  /\ Parses("for")
  /\ \E declares \in BOOLEAN :
       LET begin == [src EXCEPT !.blocks = Append(@, Block)]
           s == IF declares THEN Declare(begin, <<Var>>, <<>>) ELSE begin
           f0 == IF declares THEN Cleanup(new_scope(fn)) ELSE new_scope(fn)
           test == Mark(gind(f0), s.blocks, "-", "-")
           over == gvtst(test)
           step == Mark(gind(gjmp(over)), s.blocks, "-", "-")
           body == gsym(gjmp_addr(step, Ind(f0)), Chain(over, {}))
           e == [Statement("for") EXCEPT !.a = Chain(test, {}), !.d = Ind(gjmp(over))]
       IN /\ "cleanup" \in kinds \/ ~declares
          /\ src' = [s EXCEPT !.blocks = Append(@, [Block EXCEPT !.id = <<stmts, 0>>])]
          /\ Becomes(new_scope(Enter(body, e)))

Do ==
  /\ Parses("do")
  /\ Opened
  /\ Becomes(new_scope(Enter(gind(fn), [Statement("do") EXCEPT !.d = Ind(fn)])))

Switch ==
  /\ Parses("switch")
  /\ Opened
  /\ LET f == Test(fn)
         e == [Statement("switch") EXCEPT !.b = Chain(f, {}), !.live = ~fn.off]
     IN Becomes(new_scope(Enter(gjmp(f), e)))

(* The closing brace of a body, and what the statement ends with.          *)
EndLoop(f, e) == gsym(gsym_addr(gjmp_addr(f, e.d), e.b, e.d), e.a)

EndDo(f, e) ==
  LET test == Mark(gsym(f, e.b), Front(src.blocks), "-", "-")
  IN gsym(gsym_addr(gvtst(test), Chain(test, {}), e.d), e.a)

(* The comparisons of gcase() are one jump to each of the cases.           *)
EndSwitch(f, e) ==
  LET body == gsym(gjmp(f), e.b)
      tested == FoldLeft(LAMBDA g, a : Emit(g, To("br", a)), body, e.cases)
      other == gjmp(tested)
      d == Chain(tested, {})
      found == IF e.def_sym # 0 THEN gsym_addr(other, d, e.def_sym) ELSE gsym(other, d)
  IN gsym(IF e.live THEN found ELSE body, Chain(f, e.a))

Close ==
  /\ status = "parse" /\ fn.in # <<>>
  /\ LET e == Top(fn)
         f == prev_scope(fn)
         g == Pop(Leave(f))
     IN /\ Becomes(CASE e.kind = "block" -> Pop(f)
                     [] e.kind = "if" -> gsym(Pop(f), e.a)
                     [] e.kind = "while" -> EndLoop(g, e)
                     [] e.kind = "for" -> prev_scope(EndLoop(g, e))
                     [] e.kind = "do" -> EndDo(g, e)
                     [] e.kind = "switch" -> EndSwitch(g, e))
        /\ src' = [src EXCEPT !.blocks = IF e.kind = "for" THEN Front(Front(@)) ELSE Front(@)]
  /\ UNCHANGED stmts

Else ==
  /\ Parses("else") /\ fn.in # <<>> /\ Top(fn).kind = "if"
  /\ LET f == prev_scope(fn)
         d == Chain(f, {})
         g == gsym(gjmp(f), Top(fn).a)
     IN Becomes(new_scope(SetTop(g, [Statement("if") EXCEPT !.a = d])))
  /\ src' = [src EXCEPT !.blocks = Append(Front(@), Block)]

-----------------------------------------------------------------------------
(* Jumps and labels; cond is true for "if (...) goto l;". *)
Jumping(kind, goto, Jump(_)) ==
  /\ Parses(kind)
  /\ \E cond \in BOOLEAN :
       LET test == Test(fn)
           f == Mark(IF cond THEN gvtst(test) ELSE fn, src.blocks, goto, "-")
       IN Becomes(IF cond THEN gsym(Jump(f), Chain(test, {})) ELSE Jump(f))
  /\ UNCHANGED src

goto_label(f0, l) ==
  LET f == vla_restore(f0, Cur(f0).vla.locorig)
      s == f.labels[l]
      ahead == [f EXCEPT !.labels[l].r = "forward"]
      id == Len(f.chains) + 1
  IN CASE s.r = "defined" -> gjmp_addr(try_call_cleanup_goto(f, s.cl), s.at)
       [] s.r # "defined" /\ Cur(f).cl # <<>> /\ ~f.off ->
            gjmp([ahead EXCEPT
              !.chains = Append(@, Chain(f, {})),
              !.labels[l].next = @ \union {id},
              !.pending_gotos = <<[label |-> l, c |-> Len(Cur(f).cl), chain |-> id]>> \o @])
       [] s.r # "defined" /\ (Cur(f).cl = <<>> \/ f.off) ->
            gjmp([ahead EXCEPT !.labels[l].jnext = Chain(f, @)])

Goto(l) == Jumping("goto", l, LAMBDA f : goto_label(f, l))

LabelDef(l) ==
  /\ Parses("label") /\ fn.labels[l].r # "defined"
  /\ LET s == fn.labels[l]
         patched == IF s.next # {} THEN gsym(fn, UNION {fn.chains[i] : i \in s.next})
                                   ELSE gsym(fn, s.jnext)
         f == gind(patched)
     IN Becomes(Mark(vla_restore([f EXCEPT !.labels[l] =
                                    [r |-> "defined", jnext |-> {}, at |-> Ind(f), cl |-> Cur(f).cl,
                                     next |-> {}]], Cur(f).vla.loc), src.blocks, "-", l))
  /\ UNCHANGED src

cur_switch == LET is == {i \in DOMAIN fn.in : fn.in[i].kind = "switch"}
              IN IF is = {} THEN 0 ELSE Max(is)

break(f) ==
  LET me == Cur(f).bsym
      left == IF cur_switch # 0 /\ me = cur_switch THEN leave_scope(f, f.in[me].scope)
                                                 ELSE leave_scope(f, f.loop_scope)
  IN gjmp([left EXCEPT !.in[me].a = Chain(left, @)])
Break == Cur(fn).bsym # 0 /\ Jumping("break", "-", break)

continue(f) ==
  LET me == Cur(f).csym
      left == leave_scope(f, f.loop_scope)
  IN gjmp([left EXCEPT !.in[me].b = Chain(left, @)])
Continue == Cur(fn).csym # 0 /\ Jumping("continue", "-", continue)

return(f) == LET left == leave_scope(f, 1) IN gjmp([left EXCEPT !.rsym = Chain(left, @)])
Return == Jumping("return", "end", return)

Case ==
  /\ Parses("case") /\ cur_switch # 0
  /\ LET f == IF fn.in[cur_switch].live THEN gind(fn) ELSE fn
     IN Becomes(Test(vla_restore([f EXCEPT !.in[cur_switch].cases = Append(@, Ind(f))],
                                 Cur(f).vla.loc)))
  /\ UNCHANGED src

Default ==
  /\ Parses("case") /\ cur_switch # 0 /\ fn.in[cur_switch].def_sym = 0
  /\ LET f == IF fn.in[cur_switch].live THEN gind(fn) ELSE fn
     IN Becomes(Test(vla_restore([f EXCEPT !.in[cur_switch].def_sym = Ind(f)], Cur(f).vla.loc)))
  /\ UNCHANGED src

(* The end of the function, perhaps after a return without a jump.         *)
End ==
  /\ status = "parse" /\ fn.in = <<>>
  /\ \E returns \in BOOLEAN :
       LET left == leave_scope(Mark(fn, src.blocks, "end", "-"), 1)
           f == prev_scope(IF returns THEN [left EXCEPT !.off = TRUE] ELSE fn)
           end == [gsym(f, f.rsym) EXCEPT !.off = FALSE]
       IN fn' = Mark(end, <<>>, "-", "end")
  /\ status' = IF \E l \in Label : fn.labels[l].r = "forward" THEN "error" ELSE "done"
  /\ UNCHANGED <<kinds, src, stmts>>

Init ==
  /\ kinds \in DOMAIN MaxStmts
  /\ fn = new_scope(Function)
  /\ src = [blocks |-> <<[id |-> <<0, 0>>, cl |-> <<>>, vla |-> <<>>]>>, decls |-> <<>>]
  /\ stmts = 0
  /\ status = "parse"

Next ==
  \/ DeclCleanup \/ DeclVla \/ OpenBlock \/ If \/ Else \/ While \/ For \/ Do \/ Switch \/ Close
  \/ \E l \in Label : Goto(l) \/ LabelDef(l)
  \/ Break \/ Continue \/ Return \/ Case \/ Default \/ End

Spec == Init /\ [][Next]_vars

-----------------------------------------------------------------------------
(* What the compiled code does from one mark to the next. *)
Code == fn.code

RECURSIVE Arrive(_)
Arrive(w) ==
  LET i == Code[w.pc]
      on == [w EXCEPT !.pc = @ + 1]
  IN IF w.pc = 0 THEN {w} ELSE
     CASE i.op = "at" -> {w}
       [] i.op = "jmp" -> Arrive([w EXCEPT !.pc = i.to])
       [] i.op = "br" -> Arrive(on) \union Arrive([w EXCEPT !.pc = i.to])
       [] i.op = "call" -> Arrive([on EXCEPT !.calls = Append(@, i.var), !.sps = Append(@, w.sp)])
       [] i.op = "alloc" -> Arrive([on EXCEPT !.sp = Append(@, i.var), !.new = Append(@, i.var)])
       [] i.op = "restore" -> Arrive([on EXCEPT !.sp = i.slot.sp])
       [] i.op = "save" -> Arrive(on)

Walk(pc, sp) == [pc |-> pc, calls |-> <<>>, sps |-> <<>>, sp |-> sp, new |-> <<>>]
From(i) == IF i = Len(Code) THEN {} ELSE Arrive(Walk(i + 1, Arrays(Code[i].in)))

RECURSIVE Reached(_)
Reached(S) ==
  LET T == S \union {w.pc : w \in UNION {From(i) : i \in S}}
  IN IF T \ {0} = S THEN S ELSE Reached(T \ {0})
Live == Reached({w.pc : w \in Arrive(Walk(1, <<>>))} \ {0})

(* The program does not jump into the scope of an array. *)
Legal == \A i \in Live : \A w \in From(i) : w.pc # 0 =>
  IsPrefix(Arrays(Code[w.pc].in), Arrays(Code[i].in) \o w.new)

Left(i, j) ==
  LET vs == Vars(Code[i].in)
      kept == Common(vs, Vars(Code[j].in))
  IN Reverse(SubSeq(vs, kept + 1, Len(vs)))

(* What tcc does not handle: a label that is reached by forward gotos from *)
(* inside and from outside of the scope of a variable with a function; a   *)
(* variable with a function that is declared after a forward goto out of   *)
(* its scope; a goto out of several blocks with arrays to where there is   *)
(* none.                                                                   *)
LabelMark(l) == {j \in DOMAIN Code : Code[j].op = "at" /\ Code[j].label = l}
Forward(l) == {i \in DOMAIN Code : /\ Code[i].op = "at" /\ Code[i].goto = l
                                   /\ \A j \in LabelMark(l) : Code[i].n < Code[j].n}
Blocks(i) == {b.id : b \in Range(Code[i].in)}
Mixed(i) == \E l \in Label : /\ i \in Forward(l) /\ Vars(Code[i].in) = <<>>
                             /\ \E k \in Forward(l) : Vars(Code[k].in) # <<>>
Late(i) == \E l \in Label : i \in Forward(l) /\ \E d \in Range(src.decls) :
              d.n > Code[i].n /\ d.block \in Blocks(i) /\ \E j \in LabelMark(l) : d.n < Code[j].n
Leaks(i, j) ==
  /\ Code[i].goto \in Label /\ Arrays(Code[j].in) = <<>>
  /\ Cardinality({b \in Range(Code[i].in) : b.vla # <<>>}) > 1

(* From one statement to the next, whatever jumps there are in between,    *)
(* the code calls the functions of exactly the variables whose scope is    *)
(* left, the youngest first; and a goto arrives at its label, and a return *)
(* at the end of the function.                                             *)
CleanupsRun ==
  status = "done" /\ Legal =>
    \A i \in Live : ~Mixed(i) => \A w \in From(i) :
      /\ w.pc # 0
      /\ Code[i].goto # "-" => Code[w.pc].label = Code[i].goto
      /\ Late(i) \/ w.calls = Left(i, w.pc)

(* The stack pointer is where the arrays in scope end: none of them is     *)
(* given up while it can be used, and none is kept after its scope.        *)
StackRight ==
  status = "done" /\ Legal =>
    \A i \in Live : ~Mixed(i) => \A w \in From(i) :
      Leaks(i, w.pc) \/ w.sp = Arrays(Code[w.pc].in)
=============================================================================
