------------------------------ MODULE MacroExp ------------------------------
(***************************************************************************)
(* Macro expansion: macro_subst() and the functions below it (tccpp.c),    *)
(* next to the algorithm that carries the hiding of names in every token,  *)
(* which the C standard's rules were written from.                         *)
(*                                                                         *)
(* tcc hides names by position instead: nested_list holds the macros that  *)
(* are being expanded, and loses an entry when the text of that expansion  *)
(* has been read to its end, be it by a call whose arguments follow it.    *)
(* Blanks, which only separate tokens, are left out.                       *)
(***************************************************************************)
EXTENDS Naturals, Sequences, FiniteSets, SequencesExt

CONSTANTS Pasted  \* the token that "a ## b" gives, for <<a, b>> that give one

(* A token: its spelling; hid is the SYM_FIELD bit, "marked so it doesn't  *)
(* get subst'd again"; of is the text that was stringized.                 *)
Tok(name) == [t |-> name, hid |-> FALSE, of |-> <<>>]
Toks(names) == [i \in DOMAIN names |-> Tok(names[i])]
Placeholder == Tok("placeholder")
EOF == Tok("EOF")

(* A macro: NoMacro, an object-like one or a function-like one.  The last  *)
(* parameter may be variadic.                                              *)
NoMacro == [kind |-> "none", params |-> <<>>, varg |-> FALSE, body |-> <<>>]
Object(body) == [NoMacro EXCEPT !.kind = "obj", !.body = body]
Function(params, varg, body) ==
  [kind |-> "func", params |-> params, varg |-> varg, body |-> body]

define_find(D, name) == IF name \in DOMAIN D THEN D[name] ELSE NoMacro
IsMacro(D, tk) == ~tk.hid /\ define_find(D, tk.t).kind # "none"

(* The preprocessor at work: strs is macro_stack, the rest of every text   *)
(* that is being read, innermost first, the file at the bottom; nested is  *)
(* nested_list; out the result; nosubst and err as in the code; pp is      *)
(* pp_expr; beyond: a token behind the line was asked for, and the newline *)
(* is gone.                                                                *)
Reading(strs, nested, pp) ==
  [strs |-> strs, nested |-> nested, out |-> <<>>, nosubst |-> FALSE,
   err |-> FALSE, pp |-> pp, beyond |-> FALSE]

Put(c, tk) == [c EXCEPT !.out = Append(@, tk)]
Fail(c) == [c EXCEPT !.err = TRUE]

(* next_argstream(): texts read to their end are popped with the macro     *)
(* they come from, then the next token is peeked, or read.  At the end of  *)
(* the file's line peek_file() goes on to the next one.                    *)
RECURSIVE next_argstream(_)

next_argstream(c) ==
  IF Len(c.strs) > 1 /\ Head(c.strs) = <<>>
    THEN next_argstream([c EXCEPT !.strs = Tail(@),
                                  !.nested = IF @ = <<>> THEN @ ELSE Tail(@)])
    ELSE [c EXCEPT !.beyond = @ \/ Head(c.strs) = <<>>]

Peeked(c) == IF Head(c.strs) = <<>> THEN EOF ELSE Head(Head(c.strs))
Skip(c) == IF Head(c.strs) = <<>> THEN c ELSE [c EXCEPT !.strs[1] = Tail(@)]

(* The arguments of a call, with c after the "(": for every parameter the  *)
(* text up to a "," or ")" that is not within parentheses; the variadic    *)
(* one takes the rest, and may be missing.  Where no parameter is left,    *)
(* only the ")" may follow, even after a ",".                              *)
RECURSIVE Arguments(_, _, _, _, _)
Arguments(c0, m, args, cur, parlevel) ==
  LET c == next_argstream(c0)
      t == Peeked(c).t
      k == Len(args) + 1
      variadic == m.varg /\ k = Len(m.params)
      done == Append(args, cur)
  IN CASE m.params = <<>> -> [c |-> IF t = ")" THEN Skip(c) ELSE Fail(c), args |-> args]
       [] t = "EOF" -> [c |-> Fail(c), args |-> args]
       [] t = ")" /\ parlevel = 0 /\ m.params # <<>> ->
            IF k = Len(m.params) THEN [c |-> Skip(c), args |-> done]
            ELSE IF k + 1 = Len(m.params) /\ m.varg
                   THEN [c |-> Skip(c), args |-> Append(done, <<>>)]
                   ELSE [c |-> Fail(c), args |-> done]
       [] t = "," /\ parlevel = 0 /\ ~variadic /\ m.params # <<>> ->
            IF k < Len(m.params) THEN Arguments(Skip(c), m, done, <<>>, 0)
            ELSE Arguments(Skip(c), [m EXCEPT !.params = <<>>], done, <<>>, 0)
       [] OTHER ->
            Arguments(Skip(c), m, args, Append(cur, Peeked(c)),
                      IF t = "(" THEN parlevel + 1
                      ELSE IF t = ")" THEN parlevel - 1 ELSE parlevel)

ParamOf(m, tk) ==
  LET P == {i \in DOMAIN m.params : m.params[i] = tk.t}
  IN IF P = {} THEN 0 ELSE CHOOSE i \in P : TRUE

Stringized(arg) == [Tok("string") EXCEPT !.of = [i \in DOMAIN arg |-> arg[i].t]]

(* The parameters whose arguments are expanded, because they are somewhere *)
(* neither an operand of # nor of ##, or behind a ", ##".                  *)
Expands(m) ==
  LET Is(i, t) == i \in DOMAIN m.body /\ m.body[i].t = t
      Eaten(i) == m.varg /\ ParamOf(m, m.body[i]) = Len(m.params)
                  /\ Is(i - 1, "##") /\ Is(i - 2, ",")
  IN {ParamOf(m, m.body[i]) : i \in {j \in DOMAIN m.body :
        ~Is(j - 1, "#") /\ (Eaten(j) \/ ~(Is(j - 1, "##") \/ Is(j + 1, "##")))}} \ {0}

(* macro_arg_subst(): an argument next to ## is not expanded, and leaves a *)
(* placeholder if it is empty; ", ## __VA_ARGS__" drops the comma of an    *)
(* empty one; exp holds the expanded arguments.                            *)
macro_arg_subst(m, args, exp) ==
  LET At(i) == IF i \in DOMAIN m.body THEN m.body[i].t ELSE ""
      Repl(i) ==
        LET k == ParamOf(m, m.body[i])
            eaten == m.varg /\ k = Len(m.params) /\ At(i - 1) = "##" /\ At(i - 2) = ","
        IN CASE At(i - 1) = "#" -> <<Stringized(args[k])>>
             [] At(i) = "#" -> <<>>
             [] At(i) \in {",", "##"} /\ m.varg
                  /\ LET j == IF At(i) = "," THEN i + 2 ELSE i + 1
                     IN /\ At(j - 1) = "##" /\ At(j - 2) = ","
                        /\ At(j) = m.params[Len(m.params)]
                -> IF At(i) = "," /\ args[Len(args)] # <<>> THEN <<m.body[i]>> ELSE <<>>
             [] k = 0 -> <<m.body[i]>>
             [] eaten -> exp[k]
             [] At(i + 1) = "##" \/ At(i - 1) = "##" ->
                  IF args[k] = <<>> THEN <<Placeholder>> ELSE args[k]
             [] OTHER -> exp[k]
  IN FlattenSeq([i \in DOMAIN m.body |-> Repl(i)])

(* macro_twosharps(): paste from left to right; what does not give a token *)
(* stays two tokens.                                                       *)
RECURSIVE macro_twosharps(_, _)
macro_twosharps(done, rest) ==
  LET Shown(s) == SelectSeq(s, LAMBDA tk : tk # Placeholder)
  IN IF rest = <<>> THEN Shown(done)
     ELSE IF Head(rest).t # "##" \/ done = <<>> \/ Len(rest) = 1
       THEN macro_twosharps(Append(done, Head(rest)), Tail(rest))
     ELSE LET a == Last(done)
              b == rest[2]
              joined == CASE a = Placeholder -> <<[b EXCEPT !.hid = FALSE]>>
                          [] b = Placeholder -> <<[a EXCEPT !.hid = FALSE]>>
                          [] <<a.t, b.t>> \in DOMAIN Pasted -> <<Tok(Pasted[<<a.t, b.t>>])>>
                          [] OTHER -> <<a, b>>
          IN macro_twosharps(Front(done) \o joined, SubSeq(rest, 3, Len(rest)))

-----------------------------------------------------------------------------
RECURSIVE macro_subst(_, _, _)
RECURSIVE macro_subst_tok(_, _, _)

(* An argument is expanded on its own, with the names that are hidden now. *)
ExpandArg(D, c, arg) ==
  macro_subst(D, Reading(<<>>, c.nested, c.pp), Append(arg, EOF))

(* macro_subst_tok(): replace the macro and scan the result again together *)
(* with what follows.  The name is hidden until that text has been read.   *)
macro_subst_tok(D, c0, name) ==
  LET m == define_find(D, name)
      c == IF m.kind = "func" THEN next_argstream(c0) ELSE c0
      call == Arguments(Skip(c), m, <<>>, <<>>, 0)
      c1 == IF m.kind = "func" THEN call.c ELSE c0
      exp == [i \in DOMAIN call.args |-> ExpandArg(D, c1, call.args[i])]
      mstr == IF m.kind = "obj" THEN m.body
              ELSE macro_arg_subst(m, call.args, [i \in DOMAIN exp |-> exp[i].out])
      jstr == IF \E i \in DOMAIN m.body : m.body[i].t = "##"
                THEN macro_twosharps(<<>>, mstr) ELSE mstr
      c2 == [c1 EXCEPT !.nested = <<name>> \o @]
      c3 == macro_subst(D, c2, jstr)
  IN IF m.kind = "func" /\ Peeked(c).t # "("
       THEN [Put(c, Tok(name)) EXCEPT !.nosubst = FALSE]
     ELSE IF c1.err THEN c1
     ELSE IF m.kind = "func" /\ \E i \in Expands(m) : exp[i].err THEN Fail(c1)
     ELSE [c3 EXCEPT !.nested = IF Len(@) = Len(c2.nested) THEN Tail(@) ELSE @]

(* Put a token that is not replaced; "defined" and its operand in an #if   *)
(* are not either.                                                         *)
NoSubst(c, tk) ==
  [Put(c, tk) EXCEPT !.nosubst = (@ /\ tk.t = "(") \/ (tk.t = "defined" /\ c.pp)]

(* macro_subst(): scan a text.  Once a call has read beyond its end there  *)
(* is nothing left to do.                                                  *)
macro_subst(D, c, mstr) ==
  LET tk == Head(mstr)
      c1 == macro_subst_tok(D, [c EXCEPT !.strs = <<Tail(mstr)>> \o @], tk.t)
  IN CASE mstr = <<>> \/ c.err -> c
       [] mstr # <<>> /\ ~c.err /\ tk.t = "EOF" -> c
       [] OTHER ->
            IF ~IsMacro(D, tk) \/ c.nosubst
              THEN macro_subst(D, NoSubst(c, tk), Tail(mstr))
            ELSE IF Contains(c.nested, tk.t)
              THEN macro_subst(D, NoSubst(c, [tk EXCEPT !.hid = TRUE]), Tail(mstr))
            ELSE IF Len(c1.strs) <= Len(c.strs) THEN c1
            ELSE macro_subst(D, [c1 EXCEPT !.strs = Tail(@)], Head(c1.strs))

(* next(): macros are looked for in the text, not in what they were        *)
(* replaced with, which is handed out first; EOF at the end of the text.   *)
Input(text) == [buf |-> <<>>, text |-> text, err |-> FALSE, beyond |-> FALSE]
RECURSIVE next(_, _, _, _)
next(D, in, subst, pp) ==
  LET tk == Head(in.text)
      c == macro_subst_tok(D, Reading(<<Tail(in.text)>>, <<>>, pp), tk.t)
  IN IF in.buf # <<>>
       THEN [tok |-> [Head(in.buf) EXCEPT !.hid = FALSE], in |-> [in EXCEPT !.buf = Tail(@)]]
     ELSE IF in.text = <<>> THEN [tok |-> EOF, in |-> in]
     ELSE IF ~subst \/ ~IsMacro(D, tk) THEN [tok |-> tk, in |-> Input(Tail(in.text))]
     ELSE IF c.err THEN [tok |-> EOF, in |-> [in EXCEPT !.err = TRUE]]
     ELSE next(D, [Input(Last(c.strs)) EXCEPT !.buf = c.out, !.beyond = c.beyond], subst, pp)

(* All that next() gives. *)
RECURSIVE Expanded(_, _)
Expanded(D, in) ==
  LET Then(n, r) == IF n.tok = EOF THEN [out |-> <<>>, err |-> n.in.err]
                    ELSE [r EXCEPT !.out = <<n.tok>> \o @]
      After(n) == Then(n, Expanded(D, n.in))
  IN After(next(D, in, TRUE, FALSE))

-----------------------------------------------------------------------------
(* The reference: every token carries the set of names hidden in it.  A    *)
(* macro's result gets the macro's name, and the names that both its name  *)
(* and, of a call, the ")" had.                                            *)
Hiding(tk, hs) == [t |-> tk.t, hs |-> hs, of |-> tk.of]
Names(s) == [i \in DOMAIN s |-> [t |-> s[i].t, of |-> s[i].of]]

(* The call that begins with the "(" at the head of ts.                    *)
RECURSIVE RefCall(_, _, _, _, _)
RefCall(ts, m, args, cur, level) ==
  LET t == Head(ts).t
      k == Len(args) + 1
      n == Len(m.params)
      bad == [ok |-> FALSE, args |-> <<>>, rest |-> <<>>, hs |-> {}]
      good(as) == [ok |-> TRUE, args |-> as, rest |-> Tail(ts), hs |-> Head(ts).hs]
  IN IF ts = <<>> THEN bad
     ELSE IF t = ")" /\ level = 0
       THEN IF n = 0 THEN (IF cur = <<>> THEN good(<<>>) ELSE bad)
            ELSE IF k = n THEN good(Append(args, cur))
            ELSE IF k + 1 = n /\ m.varg THEN good(args \o <<cur, <<>>>>) ELSE bad
     ELSE IF t = "," /\ level = 0 /\ ~(m.varg /\ k = n)
       THEN IF k >= n THEN bad ELSE RefCall(Tail(ts), m, Append(args, cur), <<>>, 0)
     ELSE RefCall(Tail(ts), m, args, Append(cur, Head(ts)),
                  IF t = "(" THEN level + 1 ELSE IF t = ")" THEN level - 1 ELSE level)

(* "a ## b", the hidden names of which are those of both. *)
RECURSIVE RefGlue(_, _)
RefGlue(done, rest) ==
  IF rest = <<>> THEN SelectSeq(done, LAMBDA tk : tk.t # "placeholder")
  ELSE IF Head(rest).t # "##" \/ done = <<>> \/ Len(rest) = 1
    THEN RefGlue(Append(done, Head(rest)), Tail(rest))
  ELSE LET a == Last(done)
           b == rest[2]
           joined == CASE a.t = "placeholder" -> <<b>>
                       [] b.t = "placeholder" -> <<a>>
                       [] <<a.t, b.t>> \in DOMAIN Pasted ->
                            <<[a EXCEPT !.t = Pasted[<<a.t, b.t>>],
                                        !.hs = @ \intersect b.hs]>>
                       [] OTHER -> <<a, b>>
       IN RefGlue(Front(done) \o joined, SubSeq(rest, 3, Len(rest)))

RECURSIVE RefExpand(_, _)
RefExpand(D, ts) ==
  LET T == Head(ts)
      m == define_find(D, T.t)
      call == RefCall(SubSeq(ts, 3, Len(ts)), m, <<>>, <<>>, 0)
      hs == IF m.kind = "obj" THEN T.hs \union {T.t}
            ELSE (T.hs \intersect call.hs) \union {T.t}
      Is(j, t) == j \in DOMAIN m.body /\ m.body[j].t = t
      n == Len(m.params)
      Rest(j) == m.varg /\ Is(j - 2, ",") /\ Is(j - 1, "##") /\ Is(j, m.params[n])
      \* the arguments that are expanded
      Whole == {k \in DOMAIN m.params : \E i \in DOMAIN m.body :
                  /\ Is(i, m.params[k]) /\ ~Is(i - 1, "#")
                  /\ Rest(i) \/ ~(Is(i - 1, "##") \/ Is(i + 1, "##"))}
      \* a parameter's tokens keep what is hidden in them
      Subst(i) ==
        LET k == ParamOf(m, m.body[i])
            Near(j) == Is(j, "##")
            arg == call.args[k]
        IN IF (Rest(i + 2) /\ call.args[n] = <<>>) \/ Rest(i + 1) THEN <<>>
           ELSE IF Rest(i) THEN RefExpand(D, arg).out
           ELSE IF i > 1 /\ m.body[i - 1].t = "#"
             THEN <<Hiding([Tok("string") EXCEPT !.of = [j \in DOMAIN arg |-> arg[j].t]], {})>>
           ELSE IF m.body[i].t = "#" THEN <<>>
           ELSE IF k = 0 THEN <<Hiding(m.body[i], {})>>
           ELSE IF Near(i - 1) \/ Near(i + 1)
             THEN IF arg = <<>> THEN <<Hiding(Placeholder, {})>> ELSE arg
           ELSE RefExpand(D, arg).out
      body == IF m.kind = "obj" THEN [i \in DOMAIN m.body |-> Hiding(m.body[i], {})]
              ELSE FlattenSeq([i \in DOMAIN m.body |-> Subst(i)])
      glued == RefGlue(<<>>, body)
      hidden == [i \in DOMAIN glued |-> [glued[i] EXCEPT !.hs = @ \union hs]]
      rest == IF m.kind = "obj" THEN Tail(ts) ELSE call.rest
      r == RefExpand(D, Tail(ts))
  IN IF ts = <<>> THEN [out |-> <<>>, err |-> FALSE]
     ELSE IF m.kind = "none" \/ T.t \in T.hs
            \/ (m.kind = "func" /\ (Len(ts) = 1 \/ ts[2].t # "("))
       THEN [r EXCEPT !.out = <<T>> \o @]
     ELSE IF m.kind = "func" /\ (~call.ok \/ \E k \in Whole : RefExpand(D, call.args[k]).err)
       THEN [out |-> <<>>, err |-> TRUE]
     ELSE RefExpand(D, hidden \o rest)

=============================================================================
