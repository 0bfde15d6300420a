----------------------------- MODULE MCPreproc -----------------------------
(* The preprocessor on chosen headers and every main file of a few lines.  *)
EXTENDS Preproc

MCPasted == <<"A", "B">> :> "AB" @@ <<"A", "A">> :> "A" @@ <<"B", "A">> :> "F"

L(d, arg) == Line(d, arg)
T(names) == L("text", names)
Inc(quote) == L("include", [name |-> "a.h", quote |-> quote])
IncNext == L("include_next", [name |-> "a.h", quote |-> FALSE])
Def(v) == L("define", <<v, Object(Toks(<<"1">>))>>)
X == T(<<"x", "A", "G">>)
End == L("endif", "")
Guard == L("ifndef", "G")

(* Headers whose guard is, or only looks like, one that covers the file.   *)
Headers == {
  <<Guard, Def("G"), X, End>>,
  <<L("once", ""), X>>,
  <<Guard, X, L("else", ""), T(<<"y">>), End>>,
  <<Guard, X, L("elif", <<"defined", "A">>), T(<<"y">>), End>>,
  <<Guard, X, End, T(<<"y">>)>>,
  <<Guard, X, End, Guard, T(<<"y">>), L("else", ""), T(<<"z">>), End>>,
  <<Guard, L("ifdef", "A"), T(<<"y">>), L("else", ""), X, End, End>>,
  <<L("define", <<"A", Object(Toks(<<"2">>))>>), Guard, X, End>>,
  <<L("undef", "G"), X>>,
  <<L("if", <<"A">>), X, Inc(TRUE), End>>,
  <<L("else", ""), X>>,
  <<L("elif", <<"1">>), X, End>>,
  <<End, L("ifdef", "A"), L("else", ""), X>>,
  <<X, L("ifdef", "A")>>,
  <<L("error", "")>> }

Includes(h) ==
  [files |-> <<".", "a.h">> :> h,
   lines |-> [i \in 1 .. 5 |->
                {Inc(TRUE), Def("G"), Def("A"), L("undef", "G"), Guard,
                 L("if", <<"!", "defined", "A">>), L("elif", <<"A">>), L("else", ""), End}]]

(* Wrappers: the same name in three directories.                           *)
Wrapper(h) ==
  [files |-> <<".", "a.h">> :> <<Guard, Def("G"), IncNext, End>>
             @@ <<"d1", "a.h">> :> h
             @@ <<"d2", "a.h">> :> <<L("once", ""), X>>,
   lines |-> [i \in 1 .. 4 |-> {Inc(TRUE), Inc(FALSE), IncNext, Def("A"), L("undef", "G")}]]

Saving ==
  [files |-> <<".", "a.h">> :> <<X>>,
   lines |-> [i \in 1 .. 6 |->
                {Def("A"), L("define", <<"A", Object(Toks(<<"2">>))>>), L("undef", "A"),
                 L("push_macro", "A"), L("pop_macro", "A"), X}]]

(* Three macros and a line that uses them.                                 *)
Bodies == {<<"A">>, <<"F", "(">>, <<"F", "(", "A", ")">>, <<"A", "B">>, <<"F", "B">>}
FBodies == {<<"x">>, <<"G">>, <<"G", "(">>, <<"G", "(", "x", ")">>, <<"x", "F">>,
            <<"F", "(", "x", ")">>, <<"x", "(", "2", ")">>, <<"x", "##", "A">>,
            <<"#", "x">>, <<"G", "(", "x">>}
GMacros ==
  {Function(<<"x">>, FALSE, Toks(b)) : b \in FBodies} \union
  {Function(<<>>, FALSE, Toks(<<"F">>)), Object(Toks(<<"F">>)),
   Function(<<"x", "y">>, FALSE, Toks(<<"x", "##", "y">>)),
   Function(<<"y", "x">>, TRUE, Toks(<<"y", ",", "##", "x">>))}
Uses == {
  <<"A">>, <<"A", "(", "1", ")">>, <<"F", "(", "F", ")", "(", "A", ")">>,
  <<"F", "(", "G", ")", "(", "A", ")">>, <<"F", "(", "1", ")", "(", "A", ")", "(", "2", ")">>,
  <<"G", "(", "F", ")", "(", "A", ")">>, <<"G", "(", "1", ",", "A", ",", "F", ")", "A">>,
  <<"G", "(", "1", ")", "A">>}
Expansion ==
  [files |-> <<".", "a.h">> :> <<X>>,
   lines |-> << {L("define", <<"A", Object(Toks(b))>>) : b \in Bodies},
                {L("define", <<"F", Function(<<"x">>, FALSE, Toks(b))>>) : b \in FBodies},
                {L("define", <<"G", m>>) : m \in GMacros},
                {T(u) : u \in Uses} >>]

(* Expressions: macros in them, "defined" before and as what is expanded.  *)
Tests == {<<"A">>, <<"!", "A">>, <<"defined", "A">>, <<"defined", "(", "A", ")">>,
          <<"!", "defined", "F">>, <<"F", "(", "A", ")">>, <<"F", "(", "defined", "A", ")">>,
          <<"F">>, <<"A", "A">>}
Testing ==
  [files |-> <<".", "a.h">> :> <<X>>,
   lines |-> << {L("define", <<"A", Object(Toks(b))>>) : b \in {<<"0">>, <<"1">>, <<"!", "B">>}},
                {L("define", <<"F", Function(<<"x">>, FALSE, Toks(b))>>) :
                   b \in {<<"x">>, <<"!", "x">>, <<"A">>}},
                {L("if", t) : t \in Tests},
                {X, Inc(TRUE)}, {L("elif", t) : t \in Tests} \union {L("else", "")}, {X}, {End} >>]

(* Conditions that end with the name of a function-like macro, and the     *)
(* lines behind them: arguments, operands, directives.                     *)
Joining ==
  [files |-> <<".", "a.h">> :> <<X, L("if", <<"F">>)>>,
   lines |-> << {L("define", <<"F", Function(<<"x">>, FALSE, Toks(<<"x">>))>>)},
                {L("if", t) : t \in {<<"F">>, <<"!", "F">>, <<"0">>}} \union {Inc(TRUE)},
                {L("elif", <<"!", "F">>), L("if", <<"F">>), T(<<"(", "1", ")">>), T(<<"F">>),
                 Inc(TRUE), Def("A"), L("else", ""), End, X},
                {L("ifdef", "A"), T(<<"(", "1", ")">>), T(<<"A">>), L("else", ""), End},
                {X, End}, {End} >>]

MCJoining == {Joining}
MCWorlds == {Includes(h) : h \in Headers} \union {Wrapper(h) : h \in Headers}
            \union {Saving, Expansion, Testing, Joining}
MCDirs == <<"d1", "d2">>
=============================================================================
