------------------------------ MODULE Preproc ------------------------------
(***************************************************************************)
(* Directives and included files (tccpp.c): the stack of files, the stack  *)
(* of #if's that all of them share, the table of macros with the           *)
(* definitions that #pragma push_macro saves, and the cache that keeps a   *)
(* header with an include guard from being read a second time.             *)
(*                                                                         *)
(* The headers are given; the lines of the main file are chosen while it   *)
(* is read.  A macro call in a text, and the arguments of one in an #if,   *)
(* end on the line they begin on.                                          *)
(***************************************************************************)
EXTENDS MacroExp

CONSTANTS
  Worlds,              \* pairs [files, lines]: the headers; what line i of main may be
  Dirs,                \* the include directories, in the order they are searched
  IDs,                 \* the names that are defined, tested and saved
  IFDEF_STACK_SIZE, INCLUDE_STACK_SIZE

VARIABLES
  world, main,         \* the world and the lines of the main file read so far
  files,               \* file and file->prev, outermost first
  ifdef_stack,         \* 1: this branch, 0: none yet, 2 and 3: the same after #else
  define_stack,        \* every definition: name, macro, and whether it is saved
  sym_define,          \* the place of a name's definition in define_stack, or 0
  cached_includes,     \* of a path: ifndef_macro and once
  tok_flags, skip,     \* skip: depth of #if's within the skipped text, or Off
  held,                \* the calls of expr_preprocess() that have not returned
  joined,              \* auxiliary: one of them read on behind its line
  out, done            \* the tokens; "" or how it ended

vars == <<world, main, files, ifdef_stack, define_stack, sym_define,
          cached_includes, tok_flags, skip, held, joined, out, done>>
macros == <<define_stack, sym_define>>

None == ""
Off == 99
Macros == [v \in IDs |-> IF sym_define[v] = 0 THEN NoMacro
                         ELSE define_stack[sym_define[v]].m]

file == Last(files)
File(path, index) ==
  [path |-> path, pos |-> 1, base |-> Len(ifdef_stack), ifndef_macro |-> None,
   saved |-> None, include_next_index |-> index,
   opened |-> ifdef_stack]   \* auxiliary: what the #if's were
MainFile == <<".", "main.c">>

-----------------------------------------------------------------------------
(* The lines.                                                              *)
Line(d, arg) == [d |-> d, arg |-> arg]
Conditional == {"if", "ifdef", "ifndef"}
Continuation == {"elif", "else", "endif"}

(* An #if or #elif whose operands end with the name of a function-like     *)
(* macro waits for the next line, to which peek_file() has gone; that line *)
(* may be a directive, which is obeyed before it returns.                  *)
Waits == held # <<>> /\ Last(held).waits
Returns == held # <<>> /\ ~Waits /\ skip = Off
Entered == IF Waits THEN [held EXCEPT ![Len(held)].waits = FALSE] ELSE held

(* l is the line to be read. *)
Reads(l) ==
  /\ done = "" /\ ~Returns
  /\ IF Len(files) = 1
       THEN /\ Len(main) < Len(world.lines)
            /\ l \in world.lines[Len(main) + 1]
       ELSE /\ file.pos <= Len(world.files[file.path])
            /\ l = world.files[file.path][file.pos]

AtEnd == Len(files) > 1 => file.pos > Len(world.files[file.path])

Lines == UNION ({world.lines[i] : i \in DOMAIN world.lines}
                \union {Range(world.files[p]) : p \in DOMAIN world.files})

Consume(l) == main' = IF Len(files) = 1 THEN Append(main, l) ELSE main
Advance(l) == Consume(l) /\ held' = Entered /\ UNCHANGED joined
Past == [files EXCEPT ![Len(files)].pos = @ + 1]

-----------------------------------------------------------------------------
(* expr_preprocess(): the operands of an #if, "defined" being looked for   *)
(* in what next() gives; want says what may come next.  What cannot be     *)
(* there ends the list with an operator that lacks its operand; "next"     *)
(* stands for the tokens of the next line, when the newline is gone.       *)
NoName == {"(", ")", "!", "0", "1", "EOF"}

RECURSIVE Operands(_, _, _)
Operand(D, want, t, in) ==
  LET is == IF define_find(D, t).kind # "none" THEN "1" ELSE "0"
      go == CASE want = "operand" /\ t = "defined" -> [give |-> <<>>, want |-> "defined"]
              [] want = "operand" /\ t \in {"0", "1", "!"} -> [give |-> <<t>>, want |-> want]
              [] want = "operand" -> [give |-> <<"0">>, want |-> want]
              [] want = "defined" /\ t = "(" -> [give |-> <<>>, want |-> "name"]
              [] want = "defined" -> [give |-> <<is>>, want |-> "operand"]
              [] want = "name" -> [give |-> <<is>>, want |-> ")"]
              [] OTHER -> [give |-> <<>>, want |-> "operand"]
  IN IF want = "operand" /\ t = "EOF" /\ ~in.err
       THEN IF in.beyond THEN <<"next">> ELSE <<>>
     ELSE IF \/ in.err
             \/ want = "name" /\ t \in NoName
             \/ want = "defined" /\ t \in NoName \ {"("}
             \/ want = ")" /\ t # ")"
       THEN <<"!">>
     ELSE go.give \o Operands(D, in, go.want)

Operands(D, in, want) ==
  LET Read(n) == Operand(D, want, n.tok.t, n.in)
  IN Read(next(D, in, want \in {"operand", ")"}, TRUE))

RECURSIVE expr_const(_)
expr_const(s) ==
  LET v == expr_const(Tail(s))
  IN IF s = <<>> THEN None
     ELSE IF Head(s) = "!" THEN (IF v = None THEN None ELSE IF v = "0" THEN "1" ELSE "0")
     ELSE IF Len(s) = 1 THEN Head(s) ELSE None

(* The call, with the tokens it has read so far; waits: it has read the    *)
(* newline too.                                                            *)
expr_preprocess(D, d, toks) ==
  LET Call(ops) == [d |-> d, toks |-> toks, waits |-> "next" \in Range(ops),
                    v |-> expr_const(SelectSeq(ops, LAMBDA op : op # "next"))]
  IN Call(Operands(D, Input(Toks(toks)), "operand"))

(* #ifdef and #ifndef, and the tokens that the parser gets from a text.    *)
Value(l) ==
  IF (define_find(Macros, l.arg).kind # "none") = (l.d = "ifdef") THEN "1" ELSE "0"
Result(l) == Expanded(Macros, Input(Toks(l.arg)))

(* parse_include(): the places where a header may be, by index: 1 is the   *)
(* directory of the file that includes it, Dirs follow.                    *)
Place(f, l, i) == <<IF i = 1 THEN f.path[1] ELSE Dirs[i - 1], l.arg.name>>
Candidates(f, l) ==
  {i \in 1 .. Len(Dirs) + 1 :
     /\ l.d = "include_next" => i > f.include_next_index
     /\ i = 1 => l.arg.quote
     /\ Place(f, l, i) \in DOMAIN world.files}
IndexFound(f, l) == Min(Candidates(f, l))
Found(f, l) == Place(f, l, IndexFound(f, l))

(* search_cached_include(): no need to read the file once more. *)
Cached(path) ==
  /\ path \in DOMAIN cached_includes
  /\ \/ cached_includes[path].once
     \/ /\ cached_includes[path].ifndef_macro # None
        /\ sym_define[cached_includes[path].ifndef_macro] # 0
Cache(path, field, v) ==
  LET old == IF path \in DOMAIN cached_includes THEN cached_includes[path]
             ELSE [ifndef_macro |-> None, once |-> FALSE]
  IN [p \in DOMAIN cached_includes \union {path} |->
        IF p # path THEN cached_includes[p]
        ELSE IF field = "once" THEN [old EXCEPT !.once = v]
        ELSE [old EXCEPT !.ifndef_macro = v]]

-----------------------------------------------------------------------------
(* Mutant: an #endif may close an #if of the file that includes it.        *)
MutMisplaced(l) ==
  CASE l.d \in Conditional -> Len(ifdef_stack) >= IFDEF_STACK_SIZE
    [] l.d \in {"else", "elif"} -> ifdef_stack # <<>> => Last(ifdef_stack) >= 2
    [] l.d = "endif" -> ifdef_stack = <<>>
    [] OTHER -> FALSE

(* What ends the compilation wherever it is met: the tests in front of     *)
(* tcc_error().                                                            *)
Misplaced(l) ==
  CASE l.d \in Conditional -> Len(ifdef_stack) >= IFDEF_STACK_SIZE
    [] l.d \in {"else", "elif"} -> ifdef_stack # <<>> => Last(ifdef_stack) >= 2
    [] l.d = "endif" -> Len(ifdef_stack) <= file.base
    [] l.d \in {"include", "include_next"} ->
         Candidates(file, l) # {} =>
           ~Cached(Found(file, l)) /\ Len(files) - 1 >= INCLUDE_STACK_SIZE
    [] OTHER -> l.d = "error"

(* The condition of an #elif is read when no branch was taken before.      *)
Evaluated(l) ==
  l.d = "if" \/ (l.d = "elif" /\ ~Misplaced(l) /\ Last(ifdef_stack) = 0)

(* A line that is not skipped: what preprocess_skip() stops at, or any one *)
(* outside of it.                                                          *)
Executes(l) ==
  /\ Reads(l)
  /\ skip = Off \/ (skip = 0 /\ l.d \in Continuation)

Obeys(l, d) == Executes(l) /\ l.d \in d /\ ~Misplaced(l)

(* tcc_error(), which also ends a line that means nothing.                 *)
Error(l) ==
  /\ Executes(l) /\ ~Evaluated(l)
  /\ \/ Misplaced(l)
     \/ l.d = "text" /\ ~Waits /\ Result(l).err
  /\ done' = "error"
  /\ Advance(l)
  /\ UNCHANGED <<world, files, ifdef_stack, macros, cached_includes, tok_flags, skip, out>>

Text(l) ==
  /\ Obeys(l, {"text"}) /\ ~Waits
  /\ LET Got(r) == ~r.err /\ out' = out \o Names(r.out)
     IN Got(Result(l))
  /\ Advance(l) /\ files' = Past
  /\ tok_flags' = {}
  /\ UNCHANGED <<world, ifdef_stack, macros, cached_includes, skip, done>>

(* define_push() and define_undef(). *)
Define(l) ==
  /\ Obeys(l, {"define", "undef"})
  /\ IF l.d = "define"
       THEN /\ define_stack' = Append(define_stack,
                                 [v |-> l.arg[1], m |-> l.arg[2], ref |-> FALSE])
            /\ sym_define' = [sym_define EXCEPT ![l.arg[1]] = Len(define_stack) + 1]
       ELSE /\ sym_define' = [sym_define EXCEPT ![l.arg] = 0]
            /\ UNCHANGED define_stack
  /\ Advance(l) /\ files' = Past
  /\ tok_flags' = {}
  /\ UNCHANGED <<world, ifdef_stack, cached_includes, skip, out, done>>

(* pragma_parse(): mark the definition of the name, or one that says it    *)
(* has none; return to the one marked last.                                *)
Pushed(v) ==
  LET i == sym_define[v]
      entry == [v |-> v, m |-> NoMacro, ref |-> TRUE]
  IN IF i # 0 THEN [define_stack EXCEPT ![i].ref = TRUE] ELSE Append(define_stack, entry)

Marked(v) == {i \in DOMAIN define_stack : define_stack[i].v = v /\ define_stack[i].ref}

PushMacro(l) ==
  /\ Obeys(l, {"push_macro"})
  /\ define_stack' = Pushed(l.arg)
  /\ Advance(l) /\ files' = Past
  /\ tok_flags' = {}
  /\ UNCHANGED <<world, ifdef_stack, sym_define, cached_includes, skip, out, done>>

PopMacro(l) ==
  /\ Obeys(l, {"pop_macro"})
  /\ IF Marked(l.arg) = {} THEN UNCHANGED macros
     ELSE LET i == Max(Marked(l.arg))
          IN /\ define_stack' = [define_stack EXCEPT ![i].ref = FALSE]
             /\ sym_define' = [sym_define EXCEPT ![l.arg] =
                                 IF define_stack[i].m = NoMacro THEN 0 ELSE i]
  /\ Advance(l) /\ files' = Past
  /\ tok_flags' = {}
  /\ UNCHANGED <<world, ifdef_stack, cached_includes, skip, out, done>>

Once(l) ==
  /\ Obeys(l, {"once"})
  /\ cached_includes' = Cache(file.path, "once", TRUE)
  /\ Advance(l) /\ files' = Past
  /\ tok_flags' = {}
  /\ UNCHANGED <<world, ifdef_stack, macros, skip, out, done>>

Include(l) ==
  /\ Obeys(l, {"include", "include_next"})
  /\ LET path == Found(file, l)
     IN IF Cached(path)
          THEN files' = Past /\ tok_flags' = {}
          ELSE /\ files' = Append(Past, File(path, IndexFound(file, l)))
               /\ tok_flags' = {"BOF"}
  /\ Advance(l)
  /\ UNCHANGED <<world, ifdef_stack, macros, cached_includes, skip, out, done>>

-----------------------------------------------------------------------------
(* #ifdef and #ifndef; #ifndef at the beginning of a file may be a guard.  *)
If(l) ==
  /\ Obeys(l, {"ifdef", "ifndef"})
  /\ ifdef_stack' = Append(ifdef_stack, IF Value(l) = "1" THEN 1 ELSE 0)
  /\ skip' = IF Value(l) = "1" THEN Off ELSE 0
  /\ files' = IF l.d = "ifndef" /\ "BOF" \in tok_flags
                THEN [Past EXCEPT ![Len(files)].ifndef_macro = l.arg] ELSE Past
  /\ Advance(l)
  /\ tok_flags' = {}
  /\ UNCHANGED <<world, macros, cached_includes, out, done>>

(* Mutant: the macro is still taken for a guard after #else. *)
MutNoGuard(fs) == fs

(* test_else: a guard has neither an #else nor an #elif. *)
NoGuard(fs) ==
  IF Len(ifdef_stack) = file.base + 1
    THEN [fs EXCEPT ![Len(fs)].ifndef_macro = None] ELSE fs

(* An #else, or an #elif behind a branch that was taken.                   *)
Else(l) ==
  LET old == Last(ifdef_stack)
  IN /\ Obeys(l, {"else", "elif"}) /\ ~Evaluated(l)
     /\ ifdef_stack' = [ifdef_stack EXCEPT ![Len(ifdef_stack)] =
                          IF l.d = "else" THEN 3 - old ELSE old]
     /\ skip' = IF old = 1 THEN 0 ELSE Off
     /\ files' = NoGuard(Past)
     /\ Advance(l)
     /\ tok_flags' = {}
     /\ UNCHANGED <<world, macros, cached_includes, out, done>>

(* The #endif of the guard, if nothing but the end of the file follows.    *)
Endif(l) ==
  LET guard == file.ifndef_macro # None /\ Len(ifdef_stack) = file.base + 1
  IN /\ Obeys(l, {"endif"})
     /\ ifdef_stack' = Front(ifdef_stack)
     /\ skip' = Off
     /\ IF guard
          THEN /\ files' = [Past EXCEPT ![Len(files)].saved = file.ifndef_macro,
                                        ![Len(files)].ifndef_macro = None]
               /\ tok_flags' = {"ENDIF"}
          ELSE files' = Past /\ tok_flags' = {}
     /\ Advance(l)
     /\ UNCHANGED <<world, macros, cached_includes, out, done>>

(* #if, or an #elif without a branch before it: expr_preprocess() begins.  *)
(* It reads on when the newline behind a macro's name is lost in           *)
(* macro_subst_tok().                                                      *)
Condition(l) ==
  LET Calls(c) == held' = Append(Entered, c) /\ joined' = (joined \/ c.waits)
  IN /\ Executes(l) /\ Evaluated(l)
     /\ Calls(expr_preprocess(Macros, l.d, l.arg))
     /\ skip' = Off
     /\ Consume(l) /\ files' = Past
     /\ tok_flags' = {}
     /\ UNCHANGED <<world, ifdef_stack, macros, cached_includes, out, done>>

(* A text behind the line of an #if that reads on: its tokens are operands *)
(* too.                                                                    *)
Join(l) ==
  /\ Executes(l) /\ l.d = "text" /\ Waits
  /\ held' = [held EXCEPT ![Len(held)] = expr_preprocess(Macros, @.d, @.toks \o l.arg)]
  /\ Consume(l) /\ files' = Past
  /\ tok_flags' = {}
  /\ UNCHANGED <<world, ifdef_stack, macros, cached_includes, skip, joined, out, done>>

(* expr_preprocess() returns, on whatever a directive behind its line has  *)
(* made of the stacks.  Without an #if, #elif would write in front of      *)
(* ifdef_stack.                                                            *)
Return ==
  LET f == Last(held)
      full == f.d = "if" /\ Len(ifdef_stack) >= IFDEF_STACK_SIZE
      c == IF f.v = "1" THEN 1 ELSE 0
  IN /\ done = "" /\ Returns
     /\ held' = Front(held)
     /\ IF f.v = None \/ full \/ (f.d = "elif" /\ ifdef_stack = <<>>)
          THEN /\ done' = IF f.v = None \/ full THEN "error" ELSE "undefined"
               /\ UNCHANGED <<ifdef_stack, skip, files>>
          ELSE /\ ifdef_stack' = Append(IF f.d = "if" THEN ifdef_stack ELSE Front(ifdef_stack), c)
               /\ skip' = IF c = 1 THEN Off ELSE 0
               /\ files' = IF f.d = "if" THEN files ELSE NoGuard(files)
               /\ UNCHANGED done
     /\ UNCHANGED <<world, main, macros, cached_includes, tok_flags, joined, out>>

(* Mutant: an #if within skipped text is not counted. *)
MutSkipLine(l) ==
  /\ Reads(l) /\ skip # Off
  /\ ~(skip = 0 /\ l.d \in Continuation)
  /\ skip' = IF l.d = "endif" THEN skip - 1 ELSE skip
  /\ Advance(l) /\ files' = Past
  /\ tok_flags' = {}
  /\ UNCHANGED <<world, ifdef_stack, macros, cached_includes, out, done>>

(* preprocess_skip() passes over a line. *)
SkipLine(l) ==
  /\ Reads(l) /\ skip # Off
  /\ ~(skip = 0 /\ l.d \in Continuation)
  /\ skip' = CASE l.d \in Conditional -> skip + 1
               [] l.d = "endif" -> skip - 1
               [] OTHER -> skip
  /\ Advance(l) /\ files' = Past
  /\ tok_flags' = {}
  /\ UNCHANGED <<world, ifdef_stack, macros, cached_includes, out, done>>

(* The end of a file, in next_nomacro() or in preprocess_skip(): back to   *)
(* the file that includes it, the guard being put in the cache.            *)
Eof ==
  /\ done = "" /\ AtEnd /\ ~Returns
  /\ IF skip # Off \/ Len(ifdef_stack) # file.base
       THEN /\ done' = "missing #endif"
            /\ UNCHANGED <<files, cached_includes, tok_flags>>
     ELSE IF Len(files) = 1
       THEN /\ done' = IF ~Waits THEN "ok"
                       ELSE IF Last(held).v = None THEN "error" ELSE "missing #endif"
            /\ UNCHANGED <<files, cached_includes, tok_flags>>
     ELSE /\ cached_includes' =
               IF "ENDIF" \in tok_flags THEN Cache(file.path, "guard", file.saved)
               ELSE cached_includes
          /\ files' = Front(files)
          /\ tok_flags' = {}
          /\ UNCHANGED done
  /\ held' = Entered
  /\ UNCHANGED <<world, main, ifdef_stack, macros, skip, joined, out>>

Init ==
  /\ world \in Worlds
  /\ main = <<>>
  /\ files = << [path |-> MainFile, pos |-> 1, base |-> 0, ifndef_macro |-> None,
                 saved |-> None, include_next_index |-> 0, opened |-> <<>>] >>
  /\ ifdef_stack = <<>>
  /\ define_stack = <<>>
  /\ sym_define = [v \in IDs |-> 0]
  /\ cached_includes = [p \in {} |-> {}]
  /\ tok_flags = {"BOF"}
  /\ skip = Off
  /\ held = <<>> /\ joined = FALSE
  /\ out = <<>>
  /\ done = ""

Next ==
  \/ \E l \in Lines :
       \/ Text(l) \/ Define(l) \/ PushMacro(l) \/ PopMacro(l) \/ Once(l)
       \/ Include(l) \/ If(l) \/ Else(l) \/ Endif(l) \/ SkipLine(l) \/ Error(l)
       \/ Condition(l) \/ Join(l)
  \/ Return \/ Eof

Spec == Init /\ [][Next]_vars

-----------------------------------------------------------------------------
(* The reference: what the language says the lines of a file stand for,    *)
(* with a group of lines found by looking ahead for its #endif, headers    *)
(* read whenever they are included, and the hide-set expansion.            *)
(* st: out, the macros D, what is saved of them, the files with            *)
(* #pragma once, and err.  f: the file, and the #if's and files around.    *)

(* The directive that ends the group opened or continued by line i.        *)
GroupEnd(lines, i) ==
  LET Count(j, d) == Cardinality({k \in i + 1 .. j - 1 : lines[k].d \in d})
      ends == {j \in i + 1 .. Len(lines) :
                 /\ lines[j].d \in Continuation
                 /\ Count(j, Conditional) = Count(j, {"endif"})}
  IN IF ends = {} THEN 0 ELSE Min(ends)

Tokens(names) == [i \in DOMAIN names |-> Hiding(Tok(names[i]), {})]

(* "defined" is evaluated first, what is left after expansion is 0.        *)
RECURSIVE Defined(_, _)
Defined(D, s) ==
  LET n == IF Len(s) > 1 /\ s[2] = "(" THEN 4 ELSE 2
      name == IF n = 4 THEN s[3] ELSE s[2]
  IN IF s = <<>> THEN <<>>
     ELSE IF Head(s) = "defined"
       THEN <<IF define_find(D, name).kind # "none" THEN "1" ELSE "0">>
              \o Defined(D, SubSeq(s, n + 1, Len(s)))
     ELSE <<Head(s)>> \o Defined(D, Tail(s))

RefValue(D, s) ==
  LET Of(r) == [i \in DOMAIN r |-> IF r[i].t \in {"0", "1", "!"} THEN r[i].t ELSE "0"]
  IN expr_const(Of(RefExpand(D, Tokens(Defined(D, s))).out))

RefTest(st, l) ==
  CASE l.d \in {"if", "elif"} -> RefValue(st.D, l.arg)
    [] l.d = "ifdef" -> IF define_find(st.D, l.arg).kind # "none" THEN "1" ELSE "0"
    [] l.d = "ifndef" -> IF define_find(st.D, l.arg).kind = "none" THEN "1" ELSE "0"
    [] l.d = "else" -> "1"

Wrong(st) == [st EXCEPT !.err = TRUE]

(* A line that is no conditional.  To save a definition that is saved      *)
(* already has no effect.                                                  *)
RECURSIVE RefRun(_, _, _)
RefLine(st, f, l) ==
  CASE l.d = "text" ->
         LET Then(r) == [st EXCEPT !.out = @ \o Names(r.out), !.err = r.err]
         IN Then(RefExpand(st.D, Tokens(l.arg)))
    [] l.d = "define" -> [st EXCEPT !.D[l.arg[1]] = l.arg[2], !.held = @ \ {l.arg[1]}]
    [] l.d = "undef" -> [st EXCEPT !.D[l.arg] = NoMacro, !.held = @ \ {l.arg}]
    [] l.d = "push_macro" ->
         IF l.arg \in st.held THEN st
         ELSE [st EXCEPT !.saves[l.arg] = Append(@, st.D[l.arg]),
                         !.held = IF st.D[l.arg] = NoMacro THEN @ ELSE @ \union {l.arg}]
    [] l.d = "pop_macro" ->
         IF st.saves[l.arg] = <<>> THEN st
         ELSE [st EXCEPT !.D[l.arg] = Last(st.saves[l.arg]),
                         !.saves[l.arg] = Front(@), !.held = @ \ {l.arg}]
    [] l.d = "once" -> [st EXCEPT !.once = @ \union {f.path}]
    [] l.d \in {"include", "include_next"} ->
         LET path == Found(f, l)
         IN IF Candidates(f, l) = {} THEN Wrong(st)
            ELSE IF path \in st.once THEN st
            ELSE IF f.depth >= INCLUDE_STACK_SIZE THEN Wrong(st)
            ELSE RefRun(st, [f EXCEPT !.path = path, !.depth = @ + 1,
                                      !.include_next_index = IndexFound(f, l)],
                        world.files[path])
    [] OTHER -> Wrong(st)

(* The group that line i opens; taken: an earlier group was read.          *)
RECURSIVE RefGroup(_, _, _, _, _, _)
RefGroup(st, f, lines, i, taken, elsed) ==
  LET Then(st1, j, now) ==
        IF lines[j].d = "endif" THEN RefRun(st1, f, SubSeq(lines, j + 1, Len(lines)))
        ELSE RefGroup(st1, f, lines, j, now, lines[i].d = "else")
      Group(v, j) ==
        IF elsed \/ v = None \/ j = 0 THEN Wrong(st)
        ELSE Then(IF v = "1" THEN RefRun(st, [f EXCEPT !.ifs = @ + 1],
                                         SubSeq(lines, i + 1, j - 1))
                  ELSE st, j, taken \/ v = "1")
  IN Group(IF taken THEN "0" ELSE RefTest(st, lines[i]), GroupEnd(lines, i))

RefRun(st, f, lines) ==
  IF lines = <<>> \/ st.err THEN st
  ELSE IF Head(lines).d \in Conditional
    THEN IF f.ifs >= IFDEF_STACK_SIZE THEN Wrong(st)
         ELSE RefGroup(st, f, lines, 1, FALSE, FALSE)
  ELSE RefRun(RefLine(st, f, Head(lines)), f, Tail(lines))

Reference(lines) ==
  RefRun([out |-> <<>>, D |-> [v \in IDs |-> NoMacro], once |-> {}, held |-> {},
          saves |-> [v \in IDs |-> <<>>], err |-> FALSE],
         [path |-> MainFile, include_next_index |-> 0, ifs |-> 0, depth |-> 0],
         lines)

-----------------------------------------------------------------------------
(* What is read is what the language says: no header that would give       *)
(* something is left out because of the cache (search_cached_include()),   *)
(* no #if skips too little or too much, macros are saved and restored in   *)
(* order, and every name is replaced as often as it may be and no more.    *)
(* Excepted are files with an #if that read on behind its line.            *)
OutputRight ==
  LET Agrees(r) == ~r.err /\ r.out = out
  IN done = "ok" /\ ~joined => Agrees(Reference(main))

(* However the lines read so far are completed by #endif's, they are not a *)
(* correct file.                                                           *)
Rejected ==
  \A k \in 0 .. (IF done = "missing #endif" /\ Len(files) = 1 THEN 0 ELSE Len(main)) :
    Reference(main \o [i \in 1 .. k |-> Line("endif", "")]).err

(* tcc_error() is only called for what is wrong, with the same exception.  *)
ErrorsRight == done \notin {"", "ok"} /\ ~joined => Rejected

(* "restore the macro token plus all whitespace we've read. whitespace is  *)
(* intentionally not merged to preserve newlines" (tccpp.c:3227): also the *)
(* files that are excepted above are only rejected when they are wrong.    *)
NewlinesPreserved == done = "error" => Rejected

(* A header leaves the #if's around its #include as they were, although    *)
(* #else and #elif in preprocess() look at the whole stack and not at the  *)
(* part that belongs to their file.  An #if that read on may be accounted  *)
(* to the header that it included.                                         *)
IncludeBalanced ==
  [][Len(files') < Len(files) /\ ~joined => ifdef_stack' = file.opened]_vars

=============================================================================
