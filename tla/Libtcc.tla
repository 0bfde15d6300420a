------------------------------- MODULE Libtcc -------------------------------
(***************************************************************************)
(* libtcc used from several threads (libtcc.c, tccrun.c, the semaphores of *)
(* tcc.h).  Every thread owns one TCCState at a time and makes any legal   *)
(* sequence of calls on it: tcc_new, tcc_compile_string, a linking call    *)
(* that reports an error, tcc_relocate, a call of the compiled code (which *)
(* may return, call exit() or crash) and tcc_delete.  What the threads     *)
(* share is                                                                *)
(*   - tcc_compile_sem and the globals of the parser it protects;          *)
(*   - rt_sem and the lists g_s1 and g_rc of relocated states;             *)
(*   - the semaphores' own lazily set "init" flags.                        *)
(* A thread t stands for the state it owns, so tcc_state, file, g_s1 and   *)
(* g_rc hold threads.  One action is one access to shared state.           *)
(***************************************************************************)
EXTENDS Naturals, Sequences

CONSTANTS Thread,    \* the client's threads
          NULL,      \* no state
          BtThread,  \* the threads whose state was given the option -bt
          Tokens,    \* bound: parser events in one call of the library
          Cold,      \* the semaphores nobody has waited for when the threads start
          Exprs,     \* do the sources contain #if expressions?
          Insist     \* does a client compile again after a failed compilation?

ASSUME NullAssumption == NULL \notin Thread
ASSUME BtAssumption == BtThread \subseteq Thread
ASSUME TokensAssumption == Tokens \in Nat
ASSUME ClientAssumption == /\ Cold \subseteq {"compile", "rt"}
                           /\ Exprs \in BOOLEAN
                           /\ Insist \in BOOLEAN

VARIABLES
  pc,          \* what each thread does next
  sm, ret,     \* the semaphore it waits for, and what it does once it has it
  after,       \* what it does once the diagnostic is out
  fuel,        \* parser events left in the call
  found,       \* rt_find_state()'s result in rt_exit()
  st,          \* the fields of each thread's TCCState
  sem,         \* tcc_compile_sem and rt_sem: TCCSem.init and the sem_t
  tcc_state,   \* the global of that name
  file,        \* the chain of BufferedFiles, innermost first, by owner
  pp_expr,     \* pp_expr > 1: an #if expression is being evaluated
  macro_stack, \* its depth
  nb_stk_data, \* CStrings to be freed should an error unwind the parser
  g_s1, g_rc,  \* the lists of relocated states and of their rt_contexts
  signal_set,  \* the handler for fatal signals is installed
  exited       \* the process has called exit() or was killed

parser == <<tcc_state, file, pp_expr, macro_stack, nb_stk_data>>
runtime == <<g_s1, g_rc, signal_set>>
vars == <<pc, sm, ret, after, fuel, found, st, sem, parser, runtime, exited>>

Sem == {"compile", "rt"}

Label == {"idle", "check", "init", "flag", "take", "own", "begin", "parse",
          "finish", "error1", "exit", "post", "format", "reloc1",
          "reloc2", "protect", "clean", "link", "rt_post", "run", "walk",
          "rt_exit", "find", "leave", "delete", "unlink", "free"}

(* The fields of a TCCState that the calls below read or write.  hash and  *)
(* saved tell whether symtab->hash and symtab->reloc are set; symtab,      *)
(* whether the symbol table's memory is allocated; lj, whether run_lj is   *)
(* set.                                                                    *)
Field == [alive : BOOLEAN, jmp : BOOLEAN, errs : BOOLEAN, hash : BOOLEAN,
          saved : BOOLEAN, symtab : BOOLEAN, run_ptr : BOOLEAN, lj : BOOLEAN]

Freed == [alive |-> FALSE, jmp |-> FALSE, errs |-> FALSE, hash |-> FALSE,
          saved |-> FALSE, symtab |-> FALSE, run_ptr |-> FALSE, lj |-> FALSE]

Fresh == [Freed EXCEPT !.alive = TRUE, !.hash = TRUE, !.symtab = TRUE]

Linked(t) == \E i \in 1..Len(g_s1) : g_s1[i] = t

(* The thread is reading a file that another file of its own includes. *)
Included(t) == Len(file) > 1 /\ file[2] = t

Goto(t, l) == pc' = [pc EXCEPT ![t] = l]

(* ptr_unlink: take e out of a list, which holds it at most once. *)
ptr_unlink(list, e) ==
  IF \E i \in 1..Len(list) : list[i] = e
    THEN LET i == CHOOSE i \in 1..Len(list) : list[i] = e
         IN SubSeq(list, 1, i - 1) \o SubSeq(list, i + 1, Len(list))
    ELSE list

Init ==
  /\ pc = [t \in Thread |-> "idle"]
  /\ sm = [t \in Thread |-> "compile"]
  /\ ret = [t \in Thread |-> "idle"]
  /\ after = [t \in Thread |-> "idle"]
  /\ fuel = [t \in Thread |-> 0]
  /\ found = [t \in Thread |-> NULL]
  /\ st = [t \in Thread |-> Freed]
  /\ sem = [s \in Sem |-> [init |-> s \notin Cold,
                           val |-> IF s \in Cold THEN 0 ELSE 1]]
  /\ tcc_state = NULL
  /\ file = <<>>
  /\ pp_expr = FALSE
  /\ macro_stack = 0
  /\ nb_stk_data = 0
  /\ g_s1 = <<>>
  /\ g_rc = <<>>
  /\ signal_set = FALSE
  /\ exited = FALSE

-----------------------------------------------------------------------------
(* wait_sem() and post_sem().  The static TCCSem is all zero until the     *)
(* first wait_sem() finds init unset and initializes it; the test, the     *)
(* sem_init and the assignment of init are three separate accesses.        *)

(* Part of an action that ends in a call of wait_sem(s), then goes on at l. *)
CallWait(t, s, l) ==
  /\ Goto(t, "check")
  /\ sm' = [sm EXCEPT ![t] = s]
  /\ ret' = [ret EXCEPT ![t] = l]

wait_sem_check(t) ==
  /\ pc[t] = "check"
  /\ Goto(t, IF sem[sm[t]].init THEN "take" ELSE "init")
  /\ UNCHANGED <<sm, ret, after, fuel, found, st, sem, parser, runtime, exited>>

wait_sem_init(t) ==
  /\ pc[t] = "init"
  /\ sem' = [sem EXCEPT ![sm[t]].val = 1]
  /\ Goto(t, "flag")
  /\ UNCHANGED <<sm, ret, after, fuel, found, st, parser, runtime, exited>>

wait_sem_flag(t) ==
  /\ pc[t] = "flag"
  /\ sem' = [sem EXCEPT ![sm[t]].init = TRUE]
  /\ Goto(t, "take")
  /\ UNCHANGED <<sm, ret, after, fuel, found, st, parser, runtime, exited>>

wait_sem_take(t) ==
  /\ pc[t] = "take"
  /\ sem[sm[t]].val > 0
  /\ sem' = [sem EXCEPT ![sm[t]].val = @ - 1]
  /\ Goto(t, IF sm[t] = "compile" THEN "own" ELSE ret[t])
  /\ UNCHANGED <<sm, ret, after, fuel, found, st, parser, runtime, exited>>

(* tcc_enter_state() after its WAIT_SEM. *)
tcc_enter_state(t) ==
  /\ pc[t] = "own"
  /\ tcc_state' = t
  /\ Goto(t, ret[t])
  /\ ret' = [ret EXCEPT ![t] = "idle"]
  /\ UNCHANGED <<sm, after, fuel, found, st, sem, file, pp_expr,
                 macro_stack, nb_stk_data, runtime, exited>>

(* Mutant: the state is not forgotten. *)
MutExitState(t) ==
  /\ pc[t] \in {"exit", "error1"}
  /\ tcc_state' = tcc_state
  /\ Goto(t, "post")
  /\ ret' = [ret EXCEPT ![t] = IF pc[t] = "error1" THEN "format" ELSE "idle"]
  /\ UNCHANGED <<sm, after, fuel, found, st, sem, file, pp_expr, macro_stack,
                 nb_stk_data, runtime, exited>>

(* tcc_exit_state() outside a compilation: forget the state, then post. *)
tcc_exit_state(t) ==
  /\ pc[t] \in {"exit", "error1"}
  /\ tcc_state' = NULL
  /\ Goto(t, "post")
  /\ ret' = [ret EXCEPT ![t] = IF pc[t] = "error1" THEN "format" ELSE "idle"]
  /\ UNCHANGED <<sm, after, fuel, found, st, sem, file, pp_expr, macro_stack,
                 nb_stk_data, runtime, exited>>

post_compile_sem(t) ==
  /\ pc[t] = "post"
  /\ sem' = [sem EXCEPT !["compile"].val = @ + 1]
  /\ Goto(t, ret[t])
  /\ ret' = [ret EXCEPT ![t] = "idle"]
  /\ UNCHANGED <<sm, after, fuel, found, st, parser, runtime, exited>>

(* rt_post_sem(): what follows depends on what the semaphore was for. *)
rt_post_sem(t) ==
  /\ pc[t] = "rt_post"
  /\ sem' = [sem EXCEPT !["rt"].val = @ + 1]
  /\ Goto(t, ret[t])
  /\ ret' = [ret EXCEPT ![t] = "idle"]
  /\ sm' = [sm EXCEPT ![t] = "compile"]
  /\ UNCHANGED <<after, fuel, found, st, parser, runtime, exited>>

-----------------------------------------------------------------------------
(* tcc_new() and tcc_compile(). *)

tcc_new(t) ==
  /\ pc[t] = "idle"
  /\ ~st[t].alive
  /\ st' = [st EXCEPT ![t] = Fresh]
  /\ UNCHANGED <<pc, sm, ret, after, fuel, found, sem, parser, runtime, exited>>

tcc_compile(t) ==
  /\ pc[t] = "idle"
  /\ st[t].alive
  /\ ~st[t].run_ptr
  /\ Insist \/ ~st[t].errs
  /\ CallWait(t, "compile", "begin")
  /\ UNCHANGED <<after, fuel, found, st, sem, parser, runtime, exited>>

(* The error handler is armed, the source is opened, and so is the buffer  *)
(* with the predefined macros that preprocess_start() includes first;      *)
(* tccelf_begin_file() sets the symbol hash aside.                         *)
compile_begin(t) ==
  /\ pc[t] = "begin"
  /\ st' = [st EXCEPT ![t] = [@ EXCEPT !.jmp = TRUE, !.errs = FALSE,
                                       !.saved = st[t].hash, !.hash = FALSE]]
  /\ file' = <<t, t>> \o file
  /\ pp_expr' = FALSE
  /\ fuel' = [fuel EXCEPT ![t] = Tokens]
  /\ Goto(t, "parse")
  /\ UNCHANGED <<sm, ret, after, found, sem, tcc_state, macro_stack,
                 nb_stk_data, runtime, exited>>

(* The next parser event, of which there are at most Tokens. *)
Parse(t) == /\ pc[t] = "parse"
            /\ fuel[t] > 0
            /\ fuel' = [fuel EXCEPT ![t] = @ - 1]

(* #include, and the end of an included file. *)
parse_include(t) ==
  /\ Parse(t)
  /\ file' = <<t>> \o file
  /\ UNCHANGED <<pc, sm, ret, after, found, st, sem, tcc_state, pp_expr,
                 macro_stack, nb_stk_data, runtime, exited>>

parse_eof(t) ==
  /\ pc[t] = "parse"
  /\ Included(t)
  /\ file' = Tail(file)
  /\ UNCHANGED <<pc, sm, ret, after, fuel, found, st, sem, tcc_state, pp_expr,
                 macro_stack, nb_stk_data, runtime, exited>>

(* A temporary string that an error would have to free. *)
cstr_new_s(t) ==
  /\ Parse(t)
  /\ nb_stk_data' = nb_stk_data + 1
  /\ UNCHANGED <<pc, sm, ret, after, found, st, sem, tcc_state, file, pp_expr,
                 macro_stack, runtime, exited>>

cstr_free_s(t) ==
  /\ pc[t] = "parse"
  /\ nb_stk_data > 0
  /\ nb_stk_data' = nb_stk_data - 1
  /\ UNCHANGED <<pc, sm, ret, after, fuel, found, st, sem, tcc_state, file,
                 pp_expr, macro_stack, runtime, exited>>

(* expr_preprocess(): the expression's tokens become the innermost macro,  *)
(* and pp_expr redirects error messages until it has been evaluated.       *)
expr_preprocess(t) ==
  /\ Exprs
  /\ Parse(t)
  /\ ~pp_expr
  /\ pp_expr' = TRUE
  /\ macro_stack' = macro_stack + 1
  /\ UNCHANGED <<pc, sm, ret, after, found, st, sem, tcc_state, file,
                 nb_stk_data, runtime, exited>>

expr_preprocess_end(t) ==
  /\ pc[t] = "parse"
  /\ pp_expr
  /\ pp_expr' = FALSE
  /\ macro_stack' = macro_stack - 1
  /\ UNCHANGED <<pc, sm, ret, after, fuel, found, st, sem, tcc_state, file,
                 nb_stk_data, runtime, exited>>

(* Mutant: tcc_exit_state() posts although the state is being parsed. *)
MutErrorPosts(t, mode) ==
  /\ Parse(t)
  /\ Goto(t, "format")
  /\ after' = [after EXCEPT ![t] = IF mode = "ERROR" THEN "finish" ELSE "parse"]
  /\ st' = [st EXCEPT ![t].errs = @ \/ mode # "WARN"]
  /\ sem' = [sem EXCEPT !["compile"].val = @ + 1]
  /\ nb_stk_data' = IF mode = "ERROR" THEN 0 ELSE nb_stk_data
  /\ UNCHANGED <<sm, ret, found, tcc_state, file, pp_expr, macro_stack,
                 runtime, exited>>

(* Mutant: an error that unwinds the parser is not counted. *)
MutErrorUncounted(t, mode) ==
  /\ Parse(t)
  /\ Goto(t, "format")
  /\ after' = [after EXCEPT ![t] = IF mode = "ERROR" THEN "finish" ELSE "parse"]
  /\ st' = [st EXCEPT ![t].errs = @ \/ mode = "NOABORT"]
  /\ nb_stk_data' = IF mode = "ERROR" THEN 0 ELSE nb_stk_data
  /\ UNCHANGED <<sm, ret, found, sem, tcc_state, file, pp_expr, macro_stack,
                 runtime, exited>>

(* error1() while parsing: tcc_exit_state() is a no-op then.  The modes    *)
(* are ERROR_WARN, ERROR_NOABORT and ERROR_ERROR; the last one unwinds.    *)
error1_parsing(t, mode) ==
  /\ Parse(t)
  /\ Goto(t, "format")
  /\ after' = [after EXCEPT ![t] = IF mode = "ERROR" THEN "finish" ELSE "parse"]
  /\ st' = [st EXCEPT ![t].errs = @ \/ mode # "WARN"]
  /\ nb_stk_data' = IF mode = "ERROR" THEN 0 ELSE nb_stk_data
  /\ UNCHANGED <<sm, ret, found, sem, tcc_state, file, pp_expr, macro_stack,
                 runtime, exited>>

(* The translation unit is complete: every string is freed, every #if      *)
(* evaluated, every included file read; tccelf_end_file() brings the hash  *)
(* back.                                                                   *)
tccelf_end_file(t) ==
  /\ pc[t] = "parse"
  /\ ~pp_expr
  /\ nb_stk_data = 0
  /\ ~Included(t)
  /\ st' = [st EXCEPT ![t].hash = st[t].saved, ![t].saved = FALSE]
  /\ Goto(t, "finish")
  /\ UNCHANGED <<sm, ret, after, fuel, found, sem, parser, runtime, exited>>

(* Mutant: after an error the open files are left open. *)
MutFinishKeeps(t) ==
  /\ pc[t] = "finish"
  /\ nb_stk_data' = 0
  /\ macro_stack' = 0
  /\ file' = IF st[t].errs THEN file ELSE <<>>
  /\ st' = [st EXCEPT ![t].jmp = FALSE]
  /\ fuel' = [fuel EXCEPT ![t] = 0]
  /\ Goto(t, "exit")
  /\ UNCHANGED <<sm, ret, after, found, sem, tcc_state, pp_expr, runtime,
                 exited>>

(* Mutant: after an error tcc_compile() returns at once. *)
MutFinishReturns(t) ==
  /\ pc[t] = "finish"
  /\ nb_stk_data' = 0
  /\ macro_stack' = 0
  /\ file' = <<>>
  /\ st' = [st EXCEPT ![t].jmp = FALSE]
  /\ fuel' = [fuel EXCEPT ![t] = 0]
  /\ Goto(t, IF st[t].errs THEN "idle" ELSE "exit")
  /\ UNCHANGED <<sm, ret, after, found, sem, tcc_state, pp_expr, runtime,
                 exited>>

(* tccgen_finish() and preprocess_end(), with or without an error: reset   *)
(* the list of strings, drop all macros, close all files.                  *)
compile_finish(t) ==
  /\ pc[t] = "finish"
  /\ nb_stk_data' = 0
  /\ macro_stack' = 0
  /\ file' = <<>>
  /\ st' = [st EXCEPT ![t].jmp = FALSE]
  /\ fuel' = [fuel EXCEPT ![t] = 0]
  /\ Goto(t, "exit")
  /\ UNCHANGED <<sm, ret, after, found, sem, tcc_state, pp_expr, runtime,
                 exited>>

(* The rest of error1(): put the message together, hand it to error_func.  *)
(* pp_expr is read here, and chooses pp_error() to word the message.       *)
error1_message(t) ==
  /\ pc[t] = "format"
  /\ Goto(t, after[t])
  /\ after' = [after EXCEPT ![t] = "idle"]
  /\ UNCHANGED <<sm, ret, fuel, found, st, sem, parser, runtime, exited>>

-----------------------------------------------------------------------------
(* Errors of the linker, tcc_relocate(). *)

(* tcc_error_noabort() or tcc_warning() in a file that does not work on    *)
(* the globals: TCC_SET_STATE enters the state, error1() leaves it again.  *)
LinkError(t, err, l) ==
  /\ CallWait(t, "compile", "error1")
  /\ after' = [after EXCEPT ![t] = l]
  /\ st' = [st EXCEPT ![t].errs = @ \/ err]
  /\ UNCHANGED <<found, sem, parser, runtime, exited>>

(* A call such as tcc_add_file() or tcc_add_library() that fails. *)
tcc_add_file_fails(t) ==
  /\ pc[t] = "idle"
  /\ st[t].alive
  /\ ~st[t].run_ptr
  /\ \E err \in BOOLEAN : LinkError(t, err, "idle")
  /\ UNCHANGED fuel

tcc_relocate(t) ==
  /\ pc[t] = "idle"
  /\ st[t].alive
  /\ ~st[t].run_ptr
  /\ fuel' = [fuel EXCEPT ![t] = Tokens]
  /\ Goto(t, "reloc1")
  /\ UNCHANGED <<sm, ret, after, found, st, sem, parser, runtime, exited>>

(* Either pass of tcc_relocate_ex() may report errors and go on. *)
reloc_error(t) ==
  /\ pc[t] \in {"reloc1", "reloc2"}
  /\ fuel[t] > 0
  /\ fuel' = [fuel EXCEPT ![t] = @ - 1]
  /\ \E err \in BOOLEAN : LinkError(t, err, pc[t])

(* The first pass gives the size, then rt_mem() allocates the memory. *)
reloc_size(t) ==
  /\ pc[t] = "reloc1"
  /\ \/ /\ st[t].errs
        /\ Goto(t, "idle")
        /\ fuel' = [fuel EXCEPT ![t] = 0]
        /\ UNCHANGED st
     \/ /\ ~st[t].errs
        /\ Goto(t, "reloc2")
        /\ st' = [st EXCEPT ![t].run_ptr = TRUE]
        /\ UNCHANGED fuel
  /\ UNCHANGED <<sm, ret, after, found, sem, parser, runtime, exited>>

(* The second pass lays out, relocates and copies the sections. *)
reloc_copy(t) ==
  /\ pc[t] = "reloc2"
  /\ fuel' = [fuel EXCEPT ![t] = 0]
  /\ Goto(t, IF st[t].errs THEN "idle" ELSE "protect")
  /\ UNCHANGED <<sm, ret, after, found, st, sem, parser, runtime, exited>>

(* mprotect() may fail: tcc_relocate() then returns -1 at once. *)
reloc_protect(t) ==
  /\ pc[t] = "protect"
  /\ \/ /\ Goto(t, "clean")
        /\ UNCHANGED <<sm, ret, after, found, st, sem, parser, runtime, exited>>
     \/ LinkError(t, TRUE, "idle")
  /\ UNCHANGED fuel

(* cleanup_symbols() and cleanup_sections() keep the symbol table, whose   *)
(* hash they rebuild; st_link() follows.                                   *)
reloc_cleanup(t) ==
  /\ pc[t] = "clean"
  /\ CallWait(t, "rt", "link")
  /\ UNCHANGED <<after, fuel, found, st, sem, parser, runtime, exited>>

(* st_link() with bt_link(), holding rt_sem. *)
st_link(t) ==
  /\ pc[t] = "link"
  /\ g_s1' = <<t>> \o g_s1
  /\ g_rc' = IF t \in BtThread THEN <<t>> \o g_rc ELSE g_rc
  /\ signal_set' = (signal_set \/ t \in BtThread)
  /\ Goto(t, "rt_post")
  /\ ret' = [ret EXCEPT ![t] = "idle"]
  /\ UNCHANGED <<sm, after, fuel, found, st, sem, parser, exited>>

-----------------------------------------------------------------------------
(* Running the compiled code, and tcc_delete(). *)

(* The client calls a compiled function, maybe after tcc_setjmp(). *)
Call(t) ==
  /\ pc[t] = "idle"
  /\ Linked(t)
  /\ \E armed \in BOOLEAN :
       st' = [st EXCEPT ![t].lj = @ \/ armed]
  /\ Goto(t, "run")
  /\ UNCHANGED <<sm, ret, after, fuel, found, sem, parser, runtime, exited>>

Return(t) ==
  /\ pc[t] = "run"
  /\ Goto(t, "idle")
  /\ UNCHANGED <<sm, ret, after, fuel, found, st, sem, parser, runtime, exited>>

(* The code calls exit(), which runmain.c turns into rt_exit(). *)
Exit(t) ==
  /\ pc[t] = "run"
  /\ Goto(t, "rt_exit")
  /\ UNCHANGED <<sm, ret, after, fuel, found, st, sem, parser, runtime, exited>>

(* A fatal signal: sig_error() prints a backtrace, or the process dies. *)
Crash(t) ==
  /\ pc[t] = "run"
  /\ IF signal_set
       THEN CallWait(t, "rt", "walk") /\ UNCHANGED exited
       ELSE exited' = TRUE /\ UNCHANGED <<pc, sm, ret>>
  /\ UNCHANGED <<after, fuel, found, st, sem, parser, runtime>>

(* _tcc_backtrace() walks g_rc with rt_sem held; rt_exit(255) follows. *)
tcc_backtrace(t) ==
  /\ pc[t] = "walk"
  /\ Goto(t, "rt_post")
  /\ ret' = [ret EXCEPT ![t] = "rt_exit"]
  /\ UNCHANGED <<sm, after, fuel, found, st, sem, parser, runtime, exited>>

rt_exit(t) ==
  /\ pc[t] = "rt_exit"
  /\ CallWait(t, "rt", "find")
  /\ UNCHANGED <<after, fuel, found, st, sem, parser, runtime, exited>>

(* With at most one state on the list that one is taken; else the state in *)
(* whose memory one of the innermost 8 frames executes, if any does.       *)
rt_find_state(t) ==
  /\ pc[t] = "find"
  /\ \E r \in IF Len(g_s1) = 0 THEN {NULL}
               ELSE IF Len(g_s1) = 1 THEN {g_s1[1]}
               ELSE {NULL} \union {u \in {t} : Linked(u)} :
       found' = [found EXCEPT ![t] = r]
  /\ Goto(t, "rt_post")
  /\ ret' = [ret EXCEPT ![t] = "leave"]
  /\ UNCHANGED <<sm, after, fuel, st, sem, parser, runtime, exited>>

(* The end of rt_exit(), the semaphore released: longjmp() to where the    *)
(* client called tcc_setjmp(), or exit().                                  *)
rt_exit_leave(t) ==
  /\ pc[t] = "leave"
  /\ IF found[t] # NULL /\ st[found[t]].lj
       THEN Goto(t, "idle") /\ UNCHANGED exited
       ELSE exited' = TRUE /\ UNCHANGED pc
  /\ found' = [found EXCEPT ![t] = NULL]
  /\ UNCHANGED <<sm, ret, after, fuel, st, sem, parser, runtime>>

(* tcc_delete() frees the sections first, the symbol table with them, and  *)
(* takes a state that has memory to run in off the lists afterwards.       *)
tcc_delete(t) ==
  /\ pc[t] = "idle"
  /\ st[t].alive
  /\ st' = [st EXCEPT ![t].symtab = FALSE]
  /\ IF st[t].run_ptr THEN CallWait(t, "rt", "unlink")
                      ELSE Goto(t, "free") /\ UNCHANGED <<sm, ret>>
  /\ UNCHANGED <<after, fuel, found, sem, parser, runtime, exited>>

(* Mutant: only the rt_context is unlinked. *)
MutUnlink(t) ==
  /\ pc[t] = "unlink"
  /\ g_rc' = ptr_unlink(g_rc, t)
  /\ g_s1' = g_s1
  /\ Goto(t, "rt_post")
  /\ ret' = [ret EXCEPT ![t] = "free"]
  /\ UNCHANGED <<sm, after, fuel, found, st, sem, parser, signal_set, exited>>

st_unlink(t) ==
  /\ pc[t] = "unlink"
  /\ g_rc' = ptr_unlink(g_rc, t)
  /\ g_s1' = ptr_unlink(g_s1, t)
  /\ Goto(t, "rt_post")
  /\ ret' = [ret EXCEPT ![t] = "free"]
  /\ UNCHANGED <<sm, after, fuel, found, st, sem, parser, signal_set, exited>>

(* tcc_run_free() frees the code, tcc_delete() the state itself. *)
tcc_free(t) ==
  /\ pc[t] = "free"
  /\ st' = [st EXCEPT ![t] = Freed]
  /\ Goto(t, "idle")
  /\ UNCHANGED <<sm, ret, after, fuel, found, sem, parser, runtime, exited>>

-----------------------------------------------------------------------------

(* The calls a client may make. *)
Client(t) ==
  \/ tcc_new(t) \/ tcc_compile(t) \/ tcc_add_file_fails(t) \/ tcc_relocate(t)
  \/ Call(t) \/ tcc_delete(t)

(* One step inside a call of the library. *)
Library(t) ==
  \/ wait_sem_check(t) \/ wait_sem_init(t) \/ wait_sem_flag(t)
  \/ wait_sem_take(t) \/ tcc_enter_state(t) \/ tcc_exit_state(t)
  \/ post_compile_sem(t) \/ rt_post_sem(t)
  \/ compile_begin(t) \/ parse_include(t) \/ parse_eof(t) \/ cstr_new_s(t)
  \/ cstr_free_s(t) \/ expr_preprocess(t) \/ expr_preprocess_end(t)
  \/ tccelf_end_file(t)
  \/ \E mode \in {"WARN", "NOABORT", "ERROR"} : error1_parsing(t, mode)
  \/ compile_finish(t) \/ error1_message(t)
  \/ reloc_error(t) \/ reloc_size(t) \/ reloc_copy(t) \/ reloc_protect(t)
  \/ reloc_cleanup(t) \/ st_link(t)
  \/ tcc_backtrace(t) \/ rt_exit(t) \/ rt_find_state(t) \/ rt_exit_leave(t)
  \/ st_unlink(t) \/ tcc_free(t)

(* One step of the compiled code. *)
Program(t) == Return(t) \/ Exit(t) \/ Crash(t)

Next == \/ ~exited /\ \E t \in Thread : Client(t) \/ Library(t) \/ Program(t)
        \/ exited /\ UNCHANGED vars

(* The scheduler runs every thread that can go on inside the library; no   *)
(* assumption is made on who gets a semaphore, nor on the compiled code.   *)
Spec == /\ Init /\ [][Next]_vars
        /\ \A t \in Thread : WF_vars(~exited /\ Library(t))

-----------------------------------------------------------------------------
(* Properties *)

(* Every variable has its type; in particular the stack of strings to free *)
(* and the macro stack never hold fewer than no entries, and no semaphore  *)
(* goes below zero (stk_pop(), end_macro(), wait_sem()).                   *)
TypeOK ==
  /\ pc \in [Thread -> Label]
  /\ sm \in [Thread -> Sem]
  /\ ret \in [Thread -> Label]
  /\ after \in [Thread -> Label]
  /\ fuel \in [Thread -> 0..Tokens]
  /\ found \in [Thread -> Thread \union {NULL}]
  /\ st \in [Thread -> Field]
  /\ sem \in [Sem -> [init : BOOLEAN, val : Nat]]
  /\ tcc_state \in Thread \union {NULL}
  /\ file \in Seq(Thread)
  /\ pp_expr \in BOOLEAN
  /\ macro_stack \in Nat
  /\ nb_stk_data \in Nat
  /\ g_s1 \in Seq(Thread)
  /\ g_rc \in Seq(Thread)
  /\ signal_set \in BOOLEAN
  /\ exited \in BOOLEAN

(* The thread is between WAIT_SEM and POST_SEM of tcc_compile_sem. *)
InCompile(t) ==
  \/ pc[t] \in {"own", "begin", "parse", "finish", "error1", "exit", "post"}
  \/ pc[t] = "format" /\ st[t].jmp

(* The thread is between rt_wait_sem() and rt_post_sem(). *)
InRt(t) == pc[t] \in {"link", "walk", "find", "unlink", "rt_post"}

(* "Other threads need to wait until we're done": never are two threads in *)
(* the section where tcc_compile() and error1() use the parser's globals.  *)
CompileExclusion ==
  \A t, u \in Thread : InCompile(t) /\ InCompile(u) => t = u

(* Never do two threads work on g_s1 and g_rc at the same time. *)
RtExclusion == \A t, u \in Thread : InRt(t) /\ InRt(u) => t = u

(* tcc_compile_sem and rt_sem exclude, whatever path a thread takes out of *)
(* the sections they guard: an error's longjmp(), a signal, exit().        *)
MutualExclusion == CompileExclusion /\ RtExclusion

(* Whatever path a compilation or a diagnostic takes, the section is left  *)
(* with no state entered, no file open, no macro on the stack and no       *)
(* string to free: the next thread starts from nothing.                    *)
CleanHandover ==
  (\A t \in Thread : ~InCompile(t)) =>
     tcc_state = NULL /\ file = <<>> /\ macro_stack = 0 /\ nb_stk_data = 0

(* While a thread parses, or reports an error, tcc_state is its own state; *)
(* while it parses, its files are the only ones open.                      *)
OwnGlobals ==
  \A t \in Thread :
    /\ pc[t] \in {"begin", "parse", "finish", "error1", "exit"} => tcc_state = t
    /\ pc[t] \in {"parse", "finish"} =>
         Len(file) > 0 /\ \A i \in 1..Len(file) : file[i] = t

(* rt_exit() never unwinds into another thread's frame: the state it finds *)
(* is the calling thread's own one, though it uses it after rt_post_sem(). *)
FindsSelf == \A t \in Thread : found[t] \in {NULL, t}

(* g_s1 and g_rc hold every state once, only states that still have their  *)
(* code in memory, and every state whose code is running; rt_exit() finds  *)
(* there the state that is exiting.                                        *)
ListsSound ==
  /\ FindsSelf
  /\ \A i \in 1..Len(g_s1) : st[g_s1[i]].alive /\ st[g_s1[i]].run_ptr
  /\ \A i, j \in 1..Len(g_s1) : g_s1[i] = g_s1[j] => i = j
  /\ \A i \in 1..Len(g_rc) : Linked(g_rc[i]) /\ g_rc[i] \in BtThread
  /\ \A i, j \in 1..Len(g_rc) : g_rc[i] = g_rc[j] => i = j
  /\ \A t \in Thread : pc[t] \in {"run", "rt_exit", "find", "leave"} => Linked(t)

(* tcc_relocate() rebuilds the symbol hash of a state that has one. *)
HashKept == \A t \in Thread : pc[t] = "clean" => st[t].hash

(* pp_error() words only errors of an #if expression that the same thread  *)
(* is evaluating: "special handler for preprocessor expression errors".    *)
PpErrorInExpr ==
  \A t \in Thread :
    pc[t] = "format" /\ pp_expr => tcc_state = t /\ macro_stack > 0

(* A backtrace reads only symbol tables that are still allocated. *)
SymtabsLive ==
  \A t \in Thread : pc[t] = "walk" =>
    \A i \in 1..Len(g_rc) : st[g_rc[i]].symtab

(* A semaphore that was taken is posted again, on every path. *)
SemsReleased ==
  \A s \in Sem : sem[s].init /\ sem[s].val = 0 ~> sem[s].val > 0 \/ exited

=============================================================================
