---------------------------- MODULE LibtccProofs ----------------------------
(***************************************************************************)
(* Proofs about Libtcc, for any number of threads and any number of parser *)
(* events.  Once both semaphores have been initialized (Cold = {}), no two *)
(* threads are ever in the section of tcc_compile_sem, nor in that of      *)
(* rt_sem; the section's globals belong to the thread in it and are clean  *)
(* when it is left.                                                        *)
(***************************************************************************)
EXTENDS Libtcc, TLAPS

(* Where a thread that has called wait_sem() goes on, by semaphore; the    *)
(* continuations of the two posts and of error1(); error_set_jmp_enabled   *)
(* is set exactly while the thread is parsing.                             *)
Ctl(t) ==
  /\ pc[t] \notin {"init", "flag"}
  /\ pc[t] \in {"check", "take"} /\ sm[t] = "compile" =>
       ret[t] \in {"begin", "error1"}
  /\ pc[t] \in {"check", "take"} /\ sm[t] = "rt" =>
       ret[t] \in {"link", "walk", "find", "unlink"}
  /\ pc[t] = "own" => ret[t] \in {"begin", "error1"}
  /\ pc[t] = "post" => ret[t] \in {"idle", "format"}
  /\ pc[t] = "rt_post" => ret[t] \in {"idle", "rt_exit", "leave", "free"}
  /\ \/ pc[t] \in {"check", "take", "own"} /\ ret[t] = "error1"
     \/ pc[t] = "error1"
     \/ pc[t] = "post" /\ ret[t] = "format"
     => after[t] \in {"idle", "reloc1", "reloc2"}
  /\ pc[t] = "format" =>
       after[t] \in {"idle", "reloc1", "reloc2", "parse", "finish"}
  /\ st[t].jmp <=> \/ pc[t] \in {"parse", "finish"}
                   \/ pc[t] = "format" /\ after[t] \in {"parse", "finish"}

(* The semaphores are binary, and down while somebody is in the section. *)
Sems ==
  /\ \A s \in Sem : sem[s].init /\ sem[s].val \in {0, 1}
  /\ \A t \in Thread : InCompile(t) => sem["compile"].val = 0
  /\ \A t \in Thread : InRt(t) => sem["rt"].val = 0

(* The thread has entered its state; it has begun to parse. *)
Busy(t) == pc[t] \in {"parse", "finish"} \/ (pc[t] = "format" /\ st[t].jmp)
Entered(t) == Busy(t) \/ pc[t] \in {"begin", "error1", "exit"}

Globals ==
  /\ (\A t \in Thread : ~Entered(t)) => tcc_state = NULL
  /\ (\A t \in Thread : ~Busy(t)) =>
       file = <<>> /\ macro_stack = 0 /\ nb_stk_data = 0
  /\ \A t \in Thread : Entered(t) => tcc_state = t
  /\ \A t \in Thread : Busy(t) =>
       Len(file) > 0 /\ \A i \in 1..Len(file) : file[i] = t
  /\ \A t \in Thread : Busy(t) /\ pc[t] # "finish" /\ pp_expr => macro_stack > 0

IInv == /\ TypeOK
        /\ \A t \in Thread : Ctl(t)
        /\ Sems
        /\ CompileExclusion
        /\ RtExclusion
        /\ Globals

-----------------------------------------------------------------------------
(* What the updates of the records and lists return. *)

(* Assigning a truth value to a field of a TCCState. *)
LEMMA FieldUpdate ==
  ASSUME NEW f \in [Thread -> Field], NEW t \in Thread, NEW b \in BOOLEAN
  PROVE  /\ [f EXCEPT ![t].errs = b] \in [Thread -> Field]
         /\ [f EXCEPT ![t].lj = b] \in [Thread -> Field]
         /\ [f EXCEPT ![t].symtab = b] \in [Thread -> Field]
         /\ [f EXCEPT ![t].run_ptr = b] \in [Thread -> Field]
         /\ [f EXCEPT ![t].jmp = b] \in [Thread -> Field]
         /\ [f EXCEPT ![t] = [@ EXCEPT !.jmp = TRUE, !.errs = FALSE,
                                       !.saved = f[t].hash, !.hash = FALSE]]
              \in [Thread -> Field]
         /\ [f EXCEPT ![t].hash = f[t].saved, ![t].saved = FALSE] \in [Thread -> Field]
         /\ f[t].errs \in BOOLEAN /\ f[t].lj \in BOOLEAN
         /\ f[t].hash \in BOOLEAN /\ f[t].saved \in BOOLEAN
<1>1. /\ f[t].errs \in BOOLEAN /\ f[t].lj \in BOOLEAN
      /\ f[t].hash \in BOOLEAN /\ f[t].saved \in BOOLEAN
  BY DEF Field
<1>2. /\ [f EXCEPT ![t].errs = b] \in [Thread -> Field]
      /\ [f EXCEPT ![t].lj = b] \in [Thread -> Field]
  BY DEF Field
<1>3. /\ [f EXCEPT ![t].symtab = b] \in [Thread -> Field]
      /\ [f EXCEPT ![t].run_ptr = b] \in [Thread -> Field]
  BY DEF Field
<1>4. [f EXCEPT ![t].jmp = b] \in [Thread -> Field]
  BY DEF Field
<1>5. [f EXCEPT ![t] = [@ EXCEPT !.jmp = TRUE, !.errs = FALSE,
                                 !.saved = f[t].hash, !.hash = FALSE]]
        \in [Thread -> Field]
  <2>1. ASSUME NEW r \in Field, NEW h \in BOOLEAN
        PROVE  [r EXCEPT !.jmp = TRUE, !.errs = FALSE, !.saved = h, !.hash = FALSE]
                 \in Field
    BY DEF Field
  <2> QED
    BY <1>1, <2>1
<1>6. [f EXCEPT ![t].hash = f[t].saved, ![t].saved = FALSE] \in [Thread -> Field]
  <2>1. ASSUME NEW r \in Field, NEW h \in BOOLEAN
        PROVE  [r EXCEPT !.hash = h] \in Field /\ [r EXCEPT !.saved = FALSE] \in Field
    BY DEF Field
  <2> DEFINE g == [f EXCEPT ![t].hash = f[t].saved]
  <2>2. g = [f EXCEPT ![t] = [f[t] EXCEPT !.hash = f[t].saved]]
    OBVIOUS
  <2>3. g \in [Thread -> Field]
    BY <1>1, <2>1, <2>2
  <2>4. [g EXCEPT ![t].saved = FALSE] = [g EXCEPT ![t] = [g[t] EXCEPT !.saved = FALSE]]
    OBVIOUS
  <2>5. [g EXCEPT ![t].saved = FALSE] \in [Thread -> Field]
    <3> HIDE DEF g
    <3> QED
      BY <2>1, <2>3, <2>4
  <2> QED
    BY <2>5
<1> QED
  BY <1>1, <1>2, <1>3, <1>4, <1>5, <1>6

(* Counting an error, or arming the exit handler, is such an assignment. *)
LEMMA FieldOr ==
  ASSUME NEW f \in [Thread -> Field], NEW t \in Thread, NEW b \in BOOLEAN
  PROVE  /\ [f EXCEPT ![t].errs = @ \/ b] \in [Thread -> Field]
         /\ [f EXCEPT ![t].lj = @ \/ b] \in [Thread -> Field]
<1>1. f[t].errs \in BOOLEAN /\ f[t].lj \in BOOLEAN
  BY FieldUpdate
<1>2. (f[t].errs \/ b) \in BOOLEAN /\ (f[t].lj \/ b) \in BOOLEAN
  BY <1>1, Zenon
<1>3. /\ [f EXCEPT ![t].errs = f[t].errs \/ b] \in [Thread -> Field]
      /\ [f EXCEPT ![t].lj = f[t].lj \/ b] \in [Thread -> Field]
  BY <1>2, FieldUpdate
<1> QED
  BY <1>3

(* sem_post() and sem_wait() on one of the semaphores. *)
LEMMA SemUpdate ==
  ASSUME NEW g \in [Sem -> [init : BOOLEAN, val : Nat]], NEW s \in Sem
  PROVE  /\ [g EXCEPT ![s].val = @ + 1] \in [Sem -> [init : BOOLEAN, val : Nat]]
         /\ [g EXCEPT ![s].val = 1] \in [Sem -> [init : BOOLEAN, val : Nat]]
         /\ [g EXCEPT ![s].init = TRUE] \in [Sem -> [init : BOOLEAN, val : Nat]]
         /\ g[s].val > 0 =>
              [g EXCEPT ![s].val = @ - 1] \in [Sem -> [init : BOOLEAN, val : Nat]]
<1>1. /\ [g EXCEPT ![s].val = @ + 1] \in [Sem -> [init : BOOLEAN, val : Nat]]
      /\ [g EXCEPT ![s].val = 1] \in [Sem -> [init : BOOLEAN, val : Nat]]
  OBVIOUS
<1>2. [g EXCEPT ![s].init = TRUE] \in [Sem -> [init : BOOLEAN, val : Nat]]
  OBVIOUS
<1>3. ASSUME g[s].val > 0
      PROVE  [g EXCEPT ![s].val = @ - 1] \in [Sem -> [init : BOOLEAN, val : Nat]]
  <2>1. g[s].val - 1 \in Nat
    BY <1>3
  <2> QED
    BY <2>1
<1> QED
  BY <1>1, <1>2, <1>3

(* Unlinking leaves a list of threads. *)
LEMMA UnlinkType ==
  ASSUME NEW list \in Seq(Thread), NEW e
  PROVE  ptr_unlink(list, e) \in Seq(Thread)
<1>1. CASE \E i \in 1..Len(list) : list[i] = e
  <2> DEFINE k == CHOOSE i \in 1..Len(list) : list[i] = e
  <2>0. k \in 1..Len(list)
    BY <1>1
  <2> HIDE DEF k
  <2>1. SubSeq(list, 1, k - 1) \in Seq(Thread)
    BY <2>0
  <2>2. SubSeq(list, k + 1, Len(list)) \in Seq(Thread)
    BY <2>0
  <2>3. SubSeq(list, 1, k - 1) \o SubSeq(list, k + 1, Len(list)) \in Seq(Thread)
    BY <2>1, <2>2
  <2> QED
    BY <1>1, <2>3 DEF ptr_unlink, k
<1>2. CASE ~ \E i \in 1..Len(list) : list[i] = e
  BY <1>2 DEF ptr_unlink
<1> QED
  BY <1>1, <1>2

-----------------------------------------------------------------------------
(* error_set_jmp_enabled changes only where tcc_compile() assigns it. *)
LEMMA JmpKept ==
  ASSUME IInv, NEW t \in Thread, Client(t) \/ Library(t) \/ Program(t),
         pc[t] \notin {"begin", "finish"}, NEW u \in Thread
  PROVE  st'[u].jmp = st[u].jmp
<1> USE DEF Goto
<1>a. st \in [Thread -> Field]
  BY DEF IInv, TypeOK
<1>1. CASE UNCHANGED st
  BY <1>1
<1>2. CASE tcc_new(t) \/ tcc_free(t)
  <2>1. st[t].jmp = FALSE
    BY <1>2, <1>a DEF IInv, Ctl, tcc_new, tcc_free, Field
  <2>2. st' = [st EXCEPT ![t] = Fresh] \/ st' = [st EXCEPT ![t] = Freed]
    BY <1>2 DEF tcc_new, tcc_free
  <2>3. Fresh.jmp = FALSE /\ Freed.jmp = FALSE
    BY DEF Fresh, Freed
  <2> QED
    BY <1>a, <2>1, <2>2, <2>3
<1>3. ASSUME NEW err \in BOOLEAN, NEW l, LinkError(t, err, l)
      PROVE  st'[u].jmp = st[u].jmp
  BY <1>3, <1>a DEF LinkError, Field
<1>4. CASE tcc_add_file_fails(t) \/ reloc_error(t) \/ reloc_protect(t)
  BY <1>1, <1>3, <1>4 DEF tcc_add_file_fails, reloc_error, reloc_protect
<1>5. CASE Call(t) \/ tcc_delete(t) \/ reloc_size(t) \/ tccelf_end_file(t)
  BY <1>5, <1>a DEF Call, tcc_delete, reloc_size, tccelf_end_file, Field
<1>6. CASE \E mode \in {"WARN", "NOABORT", "ERROR"} : error1_parsing(t, mode)
  BY <1>6, <1>a DEF error1_parsing, Field
<1>7. CASE tcc_compile(t) \/ tcc_relocate(t)
  BY <1>7, <1>1 DEF tcc_compile, tcc_relocate
<1>8. CASE Program(t)
  BY <1>8, <1>1 DEF Program, Return, Exit, Crash
<1>9. CASE \/ wait_sem_check(t) \/ wait_sem_init(t) \/ wait_sem_flag(t)
           \/ wait_sem_take(t) \/ tcc_enter_state(t) \/ tcc_exit_state(t)
           \/ post_compile_sem(t) \/ rt_post_sem(t) \/ error1_message(t)
  BY <1>9, <1>1 DEF wait_sem_check, wait_sem_init, wait_sem_flag, wait_sem_take,
     tcc_enter_state, tcc_exit_state, post_compile_sem, rt_post_sem, error1_message
<1>10. CASE \/ parse_include(t) \/ parse_eof(t) \/ cstr_new_s(t) \/ cstr_free_s(t)
            \/ expr_preprocess(t) \/ expr_preprocess_end(t)
  BY <1>10, <1>1 DEF parse_include, parse_eof, cstr_new_s, cstr_free_s,
     expr_preprocess, expr_preprocess_end
<1>11. CASE \/ reloc_copy(t) \/ reloc_cleanup(t) \/ st_link(t) \/ tcc_backtrace(t)
            \/ rt_exit(t) \/ rt_find_state(t) \/ rt_exit_leave(t) \/ st_unlink(t)
  BY <1>11, <1>1 DEF reloc_copy, reloc_cleanup, st_link, tcc_backtrace, rt_exit,
     rt_find_state, rt_exit_leave, st_unlink
<1>12. ~compile_begin(t) /\ ~compile_finish(t)
  BY DEF compile_begin, compile_finish
<1> QED
  BY <1>2, <1>4, <1>5, <1>6, <1>7, <1>8, <1>9, <1>10, <1>11, <1>12
  DEF Client, Library

(* Every step keeps the types. *)
LEMMA NextTypeOK == IInv /\ Next => TypeOK'
<1> SUFFICES ASSUME IInv, NEW t \in Thread, Client(t) \/ Library(t) \/ Program(t)
             PROVE  TypeOK'
  BY DEF Next, IInv, TypeOK, vars, parser, runtime
<1> USE NullAssumption, TokensAssumption, ClientAssumption, BtAssumption
<1>a. st \in [Thread -> Field]
  BY DEF IInv, TypeOK
<1>1. CASE tcc_new(t)
  BY <1>1
  DEF tcc_new, Goto, IInv, TypeOK, Sem, Label, Field, Freed, Fresh, parser,
      runtime
<1>2. CASE tcc_compile(t)
  BY <1>2
  DEF tcc_compile, CallWait, Goto, IInv, TypeOK, Sem, Label, Field, Freed,
      Fresh, parser, runtime
<1>3. CASE tcc_add_file_fails(t)
  <2>1. PICK err \in BOOLEAN : LinkError(t, err, "idle")
    BY <1>3 DEF tcc_add_file_fails
  <2>2. st' = [st EXCEPT ![t].errs = @ \/ err]
    BY <2>1 DEF LinkError
  <2>3. st' \in [Thread -> Field]
    BY <2>2, <1>a, FieldOr
  <2> QED
    BY <1>3, <2>1, <2>3, SMTT(60)
    DEF tcc_add_file_fails, LinkError, CallWait, Goto, IInv, TypeOK, Sem, Label,
        parser, runtime
<1>4. CASE tcc_relocate(t)
  BY <1>4, SMTT(60)
  DEF tcc_relocate, Goto, IInv, TypeOK, Sem, Label, Field, Freed, Fresh, parser,
      runtime
<1>5. CASE Call(t)
  <2>1. PICK armed \in BOOLEAN : st' = [st EXCEPT ![t].lj = @ \/ armed]
    BY <1>5 DEF Call
  <2>2. st' \in [Thread -> Field]
    BY <2>1, <1>a, FieldOr
  <2> QED
    BY <1>5, <2>2 DEF Call, Goto, IInv, TypeOK, Sem, Label, parser, runtime
<1>6. CASE tcc_delete(t)
  <2>1. st' \in [Thread -> Field]
    BY <1>6, <1>a, FieldUpdate DEF tcc_delete
  <2>2. CASE st[t].run_ptr
    <3>1. /\ pc' = [pc EXCEPT ![t] = "check"] /\ sm' = [sm EXCEPT ![t] = "rt"]
          /\ ret' = [ret EXCEPT ![t] = "unlink"]
      BY <1>6, <2>2 DEF tcc_delete, CallWait, Goto
    <3>2. /\ pc' \in [Thread -> Label] /\ sm' \in [Thread -> Sem]
          /\ ret' \in [Thread -> Label]
      BY <3>1 DEF IInv, TypeOK, Sem, Label
    <3> QED
      BY <1>6, <2>1, <3>2 DEF tcc_delete, IInv, TypeOK, parser, runtime
  <2>3. CASE ~st[t].run_ptr
    <3>1. pc' = [pc EXCEPT ![t] = "free"] /\ sm' = sm /\ ret' = ret
      BY <1>6, <2>3 DEF tcc_delete, Goto
    <3>2. pc' \in [Thread -> Label]
      BY <3>1 DEF IInv, TypeOK, Label
    <3> QED
      BY <1>6, <2>1, <3>1, <3>2 DEF tcc_delete, IInv, TypeOK, parser, runtime
  <2> QED
    BY <2>2, <2>3
<1>7. CASE wait_sem_check(t)
  <2>1. pc' = [pc EXCEPT ![t] = "take"] \/ pc' = [pc EXCEPT ![t] = "init"]
    BY <1>7 DEF wait_sem_check, Goto
  <2>2. pc' \in [Thread -> Label]
    BY <2>1 DEF IInv, TypeOK, Label
  <2> QED
    BY <1>7, <2>2, SMTT(60) DEF wait_sem_check, IInv, TypeOK, parser, runtime
<1>8. CASE wait_sem_init(t)
  <2>1. sem' \in [Sem -> [init : BOOLEAN, val : Nat]]
    BY <1>8, SemUpdate DEF wait_sem_init, IInv, TypeOK
  <2>2. pc' \in [Thread -> Label]
    BY <1>8 DEF wait_sem_init, Goto, IInv, TypeOK, Label
  <2> QED
    BY <1>8, <2>1, <2>2 DEF wait_sem_init, IInv, TypeOK, parser, runtime
<1>9. CASE wait_sem_flag(t)
  <2>1. sem' \in [Sem -> [init : BOOLEAN, val : Nat]]
    BY <1>9, SemUpdate DEF wait_sem_flag, IInv, TypeOK
  <2>2. pc' \in [Thread -> Label]
    BY <1>9 DEF wait_sem_flag, Goto, IInv, TypeOK, Label
  <2> QED
    BY <1>9, <2>1, <2>2 DEF wait_sem_flag, IInv, TypeOK, parser, runtime
<1>10. CASE wait_sem_take(t)
  <2>1. sem' \in [Sem -> [init : BOOLEAN, val : Nat]]
    BY <1>10, SemUpdate DEF wait_sem_take, IInv, TypeOK, Sem
  <2> QED
    BY <1>10, <2>1
    DEF wait_sem_take, Goto, IInv, TypeOK, Sem, Label, parser, runtime
<1>11. CASE tcc_enter_state(t)
  BY <1>11, SMTT(60)
  DEF tcc_enter_state, Goto, IInv, TypeOK, Sem, Label, Field, Freed, Fresh,
      parser, runtime
<1>12. CASE tcc_exit_state(t)
  BY <1>12, SMTT(60)
  DEF tcc_exit_state, Goto, IInv, TypeOK, Sem, Label, Field, Freed, Fresh,
      parser, runtime
<1>13. CASE post_compile_sem(t)
  <2>1. sem' \in [Sem -> [init : BOOLEAN, val : Nat]]
    BY <1>13, SemUpdate DEF post_compile_sem, IInv, TypeOK, Sem
  <2> QED
    BY <1>13, <2>1
    DEF post_compile_sem, Goto, IInv, TypeOK, Sem, Label, parser, runtime
<1>14. CASE rt_post_sem(t)
  <2>1. sem' \in [Sem -> [init : BOOLEAN, val : Nat]]
    BY <1>14, SemUpdate DEF rt_post_sem, IInv, TypeOK, Sem
  <2> QED
    BY <1>14, <2>1, SMTT(60)
    DEF rt_post_sem, Goto, IInv, TypeOK, Sem, Label, parser, runtime
<1>15. CASE compile_begin(t)
  <2>1. st' \in [Thread -> Field]
    BY <1>15, <1>a, FieldUpdate DEF compile_begin
  <2>2. file' \in Seq(Thread)
    BY <1>15 DEF compile_begin, IInv, TypeOK
  <2>3. fuel' \in [Thread -> 0..Tokens]
    BY <1>15, SMTT(60) DEF compile_begin, IInv, TypeOK
  <2> QED
    BY <1>15, <2>1, <2>2, <2>3
    DEF compile_begin, Goto, IInv, TypeOK, Label, parser, runtime
<1>16. CASE parse_include(t)
  BY <1>16, SMTT(60)
  DEF parse_include, Parse, Goto, IInv, TypeOK, Sem, Label, Field, Freed, Fresh,
      parser, runtime
<1>17. CASE parse_eof(t)
  <2>1. Tail(file) \in Seq(Thread)
    BY <1>17 DEF parse_eof, Included, IInv, TypeOK
  <2> QED
    BY <1>17, <2>1 DEF parse_eof, Goto, IInv, TypeOK, parser, runtime
<1>18. CASE cstr_new_s(t)
  BY <1>18, SMTT(60)
  DEF cstr_new_s, Parse, Goto, IInv, TypeOK, Sem, Label, Field, Freed, Fresh,
      parser, runtime
<1>19. CASE cstr_free_s(t)
  BY <1>19
  DEF cstr_free_s, Goto, IInv, TypeOK, Sem, Label, Field, Freed, Fresh, parser,
      runtime
<1>20. CASE expr_preprocess(t)
  BY <1>20, SMTT(60)
  DEF expr_preprocess, Parse, Goto, IInv, TypeOK, Sem, Label, Field, Freed,
      Fresh, parser, runtime
<1>21. CASE expr_preprocess_end(t)
  <2>1. macro_stack > 0
    BY <1>21 DEF expr_preprocess_end, IInv, Globals, Busy
  <2>2. macro_stack' \in Nat
    BY <1>21, <2>1 DEF expr_preprocess_end, IInv, TypeOK
  <2> QED
    BY <1>21, <2>2 DEF expr_preprocess_end, Goto, IInv, TypeOK, parser, runtime
<1>22. CASE tccelf_end_file(t)
  <2>1. st' \in [Thread -> Field]
    BY <1>22, <1>a, FieldUpdate DEF tccelf_end_file
  <2> QED
    BY <1>22, <2>1, SMTT(60)
    DEF tccelf_end_file, Goto, IInv, TypeOK, Label, parser, runtime
<1>23. CASE \E mode \in {"WARN", "NOABORT", "ERROR"} : error1_parsing(t, mode)
  <2>1. PICK mode \in {"WARN", "NOABORT", "ERROR"} : error1_parsing(t, mode)
    BY <1>23
  <2>2. (mode # "WARN") \in BOOLEAN
    BY Zenon
  <2>3. st' = [st EXCEPT ![t].errs = @ \/ mode # "WARN"]
    BY <2>1 DEF error1_parsing
  <2>4. st' \in [Thread -> Field]
    BY <2>2, <2>3, <1>a, FieldOr
  <2> QED
    BY <2>1, <2>4, SMTT(60)
    DEF error1_parsing, Parse, Goto, IInv, TypeOK, Sem, Label, parser, runtime
<1>24. CASE compile_finish(t)
  <2>1. st' = [st EXCEPT ![t].jmp = FALSE]
    BY <1>24 DEF compile_finish
  <2>2. st' \in [Thread -> Field]
    BY <2>1, <1>a, FieldUpdate
  <2> QED
    BY <1>24, <2>2, SMTT(60)
    DEF compile_finish, Goto, IInv, TypeOK, Sem, Label, parser, runtime
<1>25. CASE error1_message(t)
  BY <1>25, SMTT(60)
  DEF error1_message, Goto, IInv, TypeOK, Sem, Label, Field, Freed, Fresh,
      parser, runtime
<1>26. CASE reloc_error(t)
  <2>1. PICK err \in BOOLEAN : LinkError(t, err, pc[t])
    BY <1>26 DEF reloc_error
  <2>2. st' = [st EXCEPT ![t].errs = @ \/ err]
    BY <2>1 DEF LinkError
  <2>3. st' \in [Thread -> Field]
    BY <2>2, <1>a, FieldOr
  <2> QED
    BY <1>26, <2>1, <2>3, SMTT(60)
    DEF reloc_error, LinkError, CallWait, Goto, IInv, TypeOK, Sem, Label,
        parser, runtime
<1>27. CASE reloc_size(t)
  <2>1. CASE st[t].errs
    <3>1. /\ fuel' = [fuel EXCEPT ![t] = 0]
          /\ pc' = [pc EXCEPT ![t] = "idle"]
          /\ st' = st
      BY <1>27, <2>1 DEF reloc_size, Goto
    <3>2. fuel' \in [Thread -> 0..Tokens] /\ pc' \in [Thread -> Label]
      BY <3>1 DEF IInv, TypeOK, Label
    <3> QED
      BY <1>27, <3>1, <3>2 DEF reloc_size, IInv, TypeOK, parser, runtime
  <2>2. CASE ~st[t].errs
    <3>1. st' = [st EXCEPT ![t].run_ptr = TRUE]
      BY <1>27, <2>2 DEF reloc_size
    <3>2. st' \in [Thread -> Field]
      BY <3>1, <1>a, FieldUpdate
    <3> QED
      BY <1>27, <2>2, <3>2
      DEF reloc_size, Goto, IInv, TypeOK, Label, parser, runtime
  <2> QED
    BY <2>1, <2>2
<1>28. CASE reloc_copy(t)
  BY <1>28, SMTT(60)
  DEF reloc_copy, Goto, IInv, TypeOK, Sem, Label, Field, Freed, Fresh, parser,
      runtime
<1>29. CASE reloc_protect(t)
  <2>1. CASE LinkError(t, TRUE, "idle")
    <3>1. st' = [st EXCEPT ![t].errs = @ \/ TRUE]
      BY <2>1 DEF LinkError
    <3>2. st' \in [Thread -> Field]
      BY <3>1, <1>a, FieldOr
    <3> QED
      BY <1>29, <2>1, <3>2, SMTT(60)
      DEF reloc_protect, LinkError, CallWait, Goto, IInv, TypeOK, Sem, Label,
          parser, runtime
  <2>2. CASE ~LinkError(t, TRUE, "idle")
    BY <1>29, <2>2
    DEF reloc_protect, Goto, IInv, TypeOK, Sem, Label, parser, runtime
  <2> QED
    BY <2>1, <2>2
<1>30. CASE reloc_cleanup(t)
  BY <1>30
  DEF reloc_cleanup, CallWait, Goto, IInv, TypeOK, Sem, Label, Field, Freed,
      Fresh, parser, runtime
<1>31. CASE st_link(t)
  BY <1>31, SMTT(60)
  DEF st_link, Goto, IInv, TypeOK, Sem, Label, Field, Freed, Fresh, parser,
      runtime
<1>32. CASE tcc_backtrace(t)
  BY <1>32, SMTT(60)
  DEF tcc_backtrace, Goto, IInv, TypeOK, Sem, Label, Field, Freed, Fresh,
      parser, runtime
<1>33. CASE rt_exit(t)
  BY <1>33, SMTT(60)
  DEF rt_exit, CallWait, Goto, IInv, TypeOK, Sem, Label, Field, Freed, Fresh,
      parser, runtime
<1>34. CASE rt_find_state(t)
  BY <1>34, SMTT(60)
  DEF rt_find_state, Goto, IInv, TypeOK, Sem, Label, Field, Freed, Fresh,
      parser, runtime
<1>35. CASE rt_exit_leave(t)
  BY <1>35
  DEF rt_exit_leave, Goto, IInv, TypeOK, Sem, Label, Field, Freed, Fresh,
      parser, runtime
<1>36. CASE st_unlink(t)
  <2>1. g_rc' \in Seq(Thread) /\ g_s1' \in Seq(Thread)
    BY <1>36, UnlinkType DEF st_unlink, IInv, TypeOK
  <2> QED
    BY <1>36, <2>1 DEF st_unlink, Goto, IInv, TypeOK, Label, parser, runtime
<1>37. CASE tcc_free(t)
  BY <1>37, SMTT(60)
  DEF tcc_free, Goto, IInv, TypeOK, Sem, Label, Field, Freed, Fresh, parser,
      runtime
<1>38. CASE Return(t)
  BY <1>38, SMTT(60)
  DEF Return, Goto, IInv, TypeOK, Sem, Label, Field, Freed, Fresh, parser,
      runtime
<1>39. CASE Exit(t)
  BY <1>39, SMTT(60)
  DEF Exit, Goto, IInv, TypeOK, Sem, Label, Field, Freed, Fresh, parser, runtime
<1>40. CASE Crash(t)
  <2>1. CASE signal_set
    <3>1. /\ pc' = [pc EXCEPT ![t] = "check"] /\ sm' = [sm EXCEPT ![t] = "rt"]
          /\ ret' = [ret EXCEPT ![t] = "walk"] /\ exited' = exited
      BY <1>40, <2>1 DEF Crash, CallWait, Goto
    <3>2. /\ pc' \in [Thread -> Label] /\ sm' \in [Thread -> Sem]
          /\ ret' \in [Thread -> Label]
      BY <3>1 DEF IInv, TypeOK, Sem, Label
    <3> QED
      BY <1>40, <3>1, <3>2, SMTT(60) DEF Crash, IInv, TypeOK, parser, runtime
  <2>2. CASE ~signal_set
    <3>1. pc' = pc /\ sm' = sm /\ ret' = ret /\ exited' = TRUE
      BY <1>40, <2>2 DEF Crash
    <3> QED
      BY <1>40, <3>1 DEF Crash, IInv, TypeOK, parser, runtime
  <2> QED
    BY <2>1, <2>2
<1>41. CASE Client(t)
  BY <1>41, <1>1, <1>2, <1>3, <1>4, <1>5, <1>6 DEF Client
<1>42. CASE Library(t)
  BY <1>42, <1>7, <1>8, <1>9, <1>10, <1>11, <1>12, <1>13, <1>14, <1>15, <1>16,
     <1>17, <1>18, <1>19, <1>20, <1>21, <1>22, <1>23, <1>24, <1>25, <1>26,
     <1>27, <1>28, <1>29, <1>30, <1>31, <1>32, <1>33, <1>34, <1>35, <1>36,
     <1>37, Zenon
  DEF Library
<1>43. CASE Program(t)
  BY <1>43, <1>38, <1>39, <1>40 DEF Program
<1> QED
  BY <1>41, <1>42, <1>43

(* The control facts of a thread depend on its own fields only. *)
LEMMA CtlFrame ==
  ASSUME IInv, NEW t \in Thread, Ctl(t)',
         \A u \in Thread \ {t} :
           /\ pc'[u] = pc[u] /\ sm'[u] = sm[u] /\ ret'[u] = ret[u]
           /\ after'[u] = after[u] /\ st'[u].jmp = st[u].jmp
  PROVE  \A u \in Thread : Ctl(u)'
<1> SUFFICES ASSUME NEW u \in Thread \ {t} PROVE Ctl(u)'
  OBVIOUS
<1>1. Ctl(u)
  BY DEF IInv
<1> QED
  BY <1>1 DEF Ctl

(* Every step keeps the control facts of every thread: only those of the   *)
(* thread that takes it can change.                                        *)
LEMMA NextCtl == IInv /\ Next => \A u \in Thread : Ctl(u)'
<1> SUFFICES ASSUME IInv, NEW t \in Thread, Client(t) \/ Library(t) \/ Program(t)
             PROVE  \A u \in Thread : Ctl(u)'
  BY DEF Next, IInv, Ctl, vars, parser, runtime
<1>1. CASE tcc_new(t)
  <2>1. pc' = pc /\ sm' = sm /\ ret' = ret /\ after' = after /\ pc[t] = "idle"
    BY <1>1 DEF tcc_new, Goto, IInv, TypeOK, parser, runtime
  <2>2. \A u \in Thread : st'[u].jmp = st[u].jmp
    BY <1>1, <2>1, JmpKept
  <2> QED
    BY <1>1, <2>1, <2>2 DEF IInv, TypeOK, Ctl
<1>2. CASE tcc_compile(t)
  BY <1>2
  DEF tcc_compile, CallWait, Goto, Ctl, IInv, TypeOK, Field, Sem, parser,
      runtime
<1>3. CASE tcc_add_file_fails(t)
  BY <1>3
  DEF tcc_add_file_fails, CallWait, LinkError, Goto, Ctl, IInv, TypeOK, Field,
      Sem, parser, runtime
<1>4. CASE tcc_relocate(t)
  BY <1>4 DEF tcc_relocate, Goto, Ctl, IInv, TypeOK, Field, Sem, parser, runtime
<1>5. CASE Call(t)
  BY <1>5, SMTT(60)
  DEF Call, Goto, Ctl, IInv, TypeOK, Field, Sem, parser, runtime
<1>6. CASE tcc_delete(t)
  BY <1>6, SMTT(60)
  DEF tcc_delete, CallWait, Goto, Ctl, IInv, TypeOK, Field, Sem, parser, runtime
<1>7. CASE wait_sem_check(t)
  <2>1. sem[sm[t]].init
    BY DEF IInv, TypeOK, Sems
  <2> QED
    BY <1>7, <2>1 DEF wait_sem_check, Goto, Ctl, IInv, TypeOK, Field
<1>8. CASE wait_sem_init(t)
  BY <1>8
  DEF wait_sem_init, Goto, Ctl, IInv, TypeOK, Field, Sem, parser, runtime
<1>9. CASE wait_sem_flag(t)
  BY <1>9
  DEF wait_sem_flag, Goto, Ctl, IInv, TypeOK, Field, Sem, parser, runtime
<1>10. CASE wait_sem_take(t)
  BY <1>10, SMTT(60)
  DEF wait_sem_take, Goto, Ctl, IInv, TypeOK, Field, Sem, parser, runtime
<1>11. CASE tcc_enter_state(t)
  BY <1>11
  DEF tcc_enter_state, Goto, Ctl, IInv, TypeOK, Field, Sem, parser, runtime
<1>12. CASE tcc_exit_state(t)
  BY <1>12
  DEF tcc_exit_state, Goto, Ctl, IInv, TypeOK, Field, Sem, parser, runtime
<1>13. CASE post_compile_sem(t)
  BY <1>13, SMTT(60)
  DEF post_compile_sem, Goto, Ctl, IInv, TypeOK, Field, Sem, parser, runtime
<1>14. CASE rt_post_sem(t)
  BY <1>14, SMTT(60)
  DEF rt_post_sem, Goto, Ctl, IInv, TypeOK, Field, Sem, parser, runtime
<1>15. CASE compile_begin(t)
  BY <1>15, SMTT(60)
  DEF compile_begin, Goto, Ctl, IInv, TypeOK, Field, Sem, parser, runtime
<1>16. CASE parse_include(t)
  BY <1>16
  DEF parse_include, Parse, Goto, Ctl, IInv, TypeOK, Field, Sem, parser, runtime
<1>17. CASE parse_eof(t)
  BY <1>17
  DEF parse_eof, Included, Goto, Ctl, IInv, TypeOK, Field, Sem, parser, runtime
<1>18. CASE cstr_new_s(t)
  BY <1>18
  DEF cstr_new_s, Parse, Goto, Ctl, IInv, TypeOK, Field, Sem, parser, runtime
<1>19. CASE cstr_free_s(t)
  BY <1>19 DEF cstr_free_s, Goto, Ctl, IInv, TypeOK, Field, Sem, parser, runtime
<1>20. CASE expr_preprocess(t)
  BY <1>20
  DEF expr_preprocess, Parse, Goto, Ctl, IInv, TypeOK, Field, Sem, parser,
      runtime
<1>21. CASE expr_preprocess_end(t)
  BY <1>21
  DEF expr_preprocess_end, Goto, Ctl, IInv, TypeOK, Field, Sem, parser, runtime
<1>22. CASE tccelf_end_file(t)
  BY <1>22, SMTT(60)
  DEF tccelf_end_file, Goto, Ctl, IInv, TypeOK, Field, Sem, parser, runtime
<1>23. CASE \E mode \in {"WARN", "NOABORT", "ERROR"} : error1_parsing(t, mode)
  BY <1>23, SMTT(60)
  DEF error1_parsing, Parse, Goto, Ctl, IInv, TypeOK, Field, Sem, parser,
      runtime
<1>24. CASE compile_finish(t)
  BY <1>24, SMTT(60)
  DEF compile_finish, Goto, Ctl, IInv, TypeOK, Field, Sem, parser, runtime
<1>25. CASE error1_message(t)
  BY <1>25, SMTT(60)
  DEF error1_message, Goto, Ctl, IInv, TypeOK, Field, Sem, parser, runtime
<1>26. CASE reloc_error(t)
  BY <1>26, SMTT(60)
  DEF reloc_error, CallWait, LinkError, Goto, Ctl, IInv, TypeOK, Field, Sem,
      parser, runtime
<1>27. CASE reloc_size(t)
  <2>1. /\ pc[t] = "reloc1" /\ sm' = sm /\ ret' = ret /\ after' = after
        /\ pc' = [pc EXCEPT ![t] = "idle"] \/ pc' = [pc EXCEPT ![t] = "reloc2"]
    BY <1>27 DEF reloc_size, Goto
  <2>2. \A u \in Thread : st'[u].jmp = st[u].jmp
    BY <1>27, <2>1, JmpKept
  <2>3. \A u \in Thread \ {t} :
          /\ pc'[u] = pc[u] /\ sm'[u] = sm[u] /\ ret'[u] = ret[u]
          /\ after'[u] = after[u]
    BY <2>1 DEF IInv, TypeOK
  <2>4. Ctl(t)'
    BY <2>1, <2>2 DEF IInv, TypeOK, Ctl
  <2> QED
    BY <2>2, <2>3, <2>4, CtlFrame
<1>28. CASE reloc_copy(t)
  BY <1>28 DEF reloc_copy, Goto, Ctl, IInv, TypeOK, Field, Sem, parser, runtime
<1>29. CASE reloc_protect(t)
  <2>1. pc[t] = "protect"
    BY <1>29 DEF reloc_protect
  <2>2. \A u \in Thread : st'[u].jmp = st[u].jmp
    BY <1>29, <2>1, JmpKept
  <2>3. CASE /\ Goto(t, "clean")
             /\ UNCHANGED <<sm, ret, after, found, st, sem, parser, runtime, exited>>
    BY <1>29, <2>1, <2>2, <2>3
    DEF reloc_protect, Goto, parser, runtime, IInv, TypeOK, Ctl
  <2>4. CASE LinkError(t, TRUE, "idle")
    BY <1>29, <2>1, <2>2, <2>4, SMTT(60)
    DEF reloc_protect, Goto, parser, runtime, IInv, TypeOK, Ctl, LinkError,
        CallWait
  <2> QED
    BY <1>29, <2>3, <2>4 DEF reloc_protect
<1>30. CASE reloc_cleanup(t)
  BY <1>30, SMTT(60)
  DEF reloc_cleanup, CallWait, Goto, Ctl, IInv, TypeOK, Field, Sem, parser,
      runtime
<1>31. CASE st_link(t)
  BY <1>31 DEF st_link, Goto, Ctl, IInv, TypeOK, Field, Sem, parser, runtime
<1>32. CASE tcc_backtrace(t)
  BY <1>32
  DEF tcc_backtrace, Goto, Ctl, IInv, TypeOK, Field, Sem, parser, runtime
<1>33. CASE rt_exit(t)
  <2>1. /\ pc[t] = "rt_exit" /\ pc' = [pc EXCEPT ![t] = "check"]
        /\ sm' = [sm EXCEPT ![t] = "rt"] /\ ret' = [ret EXCEPT ![t] = "find"]
        /\ after' = after
    BY <1>33 DEF rt_exit, CallWait, Goto
  <2>2. \A u \in Thread : st'[u].jmp = st[u].jmp
    BY <1>33, <2>1, JmpKept
  <2>3. \A u \in Thread \ {t} :
          /\ pc'[u] = pc[u] /\ sm'[u] = sm[u] /\ ret'[u] = ret[u]
          /\ after'[u] = after[u]
    BY <2>1 DEF IInv, TypeOK
  <2>4. Ctl(t)'
    BY <2>1, <2>2 DEF IInv, TypeOK, Ctl
  <2> QED
    BY <2>2, <2>3, <2>4, CtlFrame
<1>34. CASE rt_find_state(t)
  <2>1. /\ pc[t] = "find" /\ pc' = [pc EXCEPT ![t] = "rt_post"]
        /\ ret' = [ret EXCEPT ![t] = "leave"] /\ sm' = sm /\ after' = after
    BY <1>34 DEF rt_find_state, Goto
  <2>2. \A u \in Thread : st'[u].jmp = st[u].jmp
    BY <1>34, <2>1, JmpKept
  <2>3. \A u \in Thread \ {t} :
          /\ pc'[u] = pc[u] /\ sm'[u] = sm[u] /\ ret'[u] = ret[u]
          /\ after'[u] = after[u]
    BY <2>1 DEF IInv, TypeOK
  <2>4. Ctl(t)'
    BY <2>1, <2>2 DEF IInv, TypeOK, Ctl
  <2> QED
    BY <2>2, <2>3, <2>4, CtlFrame
<1>35. CASE rt_exit_leave(t)
  <2>1. /\ pc[t] = "leave" /\ sm' = sm /\ ret' = ret /\ after' = after
        /\ pc' = [pc EXCEPT ![t] = "idle"] \/ pc' = pc
    BY <1>35 DEF rt_exit_leave, Goto
  <2>2. \A u \in Thread : st'[u].jmp = st[u].jmp
    BY <1>35, <2>1, JmpKept
  <2>3. \A u \in Thread \ {t} :
          /\ pc'[u] = pc[u] /\ sm'[u] = sm[u] /\ ret'[u] = ret[u]
          /\ after'[u] = after[u]
    BY <2>1 DEF IInv, TypeOK
  <2>4. Ctl(t)'
    BY <2>1, <2>2 DEF IInv, TypeOK, Ctl
  <2> QED
    BY <2>2, <2>3, <2>4, CtlFrame
<1>36. CASE st_unlink(t)
  BY <1>36 DEF st_unlink, Goto, Ctl, IInv, TypeOK, Field, Sem, parser, runtime
<1>37. CASE tcc_free(t)
  <2>1. /\ pc[t] = "free" /\ pc' = [pc EXCEPT ![t] = "idle"]
        /\ sm' = sm /\ ret' = ret /\ after' = after
    BY <1>37 DEF tcc_free, Goto, IInv, TypeOK, parser, runtime
  <2>2. \A u \in Thread : st'[u].jmp = st[u].jmp
    BY <1>37, <2>1, JmpKept
  <2> QED
    BY <1>37, <2>1, <2>2 DEF IInv, TypeOK, Ctl
<1>38. CASE Return(t)
  BY <1>38 DEF Return, Goto, Ctl, IInv, TypeOK, Field, Sem, parser, runtime
<1>39. CASE Exit(t)
  BY <1>39 DEF Exit, Goto, Ctl, IInv, TypeOK, Field, Sem, parser, runtime
<1>40. CASE Crash(t)
  <2>1. /\ pc[t] = "run" /\ after' = after
        /\ \/ /\ pc' = [pc EXCEPT ![t] = "check"] /\ sm' = [sm EXCEPT ![t] = "rt"]
              /\ ret' = [ret EXCEPT ![t] = "walk"]
           \/ pc' = pc /\ sm' = sm /\ ret' = ret
    BY <1>40 DEF Crash, CallWait, Goto
  <2>2. \A u \in Thread : st'[u].jmp = st[u].jmp
    BY <1>40, <2>1, JmpKept
  <2>3. \A u \in Thread \ {t} :
          /\ pc'[u] = pc[u] /\ sm'[u] = sm[u] /\ ret'[u] = ret[u]
          /\ after'[u] = after[u]
    BY <2>1 DEF IInv, TypeOK
  <2>4. Ctl(t)'
    BY <2>1, <2>2 DEF IInv, TypeOK, Ctl
  <2> QED
    BY <2>2, <2>3, <2>4, CtlFrame
<1>41. CASE Client(t)
  BY <1>41, <1>1, <1>2, <1>3, <1>4, <1>5, <1>6 DEF Client
<1>42. CASE Library(t)
  BY <1>42, <1>7, <1>8, <1>9, <1>10, <1>11, <1>12, <1>13, <1>14, <1>15, <1>16,
     <1>17, <1>18, <1>19, <1>20, <1>21, <1>22, <1>23, <1>24, <1>25, <1>26,
     <1>27, <1>28, <1>29, <1>30, <1>31, <1>32, <1>33, <1>34, <1>35, <1>36,
     <1>37, Zenon
  DEF Library
<1>43. CASE Program(t)
  BY <1>43, <1>38, <1>39, <1>40 DEF Program
<1> QED
  BY <1>41, <1>42, <1>43

(* Every step keeps the semaphores binary and the sections exclusive. *)
LEMMA NextSems == IInv /\ Next => (Sems /\ CompileExclusion /\ RtExclusion)'
<1> SUFFICES ASSUME IInv, NEW t \in Thread, Client(t) \/ Library(t) \/ Program(t)
             PROVE  (Sems /\ CompileExclusion /\ RtExclusion)'
  BY
  DEF Next, IInv, Sems, CompileExclusion, RtExclusion, InCompile, InRt, vars,
      parser, runtime
<1>1. CASE tcc_new(t)
  BY <1>1, SMTT(60)
  DEF tcc_new, Goto, IInv, TypeOK, Ctl, Sem, Sems, InCompile, InRt,
      CompileExclusion, RtExclusion, Field, parser, runtime
<1>2. CASE tcc_compile(t)
  BY <1>2
  DEF tcc_compile, CallWait, Goto, IInv, TypeOK, Ctl, Sem, Sems, InCompile,
      InRt, CompileExclusion, RtExclusion, Field, parser, runtime
<1>3. CASE tcc_add_file_fails(t)
  BY <1>3
  DEF tcc_add_file_fails, CallWait, LinkError, Goto, IInv, TypeOK, Ctl, Sem,
      Sems, InCompile, InRt, CompileExclusion, RtExclusion, Field, parser,
      runtime
<1>4. CASE tcc_relocate(t)
  BY <1>4
  DEF tcc_relocate, Goto, IInv, TypeOK, Ctl, Sem, Sems, InCompile, InRt,
      CompileExclusion, RtExclusion, Field, parser, runtime
<1>5. CASE Call(t)
  BY <1>5, SMTT(60)
  DEF Call, Goto, IInv, TypeOK, Ctl, Sem, Sems, InCompile, InRt,
      CompileExclusion, RtExclusion, Field, parser, runtime
<1>6. CASE tcc_delete(t)
  <2>1. pc[t] = "idle"
    BY <1>6 DEF tcc_delete
  <2>2. \A u \in Thread : st'[u].jmp = st[u].jmp
    BY <1>6, <2>1, JmpKept
  <2>3. PICK l \in {"check", "free"} : pc' = [pc EXCEPT ![t] = l]
    BY <1>6, <2>1 DEF tcc_delete, Goto, CallWait, IInv, TypeOK
  <2>4. sem' = sem
    BY <1>6 DEF tcc_delete, CallWait
  <2>5. \A u \in Thread : (InCompile(u)' <=> InCompile(u)) /\ (InRt(u)' <=> InRt(u))
    BY <2>1, <2>2, <2>3, SMTT(60) DEF InCompile, InRt, IInv, TypeOK
  <2> QED
    BY <2>4, <2>5 DEF IInv, Sems, CompileExclusion, RtExclusion
<1>7. CASE wait_sem_check(t)
  BY <1>7
  DEF wait_sem_check, Goto, IInv, TypeOK, Ctl, Sem, Sems, InCompile, InRt,
      CompileExclusion, RtExclusion, Field, parser, runtime
<1>8. CASE wait_sem_init(t)
  BY <1>8 DEF wait_sem_init, IInv, Ctl
<1>9. CASE wait_sem_flag(t)
  BY <1>9 DEF wait_sem_flag, IInv, Ctl
<1>10. CASE wait_sem_take(t)
  <2>1. /\ pc[t] = "take" /\ st' = st /\ sem[sm[t]].val = 1
        /\ sem' = [sem EXCEPT ![sm[t]].val = 0]
    <3>1. /\ pc[t] = "take" /\ st' = st /\ sem[sm[t]].val > 0
          /\ sem' = [sem EXCEPT ![sm[t]].val = sem[sm[t]].val - 1]
      BY <1>10 DEF wait_sem_take
    <3>2. sm[t] \in Sem /\ sem[sm[t]].val \in {0, 1}
      BY DEF IInv, TypeOK, Sems
    <3>3. sem[sm[t]].val = 1 /\ sem[sm[t]].val - 1 = 0
      BY <3>1, <3>2
    <3> QED
      BY <3>1, <3>3
  <2>2. CASE sm[t] = "compile"
    <3>1. pc' = [pc EXCEPT ![t] = "own"]
      BY <1>10, <2>2 DEF wait_sem_take, Goto
    <3>2. \A u \in Thread : ~InCompile(u)
      BY <2>1, <2>2 DEF IInv, Sems
    <3>3. \A u \in Thread : (InRt(u)' <=> InRt(u)) /\ (InCompile(u)' => u = t)
      BY <2>1, <3>1, <3>2, SMTT(60) DEF InRt, InCompile, IInv, TypeOK
    <3>4. /\ \A s \in Sem : sem'[s].init /\ sem'[s].val \in {0, 1}
          /\ sem'["compile"].val = 0 /\ sem'["rt"].val = sem["rt"].val
      BY <2>1, <2>2 DEF IInv, TypeOK, Sems, Sem
    <3> QED
      BY <3>3, <3>4 DEF IInv, Sems, CompileExclusion, RtExclusion
  <2>3. CASE sm[t] = "rt"
    <3>1. /\ pc' = [pc EXCEPT ![t] = ret[t]]
          /\ ret[t] \in {"link", "walk", "find", "unlink"}
      BY <1>10, <2>1, <2>3 DEF wait_sem_take, Goto, IInv, Ctl
    <3>2. \A u \in Thread : ~InRt(u)
      BY <2>1, <2>3 DEF IInv, Sems
    <3>3. \A u \in Thread : (InCompile(u)' <=> InCompile(u)) /\ (InRt(u)' => u = t)
      BY <2>1, <3>1, <3>2, SMTT(60) DEF InRt, InCompile, IInv, TypeOK
    <3>4. /\ \A s \in Sem : sem'[s].init /\ sem'[s].val \in {0, 1}
          /\ sem'["rt"].val = 0 /\ sem'["compile"].val = sem["compile"].val
      BY <2>1, <2>3 DEF IInv, TypeOK, Sems, Sem
    <3> QED
      BY <3>3, <3>4 DEF IInv, Sems, CompileExclusion, RtExclusion
  <2> QED
    BY <2>2, <2>3 DEF IInv, TypeOK, Sem
<1>11. CASE tcc_enter_state(t)
  <2>1. pc[t] = "own" /\ ret[t] \in {"begin", "error1"}
    BY <1>11 DEF tcc_enter_state, IInv, Ctl
  <2>2. pc' = [pc EXCEPT ![t] = ret[t]] /\ st' = st /\ sem' = sem
    BY <1>11 DEF tcc_enter_state, Goto
  <2>3. \A u \in Thread : (InCompile(u)' <=> InCompile(u)) /\ (InRt(u)' <=> InRt(u))
    BY <2>1, <2>2 DEF InCompile, InRt, IInv, TypeOK
  <2> QED
    BY <2>2, <2>3 DEF IInv, Sems, CompileExclusion, RtExclusion
<1>12. CASE tcc_exit_state(t)
  BY <1>12
  DEF tcc_exit_state, Goto, IInv, TypeOK, Ctl, Sem, Sems, InCompile, InRt,
      CompileExclusion, RtExclusion, Field, parser, runtime
<1>13. CASE post_compile_sem(t)
  <2>1. InCompile(t) /\ sem["compile"].val = 0
    BY <1>13 DEF post_compile_sem, InCompile, IInv, Sems
  <2>2. \A u \in Thread : ~InCompile(u)'
    BY <1>13, <2>1, SMTT(60)
    DEF post_compile_sem, Goto, IInv, TypeOK, Ctl, InCompile, CompileExclusion,
        RtExclusion
  <2>3. \A u \in Thread : InRt(u)' => InRt(u)
    BY <1>13 DEF post_compile_sem, Goto, IInv, TypeOK, Ctl, InRt
  <2>4. /\ sem'["compile"].val = 1
        /\ \A r \in Sem : sem'[r].init = sem[r].init
        /\ \A r \in Sem \ {"compile"} : sem'[r] = sem[r]
    BY <1>13, <2>1 DEF post_compile_sem, IInv, TypeOK, Sem
  <2> QED
    BY <2>2, <2>3, <2>4 DEF IInv, Sem, Sems, CompileExclusion, RtExclusion
<1>14. CASE rt_post_sem(t)
  <2>1. InRt(t) /\ sem["rt"].val = 0
    BY <1>14 DEF rt_post_sem, InRt, IInv, Sems
  <2>2. \A u \in Thread : ~InRt(u)'
    BY <1>14, <2>1
    DEF rt_post_sem, Goto, IInv, TypeOK, Ctl, InRt, CompileExclusion,
        RtExclusion
  <2>3. \A u \in Thread : InCompile(u)' => InCompile(u)
    BY <1>14 DEF rt_post_sem, Goto, IInv, TypeOK, Ctl, InCompile
  <2>4. /\ sem'["rt"].val = 1
        /\ \A r \in Sem : sem'[r].init = sem[r].init
        /\ \A r \in Sem \ {"rt"} : sem'[r] = sem[r]
    BY <1>14, <2>1 DEF rt_post_sem, IInv, TypeOK, Sem
  <2> QED
    BY <2>2, <2>3, <2>4 DEF IInv, Sem, Sems, CompileExclusion, RtExclusion
<1>15. CASE compile_begin(t)
  BY <1>15, SMTT(60)
  DEF compile_begin, Goto, IInv, TypeOK, Ctl, Sem, Sems, InCompile, InRt,
      CompileExclusion, RtExclusion, Field, parser, runtime
<1>16. CASE parse_include(t)
  BY <1>16
  DEF parse_include, Parse, Goto, IInv, TypeOK, Ctl, Sem, Sems, InCompile, InRt,
      CompileExclusion, RtExclusion, Field, parser, runtime
<1>17. CASE parse_eof(t)
  BY <1>17, SMTT(60)
  DEF parse_eof, Included, Goto, IInv, TypeOK, Ctl, Sem, Sems, InCompile, InRt,
      CompileExclusion, RtExclusion, Field, parser, runtime
<1>18. CASE cstr_new_s(t)
  BY <1>18
  DEF cstr_new_s, Parse, Goto, IInv, TypeOK, Ctl, Sem, Sems, InCompile, InRt,
      CompileExclusion, RtExclusion, Field, parser, runtime
<1>19. CASE cstr_free_s(t)
  BY <1>19
  DEF cstr_free_s, Goto, IInv, TypeOK, Ctl, Sem, Sems, InCompile, InRt,
      CompileExclusion, RtExclusion, Field, parser, runtime
<1>20. CASE expr_preprocess(t)
  BY <1>20
  DEF expr_preprocess, Parse, Goto, IInv, TypeOK, Ctl, Sem, Sems, InCompile,
      InRt, CompileExclusion, RtExclusion, Field, parser, runtime
<1>21. CASE expr_preprocess_end(t)
  BY <1>21
  DEF expr_preprocess_end, Goto, IInv, TypeOK, Ctl, Sem, Sems, InCompile, InRt,
      CompileExclusion, RtExclusion, Field, parser, runtime
<1>22. CASE tccelf_end_file(t)
  BY <1>22
  DEF tccelf_end_file, Goto, IInv, TypeOK, Ctl, Sem, Sems, InCompile, InRt,
      CompileExclusion, RtExclusion, Field, parser, runtime
<1>23. CASE \E mode \in {"WARN", "NOABORT", "ERROR"} : error1_parsing(t, mode)
  BY <1>23, SMTT(60)
  DEF error1_parsing, Parse, Goto, IInv, TypeOK, Ctl, Sem, Sems, InCompile,
      InRt, CompileExclusion, RtExclusion, Field, parser, runtime
<1>24. CASE compile_finish(t)
  BY <1>24, SMTT(60)
  DEF compile_finish, Goto, IInv, TypeOK, Ctl, Sem, Sems, InCompile, InRt,
      CompileExclusion, RtExclusion, Field, parser, runtime
<1>25. CASE error1_message(t)
  <2>1. pc[t] = "format"
    BY <1>25 DEF error1_message
  <2>2. st' = st /\ sem' = sem /\ pc' = [pc EXCEPT ![t] = after[t]]
    BY <1>25 DEF error1_message, Goto
  <2>3. \A u \in Thread : (InCompile(u)' <=> InCompile(u)) /\ (InRt(u)' <=> InRt(u))
    BY <2>1, <2>2 DEF InCompile, InRt, IInv, TypeOK, Ctl
  <2> QED
    BY <2>2, <2>3 DEF IInv, Sems, CompileExclusion, RtExclusion
<1>26. CASE reloc_error(t)
  BY <1>26
  DEF reloc_error, CallWait, LinkError, Goto, IInv, TypeOK, Ctl, Sem, Sems,
      InCompile, InRt, CompileExclusion, RtExclusion, Field, parser, runtime
<1>27. CASE reloc_size(t)
  <2>1. pc[t] = "reloc1"
    BY <1>27 DEF reloc_size
  <2>2. \A u \in Thread : st'[u].jmp = st[u].jmp
    BY <1>27, <2>1, JmpKept
  <2>3. PICK l \in {"idle", "reloc2"} : pc' = [pc EXCEPT ![t] = l]
    BY <1>27, <2>1 DEF reloc_size, Goto, IInv, TypeOK
  <2>4. sem' = sem
    BY <1>27 DEF reloc_size
  <2>5. \A u \in Thread : (InCompile(u)' <=> InCompile(u)) /\ (InRt(u)' <=> InRt(u))
    BY <2>1, <2>2, <2>3, SMTT(60) DEF InCompile, InRt, IInv, TypeOK
  <2> QED
    BY <2>4, <2>5 DEF IInv, Sems, CompileExclusion, RtExclusion
<1>28. CASE reloc_copy(t)
  BY <1>28
  DEF reloc_copy, Goto, IInv, TypeOK, Ctl, Sem, Sems, InCompile, InRt,
      CompileExclusion, RtExclusion, Field, parser, runtime
<1>29. CASE reloc_protect(t)
  <2>1. pc[t] = "protect"
    BY <1>29 DEF reloc_protect
  <2>2. \A u \in Thread : st'[u].jmp = st[u].jmp
    BY <1>29, <2>1, JmpKept
  <2>3. CASE /\ Goto(t, "clean")
             /\ UNCHANGED <<sm, ret, after, found, st, sem, parser, runtime, exited>>
    BY <1>29, <2>1, <2>2, <2>3
    DEF reloc_protect, Goto, parser, runtime, IInv, TypeOK, Ctl, Sem, Sems,
        InCompile, InRt, CompileExclusion, RtExclusion
  <2>4. CASE LinkError(t, TRUE, "idle")
    BY <1>29, <2>1, <2>2, <2>4
    DEF reloc_protect, Goto, parser, runtime, IInv, TypeOK, Ctl, Sem, Sems,
        InCompile, InRt, CompileExclusion, RtExclusion, LinkError, CallWait
  <2> QED
    BY <1>29, <2>3, <2>4 DEF reloc_protect
<1>30. CASE reloc_cleanup(t)
  BY <1>30
  DEF reloc_cleanup, CallWait, Goto, IInv, TypeOK, Ctl, Sem, Sems, InCompile,
      InRt, CompileExclusion, RtExclusion, Field, parser, runtime
<1>31. CASE st_link(t)
  BY <1>31, SMTT(60)
  DEF st_link, Goto, IInv, TypeOK, Ctl, Sem, Sems, InCompile, InRt,
      CompileExclusion, RtExclusion, Field, parser, runtime
<1>32. CASE tcc_backtrace(t)
  BY <1>32
  DEF tcc_backtrace, Goto, IInv, TypeOK, Ctl, Sem, Sems, InCompile, InRt,
      CompileExclusion, RtExclusion, Field, parser, runtime
<1>33. CASE rt_exit(t)
  BY <1>33
  DEF rt_exit, CallWait, Goto, IInv, TypeOK, Ctl, Sem, Sems, InCompile, InRt,
      CompileExclusion, RtExclusion, Field, parser, runtime
<1>34. CASE rt_find_state(t)
  BY <1>34
  DEF rt_find_state, Goto, IInv, TypeOK, Ctl, Sem, Sems, InCompile, InRt,
      CompileExclusion, RtExclusion, Field, parser, runtime
<1>35. CASE rt_exit_leave(t)
  <2>1. pc[t] = "leave"
    BY <1>35 DEF rt_exit_leave
  <2>2. \A u \in Thread : st'[u].jmp = st[u].jmp
    BY <1>35, <2>1, JmpKept
  <2>3. CASE pc' = pc
    BY <1>35, <2>1, <2>2, <2>3
    DEF rt_exit_leave, Goto, parser, runtime, IInv, TypeOK, Ctl, Sem, Sems,
        InCompile, InRt, CompileExclusion, RtExclusion
  <2>4. CASE Goto(t, "idle")
    BY <1>35, <2>1, <2>2, <2>4, SMTT(60)
    DEF rt_exit_leave, Goto, parser, runtime, IInv, TypeOK, Ctl, Sem, Sems,
        InCompile, InRt, CompileExclusion, RtExclusion
  <2> QED
    BY <1>35, <2>3, <2>4 DEF rt_exit_leave
<1>36. CASE st_unlink(t)
  BY <1>36
  DEF st_unlink, Goto, IInv, TypeOK, Ctl, Sem, Sems, InCompile, InRt,
      CompileExclusion, RtExclusion, Field, parser, runtime
<1>37. CASE tcc_free(t)
  BY <1>37
  DEF tcc_free, Goto, IInv, TypeOK, Ctl, Sem, Sems, InCompile, InRt,
      CompileExclusion, RtExclusion, Field, parser, runtime
<1>38. CASE Return(t)
  BY <1>38
  DEF Return, Goto, IInv, TypeOK, Ctl, Sem, Sems, InCompile, InRt,
      CompileExclusion, RtExclusion, Field, parser, runtime
<1>39. CASE Exit(t)
  BY <1>39
  DEF Exit, Goto, IInv, TypeOK, Ctl, Sem, Sems, InCompile, InRt,
      CompileExclusion, RtExclusion, Field, parser, runtime
<1>40. CASE Crash(t)
  <2>1. pc[t] = "run"
    BY <1>40 DEF Crash
  <2>2. \A u \in Thread : st'[u].jmp = st[u].jmp
    BY <1>40, <2>1, JmpKept
  <2>3. PICK l \in {"run", "check"} : pc' = [pc EXCEPT ![t] = l]
    BY <1>40, <2>1 DEF Crash, Goto, CallWait, IInv, TypeOK
  <2>4. sem' = sem
    BY <1>40 DEF Crash, CallWait
  <2>5. \A u \in Thread : (InCompile(u)' <=> InCompile(u)) /\ (InRt(u)' <=> InRt(u))
    BY <2>1, <2>2, <2>3 DEF InCompile, InRt, IInv, TypeOK
  <2> QED
    BY <2>4, <2>5 DEF IInv, Sems, CompileExclusion, RtExclusion
<1>41. CASE Client(t)
  BY <1>41, <1>1, <1>2, <1>3, <1>4, <1>5, <1>6 DEF Client
<1>42. CASE Library(t)
  BY <1>42, <1>7, <1>8, <1>9, <1>10, <1>11, <1>12, <1>13, <1>14, <1>15, <1>16,
     <1>17, <1>18, <1>19, <1>20, <1>21, <1>22, <1>23, <1>24, <1>25, <1>26,
     <1>27, <1>28, <1>29, <1>30, <1>31, <1>32, <1>33, <1>34, <1>35, <1>36,
     <1>37, Zenon
  DEF Library
<1>43. CASE Program(t)
  BY <1>43, <1>38, <1>39, <1>40 DEF Program
<1> QED
  BY <1>41, <1>42, <1>43

(* Every step keeps the parser's globals with the thread in the section. *)
LEMMA NextGlobals == IInv /\ Next => Globals'
<1> SUFFICES ASSUME IInv, NEW t \in Thread, Client(t) \/ Library(t) \/ Program(t)
             PROVE  Globals'
  BY DEF Next, IInv, Globals, Busy, Entered, vars, parser, runtime
<1>1. CASE tcc_new(t)
  BY <1>1, SMTT(60)
  DEF tcc_new, Goto, IInv, TypeOK, Ctl, Globals, Busy, Entered, InCompile,
      CompileExclusion, Field, parser, runtime
<1>2. CASE tcc_compile(t)
  BY <1>2, SMTT(60)
  DEF tcc_compile, CallWait, Goto, IInv, TypeOK, Ctl, Globals, Busy, Entered,
      InCompile, CompileExclusion, Field, parser, runtime
<1>3. CASE tcc_add_file_fails(t)
  <2>1. pc[t] = "idle"
    BY <1>3 DEF tcc_add_file_fails
  <2>2. \A u \in Thread : st'[u].jmp = st[u].jmp
    BY <1>3, <2>1, JmpKept
  <2>3. PICK l \in {"check"} : pc' = [pc EXCEPT ![t] = l]
    BY <1>3, <2>1
    DEF tcc_add_file_fails, Goto, LinkError, CallWait, IInv, TypeOK, Ctl
  <2>4. UNCHANGED parser
    BY <1>3 DEF tcc_add_file_fails, LinkError, CallWait, parser
  <2>5. \A u \in Thread : /\ Busy(u)' <=> Busy(u)
                          /\ Entered(u)' <=> Entered(u)
                          /\ Busy(u) => (pc'[u] = "finish" <=> pc[u] = "finish")
    BY <2>1, <2>2, <2>3 DEF Busy, Entered, IInv, TypeOK
  <2> QED
    BY <2>4, <2>5 DEF IInv, Globals, parser
<1>4. CASE tcc_relocate(t)
  BY <1>4, SMTT(60)
  DEF tcc_relocate, Goto, IInv, TypeOK, Ctl, Globals, Busy, Entered, InCompile,
      CompileExclusion, Field, parser, runtime
<1>5. CASE Call(t)
  BY <1>5, SMTT(60)
  DEF Call, Goto, IInv, TypeOK, Ctl, Globals, Busy, Entered, InCompile,
      CompileExclusion, Field, parser, runtime
<1>6. CASE tcc_delete(t)
  <2>1. pc[t] = "idle"
    BY <1>6 DEF tcc_delete
  <2>2. \A u \in Thread : st'[u].jmp = st[u].jmp
    BY <1>6, <2>1, JmpKept
  <2>3. PICK l \in {"check", "free"} : pc' = [pc EXCEPT ![t] = l]
    BY <1>6, <2>1 DEF tcc_delete, Goto, CallWait, IInv, TypeOK, Ctl
  <2>4. UNCHANGED parser
    BY <1>6 DEF tcc_delete, CallWait, parser
  <2>5. \A u \in Thread : /\ Busy(u)' <=> Busy(u)
                          /\ Entered(u)' <=> Entered(u)
                          /\ Busy(u) => (pc'[u] = "finish" <=> pc[u] = "finish")
    BY <2>1, <2>2, <2>3 DEF Busy, Entered, IInv, TypeOK
  <2> QED
    BY <2>4, <2>5 DEF IInv, Globals, parser
<1>7. CASE wait_sem_check(t)
  BY <1>7, SMTT(60)
  DEF wait_sem_check, Goto, IInv, TypeOK, Ctl, Globals, Busy, Entered,
      InCompile, CompileExclusion, Field, parser, runtime
<1>8. CASE wait_sem_init(t)
  BY <1>8
  DEF wait_sem_init, Goto, IInv, TypeOK, Ctl, Globals, Busy, Entered, InCompile,
      CompileExclusion, Field, parser, runtime
<1>9. CASE wait_sem_flag(t)
  BY <1>9
  DEF wait_sem_flag, Goto, IInv, TypeOK, Ctl, Globals, Busy, Entered, InCompile,
      CompileExclusion, Field, parser, runtime
<1>10. CASE wait_sem_take(t)
  <2>1. pc[t] = "take"
    BY <1>10 DEF wait_sem_take
  <2>2. \A u \in Thread : st'[u].jmp = st[u].jmp
    BY <1>10, <2>1, JmpKept
  <2>3. PICK l \in {"own", "link", "walk", "find", "unlink"} : pc' = [pc EXCEPT ![t] = l]
    BY <1>10, <2>1 DEF wait_sem_take, Goto, IInv, TypeOK, Ctl, Sem
  <2>4. UNCHANGED parser
    BY <1>10 DEF wait_sem_take, parser
  <2>5. \A u \in Thread : /\ Busy(u)' <=> Busy(u)
                          /\ Entered(u)' <=> Entered(u)
                          /\ Busy(u) => (pc'[u] = "finish" <=> pc[u] = "finish")
    BY <2>1, <2>2, <2>3 DEF Busy, Entered, IInv, TypeOK
  <2> QED
    BY <2>4, <2>5 DEF IInv, Globals, parser
<1>11. CASE tcc_enter_state(t)
  <2>1. pc[t] = "own" /\ ret[t] \in {"begin", "error1"}
    BY <1>11 DEF tcc_enter_state, IInv, Ctl
  <2>2. \A u \in Thread : Entered(u) \/ Busy(u) => InCompile(u)
    BY DEF Entered, Busy, InCompile
  <2>3. \A u \in Thread : ~Entered(u) /\ ~Busy(u)
    BY <2>1, <2>2 DEF IInv, CompileExclusion, InCompile, Entered, Busy
  <2>4. /\ pc' = [pc EXCEPT ![t] = ret[t]] /\ st' = st /\ tcc_state' = t
        /\ UNCHANGED <<file, pp_expr, macro_stack, nb_stk_data>>
    BY <1>11 DEF tcc_enter_state, Goto
  <2>5. /\ \A u \in Thread : ~Busy(u)'
        /\ \A u \in Thread : Entered(u)' => u = t
        /\ Entered(t)'
    BY <2>1, <2>3, <2>4 DEF Entered, Busy, IInv, TypeOK
  <2> QED
    BY <2>3, <2>4, <2>5 DEF IInv, Globals
<1>12. CASE tcc_exit_state(t)
  BY <1>12, SMTT(60)
  DEF tcc_exit_state, Goto, IInv, TypeOK, Ctl, Globals, Busy, Entered,
      InCompile, CompileExclusion, Field, parser, runtime
<1>13. CASE post_compile_sem(t)
  <2>1. pc[t] = "post"
    BY <1>13 DEF post_compile_sem
  <2>2. \A u \in Thread : st'[u].jmp = st[u].jmp
    BY <1>13, <2>1, JmpKept
  <2>3. PICK l \in {"idle", "format"} : pc' = [pc EXCEPT ![t] = l]
    BY <1>13, <2>1 DEF post_compile_sem, Goto, IInv, TypeOK, Ctl
  <2>4. UNCHANGED parser
    BY <1>13 DEF post_compile_sem, parser
  <2>5. \A u \in Thread : /\ Busy(u)' <=> Busy(u)
                          /\ Entered(u)' <=> Entered(u)
                          /\ Busy(u) => (pc'[u] = "finish" <=> pc[u] = "finish")
    BY <2>1, <2>2, <2>3, SMTT(60) DEF Busy, Entered, Ctl, IInv, TypeOK
  <2> QED
    BY <2>4, <2>5 DEF IInv, Globals, parser
<1>14. CASE rt_post_sem(t)
  <2>1. pc[t] = "rt_post"
    BY <1>14 DEF rt_post_sem
  <2>2. \A u \in Thread : st'[u].jmp = st[u].jmp
    BY <1>14, <2>1, JmpKept
  <2>3. PICK l \in {"idle", "rt_exit", "leave", "free"} : pc' = [pc EXCEPT ![t] = l]
    BY <1>14, <2>1 DEF rt_post_sem, Goto, IInv, TypeOK, Ctl
  <2>4. UNCHANGED parser
    BY <1>14 DEF rt_post_sem, parser
  <2>5. \A u \in Thread : /\ Busy(u)' <=> Busy(u)
                          /\ Entered(u)' <=> Entered(u)
                          /\ Busy(u) => (pc'[u] = "finish" <=> pc[u] = "finish")
    BY <2>1, <2>2, <2>3, SMTT(60) DEF Busy, Entered, IInv, TypeOK
  <2> QED
    BY <2>4, <2>5 DEF IInv, Globals, parser
<1>15. CASE compile_begin(t)
  <2>1. pc[t] = "begin" /\ pc' = [pc EXCEPT ![t] = "parse"]
    BY <1>15 DEF compile_begin, Goto
  <2>2. /\ file' = <<t, t>> \o file /\ tcc_state' = tcc_state
        /\ pp_expr' = FALSE
    BY <1>15 DEF compile_begin
  <2>3. \A u \in Thread : Entered(u) \/ Busy(u) => InCompile(u)
    BY DEF Entered, Busy, InCompile
  <2>4. /\ \A u \in Thread : ~Busy(u)
        /\ \A u \in Thread : Entered(u) => u = t
    BY <2>1, <2>3 DEF IInv, CompileExclusion, InCompile, Busy
  <2>5. \A u \in Thread \ {t} : st'[u] = st[u] /\ pc'[u] = pc[u]
    BY <1>15, <2>1 DEF compile_begin, IInv, TypeOK
  <2>6. \A u \in Thread : Entered(u)' \/ Busy(u)' => u = t
    BY <2>4, <2>5 DEF Entered, Busy
  <2>7. Entered(t)' /\ Busy(t)' /\ tcc_state' = t
    BY <2>1, <2>2 DEF Entered, Busy, IInv, TypeOK, Globals
  <2>8. file = <<>>
    BY <2>4 DEF IInv, Globals
  <2>9. Len(file') > 0 /\ \A i \in 1..Len(file') : file'[i] = t
    BY <2>2, <2>8
  <2> QED
    BY <2>2, <2>6, <2>7, <2>9 DEF Globals
<1>16. CASE parse_include(t)
  BY <1>16, SMTT(60)
  DEF parse_include, Parse, Goto, IInv, TypeOK, Ctl, Globals, Busy, Entered,
      InCompile, CompileExclusion, Field, parser, runtime
<1>17. CASE parse_eof(t)
  <2>1. /\ pc[t] = "parse" /\ pc' = pc /\ st' = st /\ tcc_state' = tcc_state
        /\ UNCHANGED <<pp_expr, macro_stack, nb_stk_data>>
    BY <1>17 DEF parse_eof
  <2>2. Len(file) > 1 /\ file' = Tail(file)
    BY <1>17 DEF parse_eof, Included
  <2>3. Busy(t) /\ \A i \in 1..Len(file) : file[i] = t
    BY <2>1 DEF IInv, Globals, Busy
  <2>4. /\ Len(file') = Len(file) - 1
        /\ \A i \in 1..Len(file') : file'[i] = file[i + 1]
    BY <2>2 DEF IInv, TypeOK
  <2>5. Len(file') > 0 /\ \A i \in 1..Len(file') : file'[i] = t
    BY <2>2, <2>3, <2>4, SMTT(60) DEF IInv, TypeOK
  <2>6. \A u \in Thread : Busy(u) => u = t
    BY <2>1, <2>3 DEF IInv, CompileExclusion, InCompile, Busy
  <2>7. \A u \in Thread : (Busy(u)' <=> Busy(u)) /\ (Entered(u)' <=> Entered(u))
    BY <2>1 DEF Busy, Entered
  <2> QED
    BY <2>1, <2>3, <2>5, <2>6, <2>7 DEF IInv, Globals
<1>18. CASE cstr_new_s(t)
  BY <1>18, SMTT(60)
  DEF cstr_new_s, Parse, Goto, IInv, TypeOK, Ctl, Globals, Busy, Entered,
      InCompile, CompileExclusion, Field, parser, runtime
<1>19. CASE cstr_free_s(t)
  BY <1>19, SMTT(60)
  DEF cstr_free_s, Goto, IInv, TypeOK, Ctl, Globals, Busy, Entered, InCompile,
      CompileExclusion, Field, parser, runtime
<1>20. CASE expr_preprocess(t)
  BY <1>20, SMTT(60)
  DEF expr_preprocess, Parse, Goto, IInv, TypeOK, Ctl, Globals, Busy, Entered,
      InCompile, CompileExclusion, Field, parser, runtime
<1>21. CASE expr_preprocess_end(t)
  BY <1>21, SMTT(60)
  DEF expr_preprocess_end, Goto, IInv, TypeOK, Ctl, Globals, Busy, Entered,
      InCompile, CompileExclusion, Field, parser, runtime
<1>22. CASE tccelf_end_file(t)
  BY <1>22, SMTT(60)
  DEF tccelf_end_file, Goto, IInv, TypeOK, Ctl, Globals, Busy, Entered,
      InCompile, CompileExclusion, Field, parser, runtime
<1>23. CASE \E mode \in {"WARN", "NOABORT", "ERROR"} : error1_parsing(t, mode)
  BY <1>23, SMTT(60)
  DEF error1_parsing, Parse, Goto, IInv, TypeOK, Ctl, Globals, Busy, Entered,
      InCompile, CompileExclusion, Field, parser, runtime
<1>24. CASE compile_finish(t)
  BY <1>24, SMTT(60)
  DEF compile_finish, Goto, IInv, TypeOK, Ctl, Globals, Busy, Entered,
      InCompile, CompileExclusion, Field, parser, runtime
<1>25. CASE error1_message(t)
  <2>1. pc[t] = "format"
    BY <1>25 DEF error1_message
  <2>2. st' = st /\ UNCHANGED parser /\ pc' = [pc EXCEPT ![t] = after[t]]
    BY <1>25 DEF error1_message, Goto, parser
  <2>3. \A u \in Thread : /\ Busy(u)' <=> Busy(u)
                          /\ Entered(u)' <=> Entered(u)
                          /\ Busy(u) /\ pc[u] = "finish" => pc'[u] = "finish"
    BY <2>1, <2>2 DEF Busy, Entered, IInv, TypeOK, Ctl
  <2> QED
    BY <2>2, <2>3 DEF IInv, Globals, parser
<1>26. CASE reloc_error(t)
  <2>1. pc[t] \in {"reloc1", "reloc2"}
    BY <1>26 DEF reloc_error
  <2>2. \A u \in Thread : st'[u].jmp = st[u].jmp
    BY <1>26, <2>1, JmpKept
  <2>3. PICK l \in {"check"} : pc' = [pc EXCEPT ![t] = l]
    BY <1>26, <2>1 DEF reloc_error, Goto, LinkError, CallWait, IInv, TypeOK, Ctl
  <2>4. UNCHANGED parser
    BY <1>26 DEF reloc_error, LinkError, CallWait, parser
  <2>5. \A u \in Thread : /\ Busy(u)' <=> Busy(u)
                          /\ Entered(u)' <=> Entered(u)
                          /\ Busy(u) => (pc'[u] = "finish" <=> pc[u] = "finish")
    BY <2>1, <2>2, <2>3, SMTT(60) DEF Busy, Entered, IInv, TypeOK
  <2> QED
    BY <2>4, <2>5 DEF IInv, Globals, parser
<1>27. CASE reloc_size(t)
  <2>1. pc[t] = "reloc1"
    BY <1>27 DEF reloc_size
  <2>2. \A u \in Thread : st'[u].jmp = st[u].jmp
    BY <1>27, <2>1, JmpKept
  <2>3. PICK l \in {"idle", "reloc2"} : pc' = [pc EXCEPT ![t] = l]
    BY <1>27, <2>1 DEF reloc_size, Goto, IInv, TypeOK, Ctl
  <2>4. UNCHANGED parser
    BY <1>27 DEF reloc_size, parser
  <2>5. \A u \in Thread : /\ Busy(u)' <=> Busy(u)
                          /\ Entered(u)' <=> Entered(u)
                          /\ Busy(u) => (pc'[u] = "finish" <=> pc[u] = "finish")
    BY <2>1, <2>2, <2>3, SMTT(60) DEF Busy, Entered, IInv, TypeOK
  <2> QED
    BY <2>4, <2>5 DEF IInv, Globals, parser
<1>28. CASE reloc_copy(t)
  BY <1>28, SMTT(60)
  DEF reloc_copy, Goto, IInv, TypeOK, Ctl, Globals, Busy, Entered, InCompile,
      CompileExclusion, Field, parser, runtime
<1>29. CASE reloc_protect(t)
  <2>1. pc[t] = "protect"
    BY <1>29 DEF reloc_protect
  <2>2. \A u \in Thread : st'[u].jmp = st[u].jmp
    BY <1>29, <2>1, JmpKept
  <2>3. PICK l \in {"clean", "check"} : pc' = [pc EXCEPT ![t] = l]
    BY <1>29, <2>1
    DEF reloc_protect, Goto, LinkError, CallWait, IInv, TypeOK, Ctl
  <2>4. UNCHANGED parser
    BY <1>29 DEF reloc_protect, LinkError, CallWait, parser
  <2>5. \A u \in Thread : /\ Busy(u)' <=> Busy(u)
                          /\ Entered(u)' <=> Entered(u)
                          /\ Busy(u) => (pc'[u] = "finish" <=> pc[u] = "finish")
    BY <2>1, <2>2, <2>3, SMTT(60) DEF Busy, Entered, IInv, TypeOK
  <2> QED
    BY <2>4, <2>5 DEF IInv, Globals, parser
<1>30. CASE reloc_cleanup(t)
  BY <1>30, SMTT(60)
  DEF reloc_cleanup, CallWait, Goto, IInv, TypeOK, Ctl, Globals, Busy, Entered,
      InCompile, CompileExclusion, Field, parser, runtime
<1>31. CASE st_link(t)
  <2>1. pc[t] = "link"
    BY <1>31 DEF st_link
  <2>2. \A u \in Thread : st'[u].jmp = st[u].jmp
    BY <1>31, <2>1, JmpKept
  <2>3. PICK l \in {"rt_post"} : pc' = [pc EXCEPT ![t] = l]
    BY <1>31, <2>1 DEF st_link, Goto, IInv, TypeOK, Ctl
  <2>4. UNCHANGED parser
    BY <1>31 DEF st_link, parser
  <2>5. \A u \in Thread : /\ Busy(u)' <=> Busy(u)
                          /\ Entered(u)' <=> Entered(u)
                          /\ Busy(u) => (pc'[u] = "finish" <=> pc[u] = "finish")
    BY <2>1, <2>2, <2>3, SMTT(60) DEF Busy, Entered, IInv, TypeOK
  <2> QED
    BY <2>4, <2>5 DEF IInv, Globals, parser
<1>32. CASE tcc_backtrace(t)
  BY <1>32, SMTT(60)
  DEF tcc_backtrace, Goto, IInv, TypeOK, Ctl, Globals, Busy, Entered, InCompile,
      CompileExclusion, Field, parser, runtime
<1>33. CASE rt_exit(t)
  BY <1>33, SMTT(60)
  DEF rt_exit, CallWait, Goto, IInv, TypeOK, Ctl, Globals, Busy, Entered,
      InCompile, CompileExclusion, Field, parser, runtime
<1>34. CASE rt_find_state(t)
  <2>1. pc[t] = "find"
    BY <1>34 DEF rt_find_state
  <2>2. \A u \in Thread : st'[u].jmp = st[u].jmp
    BY <1>34, <2>1, JmpKept
  <2>3. PICK l \in {"rt_post"} : pc' = [pc EXCEPT ![t] = l]
    BY <1>34, <2>1 DEF rt_find_state, Goto
  <2>4. UNCHANGED parser
    BY <1>34 DEF rt_find_state, parser
  <2>5. \A u \in Thread : /\ Busy(u)' <=> Busy(u)
                          /\ Entered(u)' <=> Entered(u)
                          /\ Busy(u) => (pc'[u] = "finish" <=> pc[u] = "finish")
    BY <2>1, <2>2, <2>3 DEF Busy, Entered, IInv, TypeOK
  <2> QED
    BY <2>4, <2>5 DEF IInv, Globals, parser
<1>35. CASE rt_exit_leave(t)
  <2>1. pc[t] = "leave"
    BY <1>35 DEF rt_exit_leave
  <2>2. \A u \in Thread : st'[u].jmp = st[u].jmp
    BY <1>35, <2>1, JmpKept
  <2>3. PICK l \in {"leave", "idle"} : pc' = [pc EXCEPT ![t] = l]
    BY <1>35, <2>1 DEF rt_exit_leave, Goto, IInv, TypeOK, Ctl
  <2>4. UNCHANGED parser
    BY <1>35 DEF rt_exit_leave, parser
  <2>5. \A u \in Thread : /\ Busy(u)' <=> Busy(u)
                          /\ Entered(u)' <=> Entered(u)
                          /\ Busy(u) => (pc'[u] = "finish" <=> pc[u] = "finish")
    BY <2>1, <2>2, <2>3 DEF Busy, Entered, IInv, TypeOK
  <2> QED
    BY <2>4, <2>5 DEF IInv, Globals, parser
<1>36. CASE st_unlink(t)
  BY <1>36, SMTT(60)
  DEF st_unlink, Goto, IInv, TypeOK, Ctl, Globals, Busy, Entered, InCompile,
      CompileExclusion, Field, parser, runtime
<1>37. CASE tcc_free(t)
  <2>1. pc[t] = "free"
    BY <1>37 DEF tcc_free
  <2>2. \A u \in Thread : st'[u].jmp = st[u].jmp
    BY <1>37, <2>1, JmpKept
  <2>3. PICK l \in {"idle"} : pc' = [pc EXCEPT ![t] = l]
    BY <1>37, <2>1 DEF tcc_free, Goto, IInv, TypeOK, Ctl
  <2>4. UNCHANGED parser
    BY <1>37 DEF tcc_free, parser
  <2>5. \A u \in Thread : /\ Busy(u)' <=> Busy(u)
                          /\ Entered(u)' <=> Entered(u)
                          /\ Busy(u) => (pc'[u] = "finish" <=> pc[u] = "finish")
    BY <2>1, <2>2, <2>3, SMTT(60) DEF Busy, Entered, IInv, TypeOK
  <2> QED
    BY <2>4, <2>5 DEF IInv, Globals, parser
<1>38. CASE Return(t)
  BY <1>38, SMTT(60)
  DEF Return, Goto, IInv, TypeOK, Ctl, Globals, Busy, Entered, InCompile,
      CompileExclusion, Field, parser, runtime
<1>39. CASE Exit(t)
  BY <1>39, SMTT(60)
  DEF Exit, Goto, IInv, TypeOK, Ctl, Globals, Busy, Entered, InCompile,
      CompileExclusion, Field, parser, runtime
<1>40. CASE Crash(t)
  <2>1. pc[t] = "run"
    BY <1>40 DEF Crash
  <2>2. \A u \in Thread : st'[u].jmp = st[u].jmp
    BY <1>40, <2>1, JmpKept
  <2>3. PICK l \in {"run", "check"} : pc' = [pc EXCEPT ![t] = l]
    BY <1>40, <2>1 DEF Crash, Goto, CallWait, IInv, TypeOK, Ctl
  <2>4. UNCHANGED parser
    BY <1>40 DEF Crash, CallWait, parser
  <2>5. \A u \in Thread : /\ Busy(u)' <=> Busy(u)
                          /\ Entered(u)' <=> Entered(u)
                          /\ Busy(u) => (pc'[u] = "finish" <=> pc[u] = "finish")
    BY <2>1, <2>2, <2>3 DEF Busy, Entered, IInv, TypeOK
  <2> QED
    BY <2>4, <2>5 DEF IInv, Globals, parser
<1>41. CASE Client(t)
  BY <1>41, <1>1, <1>2, <1>3, <1>4, <1>5, <1>6 DEF Client
<1>42. CASE Library(t)
  BY <1>42, <1>7, <1>8, <1>9, <1>10, <1>11, <1>12, <1>13, <1>14, <1>15, <1>16,
     <1>17, <1>18, <1>19, <1>20, <1>21, <1>22, <1>23, <1>24, <1>25, <1>26,
     <1>27, <1>28, <1>29, <1>30, <1>31, <1>32, <1>33, <1>34, <1>35, <1>36,
     <1>37, Zenon
  DEF Library
<1>43. CASE Program(t)
  BY <1>43, <1>38, <1>39, <1>40 DEF Program
<1> QED
  BY <1>41, <1>42, <1>43

-----------------------------------------------------------------------------
(* The initial state satisfies the invariant when both semaphores have     *)
(* been initialized.                                                       *)
LEMMA InitIInv == Cold = {} /\ Init => IInv
<1> SUFFICES ASSUME Cold = {}, Init PROVE IInv
  OBVIOUS
<1> USE NullAssumption, TokensAssumption
<1>1. TypeOK
  <2>1. st \in [Thread -> Field]
    BY DEF Init, Freed, Field
  <2>2. sem \in [Sem -> [init : BOOLEAN, val : Nat]]
    BY DEF Init, Sem
  <2>3. /\ pc \in [Thread -> Label] /\ sm \in [Thread -> Sem]
        /\ ret \in [Thread -> Label] /\ after \in [Thread -> Label]
    BY DEF Init, Sem, Label
  <2>4. fuel \in [Thread -> 0..Tokens] /\ found \in [Thread -> Thread \union {NULL}]
    BY DEF Init
  <2>5. file \in Seq(Thread) /\ g_s1 \in Seq(Thread) /\ g_rc \in Seq(Thread)
    BY DEF Init
  <2>6. pp_expr \in BOOLEAN /\ signal_set \in BOOLEAN /\ exited \in BOOLEAN
    BY DEF Init
  <2>7. /\ tcc_state \in Thread \union {NULL}
        /\ macro_stack \in Nat /\ nb_stk_data \in Nat
    BY DEF Init
  <2> QED
    BY <2>1, <2>2, <2>3, <2>4, <2>5, <2>6, <2>7, SMTT(60) DEF TypeOK
<1>2. \A t \in Thread : Ctl(t)
  BY DEF Init, Ctl, Freed
<1>3. \A t \in Thread : ~InCompile(t) /\ ~InRt(t) /\ ~Busy(t) /\ ~Entered(t)
  BY DEF Init, InCompile, InRt, Busy, Entered
<1>4. Sems /\ CompileExclusion /\ RtExclusion
  BY <1>3 DEF Init, Sems, CompileExclusion, RtExclusion, Sem
<1>5. Globals
  BY <1>3 DEF Init, Globals
<1> QED
  BY <1>1, <1>2, <1>4, <1>5 DEF IInv

(* Every step keeps it. *)
LEMMA NextIInv == IInv /\ [Next]_vars => IInv'
<1> SUFFICES ASSUME IInv, [Next]_vars PROVE IInv'
  OBVIOUS
<1>1. CASE Next
  BY <1>1, NextTypeOK, NextCtl, NextSems, NextGlobals DEF IInv
<1>2. CASE UNCHANGED vars
  BY <1>2, SMTT(60)
  DEF vars, parser, runtime, IInv, TypeOK, Ctl, Sems, Globals, Busy, Entered,
     CompileExclusion, RtExclusion, InCompile, InRt
<1> QED
  BY <1>1, <1>2

LEMMA SpecIInv == Cold = {} /\ Spec => []IInv
  BY InitIInv, NextIInv, PTL DEF Spec

(* For any number of threads, with initialized semaphores: every variable  *)
(* keeps its type, whatever the threads do with libtcc.                    *)
THEOREM TypeCorrect == Cold = {} /\ Spec => []TypeOK
<1>1. IInv => TypeOK
  BY DEF IInv
<1> QED
  BY <1>1, SpecIInv, PTL

(* For any number of threads, with initialized semaphores: no two of them  *)
(* are in the section of tcc_compile_sem, in a compilation or between      *)
(* TCC_SET_STATE and error1(); nor in that of rt_sem.                      *)
THEOREM Exclusion == Cold = {} /\ Spec => []MutualExclusion
<1>1. IInv => MutualExclusion
  BY DEF IInv, MutualExclusion
<1> QED
  BY <1>1, SpecIInv, PTL

(* For any number of threads, with initialized semaphores: a thread that   *)
(* parses or reports an error finds its own state in tcc_state, and only   *)
(* its own files open.                                                     *)
THEOREM GlobalsOwned == Cold = {} /\ Spec => []OwnGlobals
<1>1. IInv => OwnGlobals
  BY DEF IInv, Globals, Busy, Entered, OwnGlobals
<1> QED
  BY <1>1, SpecIInv, PTL

(* For any number of threads, with initialized semaphores: whichever way a *)
(* compilation ends, the next one starts with clean globals.               *)
THEOREM HandoverClean == Cold = {} /\ Spec => []CleanHandover
<1>1. IInv => CleanHandover
  BY DEF IInv, Globals, Busy, Entered, InCompile, CleanHandover
<1> QED
  BY <1>1, SpecIInv, PTL

-----------------------------------------------------------------------------
(* The lists: g_s1 and g_rc hold the right states, rt_exit() finds the     *)
(* state that exits, and, when no client compiles again after a failed     *)
(* compilation, the symbol hash is there when tcc_relocate() rebuilds it.  *)

(* Two things are said of a list. *)
Holds(list, e) == \E i \in 1..Len(list) : list[i] = e
Once(list) == \A i, j \in 1..Len(list) : list[i] = list[j] => i = j

(* The thread waits for a semaphore and then goes on at one of the labels; *)
(* it is in a call of error1() by the linker.                              *)
WaitsFor(t, labels) == pc[t] \in {"check", "take", "own"} /\ ret[t] \in labels
Reporting(t) ==
  \/ WaitsFor(t, {"error1"}) \/ pc[t] = "error1"
  \/ pc[t] = "post" /\ ret[t] = "format"
  \/ pc[t] = "format"

(* Where the thread is in tcc_relocate(), in the code or in rt_exit(), in  *)
(* the last part of tcc_delete().                                          *)
Sized(t) ==
  \/ pc[t] \in {"reloc2", "protect", "clean", "link"} \/ WaitsFor(t, {"link"})
  \/ Reporting(t) /\ after[t] = "reloc2"
Relocating(t) == Sized(t) \/ pc[t] = "reloc1" \/ (Reporting(t) /\ after[t] = "reloc1")
Running(t) ==
  \/ pc[t] \in {"run", "walk", "rt_exit", "find", "leave"} \/ WaitsFor(t, {"walk", "find"})
  \/ pc[t] = "rt_post" /\ ret[t] \in {"rt_exit", "leave"}
Freeing(t) == pc[t] = "free" \/ (pc[t] = "rt_post" /\ ret[t] = "free")

(* The state of a thread, whether it is on the list, and what the thread   *)
(* does with it.                                                           *)
Owned(t) ==
  /\ pc[t] # "idle" => st[t].alive
  /\ Linked(t) => st[t].alive /\ st[t].run_ptr
  /\ Running(t) => Linked(t)
  /\ Relocating(t) \/ Freeing(t) => ~Linked(t)
  /\ Sized(t) => st[t].run_ptr
  /\ found[t] \in {NULL, t}

Lists ==
  /\ Once(g_s1) /\ Once(g_rc)
  /\ \A e \in Thread : Holds(g_rc, e) => Holds(g_s1, e) /\ e \in BtThread

LInv == IInv /\ Lists /\ \A t \in Thread : Owned(t)

(* Without an error tcc_compile() gives the hash back.                     *)
Parsing(t) == pc[t] = "parse" \/ (pc[t] = "format" /\ after[t] = "parse")
Hashed(t) ==
  /\ Parsing(t) => st[t].saved
  /\ WaitsFor(t, {"begin"}) \/ pc[t] \in {"begin", "protect", "clean"} => ~st[t].errs
  /\ st[t].alive /\ ~st[t].errs /\ ~Parsing(t) => st[t].hash

HInv == LInv /\ \A t \in Thread : Hashed(t)

-----------------------------------------------------------------------------
(* What linking and unlinking do to a list. *)

(* The length and the elements of two lists put together. *)
LEMMA Concatenation ==
  ASSUME NEW a \in Seq(Thread), NEW b \in Seq(Thread)
  PROVE  /\ Len(a \o b) = Len(a) + Len(b)
         /\ \A i \in 1..Len(a \o b) : (a \o b)[i] = IF i <= Len(a) THEN a[i] ELSE b[i - Len(a)]
  OBVIOUS

(* A list with a new head holds that and what it held, once. *)
LEMMA LinkHolds ==
  ASSUME NEW list \in Seq(Thread), NEW t \in Thread
  PROVE  /\ \A e \in Thread : Holds(<<t>> \o list, e) <=> e = t \/ Holds(list, e)
         /\ Once(list) /\ ~Holds(list, t) => Once(<<t>> \o list)
<1> DEFINE new == <<t>> \o list
<1>1. Len(new) = Len(list) + 1 /\ Len(list) \in Nat
  OBVIOUS
<1>2. new[1] = t /\ \A i \in 1..Len(list) : new[i + 1] = list[i]
  OBVIOUS
<1>3. \A i \in 1..Len(new) : i = 1 \/ (i - 1 \in 1..Len(list) /\ new[i] = list[i - 1])
  BY <1>1, <1>2
<1>4. \A i \in 1..Len(list) : i + 1 \in 1..Len(new)
  BY <1>1
<1>5. 1 \in 1..Len(new)
  BY <1>1
<1> HIDE DEF new
<1>6. \A e \in Thread : Holds(new, e) <=> e = t \/ Holds(list, e)
  <2> SUFFICES ASSUME NEW e \in Thread PROVE Holds(new, e) <=> e = t \/ Holds(list, e)
    OBVIOUS
  <2>1. Holds(new, e) => e = t \/ Holds(list, e)
    BY <1>2, <1>3 DEF Holds
  <2>2. e = t => Holds(new, e)
    BY <1>2, <1>5 DEF Holds
  <2>3. ASSUME NEW i \in 1..Len(list), list[i] = e PROVE Holds(new, e)
    <3>1. i + 1 \in 1..Len(new) /\ new[i + 1] = e
      BY <1>2, <1>4, <2>3
    <3> QED
      BY <3>1 DEF Holds
  <2> QED
    BY <2>1, <2>2, <2>3 DEF Holds
<1>7. ASSUME Once(list), ~Holds(list, t) PROVE Once(new)
  <2> SUFFICES ASSUME NEW i \in 1..Len(new), NEW j \in 1..Len(new), new[i] = new[j]
               PROVE  i = j
    BY DEF Once
  <2>1. CASE i = 1 /\ j = 1
    BY <2>1
  <2>2. CASE i = 1 /\ j # 1
    BY <1>2, <1>3, <1>7, <2>2 DEF Holds
  <2>3. CASE i # 1 /\ j = 1
    BY <1>2, <1>3, <1>7, <2>3 DEF Holds
  <2>4. CASE i # 1 /\ j # 1
    <3>1. i - 1 = j - 1
      BY <1>3, <1>7, <2>4 DEF Once
    <3> QED
      BY <1>1, <3>1
  <2> QED
    BY <2>1, <2>2, <2>3, <2>4
<1> QED
  BY <1>6, <1>7 DEF new

(* ptr_unlink() removes the one entry, and nothing else. *)
LEMMA UnlinkHolds ==
  ASSUME NEW list \in Seq(Thread), NEW t \in Thread, Once(list)
  PROVE  /\ \A e \in Thread : Holds(ptr_unlink(list, t), e) <=> e # t /\ Holds(list, e)
         /\ Once(ptr_unlink(list, t))
<1>1. CASE Holds(list, t)
  <2> DEFINE k == CHOOSE i \in 1..Len(list) : list[i] = t
             new == SubSeq(list, 1, k - 1) \o SubSeq(list, k + 1, Len(list))
  <2>1. k \in 1..Len(list) /\ list[k] = t
    BY <1>1 DEF Holds
  <2>2. ptr_unlink(list, t) = new
    BY <1>1 DEF ptr_unlink, Holds
  <2> HIDE DEF k
  <2> DEFINE a == SubSeq(list, 1, k - 1)
             b == SubSeq(list, k + 1, Len(list))
  <2>3. a \in Seq(Thread) /\ Len(a) = k - 1 /\ \A i \in 1..k - 1 : a[i] = list[i]
    BY <2>1
  <2>4. /\ b \in Seq(Thread) /\ Len(b) = Len(list) - k
        /\ \A i \in 1..Len(list) - k : b[i] = list[k + i]
    BY <2>1
  <2>a. new = a \o b
    OBVIOUS
  <2> HIDE DEF new, a, b
  <2>b. /\ Len(new) = Len(a) + Len(b)
        /\ \A i \in 1..Len(new) : new[i] = IF i <= Len(a) THEN a[i] ELSE b[i - Len(a)]
    BY <2>3, <2>4, <2>a, Concatenation
  <2>5. Len(new) = Len(list) - 1
    BY <2>1, <2>3, <2>4, <2>b
  <2>6. \A i \in 1..Len(new) : new[i] = IF i < k THEN list[i] ELSE list[i + 1]
    <3> SUFFICES ASSUME NEW i \in 1..Len(new)
                 PROVE  new[i] = IF i < k THEN list[i] ELSE list[i + 1]
      OBVIOUS
    <3>1. CASE i < k
      BY <2>1, <2>3, <2>b, <3>1
    <3>2. CASE i >= k
      <4>1. i - (k - 1) \in 1..Len(list) - k /\ k + (i - (k - 1)) = i + 1
        BY <2>1, <2>5, <3>2
      <4>2. new[i] = b[i - (k - 1)]
        BY <2>1, <2>3, <2>b, <3>2
      <4> DEFINE j == i - (k - 1)
      <4>3. j \in 1..Len(list) - k /\ k + j = i + 1 /\ new[i] = b[j]
        BY <4>1, <4>2
      <4> HIDE DEF j
      <4>4. b[j] = list[k + j]
        BY <2>4, <4>3
      <4>5. ~(i < k)
        BY <2>1, <3>2
      <4> QED
        BY <4>3, <4>4, <4>5
    <3> QED
      BY <2>1, <3>1, <3>2
  <2> DEFINE old(i) == IF i < k THEN i ELSE i + 1
  <2>7. \A i \in 1..Len(new) : old(i) \in 1..Len(list) /\ old(i) # k /\ new[i] = list[old(i)]
    BY <2>1, <2>5, <2>6
  <2>8. \A i \in 1..Len(list) : i # k => \E j \in 1..Len(new) : new[j] = list[i]
    <3> SUFFICES ASSUME NEW i \in 1..Len(list), i # k PROVE \E j \in 1..Len(new) : new[j] = list[i]
      OBVIOUS
    <3>1. CASE i < k
      BY <2>1, <2>5, <2>6, <3>1
    <3>2. CASE i > k
      <4>1. i - 1 \in 1..Len(new) /\ ~(i - 1 < k) /\ (i - 1) + 1 = i
        BY <2>1, <2>5, <3>2
      <4> QED
        BY <2>6, <4>1
    <3> QED
      BY <2>1, <3>1, <3>2
  <2>9. \A e \in Thread : Holds(new, e) <=> e # t /\ Holds(list, e)
    <3> SUFFICES ASSUME NEW e \in Thread PROVE Holds(new, e) <=> e # t /\ Holds(list, e)
      OBVIOUS
    <3>1. ASSUME Holds(new, e) PROVE e # t /\ Holds(list, e)
      <4>1. PICK i \in 1..Len(new) : new[i] = e
        BY <3>1 DEF Holds
      <4> QED
        BY <2>1, <2>7, <4>1 DEF Holds, Once
    <3>2. ASSUME e # t, Holds(list, e) PROVE Holds(new, e)
      BY <2>1, <2>8, <3>2 DEF Holds
    <3> QED
      BY <3>1, <3>2
  <2>10. Once(new)
    <3> SUFFICES ASSUME NEW i \in 1..Len(new), NEW j \in 1..Len(new), new[i] = new[j]
                 PROVE  i = j
      BY DEF Once
    <3>1. old(i) = old(j)
      BY <2>7 DEF Once
    <3> QED
      BY <2>1, <2>5, <3>1
  <2> QED
    BY <2>2, <2>9, <2>10
<1>2. CASE ~Holds(list, t)
  <2>1. ptr_unlink(list, t) = list
    BY <1>2 DEF ptr_unlink, Holds
  <2> QED
    BY <1>2, <2>1
<1> QED
  BY <1>1, <1>2

-----------------------------------------------------------------------------
(* A step changes the fields of the thread that takes it only. *)
LEMMA OthersKept ==
  ASSUME IInv, NEW t \in Thread, Client(t) \/ Library(t) \/ Program(t),
         NEW u \in Thread \ {t}
  PROVE  /\ pc'[u] = pc[u] /\ ret'[u] = ret[u] /\ after'[u] = after[u]
         /\ found'[u] = found[u] /\ st'[u] = st[u]
<1> USE DEF Goto, CallWait
<1>a. /\ st \in [Thread -> Field] /\ DOMAIN pc = Thread /\ DOMAIN ret = Thread
      /\ DOMAIN after = Thread /\ DOMAIN found = Thread
  BY DEF IInv, TypeOK
<1>1. CASE Client(t)
  <2>1. ASSUME NEW err \in BOOLEAN, NEW l, LinkError(t, err, l)
        PROVE  /\ pc'[u] = pc[u] /\ ret'[u] = ret[u] /\ after'[u] = after[u]
               /\ found'[u] = found[u] /\ st'[u] = st[u]
    BY <1>a, <2>1 DEF LinkError
  <2>2. CASE tcc_new(t) \/ tcc_compile(t) \/ tcc_relocate(t)
    BY <1>a, <2>2 DEF tcc_new, tcc_compile, tcc_relocate
  <2>3. CASE tcc_add_file_fails(t)
    BY <2>1, <2>3 DEF tcc_add_file_fails
  <2>4. CASE Call(t) \/ tcc_delete(t)
    BY <1>a, <2>4 DEF Call, tcc_delete
  <2> QED
    BY <1>1, <2>2, <2>3, <2>4 DEF Client
<1>2. CASE Program(t)
  BY <1>a, <1>2 DEF Program, Return, Exit, Crash
<1>3. CASE Library(t)
  <2>1. ASSUME NEW err \in BOOLEAN, NEW l, LinkError(t, err, l)
        PROVE  /\ pc'[u] = pc[u] /\ ret'[u] = ret[u] /\ after'[u] = after[u]
               /\ found'[u] = found[u] /\ st'[u] = st[u]
    BY <1>a, <2>1 DEF LinkError
  <2>2. CASE \/ wait_sem_check(t) \/ wait_sem_init(t) \/ wait_sem_flag(t)
             \/ wait_sem_take(t) \/ tcc_enter_state(t) \/ tcc_exit_state(t)
             \/ post_compile_sem(t) \/ rt_post_sem(t) \/ error1_message(t)
    BY <1>a, <2>2 DEF wait_sem_check, wait_sem_init, wait_sem_flag, wait_sem_take,
       tcc_enter_state, tcc_exit_state, post_compile_sem, rt_post_sem, error1_message
  <2>3. CASE \/ parse_include(t) \/ parse_eof(t) \/ cstr_new_s(t) \/ cstr_free_s(t)
             \/ expr_preprocess(t) \/ expr_preprocess_end(t)
    BY <2>3 DEF parse_include, parse_eof, cstr_new_s, cstr_free_s,
       expr_preprocess, expr_preprocess_end
  <2>4. CASE \/ compile_begin(t) \/ tccelf_end_file(t) \/ compile_finish(t)
             \/ \E mode \in {"WARN", "NOABORT", "ERROR"} : error1_parsing(t, mode)
    BY <1>a, <2>4 DEF compile_begin, tccelf_end_file, compile_finish, error1_parsing
  <2>5. CASE reloc_error(t) \/ reloc_protect(t)
    <3>1. CASE \E err \in BOOLEAN, l \in Label : LinkError(t, err, l)
      BY <2>1, <3>1
    <3>2. CASE Goto(t, "clean") /\ UNCHANGED <<sm, ret, after, found, st>>
      BY <1>a, <3>2
    <3>3. pc[t] \in Label /\ TRUE \in BOOLEAN /\ "idle" \in Label
      BY DEF IInv, TypeOK, Label
    <3> QED
      BY <2>5, <3>1, <3>2, <3>3 DEF reloc_error, reloc_protect
  <2>6. CASE \/ reloc_size(t) \/ reloc_copy(t) \/ reloc_cleanup(t) \/ st_link(t)
             \/ tcc_backtrace(t) \/ rt_exit(t) \/ rt_find_state(t) \/ rt_exit_leave(t)
             \/ st_unlink(t) \/ tcc_free(t)
    BY <1>a, <2>6 DEF reloc_size, reloc_copy, reloc_cleanup, st_link, tcc_backtrace,
       rt_exit, rt_find_state, rt_exit_leave, st_unlink, tcc_free
  <2> QED
    BY <1>3, <2>2, <2>3, <2>4, <2>5, <2>6, Zenon DEF Library
<1> QED
  BY <1>1, <1>2, <1>3

(* Only st_link() and st_unlink() change the lists. *)
LEMMA ListsChange ==
  ASSUME NEW t \in Thread, Client(t) \/ Library(t) \/ Program(t)
  PROVE  st_link(t) \/ st_unlink(t) \/ UNCHANGED <<g_s1, g_rc>>
<1> USE DEF runtime
<1>1. CASE Client(t)
  BY <1>1 DEF Client, tcc_new, tcc_compile, tcc_add_file_fails, LinkError, tcc_relocate,
     Call, tcc_delete
<1>2. CASE Program(t)
  BY <1>2 DEF Program, Return, Exit, Crash
<1>3. CASE Library(t)
  <2>1. CASE \/ wait_sem_check(t) \/ wait_sem_init(t) \/ wait_sem_flag(t)
             \/ wait_sem_take(t) \/ tcc_enter_state(t) \/ tcc_exit_state(t)
             \/ post_compile_sem(t) \/ rt_post_sem(t) \/ error1_message(t)
    BY <2>1 DEF wait_sem_check, wait_sem_init, wait_sem_flag, wait_sem_take,
       tcc_enter_state, tcc_exit_state, post_compile_sem, rt_post_sem, error1_message
  <2>2. CASE \/ compile_begin(t) \/ parse_include(t) \/ parse_eof(t) \/ cstr_new_s(t)
             \/ cstr_free_s(t) \/ expr_preprocess(t) \/ expr_preprocess_end(t)
             \/ tccelf_end_file(t) \/ compile_finish(t)
             \/ \E mode \in {"WARN", "NOABORT", "ERROR"} : error1_parsing(t, mode)
    BY <2>2 DEF compile_begin, parse_include, parse_eof, cstr_new_s, cstr_free_s,
       expr_preprocess, expr_preprocess_end, tccelf_end_file, compile_finish,
       error1_parsing
  <2>3. CASE \/ reloc_error(t) \/ reloc_size(t) \/ reloc_copy(t) \/ reloc_protect(t)
             \/ reloc_cleanup(t) \/ tcc_backtrace(t) \/ rt_exit(t) \/ rt_find_state(t)
             \/ rt_exit_leave(t) \/ tcc_free(t)
    BY <2>3 DEF reloc_error, reloc_size, reloc_copy, reloc_protect, reloc_cleanup,
       tcc_backtrace, rt_exit, rt_find_state, rt_exit_leave, tcc_free, LinkError
  <2> QED
    BY <1>3, <2>1, <2>2, <2>3, Zenon DEF Library
<1> QED
  BY <1>1, <1>2, <1>3

(* The lists stay right, and a step puts no other thread's state on them,  *)
(* nor takes one off.                                                      *)
LEMMA NextLists ==
  ASSUME IInv, Lists, NEW t \in Thread, Client(t) \/ Library(t) \/ Program(t), Owned(t)
  PROVE  /\ Lists'
         /\ \A u \in Thread \ {t} : Linked(u)' <=> Linked(u)
         /\ st_link(t) => Linked(t)'
         /\ st_unlink(t) => ~Linked(t)'
         /\ ~st_link(t) /\ ~st_unlink(t) => UNCHANGED <<g_s1, g_rc>>
<1>a. g_s1 \in Seq(Thread) /\ g_rc \in Seq(Thread)
  BY DEF IInv, TypeOK
<1>b. \A u : Linked(u) <=> Holds(g_s1, u)
  BY DEF Linked, Holds
<1>c. \A u : Linked(u)' <=> Holds(g_s1', u)
  BY DEF Linked, Holds
<1>1. CASE st_link(t)
  <2>1. pc[t] = "link" /\ g_s1' = <<t>> \o g_s1
        /\ g_rc' = IF t \in BtThread THEN <<t>> \o g_rc ELSE g_rc
    BY <1>1 DEF st_link
  <2>2. ~Holds(g_s1, t) /\ ~Holds(g_rc, t)
    BY <1>b, <2>1 DEF Owned, Relocating, Sized, Lists
  <2>3. /\ \A e \in Thread : Holds(g_s1', e) <=> e = t \/ Holds(g_s1, e)
        /\ Once(g_s1')
    BY <1>a, <2>1, <2>2, LinkHolds DEF Lists
  <2>4. /\ \A e \in Thread : Holds(g_rc', e) <=> (e = t /\ t \in BtThread) \/ Holds(g_rc, e)
        /\ Once(g_rc')
    BY <1>a, <2>1, <2>2, LinkHolds DEF Lists
  <2>5. Lists'
    BY <2>3, <2>4 DEF Lists
  <2>6. ~st_unlink(t)
    BY <2>1 DEF st_unlink
  <2> QED
    BY <1>1, <1>b, <1>c, <2>3, <2>5, <2>6
<1>2. CASE st_unlink(t)
  <2>1. pc[t] = "unlink" /\ g_s1' = ptr_unlink(g_s1, t) /\ g_rc' = ptr_unlink(g_rc, t)
    BY <1>2 DEF st_unlink
  <2>2. /\ \A e \in Thread : Holds(g_s1', e) <=> e # t /\ Holds(g_s1, e)
        /\ Once(g_s1')
    BY <1>a, <2>1, UnlinkHolds DEF Lists
  <2>3. /\ \A e \in Thread : Holds(g_rc', e) <=> e # t /\ Holds(g_rc, e)
        /\ Once(g_rc')
    BY <1>a, <2>1, UnlinkHolds DEF Lists
  <2>4. Lists'
    BY <2>2, <2>3 DEF Lists
  <2>5. ~st_link(t)
    BY <2>1 DEF st_link
  <2> QED
    BY <1>2, <1>b, <1>c, <2>2, <2>4, <2>5
<1>3. CASE UNCHANGED <<g_s1, g_rc>> /\ ~st_link(t) /\ ~st_unlink(t)
  BY <1>3, <1>b, <1>c DEF Lists
<1> QED
  BY <1>1, <1>2, <1>3, ListsChange

-----------------------------------------------------------------------------
(* What is said of a thread depends on its own fields and on whether its   *)
(* state is on the list.                                                   *)
LEMMA OwnedFrame ==
  ASSUME NEW u \in Thread, Owned(u), Linked(u)' <=> Linked(u),
         pc'[u] = pc[u], ret'[u] = ret[u], after'[u] = after[u],
         found'[u] = found[u], st'[u] = st[u]
  PROVE  Owned(u)'
BY DEF Owned, Running, Freeing, Relocating, Sized, Reporting, WaitsFor

(* Every step keeps it for the thread that takes it. *)
LEMMA NextOwned ==
  ASSUME IInv, Lists, NEW t \in Thread, Client(t) \/ Library(t) \/ Program(t), Owned(t),
         \A u \in Thread : Ctl(u)'
  PROVE  Owned(t)'
<1> USE DEF Goto, CallWait, Owned, Running, Freeing, Relocating, Sized, Reporting, WaitsFor
<1>a. /\ st \in [Thread -> Field] /\ pc \in [Thread -> Label] /\ ret \in [Thread -> Label]
      /\ after \in [Thread -> Label] /\ sm \in [Thread -> Sem]
      /\ found \in [Thread -> Thread \union {NULL}]
  BY DEF IInv, TypeOK
<1>b. Ctl(t)
  BY DEF IInv
<1>c. ~st_link(t) /\ ~st_unlink(t) => (Linked(t)' <=> Linked(t))
  BY NextLists DEF Linked
<1>d. /\ pc[t] # "link" => ~st_link(t)
      /\ pc[t] # "unlink" => ~st_unlink(t)
  BY DEF st_link, st_unlink
<1>1. ASSUME NEW err \in BOOLEAN, NEW l \in {"idle", "reloc1", "reloc2"}, LinkError(t, err, l),
             st[t].alive, pc[t] = l \/ (l = "idle" /\ pc[t] = "protect")
      PROVE  Owned(t)'
  BY <1>1, <1>a, <1>c, <1>d DEF LinkError, Field
<1>2. CASE tcc_new(t) \/ tcc_free(t)
  BY <1>2, <1>a, <1>c, <1>d DEF tcc_new, tcc_free, Fresh, Freed
<1>3. CASE tcc_compile(t) \/ tcc_relocate(t)
  BY <1>3, <1>a, <1>c, <1>d DEF tcc_compile, tcc_relocate
<1>4. CASE Call(t) \/ tcc_delete(t)
  BY <1>4, <1>a, <1>c, <1>d DEF Call, tcc_delete, Field
<1>5. CASE tcc_add_file_fails(t) \/ reloc_error(t)
  BY <1>5, <1>1 DEF tcc_add_file_fails, reloc_error
<1>6. CASE reloc_protect(t)
  <2>1. CASE LinkError(t, TRUE, "idle")
    BY <1>1, <1>6, <2>1 DEF reloc_protect
  <2>2. CASE Goto(t, "clean") /\ UNCHANGED <<ret, after, found, st>>
    BY <1>6, <1>a, <1>c, <1>d, <2>2 DEF reloc_protect
  <2> QED
    BY <1>6, <2>1, <2>2 DEF reloc_protect
<1>7. CASE Program(t)
  BY <1>7, <1>a, <1>c, <1>d DEF Program, Return, Exit, Crash
<1>8. CASE wait_sem_check(t) \/ wait_sem_init(t) \/ wait_sem_flag(t) \/ wait_sem_take(t)
  BY <1>8, <1>a, <1>b, <1>c, <1>d DEF wait_sem_check, wait_sem_init, wait_sem_flag,
     wait_sem_take, Ctl, Sem
<1>9. CASE \/ tcc_enter_state(t) \/ tcc_exit_state(t) \/ post_compile_sem(t)
           \/ rt_post_sem(t) \/ error1_message(t)
  BY <1>9, <1>a, <1>b, <1>c, <1>d DEF tcc_enter_state, tcc_exit_state, post_compile_sem,
     rt_post_sem, error1_message, Ctl
<1>10. CASE \/ parse_include(t) \/ parse_eof(t) \/ cstr_new_s(t) \/ cstr_free_s(t)
            \/ expr_preprocess(t) \/ expr_preprocess_end(t)
  BY <1>10, <1>a, <1>c, <1>d DEF parse_include, parse_eof, cstr_new_s, cstr_free_s,
     expr_preprocess, expr_preprocess_end, Parse
<1>11. CASE compile_begin(t) \/ tccelf_end_file(t) \/ compile_finish(t)
  <2>1. CASE compile_begin(t)
    <3>1. st'[t] = [st[t] EXCEPT !.jmp = TRUE, !.errs = FALSE, !.saved = st[t].hash,
                                 !.hash = FALSE]
      BY <1>a, <2>1 DEF compile_begin
    <3>2. st'[t].alive = st[t].alive /\ st'[t].run_ptr = st[t].run_ptr
      BY <1>a, <3>1 DEF Field
    <3> QED
      BY <1>a, <1>c, <1>d, <2>1, <3>2 DEF compile_begin
  <2>2. CASE tccelf_end_file(t)
    <3>1. st'[t].alive = st[t].alive /\ st'[t].run_ptr = st[t].run_ptr
      BY <1>a, <2>2 DEF tccelf_end_file, Field
    <3> QED
      BY <1>a, <1>c, <1>d, <2>2, <3>1 DEF tccelf_end_file
  <2>3. CASE compile_finish(t)
    BY <1>a, <1>c, <1>d, <2>3 DEF compile_finish, Field
  <2> QED
    BY <1>11, <2>1, <2>2, <2>3
<1>e. CASE \E mode \in {"WARN", "NOABORT", "ERROR"} : error1_parsing(t, mode)
  <2>1. PICK mode \in {"WARN", "NOABORT", "ERROR"} : error1_parsing(t, mode)
    BY <1>e
  <2>2. /\ pc[t] = "parse" /\ pc' = [pc EXCEPT ![t] = "format"]
        /\ after' = [after EXCEPT ![t] = IF mode = "ERROR" THEN "finish" ELSE "parse"]
        /\ st' = [st EXCEPT ![t].errs = @ \/ mode # "WARN"]
        /\ ret' = ret /\ found' = found
    BY <2>1 DEF error1_parsing, Parse
  <2>3. /\ pc'[t] = "format" /\ after'[t] \in {"finish", "parse"}
        /\ ret'[t] = ret[t] /\ found'[t] = found[t]
    BY <1>a, <2>2
  <2>4. st'[t].alive = st[t].alive /\ st'[t].run_ptr = st[t].run_ptr
    BY <1>a, <2>2 DEF Field
  <2> QED
    BY <1>c, <1>d, <2>2, <2>3, <2>4
<1>12. CASE reloc_size(t) \/ reloc_copy(t) \/ reloc_cleanup(t)
  BY <1>12, <1>a, <1>c, <1>d DEF reloc_size, reloc_copy, reloc_cleanup, Field
<1>13. CASE tcc_backtrace(t) \/ rt_exit(t) \/ rt_exit_leave(t)
  BY <1>13, <1>a, <1>c, <1>d DEF tcc_backtrace, rt_exit, rt_exit_leave
<1>14. CASE rt_find_state(t)
  <2>1. pc[t] = "find" /\ Linked(t)
    BY <1>14 DEF rt_find_state
  <2>2. Len(g_s1) = 1 => g_s1[1] = t
    BY <2>1 DEF Linked
  <2>3. found'[t] \in {NULL, t}
    BY <1>14, <1>a, <2>2 DEF rt_find_state
  <2> QED
    BY <1>14, <1>a, <1>c, <1>d, <2>1, <2>3 DEF rt_find_state
<1>15. CASE st_link(t)
  <2>1. Linked(t)'
    BY <1>15, NextLists
  <2> QED
    BY <1>15, <1>a, <2>1 DEF st_link
<1>16. CASE st_unlink(t)
  <2>1. ~Linked(t)'
    BY <1>16, NextLists
  <2> QED
    BY <1>16, <1>a, <2>1 DEF st_unlink
<1>17. CASE Client(t)
  BY <1>17, <1>2, <1>3, <1>4, <1>5 DEF Client
<1>18. CASE Library(t)
  BY <1>18, <1>2, <1>5, <1>6, <1>8, <1>9, <1>10, <1>11, <1>e, <1>12, <1>13, <1>14, <1>15,
     <1>16, Zenon
  DEF Library
<1> QED
  BY <1>7, <1>17, <1>18

-----------------------------------------------------------------------------
(* The invariant of the lists holds initially, and every step keeps it. *)
LEMMA InitLInv == Cold = {} /\ Init => LInv
<1> SUFFICES ASSUME Cold = {}, Init PROVE LInv
  OBVIOUS
<1>1. \A u \in Thread : ~Linked(u) /\ ~Holds(g_rc, u)
  BY DEF Init, Linked, Holds
<1>2. Lists
  BY <1>1 DEF Init, Lists, Once
<1>3. \A u \in Thread : Owned(u)
  BY <1>1
  DEF Init, Owned, Running, Freeing, Relocating, Sized, Reporting, WaitsFor
<1> QED
  BY <1>2, <1>3, InitIInv DEF LInv

(* Lists and owners after a step: of the thread that takes it, of others. *)
LEMMA NextLInv == LInv /\ [Next]_vars => LInv'
<1> SUFFICES ASSUME LInv, [Next]_vars PROVE LInv'
  OBVIOUS
<1>1. IInv'
  BY NextIInv DEF LInv
<1>2. CASE UNCHANGED vars
  <2>1. UNCHANGED <<g_s1, g_rc, pc, ret, after, found, st>>
    BY <1>2 DEF vars, runtime
  <2>2. Lists'
    BY <2>1 DEF LInv, Lists, Once, Holds
  <2>3. \A u \in Thread : Owned(u)'
    BY <2>1, OwnedFrame DEF LInv, Linked
  <2> QED
    BY <1>1, <2>2, <2>3 DEF LInv
<1>3. ASSUME NEW t \in Thread, Client(t) \/ Library(t) \/ Program(t)
      PROVE  LInv'
  <2>1. Lists' /\ \A u \in Thread \ {t} : Linked(u)' <=> Linked(u)
    BY <1>3, NextLists DEF LInv
  <2>2. Owned(t)'
    BY <1>1, <1>3, NextOwned DEF LInv, IInv
  <2>3. ASSUME NEW u \in Thread \ {t} PROVE Owned(u)'
    BY <1>3, <2>1, OthersKept, OwnedFrame DEF LInv
  <2> QED
    BY <1>1, <2>1, <2>2, <2>3 DEF LInv
<1> QED
  BY <1>2, <1>3 DEF Next

(* So it holds always. *)
LEMMA SpecLInv == Cold = {} /\ Spec => []LInv
  BY InitLInv, NextLInv, PTL DEF Spec

(* For any number of threads, with initialized semaphores: the lists hold  *)
(* every state once, while its code is in memory and at least while it     *)
(* runs, and rt_exit() unwinds into no other thread.                       *)
THEOREM ListsRight == Cold = {} /\ Spec => []ListsSound
<1>1. ASSUME LInv PROVE ListsSound
  <2>a. g_s1 \in Seq(Thread) /\ g_rc \in Seq(Thread)
    BY <1>1 DEF LInv, IInv, TypeOK
  <2>1. FindsSelf
    BY <1>1 DEF LInv, Owned, FindsSelf
  <2>2. \A i \in 1..Len(g_s1) : st[g_s1[i]].alive /\ st[g_s1[i]].run_ptr
    BY <1>1, <2>a DEF LInv, Owned, Linked
  <2>3. \A i \in 1..Len(g_rc) : Linked(g_rc[i]) /\ g_rc[i] \in BtThread
    BY <1>1, <2>a DEF LInv, Lists, Holds, Linked
  <2>4. \A t \in Thread : pc[t] \in {"run", "rt_exit", "find", "leave"} => Linked(t)
    BY <1>1 DEF LInv, Owned, Running
  <2> QED
    BY <1>1, <2>1, <2>2, <2>3, <2>4 DEF ListsSound, LInv, Lists, Once
<1> QED
  BY <1>1, SpecLInv, PTL

-----------------------------------------------------------------------------
(* What happens to the hash: nothing outside of tcc_compile(), which       *)
(* leaves it away only together with an error.                             *)
LEMMA HashedFrame ==
  ASSUME NEW u \in Thread, Hashed(u),
         pc'[u] = pc[u], ret'[u] = ret[u], after'[u] = after[u], st'[u] = st[u]
  PROVE  Hashed(u)'
BY DEF Hashed, Parsing, WaitsFor

(* Every step keeps it for the thread that takes it: who compiles has had  *)
(* no error before, so that there is a hash to be set aside.               *)
LEMMA NextHashed ==
  ASSUME ~Insist, LInv, NEW t \in Thread, Client(t) \/ Library(t) \/ Program(t), Hashed(t)
  PROVE  Hashed(t)'
<1> USE DEF Goto, CallWait, Hashed, Parsing, WaitsFor
<1>a. /\ st \in [Thread -> Field] /\ pc \in [Thread -> Label] /\ ret \in [Thread -> Label]
      /\ after \in [Thread -> Label] /\ sm \in [Thread -> Sem]
  BY DEF LInv, IInv, TypeOK
<1>b. Ctl(t)
  BY DEF LInv, IInv
<1>c. pc[t] # "idle" => st[t].alive
  BY DEF LInv, Owned
<1>1. ASSUME NEW err \in BOOLEAN, NEW l, LinkError(t, err, l),
             pc[t] \in {"idle", "reloc1", "reloc2", "protect"}, st[t].alive
      PROVE  Hashed(t)'
  <2>1. /\ pc'[t] = "check" /\ ret'[t] = "error1" /\ st'[t].hash = st[t].hash
        /\ st[t].errs => st'[t].errs
    BY <1>1, <1>a DEF LinkError, Field
  <2> QED
    BY <1>1, <2>1
<1>2. CASE tcc_new(t) \/ tcc_free(t)
  <2>1. Fresh.hash = TRUE /\ Freed.alive = FALSE /\ Fresh.errs = FALSE /\ Freed.errs = FALSE
    BY DEF Fresh, Freed
  <2>2. CASE tcc_new(t)
    <3>1. pc' = pc /\ ret' = ret /\ after' = after /\ st'[t] = Fresh /\ pc[t] = "idle"
      BY <1>a, <2>2 DEF tcc_new
    <3> QED
      BY <2>1, <3>1
  <2>3. CASE tcc_free(t)
    <3>1. pc'[t] = "idle" /\ st'[t] = Freed
      BY <1>a, <2>3 DEF tcc_free
    <3> QED
      BY <2>1, <3>1
  <2> QED
    BY <1>2, <2>2, <2>3
<1>3. CASE tcc_compile(t) \/ tcc_relocate(t)
  BY <1>3, <1>a DEF tcc_compile, tcc_relocate
<1>4. CASE Call(t) \/ tcc_delete(t)
  BY <1>4, <1>a, <1>c DEF Call, tcc_delete, Field
<1>5. CASE tcc_add_file_fails(t) \/ reloc_error(t)
  BY <1>5, <1>1, <1>c DEF tcc_add_file_fails, reloc_error
<1>6. CASE reloc_protect(t)
  <2>1. CASE LinkError(t, TRUE, "idle")
    BY <1>1, <1>6, <1>c, <2>1 DEF reloc_protect
  <2>2. CASE Goto(t, "clean") /\ UNCHANGED <<ret, after, st>>
    BY <1>6, <1>a, <2>2 DEF reloc_protect
  <2> QED
    BY <1>6, <2>1, <2>2 DEF reloc_protect
<1>7. CASE Program(t)
  BY <1>7, <1>a DEF Program, Return, Exit, Crash
<1>8. CASE wait_sem_check(t) \/ wait_sem_init(t) \/ wait_sem_flag(t) \/ wait_sem_take(t)
  BY <1>8, <1>a, <1>b DEF wait_sem_check, wait_sem_init, wait_sem_flag, wait_sem_take,
     Ctl, Sem
<1>9. CASE tcc_enter_state(t) \/ tcc_exit_state(t) \/ post_compile_sem(t) \/ rt_post_sem(t)
  BY <1>9, <1>a, <1>b DEF tcc_enter_state, tcc_exit_state, post_compile_sem, rt_post_sem,
     Ctl
<1>10. CASE error1_message(t)
  BY <1>10, <1>a, <1>b DEF error1_message, Ctl
<1>11. CASE \/ parse_include(t) \/ parse_eof(t) \/ cstr_new_s(t) \/ cstr_free_s(t)
            \/ expr_preprocess(t) \/ expr_preprocess_end(t)
  BY <1>11, <1>a DEF parse_include, parse_eof, cstr_new_s, cstr_free_s,
     expr_preprocess, expr_preprocess_end, Parse
<1>12. CASE compile_begin(t)
  <2>1. st'[t] = [st[t] EXCEPT !.jmp = TRUE, !.errs = FALSE, !.saved = st[t].hash,
                               !.hash = FALSE]
    BY <1>a, <1>12 DEF compile_begin
  <2>2. st'[t].saved = st[t].hash
    BY <1>a, <2>1 DEF Field
  <2>3. st[t].hash /\ pc[t] = "begin"
    BY <1>12, <1>c DEF compile_begin
  <2> QED
    BY <1>12, <1>a, <2>2, <2>3 DEF compile_begin
<1>13. CASE tccelf_end_file(t)
  <2>1. st'[t].hash = st[t].saved
    BY <1>a, <1>13 DEF tccelf_end_file, Field
  <2>2. st[t].saved /\ pc[t] = "parse"
    BY <1>13 DEF tccelf_end_file
  <2> QED
    BY <1>13, <1>a, <2>1, <2>2 DEF tccelf_end_file
<1>14. CASE compile_finish(t)
  BY <1>14, <1>a DEF compile_finish, Field
<1>15. CASE \E mode \in {"WARN", "NOABORT", "ERROR"} : error1_parsing(t, mode)
  <2>1. PICK mode \in {"WARN", "NOABORT", "ERROR"} : error1_parsing(t, mode)
    BY <1>15
  <2>2. /\ pc[t] = "parse" /\ pc' = [pc EXCEPT ![t] = "format"]
        /\ after' = [after EXCEPT ![t] = IF mode = "ERROR" THEN "finish" ELSE "parse"]
        /\ st' = [st EXCEPT ![t].errs = @ \/ mode # "WARN"]
    BY <2>1 DEF error1_parsing, Parse
  <2>3. /\ pc'[t] = "format" /\ after'[t] = IF mode = "ERROR" THEN "finish" ELSE "parse"
        /\ st'[t].saved = st[t].saved
        /\ mode = "ERROR" => st'[t].errs
    BY <1>a, <2>2 DEF Field
  <2> QED
    BY <2>2, <2>3
<1>16. CASE reloc_size(t) \/ reloc_copy(t) \/ reloc_cleanup(t)
  BY <1>16, <1>a, <1>c DEF reloc_size, reloc_copy, reloc_cleanup, Field
<1>17. CASE \/ tcc_backtrace(t) \/ rt_exit(t) \/ rt_find_state(t) \/ rt_exit_leave(t)
            \/ st_link(t) \/ st_unlink(t)
  BY <1>17, <1>a DEF tcc_backtrace, rt_exit, rt_find_state, rt_exit_leave, st_link,
     st_unlink
<1>18. CASE Client(t)
  BY <1>18, <1>2, <1>3, <1>4, <1>5 DEF Client
<1>19. CASE Library(t)
  BY <1>19, <1>2, <1>5, <1>6, <1>8, <1>9, <1>10, <1>11, <1>12, <1>13, <1>14, <1>15,
     <1>16, <1>17, Zenon
  DEF Library
<1> QED
  BY <1>7, <1>18, <1>19

(* It is an invariant of clients that give up after a failed compilation. *)
LEMMA SpecHInv ==
  ASSUME ~Insist
  PROVE  Cold = {} /\ Spec => []HInv
<1>1. Cold = {} /\ Init => HInv
  <2> SUFFICES ASSUME Cold = {}, Init PROVE HInv
    OBVIOUS
  <2>1. \A u \in Thread : Hashed(u)
    BY DEF Init, Hashed, Parsing, WaitsFor, Freed
  <2> QED
    BY <2>1, InitLInv DEF HInv
<1>2. HInv /\ [Next]_vars => HInv'
  <2> SUFFICES ASSUME HInv, [Next]_vars PROVE \A u \in Thread : Hashed(u)'
    BY NextLInv DEF HInv
  <2>1. CASE UNCHANGED vars
    BY <2>1, HashedFrame DEF HInv, vars
  <2>2. ASSUME NEW t \in Thread, Client(t) \/ Library(t) \/ Program(t), NEW u \in Thread
        PROVE  Hashed(u)'
    <3>1. CASE u = t
      BY <2>2, <3>1, NextHashed DEF HInv
    <3>2. CASE u # t
      BY <2>2, <3>2, OthersKept, HashedFrame DEF HInv, LInv
    <3> QED
      BY <3>1, <3>2
  <2> QED
    BY <2>1, <2>2 DEF Next
<1> QED
  BY <1>1, <1>2, PTL DEF Spec

(* For any number of threads, with initialized semaphores, when nobody     *)
(* compiles again after a failed compilation: tcc_relocate() rebuilds the  *)
(* hash of a symbol table that has one.                                    *)
THEOREM HashRebuilt ==
  ASSUME ~Insist
  PROVE  Cold = {} /\ Spec => []HashKept
<1>1. HInv => HashKept
  BY DEF HInv, LInv, Owned, Hashed, Parsing, HashKept
<1> QED
  BY <1>1, SpecHInv, PTL
=============================================================================
