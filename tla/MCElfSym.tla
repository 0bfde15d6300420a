----------------------------- MODULE MCElfSym -----------------------------
(***************************************************************************)
(* Instances of the linker for TLC: of its symbol table (ElfSym), and of   *)
(* dynamic linking (Dynlink).  part says which of them a behaviour         *)
(* exercises; the other one rests.                                         *)
(***************************************************************************)
EXTENDS ElfSym, TLC

CONSTANTS a, b, c, Parts

VARIABLES part, world, pc, at, dynsymtab, symtab, dynsym, attr, refs, got, bss, rela,
          errs, warned

dynVars == <<world, pc, at, dynsymtab, symtab, dynsym, attr, refs, got, bss, rela, errs, warned>>

Sym(n, bind, shndx, vis, val) ==
  [name |-> n, bind |-> bind, shndx |-> shndx, vis |-> vis, asm_set |-> FALSE,
   val |-> val]

Ref(n) == Sym(n, "GLOBAL", "UNDEF", 0, 0)
WeakRef(n) == Sym(n, "WEAK", "UNDEF", 0, 0)
Def(n) == Sym(n, "GLOBAL", "DATA", 0, 1)

(* Every kind of symbol for one name, a few for another. *)
KindsOfOne ==
  {Sym(a, bind, "UNDEF", vis, 0) : bind \in {"GLOBAL", "WEAK"}, vis \in {0, 2}}
  \union {Sym(a, "GLOBAL", "DATA", vis, val) : vis \in {0, 2, 3}, val \in {1, 2}}
  \union {Sym(a, "WEAK", "DATA", 0, val) : val \in {3, 4}}
  \union {Sym(a, "GLOBAL", shndx, 0, 5) : shndx \in {"COMMON", "BSS", "ABS"}}
  \union {[Sym(a, "GLOBAL", "DATA", 0, 6) EXCEPT !.asm_set = TRUE],
          Sym(a, "LOCAL", "UNDEF", 0, 0), Sym(a, "LOCAL", "DATA", 0, 7),
          Ref(b), Def(b)}

(* Three names in one bucket; two of them still share one when the table   *)
(* has been doubled.                                                       *)
FewKinds == UNION {{Ref(n), Def(n)} : n \in {a, b, c}}
            \union {WeakRef(b), Sym(a, "LOCAL", "DATA", 0, 7)}

AllKinds == KindsOfOne \union FewKinds

HashValues == a :> 1 @@ b :> 3 @@ c :> 2

NoLibrary == <<>>

(* Two archives whose members need each other; the first one has to be     *)
(* read twice before the second one is, and again after it.                *)
TwoLibraries == << <<[name |-> a, member |-> 1], [name |-> c, member |-> 2]>>,
                   <<[name |-> b, member |-> 1]>> >>
TwoMembers == << << <<Def(a), WeakRef(b)>>, <<Def(c), Ref(a)>> >>,
                 << <<Ref(c), Def(b)>> >> >>
(***************************************************************************)
(* Dynamic linking.  Worlds of one name have every kind of symbol on each  *)
(* side and every kind of reference; those of two names are for aliases,   *)
(* for the order of the dynamic symbols and for what references share.     *)
(***************************************************************************)
Typed(n, bind, shndx, type, place) == Sym(n, bind, shndx, 0, [type |-> type, at |-> place])
Undef(n, bind, type) == Typed(n, bind, "UNDEF", type, 0)
Data(n, bind, type, place) == Typed(n, bind, "DATA", type, place)

Outputs == {"exe", "pie", "dll"}
Hosts(o, n) == IF o = "dll" THEN {<<>>, <<n>>} ELSE {<<>>}
Using(how, i) == [k \in DOMAIN how |-> [how |-> how[k], sym |-> i]]
World(o, libs, syms, rs, h) == [out |-> o, libs |-> libs, syms |-> syms, refs |-> rs, host |-> h]

Uses(t) == IF t = "obj" THEN {<<"DATA">>, <<"GOT", "DATA">>}
           ELSE {<<"DATA">>, <<"CALL", "GOT", "DATA">>, <<"DATA", "CALL">>}

FirstLib(t) ==
  {<<>>} \union {<<Undef("a", bind, type)>> : bind \in {"GLOBAL", "WEAK"}, type \in {t, "none"}}
  \union {<<Data("a", bind, t, 1)>> : bind \in {"GLOBAL", "WEAK"}}
SecondLib(t) == {<<>>, <<Data("a", "GLOBAL", t, 1)>>}

OwnSyms(t) ==
  {Undef("a", bind, type) : bind \in {"GLOBAL", "WEAK"}, type \in {t, "none"}}
  \union {Data("a", bind, t, 1) : bind \in {"GLOBAL", "WEAK", "LOCAL"}}

OneName ==
  UNION {UNION {
    {World(o, <<l, m>>, <<s>>, Using(u, 1), h) :
       l \in FirstLib(t), m \in SecondLib(t), s \in OwnSyms(t), u \in Uses(t), h \in Hosts(o, "a")} :
    o \in Outputs} : t \in {"obj", "func"}}

All(t) == IF t = "func" THEN <<"CALL", "DATA">> ELSE <<"GOT", "DATA">>

(* A library with two names, which may be one place; and its user. *)
Pair(t, u) == {<<Data("a", "GLOBAL", t, 1), Data("b", bind, u, v)>> :
                 bind \in {"GLOBAL", "WEAK"}, v \in IF t = u THEN {1, 2} ELSE {2}}
              \union {<<Data("b", "WEAK", u, 1)>>}
Other(t) == {<<>>, <<Undef("a", "GLOBAL", "none"), Undef("b", "GLOBAL", "none")>>}
            \union {<<Data("a", "GLOBAL", t, v)>> : v \in 1..2}
Own2(n, t, i) == {Undef(n, "GLOBAL", "none"), Data(n, "GLOBAL", t, i)}
               \union (IF t = "obj" THEN {Typed(n, "GLOBAL", "BSS", t, i)} ELSE {})

Programs(t, u) ==
  {[syms |-> <<x, y>>, refs |-> Using(All(t), 1) \o Using(All(u), 2)] :
     x \in Own2("a", t, 1), y \in Own2("b", u, 2)}
  \union {[syms |-> <<s>>, refs |-> Using(All(s.val.type), 1)] : s \in Own2("a", t, 1) \union Own2("b", u, 1)}

TwoNames ==
  UNION {UNION {
    {World(o, <<l, m>>, p.syms, p.refs, <<>>) :
       o \in Outputs, l \in Pair(t, u), m \in Other(t), p \in Programs(t, u)} :
    t \in {"obj", "func"}} : u \in {"obj", "func"}}

Dy == INSTANCE Dynlink WITH Names <- {"a", "b"}, Worlds <- OneName \union TwoNames

-----------------------------------------------------------------------------
TableRests == Init
DynlinkRests ==
  /\ world = <<>> /\ pc = "" /\ at = 0 /\ dynsymtab = <<>> /\ symtab = <<>> /\ dynsym = <<>>
  /\ attr = <<>> /\ refs = <<>> /\ got = 0 /\ bss = 0 /\ rela = <<>> /\ errs = {} /\ warned = {}

MCInit ==
  /\ part \in Parts
  /\ \/ part = "table" /\ Init /\ DynlinkRests
     \/ part = "dynamic" /\ TableRests /\ Dy!Init
MCNext ==
  \/ part = "table" /\ Next /\ UNCHANGED <<part, dynVars>>
  \/ part = "dynamic" /\ Dy!Next /\ UNCHANGED <<part, vars>>
MCSpec == MCInit /\ [][MCNext]_<<part, vars, dynVars>> /\ WF_vars(part = "table" /\ Linker /\ UNCHANGED <<part, dynVars>>)

(* Of Dynlink: every call reaches the function, and every pointer the      *)
(* variable, that the rules of ELF say, in the output and in the libraries *)
(* (bind_exe_dynsyms() to update_gnu_hash()); and a variable that          *)
(* bind_exe_dynsyms() copies stays one, for every module and name.         *)
Bound == Dy!Bound /\ Dy!OneObject

(* Of Dynlink: bind_exe_dynsyms() on aliases, "Ensure R_COPY works for     *)
(* weak symbol aliases".                                                   *)
WeakAliases == Dy!WeakAliases

(* What relocate_syms() and set_elf_sym() of the symbol table report, and  *)
(* what dynamic linking does.                                              *)
AllReported == Reported /\ Dy!LinkReported

=============================================================================
