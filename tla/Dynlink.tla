------------------------------- MODULE Dynlink -------------------------------
(***************************************************************************)
(* Dynamic linking (tccelf.c, riscv64-link.c): elf_output_file() from the  *)
(* symbols of the shared libraries to the relocations that it leaves to    *)
(* the dynamic loader.  It binds undefined symbols to functions and data   *)
(* of the libraries (bind_exe_dynsyms), gives them slots in the GOT and    *)
(* the PLT (build_got_entries), exports what the libraries may refer to,   *)
(* relocates and sorts the dynamic symbols.                                *)
(*                                                                         *)
(* The three symbol tables are tables of ElfSym.  A symbol's val is its    *)
(* type and its place in its section.  A place is <<module, section, n>>.  *)
(***************************************************************************)
EXTENDS Naturals, SequencesExt

CONSTANTS Names,    \* of symbols
          Worlds    \* what is linked: out, libs, syms, refs, host

VARIABLES
  world,        \* out: "exe", "pie" (both programs) or "dll"; libs: their symbols;
                \* syms: symtab_section; refs: its relocations; host: the names that
                \* the program exports which loads a "dll"
  pc, at,       \* the function at work, and the element it has come to
  dynsymtab,    \* s1->dynsymtab_section: the symbols of all libraries
  symtab, dynsym,
  attr,         \* sym_attrs: for each symbol dyn, got and plt_sym; 0 for none
  refs,         \* the relocations of text and data: how, and the symbol's index
  got,          \* slots in .got
  bss,          \* bytes in .bss
  rela,         \* the dynamic relocations
  errs, warned  \* names: undefined, defined twice; only warned about

vars == <<world, pc, at, dynsymtab, symtab, dynsym, attr, refs, got, bss, rela,
          errs, warned>>

-----------------------------------------------------------------------------
PltName(n) == n \o "@plt"
Hash == [n \in Names \union {PltName(n) : n \in Names} |-> 0]

(* Tables of symbols, and the one that holds the shared libraries'.        *)
Own == INSTANCE ElfSym WITH
  Name <- Names, ElfHash <- Hash, Inputs <- {}, Resolved <- {}, Dynsym <- FALSE,
  MaxSyms <- 0, Library <- <<>>, Member <- <<>>, tab <- symtab, first <- 0, saved <- 0,
  rels <- <<>>, phase <- pc, scan <- 0, loads <- <<>>, nread <- 0, seen <- {},
  twice <- errs, undef <- errs
Shared == INSTANCE ElfSym WITH
  Name <- Names, ElfHash <- Hash, Inputs <- {}, Resolved <- {}, Dynsym <- TRUE,
  MaxSyms <- 0, Library <- <<>>, Member <- <<>>, tab <- dynsymtab, first <- 0, saved <- 0,
  rels <- <<>>, phase <- pc, scan <- 0, loads <- <<>>, nread <- 0, seen <- {},
  twice <- errs, undef <- errs

NoSyms == [syms |-> <<>>, hash |-> Own!EmptyHash, new_undef_sym |-> FALSE]
find_elf_sym(t, n) == Own!find_elf_sym(t, n)
Sym(name, bind, shndx, type, n) ==
  [name |-> name, bind |-> bind, shndx |-> shndx, vis |-> 0, asm_set |-> FALSE,
   val |-> [type |-> type, at |-> n]]
Exported(s) == [s EXCEPT !.vis = 0]

Undefined(s) == s.shndx = "UNDEF"
Program == world.out \in {"exe", "pie"}
PIC == world.out \in {"pie", "dll"}    \* output_type & TCC_OUTPUT_DYN

Table(syms) == FoldLeft(LAMBDA t, s : Own!set_elf_sym(t, s).tab, NoSyms, syms)

(* A dynamic relocation of section sec at n, by its symbol in dynsym, or   *)
(* (RELATIVE) with the place add.                                          *)
Rel(sec, n, type, sym, add) ==
  [sec |-> sec, at |-> n, type |-> type, sym |-> sym, add |-> add]
Nowhere == <<"", "", 0>>
Place(s) == IF Undefined(s) THEN Nowhere ELSE <<"out", s.shndx, s.val.at>>

-----------------------------------------------------------------------------
(* tcc_load_dll(): the libraries' symbols in the order of the libraries.   *)
tcc_load_dll ==
  /\ pc = "dlls" /\ at <= Len(world.libs)
  /\ dynsymtab' = FoldLeft(LAMBDA t, e : Shared!set_elf_sym(t, e).tab,
                           dynsymtab, world.libs[at])
  /\ at' = at + 1
  /\ UNCHANGED <<world, pc, symtab, dynsym, attr, refs, got, bss, rela, errs, warned>>

(* elf_output_file() goes on to the next function. *)
Goto(from, next, done) ==
  /\ pc = from /\ done
  /\ pc' = next /\ at' = 1
  /\ UNCHANGED <<world, dynsymtab, symtab, dynsym, attr, refs, got, bss, rela, errs, warned>>

-----------------------------------------------------------------------------
(* bind_exe_dynsyms(): the symbols of the program one by one; the name is  *)
(* looked for among the libraries' symbols.                                *)
Binding(s) == pc = "bind_exe" /\ at <= Len(symtab.syms) /\ s = symtab.syms[at]
Exporter(s) == dynsymtab.syms[find_elf_sym(dynsymtab, s.name)]
Shares(s) == find_elf_sym(dynsymtab, s.name) # 0

BindNothing(s) ==
  /\ Binding(s)
  /\ \/ ~Undefined(s)
     \/ Shares(s) /\ (PIC \/ Exporter(s).val.type \notin {"func", "obj"})
  /\ at' = at + 1
  /\ UNCHANGED <<world, pc, dynsymtab, symtab, dynsym, attr, refs, got, bss, rela, errs, warned>>

Tolerated(s) == s.bind = "WEAK"

BindMissing(s) ==
  /\ Binding(s) /\ Undefined(s) /\ ~Shares(s)
  /\ errs' = IF Tolerated(s) THEN errs ELSE errs \union {s.name}
  /\ at' = at + 1
  /\ UNCHANGED <<world, pc, dynsymtab, symtab, dynsym, attr, refs, got, bss, rela, warned>>

(* A function is to get an entry in the PLT. *)
BindFunction(s) ==
  /\ Binding(s) /\ Undefined(s) /\ Shares(s) /\ ~PIC /\ Exporter(s).val.type = "func"
  /\ dynsym' = Own!put_elf_sym(dynsym, Sym(s.name, "GLOBAL", "UNDEF", "func", 0))
  /\ attr' = [attr EXCEPT ![at].dyn = Len(dynsym'.syms)]
  /\ at' = at + 1
  /\ UNCHANGED <<world, pc, dynsymtab, symtab, refs, got, bss, rela, errs, warned>>

(* Data is to be copied to the program's .bss; "Ensure R_COPY works for    *)
(* weak symbol aliases".                                                   *)

Aliases(e) ==
  {j \in DOMAIN dynsymtab.syms :
     /\ e.bind = "WEAK"
     /\ dynsymtab.syms[j].val.at = e.val.at
     /\ dynsymtab.syms[j].bind = "GLOBAL"}

BindData(s) ==
  LET e == Exporter(s)
      copy(x) == [Exported(x) EXCEPT !.shndx = "BSS", !.val.at = bss + 1]
      table == Own!put_elf_sym(dynsym, copy(e))
  IN /\ Binding(s) /\ Undefined(s) /\ Shares(s) /\ ~PIC /\ e.val.type = "obj"
     /\ symtab' = Own!set_elf_sym(symtab, copy(e)).tab
     /\ dynsym' = IF Aliases(e) = {} THEN table
                  ELSE Own!put_elf_sym(table, copy(dynsymtab.syms[Min(Aliases(e))]))
     /\ rela' = Append(rela, Rel("bss", bss + 1, "COPY", Len(table.syms), Nowhere))
     /\ bss' = bss + 1
     /\ at' = at + 1
     /\ UNCHANGED <<world, pc, dynsymtab, attr, refs, got, errs, warned>>

-----------------------------------------------------------------------------
(* build_got_entries(): the relocations twice, PLT entries first.          *)

(* gotplt_entry_type(): GOT_HI20 always needs a slot; the others do when   *)
(* their symbol is undefined.                                              *)
NeedsSlot(r) == r.how = "GOT" \/ Undefined(symtab.syms[r.sym])

(* A call, or any other reference to what is known to be a function.       *)
NeedsPlt(r) ==
  LET s == symtab.syms[r.sym]
      e == dynsym.syms[attr[r.sym].dyn]
  IN \/ r.how = "CALL"
     \/ /\ r.how # "GOT" /\ attr[r.sym].dyn # 0
        /\ e.val.type = "func" \/ (e.val.type = "none" /\ s.val.type = "func")

(* put_got_entry(): the slot and the relocation that fills it.  That of a  *)
(* local symbol holds its index in symtab until fill_local_got_entries().  *)
Slot(sec, type, i) ==
  LET s == symtab.syms[i]
      r == Own!set_elf_sym(dynsym, Exported(s))
      new == s.bind # "LOCAL" /\ attr[i].dyn = 0
      dyn == IF new THEN r.index ELSE attr[i].dyn
  IN [dynsym |-> IF new THEN r.tab ELSE dynsym,
      dyn |-> dyn,
      err |-> IF new /\ r.err THEN {s.name} ELSE {},
      rel |-> IF s.bind = "LOCAL" THEN Rel("got", got + 1, "RELATIVE", i, Nowhere)
              ELSE Rel(sec, got + 1, type, dyn, Nowhere)]

Visiting(pass, r) == pc = pass /\ at <= Len(refs) /\ r = refs[at]

BuildPlt(r) ==
  LET i == r.sym
      slot == Slot("plt", "JUMP_SLOT", i)
      name == PltName(symtab.syms[i].name)
  IN /\ Visiting("build_plt", r) /\ NeedsSlot(r) /\ NeedsPlt(r)
     /\ IF attr[i].plt_sym # 0
          THEN /\ refs' = [refs EXCEPT ![at].sym = attr[i].plt_sym]
               /\ UNCHANGED <<symtab, dynsym, attr, got, rela, errs>>
          ELSE /\ symtab' = Own!put_elf_sym(symtab, Sym(name, "GLOBAL", "PLT", "func", got + 1))
               /\ refs' = [refs EXCEPT ![at].sym = Len(symtab'.syms)]
               /\ dynsym' = slot.dynsym
               /\ attr' = [attr EXCEPT ![i].dyn = slot.dyn, ![i].plt_sym = Len(symtab'.syms)]
               /\ got' = got + 1
               /\ rela' = Append(rela, slot.rel)
               /\ errs' = errs \union slot.err
     /\ at' = at + 1
     /\ UNCHANGED <<world, pc, dynsymtab, bss, warned>>

BuildGot(r) ==
  LET i == r.sym
      slot == Slot("got", "64", i)
  IN /\ Visiting("build_got", r) /\ NeedsSlot(r) /\ ~NeedsPlt(r)
     /\ IF attr[i].got # 0 THEN UNCHANGED <<dynsym, attr, got, rela, errs>>
        ELSE /\ dynsym' = slot.dynsym
             /\ attr' = [attr EXCEPT ![i].dyn = slot.dyn, ![i].got = got + 1]
             /\ got' = got + 1
             /\ rela' = Append(rela, slot.rel)
             /\ errs' = errs \union slot.err
     /\ at' = at + 1
     /\ UNCHANGED <<world, pc, dynsymtab, symtab, refs, bss, warned>>

BuildNone(r) ==
  /\ \/ Visiting("build_plt", r) /\ ~(NeedsSlot(r) /\ NeedsPlt(r))
     \/ Visiting("build_got", r) /\ ~(NeedsSlot(r) /\ ~NeedsPlt(r))
  /\ at' = at + 1
  /\ UNCHANGED <<world, pc, dynsymtab, symtab, dynsym, attr, refs, got, bss, rela, errs, warned>>

-----------------------------------------------------------------------------
(* bind_libs_dynsyms(): what a library may refer to, or defines as well,   *)
(* is exported by the program.                                             *)
Binds(s) == ~Undefined(s) /\ s.bind # "LOCAL" /\ Shares(s)

Export(t, s) == Own!set_elf_sym(t, Exported(s)).tab
Clash(t, s) == IF Own!set_elf_sym(t, Exported(s)).err THEN {s.name} ELSE {}

bind_libs_dynsyms ==
  /\ pc = "bind_libs"
  /\ LET bound == SelectSeq(symtab.syms, Binds)
         open == {s \in Range(symtab.syms) :
                    /\ Undefined(s) /\ Shares(s)
                    /\ Undefined(Exporter(s)) /\ Exporter(s).bind # "WEAK"}
     IN /\ dynsym' = FoldLeft(Export, dynsym, bound)
        /\ errs' = errs \union UNION {Clash(dynsym, s) : s \in Range(bound)}
        /\ warned' = {s.name : s \in open}
  /\ pc' = "relocate"
  /\ UNCHANGED <<world, at, dynsymtab, symtab, attr, refs, got, bss, rela>>

(* export_global_syms(): a library exports all its global symbols.         *)
export_global_syms ==
  /\ pc = "export"
  /\ LET public == SelectSeq(symtab.syms, LAMBDA s : s.bind # "LOCAL")
         t == FoldLeft(Export, dynsym, public)
     IN /\ dynsym' = t
        /\ attr' = [i \in DOMAIN attr |->
                      IF i \in DOMAIN symtab.syms /\ symtab.syms[i].bind # "LOCAL"
                        THEN [attr[i] EXCEPT !.dyn = find_elf_sym(t, symtab.syms[i].name)]
                        ELSE attr[i]]
        /\ errs' = errs \union UNION {Clash(dynsym, s) : s \in Range(public)}
  /\ pc' = "relocate"
  /\ UNCHANGED <<world, at, dynsymtab, symtab, refs, got, bss, rela, warned>>

(* relocate() leaves a pointer in data to the loader when the place of the *)
(* output is not known: by its dynamic symbol, if it has got one.          *)
DataRel(j) ==
  LET i == refs[j].sym
  IN IF attr[i].dyn # 0 THEN Rel("data", j, "64", attr[i].dyn, Nowhere)
     ELSE Rel("data", j, "RELATIVE", 0, Place(symtab.syms[i]))

(* fill_local_got_entries(): the symbols' places are known now.            *)
Filled(r) ==
  IF r.sec = "got" /\ r.type = "RELATIVE"
    THEN [r EXCEPT !.sym = 0, !.add = Place(symtab.syms[r.sym])] ELSE r

(* relocate_syms(), relocate_sections(), fill_local_got_entries(). *)
relocate ==
  /\ pc = "relocate"
  /\ LET open == {s \in Range(symtab.syms) :
                    /\ Undefined(s) /\ s.bind # "WEAK"
                    /\ find_elf_sym(dynsym, s.name) = 0}
         data == SelectSeq([j \in DOMAIN refs |-> j], LAMBDA j : PIC /\ refs[j].how = "DATA")
     IN /\ errs' = errs \union {s.name : s \in open}
        /\ rela' = [k \in DOMAIN rela |-> Filled(rela[k])]
                     \o [k \in DOMAIN data |-> DataRel(data[k])]
  /\ pc' = IF errs' = {} THEN "gnu_hash" ELSE "failed"
  /\ UNCHANGED <<world, at, dynsymtab, symtab, dynsym, attr, refs, got, bss, warned>>

(* update_gnu_hash(): undefined symbols first; the relocations follow      *)
(* their symbols.  (The others are then grouped by their hash values, of   *)
(* which only those with one name are sure to have the same.)              *)
Sorted(syms) == SelectSeq(syms, Undefined) \o SelectSeq(syms, LAMBDA s : ~Undefined(s))
NewIndex(i) ==
  LET Before(u) == {j \in DOMAIN dynsym.syms : Undefined(dynsym.syms[j]) = u /\ j <= i}
  IN IF Undefined(dynsym.syms[i]) THEN Cardinality(Before(TRUE))
     ELSE Cardinality({j \in DOMAIN dynsym.syms : Undefined(dynsym.syms[j])})
            + Cardinality(Before(FALSE))

(* Mutant: the relocations of .bss are forgotten. *)
MutRenumbered(r) == IF r.sym = 0 \/ r.sec = "bss" THEN r ELSE [r EXCEPT !.sym = NewIndex(@)]

(* modify_reloctions_old_to_new() *)
Renumbered(r) == IF r.sym = 0 THEN r ELSE [r EXCEPT !.sym = NewIndex(@)]

update_gnu_hash ==
  /\ pc = "gnu_hash"
  /\ dynsym' = [dynsym EXCEPT !.syms = Sorted(@)]
  /\ rela' = [k \in DOMAIN rela |-> Renumbered(rela[k])]
  /\ pc' = "done"
  /\ UNCHANGED <<world, at, dynsymtab, symtab, attr, refs, got, bss, errs, warned>>

-----------------------------------------------------------------------------
Init ==
  /\ world \in Worlds
  /\ pc = "dlls" /\ at = 1
  /\ dynsymtab = NoSyms
  /\ symtab = Table(world.syms)
  /\ dynsym = NoSyms
  /\ attr = [i \in 1 .. 2 * Len(world.syms) |-> [dyn |-> 0, got |-> 0, plt_sym |-> 0]]
  /\ refs = world.refs
  /\ got = 0
  /\ bss = Len(world.syms)
  /\ rela = <<>>
  /\ errs = {} /\ warned = {}

(* The order of elf_output_file(). *)
elf_output_file ==
  \/ Goto("dlls", IF Program THEN "bind_exe" ELSE "build_plt", at > Len(world.libs))
  \/ Goto("bind_exe", IF errs = {} THEN "build_plt" ELSE "failed", at > Len(symtab.syms))
  \/ Goto("build_plt", "build_got", at > Len(refs))
  \/ Goto("build_got", IF Program THEN "bind_libs" ELSE "export", at > Len(refs))

Next ==
  \/ tcc_load_dll
  \/ \E s \in Range(symtab.syms) :
       BindNothing(s) \/ BindMissing(s) \/ BindFunction(s) \/ BindData(s)
  \/ \E r \in Range(refs) : BuildPlt(r) \/ BuildGot(r) \/ BuildNone(r)
  \/ bind_libs_dynsyms \/ export_global_syms \/ relocate \/ update_gnu_hash
  \/ elf_output_file

Spec == Init /\ [][Next]_vars

-----------------------------------------------------------------------------
(* The dynamic loader (external): a name is looked for in the program, and *)
(* then in the libraries in their order; in each the first entry counts.   *)
Libs == [k \in DOMAIN world.libs |-> <<ToString(k), world.libs[k]>>]
Host == <<"host", [i \in 1 .. Len(world.host) |-> Sym(world.host[i], "GLOBAL", "DATA", "", i)]>>
Scope(output) == IF Program THEN <<output>> \o Libs ELSE <<Host, output>> \o Libs
Output == <<"out", dynsym.syms>>

Defines(m, n) == {i \in DOMAIN m[2] : m[2][i].name = n /\ ~Undefined(m[2][i])}
Lookup(scope, n) ==
  LET K == {k \in DOMAIN scope : Defines(scope[k], n) # {}}
      m == scope[Min(K)]
      s == m[2][Min(Defines(m, n))]
  IN IF K = {} THEN Nowhere ELSE <<m[1], s.shndx, s.val.at>>

Found(n) == Lookup(Scope(Output), n)
Filling(sec, n) == {k \in DOMAIN rela : rela[k].sec \in sec /\ rela[k].at = n}
Stored(sec, n) ==
  LET r == rela[Min(Filling(sec, n))]
  IN IF r.type = "RELATIVE" THEN r.add ELSE Found(dynsym.syms[r.sym].name)

(* The address that the code uses at reference j.                          *)
Address(j) ==
  LET i == refs[j].sym
  IN CASE refs[j].how = "GOT" -> Stored({"got"}, attr[i].got)
       [] refs[j].how = "DATA" /\ PIC -> Stored({"data"}, j)
       [] OTHER -> Place(symtab.syms[i])

(* What is there: the function that an entry of the PLT jumps to, the      *)
(* variable that a place in .bss is a copy of.                             *)
Copied(n) ==
  LET r == rela[Min(Filling({"bss"}, n))]
  IN Lookup(Tail(Scope(Output)), dynsym.syms[r.sym].name)
Entity(p) ==
  IF p[1] # "out" THEN p
  ELSE IF p[2] = "PLT" THEN Stored({"got", "plt"}, p[3])
  ELSE IF p[2] = "BSS" /\ Filling({"bss"}, p[3]) # {} THEN Copied(p[3])
  ELSE p

(* The rules of ELF: which definition a name stands for in the output and  *)
(* in the libraries.  The code binds the calls of functions that the       *)
(* output defines itself to those.                                         *)
Written == <<"out", SelectSeq(world.syms, LAMBDA s : s.bind # "LOCAL")>>
Meant(n) == Lookup(Scope(Written), n)
MeantBy(j) ==
  LET s == world.syms[world.refs[j].sym]
  IN IF s.bind = "LOCAL" \/ (refs[j].how = "CALL" /\ ~Undefined(s)) THEN Place(s)
     ELSE Meant(s.name)

-----------------------------------------------------------------------------
(* The weak alias that bind_exe_dynsyms() gets wrong: it takes the first   *)
(* global symbol of any library with the same value for the other name of  *)
(* e, and does not see that the program has that name.                     *)
Astray(e) ==
  LET x == dynsymtab.syms[Min(Aliases(e))]
  IN /\ Aliases(e) # {}
     /\ \/ Meant(x.name) # Meant(e.name)
        \/ \E s \in Range(world.syms) : s.name = x.name
AliasAstray ==
  ~PIC /\ \E s \in Range(world.syms) :
    Undefined(s) /\ Shares(s) /\ Exporter(s).val.type = "obj" /\ Astray(Exporter(s))

Everyone == UNION {Range(world.libs[k]) : k \in DOMAIN world.libs}
Has(n) == \E s \in Range(world.syms) : s.name = n

(* Every call reaches the function, and every pointer the variable, that   *)
(* the rules say, in the output and in the libraries: the relocations and  *)
(* symbols that the steps of elf_output_file() leave to the loader agree.  *)
Bound ==
  pc = "done" /\ ~AliasAstray =>
    /\ \A j \in DOMAIN refs : Entity(Address(j)) = MeantBy(j)
    /\ \A e \in Everyone : Entity(Found(e.name)) = Meant(e.name)

(* Names that a library gives to one variable, of which the program uses   *)
(* the weak one.                                                           *)
WeakAlias(x, y) ==
  /\ x.bind = "WEAK" /\ x.val.type = "obj" /\ Has(x.name)
  /\ Meant(x.name) # Nowhere /\ Meant(x.name) = Meant(y.name)

(* The output and the libraries that use a variable use it in one place,   *)
(* which is the copy in .bss for one that has been copied there; the other *)
(* name of a weak alias goes with it, if the program does not have it too. *)
OneObject ==
  pc = "done" /\ ~AliasAstray =>
    /\ \A j \in DOMAIN refs :
         LET s == world.syms[world.refs[j].sym]
         IN s.bind # "LOCAL" /\ (\E e \in Everyone : e.name = s.name /\ e.val.type = "obj")
              => Address(j) = Found(s.name)
    /\ \A x, y \in Everyone :
         WeakAlias(x, y) /\ ~Has(y.name) => Found(x.name) = Found(y.name)

(* "Ensure R_COPY works for weak symbol aliases" (tccelf.c:1996): a weak   *)
(* name of a variable and its other name stay names of one variable.       *)
WeakAliases ==
  pc = "done" => \A x, y \in Everyone : WeakAlias(x, y) => Found(x.name) = Found(y.name)

(* What a library says about a name that the linker takes for an answer.   *)
Excused(n) ==
  \E e \in Everyone : e.name = n /\ (e.bind = "WEAK" \/ (~PIC /\ e.val.type = "obj"))

(* A program's strong reference to what nothing defines is an error or     *)
(* warned about, unless Excused(); there are no errors without one.        *)
LinkReported ==
  /\ pc = "done" /\ Program => \A s \in Range(world.syms) :
       /\ Undefined(s) /\ s.bind = "GLOBAL" /\ Meant(s.name) = Nowhere
       /\ \E r \in Range(world.refs) : world.syms[r.sym] = s
       => s.name \in warned \/ Excused(s.name)
  /\ pc = "failed" => \A n \in errs :
       /\ Meant(n) = Nowhere
       /\ \E s \in Range(world.syms) : s.name = n /\ Undefined(s) /\ s.bind = "GLOBAL"

=============================================================================
