------------------------------- MODULE ElfSym -------------------------------
(***************************************************************************)
(* The linker's symbol table (tccelf.c): the hashed table that             *)
(* put_elf_sym(), find_elf_sym() and rebuild_hash() maintain, the merging  *)
(* of a new symbol with an old one in set_elf_sym(), the unhashed table of *)
(* a compilation that tccelf_end_file() merges in place, the symbols of    *)
(* objects that are pulled from an archive, and what relocate_syms()       *)
(* reports in the end.                                                     *)
(*                                                                         *)
(* Section numbers are kinds: UNDEF, COMMON, BSS, DATA (any other section) *)
(* and ABS.  A symbol's value, size and type are one model value.  Symbol  *)
(* indices count from 1; 0 is the null symbol.                             *)
(***************************************************************************)
EXTENDS Naturals, Sequences, FiniteSets, Functions

CONSTANTS Name,      \* symbol names
          ElfHash,   \* elf_hash(): a number for each name
          Inputs,    \* the symbols objects and translation units may hold
          Resolved,  \* names that dlsym() or a shared library provides
          Dynsym,    \* is this dynsymtab_section, which holds SHF_DYNSYM?
          MaxSyms,   \* bound: symbols read from objects and compiled
          Library,   \* the archives of a linker script: the index of each
          Member     \* the symbols of each member of each archive

Bind == {"LOCAL", "GLOBAL", "WEAK"}
Shndx == {"UNDEF", "COMMON", "BSS", "DATA", "ABS"}

(* STV_DEFAULT, STV_INTERNAL, STV_HIDDEN, STV_PROTECTED *)
Vis == 0..3
Hidden == {1, 2}

Symbol == [name : Name, bind : Bind, shndx : Shndx, vis : Vis,
           asm_set : BOOLEAN, val : Nat]

ASSUME HashAssumption == ElfHash \in [Name -> Nat]
ASSUME InputAssumption == /\ Inputs \subseteq Symbol
                          /\ Resolved \subseteq Name
                          /\ Dynsym \in BOOLEAN
                          /\ MaxSyms \in Nat
ASSUME LibraryAssumption ==
  /\ Library \in Seq(Seq([name : Name, member : Nat]))
  /\ \A l \in 1..Len(Library) : \A i \in 1..Len(Library[l]) :
       Member[l][Library[l][i].member] \in Seq(Symbol)

(* The index of an archive names what its members define (tcc -ar).        *)
ASSUME IndexAssumption ==
  \A l \in 1..Len(Library) : \A i \in 1..Len(Library[l]) :
    LET x == Library[l][i]
        m == Member[l][x.member]
    IN \E k \in 1..Len(m) : /\ m[k].name = x.name
                            /\ m[k].bind # "LOCAL"
                            /\ m[k].shndx # "UNDEF"

VARIABLES
  tab,     \* the symbol table: syms, its hash, and new_undef_sym
  first,   \* tccelf_begin_file()'s mark: symbols before the compilation
  saved,   \* the hash set aside while compiling
  rels,    \* relocations: symbol index, and the name that was meant
  phase,   \* "link", "compile", "archive" or "done"
  scan,    \* where ld_add_file_list() and tcc_load_alacarte() are
  loads,   \* the members that were loaded, in order
  nread,   \* symbols read so far
  seen,    \* every symbol given to set_elf_sym()
  twice,   \* names reported as "defined twice"
  undef    \* names reported as "undefined symbol"

vars == <<tab, first, saved, rels, phase, scan, loads, nread, seen, twice, undef>>

-----------------------------------------------------------------------------
(* The hash table.  bucket[h] is the newest symbol with hash h (0: none),  *)
(* chain[i] the next older one after symbol i; LOCAL symbols are on no     *)
(* chain.  nb_hashed_syms counts for resizing.                             *)

NoHash == [nb |-> 0, bucket |-> <<>>, chain |-> <<>>, hashed |-> 0]

EmptyHash == [nb |-> 1, bucket |-> [h \in 0..0 |-> 0], chain |-> <<>>, hashed |-> 0]

BucketOf(n, nb) == ElfHash[n] % nb

Largest(S) == IF S = {} THEN 0 ELSE CHOOSE x \in S : \A y \in S : y <= x

(* Mutant: the last symbol is left out when the table is rebuilt. *)
MutRebuild(syms, nb, hashed) ==
  LET On(h, n) == {i \in 1..n : syms[i].bind # "LOCAL"
                                /\ BucketOf(syms[i].name, nb) = h}
  IN [nb |-> nb,
      bucket |-> [h \in 0..(nb - 1) |-> Largest(On(h, Len(syms) - 1))],
      chain |-> [i \in 1..Len(syms) |->
                   IF syms[i].bind = "LOCAL" THEN 0
                   ELSE Largest(On(BucketOf(syms[i].name, nb), i - 1))],
      hashed |-> hashed]

(* rebuild_hash(): symbols are prepended to their chain in order. *)
rebuild_hash(syms, nb, hashed) ==
  LET On(h, n) == {i \in 1..n : syms[i].bind # "LOCAL"
                                /\ BucketOf(syms[i].name, nb) = h}
  IN [nb |-> nb,
      bucket |-> [h \in 0..(nb - 1) |-> Largest(On(h, Len(syms)))],
      chain |-> [i \in 1..Len(syms) |->
                   IF syms[i].bind = "LOCAL" THEN 0
                   ELSE Largest(On(BucketOf(syms[i].name, nb), i - 1))],
      hashed |-> hashed]

(* put_elf_sym(): append e; when there is a hash, prepend it to its chain  *)
(* and double the number of buckets once there are too few.                *)
put_elf_sym(t, e) ==
  LET hs == t.hash
      syms == Append(t.syms, e)
      h == BucketOf(e.name, hs.nb)
      hs1 == [hs EXCEPT !.chain = Append(@, hs.bucket[h]),
                        !.bucket[h] = Len(syms),
                        !.hashed = @ + 1]
  IN [t EXCEPT
      !.syms = syms,
      !.hash = IF hs.nb = 0 THEN hs
               ELSE IF e.bind = "LOCAL" THEN [hs EXCEPT !.chain = Append(@, 0)]
               ELSE IF hs1.hashed > 2 * hs.nb
                      THEN rebuild_hash(syms, 2 * hs.nb, hs1.hashed)
               ELSE hs1]

(* find_elf_sym(): walk the chain of the name's bucket. *)
find_elf_sym(t, n) ==
  LET Walk[i \in 0..Len(t.syms)] ==
        IF i = 0 \/ t.syms[i].name = n THEN i ELSE Walk[t.hash.chain[i]]
  IN IF t.hash.nb = 0 THEN 0 ELSE Walk[t.hash.bucket[BucketOf(n, t.hash.nb)]]

-----------------------------------------------------------------------------
(* set_elf_sym() *)

(* "propagate the most constraining visibility" *)
NewVis(old, new) ==
  IF old = 0 THEN new ELSE IF new = 0 THEN old ELSE IF old < new THEN old ELSE new

InBss(e) == e.shndx \in {"COMMON", "BSS"}

(* Mutant: a strong definition does not override a weak one. *)
MutWeakStays(o, e) ==
  IF e.shndx = "UNDEF" \/ e.bind = "WEAK" \/ o.bind = "WEAK" THEN "keep" ELSE "twice"

(* Mutant: the error case is taken for the shared libraries' case. *)
MutNeverTwice(o, e) ==
  IF e.shndx = "UNDEF" \/ e.bind = "WEAK" THEN "keep"
  ELSE IF o.bind = "WEAK" THEN "patch"
  ELSE IF e.vis \notin Hidden /\ InBss(o) /\ e.shndx = "DATA" THEN "patch" ELSE "keep"

(* Does the new definition e replace the old definition o, is it ignored,  *)
(* or is it an error?  The tests of set_elf_sym(), in their order.         *)
Verdict(o, e) ==
  CASE e.shndx = "UNDEF" -> "keep"
    [] e.shndx # "UNDEF" /\ e.bind = "GLOBAL" /\ o.bind = "WEAK" -> "patch"
    [] e.shndx # "UNDEF" /\ e.bind = "WEAK" -> "keep"
    [] OTHER ->
         IF e.vis \in Hidden THEN "keep"
         ELSE IF InBss(o) /\ e.shndx = "DATA" THEN "patch"
         ELSE IF InBss(e) THEN "keep"
         ELSE IF Dynsym THEN "keep"
         ELSE IF o.asm_set THEN "patch"
         ELSE "twice"

(* The symbol that replaces the old entry o of the same name. *)
Merged(o, e) ==
  IF o = e THEN o
  ELSE IF o.shndx = "UNDEF" THEN e
  ELSE IF Verdict(o, e) = "patch"
         THEN [e EXCEPT !.vis = NewVis(o.vis, e.vis), !.asm_set = o.asm_set]
         ELSE [o EXCEPT !.vis = NewVis(o.vis, e.vis)]

(* The entry was patched, which sets new_undef_sym. *)
Patched(o, e) == o # e /\ (o.shndx = "UNDEF" \/ Verdict(o, e) = "patch")

(* set_elf_sym(): the table, the symbol's index and whether it was an error. *)
set_elf_sym(t, e) ==
  LET i == IF e.bind = "LOCAL" THEN 0 ELSE find_elf_sym(t, e.name)
      o == t.syms[i]
  IN IF i = 0
       THEN [tab |-> put_elf_sym(t, e), index |-> Len(t.syms) + 1, err |-> FALSE]
       ELSE [tab |-> [t EXCEPT !.syms[i] = Merged(o, e),
                               !.new_undef_sym = @ \/ Patched(o, e)],
             index |-> i,
             err |-> o # e /\ o.shndx # "UNDEF" /\ Verdict(o, e) = "twice"]

-----------------------------------------------------------------------------
Init ==
  /\ tab = [syms |-> <<>>, hash |-> EmptyHash, new_undef_sym |-> FALSE]
  /\ first = 0
  /\ saved = NoHash
  /\ rels = <<>>
  /\ phase = "link"
  /\ scan = [group |-> FALSE, lib |-> 1, i |-> 1, bound |-> FALSE,
             left |-> <<>>]
  /\ loads = <<>>
  /\ nread = 0
  /\ seen = {}
  /\ twice = {}
  /\ undef = {}

(* Symbol e of an object file: set_elf_sym(), unless e is in a link-once   *)
(* section that is already there (skip): then the symbol found by its name *)
(* is used.  A relocation of the object refers to the symbol.              *)
LoadSymbol(e, skip) ==
  LET r == IF skip THEN [tab |-> tab, err |-> FALSE,
                         index |-> IF e.bind = "LOCAL" THEN 0
                                   ELSE find_elf_sym(tab, e.name)]
           ELSE set_elf_sym(tab, e)
  IN /\ tab' = r.tab
     /\ rels' = Append(rels, [sym |-> r.index, name |-> e.name])
     /\ seen' = IF skip THEN seen ELSE seen \union {e}
     /\ twice' = IF r.err THEN twice \union {e.name} ELSE twice

(* The next symbol of the objects on the command line.  ELF objects have   *)
(* no undefined local symbols.                                             *)
load_symbol(e, skip) ==
  /\ phase = "link"
  /\ nread < MaxSyms
  /\ e.bind = "LOCAL" => e.shndx # "UNDEF"
  /\ skip => e.shndx = "DATA"
  /\ LoadSymbol(e, skip)
  /\ nread' = nread + 1
  /\ UNCHANGED <<first, saved, phase, scan, loads, undef>>

(* Start of a compilation: mark the end of the table, put the hash aside. *)
tccelf_begin_file ==
  /\ phase = "link"
  /\ phase' = "compile"
  /\ first' = Len(tab.syms)
  /\ saved' = tab.hash
  /\ tab' = [tab EXCEPT !.hash = NoHash]
  /\ UNCHANGED <<rels, scan, loads, nread, seen, twice, undef>>

(* put_extern_sym2() while compiling: without a hash every symbol is new.  *)
(* A later definition of the same C symbol fills in its entry: e is what   *)
(* the entry holds at the end of the file.  References to it are           *)
(* relocations against its provisional index.                              *)
compile_symbol(e) ==
  LET r == set_elf_sym(tab, e)
  IN /\ phase = "compile"
     /\ nread < MaxSyms
     /\ tab' = r.tab
     /\ rels' = Append(rels, [sym |-> r.index, name |-> e.name])
     /\ nread' = nread + 1
     /\ UNCHANGED <<first, saved, phase, scan, loads, seen, twice, undef>>

(* "convert any UNDEF syms to global" *)
Globalize(e) == IF e.shndx = "UNDEF" /\ e.bind = "LOCAL"
                  THEN [e EXCEPT !.bind = "GLOBAL"] ELSE e

(* One round of the loop of tccelf_end_file(): the table was cut back to   *)
(* first entries, but the memory after them still holds the symbols of the *)
(* compilation; symbol i is read from there after the rounds before it may *)
(* have overwritten the memory.  mem is that memory, tr the translation.   *)
EndRound(a, i) ==
  LET e == Globalize(a.mem[first + i])
      r == set_elf_sym(a.tab, e)
      n == Len(r.tab.syms)
  IN [tab |-> r.tab,
      mem |-> [k \in 1..Len(a.mem) |-> IF k <= n THEN r.tab.syms[k] ELSE a.mem[k]],
      tr |-> Append(a.tr, r.index),
      err |-> IF r.err THEN a.err \union {e.name} ELSE a.err,
      got |-> a.got \union {e}]

EndMerge ==
  LET start == [tab |-> [tab EXCEPT !.syms = SubSeq(@, 1, first), !.hash = saved],
                mem |-> tab.syms, tr |-> <<>>, err |-> {}, got |-> {}]
      Round[i \in 0..(Len(tab.syms) - first)] ==
        IF i = 0 THEN start ELSE EndRound(Round[i - 1], i)
  IN Round[Len(tab.syms) - first]

(* Mutant: relocations keep the provisional indices. *)
MutEndFile ==
  LET m == EndMerge
  IN /\ phase = "compile"
     /\ tab' = m.tab
     /\ rels' = rels
     /\ twice' = twice \union m.err
     /\ seen' = seen \union m.got
     /\ phase' = "link"
     /\ first' = 0
     /\ saved' = NoHash
     /\ UNCHANGED <<scan, loads, nread, undef>>

(* End of a compilation: merge its symbols into the hashed table and make  *)
(* the relocations of this compilation refer to the merged symbols.        *)
tccelf_end_file ==
  LET m == EndMerge
  IN /\ phase = "compile"
     /\ tab' = m.tab
     /\ rels' = [k \in DOMAIN rels |->
                   IF rels[k].sym > first
                     THEN [rels[k] EXCEPT !.sym = m.tr[@ - first]] ELSE rels[k]]
     /\ twice' = twice \union m.err
     /\ seen' = seen \union m.got
     /\ phase' = "link"
     /\ first' = 0
     /\ saved' = NoHash
     /\ UNCHANGED <<scan, loads, nread, undef>>

-----------------------------------------------------------------------------
(* Archives.  A linker script names them in GROUP or INPUT; a GROUP is     *)
(* scanned again as long as a symbol was patched.                          *)

Index == Library[scan.lib]

ld_add_file_list(group) ==
  /\ phase = "link"
  /\ phase' = "archive"
  /\ scan' = [group |-> group, lib |-> 1, i |-> 1, bound |-> FALSE,
             left |-> <<>>]
  /\ tab' = [tab EXCEPT !.new_undef_sym = FALSE]
  /\ UNCHANGED <<first, saved, rels, loads, nread, seen, twice, undef>>

(* Does the table want the member that defines n? *)
Wanted(n) ==
  LET i == find_elf_sym(tab, n) IN i # 0 /\ tab.syms[i].shndx = "UNDEF"

(* One entry of the index in tcc_load_alacarte(). *)
alacarte_entry ==
  LET x == Index[scan.i]
  IN /\ phase = "archive"
     /\ scan.lib <= Len(Library)
     /\ scan.i <= Len(Index)
     /\ scan.left = <<>>
     /\ IF Wanted(x.name)
          THEN /\ loads' = Append(loads, <<scan.lib, x.member>>)
               /\ scan' = [scan EXCEPT !.i = @ + 1, !.bound = TRUE,
                                       !.left = Member[scan.lib][x.member]]
          ELSE /\ scan' = [scan EXCEPT !.i = @ + 1]
               /\ loads' = loads
     /\ UNCHANGED <<tab, first, saved, rels, phase, nread, seen, twice, undef>>

(* The member's symbols, one by one, before the next entry is looked at. *)
alacarte_load ==
  /\ phase = "archive"
  /\ scan.left # <<>>
  /\ LoadSymbol(Head(scan.left), FALSE)
  /\ scan' = [scan EXCEPT !.left = Tail(@)]
  /\ UNCHANGED <<first, saved, phase, loads, nread, undef>>

(* The end of the index: again if a member was loaded, else next archive. *)
alacarte_pass ==
  /\ phase = "archive"
  /\ scan.lib <= Len(Library)
  /\ scan.i > Len(Index)
  /\ scan.left = <<>>
  /\ scan' = [scan EXCEPT !.i = 1, !.bound = FALSE,
                          !.lib = IF scan.bound THEN @ ELSE @ + 1]
  /\ UNCHANGED <<tab, first, saved, rels, phase, loads, nread, seen, twice, undef>>

(* Mutant: new_undef_sym is not reset before the archives are read again. *)
MutListEnd ==
  /\ phase = "archive"
  /\ scan.lib > Len(Library)
  /\ IF scan.group /\ tab.new_undef_sym
       THEN /\ scan' = [scan EXCEPT !.lib = 1]
            /\ phase' = phase
       ELSE /\ phase' = "link"
            /\ scan' = scan
  /\ UNCHANGED <<tab, first, saved, rels, loads, nread, seen, twice, undef>>

(* Mutant: a group is read once. *)
MutGroupOnce ==
  /\ phase = "archive"
  /\ scan.lib > Len(Library)
  /\ phase' = "link"
  /\ UNCHANGED <<tab, scan, first, saved, rels, loads, nread, seen, twice, undef>>

(* The end of the list: a GROUP starts over when new_undef_sym is set. *)
ld_list_end ==
  /\ phase = "archive"
  /\ scan.lib > Len(Library)
  /\ IF scan.group /\ tab.new_undef_sym
       THEN /\ tab' = [tab EXCEPT !.new_undef_sym = FALSE]
            /\ scan' = [scan EXCEPT !.lib = 1]
            /\ phase' = phase
       ELSE /\ phase' = "link"
            /\ UNCHANGED <<tab, scan>>
  /\ UNCHANGED <<first, saved, rels, loads, nread, seen, twice, undef>>

-----------------------------------------------------------------------------
(* The link: resolve_common_syms() gives COMMON symbols room in BSS;       *)
(* relocate_syms() reports what is still undefined, weak symbols and those *)
(* that a shared library provides excepted.                                *)
relocate_syms ==
  /\ phase = "link"
  /\ phase' = "done"
  /\ tab' = [tab EXCEPT !.syms = [i \in DOMAIN @ |->
                IF @[i].shndx = "COMMON" THEN [@[i] EXCEPT !.shndx = "BSS"] ELSE @[i]]]
  /\ undef' = {tab.syms[i].name : i \in {i \in DOMAIN tab.syms :
                  /\ tab.syms[i].shndx = "UNDEF"
                  /\ tab.syms[i].name \notin Resolved
                  /\ tab.syms[i].bind # "WEAK"}}
  /\ UNCHANGED <<first, saved, rels, scan, loads, nread, seen, twice>>

Linker == alacarte_entry \/ alacarte_load \/ alacarte_pass \/ ld_list_end

Next ==
  \/ \E e \in Inputs :
       \/ \E skip \in BOOLEAN : load_symbol(e, skip)
       \/ compile_symbol(e)
  \/ tccelf_begin_file
  \/ tccelf_end_file
  \/ \E group \in BOOLEAN : ld_add_file_list(group)
  \/ Linker
  \/ relocate_syms

Spec == Init /\ [][Next]_vars /\ WF_vars(Linker)

-----------------------------------------------------------------------------
(* Properties. *)

Entry(n) == {i \in DOMAIN tab.syms : tab.syms[i].name = n /\ tab.syms[i].bind # "LOCAL"}

(* The definitions of n that were merged, and the references to it. *)
Defs(n) == {e \in seen : e.name = n /\ e.bind # "LOCAL" /\ e.shndx # "UNDEF"}
Refs(n) == {e \in seen : e.name = n /\ e.bind # "LOCAL" /\ e.shndx = "UNDEF"}

(* Every variable has its type (new_symtab(), put_elf_sym()). *)
TypeOK ==
  /\ tab.syms \in Seq(Symbol)
  /\ tab.new_undef_sym \in BOOLEAN
  /\ first \in 0..Len(tab.syms)
  /\ \A r \in Range(rels) : r.sym \in 0..Len(tab.syms) /\ r.name \in Name
  /\ phase \in {"link", "compile", "archive", "done"}
  /\ scan.lib \in 1..(Len(Library) + 1)
  /\ nread \in 0..MaxSyms
  /\ seen \subseteq Symbol
  /\ twice \union undef \subseteq Name

(* Outside a compilation a name has at most one global or weak symbol, and *)
(* find_elf_sym() finds it and no other: chains survive put_elf_sym(), the *)
(* doubling in rebuild_hash(), and the truncation and re-hashing of        *)
(* tccelf_begin_file() and tccelf_end_file().                              *)
HashFinds ==
  phase # "compile" =>
    \A n \in Name : LET i == find_elf_sym(tab, n)
                    IN Entry(n) = IF i = 0 THEN {} ELSE {i}

(* A relocation still refers to a symbol with the name it was written for, *)
(* although tccelf_end_file() merges the symbols of the compilation over   *)
(* the memory they are read from and renumbers them.                       *)
RelocNames ==
  \A r \in Range(rels) : r.sym # 0 => /\ r.sym <= Len(tab.syms)
                                     /\ tab.syms[r.sym].name = r.name

(* Whatever the order in which set_elf_sym() sees the symbols of a name,   *)
(* the entry is defined iff some symbol was, and it is weak only if there  *)
(* was no strong definition.                                               *)
StrongWins ==
  phase # "compile" => \A n \in Name : \A i \in Entry(n) :
    /\ tab.syms[i].shndx = "UNDEF" <=> Defs(n) = {}
    /\ Defs(n) # {} => (tab.syms[i].bind = "WEAK"
                          <=> \A e \in Defs(n) : e.bind = "WEAK")

(* "data symbol gets precedence over common/bss": an entry in common/bss   *)
(* had no strong, visible definition with data, in any order.              *)
DataWins ==
  phase # "compile" => \A n \in Name : \A i \in Entry(n) :
    InBss(tab.syms[i]) =>
      ~ \E e \in Defs(n) : e.bind = "GLOBAL" /\ e.shndx = "DATA" /\ e.vis \notin Hidden

(* Two different strong, visible definitions of a name in data sections    *)
(* are reported, whatever came between them; a .set symbol is exempt.      *)
DuplicateReported ==
  \A n \in Name :
    LET D == {e \in Defs(n) : e.bind = "GLOBAL" /\ e.shndx = "DATA" /\ e.vis \notin Hidden}
    IN /\ Cardinality(D) > 1
       /\ ~Dynsym
       /\ \A e \in seen : e.name = n => ~e.asm_set
       => n \in twice

(* The entry is at least as constrained as every definition that was       *)
(* merged into it, the ones that were overridden included.                 *)
VisOfDefs ==
  phase # "compile" => \A n \in Name : \A i \in Entry(n) : \A e \in Defs(n) :
    e.vis # 0 => tab.syms[i].vis \in 1..e.vis

(* Whatever the order of the symbols: set_elf_sym() leaves the entry that  *)
(* the precedence of strong, weak, common and hidden ones calls for.       *)
Precedence == StrongWins /\ DataWins /\ VisOfDefs

(* "propagate the most constraining visibility", references included. *)
VisMostConstraining ==
  phase # "compile" => \A n \in Name : \A i \in Entry(n) : \A e \in seen :
    e.name = n /\ e.bind # "LOCAL" /\ e.vis # 0 => tab.syms[i].vis \in 1..e.vis

(* relocate_syms() reports a name only if nothing defined it, and reports  *)
(* it if all references to it were strong.                                 *)
UndefReported ==
  phase = "done" => \A n \in Name :
    /\ n \in undef => Defs(n) = {} /\ n \notin Resolved
    /\ /\ Defs(n) = {}
       /\ n \notin Resolved
       /\ Refs(n) # {}
       /\ \A e \in Refs(n) : e.bind = "GLOBAL"
       => n \in undef

(* "only weak symbols are accepted to be undefined": a strong reference to *)
(* a symbol nobody defines is reported.                                    *)
StrongRefReported ==
  phase = "done" => \A n \in Name :
    /\ Defs(n) = {}
    /\ n \notin Resolved
    /\ \E e \in Refs(n) : e.bind = "GLOBAL"
    => n \in undef

(* The linker reports the names with two strong definitions, and those     *)
(* that only strong references want, and does not report any other as      *)
(* undefined.                                                              *)
Reported == DuplicateReported /\ UndefReported

(* No member of an archive is loaded twice: its symbols would be defined   *)
(* twice, and the loop of tcc_load_alacarte() might not end.               *)
MemberOnce ==
  \A j, k \in DOMAIN loads : j # k => loads[j] # loads[k]

(* When an archive has been read, the members it loaded last want nothing  *)
(* more from it; at the end of a GROUP that is so for all its archives.    *)
ScanComplete ==
  [][phase = "archive" =>
     /\ scan'.lib > scan.lib
          => \A i \in DOMAIN Index : ~Wanted(Index[i].name)
     /\ scan.group /\ phase' = "link"
          => \A l \in DOMAIN Library : \A i \in DOMAIN Library[l] :
               ~Wanted(Library[l][i].name)]_vars

(* The loops of tcc_load_alacarte() and ld_add_file_list() end. *)
ArchiveEnds == phase = "archive" ~> phase = "link"

=============================================================================
