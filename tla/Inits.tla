-------------------------------- MODULE Inits --------------------------------
(***************************************************************************)
(* Initializers (tccgen.c): decl_initializer() and decl_designator() read  *)
(* a list of initializers, with braces or without, and store them, in the  *)
(* data section or on the stack, where they find that they belong.  The    *)
(* specification is the C standard's (6.7.9): a current object, which      *)
(* every initializer and every designator moves.                           *)
(*                                                                         *)
(* A scalar has the size 1.  A cell holds relocations and a number.        *)
(***************************************************************************)
EXTENDS Integers, SequencesExt, FiniteSetsExt

CONSTANTS InitType,     \* from the names to the types of the objects
          Item(_, _),   \* the items that may come next for a type, at a place
          MaxItems

VARIABLES object,  \* the name of its type, and whether it is a local one
          items    \* what is between the braces so far

-----------------------------------------------------------------------------
(* A type is a number, a character, an array, a structure or a union, with *)
(* its size.  The one array of unknown length has n = -1.  A field without *)
(* a name is an anonymous structure or padding.                            *)
Basic(T) == T.k \in {"num", "chr"}
Array(T) == T.k = "arr"
Union(T) == T.k = "union"
Struct(T) == T.k \in {"struct", "union"}
Flexible(T) == Array(T) /\ T.n = -1
Padding(f) == f.name = "" /\ Basic(f.type)
FlexPart(T) == IF T.k = "struct" THEN Last(T.fields).type ELSE T

(* An item: designators, [first ... last] or .name, and a number, the      *)
(* address of a variable, a string, an expression of the structure type    *)
(* of, or items between braces.                                            *)
Number(n) == [rel |-> <<>>, num |-> n]
Pointer(s) == [rel |-> <<s>>, num |-> 0]
Cell(i) == CASE i.k = "addr" -> Pointer(i.v) [] i.k = "str" -> Pointer("str") [] OTHER -> Number(i.v)

-----------------------------------------------------------------------------
(* The parser: rest is what is left between the braces that are open, flex *)
(* the length of the array of unknown length, mem what is stored.          *)
Fail(st) == [st EXCEPT !.err = TRUE]
Change(st, new) ==
  IF DOMAIN new \subseteq DOMAIN st.mem THEN [st EXCEPT !.mem = new @@ @] ELSE [st EXCEPT !.overflow = TRUE]

(* init_putz(): globals are zero already. *)
init_putz(st, c, n) == IF st.auto THEN Change(st, [x \in c .. c + n - 1 |-> Number(0)]) ELSE st

(* Relocations of what is initialized again go. *)
Mutdecl_design_delrels(st, c, n) == st
decl_design_delrels(st, c, n) ==
  IF st.auto THEN st
  ELSE [st EXCEPT !.mem = [x \in DOMAIN @ |-> IF x \in c .. c + n - 1 THEN [@[x] EXCEPT !.rel = <<>>] ELSE @[x]]]

(* init_putv(): an address is, in a section, a relocation of what is there.*)
(* The address of a string is not: the string is copied.                   *)
init_putv(st, c, v) ==
  Change(st, [x \in {c} |-> IF st.auto THEN v
                            ELSE IF v.rel # <<>> THEN [st.mem[x] EXCEPT !.rel = @ \o v.rel]
                            ELSE [st.mem[x] EXCEPT !.num = v.num]])
PutAll(st, c, cells) ==
  FoldLeft(LAMBDA s, i : init_putv(s, c + i - 1, cells[i]), st, [i \in DOMAIN cells |-> i])
PutCopy(st, c, n, from) ==
  Change(st, [x \in c .. c + n - 1 |-> LET v == st.mem[from + x - c]
                                       IN IF st.auto THEN v ELSE [v EXCEPT !.rel = st.mem[x].rel \o @]])

Known(st, T) == IF Flexible(T) THEN st.flex ELSE T.n
SizeOf(st, T) == IF Array(T) THEN Max({0, Known(st, T)}) * T.of.size ELSE T.size
decl_design_flex(st, T, i) ==
  IF Flexible(T) /\ i >= st.flex THEN [st EXCEPT !.flex = i + 1] ELSE st

(* find_field(): the fields from that one on, in the structure that has    *)
(* it, and its offset in the outer one.                                    *)
RECURSIVE find_field(_, _)
find_field(T, n) ==
  LET none == [f |-> <<>>, ofs |-> 0]
      Here(i) ==
        LET f == T.fields[i]
            deep == IF f.name = "" /\ Struct(f.type) THEN find_field(f.type, n) ELSE none
        IN IF f.name = n THEN [f |-> SubSeq(T.fields, i, Len(T.fields)), ofs |-> f.ofs]
           ELSE [deep EXCEPT !.ofs = @ + f.ofs]
      found == {i \in DOMAIN T.fields : Here(i).f # <<>>}
  IN IF found = {} THEN none ELSE Here(Min(found))

(* The designators of an item; the first one moves the cursor f.           *)
RECURSIVE Designated(_, _)
Designated(w, des) ==
  LET d == Head(des)
      es == w.T.of.size
      field == find_field(w.T, d.name)
      Cursor(f) == IF w.top THEN f ELSE w.f
  IN IF des = <<>> \/ w.st.err THEN w
     ELSE IF w.nb > 1 \/ Basic(w.T) \/ (d.name = "") # Array(w.T) THEN [w EXCEPT !.st.err = TRUE]
     ELSE IF Array(w.T) THEN
       LET st == decl_design_flex(w.st, w.T, d.last)
       IN IF d.last >= Known(st, w.T) THEN [w EXCEPT !.st.err = TRUE]
          ELSE Designated([w EXCEPT !.st = st, !.T = w.T.of, !.c = @ + d.first * es, !.elem = es,
                                    !.nb = d.last - d.first + 1, !.f = Cursor(d.last), !.top = FALSE],
                          Tail(des))
     ELSE IF field.f = <<>> THEN [w EXCEPT !.st.err = TRUE]
     ELSE Designated([w EXCEPT !.T = Head(field.f).type, !.c = @ + field.ofs,
                               !.f = Cursor(field.f), !.top = FALSE], Tail(des))

(* The element at the cursor; padding is passed over. *)
RECURSIVE Proceed(_)
Proceed(w) ==
  IF Array(w.T) THEN
    LET st == decl_design_flex(w.st, w.T, w.f)
        es == w.T.of.size
    IN IF w.f >= Known(st, w.T) THEN [w EXCEPT !.st.err = TRUE]
       ELSE [w EXCEPT !.st = st, !.T = w.T.of, !.c = @ + w.f * es, !.elem = es]
  ELSE IF w.f = <<>> THEN [w EXCEPT !.st.err = TRUE]
  ELSE IF Padding(Head(w.f)) THEN Proceed([w EXCEPT !.f = Tail(@)])
  ELSE [w EXCEPT !.T = Head(w.f).type, !.c = @ + Head(w.f).ofs]

RECURSIVE decl_initializer(_, _, _, _), decl_designator(_, _, _, _, _, _), DoList(_, _, _, _, _, _, _)

(* One item of a container, or of one whose braces are left out: what is   *)
(* parsed, the cursor, and the length that is initialized now.             *)
Element(w, c, fl, al) ==
  LET es == IF w.elem = 0 THEN SizeOf(w.st, w.T) ELSE w.elem
      again == ~fl.dry /\ w.c - c < al
      st1 == IF again THEN decl_design_delrels(w.st, w.c, es * w.nb) ELSE w.st
      st2 == decl_initializer(st1, w.T, w.c, [fl EXCEPT !.first = FALSE, !.clear = @ /\ ~again])
      copies == [i \in 1 .. (IF fl.dry THEN 1 ELSE w.nb) - 1 |-> w.c + i * es]
  IN IF w.st.err THEN [st |-> w.st, f |-> w.f, len |-> al]
     ELSE [st |-> FoldLeft(LAMBDA s, x : PutCopy(s, x, es, w.c), st2, copies), f |-> w.f,
           len |-> Max({al, w.c - c + w.nb * es})]
decl_designator(st, T, c, f, fl, al) ==
  LET des == Head(st.rest).des
      start == [st |-> [st EXCEPT !.rest[1].des = <<>>], T |-> T, c |-> c, f |-> f, elem |-> 0, nb |-> 1,
                top |-> TRUE]
  IN Element(IF des = <<>> THEN Proceed(start) ELSE Designated(start, des), c, fl, al)

(* The loop over the items of a container; own: it has braces of its own.  *)
(* n is the length that the array was known to have before.                *)
Following(T, f) == IF Array(T) THEN f + 1 ELSE IF Union(T) THEN <<>> ELSE Tail(f)
Full(T, f, len, fl) == IF Array(T) THEN len >= fl.n * T.of.size ELSE Following(T, f) = <<>>
Onward(d, T, c, own, fl) ==
  IF d.st.err \/ (~own /\ Full(T, d.f, d.len, fl)) THEN d.st
  ELSE DoList(d.st, T, c, Following(T, d.f), d.len, own, fl)
DoList(st, T, c, f, len, own, fl) ==
  IF st.err \/ st.rest = <<>> THEN st ELSE Onward(decl_designator(st, T, c, f, fl, len), T, c, own, fl)

Fill(st, T, c, own, fl) ==
  LET n == IF Array(T) THEN Known(st, T) ELSE 0
      st1 == IF fl.clear \/ fl.dry THEN st ELSE init_putz(st, c, SizeOf(st, T))
  IN DoList(decl_design_flex(st1, T, 0), T, c, IF Array(T) THEN 0 ELSE T.fields, 0, own,
            [fl EXCEPT !.clear = ~fl.dry, !.n = n])

(* A string for an array of characters. *)
PutString(st, T, c, fl) ==
  LET s == Head(st.rest).init.v
      n == Known(st, T)
      nb == Min({n, Len(s)})
      chars == [i \in 1 .. IF st.auto /\ ~fl.clear THEN n ELSE nb |-> Number(IF i <= nb THEN s[i] ELSE 0)]
      st1 == decl_design_flex(st, T, Len(s))
  IN [IF fl.dry THEN st1 ELSE PutAll(st1, c, chars) EXCEPT !.rest = Tail(@)]

decl_initializer(st, T, c, fl) ==
  LET it == Head(st.rest).init
      braced == it.k = "list"
      Open == IF braced THEN [st EXCEPT !.rest = it.v] ELSE st
      Close(s) == IF ~braced THEN s
                  ELSE IF s.rest # <<>> THEN Fail(s) ELSE [s EXCEPT !.rest = Tail(st.rest)]
      string == Open.rest # <<>> /\ Head(Open.rest).des = <<>> /\ Head(Open.rest).init.k = "str"
      Put(cells) ==
        IF fl.dry \/ (st.auto /\ fl.clear /\ cells = <<Number(0)>>) THEN [st EXCEPT !.rest = Tail(@)]
        ELSE [PutAll(st, c, cells) EXCEPT !.rest = Tail(@)]
  IN IF Array(T) /\ T.of.k = "chr" /\ string THEN Close(PutString(Open, T, c, fl))
     ELSE IF it.k = "obj" /\ Struct(T) /\ it.of = T.name THEN Put(it.v)
     ELSE IF Array(T) \/ Struct(T) THEN
       IF fl.first /\ ~braced THEN Fail(st) ELSE Close(Fill(Open, T, c, braced, fl))
     ELSE IF braced THEN
       IF it.v = <<>> \/ Head(it.v).des # <<>> THEN Fail(st)
       ELSE Close(decl_initializer(Open, T, c, fl))
     ELSE IF it.k = "obj" THEN Fail(st)
     ELSE Put(<<IF it.k = "str" /\ ~st.auto THEN Number(Head(it.v)) ELSE Cell(it)>>)

(* decl_initializer_alloc(): when the length is not known, a first pass    *)
(* only finds it.                                                          *)
Junk == [rel |-> <<"junk">>, num |-> 0]
decl_initializer_alloc(T, auto, init) ==
  LET fl == [first |-> TRUE, dry |-> FALSE, clear |-> FALSE, n |-> 0]
      start == [rest |-> <<[des |-> <<>>, init |-> init]>>, auto |-> auto, flex |-> -1, err |-> FALSE,
                overflow |-> FALSE, mem |-> <<>>]
      flexible == Flexible(FlexPart(T))
      dry == IF flexible THEN decl_initializer(start, T, 0, [fl EXCEPT !.dry = TRUE]) ELSE start
      size == T.size + IF flexible /\ dry.flex > 0 THEN dry.flex * FlexPart(T).of.size ELSE 0
      mem == [x \in 0 .. size - 1 |-> IF auto THEN Junk ELSE Number(0)]
  IN IF dry.err THEN dry
     ELSE decl_initializer([start EXCEPT !.flex = dry.flex, !.mem = mem], T, 0, fl)

-----------------------------------------------------------------------------
(* The specification.  A path leads from an object to a part of it.        *)
Part(T, i) == IF Array(T) THEN T.of ELSE T.fields[i].type
PartOfs(T, i) == IF Array(T) THEN i * T.of.size ELSE T.fields[i].ofs
Sub(T, p) == FoldLeft(Part, T, p)
Ofs(T, p) == FoldLeft(LAMBDA o, k : o + PartOfs(Sub(T, SubSeq(p, 1, k - 1)), p[k]), 0,
                      [k \in DOMAIN p |-> k])
Parts(T) == {i \in DOMAIN T.fields : ~Padding(T.fields[i])}
First(T) == IF Array(T) THEN 0 ELSE Min(Parts(T))
Successors(T, i) ==
  CASE Flexible(T) -> {i + 1}
    [] Array(T) -> {i + 1} \cap 0 .. T.n - 1
    [] Union(T) -> {}
    [] OTHER -> {j \in Parts(T) : j > i}
RECURSIVE NextPart(_, _)
NextPart(T, p) ==
  LET up == Front(p)
      more == Successors(Sub(T, up), Last(p))
  IN IF p = <<>> THEN p ELSE IF more = {} THEN NextPart(T, up) ELSE Append(up, Min(more))

RECURSIVE Named(_, _)
Named(T, n) ==
  LET via(i) ==
        LET f == T.fields[i]
        IN IF f.name = n THEN <<i>>
           ELSE IF f.name = "" /\ Struct(f.type) /\ Named(f.type, n) # <<>> THEN <<i>> \o Named(f.type, n)
           ELSE <<>>
      found == {i \in DOMAIN T.fields : via(i) # <<>>}
  IN IF found = {} THEN <<>> ELSE via(Min(found))

(* The parts that designators denote; more than one for a range.           *)
Steps(T, d) ==
  IF Basic(T) \/ (d.name = "") # Array(T) THEN {}
  ELSE IF ~Array(T) THEN {Named(T, d.name)} \ {<<>>}
  ELSE IF ~Flexible(T) /\ d.last >= T.n THEN {} ELSE {<<i>> : i \in d.first .. d.last}
Denoted(T, des) ==
  FoldLeft(LAMBDA ps, d : UNION {{p \o s : s \in Steps(Sub(T, p), d)} : p \in ps}, {<<>>}, des)

(* An initializer without braces goes to the first part that it fits.      *)
Fits(T, it) ==
  CASE it.k = "list" -> TRUE
    [] it.k = "obj" -> Struct(T) /\ T.name = it.of
    [] it.k = "str" -> Basic(T) \/ (Array(T) /\ T.of.k = "chr")
    [] OTHER -> Basic(T)
RECURSIVE Descend(_, _, _)
Descend(T, p, it) ==
  IF Fits(Sub(T, p), it) \/ Basic(Sub(T, p)) THEN p
  ELSE Descend(T, Append(p, First(Sub(T, p))), it)

(* What is known of the object: its cells, those that were initialized,    *)
(* the members of unions that are, as paths; differs, where the code is    *)
(* known to.                                                               *)
Whatever == [rel |-> <<"any">>, num |-> 0]
MaxCell == 20
Extent(T, p) == IF Flexible(Sub(T, p)) THEN Ofs(T, p) .. MaxCell ELSE Ofs(T, p) .. Ofs(T, p) + Sub(T, p).size - 1
Store(r, new) == [r EXCEPT !.mem = new @@ @]
Write(r, c, v) ==
  LET cells == c .. c + Len(v) - 1
  IN [Store(r, [x \in cells |-> v[x - c + 1]]) EXCEPT !.seen = @ \union cells]
Clear(r, T, p) ==
  [Store(r, [x \in Extent(T, p) |-> Number(0)])
     EXCEPT !.seen = @ \ Extent(T, p), !.active = {m \in @ : ~IsStrictPrefix(p, m)},
            !.flex = IF Flexible(Sub(T, p)) THEN 0 ELSE @]

(* A part of a union's member is initialized: the other members go.        *)
Members(T, p) == {m \in {SubSeq(p, 1, k) : k \in DOMAIN p} : Union(Sub(T, Front(m)))}
Others(r, m) == {o \in r.active : Front(o) = Front(m) /\ o # m}
Enter(r, T, p) ==
  LET Switch(s, m) ==
        IF m \in s.active THEN s
        ELSE [Clear(Store(s, [x \in Extent(T, Front(m)) |-> Whatever]), T, m)
                EXCEPT !.active = (@ \ Others(s, m)) \union {m}]
  IN FoldLeft(Switch, r, SetToSortSeq(Members(T, p), LAMBDA m, n : Len(m) < Len(n)))
Longer(r, T, p) ==
  LET ks == {k \in DOMAIN p : Flexible(Sub(T, SubSeq(p, 1, k - 1)))}
  IN [r EXCEPT !.flex = Max({@} \union {p[k] + 1 : k \in ks})]

-----------------------------------------------------------------------------
(* Where the code differs from the standard.  The unknown length of an     *)
(* array with empty braces is one, and of one without braces an error.  A  *)
(* number is not the address of a string, but what is in the string.  An   *)
(* address is added to the number that was there.                          *)
Unsized(S, it) == Flexible(S) /\ (IF it.k = "list" THEN it.v = <<>> ELSE ~Fits(S, it))
Mistaken(r, S, c, it) ==
  ~r.auto /\ Basic(S) /\ (it.k = "str" \/ (it.k = "addr" /\ r.mem[c].num # 0))

(* The braces of a part were left out, and a designator comes before it is *)
(* complete: it is taken for one of the part.  Or the part ends with       *)
(* padding: it is not seen to be complete.  After a nested designator the  *)
(* code goes on behind the outermost part.                                 *)
Differs(C, at, it) ==
  LET next == NextPart(C, at.now)
      done == {q \in {SubSeq(at.now, 1, k) : k \in Len(at.lead) .. Len(at.now) - 1} : ~IsPrefix(q, next)}
  IN /\ at.now # <<>>
     /\ \/ it.des # <<>> /\ next # at.lead /\ IsPrefix(at.lead, next)
        \/ \E q \in done : Sub(C, q).k = "struct" /\ Padding(Last(Sub(C, q).fields))
        \/ it.des = <<>> /\ at.nested /\ ~IsPrefix(at.lead, next)

(* A part that is initialized again: in globals it is not cleared, in      *)
(* locals it is although only some of its parts are initialized.  Another  *)
(* member of a union is begun in its middle.  [i].name takes the           *)
(* relocations of what follows [i] away.                                   *)
DiffersAt(r, T, p, it) ==
  LET S == Sub(T, p)
      Linked(cells) == \E x \in cells \cap r.seen : r.mem[x].rel # <<>>
      end == Ofs(T, p) + S.size
      overlaid == ~Basic(S) /\ Extent(T, p) \cap r.seen # {}
      whole == it.init.k = "list" \/ (it.init.k = "str" /\ Fits(S, it.init))
      element == CHOOSE q \in {SubSeq(p, 1, k) : k \in DOMAIN p} :
                   /\ Array(Sub(T, Front(q)))
                   /\ \A k \in Len(q) + 1 .. Len(p) : ~Array(Sub(T, SubSeq(p, 1, k - 1)))
  IN \/ overlaid /\ IF whole THEN ~r.auto ELSE ~Fits(S, it.init) /\ (r.auto \/ Linked(Extent(T, p)))
     \/ \E m \in Members(T, p) : m # p /\ Others(r, m) # {}
     \/ /\ ~r.auto /\ ~Array(Sub(T, Front(p)))
        /\ \E k \in 1 .. Len(it.des) - 1 : it.des[k].name = ""
        /\ Linked(end .. end + Sub(T, element).size - S.size - 1)

-----------------------------------------------------------------------------
(* The initializer it of the part p0, and the items of the part top.       *)
RECURSIVE Place(_, _, _, _), Read(_, _, _, _)
Place(r, T, p0, it) ==
  LET p == Descend(T, p0, it)
      S == Sub(T, p)
      c == Ofs(T, p)
      differs == Unsized(Sub(T, p0), it) \/ Mistaken(r, S, c, it)
      in == Longer(Enter([r EXCEPT !.differs = @ \/ differs], T, p), T, p)
      Text(n) == [i \in 1 .. n |-> Number(IF i <= Len(it.v) THEN it.v[i] ELSE 0)]
      only == IF it.k = "list" /\ Len(it.v) = 1 /\ it.v[1].des = <<>> THEN {it.v[1].init} ELSE {}
  IN CASE ~Fits(S, it) \/ (it.k = "list" /\ Basic(S) /\ only = {}) -> [r EXCEPT !.err = TRUE]
       [] it.k = "list" /\ \E i \in only : Basic(S) \/ (i.k = "str" /\ Fits(S, i)) ->
            Place(r, T, p, it.v[1].init)
       [] it.k = "list" /\ ~Basic(S) /\ ~(\E i \in only : i.k = "str" /\ Fits(S, i)) ->
            Read(Clear(in, T, p), T, p, it.v)
       [] it.k = "obj" -> Write(in, c, it.v)
       [] it.k = "str" /\ Array(S) ->
            IF Flexible(S) THEN [Write(in, c, Text(Len(it.v) + 1)) EXCEPT !.flex = Len(it.v) + 1]
            ELSE Write(in, c, Text(S.n))
       [] OTHER -> Write(in, c, <<Cell(it)>>)

(* The items of a list, one after the other.  now is the part that was     *)
(* initialized last, lead the one of this list that it belongs to.         *)
Read(r0, T, top, its) ==
  LET C == Sub(T, top)
      ReadItem(at, it) ==
        LET r == at.r
            ps == IF it.des # <<>> THEN Denoted(C, it.des)
                  ELSE IF at.now = <<>> THEN {<<First(C)>>}
                  ELSE {NextPart(C, at.now)} \ {<<>>}
            order == SetToSortSeq(ps, LAMBDA p, q : Last(p) < Last(q))
            differs == Differs(C, at, it) \/ (ps # {} /\ DiffersAt(r, T, top \o order[1], it))
            inside == it.des = <<>> /\ at.now # <<>> /\ IsPrefix(at.lead, order[1])
            warned == [r EXCEPT !.differs = @ \/ differs]
        IN IF r.err THEN at
           ELSE IF ps = {} THEN [at EXCEPT !.r = [warned EXCEPT !.err = TRUE]]
           ELSE [r |-> FoldLeft(LAMBDA s, p : Place(s, T, top \o p, it.init), warned, order),
                 now |-> Descend(C, Last(order), it.init),
                 lead |-> IF inside THEN at.lead ELSE Last(order),
                 nested |-> IF inside THEN at.nested ELSE it.des # <<>> /\ Len(Last(order)) > 1]
  IN FoldLeft(ReadItem, [r |-> r0, now |-> <<>>, lead |-> <<>>, nested |-> FALSE], its).r

Meaning(T, auto, init) ==
  Place([mem |-> [x \in 0 .. MaxCell |-> Number(0)], seen |-> {}, active |-> {}, flex |-> 0, err |-> FALSE,
         differs |-> FALSE, auto |-> auto], T, <<>>, init)

-----------------------------------------------------------------------------
(* C has no initializers for the flexible member of a local variable; the  *)
(* code accepts them.                                                      *)
Type == InitType[object.type]
Declared == {o \in [type : DOMAIN InitType, auto : BOOLEAN] :
               LET T == InitType[o.type] IN o.auto /\ T.k = "struct" => ~Flexible(FlexPart(T))}
Init == object \in Declared /\ items = <<>>
AddItem ==
  /\ Len(items) < MaxItems
  /\ \E it \in Item(object.type, Len(items) + 1) : items' = Append(items, it)
  /\ UNCHANGED object

Stored == decl_initializer_alloc(Type, object.auto, [k |-> "list", v |-> items])
Meant == Meaning(Type, object.auto, [k |-> "list", v |-> items])
Agree(st, m) ==
  /\ st.err <=> m.err
  /\ ~st.err =>
       LET flexible == FlexPart(Type)
           length == IF Flexible(flexible) THEN m.flex * flexible.of.size ELSE 0
       IN /\ DOMAIN st.mem = 0 .. Type.size + length - 1
          /\ \A x \in DOMAIN st.mem : m.mem[x] \in {st.mem[x], Whatever}

(* What decl_initializer_alloc() stores is what the standard says that the *)
(* initializers mean, the object has the length they give it, and what is  *)
(* refused has no meaning; but for what differs above.  Nothing is ever    *)
(* stored outside of the object.                                           *)
Right(st, m) == ~st.overflow /\ (m.differs \/ Agree(st, m))
InitRight == Right(Stored, Meant)

(* "Array and struct/union elements can be initialized in any order by     *)
(* using designators" (tcc-doc.texi:497).                                  *)
InitInAnyOrder == Agree(Stored, Meant)

=============================================================================
