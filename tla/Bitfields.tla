----------------------------- MODULE Bitfields -----------------------------
(***************************************************************************)
(* Structures of the compiler: where struct_layout() puts the fields, and  *)
(* which bits of memory the code for bit-fields reads and writes.          *)
(*                                                                         *)
(* A state is a structure declaration; every step adds a field.  A byte    *)
(* has CB bits (8).  Data are bits without values: what is loaded or       *)
(* stored is the sequence of the memory's bits, the lowest first.          *)
(***************************************************************************)
EXTENDS Integers, Sequences, FiniteSets

CONSTANTS
  CB,
  MaxFields,
  FieldType,    \* the types of fields
  FieldWidth,   \* of bit-fields; a width of 0 has no name
  Aligned,      \* the values of "aligned", 0 for none
  Pack          \* of "#pragma pack", 0 for none

SizeOf == [char |-> 1, short |-> 2, int |-> 4, llong |-> 8]

Larger(a, b) == IF a > b THEN a ELSE b
RoundUp(n, k) == ((n + k - 1) \div k) * k
RoundDown(n, k) == (n \div k) * k
Bytes(bits) == (bits + CB - 1) \div CB
Bits(from, n) == [i \in 1 .. n |-> from + i - 1]

(* A declaration: [ms, union, packed, aligned, pack].  A field: [bt, bits, *)
(* aligned, packed, named], bits = -1 if it is not a bit-field.            *)
IsBit(f) == f.bits >= 0

-----------------------------------------------------------------------------
(* struct_layout(), the loop over the fields.  s is what it keeps, out has *)
(* of each field its offset, the bit position in it and its type.          *)
Begin == [c |-> 0, bit_pos |-> 0, maxalign |-> 1, prevbt |-> "struct", prev_bit_size |-> 0,
          out |-> <<>>]

Packed(d, f) == (~d.ms /\ (f.packed \/ d.packed)) \/ d.pack # 0
AlignOf(d, f) ==
  LET zero == ~d.ms /\ f.bits = 0
      plain == IF ~zero /\ ~d.ms /\ (f.packed \/ d.packed) THEN 1 ELSE SizeOf[f.bt]
      limited == IF ~zero /\ d.pack # 0 /\ d.pack < plain THEN d.pack ELSE plain
      own == IF ~zero /\ ~d.ms /\ d.pack # 0 /\ d.pack < f.aligned THEN 0 ELSE f.aligned
  IN IF own # 0 THEN own ELSE limited

Placed(s, f, align, offset, pos, bt) ==
  [s EXCEPT !.maxalign = Larger(@, align),
            !.out = Append(@, [c |-> offset, pos |-> pos, bt |-> bt])]

(* Where the next field that is not a bit-field can begin. *)
AfterBits(d, s) == s.c + (IF d.ms THEN 0 ELSE Bytes(s.bit_pos))

InUnion(d, s, f) ==
  LET size == IF ~d.ms /\ IsBit(f) THEN Bytes(f.bits) ELSE SizeOf[f.bt]
  IN Placed([s EXCEPT !.c = Larger(@, size)], f, AlignOf(d, f), 0, 0, f.bt)

Plain(d, s, f) ==
  LET align == AlignOf(d, f)
      offset == RoundUp(AfterBits(d, s), align)
  IN Placed([s EXCEPT !.c = offset + SizeOf[f.bt], !.bit_pos = 0, !.prevbt = "struct",
                      !.prev_bit_size = 0],
            f, align, offset, 0, f.bt)

(* A bit-field that would overflow its base type. *)
Overflows(s, f, align) ==
  (((s.c * CB + s.bit_pos) % (align * CB)) + f.bits + align * CB - 1) \div (align * CB)
    > SizeOf[f.bt] \div align

Pcc(d, s, f) ==
  LET align == AlignOf(d, f)
      packed == f.bits # 0 /\ Packed(d, f)
      new == f.bits = 0 \/ f.aligned # 0 \/ (~packed /\ Overflows(s, f, align))
      c0 == IF new THEN RoundUp(s.c + Bytes(s.bit_pos), align) ELSE s.c
      p0 == IF new THEN 0 ELSE s.bit_pos
      c == c0 + (RoundDown(p0, align * CB) \div CB)
      pos == p0 % (align * CB)
      bt == IF f.bt = "llong" /\ f.bits <= 4 * CB THEN "int" ELSE f.bt
  IN Placed([s EXCEPT !.c = c, !.bit_pos = pos + f.bits],
            f, IF f.named THEN align ELSE 1, c, pos, bt)

Ms(d, s, f) ==
  LET align == AlignOf(d, f)
      size == SizeOf[f.bt]
      run == s.bit_pos + f.bits > size * CB \/ ((f.bits > 0) = (f.bt # s.prevbt))
      c == RoundUp(s.c, align)
      pos == IF run THEN 0 ELSE s.bit_pos
      offset == IF run THEN c ELSE IF s.out = <<>> THEN 0 ELSE s.out[Len(s.out)].c
  IN Placed([s EXCEPT !.c = IF ~run THEN @
                            ELSE IF f.bits # 0 \/ s.prev_bit_size # 0 THEN c + size ELSE c,
                      !.bit_pos = pos + f.bits, !.prevbt = f.bt, !.prev_bit_size = f.bits],
            f, IF f.bits = 0 /\ s.prevbt # f.bt THEN 1 ELSE align, offset, pos, f.bt)

Laid(d, s, f) ==
  IF d.union THEN InUnion(d, s, f)
  ELSE IF ~IsBit(f) THEN Plain(d, s, f)
  ELSE IF d.ms THEN Ms(d, s, f) ELSE Pcc(d, s, f)

SizeAndAlign(d, s) ==
  LET own == IF d.aligned = 0 THEN 1 ELSE d.aligned
      a == Larger(own, s.maxalign)
      b == IF d.pack # 0 /\ d.pack < s.maxalign /\ d.ms THEN Larger(d.pack, own) ELSE a
  IN [size |-> RoundUp(AfterBits(d, s), b), align |-> a]

-----------------------------------------------------------------------------
(* The end of struct_layout(): a bit-field that does not lie within its    *)
(* type is accessed by another one (aux), or byte by byte.                 *)
Narrowest(n) == IF n > 4 THEN "llong" ELSE IF n > 2 THEN "int" ELSE IF n > 1 THEN "short" ELSE "char"

RECURSIVE Sought(_, _, _, _)
Sought(at, bits, bt, c0) ==
  LET cx == RoundDown(at \div CB, SizeOf[bt])
      px == at - cx * CB
  IN IF c0 = cx THEN [c |-> cx, pos |-> px, bt |-> bt]
     ELSE Sought(at, bits, Narrowest(Bytes(px + bits)), cx)

Fits(pos, bits, c, bt, size) == pos + bits <= SizeOf[bt] * CB /\ c + SizeOf[bt] <= size

Access(o, f, size) ==
  LET x == Sought(o.c * CB + o.pos, f.bits, "char", -1)
  IN IF f.bits = 0 \/ Fits(o.pos, f.bits, o.c, o.bt, size)
       THEN [c |-> o.c, pos |-> o.pos, bt |-> o.bt]
     ELSE IF Fits(x.pos, f.bits, x.c, x.bt, size) THEN x
     ELSE [c |-> o.c, pos |-> o.pos, bt |-> "bytes"]

(* load_packed_bf(), store_packed_bf() and, for a static structure,        *)
(* init_putv(): pieces of one byte each, the first at offset pos.          *)
MutPiece(pos, bits) == IF CB < bits THEN CB ELSE bits
Piece(pos, bits) == IF CB - pos < bits THEN CB - pos ELSE bits

RECURSIVE Pieces(_, _, _)
Pieces(byte, pos, bits) ==
  IF bits = 0 THEN <<>>
  ELSE LET n == Piece(pos, bits)
       IN Bits(byte * CB + pos, n) \o Pieces(byte + 1, 0, bits - n)

ByBytes(a, f) == Pieces(a.c + (a.pos \div CB), a.pos % CB, f.bits)

(* gv() and vstore(): a load of the whole type and shifts; the same bits   *)
(* are masked for a store.                                                 *)
Touched(a, f) == IF a.bt = "bytes" THEN ByBytes(a, f) ELSE Bits(a.c * CB + a.pos, f.bits)

(* The bytes that are read, and written again. *)
InSeq(q) == {q[i] : i \in DOMAIN q}
Footprint(a, f) ==
  IF a.bt = "bytes" THEN {b \div CB : b \in InSeq(ByBytes(a, f))}
  ELSE a.c .. a.c + SizeOf[a.bt] - 1

-----------------------------------------------------------------------------
VARIABLES decl, fields, layout
vars == <<decl, fields, layout>>

Init ==
  /\ decl \in [ms : BOOLEAN, union : BOOLEAN, packed : BOOLEAN, aligned : Aligned, pack : Pack]
  /\ fields = <<>> /\ layout = Begin

(* struct_decl(): a width that is the type's makes a plain field. *)
Field ==
  {[bt |-> bt, bits |-> n, aligned |-> a, packed |-> p, named |-> n # 0] :
     bt \in FieldType, n \in FieldWidth \union {-1}, a \in Aligned, p \in BOOLEAN}
Valid(f) == f.bits <= SizeOf[f.bt] * CB /\ (f.bits = SizeOf[f.bt] * CB => f.packed \/ decl.packed)

Declare ==
  /\ Len(fields) < MaxFields
  /\ \E f \in Field :
       /\ Valid(f)
       /\ fields' = Append(fields, f)
       /\ layout' = Laid(decl, layout, f)
  /\ UNCHANGED decl

Spec == Init /\ [][Declare]_vars

-----------------------------------------------------------------------------
Size == SizeAndAlign(decl, layout).size
At(i) == layout.out[i].c * CB + layout.out[i].pos
Count(i) == IF IsBit(fields[i]) THEN fields[i].bits ELSE SizeOf[fields[i].bt] * CB
Here(i) == InSeq(Bits(At(i), Count(i)))
Of(i) == Access(layout.out[i], fields[i], Size)
BitField == {i \in DOMAIN fields : fields[i].bits > 0}

(* With MS bit-fields a zero-width field of another type than the last one *)
(* does not start a run, but the field after it takes it for one that has: *)
(* no room is made for it.                                                 *)
Started ==
  decl.ms => \A i \in DOMAIN fields :
    fields[i].bits = 0 => i > 1 /\ IsBit(fields[i-1]) /\ fields[i-1].bt = fields[i].bt

(* No two fields of a structure share a bit, and all of them are inside.   *)
FieldsApart ==
  Started =>
  /\ \A i \in DOMAIN fields : At(i) + Count(i) <= Size * CB
  /\ ~decl.union => \A i, j \in DOMAIN fields : i # j => Here(i) \intersect Here(j) = {}

(* The code for a bit-field, and for its static initialisation, is about   *)
(* the bits where the field was put, and touches no byte that is not of    *)
(* the structure.                                                          *)
AccessRight ==
  Started =>
  \A i \in BitField :
    /\ Touched(Of(i), fields[i]) = Bits(At(i), fields[i].bits)
    /\ ByBytes(Of(i), fields[i]) = Bits(At(i), fields[i].bits)
    /\ Footprint(Of(i), fields[i]) \subseteq 0 .. Size - 1

(* Without packing and alignments of its own a field is where the ABI has  *)
(* it: at the first bit after the last field from where it does not cross  *)
(* a boundary of its type.                                                 *)
Natural == ~decl.ms /\ ~decl.packed /\ decl.pack = 0 /\ ~decl.union
             /\ \A i \in DOMAIN fields : fields[i].aligned = 0 /\ ~fields[i].packed
AbiPlacement ==
  Natural =>
    \A i \in BitField :
      LET after == IF i = 1 THEN 0 ELSE At(i - 1) + Count(i - 1)
          unit == SizeOf[fields[i].bt] * CB
      IN /\ At(i) >= after
         /\ At(i) \div unit = (At(i) + Count(i) - 1) \div unit
         /\ \A p \in after .. At(i) - 1 : p \div unit # (p + Count(i) - 1) \div unit
=============================================================================
