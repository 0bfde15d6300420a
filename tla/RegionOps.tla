----------------------------- MODULE RegionOps -----------------------------
(***************************************************************************)
(* What the operations of the bounds checker (lib/bcheck.c) do to a set R  *)
(* of regions.                                                             *)
(***************************************************************************)
EXTENDS Naturals

Region(addr, size) == [start |-> addr, size |-> size, is_invalid |-> FALSE]
End(r) == r.start + r.size
Covers(r, a) == r.start <= a /\ a < End(r)

(* splay_insert(): nothing happens if the address is in a region already.  *)
Inserted(R, a, size) ==
  IF \E r \in R : Covers(r, a) THEN R ELSE R \union {Region(a, size)}

(* splay_delete(): the region that begins there.                           *)
Deleted(R, a) == {r \in R : r.start # a}

Invalidated(R, a) ==
  {IF r.start = a THEN [r EXCEPT !.is_invalid = TRUE] ELSE r : r \in R}

(* __bound_long_jump(): all that begin in a part of the stack.             *)
Purged(R, lo, hi) == {r \in R : ~(lo <= r.start /\ r.start <= hi)}

(* __bound_ptr_add() and __bound_ptr_indirN(): p belongs to the region it  *)
(* points into, else to the one it is the end of.                          *)
Verdict(R, p, far) ==
  LET in == {r \in R : Covers(r, p)}
      at == IF in # {} THEN in ELSE {r \in R : End(r) = p}
  IN IF at = {} THEN "not found"
     ELSE IF \A r \in at : ~r.is_invalid /\ p + far <= End(r) THEN "inside"
     ELSE "outside"
=============================================================================
