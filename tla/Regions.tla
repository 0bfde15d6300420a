------------------------------ MODULE Regions ------------------------------
(***************************************************************************)
(* What the bounds checker keeps (lib/bcheck.c): a set of regions, and the *)
(* answer to "is p + offset still in the region of p".  Splay shows that   *)
(* the tree of the code is such a set; Bcheck is about who changes it.     *)
(***************************************************************************)
EXTENDS RegionOps

CONSTANTS
  Addr, Size,          \* where a region may be, and how large
  Stack,               \* the parts of the stack that are left by a longjmp()
  Placeable(_, _, _)   \* the regions the program may have besides those there are

VARIABLES regions, ans

-----------------------------------------------------------------------------
Insert(a, size) ==
  /\ Placeable(regions, a, size)
  /\ regions' = Inserted(regions, a, size)
  /\ UNCHANGED ans

Delete(a) == regions' = Deleted(regions, a) /\ UNCHANGED ans

Free(a) == regions' = Invalidated(regions, a) /\ UNCHANGED ans

LongJump(lo, hi) == regions' = Purged(regions, lo, hi) /\ UNCHANGED ans

Check(p, far) == ans' = Verdict(regions, p, far) /\ UNCHANGED regions

Init == regions = {} /\ ans = "inside"

Next ==
  \/ \E a \in Addr, size \in Size : Insert(a, size)
  \/ \E a \in Addr : Delete(a) \/ Free(a)
  \/ \E r \in Stack : LongJump(r[1], r[2])
  \/ \E p \in Addr, far \in Size : Check(p, far)

Spec == Init /\ [][Next]_<<regions, ans>>
=============================================================================
