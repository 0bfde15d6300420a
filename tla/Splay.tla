------------------------------- MODULE Splay -------------------------------
(***************************************************************************)
(* The tree of regions (lib/bcheck.c): splay(), splay_end(),               *)
(* splay_insert(), splay_delete(), and the calls made on them, one round   *)
(* of a loop per step.  The caller holds the semaphore, so that one call   *)
(* is under way at a time (Bcheck is about who holds it).                  *)
(*                                                                         *)
(* A node is named by the address its region begins at: splay_insert()     *)
(* adds none for an address that is in a region.  The fields of a node     *)
(* that is not allocated, and the local variables between two calls, have  *)
(* a value of no meaning, NULL or 0.                                       *)
(***************************************************************************)
EXTENDS RegionOps, Integers

CONSTANTS
  Addr, Limit,         \* the addresses of the program, all below Limit
  Size,                \* sizes of a region; malloc(0) makes one of one byte
  Stack                \* the parts of the stack that are left by a longjmp()

ASSUME MemoryAssumption ==
  /\ Limit \in Nat
  /\ Addr \subseteq 1..(Limit - 1)
  /\ Size \subseteq Nat \ {0}
  /\ Stack \subseteq Nat \X Nat

VARIABLES
  known, size, invalid,  \* the nodes, their sizes, those with is_invalid set
  left, right,           \* of every node and of N, the Tree on the stack of splay()
  tree,                  \* the root
  ans,                   \* what the last check found
  op, addr, len, fp,     \* the call under way and its arguments
  found,                 \* splay_delete(): the node that is taken out
  at, by, t, l, r        \* splay() or splay_end(), and where it is

node == <<known, size, invalid>>
links == <<left, right>>
call == <<op, addr, len, fp>>
loop == <<at, by, t, l, r>>
vars == <<node, links, tree, ans, call, found, loop>>

NULL == 0
N == -1

Reg(n) == [start |-> n, size |-> size[n], is_invalid |-> n \in invalid]

compare(start, n) ==
  IF start < n THEN -1 ELSE IF start >= n + size[n] THEN 1 ELSE 0
compare_end(start, n) ==
  IF start < n + size[n] THEN -1 ELSE IF start > n + size[n] THEN 1 ELSE 0

-----------------------------------------------------------------------------
(* splay() and splay_end(): enter, turn and link until the key is at t or  *)
(* there is nothing to go on to, assemble.                                 *)
Comp(n) == IF by = "splay" THEN compare(addr, n) ELSE compare_end(addr, n)

Ahead ==
  IF Comp(t) < 0 THEN left[t] ELSE IF Comp(t) > 0 THEN right[t] ELSE NULL

Enter(f, root) == at' = "look" /\ by' = f /\ t' = root /\ l' = N /\ r' = N

Return(x) == at' = "return" /\ t' = x /\ UNCHANGED <<by, l, r>>

Turns == at = "look" /\ Ahead # NULL /\ Comp(Ahead) = Comp(t)

RotateRight ==
  /\ Turns /\ Comp(t) < 0
  /\ left' = [left EXCEPT ![t] = right[left[t]]]
  /\ right' = [right EXCEPT ![left[t]] = t]
  /\ t' = left[t]
  /\ at' = "turned"
  /\ UNCHANGED <<node, tree, ans, call, found, by, l, r>>

RotateLeft ==
  /\ Turns /\ Comp(t) > 0
  /\ right' = [right EXCEPT ![t] = left[right[t]]]
  /\ left' = [left EXCEPT ![right[t]] = t]
  /\ t' = right[t]
  /\ at' = "turned"
  /\ UNCHANGED <<node, tree, ans, call, found, by, l, r>>

GoesOn == at \in {"look", "turned"} /\ ~Turns /\ Ahead # NULL

LinkRight ==
  /\ GoesOn /\ Comp(t) < 0
  /\ left' = [left EXCEPT ![r] = t]
  /\ r' = t
  /\ t' = left[t]
  /\ at' = "look"
  /\ UNCHANGED <<node, right, tree, ans, call, found, by, l>>

LinkLeft ==
  /\ GoesOn /\ Comp(t) > 0
  /\ right' = [right EXCEPT ![l] = t]
  /\ l' = t
  /\ t' = right[t]
  /\ at' = "look"
  /\ UNCHANGED <<node, left, tree, ans, call, found, by, r>>

Assemble ==
  /\ at \in {"look", "turned"} /\ Ahead = NULL
  /\ LET right1 == [right EXCEPT ![l] = left[t]]
         left1 == [left EXCEPT ![r] = right[t]]
     IN /\ left' = [left1 EXCEPT ![t] = right1[N], ![N] = NULL]
        /\ right' = [right1 EXCEPT ![t] = left1[N], ![N] = NULL]
  /\ Return(t)
  /\ UNCHANGED <<node, tree, ans, call, found>>

-----------------------------------------------------------------------------
(* A call begins, and ends with the tree it made.                          *)
Begin(o, a, n) ==
  /\ at = "idle"
  /\ op' = o /\ addr' = a /\ len' = n
  /\ UNCHANGED <<node, links, tree, ans, found>>

Finish(root) ==
  /\ tree' = root
  /\ op' = "none" /\ addr' = 0 /\ len' = 0 /\ fp' = <<0, 0>> /\ found' = NULL
  /\ at' = "idle" /\ by' = "splay" /\ t' = NULL /\ l' = N /\ r' = N

(* A correct program: a new region overlaps none, or begins in one that is *)
(* known already (a local variable that is declared in a loop).            *)
Placeable(R, a, n) ==
  \/ \E reg \in R : Covers(reg, a)
  \/ \A reg \in R : a + n <= reg.start \/ End(reg) <= a

Insert(a, n) ==
  /\ Placeable({Reg(x) : x \in known}, a, n)
  /\ Begin("insert", a, n)
  /\ UNCHANGED fp
  /\ IF tree = NULL THEN Return(NULL) ELSE Enter("splay", tree)

(* splay_insert(): it's already there; or a new root.                      *)
IsThere == t # NULL /\ compare(addr, t) = 0

InsertFound ==
  /\ at = "return" /\ op = "insert"
  /\ IsThere
  /\ Finish(t)
  /\ UNCHANGED <<node, links, ans>>

InsertNew ==
  /\ at = "return" /\ op = "insert"
  /\ ~IsThere
  /\ known' = known \union {addr}
  /\ size' = [size EXCEPT ![addr] = len]
  /\ IF t = NULL
     THEN /\ left' = [left EXCEPT ![addr] = NULL]
          /\ right' = [right EXCEPT ![addr] = NULL]
     ELSE IF compare(addr, t) < 0
     THEN /\ left' = [left EXCEPT ![addr] = left[t], ![t] = NULL]
          /\ right' = [right EXCEPT ![addr] = t]
     ELSE /\ right' = [right EXCEPT ![addr] = right[t], ![t] = NULL]
          /\ left' = [left EXCEPT ![addr] = t]
  /\ Finish(addr)
  /\ UNCHANGED <<invalid, ans>>

-----------------------------------------------------------------------------
(* splay_delete(), called on its own and by __bound_long_jump(), which     *)
(* searches the tree again after it.                                       *)
Delete(a) ==
  /\ tree # NULL
  /\ Begin("delete", a, 0)
  /\ UNCHANGED fp
  /\ Enter("splay", tree)

Deletes == at = "return" /\ op \in {"delete", "longjmp"}

Deletion(root) ==
  IF op = "delete" THEN Finish(root)
  ELSE /\ tree' = root /\ found' = NULL
       /\ at' = "search" /\ t' = root
       /\ UNCHANGED <<call, by, l, r>>

DeleteMissed ==
  /\ Deletes /\ found = NULL /\ t # addr
  /\ Deletion(t)
  /\ UNCHANGED <<node, links, ans>>

(* BOUND_FREE(n) *)
FreeNode(n) ==
  /\ known' = known \ {n}
  /\ size' = [size EXCEPT ![n] = 0]
  /\ invalid' = invalid \ {n}

DeleteLeftmost ==
  /\ Deletes /\ found = NULL /\ t = addr /\ left[t] = NULL
  /\ FreeNode(t)
  /\ right' = [right EXCEPT ![t] = NULL]
  /\ Deletion(right[t])
  /\ UNCHANGED <<left, ans>>

(* Mutant: the right part is joined without looking for the largest node   *)
(* of the left part.                                                       *)
MutDeleteSplit ==
  /\ Deletes /\ found = NULL /\ t = addr /\ left[t] # NULL
  /\ found' = t
  /\ Return(left[t])
  /\ UNCHANGED <<node, links, tree, ans, call>>

DeleteSplit ==
  /\ Deletes /\ found = NULL /\ t = addr /\ left[t] # NULL
  /\ found' = t
  /\ Enter("splay", left[t])
  /\ UNCHANGED <<node, links, tree, ans, call>>

DeleteJoin ==
  /\ Deletes /\ found # NULL
  /\ FreeNode(found)
  /\ left' = [left EXCEPT ![found] = NULL]
  /\ right' = [right EXCEPT ![t] = right[found], ![found] = NULL]
  /\ Deletion(t)
  /\ UNCHANGED ans

-----------------------------------------------------------------------------
(* free(): the region at the root, if it is the block's.                   *)
Free(a) ==
  /\ tree # NULL
  /\ Begin("free", a, 0)
  /\ UNCHANGED fp
  /\ Enter("splay", tree)

FreeEnd ==
  /\ at = "return" /\ op = "free"
  /\ invalid' = IF t = addr THEN invalid \union {t} ELSE invalid
  /\ Finish(t)
  /\ UNCHANGED <<known, size, links, ans>>

(* __bound_long_jump(): search for a region that begins in the part of the *)
(* stack, delete it, and start again.                                      *)
InSpan(n) == fp[1] <= n /\ n <= fp[2]

LongJump(lo, hi) ==
  /\ Begin("longjmp", 0, 0)
  /\ fp' = <<lo, hi>>
  /\ at' = "search" /\ t' = tree
  /\ UNCHANGED <<by, l, r>>

Search ==
  /\ at = "search" /\ t # NULL /\ ~InSpan(t)
  /\ t' = IF t < fp[1] THEN right[t] ELSE left[t]
  /\ UNCHANGED <<node, links, tree, ans, call, found, at, by, l, r>>

SearchFound ==
  /\ at = "search" /\ t # NULL /\ InSpan(t)
  /\ addr' = t
  /\ Enter("splay", tree)
  /\ UNCHANGED <<node, links, tree, ans, op, len, fp, found>>

SearchEnd ==
  /\ at = "search" /\ t = NULL
  /\ Finish(tree)
  /\ UNCHANGED <<node, links, ans>>

(* __bound_ptr_add() and __bound_ptr_indirN(): the root first, then the    *)
(* region of the address, then the one that ends there.                    *)
Within(n) == n <= addr /\ addr < n + size[n]

Check(p, far) ==
  /\ tree # NULL
  /\ Begin("check", p, far)
  /\ UNCHANGED fp
  /\ IF tree <= p /\ p < tree + size[tree] THEN Return(tree) ELSE Enter("splay", tree)

CheckAgain ==
  /\ at = "return" /\ op = "check" /\ by = "splay" /\ ~Within(t)
  /\ tree' = t
  /\ Enter("splay_end", t)
  /\ UNCHANGED <<node, links, ans, call, found>>

CheckEnd ==
  /\ at = "return" /\ op = "check" /\ (by = "splay_end" \/ Within(t))
  /\ ans' = IF ~(t <= addr /\ addr <= t + size[t]) THEN "not found"
            ELSE IF t \in invalid \/ addr + len > t + size[t] THEN "outside"
            ELSE "inside"
  /\ Finish(t)
  /\ UNCHANGED <<node, links>>

-----------------------------------------------------------------------------
Init ==
  /\ known = {} /\ invalid = {} /\ size = [n \in Addr |-> 0]
  /\ left = [n \in Addr \union {N} |-> NULL]
  /\ right = [n \in Addr \union {N} |-> NULL]
  /\ tree = NULL /\ ans = "inside"
  /\ op = "none" /\ addr = 0 /\ len = 0 /\ fp = <<0, 0>> /\ found = NULL
  /\ at = "idle" /\ by = "splay" /\ t = NULL /\ l = N /\ r = N

Loop == RotateRight \/ RotateLeft \/ LinkRight \/ LinkLeft \/ Assemble

Next ==
  \/ \E a \in Addr, n \in Size : Insert(a, n)
  \/ \E a \in Addr : Delete(a) \/ Free(a)
  \/ \E s \in Stack : LongJump(s[1], s[2])
  \/ \E p \in Addr, far \in Size : Check(p, far)
  \/ Loop
  \/ InsertFound \/ InsertNew
  \/ DeleteMissed \/ DeleteLeftmost \/ DeleteSplit \/ DeleteJoin
  \/ FreeEnd
  \/ Search \/ SearchFound \/ SearchEnd
  \/ CheckAgain \/ CheckEnd

Spec == Init /\ [][Next]_vars

-----------------------------------------------------------------------------
(* The tree is a set of regions: whatever its shape, every call does to    *)
(* the regions, and every check answers, what Regions says, so that no     *)
(* region is lost when a node is rotated or two subtrees are joined        *)
(* (splay_delete()), the search by ends, in splay_end(), agrees with the   *)
(* order the tree was built in, and the search of a longjmp() misses none. *)
(* A call takes effect when it ends; a longjmp(), with its first step.     *)
Doomed == IF op = "longjmp" THEN {n \in known : InSpan(n)} ELSE {}
Regs == {Reg(n) : n \in known \ Doomed}
Abs == INSTANCE Regions WITH regions <- Regs
TreeIsSet == Abs!Spec
=============================================================================
