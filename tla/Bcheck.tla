------------------------------- MODULE Bcheck -------------------------------
(***************************************************************************)
(* The runtime of "tcc -b" (lib/bcheck.c): threads that allocate, call     *)
(* functions, jump and fork, and the regions the runtime keeps of them     *)
(* under one lock.  The allocator of the C library works outside of it.    *)
(*                                                                         *)
(* Every thread has a stack of frames, MaxDepth at most, each with one     *)
(* local region and at most one from alloca() or a variable length array.  *)
(***************************************************************************)
EXTENDS RegionOps, Sequences, FiniteSets, SequencesExt

CONSTANTS
  Thread, None,
  Block,               \* the addresses the allocator hands out
  Top,                 \* of a thread: where its stack begins
  Sizes, MaxDepth,
  Env,                 \* the jump buffers of a thread
  FREE_REUSE_SIZE,
  Does,                \* of a thread: the calls it makes
  Allowed              \* what an unusual program does: see below

(* "race": a thread gets memory while another one is in realloc();         *)
(* "null": realloc() fails; "jumps": jump buffers are not used in a nested *)
(* way; "off": memory is freed while checking is off.                      *)
Unusual == {"race", "null", "jumps", "off"}

VARIABLES
  used, owned,         \* the allocator's blocks; sizes of those the program holds
  unseen,              \* the blocks that were allocated while checking was off
  frames, envs,        \* of a thread: its frames; the buffers it may jump to
  off,                 \* of a thread: depth at which checking was turned off, or 0
  op, arg, sem,        \* the call a thread is in, its data; who holds the lock
  regions, free_reuse_list, free_reuse_index, alloca_list, jmp_list,
  child                \* of fork(): <<>>, or what the new process begins with

(* The allocator hands out memory where nothing else is, and the stacks of *)
(* the threads are apart from it and from each other.  What a frame keeps  *)
(* is laid out in 8 addresses: its array in three, then its local region.  *)
ASSUME SizesAssumption == Sizes \subseteq 1 .. 3 /\ Sizes # {}
ASSUME ReuseAssumption == FREE_REUSE_SIZE \in Nat \ {0}
ASSUME BlockAssumption ==
  /\ Block \subseteq Nat \ {0}
  /\ \A b, c \in Block, n \in Sizes : b < c => b + n <= c
ASSUME StackAssumption ==
  /\ MaxDepth \in Nat \ {0}
  /\ \A t \in Thread : Top[t] \in Nat
  /\ \A t, u \in Thread : t # u => Top[t] <= Top[u] - 8 * MaxDepth
                                    \/ Top[u] <= Top[t] - 8 * MaxDepth
  /\ \A t \in Thread, b \in Block, n \in Sizes :
       b + n <= Top[t] - 8 * MaxDepth \/ Top[t] <= b

heap == <<used, owned, unseen>>
stack == <<frames, envs, off>>
lists == <<alloca_list, jmp_list>>
reuse == <<free_reuse_list, free_reuse_index>>
vars == <<heap, stack, op, arg, sem, regions, reuse, lists, child>>

NoBlock == 0
Depth(t) == Len(frames[t])
fp(t, d) == Top[t] - 8 * d
Local(t, d) == fp(t, d) + 4
Vla(t, d) == fp(t, d) + 1
Frame(seen) == [seen |-> seen, vla |-> 0]

(* The frame address of a function of the runtime that frame d calls.      *)
Below(t, d, vla) == fp(t, d) + (IF vla = 0 THEN 3 ELSE 0)

Runs(t, what) == op[t] = "run" /\ what \in Does[t]
Checks(t) == off[t] = 0
Calling(t, what, data) ==
  op' = [op EXCEPT ![t] = what] /\ arg' = [arg EXCEPT ![t] = data]
Done(t) == Calling(t, "run", <<>>)
Holds(t, what) == op[t] = what /\ sem = t

(* The entries of a list that are in S, in their order: SelectSeq() as a   *)
(* recursive function, which can be reasoned about.                        *)
Only(s, S) ==
  LET F[n \in 0 .. Len(s)] ==
        IF n = 0 THEN <<>>
        ELSE IF s[n] \in S THEN Append(F[n - 1], s[n]) ELSE F[n - 1]
  IN F[Len(s)]

(* WAIT_SEM(). *)
Locking == {"malloc", "free", "realloc", "call", "leave", "alloca", "setjmp",
            "longjmp", "fork"}
Wait(t) ==
  /\ op[t] \in Locking /\ sem = None
  /\ sem' = t
  /\ UNCHANGED <<heap, stack, op, arg, regions, reuse, lists, child>>

-----------------------------------------------------------------------------
(* The heap: malloc(), free(), realloc(), the call of the C library first  *)
(* and the regions later.                                                  *)
Quiet == "race" \in Allowed \/ \A u \in Thread : op[u] # "realloc"

Malloc(t) ==
  /\ Runs(t, "malloc") /\ Quiet
  /\ \E b \in Block \ used, n \in Sizes :
       /\ used' = used \union {b}
       /\ IF Checks(t)
            THEN /\ Calling(t, "malloc", [ptr |-> b, size |-> n])
                 /\ UNCHANGED <<owned, unseen>>
            ELSE /\ owned' = [owned EXCEPT ![b] = n]
                 /\ unseen' = unseen \union {b}
                 /\ UNCHANGED <<op, arg>>
  /\ UNCHANGED <<stack, sem, regions, reuse, lists, child>>

MallocInsert(t) ==
  /\ Holds(t, "malloc")
  /\ regions' = Inserted(regions, arg[t].ptr, arg[t].size)
  /\ owned' = [owned EXCEPT ![arg[t].ptr] = arg[t].size]
  /\ sem' = None
  /\ Done(t)
  /\ UNCHANGED <<used, unseen, stack, reuse, lists, child>>

Free(t) ==
  /\ Runs(t, "free")
  /\ \E b \in Block :
       /\ owned[b] > 0
       /\ owned' = [owned EXCEPT ![b] = 0]
       /\ unseen' = unseen \ {b}
       /\ IF Checks(t)
            THEN Calling(t, "free", [ptr |-> b]) /\ UNCHANGED used
            ELSE /\ b \in unseen \/ "off" \in Allowed
                 /\ used' = used \ {b}
                 /\ UNCHANGED <<op, arg>>
  /\ UNCHANGED <<stack, sem, regions, reuse, lists, child>>

(* Mutant: the region of a block that is given back at last stays. *)
MutForgotten(R, p) == R

Forgotten(R, p) == IF p # NoBlock THEN Deleted(R, p) ELSE R

(* A block that is known is kept, and marked, until FREE_REUSE_SIZE others *)
(* have been freed.                                                        *)
FreeMark(t) ==
  LET b == arg[t].ptr
      known == \E r \in regions : r.start = b
      p == free_reuse_list[free_reuse_index]
  IN /\ Holds(t, "free")
     /\ IF known
          THEN /\ regions' = Forgotten(Invalidated(regions, b), p)
               /\ free_reuse_list' = [free_reuse_list EXCEPT ![free_reuse_index] = b]
               /\ free_reuse_index' = (free_reuse_index % FREE_REUSE_SIZE) + 1
               /\ Calling(t, "release", [ptr |-> p])
          ELSE Calling(t, "release", arg[t]) /\ UNCHANGED <<regions, reuse>>
     /\ sem' = None
     /\ UNCHANGED <<heap, stack, lists, child>>

Release(t) ==
  /\ op[t] = "release"
  /\ used' = used \ {arg[t].ptr}
  /\ Done(t)
  /\ UNCHANGED <<owned, unseen, stack, sem, regions, reuse, lists, child>>

Failing == IF "null" \in Allowed THEN {NoBlock} ELSE {}

(* realloc(): the block grows where it is, moves, or there is no memory.   *)
Realloc(t) ==
  /\ Runs(t, "realloc") /\ Checks(t) /\ Quiet
  /\ \E b \in Block, n \in Sizes : \E new \in (Block \ used) \union {b} \union Failing :
       /\ owned[b] > 0 /\ b \notin unseen
       /\ used' = IF new = NoBlock THEN used ELSE (used \ {b}) \union {new}
       /\ owned' = IF new = NoBlock THEN owned ELSE [owned EXCEPT ![b] = 0]
       /\ Calling(t, "realloc", [ptr |-> b, new |-> new, size |-> n])
  /\ UNCHANGED <<unseen, stack, sem, regions, reuse, lists, child>>

ReallocMove(t) ==
  LET a == arg[t]
      without == Deleted(regions, a.ptr)
  IN /\ Holds(t, "realloc")
     /\ IF a.new = NoBlock
          THEN regions' = without /\ UNCHANGED owned
          ELSE /\ regions' = Inserted(without, a.new, a.size)
               /\ owned' = [owned EXCEPT ![a.new] = a.size]
     /\ sem' = None
     /\ Done(t)
     /\ UNCHANGED <<used, unseen, stack, reuse, lists, child>>

-----------------------------------------------------------------------------
(* Functions: __bound_local_new(), __bound_local_delete() and, for         *)
(* alloca(), __bound_new_region().                                         *)
Call(t) ==
  /\ Runs(t, "call") /\ Depth(t) < MaxDepth
  /\ IF Checks(t)
       THEN Calling(t, "call", <<>>) /\ UNCHANGED frames
       ELSE /\ frames' = [frames EXCEPT ![t] = Append(@, Frame(FALSE))]
            /\ UNCHANGED <<op, arg>>
  /\ UNCHANGED <<heap, envs, off, sem, regions, reuse, lists, child>>

CallInsert(t) ==
  /\ Holds(t, "call")
  /\ regions' = Inserted(regions, Local(t, Depth(t) + 1), 1)
  /\ frames' = [frames EXCEPT ![t] = Append(@, Frame(TRUE))]
  /\ sem' = None
  /\ Done(t)
  /\ UNCHANGED <<heap, envs, off, reuse, lists, child>>

Leave(t) ==
  /\ Runs(t, "call") /\ Depth(t) > 1
  /\ off[t] < Depth(t)
  /\ IF Checks(t)
       THEN Calling(t, "leave", <<>>) /\ UNCHANGED frames
       ELSE frames' = [frames EXCEPT ![t] = Front(@)] /\ UNCHANGED <<op, arg>>
  /\ UNCHANGED <<heap, envs, off, sem, regions, reuse, lists, child>>

LeaveDelete(t) ==
  LET d == Depth(t)
      mine == {a \in alloca_list : a.fp = fp(t, d)}
  IN /\ Holds(t, "leave")
     /\ regions' = {r \in Deleted(regions, Local(t, d)) : \A a \in mine : a.p # r.start}
     /\ alloca_list' = alloca_list \ mine
     /\ jmp_list' = Only(jmp_list, {j \in Range(jmp_list) : j.fp # fp(t, d)})
     /\ frames' = [frames EXCEPT ![t] = Front(@)]
     /\ envs' = [envs EXCEPT ![t] = Only(@, {e \in Range(@) : e.depth < d})]
     /\ sem' = None
     /\ Done(t)
     /\ UNCHANGED <<heap, off, reuse, child>>

Alloca(t) ==
  /\ Runs(t, "alloca") /\ Checks(t)
  /\ \E n \in Sizes : Calling(t, "alloca", [size |-> n])
  /\ UNCHANGED <<heap, stack, sem, regions, reuse, lists, child>>

(* An array of the same frame that overlaps the new one is gone: the block *)
(* it was declared in has been left and entered again, and a setjmp() in   *)
(* that block cannot be jumped to any more.                                *)
InScope(t) ==
  Only(envs[t], {e \in Range(envs[t]) : e.depth < Depth(t) \/ e.vla = 0})

AllocaInsert(t) ==
  LET d == Depth(t)
      p == Vla(t, d)
      old == {a \in alloca_list : a.fp = fp(t, d) /\ a.p = p}
  IN /\ Holds(t, "alloca")
     /\ regions' = Inserted(IF old = {} THEN regions ELSE Deleted(regions, p),
                            p, arg[t].size)
     /\ alloca_list' = (alloca_list \ old) \union {[fp |-> fp(t, d), p |-> p]}
     /\ frames' = [frames EXCEPT ![t][d].vla = arg[t].size]
     /\ envs' = [envs EXCEPT ![t] = InScope(t)]
     /\ sem' = None
     /\ Done(t)
     /\ UNCHANGED <<heap, off, reuse, jmp_list, child>>

-----------------------------------------------------------------------------
(* __bound_setjmp() and __bound_longjmp().  envs[t] has the buffers that   *)
(* may be jumped to, the one set last at the end; in a nested program that *)
(* is the only one that may be set again, and a jump ends the use of those *)
(* that were set after its own.                                            *)
EnvAt(t, e) == {i \in DOMAIN envs[t] : envs[t][i].env = e}
Nested == "jumps" \notin Allowed

(* The entry of the buffer, if there is one, is the thread's first.        *)
SetLast(t, e) ==
  \A i, k \in DOMAIN jmp_list :
    jmp_list[i].penv = <<t, e>> /\ jmp_list[k].tid = t => i <= k

Setjmp(t) ==
  /\ Runs(t, "jump") /\ Checks(t)
  /\ \E e \in Env :
       /\ Nested => SetLast(t, e)
       /\ Calling(t, "setjmp", [env |-> e])
  /\ UNCHANGED <<heap, stack, sem, regions, reuse, lists, child>>

SetjmpRecord(t) ==
  LET d == Depth(t)
      e == arg[t].env
      new == [penv |-> <<t, e>>, fp |-> fp(t, d),
              end_fp |-> Below(t, d, frames[t][d].vla), tid |-> t]
      at == {i \in DOMAIN jmp_list : jmp_list[i].penv = new.penv}
      others == Only(envs[t], {x \in Range(envs[t]) : x.env # e})
  IN /\ Holds(t, "setjmp")
     /\ jmp_list' = IF at = {} THEN <<new>> \o jmp_list
                    ELSE [i \in DOMAIN jmp_list |-> IF i \in at THEN new ELSE jmp_list[i]]
     /\ envs' = [envs EXCEPT ![t] =
                   Append(others, [env |-> e, depth |-> d, vla |-> frames[t][d].vla])]
     /\ sem' = None
     /\ Done(t)
     /\ UNCHANGED <<heap, frames, off, regions, reuse, alloca_list, child>>

Longjmp(t) ==
  /\ Runs(t, "jump") /\ Checks(t)
  /\ \E i \in DOMAIN envs[t] : Calling(t, "longjmp", [env |-> envs[t][i].env])
  /\ UNCHANGED <<heap, stack, sem, regions, reuse, lists, child>>

(* Mutant: the regions of the frames that are left stay.                   *)
MutUnwound(t, j) == regions

Unwound(t, j) == Purged(regions, fp(t, Depth(t)), j.end_fp)

(* The entries of this thread in front of the buffer's are taken out, then *)
(* the regions of the stack between the two frames.                        *)
LongjmpJump(t) ==
  LET e == arg[t].env
      i == CHOOSE k \in EnvAt(t, e) : TRUE
      to == envs[t][i]
      at == {k \in DOMAIN jmp_list : jmp_list[k].penv = <<t, e>> /\ jmp_list[k].tid = t}
      k == Min(at)
      j == jmp_list[k]
      front == Only(SubSeq(jmp_list, 1, k - 1), {x \in Range(jmp_list) : x.tid # t})
  IN /\ Holds(t, "longjmp")
     /\ IF at = {} THEN UNCHANGED <<regions, lists>>
        ELSE /\ jmp_list' = front \o SubSeq(jmp_list, k, Len(jmp_list))
             /\ regions' = Unwound(t, j)
             /\ alloca_list' = {a \in alloca_list : a.p < fp(t, Depth(t)) \/ a.p > j.end_fp}
     /\ frames' = [frames EXCEPT ![t] =
                     [SubSeq(@, 1, to.depth) EXCEPT ![to.depth].vla = to.vla]]
     /\ envs' = [envs EXCEPT ![t] = IF Nested THEN SubSeq(@, 1, i)
                                    ELSE Only(@, {x \in Range(@) : x.depth <= to.depth})]
     /\ sem' = None
     /\ Done(t)
     /\ UNCHANGED <<heap, off, reuse, child>>

-----------------------------------------------------------------------------
(* __bounds_checking(1) and __bounds_checking(-1), in the same function.   *)
Switch(t) ==
  /\ Runs(t, "off")
  /\ off[t] \in {0, Depth(t)}
  /\ off' = [off EXCEPT ![t] = Depth(t) - @]
  /\ UNCHANGED <<heap, frames, envs, op, arg, sem, regions, reuse, lists, child>>

(* fork(): the new process has this thread only, and everything else as it *)
(* is now; the other threads' calls stay where they are.                   *)
Fork(t) ==
  /\ Runs(t, "fork") /\ child = <<>>
  /\ Calling(t, "fork", <<>>)
  /\ UNCHANGED <<heap, stack, sem, regions, reuse, lists, child>>

(* Mutant: the lock is not waited for. *)
MutForkChild(t) ==
  /\ op[t] = "fork"
  /\ child' = <<[sem |-> sem, regions |-> regions]>>
  /\ Calling(t, "forked", <<>>)
  /\ UNCHANGED <<heap, stack, sem, regions, reuse, lists>>

ForkChild(t) ==
  /\ Holds(t, "fork")
  /\ child' = <<[sem |-> None, regions |-> regions]>>
  /\ sem' = None
  /\ Calling(t, "forked", <<>>)
  /\ UNCHANGED <<heap, stack, regions, reuse, lists>>

(* The child is looked at until its parent returns from fork(). *)
ForkReturn(t) ==
  /\ op[t] = "forked"
  /\ child' = <<>>
  /\ Done(t)
  /\ UNCHANGED <<heap, stack, sem, regions, reuse, lists>>

Init ==
  /\ used = {} /\ owned = [b \in Block |-> 0] /\ unseen = {}
  /\ frames = [t \in Thread |-> <<Frame(TRUE)>>]
  /\ envs = [t \in Thread |-> <<>>] /\ off = [t \in Thread |-> 0]
  /\ op = [t \in Thread |-> "run"] /\ arg = [t \in Thread |-> <<>>]
  /\ sem = None
  /\ regions = {Region(Local(t, 1), 1) : t \in Thread}
  /\ free_reuse_list = [i \in 1 .. FREE_REUSE_SIZE |-> NoBlock] /\ free_reuse_index = 1
  /\ alloca_list = {} /\ jmp_list = <<>>
  /\ child = <<>>

Next ==
  \E t \in Thread :
    \/ Wait(t)
    \/ Malloc(t) \/ MallocInsert(t) \/ Free(t) \/ FreeMark(t) \/ Release(t)
    \/ Realloc(t) \/ ReallocMove(t)
    \/ Call(t) \/ CallInsert(t) \/ Leave(t) \/ LeaveDelete(t)
    \/ Alloca(t) \/ AllocaInsert(t)
    \/ Setjmp(t) \/ SetjmpRecord(t) \/ Longjmp(t) \/ LongjmpJump(t)
    \/ Switch(t) \/ Fork(t) \/ ForkChild(t) \/ ForkReturn(t)

Spec == Init /\ [][Next]_vars

-----------------------------------------------------------------------------
(* The regions a set of frames and blocks stands for. *)
OfFrames(t, fs) ==
  {Region(Local(t, d), 1) : d \in {d \in DOMAIN fs : fs[d].seen}}
    \union {Region(Vla(t, d), fs[d].vla) : d \in {d \in DOMAIN fs : fs[d].vla > 0}}
OfHeap(o) == {Region(b, o[b]) : b \in {b \in Block : o[b] > 0}}
Kept == {free_reuse_list[i] : i \in DOMAIN free_reuse_list} \ {NoBlock}

Valid == {r \in regions : ~r.is_invalid}
OfStacks == UNION {OfFrames(t, frames[t]) : t \in Thread}
OfHeld == {r \in OfHeap(owned) : r.start \notin unseen}
Expected == OfStacks \union OfHeld
Freeing == {arg[t].ptr : t \in {t \in Thread : op[t] \in {"free", "realloc"}}}

(* The runtime knows the memory of the program exactly: the regions that   *)
(* are valid are the frames' and the blocks' the program holds, with their *)
(* sizes, or of a block that a call in progress is about.  Nothing is left *)
(* behind by a function that returns or is jumped out of, by a smaller     *)
(* array in the place of a larger one, or by a block that has been given   *)
(* back and is handed out again.                                           *)
Tracked ==
  /\ Expected \subseteq Valid
  /\ \A r \in Valid \ Expected : r.start \in Freeing

(* A block that was freed is still the runtime's own and marked, so that   *)
(* it is not handed out and every access to it is caught, until            *)
(* FREE_REUSE_SIZE more are freed.                                         *)
FreedKept ==
  /\ Kept \subseteq used
  /\ {r.start : r \in {r \in regions : r.is_invalid}} = Kept
  /\ \A b \in Kept : owned[b] = 0

(* fork() leaves the child a lock that is free and regions that are its    *)
(* thread's and its memory's, whatever the other threads were doing.       *)
ChildSound ==
  \A t \in Thread, i \in DOMAIN child :
    op[t] = "forked" =>
      /\ child[i].sem = None
      /\ OfFrames(t, frames[t]) \subseteq child[i].regions

(* "code generated with bound checks is fully compatible with unchecked    *)
(* code": a block the program holds may be used from end to end.           *)
FullyCompatible ==
  \A b \in Block : owned[b] > 0 => Verdict(regions, b, owned[b]) # "outside"
=============================================================================
