---------------------------- MODULE BcheckProofs ----------------------------
(***************************************************************************)
(* Proofs about Bcheck, for any number of threads, blocks, frames and jump *)
(* buffers, of a program that does nothing of what Unusual lists: the      *)
(* runtime knows the memory of the program exactly (Tracked), keeps what   *)
(* was freed (FreedKept), and gives the child of fork() a state that it    *)
(* can go on with (ChildSound).                                            *)
(*                                                                         *)
(* All three follow from IInv, which says of each list of the runtime what *)
(* of the program it stands for, and of the data of each call in progress  *)
(* what may still be done with it.  There is a lemma for each action;      *)
(* those that change the stack of a thread end in FrameStep.               *)
(***************************************************************************)
EXTENDS Bcheck, Integers, NaturalsInduction, WellFoundedInduction, TLAPS

-----------------------------------------------------------------------------
(* Lists.  A set of numbers has a least one; what would be proved by       *)
(* induction takes the least counterexample instead.                       *)
LEMMA LeastNat ==
  ASSUME NEW T, T \subseteq Nat, T # {}
  PROVE  \E m \in T : \A k \in T : m <= k
<1> DEFINE R == OpToRel(<, Nat)
<1>1. PICK m \in T : \A k \in T : ~ (<<k, m>> \in R)
  BY NatLessThanWellFounded, WFMin
<1>2. R = {s \in Nat \X Nat : s[1] < s[2]}
  BY DEF OpToRel
<1> HIDE DEF R
<1>3. ASSUME NEW k \in T, k < m PROVE FALSE
  BY <1>1, <1>2, <1>3
<1> QED
  BY <1>3

(* The function that Only() is defined by, up to the n-th entry.           *)
Filters(s, S, n, f) ==
  f = [i \in 0..n |-> IF i = 0 THEN <<>>
                      ELSE IF s[i] \in S THEN Append(f[i - 1], s[i]) ELSE f[i - 1]]

(* There is one. *)
LEMMA FilterExists ==
  ASSUME NEW s, NEW S, NEW len \in Nat
  PROVE  \E f : Filters(s, S, len, f)
<1> DEFINE Bad == {m \in Nat : ~ \E f : Filters(s, S, m, f)}
<1>1. SUFFICES ASSUME Bad # {} PROVE FALSE
  OBVIOUS
<1>2. PICK m \in Bad : \A k \in Bad : m <= k
  <2>1. Bad \subseteq Nat
    OBVIOUS
  <2> HIDE DEF Bad
  <2> QED
    BY <1>1, <2>1, LeastNat
<1>3. m \in Nat /\ ~ \E f : Filters(s, S, m, f)
  OBVIOUS
<1>4. CASE m = 0
  <2>1. Filters(s, S, m, [i \in 0..0 |-> <<>>])
    BY <1>4 DEF Filters
  <2> QED
    BY <1>3, <2>1
<1>5. CASE m # 0
  <2>1. m - 1 \in Nat /\ m - 1 \notin Bad
    BY <1>2, <1>3, <1>5
  <2>2. PICK f : Filters(s, S, m - 1, f)
    BY <2>1
  <2> DEFINE last == IF s[m] \in S THEN Append(f[m - 1], s[m]) ELSE f[m - 1]
             g == [i \in 0..m |-> IF i = m THEN last ELSE f[i]]
             h == [i \in 0..m |-> IF i = 0 THEN <<>>
                                  ELSE IF s[i] \in S THEN Append(g[i - 1], s[i]) ELSE g[i - 1]]
  <2>3. ASSUME NEW i \in 0..m PROVE g[i] = h[i]
    <3>1. CASE i = 0
      <4>1. f[0] = <<>>
        BY <2>1, <2>2 DEF Filters
      <4> QED
        BY <1>5, <3>1, <4>1
    <3>2. CASE i # 0
      <4>1. i - 1 \in 0..m /\ i - 1 # m
        BY <1>3, <3>2
      <4>2. g[i - 1] = f[i - 1]
        BY <4>1
      <4>3. h[i] = IF s[i] \in S THEN Append(f[i - 1], s[i]) ELSE f[i - 1]
        BY <3>2, <4>2
      <4>4. CASE i = m
        BY <4>3, <4>4
      <4>5. CASE i # m
        <5>1. i \in 0..(m - 1)
          BY <1>3, <4>5
        <5>2. f[i] = IF s[i] \in S THEN Append(f[i - 1], s[i]) ELSE f[i - 1]
          BY <2>2, <3>2, <5>1 DEF Filters
        <5> QED
          BY <4>3, <4>5, <5>2
      <4> QED
        BY <4>4, <4>5
    <3> QED
      BY <3>1, <3>2
  <2>4. Filters(s, S, m, g)
    BY <2>3 DEF Filters
  <2> QED
    BY <1>3, <2>4
<1> QED
  BY <1>4, <1>5

(* r has the entries of s up to the n-th that are in S, in their order.    *)
Sieves(s, S, n, r, g) ==
  /\ g \in [1..Len(r) -> 1..n]
  /\ \A i \in 1..Len(r) : r[i] = s[g[i]] /\ r[i] \in S
  /\ \A i, k \in 1..Len(r) : i < k => g[i] < g[k]
  /\ \A p \in 1..n : s[p] \in S => \E i \in 1..Len(r) : g[i] = p

(* One more entry. *)
LEMMA SieveStep ==
  ASSUME NEW T, NEW s \in Seq(T), NEW S, NEW m \in 1..Len(s),
         NEW r \in Seq(T), NEW g, Sieves(s, S, m - 1, r, g)
  PROVE  LET q == IF s[m] \in S THEN Append(r, s[m]) ELSE r
         IN q \in Seq(T) /\ \E h : Sieves(s, S, m, q, h)
<1>1. s[m] \in T /\ m \in Nat /\ m - 1 \in Nat /\ Len(r) \in Nat
  OBVIOUS
<1>2. CASE s[m] \notin S
  <2>1. Sieves(s, S, m, r, g)
    <3>1. \A p \in 1..m : p = m \/ p \in 1..(m - 1)
      BY <1>1
    <3>2. \A p \in 1..m : s[p] \in S => p \in 1..(m - 1)
      BY <1>2, <3>1
    <3>3. g \in [1..Len(r) -> 1..m]
      BY <1>1 DEF Sieves
    <3> QED
      BY <3>2, <3>3 DEF Sieves
  <2> QED
    BY <1>2, <2>1
<1>3. CASE s[m] \in S
  <2> DEFINE q == Append(r, s[m])
  <2>1. q \in Seq(T) /\ Len(q) = Len(r) + 1 /\ q[Len(q)] = s[m]
        /\ \A i \in 1..Len(r) : q[i] = r[i]
    BY <1>1
  <2> HIDE DEF q
  <2> DEFINE h == [i \in 1..Len(q) |-> IF i = Len(q) THEN m ELSE g[i]]
  <2>3. \A i \in 1..Len(q) : i = Len(q) \/ i \in 1..Len(r)
    BY <1>1, <2>1
  <2>5. Len(q) \in 1..Len(q) /\ \A i \in 1..Len(r) : i \in 1..Len(q) /\ i < Len(q) /\ i # Len(q)
    BY <1>1, <2>1
  <2>0. \A i \in 1..Len(r) : g[i] \in 1..(m - 1) /\ g[i] \in 1..m /\ g[i] < m
    BY <1>1 DEF Sieves
  <2>2. h[Len(q)] = m /\ \A i \in 1..Len(r) : h[i] = g[i] /\ g[i] \in 1..(m - 1)
    BY <2>0, <2>5
  <2>4. h \in [1..Len(q) -> 1..m]
    BY <1>1, <2>0, <2>3
  <2> HIDE DEF h
  <2>6. \A i \in 1..Len(q) : q[i] = s[h[i]] /\ q[i] \in S
    BY <1>3, <2>1, <2>2, <2>3 DEF Sieves
  <2>7. ASSUME NEW i \in 1..Len(q), NEW k \in 1..Len(q), i < k PROVE h[i] < h[k]
    <3>1. i \in 1..Len(r)
      BY <1>1, <2>1, <2>7
    <3>2. CASE k = Len(q)
      BY <2>0, <2>2, <3>1, <3>2
    <3>3. CASE k \in 1..Len(r)
      BY <2>2, <2>7, <3>1, <3>3 DEF Sieves
    <3> QED
      BY <2>3, <3>2, <3>3
  <2>8. ASSUME NEW p \in 1..m, s[p] \in S PROVE \E i \in 1..Len(q) : h[i] = p
    <3>1. CASE p = m
      BY <2>2, <2>5, <3>1
    <3>2. CASE p # m
      <4>1. p \in 1..(m - 1)
        BY <1>1, <3>2
      <4>2. PICK i \in 1..Len(r) : g[i] = p
        BY <2>8, <4>1 DEF Sieves
      <4> QED
        BY <2>2, <2>5, <4>2
    <3> QED
      BY <3>1, <3>2
  <2>9. Sieves(s, S, m, q, h)
    BY <2>4, <2>6, <2>7, <2>8 DEF Sieves
  <2> QED
    BY <1>3, <2>1, <2>9 DEF q
<1> QED
  BY <1>2, <1>3

(* r is s without some of its entries: entry i of r is entry g[i] of s.    *)
Thin(r, s, g) ==
  /\ g \in [1..Len(r) -> 1..Len(s)]
  /\ \A i \in 1..Len(r) : r[i] = s[g[i]]
  /\ \A i, k \in 1..Len(r) : i < k => g[i] < g[k]

(* And all those that are in S are left.                                   *)
Leaves(r, s, S, g) ==
  Thin(r, s, g) /\ \A p \in 1..Len(s) : s[p] \in S => \E i \in 1..Len(r) : g[i] = p

(* What Only() returns: the entries of s that are in S.                    *)
LEMMA OnlyIs ==
  ASSUME NEW T, NEW s \in Seq(T), NEW S, NEW r, r = Only(s, S)
  PROVE  /\ r \in Seq(T)
         /\ \A i \in 1..Len(r) : r[i] \in S
         /\ \E g : Leaves(r, s, S, g)
<1>1. Len(s) \in Nat
  OBVIOUS
<1>2. PICK f : Filters(s, S, Len(s), f) /\ Only(s, S) = f[Len(s)]
  <2>1. \E f : Filters(s, S, Len(s), f)
    BY <1>1, FilterExists
  <2> QED
    BY <2>1 DEF Filters, Only
<1> DEFINE Right(n) == f[n] \in Seq(T) /\ \E g : Sieves(s, S, n, f[n], g)
           Bad == {n \in 0..Len(s) : ~Right(n)}
<1>3. ASSUME Bad # {} PROVE FALSE
  <2>1. PICK m \in Bad : \A k \in Bad : m <= k
    <3>1. Bad \subseteq Nat
      BY <1>1
    <3> HIDE DEF Bad
    <3> QED
      BY <1>3, <3>1, LeastNat
  <2>2. m \in 0..Len(s) /\ ~Right(m)
    OBVIOUS
  <2>3. CASE m = 0
    <3>1. f[0] = <<>>
      BY <1>1, <1>2 DEF Filters
    <3>2. Sieves(s, S, 0, <<>>, <<>>)
      BY DEF Sieves
    <3>3. f[m] \in Seq(T) /\ \E g : Sieves(s, S, m, f[m], g)
      BY <2>3, <3>1, <3>2
    <3> QED
      BY <2>2, <3>3
  <2>4. CASE m # 0
    <3>0. m \in 1..Len(s) /\ m - 1 \in 0..Len(s) /\ ~(m <= m - 1)
      BY <1>1, <2>2, <2>4
    <3>1. m \in 1..Len(s) /\ m - 1 \in 0..Len(s) /\ m - 1 \notin Bad
      <4> HIDE DEF Bad
      <4> QED
        BY <2>1, <3>0
    <3>2. f[m - 1] \in Seq(T) /\ \E g : Sieves(s, S, m - 1, f[m - 1], g)
      BY <3>1
    <3>3. f[m] = IF s[m] \in S THEN Append(f[m - 1], s[m]) ELSE f[m - 1]
      BY <1>2, <2>4, <3>1 DEF Filters
    <3>4. PICK q \in Seq(T) : q = f[m - 1]
      BY <3>2
    <3>5. PICK g : Sieves(s, S, m - 1, q, g)
      BY <3>2, <3>4
    <3>6. f[m] \in Seq(T) /\ \E h : Sieves(s, S, m, f[m], h)
      BY <3>1, <3>3, <3>4, <3>5, SieveStep
    <3> QED
      BY <2>2, <3>6
  <2> QED
    BY <2>3, <2>4
<1>4. Right(Len(s))
  BY <1>1, <1>3
<1>6. r \in Seq(T) /\ \E g : Sieves(s, S, Len(s), r, g)
  BY <1>2, <1>4
<1>7. PICK g : Sieves(s, S, Len(s), r, g)
  BY <1>6
<1>8. Leaves(r, s, S, g)
  BY <1>7 DEF Sieves, Thin, Leaves
<1> HIDE DEF Right, Bad
<1> QED
  BY <1>6, <1>7, <1>8 DEF Sieves

-----------------------------------------------------------------------------
(* What a thread is doing, and the blocks that its call of the runtime is  *)
(* about; those that are being freed or moved still have their regions.    *)
Ops == {"run", "release", "forked"} \union Locking

Calls ==
  /\ op \in [Thread -> Ops]
  /\ arg = [t \in Thread |-> arg[t]]

Touched(o, a) ==
  ((IF o \in {"malloc", "free", "realloc", "release"} THEN {a.ptr} ELSE {})
     \union (IF o = "realloc" THEN {a.new} ELSE {})) \ {NoBlock}

(* What is known of the data of a call that is about a block. *)
BlockCall(o, a) ==
  /\ o \in {"malloc", "free", "realloc"} => a.ptr \in Block
  /\ o = "release" => a.ptr \in Block \union {NoBlock}
  /\ o \in {"malloc", "realloc"} => a.size \in Sizes
  /\ o = "realloc" => a.new \in Block

(* A block is held by the program, or being freed, moved or allocated by   *)
(* one thread, or kept; none of these is the allocator's to hand out, but  *)
(* the block that realloc() has moved away from.                           *)
Reuse ==
  /\ free_reuse_list \in [1..FREE_REUSE_SIZE -> Block \union {NoBlock}]
  /\ free_reuse_index \in 1..FREE_REUSE_SIZE
  /\ \A i, k \in 1..FREE_REUSE_SIZE :
       i # k => free_reuse_list[i] # free_reuse_list[k] \/ free_reuse_list[i] = NoBlock

Blocks ==
  /\ used \subseteq Block
  /\ unseen \subseteq Block
  /\ owned \in [Block -> Sizes \union {0}]
  /\ \A b \in Block : owned[b] > 0 => b \in used
  /\ \A b \in unseen : owned[b] > 0
  /\ \A b \in Kept : b \in used /\ owned[b] = 0

InCalls ==
  /\ \A t \in Thread : BlockCall(op[t], arg[t])
  /\ \A t \in Thread : \A b \in Touched(op[t], arg[t]) :
       /\ owned[b] = 0 /\ b \notin Kept
       /\ b \in used \/ (op[t] = "realloc" /\ b # arg[t].new)
  /\ \A t, u \in Thread : t # u =>
       /\ Touched(op[t], arg[t]) \cap Touched(op[u], arg[u]) = {}
       /\ ~(op[t] = "realloc" /\ op[u] = "realloc")

(* The frames of a thread: while checking is off, those that were entered  *)
(* since have no region.                                                   *)
FrameSet == [seen : BOOLEAN, vla : Sizes \union {0}]

StackRight(o, a, fs, n) ==
  /\ fs \in Seq(FrameSet)
  /\ Len(fs) \in 1..MaxDepth
  /\ n \in 0..Len(fs)
  /\ \A d \in 1..Len(fs) : (fs[d].seen <=> n = 0 \/ d <= n) /\ (fs[d].vla > 0 => fs[d].seen)
  /\ o \in {"call", "leave", "alloca", "setjmp", "longjmp"} => n = 0
  /\ o = "call" => Len(fs) < MaxDepth
  /\ o = "leave" => Len(fs) > 1
  /\ o = "alloca" => a.size \in Sizes

Stacks == /\ frames = [t \in Thread |-> frames[t]] /\ off = [t \in Thread |-> off[t]]
          /\ \A t \in Thread : StackRight(op[t], arg[t], frames[t], off[t])

(* The entries of alloca_list are the arrays that there are. *)
Arrays ==
  alloca_list = UNION {{[fp |-> fp(t, d), p |-> Vla(t, d)] :
                           d \in {d \in 1..Len(frames[t]) : frames[t][d].vla > 0}} : t \in Thread}

(* A region is a local one or an array of a frame, or of a block that is   *)
(* held, being freed or moved, or kept; and those have their regions.      *)
OfStack(r) ==
  \E t \in Thread : \E d \in 1..Len(frames[t]) :
    \/ frames[t][d].seen /\ r = Region(Local(t, d), 1)
    \/ frames[t][d].vla > 0 /\ r = Region(Vla(t, d), frames[t][d].vla)

Triple(r) == r = [start |-> r.start, size |-> r.size, is_invalid |-> r.is_invalid]
FreedRegion(b, n) == [start |-> b, size |-> n, is_invalid |-> TRUE]

OfBlock(r) ==
  /\ Triple(r)
  /\ r.start \in Block /\ r.size \in Sizes
  /\ \/ r.is_invalid = TRUE /\ r.start \in Kept
     \/ r.is_invalid = FALSE /\ r.start \in Freeing
     \/ r.is_invalid = FALSE /\ r.size = owned[r.start] /\ r.start \notin unseen

StackKnown ==
  \A t \in Thread : \A d \in 1..Len(frames[t]) :
    /\ frames[t][d].seen => Region(Local(t, d), 1) \in regions
    /\ frames[t][d].vla > 0 => Region(Vla(t, d), frames[t][d].vla) \in regions

HeapKnown ==
  /\ \A b \in Block : owned[b] > 0 /\ b \notin unseen => Region(b, owned[b]) \in regions
  /\ \A b \in Kept : \E n \in Sizes : FreedRegion(b, n) \in regions

Known == (\A r \in regions : OfStack(r) \/ OfBlock(r)) /\ StackKnown /\ HeapKnown

(* The buffers: an entry of jmp_list for each that may be jumped to, with  *)
(* the frame address it was set at, newer ones in front of older ones.     *)
Jump == [penv : Thread \X Env, fp : Int, end_fp : Int, tid : Thread]

ListRight(L) ==
  /\ L \in Seq(Jump)
  /\ \A k \in 1..Len(L) : L[k].penv[1] = L[k].tid
  /\ \A k, m \in 1..Len(L) : k # m => L[k].penv # L[m].penv

Records(t, x, j) ==
  /\ j.penv = <<t, x.env>> /\ j.tid = t
  /\ j.fp = fp(t, x.depth) /\ j.end_fp = Below(t, x.depth, x.vla)

EnvOf(fs, x) == x.depth \in 1..Len(fs) /\ (x.vla # 0 => fs[x.depth].vla = x.vla)

EnvsRight(t, es, fs, n, L) ==
  /\ es \in Seq([env : Env, depth : Nat, vla : Sizes \union {0}])
  /\ \A i \in 1..Len(es) : /\ EnvOf(fs, es[i]) /\ (n # 0 => es[i].depth <= n)
                           /\ \E k \in 1..Len(L) : Records(t, es[i], L[k])
  /\ \A i, m \in 1..Len(es) : i < m =>
       /\ es[i].env # es[m].env
       /\ es[i].depth <= es[m].depth
       /\ es[i].depth = es[m].depth /\ es[i].vla # 0 => es[m].vla = es[i].vla
       /\ \A k, l \in 1..Len(L) :
            L[k].penv = <<t, es[i].env>> /\ L[l].penv = <<t, es[m].env>> => l < k

First(t, e, L) ==
  \A i, k \in 1..Len(L) : L[i].penv = <<t, e>> /\ L[k].tid = t => i <= k

JumpCall(t, o, a, es, L) ==
  /\ o = "setjmp" => a.env \in Env /\ First(t, a.env, L)
  /\ o = "longjmp" => \E i \in 1..Len(es) : es[i].env = a.env

Jumps ==
  /\ envs = [t \in Thread |-> envs[t]]
  /\ ListRight(jmp_list)
  /\ \A t \in Thread : /\ EnvsRight(t, envs[t], frames[t], off[t], jmp_list)
                       /\ JumpCall(t, op[t], arg[t], envs[t], jmp_list)

(* The child of a thread that has not returned from fork(). *)
Child ==
  \A t \in Thread, i \in DOMAIN child :
    op[t] = "forked" =>
      /\ child[i].sem = None
      /\ \A d \in 1..Len(frames[t]) :
           /\ frames[t][d].seen => Region(Local(t, d), 1) \in child[i].regions
           /\ frames[t][d].vla > 0 => Region(Vla(t, d), frames[t][d].vla) \in child[i].regions

(* All of it, which every step preserves.                                  *)
IInv == Calls /\ Reuse /\ Blocks /\ InCalls /\ Stacks /\ Arrays /\ Known /\ Jumps /\ Child

-----------------------------------------------------------------------------
(* No block and no array is empty.                                         *)
LEMMA SizesAre == \A n \in Sizes : n \in Nat /\ n > 0 /\ n # 0
  BY SizesAssumption

(* What frames keep is at different addresses.                             *)
LEMMA FrameLayout ==
  ASSUME NEW t \in Thread, NEW u \in Thread, NEW d \in 1..MaxDepth, NEW e \in 1..MaxDepth
  PROVE  /\ fp(t, d) \in Int /\ Local(t, d) = fp(t, d) + 4 /\ Vla(t, d) = fp(t, d) + 1
         /\ t # u \/ d # e => fp(t, d) + 8 <= fp(u, e) \/ fp(u, e) + 8 <= fp(t, d)
<1>1. Top[t] \in Nat /\ Top[u] \in Nat /\ MaxDepth \in Nat
  BY StackAssumption
<1>2. fp(t, d) \in Int /\ Local(t, d) = fp(t, d) + 4 /\ Vla(t, d) = fp(t, d) + 1
  BY <1>1 DEF fp, Local, Vla
<1>3. ASSUME t # u PROVE fp(t, d) + 8 <= fp(u, e) \/ fp(u, e) + 8 <= fp(t, d)
  <2>1. Top[t] <= Top[u] - 8 * MaxDepth \/ Top[u] <= Top[t] - 8 * MaxDepth
    BY <1>3, StackAssumption
  <2> QED
    BY <1>1, <2>1 DEF fp
<1>4. ASSUME t = u, d # e PROVE fp(t, d) + 8 <= fp(u, e) \/ fp(u, e) + 8 <= fp(t, d)
  BY <1>1, <1>4 DEF fp
<1> QED
  BY <1>2, <1>3, <1>4

(* Of what is in a frame, an address is only in the region that begins     *)
(* there.                                                                  *)
LEMMA FrameCovers ==
  ASSUME NEW t \in Thread, NEW u \in Thread, NEW d \in 1..MaxDepth, NEW e \in 1..MaxDepth,
         NEW n \in Sizes
  PROVE  /\ Covers(Region(Local(u, e), 1), Local(t, d)) => t = u /\ d = e
         /\ ~Covers(Region(Local(u, e), 1), Vla(t, d))
         /\ ~Covers(Region(Vla(u, e), n), Local(t, d))
         /\ Covers(Region(Vla(u, e), n), Vla(t, d)) => t = u /\ d = e
<1>1. /\ fp(t, d) \in Int /\ Local(t, d) = fp(t, d) + 4 /\ Vla(t, d) = fp(t, d) + 1
      /\ t # u \/ d # e => fp(t, d) + 8 <= fp(u, e) \/ fp(u, e) + 8 <= fp(t, d)
  BY FrameLayout
<1>2. fp(u, e) \in Int /\ Local(u, e) = fp(u, e) + 4 /\ Vla(u, e) = fp(u, e) + 1
  BY FrameLayout
<1>3. n \in 1..3
  BY SizesAssumption
<1>4. \A a, m, p : Covers(Region(a, m), p) <=> a <= p /\ p < a + m
  BY DEF Covers, Region, End
<1>5. t = u /\ d = e => fp(t, d) = fp(u, e)
  OBVIOUS
<1> QED
  BY <1>1, <1>2, <1>3, <1>4, <1>5

(* Blocks are apart from the stacks and from each other.                   *)
LEMMA BlockCovers ==
  ASSUME NEW t \in Thread, NEW d \in 1..MaxDepth, NEW b \in Block, NEW c \in Block,
         NEW n \in Sizes
  PROVE  /\ ~(b <= Local(t, d) /\ Local(t, d) < b + n)
         /\ ~(b <= Vla(t, d) /\ Vla(t, d) < b + n)
         /\ ~Covers(Region(Local(t, d), 1), b)
         /\ ~Covers(Region(Vla(t, d), n), b)
         /\ b <= c /\ c < b + n => b = c
<1>1. Top[t] \in Nat /\ MaxDepth \in Nat /\ b \in Nat /\ c \in Nat /\ n \in 1..3
  BY StackAssumption, BlockAssumption, SizesAssumption
<1>2. b + n <= Top[t] - 8 * MaxDepth \/ Top[t] <= b
  BY StackAssumption
<1>3. b < c => b + n <= c
  BY BlockAssumption
<1>4. \A a, m, p : Covers(Region(a, m), p) <=> a <= p /\ p < a + m
  BY DEF Covers, Region, End
<1>5. /\ fp(t, d) \in Int /\ Local(t, d) = fp(t, d) + 4 /\ Vla(t, d) = fp(t, d) + 1
      /\ Top[t] - 8 * MaxDepth <= fp(t, d) /\ fp(t, d) + 8 <= Top[t]
  BY <1>1 DEF fp, Local, Vla
<1> QED
  BY <1>1, <1>2, <1>3, <1>4, <1>5

(* What a frame has.                                                       *)
LEMMA FrameHas ==
  ASSUME Stacks, NEW t \in Thread, NEW d \in 1..Len(frames[t])
  PROVE  /\ d \in 1..MaxDepth
         /\ frames[t][d].vla \in Sizes \union {0}
         /\ frames[t][d].vla > 0 => frames[t][d].vla \in Sizes
<1>1. frames[t] \in Seq(FrameSet) /\ Len(frames[t]) \in 1..MaxDepth /\ MaxDepth \in Nat
  BY StackAssumption DEF Stacks, StackRight
<1>2. d \in 1..MaxDepth
  BY <1>1
<1>3. frames[t][d] \in FrameSet
  BY <1>1
<1>4. frames[t][d].vla \in Sizes \union {0}
  BY <1>3 DEF FrameSet
<1> QED
  BY <1>2, <1>4

(* Which addresses of frames and blocks are in a region of a frame.        *)
LEMMA StackCovers ==
  ASSUME Stacks, NEW r, OfStack(r)
  PROVE  /\ \A t \in Thread, d \in 1..MaxDepth :
              /\ Covers(r, Local(t, d)) =>
                   d \in 1..Len(frames[t]) /\ frames[t][d].seen /\ r = Region(Local(t, d), 1)
              /\ Covers(r, Vla(t, d)) =>
                   /\ d \in 1..Len(frames[t]) /\ frames[t][d].vla > 0
                   /\ r = Region(Vla(t, d), frames[t][d].vla)
         /\ \A b \in Block : ~Covers(r, b)
         /\ Covers(r, r.start)
<1>1. PICK u \in Thread : \E e \in 1..Len(frames[u]) :
        \/ frames[u][e].seen /\ r = Region(Local(u, e), 1)
        \/ frames[u][e].vla > 0 /\ r = Region(Vla(u, e), frames[u][e].vla)
  BY DEF OfStack
<1>2. PICK e \in 1..Len(frames[u]) :
        \/ frames[u][e].seen /\ r = Region(Local(u, e), 1)
        \/ frames[u][e].vla > 0 /\ r = Region(Vla(u, e), frames[u][e].vla)
  BY <1>1
<1>3. e \in 1..MaxDepth /\ (frames[u][e].vla > 0 => frames[u][e].vla \in Sizes)
  BY FrameHas
<1>4. PICK m \in Sizes : m \in 1..3
  BY SizesAssumption
<1>5. fp(u, e) \in Int /\ Local(u, e) = fp(u, e) + 4 /\ Vla(u, e) = fp(u, e) + 1
  BY <1>3, FrameLayout
<1>6. CASE frames[u][e].seen /\ r = Region(Local(u, e), 1)
  <2>1. ASSUME NEW t \in Thread, NEW d \in 1..MaxDepth
        PROVE  /\ Covers(r, Local(t, d)) => t = u /\ d = e
               /\ ~Covers(r, Vla(t, d))
    BY <1>3, <1>4, <1>6, FrameCovers
  <2>2. \A b \in Block : ~Covers(r, b)
    BY <1>3, <1>4, <1>6, BlockCovers
  <2>3. Covers(r, r.start)
    BY <1>5, <1>6 DEF Covers, Region, End
  <2> QED
    BY <1>2, <1>6, <2>1, <2>2, <2>3
<1>7. CASE frames[u][e].vla > 0 /\ r = Region(Vla(u, e), frames[u][e].vla)
  <2>1. PICK n \in Sizes : n = frames[u][e].vla /\ n \in 1..3
    BY <1>3, <1>7, SizesAssumption
  <2>2. ASSUME NEW t \in Thread, NEW d \in 1..MaxDepth
        PROVE  /\ ~Covers(r, Local(t, d))
               /\ Covers(r, Vla(t, d)) => t = u /\ d = e
    BY <1>3, <1>7, <2>1, FrameCovers
  <2>3. \A b \in Block : ~Covers(r, b)
    BY <1>3, <1>7, <2>1, BlockCovers
  <2>4. Covers(r, r.start)
    BY <1>5, <1>7, <2>1 DEF Covers, Region, End
  <2> QED
    BY <1>2, <1>7, <2>2, <2>3, <2>4
<1> QED
  BY <1>2, <1>6, <1>7

(* Which are in the region of a block.                                     *)
LEMMA BlockRegion ==
  ASSUME NEW r, OfBlock(r)
  PROVE  /\ \A t \in Thread, d \in 1..MaxDepth : ~Covers(r, Local(t, d)) /\ ~Covers(r, Vla(t, d))
         /\ \A b \in Block : Covers(r, b) => r.start = b
         /\ Covers(r, r.start)
<1>1. PICK c \in Block : c = r.start
  BY DEF OfBlock
<1>2. PICK n \in Sizes : n = r.size
  BY DEF OfBlock
<1>3. c \in Nat /\ n \in 1..3
  BY BlockAssumption, SizesAssumption
<1>4. \A p : Covers(r, p) <=> c <= p /\ p < c + n
  BY <1>1, <1>2 DEF Covers, End
<1>5. \A t \in Thread, d \in 1..MaxDepth : ~Covers(r, Local(t, d)) /\ ~Covers(r, Vla(t, d))
  BY <1>4, BlockCovers
<1>6. \A b \in Block : b < c => ~(c <= b)
  BY <1>3, BlockAssumption
<1>7. ASSUME NEW b \in Block, Covers(r, b) PROVE r.start = b
  <2>1. c <= b /\ b < c + n /\ b \in Nat
    BY <1>4, <1>7, BlockAssumption
  <2>2. c < b => c + n <= b
    BY BlockAssumption
  <2> QED
    BY <1>1, <1>3, <2>1, <2>2
<1> QED
  BY <1>1, <1>3, <1>4, <1>5, <1>7

(* An address where a local region may begin is in no other region.        *)
LEMMA LocalCovered ==
  ASSUME Stacks, Known, NEW r \in regions, NEW t \in Thread, NEW d \in 1..MaxDepth,
         Covers(r, Local(t, d))
  PROVE  d \in 1..Len(frames[t]) /\ frames[t][d].seen /\ r = Region(Local(t, d), 1)
<1>1. OfStack(r)
  BY BlockRegion DEF Known
<1> QED
  BY <1>1, StackCovers

(* So is one where an array may begin.                                     *)
LEMMA ArrayCovered ==
  ASSUME Stacks, Known, NEW r \in regions, NEW t \in Thread, NEW d \in 1..MaxDepth,
         Covers(r, Vla(t, d))
  PROVE  /\ d \in 1..Len(frames[t]) /\ frames[t][d].vla > 0
         /\ r = Region(Vla(t, d), frames[t][d].vla)
<1>1. OfStack(r)
  BY BlockRegion DEF Known
<1> QED
  BY <1>1, StackCovers

(* So is a block.                                                          *)
LEMMA BlockCovered ==
  ASSUME Stacks, Known, NEW r \in regions, NEW b \in Block, Covers(r, b)
  PROVE  r.start = b /\ OfBlock(r)
<1>1. OfBlock(r)
  BY StackCovers DEF Known
<1> QED
  BY <1>1, BlockRegion

(* A region is in itself.                                                  *)
LEMMA StartCovered ==
  ASSUME Stacks, Known, NEW r \in regions
  PROVE  Covers(r, r.start)
  BY StackCovers, BlockRegion DEF Known

-----------------------------------------------------------------------------
(* What a thread's call is changes for that thread only.                   *)
Others(t) == \A u \in Thread : u # t => op'[u] = op[u] /\ arg'[u] = arg[u]

(* A call begins or goes on.                                               *)
LEMMA CallingIs ==
  ASSUME Calls, NEW t \in Thread, NEW what \in Ops, NEW data, Calling(t, what, data)
  PROVE  /\ Calls' /\ Others(t)
         /\ op'[t] = what /\ arg'[t] = data
<1>1. op' = [op EXCEPT ![t] = what] /\ arg' = [arg EXCEPT ![t] = data]
  BY DEF Calling
<1>2. op' \in [Thread -> Ops] /\ op'[t] = what /\ \A u \in Thread : u # t => op'[u] = op[u]
  BY <1>1 DEF Calls
<1>3. /\ arg' = [u \in Thread |-> arg'[u]] /\ arg'[t] = data
      /\ \A u \in Thread : u # t => arg'[u] = arg[u]
  BY <1>1 DEF Calls
<1> QED
  BY <1>2, <1>3 DEF Calls, Others

(* A call ends.                                                            *)
LEMMA DoneIs ==
  ASSUME Calls, NEW t \in Thread, Done(t)
  PROVE  Calls' /\ Others(t) /\ op'[t] = "run"
<1>1. "run" \in Ops
  BY DEF Ops
<1> QED
  BY <1>1, CallingIs DEF Done

HeapOps == {"malloc", "free", "realloc", "release"}
StackOps == {"call", "leave", "alloca", "setjmp", "longjmp"}

(* A call that begins or ends leaves alone what it is not about: here the  *)
(* heap.                                                                   *)
LEMMA HeapSame ==
  ASSUME Reuse, Blocks, InCalls, NEW t \in Thread, Others(t), UNCHANGED <<heap, reuse>>,
         op[t] \notin HeapOps, op'[t] \notin HeapOps
  PROVE  Reuse' /\ Blocks' /\ InCalls' /\ Kept' = Kept /\ Freeing' = Freeing
<1>1. /\ used' = used /\ owned' = owned /\ unseen' = unseen
      /\ free_reuse_list' = free_reuse_list /\ free_reuse_index' = free_reuse_index
  BY DEF heap, reuse
<1>2. Kept' = Kept /\ Reuse' /\ Blocks'
  BY <1>1 DEF Kept, Reuse, Blocks
<1>3. Freeing' = Freeing
  <2>1. \A u \in Thread : /\ op'[u] \in {"free", "realloc"} <=> op[u] \in {"free", "realloc"}
                          /\ op[u] \in {"free", "realloc"} => arg'[u] = arg[u]
    BY DEF Others, HeapOps
  <2> QED
    BY <2>1 DEF Freeing
<1>4. Touched(op'[t], arg'[t]) = {} /\ Touched(op[t], arg[t]) = {}
  BY DEF Touched, HeapOps
<1>5. BlockCall(op'[t], arg'[t]) /\ op[t] # "realloc" /\ op'[t] # "realloc"
  BY DEF BlockCall, HeapOps
<1>6. InCalls'
  <2>1. \A u \in Thread : BlockCall(op'[u], arg'[u])
    BY <1>5 DEF InCalls, Others
  <2>2. ASSUME NEW u \in Thread, NEW b \in Touched(op'[u], arg'[u])
        PROVE  /\ owned[b] = 0 /\ b \notin Kept
               /\ b \in used \/ (op'[u] = "realloc" /\ b # arg'[u].new)
    <3>1. u # t /\ op'[u] = op[u] /\ arg'[u] = arg[u]
      BY <1>4, <2>2 DEF Others
    <3> QED
      BY <2>2, <3>1 DEF InCalls
  <2>3. ASSUME NEW u \in Thread, NEW v \in Thread, u # v
        PROVE  /\ Touched(op'[u], arg'[u]) \cap Touched(op'[v], arg'[v]) = {}
               /\ ~(op'[u] = "realloc" /\ op'[v] = "realloc")
    <3>1. CASE u = t \/ v = t
      BY <1>4, <1>5, <3>1
    <3>2. CASE u # t /\ v # t
      BY <2>3, <3>2 DEF InCalls, Others
    <3> QED
      BY <3>1, <3>2
  <2> QED
    BY <1>1, <1>2, <2>1, <2>2, <2>3 DEF InCalls
<1> QED
  BY <1>2, <1>3, <1>6

(* And here the stacks.                                                    *)
LEMMA StackSame ==
  ASSUME Stacks, Arrays, Jumps, Child, NEW t \in Thread, Others(t),
         UNCHANGED <<stack, lists, child>>,
         op'[t] \notin StackOps \union {"forked"}
  PROVE  Stacks' /\ Arrays' /\ Jumps' /\ Child'
<1>1. /\ frames' = frames /\ envs' = envs /\ off' = off
      /\ alloca_list' = alloca_list /\ jmp_list' = jmp_list /\ child' = child
  BY DEF stack, lists
<1>2. Stacks'
  <2>1. ASSUME NEW u \in Thread PROVE StackRight(op'[u], arg'[u], frames[u], off[u])
    <3>1. CASE u = t
      BY <3>1 DEF Stacks, StackRight, StackOps
    <3>2. CASE u # t
      BY <3>2 DEF Stacks, Others
    <3> QED
      BY <3>1, <3>2
  <2> QED
    BY <1>1, <2>1 DEF Stacks
<1>3. Arrays'
  BY <1>1 DEF Arrays, fp, Vla
<1>4. Jumps'
  <2>1. ASSUME NEW u \in Thread PROVE JumpCall(u, op'[u], arg'[u], envs[u], jmp_list)
    <3>1. CASE u = t
      BY <3>1 DEF JumpCall, StackOps
    <3>2. CASE u # t
      BY <3>2 DEF Jumps, Others
    <3> QED
      BY <3>1, <3>2
  <2> QED
    BY <1>1, <2>1 DEF Jumps
<1>5. Child'
  BY <1>1 DEF Child, Others
<1> QED
  BY <1>2, <1>3, <1>4, <1>5

(* A block that is not held, not kept and not being given back or moved    *)
(* has no region, and neither has one that was allocated while checking    *)
(* was off.                                                                *)
LEMMA NoRegion ==
  ASSUME Stacks, Known, NEW b \in Block, b \notin Kept, b \notin Freeing,
         owned[b] = 0 \/ b \in unseen, NEW r \in regions
  PROVE  r.start # b /\ ~Covers(r, b)
<1>1. SUFFICES ASSUME Covers(r, b) PROVE FALSE
  BY StartCovered
<1>2. r.start = b /\ OfBlock(r)
  BY <1>1, BlockCovered
<1>3. r.size \in 1..3
  BY <1>2, SizesAssumption DEF OfBlock
<1> QED
  BY <1>2, <1>3 DEF OfBlock

(* What a thread is about is no one else's.                                *)
LEMMA TouchedAlone ==
  ASSUME Blocks, InCalls, NEW t \in Thread, NEW b \in Touched(op[t], arg[t])
  PROVE  /\ owned[b] = 0 /\ b \notin Kept /\ b \notin unseen
         /\ \A u \in Thread : u # t => b \notin Touched(op[u], arg[u])
         /\ op[t] \notin {"free", "realloc"} \/ b # arg[t].ptr => b \notin Freeing
<1>1. owned[b] = 0 /\ b \notin Kept /\ b \notin unseen
  BY DEF InCalls, Blocks
<1>2. \A u \in Thread : u # t => b \notin Touched(op[u], arg[u])
  BY DEF InCalls
<1>3. ASSUME b \in Freeing, op[t] \notin {"free", "realloc"} \/ b # arg[t].ptr PROVE FALSE
  <2>1. PICK u \in Thread : op[u] \in {"free", "realloc"} /\ arg[u].ptr = b
    BY <1>3 DEF Freeing
  <2>2. b \in Touched(op[u], arg[u])
    BY <2>1 DEF Touched
  <2> QED
    BY <2>1, <2>2, <1>2, <1>3
<1> QED
  BY <1>1, <1>2, <1>3

(* What threads touch are blocks.                                          *)
LEMMA TouchedBlocks ==
  ASSUME InCalls, NEW t \in Thread
  PROVE  /\ Touched(op[t], arg[t]) \subseteq Block
         /\ op[t] \in {"malloc", "free", "realloc"} => arg[t].ptr \in Touched(op[t], arg[t])
         /\ op[t] = "realloc" => arg[t].new \in Touched(op[t], arg[t])
<1>1. BlockCall(op[t], arg[t])
  BY DEF InCalls
<1>2. NoBlock \notin Block
  BY BlockAssumption DEF NoBlock
<1> QED
  BY <1>1, <1>2 DEF BlockCall, Touched

-----------------------------------------------------------------------------
(* The heap.  malloc(), before the lock.                                   *)
LEMMA MallocStep ==
  ASSUME Allowed = {}, IInv, NEW t \in Thread, Malloc(t)
  PROVE  IInv'
<1> USE DEF IInv
<1>1. PICK b \in Block \ used, n \in Sizes :
        /\ used' = used \union {b}
        /\ IF Checks(t)
             THEN /\ Calling(t, "malloc", [ptr |-> b, size |-> n])
                  /\ UNCHANGED <<owned, unseen>>
             ELSE /\ owned' = [owned EXCEPT ![b] = n]
                  /\ unseen' = unseen \union {b}
                  /\ UNCHANGED <<op, arg>>
  BY DEF Malloc
<1>2. /\ UNCHANGED <<stack, sem, regions, reuse, lists, child>>
      /\ op[t] = "run" /\ \A u \in Thread : op[u] # "realloc"
  BY DEF Malloc, Runs, Quiet
<1>3. /\ free_reuse_list' = free_reuse_list /\ free_reuse_index' = free_reuse_index
      /\ frames' = frames /\ regions' = regions /\ Kept' = Kept /\ Reuse'
  BY <1>2 DEF reuse, stack, Kept, Reuse
<1>4. /\ owned[b] = 0 /\ b \notin Kept /\ b \notin unseen
      /\ \A u \in Thread : b \notin Touched(op[u], arg[u])
  <2>1. \A u \in Thread : \A c \in Touched(op[u], arg[u]) : c \in used
    BY <1>2 DEF InCalls
  <2>2. owned[b] \in Sizes \union {0}
    BY DEF Blocks
  <2>3. CASE owned[b] = 0
    BY <1>1, <2>1, <2>3 DEF Blocks
  <2>4. CASE owned[b] \in Sizes
    <3>1. owned[b] > 0
      BY <2>4, SizesAre
    <3> QED
      BY <3>1 DEF Blocks
  <2> QED
    BY <2>2, <2>3, <2>4
<1>5. CASE Checks(t)
  <2>1. Calls' /\ Others(t) /\ op'[t] = "malloc" /\ arg'[t] = [ptr |-> b, size |-> n]
    BY <1>1, <1>5, CallingIs DEF Ops, Locking
  <2>2. owned' = owned /\ unseen' = unseen /\ used' = used \union {b}
    BY <1>1, <1>5
  <2>3. Blocks'
    BY <1>3, <2>2 DEF Blocks
  <2>4. Touched(op'[t], arg'[t]) = {b} /\ Touched(op[t], arg[t]) = {}
    <3>1. b # NoBlock
      BY BlockAssumption DEF NoBlock
    <3> QED
      BY <1>2, <2>1, <3>1 DEF Touched
  <2>5. InCalls'
    <3>1. \A u \in Thread : BlockCall(op'[u], arg'[u])
      BY <2>1 DEF InCalls, Others, BlockCall
    <3>2. ASSUME NEW u \in Thread, NEW c \in Touched(op'[u], arg'[u])
          PROVE  owned[c] = 0 /\ c \notin Kept /\ c \in used'
      BY <1>2, <1>4, <2>1, <2>2, <2>4, <3>2 DEF InCalls, Others
    <3>3. ASSUME NEW u \in Thread, NEW v \in Thread, u # v
          PROVE  /\ Touched(op'[u], arg'[u]) \cap Touched(op'[v], arg'[v]) = {}
                 /\ ~(op'[u] = "realloc" /\ op'[v] = "realloc")
      <4>1. Touched(op[u], arg[u]) \cap Touched(op[v], arg[v]) = {}
        BY <3>3 DEF InCalls
      <4> QED
        BY <1>2, <1>4, <2>1, <2>4, <3>3, <4>1 DEF Others
    <3> QED
      BY <1>3, <2>2, <3>1, <3>2, <3>3 DEF InCalls
  <2>6. Freeing' = Freeing
    BY <1>2, <2>1 DEF Freeing, Others
  <2>7. Known'
    BY <1>3, <2>2, <2>6 DEF Known, OfStack, OfBlock, StackKnown, HeapKnown
  <2> QED
    BY <1>2, <1>3, <2>1, <2>3, <2>5, <2>7, StackSame DEF StackOps
<1>6. CASE ~Checks(t)
  <2>1. /\ owned' = [owned EXCEPT ![b] = n] /\ unseen' = unseen \union {b}
        /\ op' = op /\ arg' = arg
    BY <1>1, <1>6
  <2>2. owned' \in [Block -> Sizes \union {0}] /\ owned'[b] = n /\ n > 0
        /\ \A c \in Block : c # b => owned'[c] = owned[c]
    BY <2>1, SizesAssumption DEF Blocks
  <2>3. Blocks'
    BY <1>1, <1>3, <1>4, <2>1, <2>2 DEF Blocks
  <2>4. InCalls'
    <3>1. \A u \in Thread : \A c \in Touched(op[u], arg[u]) : c \in Block /\ c # b
      BY <1>4, TouchedBlocks
    <3> QED
      BY <1>1, <1>3, <2>1, <2>2, <3>1 DEF InCalls
  <2>5. Calls' /\ Others(t) /\ Freeing' = Freeing
    BY <2>1 DEF Calls, Others, Freeing
  <2>6. Known'
    <3>1. b \notin Freeing
      BY <1>4, TouchedBlocks DEF Freeing
    <3>2. \A r \in regions : r.start # b
      BY <1>4, <3>1, NoRegion
    <3>3. \A r \in regions : OfBlock(r) => OfBlock(r)'
      BY <1>3, <2>1, <2>2, <2>5, <3>2 DEF OfBlock
    <3>4. HeapKnown'
      BY <1>3, <2>1, <2>2 DEF Known, HeapKnown
    <3> QED
      BY <1>3, <3>3, <3>4 DEF Known, OfStack, StackKnown
  <2> QED
    BY <1>2, <1>3, <2>1, <2>3, <2>4, <2>5, <2>6, StackSame DEF StackOps
<1> QED
  BY <1>5, <1>6

(* malloc(), under the lock.                                               *)
LEMMA MallocInsertStep ==
  ASSUME IInv, NEW t \in Thread, MallocInsert(t)
  PROVE  IInv'
<1> USE DEF IInv
<1>0. PICK b, n : b = arg[t].ptr /\ n = arg[t].size
  OBVIOUS
<1>1. /\ op[t] = "malloc" /\ Done(t)
      /\ regions' = Inserted(regions, b, n)
      /\ owned' = [owned EXCEPT ![b] = n]
      /\ UNCHANGED <<used, unseen, stack, reuse, lists, child>>
  BY <1>0 DEF MallocInsert, Holds
<1>2. Calls' /\ Others(t) /\ op'[t] = "run"
  BY <1>1, DoneIs
<1>3. /\ free_reuse_list' = free_reuse_list /\ free_reuse_index' = free_reuse_index
      /\ frames' = frames /\ Kept' = Kept /\ Reuse' /\ used' = used /\ unseen' = unseen
  BY <1>1 DEF reuse, stack, Kept, Reuse
<1>4. b \in Touched(op[t], arg[t]) /\ b \in Block /\ n \in Sizes /\ b \in used
  <2>1. b \in Touched(op[t], arg[t]) /\ b \in Block
    BY <1>0, <1>1, TouchedBlocks
  <2>2. n \in Sizes
    BY <1>0, <1>1 DEF InCalls, BlockCall
  <2> QED
    BY <1>1, <2>1, <2>2 DEF InCalls
<1>5. /\ owned[b] = 0 /\ b \notin Kept /\ b \notin unseen /\ b \notin Freeing
      /\ \A u \in Thread : u # t => b \notin Touched(op[u], arg[u])
  BY <1>1, <1>4, TouchedAlone
<1>6. \A r \in regions : r.start # b /\ ~Covers(r, b)
  BY <1>4, <1>5, NoRegion
<1>7. regions' = regions \union {Region(b, n)}
  BY <1>1, <1>6 DEF Inserted
<1>8. owned' \in [Block -> Sizes \union {0}] /\ owned'[b] = n /\ n > 0
      /\ \A c \in Block : c # b => owned'[c] = owned[c]
  BY <1>1, <1>4, SizesAssumption DEF Blocks
<1>9. Blocks'
  BY <1>3, <1>4, <1>5, <1>8 DEF Blocks
<1>10. Touched(op'[t], arg'[t]) = {}
  BY <1>2 DEF Touched
<1>11. InCalls'
  <2>1. \A u \in Thread : BlockCall(op'[u], arg'[u])
    BY <1>2 DEF InCalls, Others, BlockCall
  <2>2. ASSUME NEW u \in Thread, NEW c \in Touched(op'[u], arg'[u])
        PROVE  /\ owned'[c] = 0 /\ c \notin Kept
               /\ c \in used \/ (op'[u] = "realloc" /\ c # arg'[u].new)
    <3>1. u # t /\ op'[u] = op[u] /\ arg'[u] = arg[u]
      BY <1>2, <1>10, <2>2 DEF Others
    <3>2. c \in Block /\ c # b
      BY <1>5, <2>2, <3>1, TouchedBlocks
    <3> QED
      BY <1>8, <2>2, <3>1, <3>2 DEF InCalls
  <2>3. ASSUME NEW u \in Thread, NEW v \in Thread, u # v
        PROVE  /\ Touched(op'[u], arg'[u]) \cap Touched(op'[v], arg'[v]) = {}
               /\ ~(op'[u] = "realloc" /\ op'[v] = "realloc")
    BY <1>2, <1>10, <2>3 DEF InCalls, Others
  <2> QED
    BY <1>3, <2>1, <2>2, <2>3 DEF InCalls
<1>12. Freeing' = Freeing
  BY <1>1, <1>2 DEF Freeing, Others
<1>13. Known'
  <2>1. \A r \in regions : OfBlock(r) => OfBlock(r)'
    BY <1>3, <1>6, <1>8, <1>12 DEF OfBlock
  <2>2. OfBlock(Region(b, n))'
    BY <1>3, <1>4, <1>5, <1>8 DEF OfBlock, Region, Triple
  <2>3. \A r \in regions : OfStack(r) => OfStack(r)'
    BY <1>3 DEF OfStack
  <2>4. HeapKnown'
    BY <1>3, <1>4, <1>7, <1>8 DEF Known, HeapKnown
  <2>5. StackKnown'
    BY <1>3, <1>7 DEF Known, StackKnown
  <2> QED
    BY <1>7, <2>1, <2>2, <2>3, <2>4, <2>5 DEF Known
<1> QED
  BY <1>1, <1>2, <1>3, <1>9, <1>11, <1>13, StackSame DEF StackOps

(* The calls of the other threads, after a step of one.                    *)
LEMMA InCallsStep ==
  ASSUME InCalls, NEW t \in Thread, Others(t), BlockCall(op'[t], arg'[t]),
         \A c \in Touched(op'[t], arg'[t]) :
           /\ owned'[c] = 0 /\ c \notin Kept'
           /\ c \in used' \/ (op'[t] = "realloc" /\ c # arg'[t].new),
         \A u \in Thread : u # t => \A c \in Touched(op[u], arg[u]) :
           /\ c \notin Touched(op'[t], arg'[t])
           /\ owned'[c] = 0 /\ c \notin Kept' /\ (c \in used => c \in used'),
         op'[t] = "realloc" => \A u \in Thread : u # t => op[u] # "realloc"
  PROVE  InCalls'
<1>1. \A u \in Thread : BlockCall(op'[u], arg'[u])
  BY DEF InCalls, Others
<1>2. ASSUME NEW u \in Thread, NEW c \in Touched(op'[u], arg'[u])
      PROVE  /\ owned'[c] = 0 /\ c \notin Kept'
             /\ c \in used' \/ (op'[u] = "realloc" /\ c # arg'[u].new)
  <2>1. CASE u = t
    BY <1>2, <2>1
  <2>2. CASE u # t
    <3>1. op'[u] = op[u] /\ arg'[u] = arg[u] /\ c \in Touched(op[u], arg[u])
      BY <1>2, <2>2 DEF Others
    <3>2. c \in used \/ (op[u] = "realloc" /\ c # arg[u].new)
      BY <3>1 DEF InCalls
    <3> QED
      BY <2>2, <3>1, <3>2
  <2> QED
    BY <2>1, <2>2
<1>3. ASSUME NEW u \in Thread, NEW v \in Thread, u # v
      PROVE  /\ Touched(op'[u], arg'[u]) \cap Touched(op'[v], arg'[v]) = {}
             /\ ~(op'[u] = "realloc" /\ op'[v] = "realloc")
  <2>1. CASE u = t
    BY <1>3, <2>1 DEF Others
  <2>2. CASE v = t
    BY <1>3, <2>2 DEF Others
  <2>3. CASE u # t /\ v # t
    BY <1>3, <2>3 DEF InCalls, Others
  <2> QED
    BY <2>1, <2>2, <2>3
<1> QED
  BY <1>1, <1>2, <1>3 DEF InCalls

(* A block that the program holds is in no call.                           *)
LEMMA HeldAlone ==
  ASSUME Blocks, InCalls, NEW b \in Block, owned[b] > 0
  PROVE  /\ b \in used /\ b \notin Kept /\ b \notin Freeing
         /\ \A u \in Thread : b \notin Touched(op[u], arg[u])
<1>1. owned[b] # 0
  <2>1. 0 \in Nat
    OBVIOUS
  <2> QED
    BY <2>1
<1>2. \A u \in Thread : b \notin Touched(op[u], arg[u])
  BY <1>1 DEF InCalls
<1>3. b \notin Freeing
  BY <1>2, TouchedBlocks DEF Freeing
<1> QED
  BY <1>1, <1>2, <1>3 DEF Blocks

(* free(), before the lock.                                                *)
LEMMA FreeStep ==
  ASSUME Allowed = {}, IInv, NEW t \in Thread, Free(t)
  PROVE  IInv'
<1> USE DEF IInv
<1>1. PICK b \in Block :
        /\ owned[b] > 0
        /\ owned' = [owned EXCEPT ![b] = 0]
        /\ unseen' = unseen \ {b}
        /\ IF Checks(t)
             THEN Calling(t, "free", [ptr |-> b]) /\ UNCHANGED used
             ELSE /\ b \in unseen \/ "off" \in Allowed
                  /\ used' = used \ {b}
                  /\ UNCHANGED <<op, arg>>
  BY DEF Free
<1>2. UNCHANGED <<stack, sem, regions, reuse, lists, child>> /\ op[t] = "run"
  BY DEF Free, Runs
<1>3. /\ free_reuse_list' = free_reuse_list /\ free_reuse_index' = free_reuse_index
      /\ frames' = frames /\ regions' = regions /\ Kept' = Kept /\ Reuse'
  BY <1>2 DEF reuse, stack, Kept, Reuse
<1>4. /\ b \in used /\ b \notin Kept /\ b \notin Freeing
      /\ \A u \in Thread : b \notin Touched(op[u], arg[u])
  BY <1>1, HeldAlone
<1>5. /\ owned' \in [Block -> Sizes \union {0}] /\ owned'[b] = 0
      /\ \A c \in Block : c # b => owned'[c] = owned[c]
      /\ 0 \notin Sizes
  BY <1>1, SizesAre DEF Blocks
<1>6. \A u \in Thread : \A c \in Touched(op[u], arg[u]) :
        c \in Block /\ c # b /\ owned'[c] = 0 /\ c \notin Kept
  <2>1. \A u \in Thread : \A c \in Touched(op[u], arg[u]) : c \in Block /\ c # b
    BY <1>4, TouchedBlocks
  <2>2. \A u \in Thread : \A c \in Touched(op[u], arg[u]) : owned[c] = 0 /\ c \notin Kept
    BY DEF InCalls
  <2> QED
    BY <1>5, <2>1, <2>2
<1>7. \A c \in Block : owned'[c] > 0 => c # b
  BY <1>5
<1>8. CASE Checks(t)
  <2>1. Calls' /\ Others(t) /\ op'[t] = "free" /\ arg'[t] = [ptr |-> b]
    BY <1>1, <1>8, CallingIs DEF Ops, Locking
  <2>2. used' = used /\ unseen' = unseen \ {b}
    BY <1>1, <1>8
  <2>3. Blocks'
    BY <1>3, <1>4, <1>5, <1>7, <2>2 DEF Blocks
  <2>4. Touched(op'[t], arg'[t]) = {b}
    <3>1. b # NoBlock
      BY BlockAssumption DEF NoBlock
    <3> QED
      BY <2>1, <3>1 DEF Touched
  <2>5. InCalls'
    <3>1. BlockCall(op'[t], arg'[t])
      BY <2>1 DEF BlockCall
    <3> QED
      BY <1>3, <1>4, <1>5, <1>6, <2>1, <2>2, <2>4, <3>1, InCallsStep
  <2>6. Freeing' = Freeing \union {b}
    <3>1. \A u \in Thread : u # t => (op'[u] = op[u] /\ arg'[u] = arg[u])
      BY <2>1 DEF Others
    <3> QED
      BY <1>2, <2>1, <3>1 DEF Freeing
  <2>7. Known'
    <3>1. \A r \in regions : OfBlock(r) => OfBlock(r)'
      BY <1>3, <1>5, <2>2, <2>6 DEF OfBlock
    <3>2. \A r \in regions : OfStack(r) => OfStack(r)'
      BY <1>3 DEF OfStack
    <3>3. HeapKnown'
      BY <1>3, <1>5, <1>7, <2>2 DEF Known, HeapKnown
    <3>4. StackKnown'
      BY <1>3 DEF Known, StackKnown
    <3> QED
      BY <1>3, <3>1, <3>2, <3>3, <3>4 DEF Known
  <2> QED
    BY <1>2, <1>3, <2>1, <2>3, <2>5, <2>7, StackSame DEF StackOps
<1>9. CASE ~Checks(t)
  <2>1. b \in unseen /\ used' = used \ {b} /\ unseen' = unseen \ {b} /\ op' = op /\ arg' = arg
    BY <1>1, <1>9
  <2>2. Calls' /\ Others(t) /\ Freeing' = Freeing
    BY <2>1 DEF Calls, Others, Freeing
  <2>3. Blocks'
    BY <1>3, <1>4, <1>5, <1>7, <2>1 DEF Blocks
  <2>4. InCalls'
    BY <1>3, <1>6, <2>1 DEF InCalls
  <2>5. Known'
    <3>1. \A r \in regions : r.start # b
      BY <1>4, <2>1, NoRegion
    <3>2. \A r \in regions : OfBlock(r) => OfBlock(r)'
      BY <1>3, <1>5, <2>1, <2>2, <3>1 DEF OfBlock
    <3>3. \A r \in regions : OfStack(r) => OfStack(r)'
      BY <1>3 DEF OfStack
    <3>4. HeapKnown'
      BY <1>3, <1>5, <1>7, <2>1 DEF Known, HeapKnown
    <3>5. StackKnown'
      BY <1>3 DEF Known, StackKnown
    <3> QED
      BY <1>3, <3>2, <3>3, <3>4, <3>5 DEF Known
  <2> QED
    BY <1>2, <1>3, <2>1, <2>2, <2>3, <2>4, <2>5, StackSame DEF StackOps
<1> QED
  BY <1>8, <1>9

(* The C library's free(), of a block that the runtime has given up.       *)
LEMMA ReleaseStep ==
  ASSUME IInv, NEW t \in Thread, Release(t)
  PROVE  IInv'
<1> USE DEF IInv
<1>0. PICK b : b = arg[t].ptr
  OBVIOUS
<1>1. /\ op[t] = "release" /\ Done(t) /\ used' = used \ {b}
      /\ UNCHANGED <<owned, unseen, stack, sem, regions, reuse, lists, child>>
  BY <1>0 DEF Release
<1>2. Calls' /\ Others(t) /\ op'[t] = "run"
  BY <1>1, DoneIs
<1>3. /\ free_reuse_list' = free_reuse_list /\ free_reuse_index' = free_reuse_index
      /\ frames' = frames /\ regions' = regions /\ Kept' = Kept /\ Reuse'
      /\ owned' = owned /\ unseen' = unseen
  BY <1>1 DEF reuse, stack, Kept, Reuse
<1>4. b = NoBlock \/ b \in Touched(op[t], arg[t])
  BY <1>0, <1>1 DEF Touched
<1>5. b \notin used \/ b \in Touched(op[t], arg[t])
  BY <1>4, BlockAssumption DEF Blocks, NoBlock
<1>6. b \in used => /\ owned[b] = 0 /\ b \notin Kept
                    /\ \A u \in Thread : u # t => b \notin Touched(op[u], arg[u])
  BY <1>5, TouchedAlone
<1>7. Blocks'
  BY <1>1, <1>3, <1>6, SizesAre DEF Blocks
<1>8. InCalls'
  <2>1. Touched(op'[t], arg'[t]) = {} /\ BlockCall(op'[t], arg'[t])
    BY <1>2 DEF Touched, BlockCall
  <2>2. \A u \in Thread : \A c \in Touched(op[u], arg[u]) : owned[c] = 0 /\ c \notin Kept
    BY DEF InCalls
  <2>3. \A u \in Thread : u # t => \A c \in Touched(op[u], arg[u]) : c \in used => c \in used'
    BY <1>1, <1>6
  <2> QED
    BY <1>2, <1>3, <2>1, <2>2, <2>3, InCallsStep
<1>9. Freeing' = Freeing
  BY <1>1, <1>2 DEF Freeing, Others
<1>10. Known'
  BY <1>3, <1>9 DEF Known, OfStack, OfBlock, StackKnown, HeapKnown
<1> QED
  BY <1>1, <1>2, <1>3, <1>7, <1>8, <1>10, StackSame DEF StackOps

(* The region of a frame is not a block's.                                 *)
LEMMA StackStart ==
  ASSUME Stacks, NEW r, OfStack(r)
  PROVE  r.start \notin Block
  BY StackCovers

(* What is kept after one more block was freed.                            *)
LEMMA KeptNext ==
  ASSUME Reuse, NEW b \in Block, b \notin Kept,
         NEW i, i = free_reuse_index, NEW p, p = free_reuse_list[i],
         free_reuse_list' = [free_reuse_list EXCEPT ![i] = b],
         free_reuse_index' = (i % FREE_REUSE_SIZE) + 1
  PROVE  /\ Reuse' /\ Kept' = (Kept \ {p}) \union {b}
         /\ p = NoBlock \/ p \in Kept
<1>1. /\ FREE_REUSE_SIZE \in Nat /\ FREE_REUSE_SIZE > 0 /\ i \in 1..FREE_REUSE_SIZE
      /\ b # NoBlock
  BY ReuseAssumption, BlockAssumption DEF Reuse, NoBlock
<1>2. free_reuse_index' \in 1..FREE_REUSE_SIZE
  <2>1. i % FREE_REUSE_SIZE \in 0..(FREE_REUSE_SIZE - 1)
    BY <1>1
  <2> QED
    BY <1>1, <2>1
<1>3. /\ free_reuse_list' \in [1..FREE_REUSE_SIZE -> Block \union {NoBlock}]
      /\ free_reuse_list'[i] = b
      /\ \A k \in 1..FREE_REUSE_SIZE : k # i => free_reuse_list'[k] = free_reuse_list[k]
  BY <1>1 DEF Reuse
<1>4. \A k \in 1..FREE_REUSE_SIZE : free_reuse_list[k] # b
  BY <1>1 DEF Kept, Reuse
<1>5. Reuse'
  BY <1>1, <1>2, <1>3, <1>4 DEF Reuse
<1>6. Kept' = (Kept \ {p}) \union {b}
  <2>1. \A c : c \in Kept' <=> c # NoBlock /\ \E k \in 1..FREE_REUSE_SIZE : free_reuse_list'[k] = c
    BY <1>3 DEF Kept
  <2>2. \A c : c \in Kept <=> c # NoBlock /\ \E k \in 1..FREE_REUSE_SIZE : free_reuse_list[k] = c
    BY DEF Kept, Reuse
  <2>3. ASSUME NEW c \in Kept' PROVE c = b \/ (c \in Kept /\ c # p)
    <3>1. PICK k \in 1..FREE_REUSE_SIZE : free_reuse_list'[k] = c /\ c # NoBlock
      BY <2>1
    <3>2. CASE k = i
      BY <1>3, <3>1, <3>2
    <3>3. CASE k # i
      <4>1. free_reuse_list[k] = c
        BY <1>3, <3>1, <3>3
      <4>2. c \in Kept
        BY <2>2, <3>1, <4>1
      <4>3. c # p
        BY <1>1, <3>1, <3>3, <4>1 DEF Reuse
      <4> QED
        BY <4>2, <4>3
    <3> QED
      BY <3>2, <3>3
  <2>4. b \in Kept'
    BY <1>1, <1>3, <2>1
  <2>5. ASSUME NEW c \in Kept, c # p PROVE c \in Kept'
    <3>1. PICK k \in 1..FREE_REUSE_SIZE : free_reuse_list[k] = c /\ c # NoBlock
      BY <2>2
    <3>2. free_reuse_list'[k] = c
      BY <1>3, <2>5, <3>1
    <3> QED
      BY <2>1, <3>1, <3>2
  <2> QED
    BY <2>3, <2>4, <2>5
<1>7. p = NoBlock \/ p \in Kept
  BY <1>1 DEF Kept, Reuse
<1> QED
  BY <1>5, <1>6, <1>7

(* A region that is marked.                                                *)
Marked(r) == [r EXCEPT !.is_invalid = TRUE]

(* Only its mark changes.                                                  *)
LEMMA MarkedIs ==
  ASSUME NEW r, Triple(r)
  PROVE  /\ Marked(r) = FreedRegion(r.start, r.size)
         /\ Triple(Marked(r)) /\ Marked(r).start = r.start /\ Marked(r).size = r.size
         /\ Marked(r).is_invalid = TRUE
<1>1. \A s, n, v, y : [[start |-> s, size |-> n, is_invalid |-> v] EXCEPT !.is_invalid = y]
                       = [start |-> s, size |-> n, is_invalid |-> y]
  OBVIOUS
<1>2. PICK s, n, v : s = r.start /\ n = r.size /\ v = r.is_invalid
  OBVIOUS
<1>3. r = [start |-> s, size |-> n, is_invalid |-> v]
  BY <1>2 DEF Triple
<1>4. Marked([start |-> s, size |-> n, is_invalid |-> v]) = FreedRegion(s, n)
  BY <1>1, Zenon DEF Marked, FreedRegion
<1>5. Marked(r) = FreedRegion(s, n)
  BY <1>3, <1>4, Zenon
<1>6. Marked(r) = FreedRegion(r.start, r.size)
  BY <1>2, <1>5, Zenon
<1>7. /\ FreedRegion(s, n).start = s /\ FreedRegion(s, n).size = n
      /\ FreedRegion(s, n).is_invalid = TRUE /\ Triple(FreedRegion(s, n))
  BY DEF FreedRegion, Triple
<1> QED
  BY <1>2, <1>5, <1>6, <1>7, Zenon

(* The regions after one more block was freed.                             *)
LEMMA ForgottenIs ==
  ASSUME NEW R, NEW b, NEW p, b # p, NEW new, new = Forgotten(Invalidated(R, b), p)
  PROVE  /\ \A r \in R : r.start # b /\ (p = NoBlock \/ r.start # p) => r \in new
         /\ \A r \in R : Triple(r) /\ r.start = b => FreedRegion(b, r.size) \in new
         /\ \A q \in new :
              /\ (q \in R /\ q.start # b) \/ \E r \in R : r.start = b /\ q = Marked(r)
              /\ p = NoBlock \/ q.start # p
<1> DEFINE I == {IF r.start = b THEN Marked(r) ELSE r : r \in R}
<1>1. new = IF p # NoBlock THEN {r \in I : r.start # p} ELSE I
  BY DEF Forgotten, Invalidated, Deleted, Marked
<1>2. \A r \in R : r.start # b => r \in I
  OBVIOUS
<1>3. \A r \in R : r.start = b => Marked(r) \in I
  OBVIOUS
<1>4. \A q \in I : (q \in R /\ q.start # b) \/ \E r \in R : r.start = b /\ q = Marked(r)
  OBVIOUS
<1> HIDE DEF I
<1>5. \A q : q \in new <=> q \in I /\ (p = NoBlock \/ q.start # p)
  BY <1>1
<1>6. \A r \in R : r.start # b /\ (p = NoBlock \/ r.start # p) => r \in new
  BY <1>2, <1>5
<1>7. \A r \in R : Triple(r) /\ r.start = b => FreedRegion(b, r.size) \in new
  <2> SUFFICES ASSUME NEW r \in R, Triple(r), r.start = b
               PROVE  FreedRegion(b, r.size) \in new
    OBVIOUS
  <2>1. Marked(r) \in I /\ Marked(r).start = b /\ Marked(r) = FreedRegion(b, r.size)
    BY <1>3, MarkedIs
  <2> QED
    BY <1>5, <2>1
<1>8. \A q \in new :
             /\ (q \in R /\ q.start # b) \/ \E r \in R : r.start = b /\ q = Marked(r)
             /\ p = NoBlock \/ q.start # p
  BY <1>4, <1>5
<1> QED
  BY <1>6, <1>7, <1>8, Zenon

(* free(), under the lock.                                                 *)
LEMMA FreeMarkStep ==
  ASSUME IInv, NEW t \in Thread, FreeMark(t)
  PROVE  IInv'
<1> USE DEF IInv
<1>0. PICK b, i, p : b = arg[t].ptr /\ i = free_reuse_index /\ p = free_reuse_list[i]
  OBVIOUS
<1>1. /\ op[t] = "free"
      /\ IF \E r \in regions : r.start = b
           THEN /\ regions' = Forgotten(Invalidated(regions, b), p)
                /\ free_reuse_list' = [free_reuse_list EXCEPT ![i] = b]
                /\ free_reuse_index' = (i % FREE_REUSE_SIZE) + 1
                /\ Calling(t, "release", [ptr |-> p])
           ELSE Calling(t, "release", arg[t]) /\ UNCHANGED <<regions, reuse>>
      /\ UNCHANGED <<heap, stack, lists, child>>
  BY <1>0 DEF FreeMark, Holds
<1>2. used' = used /\ owned' = owned /\ unseen' = unseen /\ frames' = frames
  BY <1>1 DEF heap, stack
<1>3. b \in Touched(op[t], arg[t]) /\ b \in Block
  BY <1>0, <1>1, TouchedBlocks
<1>4. /\ owned[b] = 0 /\ b \notin Kept /\ b \notin unseen /\ b \in used
      /\ \A u \in Thread : u # t => b \notin Touched(op[u], arg[u])
  <2>1. b \in used
    BY <1>1, <1>3 DEF InCalls
  <2> QED
    BY <1>3, <2>1, TouchedAlone
<1>5. \A u \in Thread : \A c \in Touched(op[u], arg[u]) : owned[c] = 0 /\ c \notin Kept
  BY DEF InCalls
<1>6. CASE \E r \in regions : r.start = b
  <2>1. /\ regions' = Forgotten(Invalidated(regions, b), p)
        /\ free_reuse_list' = [free_reuse_list EXCEPT ![i] = b]
        /\ free_reuse_index' = (i % FREE_REUSE_SIZE) + 1
        /\ Calling(t, "release", [ptr |-> p])
    BY <1>1, <1>6
  <2>2. Calls' /\ Others(t) /\ op'[t] = "release" /\ arg'[t] = [ptr |-> p]
    BY <2>1, CallingIs DEF Ops
  <2>3. Reuse' /\ Kept' = (Kept \ {p}) \union {b} /\ (p = NoBlock \/ p \in Kept)
    BY <1>0, <1>3, <1>4, <2>1, KeptNext
  <2>4. b # p
    BY <1>3, <1>4, <2>3, BlockAssumption DEF NoBlock
  <2>5. p # NoBlock => p \in Block /\ p \in used /\ owned[p] = 0 /\ p \in Kept
    BY <2>3 DEF Blocks
  <2>6. Blocks'
    BY <1>2, <1>4, <2>3 DEF Blocks
  <2>7. InCalls'
    <3>1. Touched(op'[t], arg'[t]) = {p} \ {NoBlock} /\ BlockCall(op'[t], arg'[t])
      BY <2>2, <2>5 DEF Touched, BlockCall
    <3> QED
      BY <1>2, <1>4, <1>5, <2>2, <2>3, <2>4, <2>5, <3>1, InCallsStep
  <2>8. Freeing' \subseteq Freeing /\ \A c \in Freeing : c # b => c \in Freeing'
    <3>1. \A u \in Thread : u # t => (op'[u] = op[u] /\ arg'[u] = arg[u])
      BY <2>2 DEF Others
    <3> QED
      BY <1>0, <1>1, <2>2, <3>1 DEF Freeing
  <2>9. /\ \A r \in regions : r.start # b /\ (p = NoBlock \/ r.start # p) => r \in regions'
        /\ \A r \in regions : Triple(r) /\ r.start = b => FreedRegion(b, r.size) \in regions'
        /\ \A q \in regions' :
              /\ (q \in regions /\ q.start # b) \/ \E r \in regions : r.start = b /\ q = Marked(r)
              /\ p = NoBlock \/ q.start # p
    BY <2>1, <2>4, ForgottenIs
  <2>10. \A r \in regions : r.start = b => OfBlock(r)
    BY <1>3, StartCovered, BlockCovered
  <2>11. Known'
    <3>1. ASSUME NEW q \in regions' PROVE OfStack(q)' \/ OfBlock(q)'
      <4>1. CASE q \in regions /\ q.start # b
        <5>1. CASE OfStack(q)
          BY <1>2, <5>1 DEF OfStack
        <5>2. CASE OfBlock(q)
          <6>1. q.start \in Kept => q.start \in Kept'
            BY <2>3, <2>9, <5>2, BlockAssumption DEF OfBlock, Kept
          <6>2. q.start \in Freeing => q.start \in Freeing'
            BY <2>8, <4>1
          <6> QED
            BY <1>2, <5>2, <6>1, <6>2 DEF OfBlock
        <5> QED
          BY <4>1, <5>1, <5>2 DEF Known
      <4>2. ASSUME NEW r \in regions, r.start = b, q = Marked(r)
            PROVE  OfBlock(q)'
        <5>1. Triple(r) /\ r.size \in Sizes
          BY <2>10, <4>2 DEF OfBlock
        <5>2. Triple(q) /\ q.start = b /\ q.size = r.size /\ q.is_invalid = TRUE
          BY <4>2, <5>1, MarkedIs
        <5> QED
          BY <1>3, <2>3, <5>1, <5>2 DEF OfBlock
      <4> QED
        BY <2>9, <4>1, <4>2
    <3>2. HeapKnown'
      <4>1. ASSUME NEW c \in Block, owned[c] > 0, c \notin unseen
            PROVE  Region(c, owned[c]) \in regions'
        <5>1. c # b /\ (p = NoBlock \/ c # p)
          BY <1>4, <2>5, <4>1
        <5>2. Region(c, owned[c]) \in regions
          BY <4>1 DEF Known, HeapKnown
        <5>3. Region(c, owned[c]).start = c
          BY DEF Region
        <5> QED
          BY <2>9, <5>1, <5>2, <5>3
      <4>2. ASSUME NEW c \in Kept'
            PROVE  \E n \in Sizes : FreedRegion(c, n) \in regions'
        <5>1. CASE c = b
          <6>1. PICK r \in regions : r.start = b
            BY <1>6
          <6>2. Triple(r) /\ r.size \in Sizes
            BY <2>10, <6>1 DEF OfBlock
          <6> QED
            BY <2>9, <5>1, <6>1, <6>2
        <5>2. CASE c # b
          <6>1. c \in Kept /\ c # p
            BY <2>3, <4>2, <5>2
          <6>2. PICK n \in Sizes : FreedRegion(c, n) \in regions
            BY <6>1 DEF Known, HeapKnown
          <6>3. FreedRegion(c, n).start = c
            BY DEF FreedRegion
          <6>4. FreedRegion(c, n) \in regions'
            BY <2>9, <5>2, <6>1, <6>2, <6>3
          <6> QED
            BY <6>4
        <5> QED
          BY <5>1, <5>2
      <4> QED
        BY <1>2, <4>1, <4>2 DEF HeapKnown
    <3>3. StackKnown'
      <4>1. \A r \in regions : OfStack(r) => r \in regions'
        BY <1>3, <2>5, <2>9, StackStart
      <4> SUFFICES ASSUME NEW u \in Thread, NEW d \in 1..Len(frames[u])
                   PROVE  /\ frames[u][d].seen => Region(Local(u, d), 1) \in regions'
                          /\ frames[u][d].vla > 0 => Region(Vla(u, d), frames[u][d].vla) \in regions'
        BY <1>2 DEF StackKnown
      <4>2. /\ frames[u][d].seen => OfStack(Region(Local(u, d), 1))
            /\ frames[u][d].vla > 0 => OfStack(Region(Vla(u, d), frames[u][d].vla))
        BY DEF OfStack
      <4> QED
        BY <4>1, <4>2 DEF Known, StackKnown
    <3> QED
      BY <3>1, <3>2, <3>3 DEF Known
  <2> QED
    BY <1>1, <2>2, <2>3, <2>6, <2>7, <2>11, StackSame DEF StackOps
<1>7. CASE ~ \E r \in regions : r.start = b
  <2>1. Calling(t, "release", arg[t]) /\ UNCHANGED <<regions, reuse>>
    BY <1>1, <1>7
  <2>2. Calls' /\ Others(t) /\ op'[t] = "release" /\ arg'[t] = arg[t]
    BY <2>1, CallingIs DEF Ops
  <2>3. /\ free_reuse_list' = free_reuse_list /\ free_reuse_index' = free_reuse_index
        /\ regions' = regions /\ Kept' = Kept /\ Reuse'
    BY <2>1 DEF reuse, Kept, Reuse
  <2>4. Blocks'
    BY <1>2, <2>3 DEF Blocks
  <2>5. InCalls'
    <3>1. Touched(op'[t], arg'[t]) = {b}
      <4>1. b # NoBlock
        BY <1>3, BlockAssumption DEF NoBlock
      <4> QED
        BY <1>0, <2>2, <4>1 DEF Touched
    <3>2. BlockCall(op'[t], arg'[t])
      BY <1>0, <1>3, <2>2 DEF BlockCall
    <3> QED
      BY <1>2, <1>4, <1>5, <2>2, <2>3, <3>1, <3>2, InCallsStep
  <2>6. \A c \in Freeing : c # b => c \in Freeing'
    <3>1. \A u \in Thread : u # t => (op'[u] = op[u] /\ arg'[u] = arg[u])
      BY <2>2 DEF Others
    <3> QED
      BY <1>0, <1>1, <3>1 DEF Freeing
  <2>7. Known'
    <3>1. \A r \in regions : OfBlock(r) => OfBlock(r)'
      BY <1>2, <1>7, <2>3, <2>6 DEF OfBlock
    <3>2. \A r \in regions : OfStack(r) => OfStack(r)'
      BY <1>2 DEF OfStack
    <3> QED
      BY <1>2, <2>3, <3>1, <3>2 DEF Known, HeapKnown, StackKnown
  <2> QED
    BY <1>1, <2>2, <2>3, <2>4, <2>5, <2>7, StackSame DEF StackOps
<1> QED
  BY <1>6, <1>7

(* realloc(), before the lock.                                             *)
LEMMA ReallocStep ==
  ASSUME Allowed = {}, IInv, NEW t \in Thread, Realloc(t)
  PROVE  IInv'
<1> USE DEF IInv
<1>1. PICK b \in Block, n \in Sizes : \E new \in (Block \ used) \union {b} \union Failing :
        /\ owned[b] > 0 /\ b \notin unseen
        /\ used' = IF new = NoBlock THEN used ELSE (used \ {b}) \union {new}
        /\ owned' = IF new = NoBlock THEN owned ELSE [owned EXCEPT ![b] = 0]
        /\ Calling(t, "realloc", [ptr |-> b, new |-> new, size |-> n])
  BY DEF Realloc
<1>2. PICK new \in (Block \ used) \union {b} \union Failing :
        /\ owned[b] > 0 /\ b \notin unseen
        /\ used' = IF new = NoBlock THEN used ELSE (used \ {b}) \union {new}
        /\ owned' = IF new = NoBlock THEN owned ELSE [owned EXCEPT ![b] = 0]
        /\ Calling(t, "realloc", [ptr |-> b, new |-> new, size |-> n])
  BY <1>1
<1>3. new \in Block /\ b # NoBlock /\ new # NoBlock /\ (new = b \/ new \notin used)
  BY BlockAssumption DEF Failing, NoBlock
<1>4. used' = (used \ {b}) \union {new} /\ owned' = [owned EXCEPT ![b] = 0]
  BY <1>2, <1>3
<1>5. /\ UNCHANGED <<unseen, stack, sem, regions, reuse, lists, child>>
      /\ op[t] = "run" /\ \A u \in Thread : op[u] # "realloc"
  BY DEF Realloc, Runs, Quiet
<1>6. /\ free_reuse_list' = free_reuse_list /\ free_reuse_index' = free_reuse_index
      /\ frames' = frames /\ regions' = regions /\ Kept' = Kept /\ Reuse' /\ unseen' = unseen
  BY <1>5 DEF reuse, stack, Kept, Reuse
<1>7. /\ Calls' /\ Others(t) /\ op'[t] = "realloc"
      /\ arg'[t] = [ptr |-> b, new |-> new, size |-> n]
  BY <1>2, CallingIs DEF Ops, Locking
<1>8. /\ b \in used /\ b \notin Kept /\ b \notin Freeing
      /\ \A u \in Thread : b \notin Touched(op[u], arg[u])
  BY <1>2, HeldAlone
<1>9. \A u \in Thread : \A c \in Touched(op[u], arg[u]) : c \in Block /\ c \in used
  BY <1>5, TouchedBlocks DEF InCalls
<1>10. new \notin Kept /\ \A u \in Thread : new \notin Touched(op[u], arg[u])
  BY <1>3, <1>8, <1>9 DEF Blocks
<1>11. /\ owned' \in [Block -> Sizes \union {0}] /\ owned'[b] = 0
       /\ \A c \in Block : c # b => owned'[c] = owned[c]
       /\ 0 \notin Sizes
  BY <1>4, SizesAre DEF Blocks
<1>12. \A c \in Block : owned'[c] > 0 => c # b
  BY <1>11
<1>13. owned'[new] = 0
  <2>1. CASE new = b
    BY <1>11, <2>1
  <2>2. CASE new \notin used
    <3>1. owned[new] \in Sizes \union {0}
      BY <1>3 DEF Blocks
    <3>2. ~(owned[new] > 0)
      BY <1>3, <2>2 DEF Blocks
    <3>3. owned[new] = 0
      BY <3>1, <3>2, SizesAre
    <3> QED
      BY <1>3, <1>11, <3>3
  <2> QED
    BY <1>3, <2>1, <2>2
<1>14. Blocks'
  <2>1. used' \subseteq Block /\ unseen \subseteq Block
    BY <1>3, <1>4 DEF Blocks
  <2>2. \A c \in Block : owned'[c] > 0 => c \in used'
    BY <1>4, <1>11, <1>12 DEF Blocks
  <2>3. \A c \in unseen : owned'[c] > 0
    BY <1>2, <1>11 DEF Blocks
  <2>4. \A c \in Kept : c \in used' /\ owned'[c] = 0
    BY <1>4, <1>8, <1>11 DEF Blocks
  <2> QED
    BY <1>6, <1>11, <2>1, <2>2, <2>3, <2>4 DEF Blocks
<1>15. Touched(op'[t], arg'[t]) = {b, new} /\ BlockCall(op'[t], arg'[t])
  BY <1>3, <1>7 DEF Touched, BlockCall
<1>16. InCalls'
  <2>1. \A u \in Thread : \A c \in Touched(op[u], arg[u]) :
          /\ c # b /\ c # new /\ c \in Block
          /\ owned'[c] = 0 /\ c \notin Kept /\ c \in used'
    <3>1. \A u \in Thread : \A c \in Touched(op[u], arg[u]) : owned[c] = 0 /\ c \notin Kept
      BY DEF InCalls
    <3> QED
      BY <1>4, <1>8, <1>9, <1>10, <1>11, <3>1
  <2>2. \A c \in {b, new} : /\ owned'[c] = 0 /\ c \notin Kept
                            /\ c \in used' \/ c # new
    BY <1>4, <1>8, <1>10, <1>11, <1>13
  <2>3. arg'[t].new = new
    BY <1>7
  <2> QED
    BY <1>5, <1>6, <1>7, <1>15, <2>1, <2>2, <2>3, InCallsStep
<1>17. Freeing' = Freeing \union {b}
  <2>1. \A u \in Thread : u # t => (op'[u] = op[u] /\ arg'[u] = arg[u])
    BY <1>7 DEF Others
  <2> QED
    BY <1>5, <1>7, <2>1 DEF Freeing
<1>18. Known'
  <2>1. \A r \in regions : OfBlock(r) => OfBlock(r)'
    BY <1>6, <1>11, <1>17 DEF OfBlock
  <2>2. \A r \in regions : OfStack(r) => OfStack(r)'
    BY <1>6 DEF OfStack
  <2>3. HeapKnown'
    BY <1>6, <1>11, <1>12 DEF Known, HeapKnown
  <2>4. StackKnown'
    BY <1>6 DEF Known, StackKnown
  <2> QED
    BY <1>6, <2>1, <2>2, <2>3, <2>4 DEF Known
<1> QED
  BY <1>5, <1>6, <1>7, <1>14, <1>16, <1>18, StackSame DEF StackOps

(* realloc(), under the lock.                                              *)
LEMMA ReallocMoveStep ==
  ASSUME IInv, NEW t \in Thread, ReallocMove(t)
  PROVE  IInv'
<1> USE DEF IInv
<1>0. PICK b, new, n : b = arg[t].ptr /\ new = arg[t].new /\ n = arg[t].size
  OBVIOUS
<1>1. op[t] = "realloc" /\ b \in Touched(op[t], arg[t]) /\ new \in Touched(op[t], arg[t])
  BY <1>0, TouchedBlocks DEF ReallocMove, Holds
<1>2. b \in Block /\ new \in Block /\ n \in Sizes /\ new # NoBlock
  BY <1>0, <1>1, BlockAssumption DEF InCalls, BlockCall, NoBlock
<1> DEFINE without == Deleted(regions, b)
<1>3. /\ Done(t)
      /\ regions' = Inserted(without, new, n)
      /\ owned' = [owned EXCEPT ![new] = n]
      /\ UNCHANGED <<used, unseen, stack, reuse, lists, child>>
  BY <1>0, <1>2 DEF ReallocMove
<1>4. Calls' /\ Others(t) /\ op'[t] = "run"
  BY <1>3, DoneIs
<1>5. /\ free_reuse_list' = free_reuse_list /\ free_reuse_index' = free_reuse_index
      /\ frames' = frames /\ Kept' = Kept /\ Reuse' /\ used' = used /\ unseen' = unseen
  BY <1>3 DEF reuse, stack, Kept, Reuse
<1>6. \A c \in {b, new} : /\ owned[c] = 0 /\ c \notin Kept /\ c \notin unseen
                          /\ \A u \in Thread : u # t => c \notin Touched(op[u], arg[u])
  BY <1>1, TouchedAlone
<1>7. new \in used
  BY <1>0, <1>1 DEF InCalls
<1>8. \A r \in without : r \in regions /\ r.start # b /\ r.start # new /\ ~Covers(r, new)
  <2>1. ASSUME NEW r \in regions, r.start # b PROVE r.start # new /\ ~Covers(r, new)
    <3>1. CASE new = b
      <4>1. ~Covers(r, b)
        BY <1>2, <2>1, BlockCovered
      <4> QED
        BY <2>1, <3>1, <4>1
    <3>2. CASE new # b
      <4>1. new \notin Freeing
        BY <1>0, <1>1, <3>2, TouchedAlone
      <4> QED
        BY <1>2, <1>6, <4>1, NoRegion
    <3> QED
      BY <3>1, <3>2
  <2> QED
    BY <2>1 DEF Deleted
<1>9. \A r \in regions : r.start # b => r \in without
  BY DEF Deleted
<1> HIDE DEF without
<1>10. regions' = without \union {Region(new, n)}
  BY <1>3, <1>8 DEF Inserted
<1>11. /\ owned' \in [Block -> Sizes \union {0}] /\ owned'[new] = n /\ n > 0
       /\ \A c \in Block : c # new => owned'[c] = owned[c]
  BY <1>2, <1>3, SizesAssumption DEF Blocks
<1>12. Blocks'
  BY <1>2, <1>5, <1>6, <1>7, <1>11 DEF Blocks
<1>13. InCalls'
  <2>1. Touched(op'[t], arg'[t]) = {} /\ BlockCall(op'[t], arg'[t])
    BY <1>4 DEF Touched, BlockCall
  <2>2. \A u \in Thread : \A c \in Touched(op[u], arg[u]) : c \in Block /\ owned[c] = 0 /\ c \notin Kept
    BY TouchedBlocks DEF InCalls
  <2>3. \A u \in Thread : u # t => \A c \in Touched(op[u], arg[u]) :
          owned'[c] = 0 /\ c \notin Kept /\ (c \in used => c \in used')
    BY <1>5, <1>6, <1>11, <2>2
  <2> QED
    BY <1>4, <1>5, <2>1, <2>3, InCallsStep
<1>14. Freeing' \subseteq Freeing /\ \A c \in Freeing : c # b => c \in Freeing'
  <2>1. \A u \in Thread : u # t => (op'[u] = op[u] /\ arg'[u] = arg[u])
    BY <1>4 DEF Others
  <2> QED
    BY <1>0, <1>1, <1>4, <2>1 DEF Freeing
<1>15. Known'
  <2>1. \A r \in without : OfBlock(r) => OfBlock(r)'
    BY <1>5, <1>8, <1>11, <1>14 DEF OfBlock
  <2>2. OfBlock(Region(new, n))'
    BY <1>2, <1>5, <1>6, <1>11 DEF OfBlock, Region, Triple
  <2>3. \A r \in regions : OfStack(r) => OfStack(r)' /\ r \in without
    BY <1>2, <1>5, <1>9, StackStart DEF OfStack
  <2>4. HeapKnown'
    <3>1. ASSUME NEW c \in Block, owned'[c] > 0, c \notin unseen
          PROVE  Region(c, owned'[c]) \in regions'
      <4>1. CASE c = new
        BY <1>10, <1>11, <4>1
      <4>2. CASE c # new
        <5>1. owned'[c] = owned[c] /\ owned[c] > 0
          BY <1>11, <3>1, <4>2
        <5>2. Region(c, owned[c]) \in regions
          BY <3>1, <5>1 DEF Known, HeapKnown
        <5>3. c # b
          BY <1>6, <5>1
        <5>4. Region(c, owned[c]).start = c
          BY DEF Region
        <5> QED
          BY <1>9, <1>10, <5>1, <5>2, <5>3, <5>4
      <4> QED
        BY <4>1, <4>2
    <3>2. ASSUME NEW c \in Kept PROVE \E m \in Sizes : FreedRegion(c, m) \in regions'
      <4>1. PICK m \in Sizes : FreedRegion(c, m) \in regions
        BY DEF Known, HeapKnown
      <4>2. FreedRegion(c, m).start = c /\ c # b
        BY <1>6 DEF FreedRegion
      <4>3. FreedRegion(c, m) \in regions'
        BY <1>9, <1>10, <4>1, <4>2
      <4> QED
        BY <4>3
    <3> QED
      BY <1>5, <3>1, <3>2 DEF HeapKnown
  <2>5. StackKnown'
    <3> SUFFICES ASSUME NEW u \in Thread, NEW d \in 1..Len(frames[u])
                 PROVE  /\ frames[u][d].seen => Region(Local(u, d), 1) \in regions'
                        /\ frames[u][d].vla > 0 => Region(Vla(u, d), frames[u][d].vla) \in regions'
      BY <1>5 DEF StackKnown
    <3>1. /\ frames[u][d].seen => OfStack(Region(Local(u, d), 1))
          /\ frames[u][d].vla > 0 => OfStack(Region(Vla(u, d), frames[u][d].vla))
      BY DEF OfStack
    <3> QED
      BY <1>10, <2>3, <3>1 DEF Known, StackKnown
  <2> QED
    BY <1>8, <1>10, <2>1, <2>2, <2>3, <2>4, <2>5 DEF Known
<1> QED
  BY <1>3, <1>4, <1>5, <1>12, <1>13, <1>15, StackSame DEF StackOps

-----------------------------------------------------------------------------
(* The stacks.  What frames keep.                                          *)
LEMMA FramesAre ==
  ASSUME NEW t, NEW fs \in Seq(FrameSet)
  PROVE  \A r : r \in OfFrames(t, fs) <=>
           \E d \in 1..Len(fs) :
             \/ fs[d].seen /\ r = Region(Local(t, d), 1)
             \/ fs[d].vla > 0 /\ r = Region(Vla(t, d), fs[d].vla)
<1>1. DOMAIN fs = 1..Len(fs)
  OBVIOUS
<1> QED
  BY <1>1 DEF OfFrames

(* The frames of a thread are no block's and no other thread's.            *)
LEMMA FramesApart ==
  ASSUME NEW t \in Thread, NEW fs \in Seq(FrameSet), Len(fs) \in 1..MaxDepth,
         NEW r \in OfFrames(t, fs)
  PROVE  /\ r.start \notin Block
         /\ \A u \in Thread, gs \in Seq(FrameSet) :
              u # t /\ Len(gs) \in 1..MaxDepth => r \notin OfFrames(u, gs)
<1>1. PICK d \in 1..Len(fs) : \/ fs[d].seen /\ r = Region(Local(t, d), 1)
                              \/ fs[d].vla > 0 /\ r = Region(Vla(t, d), fs[d].vla)
  BY FramesAre
<1>2. d \in 1..MaxDepth /\ r.start \in {Local(t, d), Vla(t, d)}
  BY <1>1, StackAssumption DEF Region
<1>3. ASSUME NEW u \in Thread, NEW e \in 1..MaxDepth, u # t
      PROVE  r.start # Local(u, e) /\ r.start # Vla(u, e)
  <2>1. /\ fp(t, d) \in Int /\ Local(t, d) = fp(t, d) + 4 /\ Vla(t, d) = fp(t, d) + 1
        /\ fp(u, e) \in Int /\ Local(u, e) = fp(u, e) + 4 /\ Vla(u, e) = fp(u, e) + 1
        /\ fp(t, d) + 8 <= fp(u, e) \/ fp(u, e) + 8 <= fp(t, d)
    BY <1>2, <1>3, FrameLayout
  <2> QED
    BY <1>2, <2>1
<1>4. ASSUME NEW u \in Thread, NEW gs \in Seq(FrameSet), u # t, Len(gs) \in 1..MaxDepth,
             r \in OfFrames(u, gs)
      PROVE  FALSE
  <2>1. PICK e \in 1..Len(gs) : \/ gs[e].seen /\ r = Region(Local(u, e), 1)
                                \/ gs[e].vla > 0 /\ r = Region(Vla(u, e), gs[e].vla)
    BY <1>4, FramesAre
  <2>2. e \in 1..MaxDepth /\ r.start \in {Local(u, e), Vla(u, e)}
    BY <1>4, <2>1, StackAssumption DEF Region
  <2> QED
    BY <1>3, <1>4, <2>2
<1>5. r.start \notin Block
  <2>1. \A b \in Block : \A n \in Sizes : ~(b <= r.start /\ r.start < b + n)
    BY <1>2, BlockCovers
  <2>2. PICK n \in Sizes : n \in Nat /\ n > 0
    BY SizesAssumption, SizesAre
  <2>3. \A b \in Block : b \in Nat
    BY BlockAssumption
  <2> QED
    BY <2>1, <2>2, <2>3
<1> QED
  BY <1>4, <1>5

(* The regions stay right when a thread's frames change and their regions  *)
(* with them.                                                              *)
LEMMA KnownStep ==
  ASSUME Stacks, Stacks', Known, NEW t \in Thread,
         UNCHANGED heap, Kept' = Kept, Freeing' = Freeing,
         \A u \in Thread : u # t => frames'[u] = frames[u],
         regions' = (regions \ OfFrames(t, frames[t])) \union OfFrames(t, frames'[t])
  PROVE  Known'
<1>1. used' = used /\ owned' = owned /\ unseen' = unseen
  BY DEF heap
<1>2. /\ \A u \in Thread : frames[u] \in Seq(FrameSet) /\ Len(frames[u]) \in 1..MaxDepth
      /\ \A u \in Thread : frames'[u] \in Seq(FrameSet) /\ Len(frames'[u]) \in 1..MaxDepth
  BY DEF Stacks, StackRight
<1>3. /\ \A r : OfStack(r) <=> \E u \in Thread : r \in OfFrames(u, frames[u])
      /\ \A r : OfStack(r)' <=> \E u \in Thread : r \in OfFrames(u, frames'[u])
  <2>1. \A r : OfStack(r) <=> \E u \in Thread : r \in OfFrames(u, frames[u])
    BY <1>2, FramesAre DEF OfStack
  <2>2. \A r : OfStack(r)' <=> \E u \in Thread : r \in OfFrames(u, frames'[u])
    <3>1. \A u \in Thread : \A r : r \in OfFrames(u, frames'[u]) <=>
            \E d \in 1..Len(frames'[u]) :
              \/ frames'[u][d].seen /\ r = Region(Local(u, d), 1)
              \/ frames'[u][d].vla > 0 /\ r = Region(Vla(u, d), frames'[u][d].vla)
      BY <1>2, FramesAre
    <3> QED
      BY <3>1, Zenon DEF OfStack
  <2> QED
    BY <2>1, <2>2
<1>4. \A r : OfBlock(r) => OfBlock(r)'
  BY <1>1 DEF OfBlock
<1>5. ASSUME NEW r \in regions' PROVE OfStack(r)' \/ OfBlock(r)'
  <2>1. CASE r \in OfFrames(t, frames'[t])
    BY <1>3, <2>1
  <2>2. CASE r \in regions /\ r \notin OfFrames(t, frames[t])
    <3>1. CASE OfStack(r)
      BY <1>3, <2>2, <3>1
    <3>2. CASE OfBlock(r)
      BY <1>4, <3>2
    <3> QED
      BY <2>2, <3>1, <3>2 DEF Known
  <2> QED
    BY <2>1, <2>2
<1>6. \A r \in regions : r.start \in Block => r \in regions'
  BY <1>2, FramesApart
<1>7. HeapKnown'
  <2>1. ASSUME NEW b \in Block, owned[b] > 0, b \notin unseen
        PROVE  Region(b, owned[b]) \in regions'
    <3>1. Region(b, owned[b]) \in regions /\ Region(b, owned[b]).start = b
      BY <2>1 DEF Known, HeapKnown, Region
    <3> QED
      BY <1>6, <3>1
  <2>2. ASSUME NEW b \in Kept PROVE \E n \in Sizes : FreedRegion(b, n) \in regions'
    <3>1. PICK n \in Sizes : FreedRegion(b, n) \in regions
      BY DEF Known, HeapKnown
    <3>2. FreedRegion(b, n).start = b
      BY DEF FreedRegion
    <3>3. b \in Block
      <4>1. (Triple(FreedRegion(b, n)) /\ OfBlock(FreedRegion(b, n))) \/ OfStack(FreedRegion(b, n))
        BY <3>1 DEF Known, OfBlock
      <4>2. ~OfStack(FreedRegion(b, n))
        <5>1. FreedRegion(b, n).is_invalid = TRUE
          BY DEF FreedRegion
        <5>2. \A a, m : Region(a, m).is_invalid = FALSE
          BY DEF Region
        <5> QED
          BY <5>1, <5>2, Zenon DEF OfStack
      <4> QED
        BY <3>2, <4>1, <4>2 DEF OfBlock
    <3>4. FreedRegion(b, n) \in regions'
      BY <1>6, <3>1, <3>2, <3>3
    <3> QED
      BY <3>4
  <2> QED
    BY <1>1, <2>1, <2>2 DEF HeapKnown
<1>8. StackKnown'
  <2> SUFFICES ASSUME NEW u \in Thread, NEW d \in 1..Len(frames'[u])
               PROVE  /\ frames'[u][d].seen => Region(Local(u, d), 1) \in regions'
                      /\ frames'[u][d].vla > 0 => Region(Vla(u, d), frames'[u][d].vla) \in regions'
    BY DEF StackKnown, fp, Local, Vla
  <2>1. ASSUME NEW r, r \in OfFrames(u, frames'[u]) PROVE r \in regions'
    <3>1. CASE u = t
      BY <2>1, <3>1
    <3>2. CASE u # t
      <4>1. frames'[u] = frames[u]
        BY <3>2
      <4>2. r \in regions
        BY <1>2, <2>1, <4>1, FramesAre DEF Known, StackKnown
      <4>3. r \notin OfFrames(t, frames[t])
        BY <1>2, <2>1, <3>2, FramesApart
      <4> QED
        BY <4>2, <4>3
    <3> QED
      BY <3>1, <3>2
  <2>2. /\ frames'[u][d].seen => Region(Local(u, d), 1) \in OfFrames(u, frames'[u])
        /\ frames'[u][d].vla > 0 => Region(Vla(u, d), frames'[u][d].vla) \in OfFrames(u, frames'[u])
    BY <1>2, FramesAre
  <2> QED
    BY <2>1, <2>2
<1> QED
  BY <1>5, <1>7, <1>8 DEF Known

(* The frames' regions are there.                                          *)
LEMMA FramesKnown ==
  ASSUME Stacks, StackKnown, NEW t \in Thread
  PROVE  OfFrames(t, frames[t]) \subseteq regions
<1>1. frames[t] \in Seq(FrameSet)
  BY DEF Stacks, StackRight
<1> QED
  BY <1>1, FramesAre DEF StackKnown

(* The entries of alloca_list that frames stand for.                       *)
ArraysOf(t, fs) == {[fp |-> fp(t, d), p |-> Vla(t, d)] : d \in {d \in 1..Len(fs) : fs[d].vla > 0}}

(* alloca_list stays right in the same way.                                *)
LEMMA ArraysStep ==
  ASSUME Stacks, Stacks', Arrays, NEW t \in Thread,
         \A u \in Thread : u # t => frames'[u] = frames[u],
         alloca_list' = (alloca_list \ ArraysOf(t, frames[t])) \union ArraysOf(t, frames'[t])
  PROVE  Arrays'
<1>1. alloca_list = UNION {ArraysOf(u, frames[u]) : u \in Thread}
  BY DEF Arrays, ArraysOf
<1>2. ASSUME NEW u \in Thread, u # t, NEW a \in ArraysOf(u, frames[u]), a \in ArraysOf(t, frames[t])
      PROVE  FALSE
  <2>1. PICK d \in 1..Len(frames[u]) : a = [fp |-> fp(u, d), p |-> Vla(u, d)]
    BY <1>2 DEF ArraysOf
  <2>2. PICK e \in 1..Len(frames[t]) : a = [fp |-> fp(t, e), p |-> Vla(t, e)]
    BY <1>2 DEF ArraysOf
  <2>3. d \in 1..MaxDepth /\ e \in 1..MaxDepth
    BY FrameHas
  <2>4. fp(t, e) = fp(u, d)
    BY <2>1, <2>2
  <2>5. /\ fp(t, e) \in Int /\ fp(u, d) \in Int
        /\ fp(t, e) + 8 <= fp(u, d) \/ fp(u, d) + 8 <= fp(t, e)
    BY <1>2, <2>3, FrameLayout
  <2> QED
    BY <2>4, <2>5
<1>3. alloca_list' = UNION {ArraysOf(u, frames'[u]) : u \in Thread}
  BY <1>1, <1>2
<1> QED
  BY <1>3 DEF Arrays, ArraysOf, fp, Vla

-----------------------------------------------------------------------------
(* The jump buffers.  A list that is thinned out stays right.              *)
LEMMA ListThinned ==
  ASSUME NEW L, NEW M, NEW g, ListRight(L), M \in Seq(Jump), Thin(M, L, g)
  PROVE  ListRight(M)
<1>1. \A k \in 1..Len(M) : g[k] \in 1..Len(L) /\ M[k] = L[g[k]]
  BY DEF Thin
<1>2. \A k \in 1..Len(M) : M[k].penv[1] = M[k].tid
  BY <1>1 DEF ListRight
<1>3. ASSUME NEW k \in 1..Len(M), NEW m \in 1..Len(M), k # m PROVE M[k].penv # M[m].penv
  <2>1. k < m \/ m < k
    BY <1>3
  <2>2. g[k] < g[m] \/ g[m] < g[k]
    BY <2>1 DEF Thin
  <2>3. g[k] # g[m]
    BY <1>1, <2>2
  <2> QED
    BY <1>1, <2>3 DEF ListRight
<1> QED
  BY <1>2, <1>3 DEF ListRight

(* The place of an entry in a thinned list.                                *)
LEMMA ThinOrder ==
  ASSUME NEW L, NEW M, NEW g, Thin(M, L, g), NEW k \in 1..Len(M), NEW m \in 1..Len(M)
  PROVE  k < m <=> g[k] < g[m]
<1>1. g[k] \in 1..Len(L) /\ g[m] \in 1..Len(L)
  BY DEF Thin
<1>2. k < m => g[k] < g[m]
  BY DEF Thin
<1>3. m < k => g[m] < g[k]
  BY DEF Thin
<1> QED
  BY <1>1, <1>2, <1>3

(* A buffer that is its thread's first stays it.                           *)
LEMMA FirstThinned ==
  ASSUME NEW t, NEW e, NEW L, NEW M, NEW g, Thin(M, L, g), First(t, e, L)
  PROVE  First(t, e, M)
<1> SUFFICES ASSUME NEW i \in 1..Len(M), NEW k \in 1..Len(M),
                    M[i].penv = <<t, e>>, M[k].tid = t
             PROVE  i <= k
  BY DEF First
<1>1. /\ g[i] \in 1..Len(L) /\ g[k] \in 1..Len(L)
      /\ M[i] = L[g[i]] /\ M[k] = L[g[k]]
  BY DEF Thin
<1>2. g[i] <= g[k]
  BY <1>1 DEF First
<1>3. ~(g[k] < g[i])
  BY <1>1, <1>2
<1>4. ~(k < i)
  BY <1>3, ThinOrder
<1> QED
  BY <1>4

(* So do a thread's buffers, if their entries stay in the list.            *)
LEMMA EnvsThinned ==
  ASSUME NEW t, NEW es, NEW fs, NEW n, NEW L, EnvsRight(t, es, fs, n, L), ListRight(L),
         NEW ds \in Seq([env : Env, depth : Nat, vla : Sizes \union {0}]),
         NEW h, Thin(ds, es, h),
         NEW gs, NEW m, \A i \in 1..Len(ds) : EnvOf(gs, ds[i]) /\ (m # 0 => ds[i].depth <= m),
         NEW M, NEW g, Thin(M, L, g),
         \A i \in 1..Len(ds) : \A k \in 1..Len(L) :
           Records(t, ds[i], L[k]) => \E q \in 1..Len(M) : g[q] = k
  PROVE  EnvsRight(t, ds, gs, m, M)
<1>1. \A i \in 1..Len(ds) : h[i] \in 1..Len(es) /\ ds[i] = es[h[i]]
  BY DEF Thin
<1>2. \A q \in 1..Len(M) : g[q] \in 1..Len(L) /\ M[q] = L[g[q]]
  BY DEF Thin
<1>3. \A i \in 1..Len(es) : \E k \in 1..Len(L) : Records(t, es[i], L[k])
  BY DEF EnvsRight
<1>4. \A i, k \in 1..Len(es) : i < k =>
        /\ es[i].env # es[k].env
        /\ es[i].depth <= es[k].depth
        /\ es[i].depth = es[k].depth /\ es[i].vla # 0 => es[k].vla = es[i].vla
        /\ \A p, q \in 1..Len(L) :
             L[p].penv = <<t, es[i].env>> /\ L[q].penv = <<t, es[k].env>> => q < p
  BY DEF EnvsRight
<1>5. ASSUME NEW i \in 1..Len(ds) PROVE \E q \in 1..Len(M) : Records(t, ds[i], M[q])
  <2>1. PICK k \in 1..Len(L) : Records(t, ds[i], L[k])
    <3>1. h[i] \in 1..Len(es) /\ ds[i] = es[h[i]]
      BY <1>1
    <3> QED
      BY <1>3, <3>1
  <2>2. PICK q \in 1..Len(M) : g[q] = k
    BY <2>1
  <2> QED
    BY <1>2, <2>1, <2>2
<1>6. ASSUME NEW i \in 1..Len(ds), NEW k \in 1..Len(ds), i < k
      PROVE  /\ ds[i].env # ds[k].env
             /\ ds[i].depth <= ds[k].depth
             /\ ds[i].depth = ds[k].depth /\ ds[i].vla # 0 => ds[k].vla = ds[i].vla
             /\ \A p, q \in 1..Len(M) :
                  M[p].penv = <<t, ds[i].env>> /\ M[q].penv = <<t, ds[k].env>> => q < p
  <2>0. PICK a, b : a = h[i] /\ b = h[k]
    OBVIOUS
  <2>1. a < b /\ a \in 1..Len(es) /\ b \in 1..Len(es) /\ ds[i] = es[a] /\ ds[k] = es[b]
    BY <1>6, <2>0 DEF Thin
  <2>2. /\ es[a].env # es[b].env
        /\ es[a].depth <= es[b].depth
        /\ es[a].depth = es[b].depth /\ es[a].vla # 0 => es[b].vla = es[a].vla
        /\ \A p, q \in 1..Len(L) :
             L[p].penv = <<t, es[a].env>> /\ L[q].penv = <<t, es[b].env>> => q < p
    BY <1>4, <2>1
  <2>3. \A p, q \in 1..Len(L) :
          L[p].penv = <<t, ds[i].env>> /\ L[q].penv = <<t, ds[k].env>> => q < p
    BY <2>1, <2>2
  <2>4. ASSUME NEW p \in 1..Len(M), NEW q \in 1..Len(M),
               M[p].penv = <<t, ds[i].env>>, M[q].penv = <<t, ds[k].env>>
        PROVE  q < p
    <3>0. PICK c, d : c = g[p] /\ d = g[q]
      OBVIOUS
    <3>1. /\ c \in 1..Len(L) /\ d \in 1..Len(L)
          /\ L[c].penv = <<t, ds[i].env>> /\ L[d].penv = <<t, ds[k].env>>
      BY <1>2, <2>4, <3>0
    <3>2. g[q] < g[p]
      BY <2>3, <3>0, <3>1
    <3> QED
      BY <3>2, ThinOrder
  <2> QED
    BY <2>1, <2>2, <2>4
<1> QED
  BY <1>5, <1>6 DEF EnvsRight

(* A list is itself thinned out by nothing.                                *)
LEMMA Whole ==
  ASSUME NEW T, NEW s \in Seq(T)
  PROVE  \E g : Thin(s, s, g) /\ \A k \in 1..Len(s) : \E q \in 1..Len(s) : g[q] = k
<1> DEFINE g == [k \in 1..Len(s) |-> k]
<1>1. Thin(s, s, g)
  BY DEF Thin
<1>2. \A k \in 1..Len(s) : g[k] = k
  OBVIOUS
<1> HIDE DEF g
<1> QED
  BY <1>1, <1>2

(* The child stays right while no one returns from fork().                 *)
LEMMA ChildSame ==
  ASSUME Child, NEW t \in Thread, Others(t), op'[t] # "forked", child' = child,
         \A u \in Thread : u # t => frames'[u] = frames[u]
  PROVE  Child'
  BY DEF Child, Others, fp, Local, Vla

(* Of two functions on the threads, that they differ for one at most.      *)
Changed(f, new, t) == new = [u \in Thread |-> new[u]] /\ \A u \in Thread : u # t => new[u] = f[u]

(* EXCEPT does that.                                                       *)
LEMMA ExceptIs ==
  ASSUME NEW f, f = [u \in Thread |-> f[u]], NEW t \in Thread, NEW x,
         NEW new, new = [f EXCEPT ![t] = x]
  PROVE  Changed(f, new, t) /\ new[t] = x
  BY DEF Changed

(* The stacks, when those of one thread change.                            *)
LEMMA StacksStep ==
  ASSUME Stacks, NEW t \in Thread, Others(t),
         Changed(frames, frames', t), Changed(off, off', t),
         StackRight(op'[t], arg'[t], frames'[t], off'[t])
  PROVE  Stacks'
<1>1. ASSUME NEW u \in Thread PROVE StackRight(op'[u], arg'[u], frames'[u], off'[u])
  <2>1. CASE u = t
    BY <2>1
  <2>2. CASE u # t
    <3>1. StackRight(op[u], arg[u], frames[u], off[u])
      BY DEF Stacks
    <3>2. op'[u] = op[u] /\ arg'[u] = arg[u] /\ frames'[u] = frames[u] /\ off'[u] = off[u]
      BY <2>2 DEF Others, Changed
    <3> QED
      BY <3>1, <3>2
  <2> QED
    BY <2>1, <2>2
<1> QED
  BY <1>1 DEF Stacks, Changed

(* A list M has, in their order, all entries of a list L that the buffers  *)
(* of the other threads need.                                              *)
Spares(t, L, M) ==
  \E g : /\ Thin(M, L, g)
         /\ \A u \in Thread : u # t => \A i \in 1..Len(envs[u]) : \A k \in 1..Len(L) :
              Records(u, envs[u][i], L[k]) => \E q \in 1..Len(M) : g[q] = k

(* The buffers, when those of one thread change and the list is thinned    *)
(* out by its entries.                                                     *)
LEMMA JumpsStep ==
  ASSUME Stacks, Jumps, NEW t \in Thread, Others(t),
         Changed(frames, frames', t), Changed(off, off', t), Changed(envs, envs', t),
         ListRight(jmp_list'), Spares(t, jmp_list, jmp_list'),
         EnvsRight(t, envs'[t], frames'[t], off'[t], jmp_list'),
         JumpCall(t, op'[t], arg'[t], envs'[t], jmp_list')
  PROVE  Jumps'
<1>1. PICK M : M = jmp_list'
  OBVIOUS
<1>2. PICK g :
        /\ Thin(M, jmp_list, g)
        /\ \A u \in Thread : u # t => \A i \in 1..Len(envs[u]) : \A k \in 1..Len(jmp_list) :
             Records(u, envs[u][i], jmp_list[k]) => \E q \in 1..Len(M) : g[q] = k
  BY <1>1, Zenon DEF Spares
<1>3. ASSUME NEW u \in Thread, u # t
      PROVE  /\ EnvsRight(u, envs'[u], frames'[u], off'[u], M)
             /\ JumpCall(u, op'[u], arg'[u], envs'[u], M)
  <2>1. EnvsRight(u, envs[u], frames[u], off[u], jmp_list) /\ JumpCall(u, op[u], arg[u], envs[u], jmp_list)
    BY DEF Jumps
  <2>2. /\ op'[u] = op[u] /\ arg'[u] = arg[u] /\ frames'[u] = frames[u]
        /\ off'[u] = off[u] /\ envs'[u] = envs[u]
    BY <1>3 DEF Others, Changed
  <2>3. envs[u] \in Seq([env : Env, depth : Nat, vla : Sizes \union {0}])
    BY <2>1 DEF EnvsRight
  <2>4. PICK h : Thin(envs[u], envs[u], h)
    BY <2>3, Whole
  <2>5. \A i \in 1..Len(envs[u]) : EnvOf(frames[u], envs[u][i])
                                   /\ (off[u] # 0 => envs[u][i].depth <= off[u])
    BY <2>1 DEF EnvsRight
  <2>6. ListRight(jmp_list)
    BY DEF Jumps
  <2>7. EnvsRight(u, envs[u], frames[u], off[u], M)
    BY <1>2, <1>3, <2>1, <2>3, <2>4, <2>5, <2>6, EnvsThinned
  <2>8. JumpCall(u, op[u], arg[u], envs[u], M)
    <3>1. \A e : First(u, e, jmp_list) => First(u, e, M)
      BY <1>2, FirstThinned
    <3> QED
      BY <2>1, <3>1, Zenon DEF JumpCall
  <2> QED
    BY <2>2, <2>7, <2>8
<1> QED
  BY <1>1, <1>3 DEF Jumps, Changed

-----------------------------------------------------------------------------
(* Steps that leave the memory as it is.                                   *)
LEMMA KnownSame ==
  ASSUME Known, UNCHANGED heap, Kept' = Kept, Freeing' = Freeing,
         frames' = frames, regions' = regions
  PROVE  Known'
<1>1. used' = used /\ owned' = owned /\ unseen' = unseen
  BY DEF heap
<1>2. \A r : OfBlock(r) => OfBlock(r)'
  BY <1>1 DEF OfBlock
<1>3. \A r : OfStack(r) => OfStack(r)'
  BY DEF OfStack
<1>4. StackKnown' /\ HeapKnown'
  BY <1>1 DEF Known, StackKnown, HeapKnown
<1> QED
  BY <1>2, <1>3, <1>4 DEF Known

(* A call that is not about a block begins.                                *)
LEMMA BeginStep ==
  ASSUME IInv, NEW t \in Thread, op[t] = "run",
         NEW what \in StackOps \union {"fork"}, NEW data, Calling(t, what, data),
         UNCHANGED <<heap, stack, regions, reuse, lists, child>>,
         StackRight(what, data, frames[t], off[t]),
         JumpCall(t, what, data, envs[t], jmp_list)
  PROVE  IInv'
<1> USE DEF IInv
<1>1. Calls' /\ Others(t) /\ op'[t] = what /\ arg'[t] = data
  BY CallingIs DEF Ops, Locking, StackOps
<1>2. Reuse' /\ Blocks' /\ InCalls' /\ Kept' = Kept /\ Freeing' = Freeing
  BY <1>1, HeapSame DEF HeapOps, StackOps
<1>3. /\ frames' = frames /\ envs' = envs /\ off' = off
      /\ alloca_list' = alloca_list /\ jmp_list' = jmp_list /\ child' = child
  BY DEF stack, lists
<1>4. Known'
  BY <1>2, <1>3, KnownSame
<1>5. Stacks'
  <2>1. ASSUME NEW u \in Thread PROVE StackRight(op'[u], arg'[u], frames[u], off[u])
    <3>1. CASE u = t
      BY <1>1, <3>1
    <3>2. CASE u # t
      BY <1>1, <3>2 DEF Stacks, Others
    <3> QED
      BY <3>1, <3>2
  <2> QED
    BY <1>3, <2>1 DEF Stacks
<1>6. Arrays'
  BY <1>3 DEF Arrays, fp, Vla
<1>7. Jumps'
  <2>1. ASSUME NEW u \in Thread PROVE JumpCall(u, op'[u], arg'[u], envs[u], jmp_list)
    <3>1. CASE u = t
      BY <1>1, <3>1
    <3>2. CASE u # t
      BY <1>1, <3>2 DEF Jumps, Others
    <3> QED
      BY <3>1, <3>2
  <2> QED
    BY <1>3, <2>1 DEF Jumps
<1>8. Child'
  BY <1>1, <1>3, ChildSame DEF StackOps
<1> QED
  BY <1>1, <1>2, <1>4, <1>5, <1>6, <1>7, <1>8

(* What is true of a thread's stack for any call, for one in particular.   *)
LEMMA StackFor ==
  ASSUME Stacks, NEW t \in Thread, NEW o, NEW a,
         o \in {"call", "leave", "alloca", "setjmp", "longjmp"} => off[t] = 0,
         o = "call" => Len(frames[t]) < MaxDepth,
         o = "leave" => Len(frames[t]) > 1,
         o = "alloca" => a.size \in Sizes
  PROVE  StackRight(o, a, frames[t], off[t])
<1>1. StackRight(op[t], arg[t], frames[t], off[t])
  BY DEF Stacks
<1> QED
  BY <1>1 DEF StackRight

(* WAIT_SEM().                                                             *)
LEMMA WaitStep ==
  ASSUME IInv, NEW t \in Thread, Wait(t)
  PROVE  IInv'
<1> USE DEF IInv
<1>1. UNCHANGED <<heap, stack, op, arg, regions, reuse, lists, child>>
  BY DEF Wait
<1>2. /\ used' = used /\ owned' = owned /\ unseen' = unseen
      /\ free_reuse_list' = free_reuse_list /\ free_reuse_index' = free_reuse_index
      /\ frames' = frames /\ envs' = envs /\ off' = off /\ op' = op /\ arg' = arg
      /\ alloca_list' = alloca_list /\ jmp_list' = jmp_list /\ child' = child /\ regions' = regions
  BY <1>1 DEF heap, stack, reuse, lists
<1>3. Kept' = Kept /\ Freeing' = Freeing
  BY <1>2 DEF Kept, Freeing
<1>4. Calls' /\ Reuse' /\ Blocks' /\ InCalls'
  BY <1>2, <1>3 DEF Calls, Reuse, Blocks, InCalls
<1>5. Known'
  BY <1>1, <1>2, <1>3, KnownSame
<1>6. Stacks' /\ Jumps'
  BY <1>2 DEF Stacks, Jumps
<1>7. Arrays' /\ Child'
  BY <1>2 DEF Arrays, Child, fp, Local, Vla
<1> QED
  BY <1>4, <1>5, <1>6, <1>7

(* setjmp() before the lock.                                               *)
LEMMA SetjmpStep ==
  ASSUME Allowed = {}, IInv, NEW t \in Thread, Setjmp(t)
  PROVE  IInv'
<1> USE DEF IInv
<1>1. PICK e \in Env : (Nested => SetLast(t, e)) /\ Calling(t, "setjmp", [env |-> e])
  BY DEF Setjmp
<1>2. /\ op[t] = "run" /\ off[t] = 0
      /\ UNCHANGED <<heap, stack, regions, reuse, lists, child>>
  BY DEF Setjmp, Runs, Checks
<1>3. First(t, e, jmp_list)
  <2>1. DOMAIN jmp_list = 1..Len(jmp_list)
    BY DEF Jumps, ListRight
  <2> QED
    BY <1>1, <2>1 DEF SetLast, First, Nested
<1>4. JumpCall(t, "setjmp", [env |-> e], envs[t], jmp_list)
  BY <1>3 DEF JumpCall
<1>5. StackRight("setjmp", [env |-> e], frames[t], off[t])
  BY <1>2, StackFor
<1> QED
  BY <1>1, <1>2, <1>4, <1>5, BeginStep DEF StackOps

(* longjmp() before the lock.                                              *)
LEMMA LongjmpStep ==
  ASSUME IInv, NEW t \in Thread, Longjmp(t)
  PROVE  IInv'
<1> USE DEF IInv
<1>1. PICK i \in DOMAIN envs[t] : Calling(t, "longjmp", [env |-> envs[t][i].env])
  BY DEF Longjmp
<1>2. /\ op[t] = "run" /\ off[t] = 0
      /\ UNCHANGED <<heap, stack, regions, reuse, lists, child>>
  BY DEF Longjmp, Runs, Checks
<1>3. i \in 1..Len(envs[t])
  BY DEF Jumps, EnvsRight
<1>4. JumpCall(t, "longjmp", [env |-> envs[t][i].env], envs[t], jmp_list)
  BY <1>3 DEF JumpCall
<1>5. StackRight("longjmp", [env |-> envs[t][i].env], frames[t], off[t])
  BY <1>2, StackFor
<1> QED
  BY <1>1, <1>2, <1>4, <1>5, BeginStep DEF StackOps

(* alloca() before the lock.                                               *)
LEMMA AllocaStep ==
  ASSUME IInv, NEW t \in Thread, Alloca(t)
  PROVE  IInv'
<1> USE DEF IInv
<1>1. PICK n \in Sizes : Calling(t, "alloca", [size |-> n])
  BY DEF Alloca
<1>2. /\ op[t] = "run" /\ off[t] = 0
      /\ UNCHANGED <<heap, stack, regions, reuse, lists, child>>
  BY DEF Alloca, Runs, Checks
<1>3. JumpCall(t, "alloca", [size |-> n], envs[t], jmp_list)
  BY DEF JumpCall
<1>4. StackRight("alloca", [size |-> n], frames[t], off[t])
  BY <1>2, StackFor
<1> QED
  BY <1>1, <1>2, <1>3, <1>4, BeginStep DEF StackOps

(* fork() before the lock.                                                 *)
LEMMA ForkStep ==
  ASSUME IInv, NEW t \in Thread, Fork(t)
  PROVE  IInv'
<1> USE DEF IInv
<1>1. /\ op[t] = "run" /\ Calling(t, "fork", <<>>)
      /\ UNCHANGED <<heap, stack, regions, reuse, lists, child>>
  BY DEF Fork, Runs
<1>2. JumpCall(t, "fork", <<>>, envs[t], jmp_list)
  BY DEF JumpCall
<1>3. StackRight("fork", <<>>, frames[t], off[t])
  BY StackFor
<1> QED
  BY <1>1, <1>2, <1>3, BeginStep

(* fork() in the child ...                                                 *)
LEMMA ForkChildStep ==
  ASSUME IInv, NEW t \in Thread, ForkChild(t)
  PROVE  IInv'
<1> USE DEF IInv
<1>1. /\ op[t] = "fork" /\ Calling(t, "forked", <<>>)
      /\ child' = <<[sem |-> None, regions |-> regions]>>
      /\ UNCHANGED <<heap, stack, regions, reuse, lists>>
  BY DEF ForkChild, Holds
<1>2. Calls' /\ Others(t) /\ op'[t] = "forked"
  BY <1>1, CallingIs DEF Ops
<1>3. Reuse' /\ Blocks' /\ InCalls' /\ Kept' = Kept /\ Freeing' = Freeing
  BY <1>1, <1>2, HeapSame DEF HeapOps
<1>4. /\ frames' = frames /\ envs' = envs /\ off' = off
      /\ alloca_list' = alloca_list /\ jmp_list' = jmp_list
  BY <1>1 DEF stack, lists
<1>5. Known'
  BY <1>1, <1>3, <1>4, KnownSame
<1>6. Stacks'
  <2>1. ASSUME NEW u \in Thread PROVE StackRight(op'[u], arg'[u], frames[u], off[u])
    <3>1. CASE u = t
      BY <1>2, <3>1, StackFor
    <3>2. CASE u # t
      BY <1>2, <3>2 DEF Stacks, Others
    <3> QED
      BY <3>1, <3>2
  <2> QED
    BY <1>4, <2>1 DEF Stacks
<1>7. Arrays'
  BY <1>4 DEF Arrays, fp, Vla
<1>8. Jumps'
  <2>1. ASSUME NEW u \in Thread PROVE JumpCall(u, op'[u], arg'[u], envs[u], jmp_list)
    <3>1. CASE u = t
      BY <1>2, <3>1 DEF JumpCall
    <3>2. CASE u # t
      BY <1>2, <3>2 DEF Jumps, Others
    <3> QED
      BY <3>1, <3>2
  <2> QED
    BY <1>4, <2>1 DEF Jumps
<1>9. Child'
  <2>1. \A i \in DOMAIN child' : child'[i].sem = None /\ child'[i].regions = regions
    BY <1>1
  <2> QED
    BY <1>4, <2>1 DEF Child, Known, StackKnown, fp, Local, Vla
<1> QED
  BY <1>2, <1>3, <1>5, <1>6, <1>7, <1>8, <1>9

(* ... and back in the parent.                                             *)
LEMMA ForkReturnStep ==
  ASSUME IInv, NEW t \in Thread, ForkReturn(t)
  PROVE  IInv'
<1> USE DEF IInv
<1>1. /\ op[t] = "forked" /\ Done(t) /\ child' = <<>>
      /\ UNCHANGED <<heap, stack, regions, reuse, lists>>
  BY DEF ForkReturn
<1>2. Calls' /\ Others(t) /\ op'[t] = "run"
  BY <1>1, DoneIs
<1>3. Reuse' /\ Blocks' /\ InCalls' /\ Kept' = Kept /\ Freeing' = Freeing
  BY <1>1, <1>2, HeapSame DEF HeapOps
<1>4. /\ frames' = frames /\ envs' = envs /\ off' = off
      /\ alloca_list' = alloca_list /\ jmp_list' = jmp_list
  BY <1>1 DEF stack, lists
<1>5. Known'
  BY <1>1, <1>3, <1>4, KnownSame
<1>6. Stacks'
  <2>1. ASSUME NEW u \in Thread PROVE StackRight(op'[u], arg'[u], frames[u], off[u])
    <3>1. CASE u = t
      BY <1>2, <3>1, StackFor
    <3>2. CASE u # t
      BY <1>2, <3>2 DEF Stacks, Others
    <3> QED
      BY <3>1, <3>2
  <2> QED
    BY <1>4, <2>1 DEF Stacks
<1>7. Arrays'
  BY <1>4 DEF Arrays, fp, Vla
<1>8. Jumps'
  <2>1. ASSUME NEW u \in Thread PROVE JumpCall(u, op'[u], arg'[u], envs[u], jmp_list)
    <3>1. CASE u = t
      BY <1>2, <3>1 DEF JumpCall
    <3>2. CASE u # t
      BY <1>2, <3>2 DEF Jumps, Others
    <3> QED
      BY <3>1, <3>2
  <2> QED
    BY <1>4, <2>1 DEF Jumps
<1>9. Child'
  <2>1. DOMAIN child' = {}
    BY <1>1
  <2> QED
    BY <2>1 DEF Child
<1> QED
  BY <1>2, <1>3, <1>5, <1>6, <1>7, <1>8, <1>9

(* __bounds_checking(): the frames that there are have their regions.      *)
LEMMA SwitchStep ==
  ASSUME IInv, NEW t \in Thread, Switch(t)
  PROVE  IInv'
<1> USE DEF IInv
<1>0. PICK n : n = Depth(t) - off[t]
  OBVIOUS
<1>1. /\ op[t] = "run" /\ off[t] \in {0, Len(frames[t])} /\ n = Len(frames[t]) - off[t]
      /\ off' = [off EXCEPT ![t] = n]
      /\ UNCHANGED <<heap, frames, envs, op, arg, regions, reuse, lists, child>>
  BY <1>0 DEF Switch, Runs, Depth
<1>2. Calls' /\ Others(t) /\ op'[t] = "run"
  BY <1>1 DEF Calls, Others
<1>3. Reuse' /\ Blocks' /\ InCalls' /\ Kept' = Kept /\ Freeing' = Freeing
  BY <1>1, <1>2, HeapSame DEF HeapOps
<1>4. /\ frames' = frames /\ envs' = envs /\ alloca_list' = alloca_list
      /\ jmp_list' = jmp_list /\ child' = child
  BY <1>1 DEF lists
<1>5. Known'
  BY <1>1, <1>3, <1>4, KnownSame
<1>6. StackRight(op[t], arg[t], frames[t], off[t])
  BY DEF Stacks
<1>7. StackRight(op'[t], arg'[t], frames[t], n)
  BY <1>1, <1>2, <1>6 DEF StackRight
<1>8. Stacks' /\ off'[t] = n /\ \A u \in Thread : u # t => off'[u] = off[u]
  <2>1. Changed(frames, frames', t)
    BY <1>4 DEF Stacks, Changed
  <2>2. Changed(off, off', t) /\ off'[t] = n
    BY <1>1, ExceptIs DEF Stacks
  <2>3. StackRight(op'[t], arg'[t], frames'[t], off'[t])
    BY <1>4, <1>7, <2>2
  <2>4. Stacks'
    BY <1>2, <2>1, <2>2, <2>3, StacksStep
  <2> QED
    BY <2>2, <2>4 DEF Changed
<1>9. Arrays' /\ Child'
  <2>1. Arrays'
    BY <1>1, <1>4 DEF Arrays, fp, Vla
  <2>2. Child'
    BY <1>1, <1>2, <1>4, ChildSame
  <2> QED
    BY <2>1, <2>2
<1>10. Jumps'
  <2>1. EnvsRight(t, envs[t], frames[t], off[t], jmp_list) /\ JumpCall(t, op[t], arg[t], envs[t], jmp_list)
    BY DEF Jumps
  <2>2. \A i \in 1..Len(envs[t]) : EnvOf(frames[t], envs[t][i])
    BY <2>1 DEF EnvsRight
  <2>3. \A i \in 1..Len(envs[t]) : n # 0 => envs[t][i].depth <= n
    BY <1>1, <1>6, <2>2 DEF EnvOf, StackRight
  <2>4. EnvsRight(t, envs[t], frames[t], n, jmp_list)
    BY <2>1, <2>2, <2>3 DEF EnvsRight
  <2>5. ASSUME NEW u \in Thread
        PROVE  /\ EnvsRight(u, envs[u], frames[u], off'[u], jmp_list)
               /\ JumpCall(u, op[u], arg[u], envs[u], jmp_list)
    BY <1>8, <2>4 DEF Jumps
  <2> QED
    BY <1>1, <1>4, <2>5 DEF Jumps
<1> QED
  BY <1>2, <1>3, <1>5, <1>8, <1>9, <1>10

-----------------------------------------------------------------------------
(* Steps that change the frames of a thread.                               *)
LEMMA FrameStep ==
  ASSUME IInv, NEW t \in Thread, Others(t), Calls', op'[t] = "run", op[t] \notin HeapOps,
         UNCHANGED <<heap, reuse, child>>,
         Changed(frames, frames', t), Changed(off, off', t), Changed(envs, envs', t),
         StackRight("run", <<>>, frames'[t], off'[t]),
         regions' = (regions \ OfFrames(t, frames[t])) \union OfFrames(t, frames'[t]),
         alloca_list' = (alloca_list \ ArraysOf(t, frames[t])) \union ArraysOf(t, frames'[t]),
         ListRight(jmp_list'), Spares(t, jmp_list, jmp_list'),
         EnvsRight(t, envs'[t], frames'[t], off'[t], jmp_list')
  PROVE  IInv'
<1> USE DEF IInv
<1>1. Reuse' /\ Blocks' /\ InCalls' /\ Kept' = Kept /\ Freeing' = Freeing
  BY HeapSame DEF HeapOps
<1>2. StackRight(op'[t], arg'[t], frames'[t], off'[t])
  BY DEF StackRight
<1>3. Stacks'
  BY <1>2, StacksStep
<1>4. \A u \in Thread : u # t => frames'[u] = frames[u]
  BY DEF Changed
<1>5. Arrays'
  BY <1>3, <1>4, ArraysStep
<1>6. Known'
  BY <1>1, <1>3, <1>4, KnownStep
<1>7. JumpCall(t, op'[t], arg'[t], envs'[t], jmp_list')
  BY DEF JumpCall
<1>8. Jumps'
  BY <1>7, JumpsStep
<1>9. Child'
  BY <1>4, ChildSame
<1> QED
  BY <1>1, <1>3, <1>5, <1>6, <1>8, <1>9

(* The regions that one frame stands for.                                  *)
Own(t, d, f) ==
  {r \in {Region(Local(t, d), 1)} : f.seen} \union {r \in {Region(Vla(t, d), f.vla)} : f.vla > 0}

(* A thread's are those of its frames.                                     *)
LEMMA OwnAre ==
  ASSUME NEW t \in Thread, NEW fs \in Seq(FrameSet)
  PROVE  \A r : r \in OfFrames(t, fs) <=> \E d \in 1..Len(fs) : r \in Own(t, d, fs[d])
  BY FramesAre DEF Own

(* Where they begin.                                                       *)
LEMMA OwnStart ==
  ASSUME NEW t \in Thread, NEW d, NEW f, NEW r \in Own(t, d, f)
  PROVE  r.start \in {Local(t, d), Vla(t, d)}
  BY DEF Own, Region

(* The frames of one thread begin at different addresses.                  *)
LEMMA StartsDiffer ==
  ASSUME NEW t \in Thread, NEW d \in 1..MaxDepth, NEW e \in 1..MaxDepth, e # d
  PROVE  {Local(t, d), Vla(t, d)} \cap {Local(t, e), Vla(t, e)} = {} /\ fp(t, d) # fp(t, e)
<1>1. /\ fp(t, d) \in Int /\ Local(t, d) = fp(t, d) + 4 /\ Vla(t, d) = fp(t, d) + 1
      /\ fp(t, e) \in Int /\ Local(t, e) = fp(t, e) + 4 /\ Vla(t, e) = fp(t, e) + 1
      /\ fp(t, d) + 8 <= fp(t, e) \/ fp(t, e) + 8 <= fp(t, d)
  BY FrameLayout
<1> QED
  BY <1>1

(* One frame has changed, and what begins in it.                           *)
LEMMA OneFrame ==
  ASSUME Stacks, Known, NEW t \in Thread, NEW d \in 1..MaxDepth,
         NEW fs \in Seq(FrameSet), Len(fs) <= MaxDepth,
         \A e \in 1..MaxDepth : e # d =>
           /\ e \in 1..Len(fs) <=> e \in 1..Len(frames[t])
           /\ e \in 1..Len(fs) => fs[e] = frames[t][e],
         NEW R, \A r : r \in R <=> \/ r \in regions /\ r.start # Local(t, d) /\ r.start # Vla(t, d)
                                   \/ d \in 1..Len(fs) /\ r \in Own(t, d, fs[d])
  PROVE  R = (regions \ OfFrames(t, frames[t])) \union OfFrames(t, fs)
<1>0. MaxDepth \in Nat /\ frames[t] \in Seq(FrameSet) /\ Len(frames[t]) <= MaxDepth
  BY StackAssumption DEF Stacks, StackRight
<1>1. \A r : r \in OfFrames(t, fs) <=> \E e \in 1..Len(fs) : r \in Own(t, e, fs[e])
  BY OwnAre
<1>2. \A r : r \in OfFrames(t, frames[t]) <=> \E e \in 1..Len(frames[t]) : r \in Own(t, e, frames[t][e])
  BY <1>0, OwnAre
<1>3. \A e \in 1..Len(fs) : e \in 1..MaxDepth
  BY <1>0
<1>4. \A e \in 1..Len(frames[t]) : e \in 1..MaxDepth
  BY <1>0
<1>5. ASSUME NEW r \in R PROVE r \in (regions \ OfFrames(t, frames[t])) \union OfFrames(t, fs)
  <2>1. CASE d \in 1..Len(fs) /\ r \in Own(t, d, fs[d])
    BY <1>1, <2>1
  <2>2. CASE r \in regions /\ r.start # Local(t, d) /\ r.start # Vla(t, d)
    <3>1. SUFFICES ASSUME r \in OfFrames(t, frames[t]) PROVE r \in OfFrames(t, fs)
      BY <2>2
    <3>2. PICK e \in 1..Len(frames[t]) : r \in Own(t, e, frames[t][e])
      BY <1>2, <3>1
    <3>3. e # d
      BY <2>2, <3>2, OwnStart
    <3>4. e \in 1..Len(fs) /\ fs[e] = frames[t][e]
      BY <1>4, <3>3
    <3> QED
      BY <1>1, <3>2, <3>4
  <2> QED
    BY <2>1, <2>2
<1>6. ASSUME NEW r \in regions, r \notin OfFrames(t, frames[t]) PROVE r \in R
  <2>1. SUFFICES ASSUME r.start = Local(t, d) \/ r.start = Vla(t, d) PROVE FALSE
    BY <1>6
  <2>2. Covers(r, r.start)
    BY StartCovered
  <2>3. /\ d \in 1..Len(frames[t])
        /\ \/ frames[t][d].seen /\ r = Region(Local(t, d), 1)
           \/ frames[t][d].vla > 0 /\ r = Region(Vla(t, d), frames[t][d].vla)
    <3>1. CASE r.start = Local(t, d)
      BY <2>2, <3>1, LocalCovered
    <3>2. CASE r.start = Vla(t, d)
      BY <2>2, <3>2, ArrayCovered
    <3> QED
      BY <2>1, <3>1, <3>2
  <2>4. r \in OfFrames(t, frames[t])
    BY <1>0, <2>3, FramesAre
  <2> QED
    BY <1>6, <2>4
<1>7. ASSUME NEW r \in OfFrames(t, fs) PROVE r \in R
  <2>1. PICK e \in 1..Len(fs) : r \in Own(t, e, fs[e])
    BY <1>1
  <2>2. CASE e = d
    BY <2>1, <2>2
  <2>3. CASE e # d
    <3>1. e \in 1..MaxDepth /\ e \in 1..Len(frames[t]) /\ fs[e] = frames[t][e]
      BY <1>3, <2>3
    <3>2. r \in regions
      BY <1>2, <2>1, <3>1, FramesKnown DEF Known
    <3>3. r.start \in {Local(t, e), Vla(t, e)}
      BY <2>1, OwnStart
    <3>4. r.start # Local(t, d) /\ r.start # Vla(t, d)
      BY <2>3, <3>1, <3>3, StartsDiffer
    <3> QED
      BY <3>2, <3>4
  <2> QED
    BY <2>2, <2>3
<1> QED
  BY <1>5, <1>6, <1>7

(* And the entry of alloca_list for it.                                    *)
LEMMA OneArray ==
  ASSUME Stacks, Arrays, NEW t \in Thread, NEW d \in 1..MaxDepth,
         NEW fs \in Seq(FrameSet), Len(fs) <= MaxDepth,
         \A e \in 1..MaxDepth : e # d =>
           /\ e \in 1..Len(fs) <=> e \in 1..Len(frames[t])
           /\ e \in 1..Len(fs) => fs[e] = frames[t][e],
         NEW A, \A a : a \in A <=>
                  \/ a \in alloca_list /\ a.fp # fp(t, d)
                  \/ d \in 1..Len(fs) /\ fs[d].vla > 0 /\ a = [fp |-> fp(t, d), p |-> Vla(t, d)]
  PROVE  A = (alloca_list \ ArraysOf(t, frames[t])) \union ArraysOf(t, fs)
<1>0. MaxDepth \in Nat /\ frames[t] \in Seq(FrameSet) /\ Len(frames[t]) <= MaxDepth
  BY StackAssumption DEF Stacks, StackRight
<1>1. \A a : a \in ArraysOf(t, fs) <=>
        \E e \in 1..Len(fs) : fs[e].vla > 0 /\ a = [fp |-> fp(t, e), p |-> Vla(t, e)]
  BY DEF ArraysOf
<1>2. \A u \in Thread : \A a : a \in ArraysOf(u, frames[u]) <=>
        \E e \in 1..Len(frames[u]) : frames[u][e].vla > 0 /\ a = [fp |-> fp(u, e), p |-> Vla(u, e)]
  BY DEF ArraysOf
<1>3. \A a : a \in alloca_list <=> \E u \in Thread : a \in ArraysOf(u, frames[u])
  BY DEF Arrays, ArraysOf
<1>4. ASSUME NEW a \in A PROVE a \in (alloca_list \ ArraysOf(t, frames[t])) \union ArraysOf(t, fs)
  <2>1. CASE d \in 1..Len(fs) /\ fs[d].vla > 0 /\ a = [fp |-> fp(t, d), p |-> Vla(t, d)]
    BY <1>1, <2>1
  <2>2. CASE a \in alloca_list /\ a.fp # fp(t, d)
    <3>1. SUFFICES ASSUME a \in ArraysOf(t, frames[t]) PROVE a \in ArraysOf(t, fs)
      BY <2>2
    <3>2. PICK e \in 1..Len(frames[t]) : frames[t][e].vla > 0 /\ a = [fp |-> fp(t, e), p |-> Vla(t, e)]
      BY <1>2, <3>1
    <3>3. e # d /\ e \in 1..MaxDepth
      BY <1>0, <2>2, <3>2
    <3>4. e \in 1..Len(fs) /\ fs[e] = frames[t][e]
      BY <3>3
    <3> QED
      BY <1>1, <3>2, <3>4
  <2> QED
    BY <2>1, <2>2
<1>5. ASSUME NEW a \in alloca_list, a \notin ArraysOf(t, frames[t]) PROVE a \in A
  <2>1. PICK u \in Thread : a \in ArraysOf(u, frames[u])
    BY <1>3
  <2>2. PICK e \in 1..Len(frames[u]) : a = [fp |-> fp(u, e), p |-> Vla(u, e)]
    BY <1>2, <2>1
  <2>3. u # t /\ e \in 1..MaxDepth
    BY <1>5, <2>1, FrameHas
  <2>4. /\ fp(t, d) \in Int /\ fp(u, e) \in Int
        /\ fp(t, d) + 8 <= fp(u, e) \/ fp(u, e) + 8 <= fp(t, d)
    BY <2>3, FrameLayout
  <2>5. a.fp # fp(t, d)
    BY <2>2, <2>4
  <2> QED
    BY <2>5
<1>6. ASSUME NEW a \in ArraysOf(t, fs) PROVE a \in A
  <2>1. PICK e \in 1..Len(fs) : fs[e].vla > 0 /\ a = [fp |-> fp(t, e), p |-> Vla(t, e)]
    BY <1>1
  <2>2. CASE e = d
    BY <2>1, <2>2
  <2>3. CASE e # d
    <3>1. e \in 1..MaxDepth /\ e \in 1..Len(frames[t]) /\ fs[e] = frames[t][e]
      BY <1>0, <2>3
    <3>2. a \in alloca_list
      BY <1>2, <1>3, <2>1, <3>1
    <3>3. a.fp # fp(t, d)
      BY <2>1, <2>3, <3>1, StartsDiffer
    <3> QED
      BY <3>2, <3>3
  <2> QED
    BY <2>2, <2>3
<1> QED
  BY <1>4, <1>5, <1>6

-----------------------------------------------------------------------------
(* The list as it is has what every thread needs.                          *)
LEMMA SparesAll ==
  ASSUME NEW t, NEW L, ListRight(L)
  PROVE  Spares(t, L, L)
<1>1. PICK g : Thin(L, L, g) /\ \A k \in 1..Len(L) : \E q \in 1..Len(L) : g[q] = k
  BY Whole DEF ListRight
<1> QED
  BY <1>1 DEF Spares

(* Buffers stay right when their frames do.                                *)
LEMMA EnvsFrames ==
  ASSUME NEW t, NEW es, NEW fs, NEW n, NEW L, EnvsRight(t, es, fs, n, L),
         NEW gs, NEW m, \A i \in 1..Len(es) : EnvOf(gs, es[i]) /\ (m # 0 => es[i].depth <= m)
  PROVE  EnvsRight(t, es, gs, m, L)
  BY DEF EnvsRight

(* A frame is added.                                                       *)
LEMMA Appended ==
  ASSUME NEW fs \in Seq(FrameSet), NEW f \in FrameSet
  PROVE  /\ Append(fs, f) \in Seq(FrameSet) /\ Len(Append(fs, f)) = Len(fs) + 1
         /\ Append(fs, f)[Len(fs) + 1] = f
         /\ \A d \in 1..Len(fs) : Append(fs, f)[d] = fs[d]
  OBVIOUS

(* The first entries of a list.                                            *)
LEMMA Shortened ==
  ASSUME NEW T, NEW s \in Seq(T), NEW m \in 0..Len(s)
  PROVE  /\ SubSeq(s, 1, m) \in Seq(T) /\ Len(SubSeq(s, 1, m)) = m
         /\ \A i \in 1..m : SubSeq(s, 1, m)[i] = s[i]
  OBVIOUS

(* The last one is taken away.                                             *)
LEMMA Fronted ==
  ASSUME NEW fs \in Seq(FrameSet), Len(fs) > 0
  PROVE  /\ Front(fs) \in Seq(FrameSet) /\ Len(Front(fs)) = Len(fs) - 1
         /\ \A d \in 1..(Len(fs) - 1) : Front(fs)[d] = fs[d]
<1>1. Len(fs) - 1 \in 0..Len(fs)
  OBVIOUS
<1> QED
  BY <1>1, Shortened DEF Front

(* A function is called while checking is off.                             *)
LEMMA CallStep ==
  ASSUME IInv, NEW t \in Thread, Call(t)
  PROVE  IInv'
<1> USE DEF IInv
<1>1. /\ op[t] = "run" /\ Len(frames[t]) < MaxDepth
      /\ UNCHANGED <<heap, envs, off, sem, regions, reuse, lists, child>>
  BY DEF Call, Runs, Depth
<1>2. CASE Checks(t)
  <2>1. Calling(t, "call", <<>>) /\ frames' = frames
    BY <1>2 DEF Call
  <2>2. StackRight("call", <<>>, frames[t], off[t])
    BY <1>1, <1>2, StackFor DEF Checks
  <2>3. JumpCall(t, "call", <<>>, envs[t], jmp_list)
    BY DEF JumpCall
  <2>4. UNCHANGED stack
    BY <1>1, <2>1 DEF stack
  <2> QED
    BY <1>1, <2>1, <2>2, <2>3, <2>4, BeginStep DEF StackOps
<1>3. CASE ~Checks(t)
  <2>1. PICK fs, d, n : fs = frames[t] /\ d = Len(frames[t]) + 1 /\ n = off[t]
    OBVIOUS
  <2>2. /\ frames' = [frames EXCEPT ![t] = Append(fs, Frame(FALSE))]
        /\ op' = op /\ arg' = arg
    BY <1>3, <2>1 DEF Call
  <2>3. /\ StackRight(op[t], arg[t], fs, n) /\ MaxDepth \in Nat /\ fs \in Seq(FrameSet)
        /\ n # 0 /\ n \in 1..Len(fs)
    BY <1>3, <2>1, StackAssumption DEF Stacks, StackRight, Checks
  <2>4. Calls' /\ Others(t) /\ op'[t] = "run"
    BY <1>1, <2>2 DEF Calls, Others
  <2>5. PICK f \in FrameSet : f = Frame(FALSE) /\ ~f.seen /\ f.vla = 0 /\ ~(f.vla > 0)
    <3>1. Frame(FALSE) \in FrameSet /\ ~Frame(FALSE).seen /\ Frame(FALSE).vla = 0
      BY DEF Frame, FrameSet
    <3>2. ~(0 > 0)
      OBVIOUS
    <3> QED
      BY <3>1, <3>2, Zenon
  <2>6. PICK gs : gs = Append(fs, f)
    OBVIOUS
  <2>7. /\ gs \in Seq(FrameSet) /\ Len(gs) = d /\ gs[d] = f
        /\ \A e \in 1..Len(fs) : gs[e] = fs[e]
    BY <2>1, <2>3, <2>6, Appended
  <2>8. Changed(frames, frames', t) /\ frames'[t] = gs
    BY <2>2, <2>5, <2>6, ExceptIs DEF Stacks
  <2>9. Changed(off, off', t) /\ off'[t] = n /\ Changed(envs, envs', t) /\ envs'[t] = envs[t]
    BY <1>1, <2>1 DEF Stacks, Jumps, Changed
  <2>10. d \in 1..MaxDepth /\ Len(gs) <= MaxDepth
    BY <1>1, <2>1, <2>3, <2>7
  <2>11. StackRight("run", <<>>, gs, n)
    <3>1. \A e \in 1..Len(fs) : (fs[e].seen <=> e <= n) /\ (fs[e].vla > 0 => fs[e].seen)
      BY <2>3 DEF StackRight
    <3>2. \A e \in 1..Len(gs) : e = d \/ e \in 1..Len(fs)
      BY <2>1, <2>3, <2>7
    <3>3. ASSUME NEW e \in 1..Len(gs)
          PROVE  (gs[e].seen <=> e <= n) /\ (gs[e].vla > 0 => gs[e].seen)
      <4>1. CASE e = d
        <5>1. gs[e] = f /\ ~(e <= n)
          BY <2>1, <2>3, <2>7, <4>1
        <5> QED
          BY <2>5, <5>1, Zenon
      <4>2. CASE e \in 1..Len(fs)
        <5>1. gs[e] = fs[e]
          BY <2>7, <4>2
        <5> QED
          BY <3>1, <4>2, <5>1, Zenon
      <4> QED
        BY <3>2, <4>1, <4>2
    <3>4. Len(gs) \in 1..MaxDepth /\ n \in 0..Len(gs)
      BY <2>1, <2>3, <2>7, <2>10
    <3> QED
      BY <2>3, <2>7, <3>3, <3>4 DEF StackRight
  <2>12. \A e \in 1..MaxDepth : e # d =>
           /\ e \in 1..Len(gs) <=> e \in 1..Len(frames[t])
           /\ e \in 1..Len(gs) => gs[e] = frames[t][e]
    BY <2>1, <2>3, <2>7
  <2>13. regions' = (regions \ OfFrames(t, frames[t])) \union OfFrames(t, gs)
    <3>1. \A r : r \notin Own(t, d, gs[d])
      BY <2>5, <2>7 DEF Own
    <3>2. \A r \in regions : r.start # Local(t, d) /\ r.start # Vla(t, d)
      <4>1. \A r \in regions : ~Covers(r, Local(t, d)) /\ ~Covers(r, Vla(t, d))
        BY <2>1, <2>3, <2>10, LocalCovered, ArrayCovered
      <4> QED
        BY <4>1, StartCovered
    <3>3. PICK R : R = regions
      OBVIOUS
    <3>4. ASSUME NEW r
          PROVE  r \in R <=> \/ r \in regions /\ r.start # Local(t, d) /\ r.start # Vla(t, d)
                             \/ d \in 1..Len(gs) /\ r \in Own(t, d, gs[d])
      <4>1. r \in R <=> r \in regions
        BY <3>3
      <4>2. r \notin Own(t, d, gs[d])
        BY <3>1
      <4>3. r \in regions => r.start # Local(t, d) /\ r.start # Vla(t, d)
        BY <3>2
      <4> QED
        BY <4>1, <4>2, <4>3
    <3> QED
      BY <1>1, <2>7, <2>10, <2>12, <3>3, <3>4, OneFrame
  <2>14. alloca_list' = (alloca_list \ ArraysOf(t, frames[t])) \union ArraysOf(t, gs)
    <3>1. ArraysOf(t, gs) = ArraysOf(t, frames[t])
      <4>1. \A e \in 1..Len(gs) : gs[e].vla > 0 => e \in 1..Len(fs) /\ fs[e].vla > 0
        <5> SUFFICES ASSUME NEW e \in 1..Len(gs), gs[e].vla > 0
                     PROVE  e \in 1..Len(fs) /\ fs[e].vla > 0
          OBVIOUS
        <5>1. e # d
          BY <2>5, <2>7, Zenon
        <5> QED
          BY <2>1, <2>3, <2>7, <5>1
      <4>2. \A e \in 1..Len(fs) : e \in 1..Len(gs) /\ gs[e] = fs[e]
        BY <2>1, <2>3, <2>7
      <4>3. {e \in 1..Len(gs) : gs[e].vla > 0} = {e \in 1..Len(fs) : fs[e].vla > 0}
        BY <4>1, <4>2
      <4> QED
        BY <2>1, <4>3 DEF ArraysOf
    <3>2. ArraysOf(t, frames[t]) \subseteq alloca_list
      BY DEF Arrays, ArraysOf
    <3> QED
      BY <1>1, <3>1, <3>2 DEF lists
  <2>15. EnvsRight(t, envs[t], gs, n, jmp_list)
    <3>1. EnvsRight(t, envs[t], fs, n, jmp_list)
      BY <2>1 DEF Jumps
    <3>2. \A i \in 1..Len(envs[t]) : EnvOf(fs, envs[t][i]) /\ (n # 0 => envs[t][i].depth <= n)
      BY <3>1 DEF EnvsRight
    <3>3. \A x : EnvOf(fs, x) => EnvOf(gs, x)
      BY <2>1, <2>3, <2>7 DEF EnvOf
    <3> QED
      BY <3>1, <3>2, <3>3, EnvsFrames
  <2>16. jmp_list' = jmp_list /\ ListRight(jmp_list) /\ Spares(t, jmp_list, jmp_list)
    BY <1>1, SparesAll DEF lists, Jumps
  <2> QED
    BY <1>1, <2>4, <2>8, <2>9, <2>11, <2>13, <2>14, <2>15, <2>16, FrameStep DEF HeapOps
<1> QED
  BY <1>2, <1>3

-----------------------------------------------------------------------------
(* __bound_local_new(): a frame with its region.                           *)
LEMMA CallInsertStep ==
  ASSUME IInv, NEW t \in Thread, CallInsert(t)
  PROVE  IInv'
<1> USE DEF IInv
<1>1. /\ op[t] = "call" /\ Done(t)
      /\ UNCHANGED <<heap, envs, off, reuse, lists, child>>
  BY DEF CallInsert, Holds
<1>2. PICK fs, d : fs = frames[t] /\ d = Len(frames[t]) + 1
  OBVIOUS
<1>3. /\ frames' = [frames EXCEPT ![t] = Append(fs, Frame(TRUE))]
      /\ regions' = Inserted(regions, Local(t, d), 1)
  BY <1>2 DEF CallInsert, Depth
<1>4. /\ StackRight(op[t], arg[t], fs, off[t]) /\ MaxDepth \in Nat /\ fs \in Seq(FrameSet)
      /\ off[t] = 0 /\ Len(fs) < MaxDepth
  BY <1>1, <1>2, StackAssumption DEF Stacks, StackRight
<1>5. Calls' /\ Others(t) /\ op'[t] = "run"
  BY <1>1, DoneIs
<1>6. PICK f \in FrameSet : f = Frame(TRUE) /\ f.seen /\ f.vla = 0 /\ ~(f.vla > 0)
  <2>1. Frame(TRUE) \in FrameSet /\ Frame(TRUE).seen /\ Frame(TRUE).vla = 0
    BY DEF Frame, FrameSet
  <2>2. ~(0 > 0)
    OBVIOUS
  <2> QED
    BY <2>1, <2>2, Zenon
<1>7. PICK gs : gs = Append(fs, f)
  OBVIOUS
<1>8. /\ gs \in Seq(FrameSet) /\ Len(gs) = d /\ gs[d] = f
      /\ \A e \in 1..Len(fs) : gs[e] = fs[e]
  BY <1>2, <1>4, <1>7, Appended
<1>9. Changed(frames, frames', t) /\ frames'[t] = gs
  BY <1>3, <1>6, <1>7, ExceptIs DEF Stacks
<1>10. Changed(off, off', t) /\ off'[t] = 0 /\ Changed(envs, envs', t) /\ envs'[t] = envs[t]
  BY <1>1, <1>4 DEF Stacks, Jumps, Changed
<1>11. d \in 1..MaxDepth /\ Len(gs) <= MaxDepth /\ d \in 1..Len(gs)
       /\ d \notin 1..Len(frames[t]) /\ Len(gs) \in 1..MaxDepth
  BY <1>2, <1>4, <1>8
<1>12. \A e \in 1..Len(gs) : e = d \/ e \in 1..Len(fs)
  BY <1>2, <1>4, <1>8
<1>13. StackRight("run", <<>>, gs, 0)
  <2>1. \A e \in 1..Len(fs) : fs[e].seen
    BY <1>4 DEF StackRight
  <2>2. \A e \in 1..Len(gs) : gs[e].seen
    BY <1>6, <1>8, <1>12, <2>1
  <2>3. 0 \in 0..Len(gs)
    BY <1>8
  <2> QED
    BY <1>8, <1>11, <2>2, <2>3 DEF StackRight
<1>14. \A e \in 1..MaxDepth : e # d =>
         /\ e \in 1..Len(gs) <=> e \in 1..Len(frames[t])
         /\ e \in 1..Len(gs) => gs[e] = frames[t][e]
  BY <1>2, <1>4, <1>8
<1>15. regions' = (regions \ OfFrames(t, frames[t])) \union OfFrames(t, gs)
  <2>1. \A r : r \in Own(t, d, gs[d]) <=> r = Region(Local(t, d), 1)
    BY <1>6, <1>8 DEF Own
  <2>2. \A r \in regions : ~Covers(r, Local(t, d)) /\ ~Covers(r, Vla(t, d))
    BY <1>11, LocalCovered, ArrayCovered
  <2>3. \A r \in regions : r.start # Local(t, d) /\ r.start # Vla(t, d)
    BY <2>2, StartCovered
  <2>4. regions' = regions \union {Region(Local(t, d), 1)}
    BY <1>3, <2>2 DEF Inserted
  <2>5. PICK R : R = regions'
    OBVIOUS
  <2>6. ASSUME NEW r
        PROVE  r \in R <=> \/ r \in regions /\ r.start # Local(t, d) /\ r.start # Vla(t, d)
                           \/ d \in 1..Len(gs) /\ r \in Own(t, d, gs[d])
    BY <1>11, <2>1, <2>3, <2>4, <2>5
  <2> QED
    BY <1>8, <1>11, <1>14, <2>5, <2>6, OneFrame
<1>16. alloca_list' = (alloca_list \ ArraysOf(t, frames[t])) \union ArraysOf(t, gs)
  <2>1. \A e \in 1..Len(gs) : gs[e].vla > 0 => e \in 1..Len(fs) /\ fs[e].vla > 0
    BY <1>6, <1>8, <1>12
  <2>2. \A e \in 1..Len(fs) : e \in 1..Len(gs) /\ gs[e] = fs[e]
    BY <1>2, <1>4, <1>8
  <2>3. {e \in 1..Len(gs) : gs[e].vla > 0} = {e \in 1..Len(fs) : fs[e].vla > 0}
    BY <2>1, <2>2
  <2>4. ArraysOf(t, gs) = ArraysOf(t, frames[t])
    BY <1>2, <2>3 DEF ArraysOf
  <2>5. ArraysOf(t, frames[t]) \subseteq alloca_list
    BY DEF Arrays, ArraysOf
  <2> QED
    BY <1>1, <2>4, <2>5 DEF lists
<1>17. EnvsRight(t, envs[t], gs, 0, jmp_list)
  <2>1. EnvsRight(t, envs[t], fs, off[t], jmp_list)
    BY <1>2 DEF Jumps
  <2>2. \A i \in 1..Len(envs[t]) : EnvOf(fs, envs[t][i])
    BY <2>1 DEF EnvsRight
  <2>3. \A x : EnvOf(fs, x) => EnvOf(gs, x)
    BY <1>2, <1>4, <1>8 DEF EnvOf
  <2> QED
    BY <2>1, <2>2, <2>3, EnvsFrames
<1>18. jmp_list' = jmp_list /\ ListRight(jmp_list) /\ Spares(t, jmp_list, jmp_list)
  BY <1>1, SparesAll DEF lists, Jumps
<1> QED
  BY <1>1, <1>5, <1>9, <1>10, <1>13, <1>15, <1>16, <1>17, <1>18, FrameStep DEF HeapOps

(* A thread's stack without its last frame.                                *)
LEMMA FrontRight ==
  ASSUME NEW o, NEW a, NEW fs, NEW n, StackRight(o, a, fs, n), Len(fs) > 1, n < Len(fs),
         NEW gs, gs = Front(fs), NEW d, d = Len(fs)
  PROVE  /\ gs \in Seq(FrameSet) /\ Len(gs) = d - 1
         /\ \A e \in 1..Len(gs) : gs[e] = fs[e]
         /\ StackRight("run", <<>>, gs, n)
         /\ d \in 1..MaxDepth /\ Len(gs) <= MaxDepth /\ d \notin 1..Len(gs)
         /\ \A e \in 1..MaxDepth : e # d =>
              /\ e \in 1..Len(gs) <=> e \in 1..Len(fs)
              /\ e \in 1..Len(gs) => gs[e] = fs[e]
<1>1. /\ fs \in Seq(FrameSet) /\ Len(fs) \in 1..MaxDepth /\ n \in 0..Len(fs) /\ MaxDepth \in Nat
      /\ \A e \in 1..Len(fs) : (fs[e].seen <=> n = 0 \/ e <= n) /\ (fs[e].vla > 0 => fs[e].seen)
  BY StackAssumption DEF StackRight
<1>2. /\ gs \in Seq(FrameSet) /\ Len(gs) = d - 1
      /\ \A e \in 1..(d - 1) : gs[e] = fs[e]
  BY <1>1, Fronted
<1>3. Len(gs) \in 1..MaxDepth /\ n \in 0..Len(gs) /\ \A e \in 1..Len(gs) : e \in 1..Len(fs)
  BY <1>1, <1>2
<1>4. \A e \in 1..Len(gs) : gs[e] = fs[e]
  BY <1>2
<1>5. StackRight("run", <<>>, gs, n)
  BY <1>1, <1>2, <1>3, <1>4 DEF StackRight
<1>6. /\ d \in 1..MaxDepth /\ Len(gs) <= MaxDepth /\ d \notin 1..Len(gs)
      /\ \A e \in 1..MaxDepth : e # d => (e \in 1..Len(gs) <=> e \in 1..Len(fs))
  BY <1>1, <1>2
<1> QED
  BY <1>2, <1>4, <1>5, <1>6

(* A function returns, while checking is off or before the lock.           *)
LEMMA LeaveStep ==
  ASSUME IInv, NEW t \in Thread, Leave(t)
  PROVE  IInv'
<1> USE DEF IInv
<1>1. /\ op[t] = "run" /\ Len(frames[t]) > 1 /\ off[t] < Len(frames[t])
      /\ UNCHANGED <<heap, envs, off, sem, regions, reuse, lists, child>>
  BY DEF Leave, Runs, Depth
<1>2. CASE Checks(t)
  <2>1. Calling(t, "leave", <<>>) /\ frames' = frames
    BY <1>2 DEF Leave
  <2>2. StackRight("leave", <<>>, frames[t], off[t])
    BY <1>1, <1>2, StackFor DEF Checks
  <2>3. JumpCall(t, "leave", <<>>, envs[t], jmp_list)
    BY DEF JumpCall
  <2>4. UNCHANGED stack
    BY <1>1, <2>1 DEF stack
  <2> QED
    BY <1>1, <2>1, <2>2, <2>3, <2>4, BeginStep DEF StackOps
<1>3. CASE ~Checks(t)
  <2>1. PICK fs, d, n, gs : fs = frames[t] /\ d = Len(frames[t]) /\ n = off[t] /\ gs = Front(frames[t])
    OBVIOUS
  <2>2. frames' = [frames EXCEPT ![t] = gs] /\ op' = op /\ arg' = arg
    BY <1>3, <2>1 DEF Leave
  <2>3. StackRight(op[t], arg[t], fs, n) /\ n # 0 /\ n < d
    BY <1>1, <1>3, <2>1 DEF Stacks, Checks
  <2>4. /\ gs \in Seq(FrameSet) /\ Len(gs) = d - 1
        /\ \A e \in 1..Len(gs) : gs[e] = fs[e]
        /\ StackRight("run", <<>>, gs, n)
        /\ d \in 1..MaxDepth /\ Len(gs) <= MaxDepth /\ d \notin 1..Len(gs)
        /\ \A e \in 1..MaxDepth : e # d =>
             /\ e \in 1..Len(gs) <=> e \in 1..Len(fs)
             /\ e \in 1..Len(gs) => gs[e] = fs[e]
    <3>1. gs = Front(fs) /\ d = Len(fs) /\ Len(fs) > 1 /\ n < Len(fs) /\ StackRight(op[t], arg[t], fs, n)
      BY <1>1, <2>1, <2>3
    <3>2. PICK o, a : o = op[t] /\ a = arg[t]
      OBVIOUS
    <3>3. StackRight(o, a, fs, n)
      BY <3>1, <3>2
    <3> QED
      BY <3>1, <3>3, FrontRight
  <2>5. Calls' /\ Others(t) /\ op'[t] = "run"
    BY <1>1, <2>2 DEF Calls, Others
  <2>6. Changed(frames, frames', t) /\ frames'[t] = gs
    BY <2>2, ExceptIs DEF Stacks
  <2>7. Changed(off, off', t) /\ off'[t] = n /\ Changed(envs, envs', t) /\ envs'[t] = envs[t]
    BY <1>1, <2>1 DEF Stacks, Jumps, Changed
  <2>8. d \in 1..Len(fs) /\ ~fs[d].seen /\ ~(fs[d].vla > 0)
    BY <2>1, <2>3 DEF StackRight
  <2>9. regions' = (regions \ OfFrames(t, frames[t])) \union OfFrames(t, gs)
    <3>1. \A r \in regions : ~Covers(r, Local(t, d)) /\ ~Covers(r, Vla(t, d))
      BY <2>1, <2>4, <2>8, LocalCovered, ArrayCovered
    <3>2. \A r \in regions : r.start # Local(t, d) /\ r.start # Vla(t, d)
      BY <3>1, StartCovered
    <3>3. PICK R : R = regions
      OBVIOUS
    <3>4. ASSUME NEW r
          PROVE  r \in R <=> \/ r \in regions /\ r.start # Local(t, d) /\ r.start # Vla(t, d)
                             \/ d \in 1..Len(gs) /\ r \in Own(t, d, gs[d])
      BY <2>4, <3>2, <3>3
    <3>5. \A e \in 1..MaxDepth : e # d =>
            /\ e \in 1..Len(gs) <=> e \in 1..Len(frames[t])
            /\ e \in 1..Len(gs) => gs[e] = frames[t][e]
      BY <2>1, <2>4
    <3>6. gs \in Seq(FrameSet) /\ Len(gs) <= MaxDepth /\ d \in 1..MaxDepth
      BY <2>4
    <3>7. R = (regions \ OfFrames(t, frames[t])) \union OfFrames(t, gs)
      BY <3>4, <3>5, <3>6, OneFrame
    <3> QED
      BY <1>1, <3>3, <3>7
  <2>10. alloca_list' = (alloca_list \ ArraysOf(t, frames[t])) \union ArraysOf(t, gs)
    <3>1. {e \in 1..Len(gs) : gs[e].vla > 0} = {e \in 1..Len(fs) : fs[e].vla > 0}
      <4>1. \A e \in 1..Len(fs) : fs[e].vla > 0 => e # d
        BY <2>8
      <4>2. \A e : e \in 1..Len(gs) <=> e \in 1..Len(fs) /\ e # d
        BY <2>1, <2>3, <2>4 DEF StackRight
      <4> QED
        BY <2>4, <4>1, <4>2
    <3>2. ArraysOf(t, gs) = ArraysOf(t, frames[t])
      BY <2>1, <3>1 DEF ArraysOf
    <3>3. ArraysOf(t, frames[t]) \subseteq alloca_list
      BY DEF Arrays, ArraysOf
    <3> QED
      BY <1>1, <3>2, <3>3 DEF lists
  <2>11. EnvsRight(t, envs[t], gs, n, jmp_list)
    <3>1. EnvsRight(t, envs[t], fs, n, jmp_list)
      BY <2>1 DEF Jumps
    <3>2. \A i \in 1..Len(envs[t]) : EnvOf(fs, envs[t][i]) /\ envs[t][i].depth <= n
      BY <2>3, <3>1 DEF EnvsRight
    <3>3. \A x : EnvOf(fs, x) /\ x.depth <= n => EnvOf(gs, x)
      <4>1. n \in Nat /\ d \in Nat
        BY <2>1, <2>3 DEF StackRight
      <4>2. \A i \in 1..Len(fs) : i <= n => i \in 1..Len(gs)
        BY <2>1, <2>3, <2>4, <4>1
      <4> QED
        BY <2>4, <4>2 DEF EnvOf
    <3> QED
      BY <3>1, <3>2, <3>3, EnvsFrames
  <2>12. jmp_list' = jmp_list /\ ListRight(jmp_list) /\ Spares(t, jmp_list, jmp_list)
    BY <1>1, SparesAll DEF lists, Jumps
  <2> QED
    BY <1>1, <2>4, <2>5, <2>6, <2>7, <2>9, <2>10, <2>11, <2>12, FrameStep DEF HeapOps
<1> QED
  BY <1>2, <1>3

-----------------------------------------------------------------------------
(* Frames have different addresses.                                        *)
LEMMA FpApart ==
  ASSUME NEW t \in Thread, NEW u \in Thread, NEW d \in 1..MaxDepth, NEW e \in 1..MaxDepth,
         fp(t, d) = fp(u, e)
  PROVE  t = u /\ d = e
<1>1. /\ fp(t, d) \in Int /\ fp(u, e) \in Int
      /\ t # u \/ d # e => fp(t, d) + 8 <= fp(u, e) \/ fp(u, e) + 8 <= fp(t, d)
  BY FrameLayout
<1> QED
  BY <1>1

(* The entry of alloca_list for a frame.                                   *)
LEMMA ArrayOf ==
  ASSUME Stacks, Arrays, NEW t \in Thread, NEW d \in 1..MaxDepth
  PROVE  /\ \A a \in alloca_list : a.fp = fp(t, d) =>
              /\ d \in 1..Len(frames[t]) /\ frames[t][d].vla > 0
              /\ a = [fp |-> fp(t, d), p |-> Vla(t, d)] /\ a.p = Vla(t, d)
         /\ d \in 1..Len(frames[t]) /\ frames[t][d].vla > 0 =>
              [fp |-> fp(t, d), p |-> Vla(t, d)] \in alloca_list
<1>1. ASSUME NEW a \in alloca_list, a.fp = fp(t, d)
      PROVE  /\ d \in 1..Len(frames[t]) /\ frames[t][d].vla > 0
             /\ a = [fp |-> fp(t, d), p |-> Vla(t, d)] /\ a.p = Vla(t, d)
  <2>1. PICK u \in Thread :
          a \in {[fp |-> fp(u, e), p |-> Vla(u, e)] : e \in {e \in 1..Len(frames[u]) : frames[u][e].vla > 0}}
    BY DEF Arrays
  <2>2. PICK e \in 1..Len(frames[u]) : frames[u][e].vla > 0 /\ a = [fp |-> fp(u, e), p |-> Vla(u, e)]
    BY <2>1
  <2>3. e \in 1..MaxDepth /\ fp(t, d) = fp(u, e)
    BY <1>1, <2>2, FrameHas
  <2>4. u = t /\ e = d
    BY <2>3, FpApart
  <2> QED
    BY <2>2, <2>4
<1>2. ASSUME d \in 1..Len(frames[t]), frames[t][d].vla > 0
      PROVE  [fp |-> fp(t, d), p |-> Vla(t, d)] \in alloca_list
  BY <1>2 DEF Arrays
<1> QED
  BY <1>1, <1>2

(* M is L without entries of thread t's frame d.                           *)
Keeps(t, d, L, M, g) ==
  /\ Thin(M, L, g)
  /\ \A x : x.depth \in 1..MaxDepth /\ x.depth # d =>
       \A k \in 1..Len(L) : Records(t, x, L[k]) => \E q \in 1..Len(M) : g[q] = k

(* The entries of a list that has lost those of one frame: what the others *)
(* need is there.                                                          *)
LEMMA OthersKept ==
  ASSUME Stacks, Jumps, NEW t \in Thread, NEW d \in 1..MaxDepth,
         NEW M, M = Only(jmp_list, {j \in Range(jmp_list) : j.fp # fp(t, d)})
  PROVE  /\ ListRight(M) /\ Spares(t, jmp_list, M)
         /\ \E g : Keeps(t, d, jmp_list, M, g)
<1>0. PICK S : S = {j \in Range(jmp_list) : j.fp # fp(t, d)}
  OBVIOUS
<1>1. jmp_list \in Seq(Jump) /\ ListRight(jmp_list)
  BY DEF Jumps, ListRight
<1>2. \A k \in 1..Len(jmp_list) : jmp_list[k].fp # fp(t, d) => jmp_list[k] \in S
  BY <1>0, <1>1 DEF Range
<1>3. M = Only(jmp_list, S)
  BY <1>0
<1>4. M \in Seq(Jump) /\ \E g : Leaves(M, jmp_list, S, g)
  BY <1>1, <1>3, OnlyIs
<1>5. PICK g : /\ Thin(M, jmp_list, g)
               /\ \A p \in 1..Len(jmp_list) : jmp_list[p] \in S => \E i \in 1..Len(M) : g[i] = p
  BY <1>4 DEF Leaves
<1>6. ListRight(M)
  BY <1>1, <1>4, <1>5, ListThinned
<1>7. ASSUME NEW u \in Thread, NEW x, x.depth \in 1..MaxDepth, u # t \/ x.depth # d,
             NEW k \in 1..Len(jmp_list), Records(u, x, jmp_list[k])
      PROVE  \E q \in 1..Len(M) : g[q] = k
  <2>1. jmp_list[k].fp = fp(u, x.depth)
    BY <1>7 DEF Records
  <2>2. fp(u, x.depth) # fp(t, d)
    BY <1>7, FpApart
  <2> QED
    BY <1>2, <1>5, <2>1, <2>2
<1>8. \A u \in Thread : \A i \in 1..Len(envs[u]) : envs[u][i].depth \in 1..MaxDepth
  <2>1. \A u \in Thread : \A i \in 1..Len(envs[u]) : envs[u][i].depth \in 1..Len(frames[u])
    BY DEF Jumps, EnvsRight, EnvOf
  <2> QED
    BY <2>1, FrameHas
<1>9. Spares(t, jmp_list, M)
  <2>1. \A u \in Thread : u # t => \A i \in 1..Len(envs[u]) : \A k \in 1..Len(jmp_list) :
          Records(u, envs[u][i], jmp_list[k]) => \E q \in 1..Len(M) : g[q] = k
    BY <1>7, <1>8
  <2> QED
    BY <1>5, <2>1 DEF Spares
<1> QED
  BY <1>5, <1>6, <1>7, <1>9 DEF Keeps

(* __bound_local_delete(): the last frame goes, with its local region, its *)
(* array and the jump buffers that were set in it.                         *)
LEMMA LeaveDeleteStep ==
  ASSUME IInv, NEW t \in Thread, LeaveDelete(t)
  PROVE  IInv'
<1> USE DEF IInv
<1>1. /\ op[t] = "leave" /\ Done(t)
      /\ UNCHANGED <<heap, off, reuse, child>>
  BY DEF LeaveDelete, Holds
<1>2. PICK fs, d, gs, es, ds :
        /\ fs = frames[t] /\ d = Len(frames[t]) /\ gs = Front(frames[t])
        /\ es = envs[t] /\ ds = Only(envs[t], {e \in Range(envs[t]) : e.depth < d})
  OBVIOUS
<1> DEFINE mine == {a \in alloca_list : a.fp = fp(t, d)}
<1>3. /\ regions' = {r \in Deleted(regions, Local(t, d)) : \A a \in mine : a.p # r.start}
      /\ alloca_list' = alloca_list \ mine
      /\ jmp_list' = Only(jmp_list, {j \in Range(jmp_list) : j.fp # fp(t, d)})
      /\ frames' = [frames EXCEPT ![t] = gs]
      /\ envs' = [envs EXCEPT ![t] = ds]
  BY <1>2 DEF LeaveDelete, Depth
<1>4. StackRight(op[t], arg[t], fs, off[t]) /\ off[t] = 0 /\ Len(fs) > 1 /\ fs \in Seq(FrameSet)
  BY <1>1, <1>2 DEF Stacks, StackRight
<1>5. /\ gs \in Seq(FrameSet) /\ Len(gs) = d - 1
      /\ \A e \in 1..Len(gs) : gs[e] = fs[e]
      /\ StackRight("run", <<>>, gs, 0)
      /\ d \in 1..MaxDepth /\ Len(gs) <= MaxDepth /\ d \notin 1..Len(gs)
      /\ \A e \in 1..MaxDepth : e # d =>
           /\ e \in 1..Len(gs) <=> e \in 1..Len(fs)
           /\ e \in 1..Len(gs) => gs[e] = fs[e]
  <2>1. PICK o, a : o = op[t] /\ a = arg[t]
    OBVIOUS
  <2>2. /\ StackRight(o, a, fs, 0) /\ 0 < Len(fs) /\ Len(fs) > 1
        /\ gs = Front(fs) /\ d = Len(fs)
    BY <1>2, <1>4, <2>1
  <2> QED
    BY <2>2, FrontRight
<1>6. Calls' /\ Others(t) /\ op'[t] = "run"
  BY <1>1, DoneIs
<1>7. Changed(frames, frames', t) /\ frames'[t] = gs
  BY <1>3, ExceptIs DEF Stacks
<1>8. Changed(off, off', t) /\ off'[t] = 0
  BY <1>1, <1>4 DEF Stacks, Changed
<1>9. Changed(envs, envs', t) /\ envs'[t] = ds
  BY <1>3, ExceptIs DEF Jumps
<1>10. \A e \in 1..MaxDepth : e # d =>
         /\ e \in 1..Len(gs) <=> e \in 1..Len(frames[t])
         /\ e \in 1..Len(gs) => gs[e] = frames[t][e]
  BY <1>2, <1>5
<1>11. regions' = (regions \ OfFrames(t, frames[t])) \union OfFrames(t, gs)
  <2>1. PICK R : R = regions'
    OBVIOUS
  <2>2. \A a \in mine : a.p = Vla(t, d)
    BY <1>5, ArrayOf
  <2>3. ASSUME NEW r \in regions, r.start = Vla(t, d) PROVE \E a \in mine : a.p = r.start
    <3>1. Covers(r, Vla(t, d))
      BY <2>3, StartCovered
    <3>2. d \in 1..Len(frames[t]) /\ frames[t][d].vla > 0
      BY <1>5, <3>1, ArrayCovered
    <3>3. [fp |-> fp(t, d), p |-> Vla(t, d)] \in mine
      BY <1>5, <3>2, ArrayOf
    <3> QED
      BY <2>3, <3>3
  <2>4. \A r : r \in R <=> r \in regions /\ r.start # Local(t, d) /\ \A a \in mine : a.p # r.start
    BY <1>3, <2>1 DEF Deleted
  <2> HIDE DEF mine
  <2>5. ASSUME NEW r
        PROVE  r \in R <=> \/ r \in regions /\ r.start # Local(t, d) /\ r.start # Vla(t, d)
                           \/ d \in 1..Len(gs) /\ r \in Own(t, d, gs[d])
    BY <1>5, <2>2, <2>3, <2>4
  <2>6. R = (regions \ OfFrames(t, frames[t])) \union OfFrames(t, gs)
    BY <1>5, <1>10, <2>5, OneFrame
  <2> QED
    BY <2>1, <2>6
<1>12. alloca_list' = (alloca_list \ ArraysOf(t, frames[t])) \union ArraysOf(t, gs)
  <2>1. PICK A : A = alloca_list'
    OBVIOUS
  <2>2. ASSUME NEW a
        PROVE  a \in A <=>
                 \/ a \in alloca_list /\ a.fp # fp(t, d)
                 \/ d \in 1..Len(gs) /\ gs[d].vla > 0 /\ a = [fp |-> fp(t, d), p |-> Vla(t, d)]
    BY <1>3, <1>5, <2>1
  <2>3. A = (alloca_list \ ArraysOf(t, frames[t])) \union ArraysOf(t, gs)
    BY <1>5, <1>10, <2>2, OneArray
  <2> QED
    BY <2>1, <2>3
<1>13. PICK M : M = jmp_list'
  OBVIOUS
<1>14. /\ ListRight(M) /\ Spares(t, jmp_list, M)
       /\ \E g : Keeps(t, d, jmp_list, M, g)
  BY <1>3, <1>5, <1>13, OthersKept
<1>15. EnvsRight(t, ds, gs, 0, M)
  <2>1. EnvsRight(t, es, fs, 0, jmp_list) /\ ListRight(jmp_list)
    BY <1>2, <1>4 DEF Jumps
  <2>2. PICK T : T = [env : Env, depth : Nat, vla : Sizes \union {0}] /\ es \in Seq(T)
    BY <2>1 DEF EnvsRight
  <2>3. PICK S : S = {e \in Range(es) : e.depth < d}
    OBVIOUS
  <2>4. ds = Only(es, S)
    BY <1>2, <2>3
  <2>5. /\ ds \in Seq(T)
        /\ \A i \in 1..Len(ds) : ds[i] \in S
        /\ \E h : Leaves(ds, es, S, h)
    BY <2>2, <2>4, OnlyIs
  <2>6. PICK h : Thin(ds, es, h)
    BY <2>5 DEF Leaves
  <2>7. \A i \in 1..Len(ds) : ds[i].depth < d
    BY <2>3, <2>5
  <2>8. \A i \in 1..Len(ds) : EnvOf(fs, ds[i])
    BY <2>1, <2>6 DEF Thin, EnvsRight
  <2>9. \A i \in 1..Len(ds) : EnvOf(gs, ds[i])
    <3>1. \A i \in 1..Len(fs) : i < d => i \in 1..Len(gs)
      BY <1>2, <1>4, <1>5
    <3> QED
      BY <1>5, <2>7, <2>8, <3>1 DEF EnvOf
  <2>10. \A i \in 1..Len(ds) : ds[i].depth \in 1..MaxDepth /\ ds[i].depth # d
    <3>1. d \in Nat /\ MaxDepth \in Nat /\ d <= MaxDepth /\ Len(gs) = d - 1
      BY <1>5, StackAssumption
    <3>2. \A i \in 1..Len(ds) : ds[i].depth \in 1..Len(gs)
      BY <2>9 DEF EnvOf
    <3> QED
      BY <3>1, <3>2
  <2>11. PICK g : Keeps(t, d, jmp_list, M, g)
    BY <1>14
  <2>12. \A i \in 1..Len(ds) : \A k \in 1..Len(jmp_list) :
           Records(t, ds[i], jmp_list[k]) => \E q \in 1..Len(M) : g[q] = k
    BY <2>10, <2>11 DEF Keeps
  <2>13. ds \in Seq([env : Env, depth : Nat, vla : Sizes \union {0}])
    BY <2>2, <2>5
  <2> QED
    BY <2>1, <2>6, <2>9, <2>11, <2>12, <2>13, EnvsThinned DEF Keeps
<1> QED
  BY <1>1, <1>5, <1>6, <1>7, <1>8, <1>9, <1>11, <1>12, <1>13, <1>14, <1>15, FrameStep DEF HeapOps

-----------------------------------------------------------------------------
(* A frame gets another array.                                             *)
Sized(fs, d, n) == [fs EXCEPT ![d].vla = n]

(* The others stay as they are.                                            *)
LEMMA Resized ==
  ASSUME NEW fs \in Seq(FrameSet), NEW d \in 1..Len(fs), NEW n \in Sizes \union {0},
         NEW gs, gs = Sized(fs, d, n)
  PROVE  /\ gs \in Seq(FrameSet) /\ Len(gs) = Len(fs) /\ gs[d].vla = n
         /\ gs[d].seen <=> fs[d].seen
         /\ \A e \in 1..Len(fs) : e # d => gs[e] = fs[e]
<1>1. fs[d] \in FrameSet
  OBVIOUS
<1>2. PICK f : f = [fs[d] EXCEPT !.vla = n]
  OBVIOUS
<1>3. f \in FrameSet /\ f.vla = n /\ (f.seen <=> fs[d].seen)
  BY <1>1, <1>2, Zenon DEF FrameSet
<1>4. gs = [fs EXCEPT ![d] = f]
  BY <1>2 DEF Sized
<1> QED
  BY <1>3, <1>4

(* __bound_new_region() for alloca() or a variable length array: the frame *)
(* has the new array in place of an older one.                             *)
LEMMA AllocaInsertStep ==
  ASSUME IInv, NEW t \in Thread, AllocaInsert(t)
  PROVE  IInv'
<1> USE DEF IInv
<1>1. /\ op[t] = "alloca" /\ Done(t)
      /\ UNCHANGED <<heap, off, reuse, jmp_list, child>>
  BY DEF AllocaInsert, Holds
<1>2. PICK fs, d, n, gs, es, ds, p :
        /\ fs = frames[t] /\ d = Len(frames[t]) /\ n = arg[t].size
        /\ gs = [frames[t] EXCEPT ![Len(frames[t])].vla = arg[t].size]
        /\ es = envs[t] /\ ds = InScope(t) /\ p = Vla(t, d)
  OBVIOUS
<1> DEFINE old == {a \in alloca_list : a.fp = fp(t, d) /\ a.p = p}
<1>3. /\ regions' = Inserted(IF old = {} THEN regions ELSE Deleted(regions, p), p, n)
      /\ alloca_list' = (alloca_list \ old) \union {[fp |-> fp(t, d), p |-> p]}
      /\ frames' = [frames EXCEPT ![t] = gs]
      /\ envs' = [envs EXCEPT ![t] = ds]
  BY <1>2 DEF AllocaInsert, Depth
<1>4. /\ StackRight(op[t], arg[t], fs, off[t]) /\ off[t] = 0 /\ fs \in Seq(FrameSet)
      /\ n \in Sizes /\ Len(fs) \in 1..MaxDepth /\ MaxDepth \in Nat
      /\ \A e \in 1..Len(fs) : fs[e].seen
  BY <1>1, <1>2, StackAssumption DEF Stacks, StackRight
<1>5. d \in 1..Len(fs) /\ d \in 1..MaxDepth /\ n > 0
  BY <1>2, <1>4, SizesAre
<1>6. /\ gs \in Seq(FrameSet) /\ Len(gs) = Len(fs) /\ gs[d].vla = n
      /\ gs[d].seen <=> fs[d].seen
      /\ \A e \in 1..Len(fs) : e # d => gs[e] = fs[e]
  <2>1. gs = Sized(fs, d, n) /\ n \in Sizes \union {0}
    BY <1>2, <1>4 DEF Sized
  <2> QED
    BY <1>4, <1>5, <2>1, Resized
<1>7. Calls' /\ Others(t) /\ op'[t] = "run"
  BY <1>1, DoneIs
<1>8. Changed(frames, frames', t) /\ frames'[t] = gs
  BY <1>3, ExceptIs DEF Stacks
<1>9. Changed(off, off', t) /\ off'[t] = 0
  BY <1>1, <1>4 DEF Stacks, Changed
<1>10. Changed(envs, envs', t) /\ envs'[t] = ds
  BY <1>3, ExceptIs DEF Jumps
<1>11. \A e \in 1..MaxDepth : e # d =>
         /\ e \in 1..Len(gs) <=> e \in 1..Len(frames[t])
         /\ e \in 1..Len(gs) => gs[e] = frames[t][e]
  BY <1>2, <1>6
<1>12. StackRight("run", <<>>, gs, 0) /\ Len(gs) <= MaxDepth /\ d \in 1..Len(gs)
  <2>1. \A e \in 1..Len(gs) : gs[e].seen
    BY <1>4, <1>6
  <2>2. 0 \in 0..Len(gs) /\ Len(gs) \in 1..MaxDepth /\ Len(gs) <= MaxDepth
    BY <1>4, <1>6
  <2> QED
    BY <1>5, <1>6, <2>1, <2>2 DEF StackRight
<1>13. \A a \in alloca_list : a.fp = fp(t, d) => a.p = p
  BY <1>2, <1>5, ArrayOf
<1>14. regions' = (regions \ OfFrames(t, frames[t])) \union OfFrames(t, gs)
  <2>1. \A r : r \in Own(t, d, gs[d]) <=> r = Region(Local(t, d), 1) \/ r = Region(p, n)
    <3>1. gs[d].seen /\ gs[d].vla > 0
      BY <1>4, <1>5, <1>6
    <3> QED
      BY <1>2, <1>6, <3>1 DEF Own
  <2>2. \A r \in regions : Covers(r, p) => r.start = p /\ old # {}
    <3>1. ASSUME NEW r \in regions, Covers(r, p) PROVE r.start = p /\ old # {}
      <4>1. /\ d \in 1..Len(frames[t]) /\ frames[t][d].vla > 0
            /\ r = Region(Vla(t, d), frames[t][d].vla)
        BY <1>2, <1>5, <3>1, ArrayCovered
      <4>2. [fp |-> fp(t, d), p |-> p] \in old
        BY <1>2, <1>5, <4>1, ArrayOf
      <4>3. r.start = p
        BY <1>2, <4>1 DEF Region
      <4> QED
        BY <4>2, <4>3
    <3> QED
      BY <3>1
  <2>3. PICK Q : Q = IF old = {} THEN regions ELSE Deleted(regions, p)
    OBVIOUS
  <2>4. \A r : r \in Q <=> r \in regions /\ r.start # p
    <3>1. \A r \in regions : r.start = p => Covers(r, p)
      BY StartCovered
    <3> HIDE DEF old
    <3>2. CASE old = {}
      BY <2>2, <2>3, <3>1, <3>2
    <3>3. CASE old # {}
      BY <2>3, <3>3 DEF Deleted
    <3> QED
      BY <3>2, <3>3
  <2>5. regions' = Q \union {Region(p, n)}
    <3>1. \A r \in Q : ~Covers(r, p)
      BY <2>2, <2>4
    <3>2. regions' = Inserted(Q, p, n)
      BY <1>3, <2>3
    <3> QED
      BY <3>1, <3>2 DEF Inserted
  <2>6. Region(Local(t, d), 1) \in regions
    BY <1>2, <1>4, <1>5 DEF Known, StackKnown
  <2>7. Region(Local(t, d), 1).start = Local(t, d) /\ Local(t, d) # p
    <3>1. fp(t, d) \in Int /\ Local(t, d) = fp(t, d) + 4 /\ Vla(t, d) = fp(t, d) + 1
      BY <1>5, FrameLayout
    <3> QED
      BY <1>2, <3>1 DEF Region
  <2>8. \A r \in regions : r.start = Local(t, d) => r = Region(Local(t, d), 1)
    <3>1. \A r \in regions : r.start = Local(t, d) => Covers(r, Local(t, d))
      BY StartCovered
    <3> QED
      BY <1>5, <3>1, LocalCovered
  <2>9. PICK R : R = regions'
    OBVIOUS
  <2>10. ASSUME NEW r
         PROVE  r \in R <=> \/ r \in regions /\ r.start # Local(t, d) /\ r.start # Vla(t, d)
                            \/ d \in 1..Len(gs) /\ r \in Own(t, d, gs[d])
    <3>1. r \in R <=> (r \in regions /\ r.start # p) \/ r = Region(p, n)
      BY <2>4, <2>5, <2>9
    <3>2. r \in Own(t, d, gs[d]) <=> r = Region(Local(t, d), 1) \/ r = Region(p, n)
      BY <2>1
    <3> QED
      BY <1>2, <1>12, <2>6, <2>7, <2>8, <3>1, <3>2
  <2>11. R = (regions \ OfFrames(t, frames[t])) \union OfFrames(t, gs)
    BY <1>5, <1>6, <1>11, <1>12, <2>10, OneFrame
  <2> QED
    BY <2>9, <2>11
<1>15. alloca_list' = (alloca_list \ ArraysOf(t, frames[t])) \union ArraysOf(t, gs)
  <2>1. PICK A : A = alloca_list'
    OBVIOUS
  <2>2. ASSUME NEW a
        PROVE  a \in A <=>
                 \/ a \in alloca_list /\ a.fp # fp(t, d)
                 \/ d \in 1..Len(gs) /\ gs[d].vla > 0 /\ a = [fp |-> fp(t, d), p |-> Vla(t, d)]
    <3>1. gs[d].vla > 0
      BY <1>5, <1>6
    <3>2. a \in old <=> a \in alloca_list /\ a.fp = fp(t, d)
      BY <1>13
    <3> HIDE DEF old
    <3> QED
      BY <1>2, <1>3, <1>12, <2>1, <3>1, <3>2
  <2>3. A = (alloca_list \ ArraysOf(t, frames[t])) \union ArraysOf(t, gs)
    BY <1>5, <1>6, <1>11, <1>12, <2>2, OneArray
  <2> QED
    BY <2>1, <2>3
<1>16. jmp_list' = jmp_list /\ ListRight(jmp_list) /\ Spares(t, jmp_list, jmp_list)
  BY <1>1, SparesAll DEF Jumps
<1>17. EnvsRight(t, ds, gs, 0, jmp_list)
  <2>1. EnvsRight(t, es, fs, 0, jmp_list)
    BY <1>2, <1>4 DEF Jumps
  <2>2. PICK T : T = [env : Env, depth : Nat, vla : Sizes \union {0}] /\ es \in Seq(T)
    BY <2>1 DEF EnvsRight
  <2>3. PICK S : S = {e \in Range(es) : e.depth < d \/ e.vla = 0}
    OBVIOUS
  <2>4. ds = Only(es, S)
    BY <1>2, <2>3 DEF InScope, Depth
  <2>5. /\ ds \in Seq(T)
        /\ \A i \in 1..Len(ds) : ds[i] \in S
        /\ \E h : Leaves(ds, es, S, h)
    BY <2>2, <2>4, OnlyIs
  <2>6. PICK h : Thin(ds, es, h)
    BY <2>5 DEF Leaves
  <2>7. \A i \in 1..Len(ds) : ds[i].depth < d \/ ds[i].vla = 0
    BY <2>3, <2>5
  <2>8. \A i \in 1..Len(ds) : EnvOf(fs, ds[i])
    BY <2>1, <2>6 DEF Thin, EnvsRight
  <2>9. \A i \in 1..Len(ds) : EnvOf(gs, ds[i])
    BY <1>5, <1>6, <2>7, <2>8 DEF EnvOf
  <2>10. PICK g : Thin(jmp_list, jmp_list, g)
                  /\ \A k \in 1..Len(jmp_list) : \E q \in 1..Len(jmp_list) : g[q] = k
    BY <1>16, Whole DEF ListRight
  <2>11. ds \in Seq([env : Env, depth : Nat, vla : Sizes \union {0}])
    BY <2>2, <2>5
  <2> QED
    BY <1>16, <2>1, <2>6, <2>9, <2>10, <2>11, EnvsThinned
<1> QED
  BY <1>1, <1>7, <1>8, <1>9, <1>10, <1>12, <1>14, <1>15, <1>16, <1>17, FrameStep DEF HeapOps

-----------------------------------------------------------------------------
(* setjmp().  M is L with a new entry for buffer e of thread t; the others *)
(* stay in their order: entry k of L is entry h[k] of M.                   *)
Placed(t, e, L, M, h) ==
  /\ h \in [1..Len(L) -> 1..Len(M)]
  /\ \A k \in 1..Len(L) : L[k].penv # <<t, e>> => M[h[k]] = L[k]
  /\ \A q \in 1..Len(M) : M[q].penv # <<t, e>> => \E k \in 1..Len(L) : h[k] = q /\ L[k] = M[q]
  /\ \A k, m \in 1..Len(L) : k < m => h[k] < h[m]

Recorded(t, e, new, L) ==
  LET at == {i \in DOMAIN L : L[i].penv = new.penv}
  IN IF at = {} THEN <<new>> \o L ELSE [i \in DOMAIN L |-> IF i \in at THEN new ELSE L[i]]

(* The list with the new entry: it is in front of all of its thread's.     *)
LEMMA RecordedIs ==
  ASSUME NEW L, ListRight(L), NEW t \in Thread, NEW e \in Env, First(t, e, L),
         NEW new \in Jump, new.penv = <<t, e>>, new.tid = t,
         NEW M, M = Recorded(t, e, new, L)
  PROVE  /\ ListRight(M) /\ First(t, e, M)
         /\ \E q \in 1..Len(M) : M[q] = new
         /\ \E h : Placed(t, e, L, M, h)
<1>1. /\ L \in Seq(Jump) /\ Len(L) \in Nat /\ DOMAIN L = 1..Len(L)
      /\ \A k \in 1..Len(L) : L[k] \in Jump /\ L[k].penv[1] = L[k].tid
      /\ \A k, m \in 1..Len(L) : k # m => L[k].penv # L[m].penv
  BY DEF ListRight
<1>2. PICK at : at = {i \in 1..Len(L) : L[i].penv = <<t, e>>}
  OBVIOUS
<1>3. M = IF at = {} THEN <<new>> \o L ELSE [i \in 1..Len(L) |-> IF i \in at THEN new ELSE L[i]]
  BY <1>1, <1>2 DEF Recorded
<1>4. <<t, e>>[1] = t
  OBVIOUS
<1>5. CASE at = {}
  <2>1. \A k \in 1..Len(L) : L[k].penv # <<t, e>>
    BY <1>2, <1>5
  <2>2. /\ M \in Seq(Jump) /\ Len(M) = Len(L) + 1 /\ M[1] = new
        /\ \A k \in 1..Len(L) : M[k + 1] = L[k]
    BY <1>1, <1>3, <1>5
  <2>3. \A q \in 1..Len(M) : q = 1 \/ (q - 1 \in 1..Len(L) /\ M[q] = L[q - 1])
    BY <1>1, <2>2
  <2>4. 1 \in 1..Len(M)
    BY <1>1, <2>2
  <2>5. ListRight(M)
    <3>1. ASSUME NEW k \in 1..Len(M) PROVE M[k].penv[1] = M[k].tid
      <4>1. CASE k = 1
        <5>1. M[k] = new
          BY <2>2, <4>1
        <5> QED
          BY <1>4, <5>1
      <4>2. CASE k # 1
        <5>1. PICK a \in 1..Len(L) : M[k] = L[a]
          BY <2>3, <4>2
        <5> QED
          BY <1>1, <5>1
      <4> QED
        BY <4>1, <4>2
    <3>2. ASSUME NEW k \in 1..Len(M), NEW m \in 1..Len(M), k # m PROVE M[k].penv # M[m].penv
      <4>1. CASE k = 1
        BY <2>1, <2>2, <2>3, <3>2, <4>1
      <4>2. CASE m = 1
        BY <2>1, <2>2, <2>3, <3>2, <4>2
      <4>3. CASE k # 1 /\ m # 1
        <5>1. PICK a \in 1..Len(L), b \in 1..Len(L) : a = k - 1 /\ b = m - 1 /\ M[k] = L[a] /\ M[m] = L[b]
          BY <2>3, <4>3
        <5> QED
          BY <1>1, <3>2, <5>1
      <4> QED
        BY <4>1, <4>2, <4>3
    <3> QED
      BY <2>2, <3>1, <3>2 DEF ListRight
  <2>6. First(t, e, M)
    <3>1. \A q \in 1..Len(M) : M[q].penv = <<t, e>> => q = 1
      BY <2>1, <2>3
    <3>2. \A q \in 1..Len(M) : 1 <= q
      BY <1>1, <2>2
    <3> QED
      BY <3>1, <3>2 DEF First
  <2> DEFINE h == [k \in 1..Len(L) |-> k + 1]
  <2>7. \A k \in 1..Len(L) : h[k] = k + 1 /\ h[k] \in 1..Len(M)
    BY <1>1, <2>2
  <2>8. h \in [1..Len(L) -> 1..Len(M)]
    BY <2>7
  <2> HIDE DEF h
  <2>9. \A q \in 1..Len(M) : M[q].penv # <<t, e>> => \E k \in 1..Len(L) : h[k] = q /\ L[k] = M[q]
    <3>1. ASSUME NEW q \in 1..Len(M), M[q].penv # <<t, e>>
          PROVE  \E k \in 1..Len(L) : h[k] = q /\ L[k] = M[q]
      <4>1. q - 1 \in 1..Len(L) /\ M[q] = L[q - 1]
        BY <2>2, <2>3, <3>1
      <4>2. h[q - 1] = q
        BY <2>7, <4>1
      <4> QED
        BY <4>1, <4>2
    <3> QED
      BY <3>1
  <2>10. Placed(t, e, L, M, h)
    <3>1. \A k \in 1..Len(L) : M[h[k]] = L[k]
      BY <2>2, <2>7
    <3>2. \A k, m \in 1..Len(L) : k < m => h[k] < h[m]
      BY <2>7
    <3> QED
      BY <2>8, <2>9, <3>1, <3>2 DEF Placed
  <2> QED
    BY <2>2, <2>4, <2>5, <2>6, <2>10
<1>6. CASE at # {}
  <2>1. /\ Len(M) = Len(L) /\ M \in Seq(Jump)
        /\ \A k \in 1..Len(L) : M[k] = IF k \in at THEN new ELSE L[k]
    <3>1. M = [i \in 1..Len(L) |-> IF i \in at THEN new ELSE L[i]]
      BY <1>3, <1>6
    <3>2. \A i \in 1..Len(L) : (IF i \in at THEN new ELSE L[i]) \in Jump
      BY <1>1
    <3>3. M \in [1..Len(L) -> Jump]
      BY <3>1, <3>2
    <3>4. M \in Seq(Jump) /\ Len(M) = Len(L)
      BY <1>1, <3>3
    <3> QED
      BY <3>1, <3>4
  <2>2. \A k \in 1..Len(L) : M[k].penv = L[k].penv /\ M[k].tid = L[k].tid
    <3>1. ASSUME NEW k \in 1..Len(L) PROVE M[k].penv = L[k].penv /\ M[k].tid = L[k].tid
      <4>1. CASE k \in at
        <5>1. M[k] = new /\ L[k].penv = <<t, e>>
          BY <1>2, <2>1, <4>1
        <5> QED
          BY <1>1, <1>4, <5>1
      <4>2. CASE k \notin at
        BY <2>1, <4>2
      <4> QED
        BY <4>1, <4>2
    <3> QED
      BY <3>1
  <2>3. ListRight(M)
    BY <1>1, <2>1, <2>2 DEF ListRight
  <2>4. First(t, e, M)
    BY <2>1, <2>2 DEF First
  <2>5. PICK q \in at : q \in 1..Len(M) /\ M[q] = new
    BY <1>2, <1>6, <2>1
  <2> DEFINE h == [k \in 1..Len(L) |-> k]
  <2>6. \A k \in 1..Len(L) : h[k] = k
    OBVIOUS
  <2>7. h \in [1..Len(L) -> 1..Len(M)]
    BY <2>1
  <2> HIDE DEF h
  <2>8. \A k \in 1..Len(L) : L[k].penv # <<t, e>> => M[k] = L[k]
    BY <1>2, <2>1
  <2>9. Placed(t, e, L, M, h)
    BY <2>1, <2>2, <2>6, <2>7, <2>8 DEF Placed
  <2> QED
    BY <2>3, <2>4, <2>5, <2>9
<1> QED
  BY <1>5, <1>6

(* The other buffers stay right.                                           *)
LEMMA EnvsPlaced ==
  ASSUME NEW u, NEW es, NEW fs, NEW n, NEW L, EnvsRight(u, es, fs, n, L),
         NEW t, NEW e, NEW M, NEW h, Placed(t, e, L, M, h),
         \A i \in 1..Len(es) : u # t \/ es[i].env # e
  PROVE  EnvsRight(u, es, fs, n, M)
<1>1. ASSUME NEW i \in 1..Len(es) PROVE \E k \in 1..Len(M) : Records(u, es[i], M[k])
  <2>1. PICK k \in 1..Len(L) : Records(u, es[i], L[k])
    BY DEF EnvsRight
  <2>2. L[k].penv # <<t, e>>
    BY <2>1 DEF Records
  <2>3. h[k] \in 1..Len(M) /\ M[h[k]] = L[k]
    BY <2>2 DEF Placed
  <2> QED
    BY <2>1, <2>3
<1>2. ASSUME NEW i \in 1..Len(es), NEW m \in 1..Len(es), i < m,
             NEW p \in 1..Len(M), NEW q \in 1..Len(M),
             M[p].penv = <<u, es[i].env>>, M[q].penv = <<u, es[m].env>>
      PROVE  q < p
  <2>1. M[p].penv # <<t, e>> /\ M[q].penv # <<t, e>>
    BY <1>2
  <2>2. PICK a \in 1..Len(L) : h[a] = p /\ L[a] = M[p]
    BY <2>1 DEF Placed
  <2>3. PICK b \in 1..Len(L) : h[b] = q /\ L[b] = M[q]
    BY <2>1 DEF Placed
  <2>4. \A k, l \in 1..Len(L) :
          L[k].penv = <<u, es[i].env>> /\ L[l].penv = <<u, es[m].env>> => l < k
    BY <1>2 DEF EnvsRight
  <2>5. L[a].penv = <<u, es[i].env>> /\ L[b].penv = <<u, es[m].env>>
    BY <1>2, <2>2, <2>3
  <2>6. b < a
    BY <2>4, <2>5
  <2> QED
    BY <2>2, <2>3, <2>6 DEF Placed
<1> QED
  BY <1>1, <1>2 DEF EnvsRight

(* So do the first buffers of the other threads.                           *)
LEMMA FirstPlaced ==
  ASSUME NEW u, NEW x, NEW L, First(u, x, L), NEW t, NEW e, u # t,
         NEW M, NEW h, Placed(t, e, L, M, h), ListRight(M), ListRight(L)
  PROVE  First(u, x, M)
<1> SUFFICES ASSUME NEW i \in 1..Len(M), NEW k \in 1..Len(M), M[i].penv = <<u, x>>, M[k].tid = u
             PROVE  i <= k
  BY DEF First
<1>1. M[i].penv # <<t, e>> /\ M[k].penv # <<t, e>>
  BY DEF ListRight
<1>2. PICK a \in 1..Len(L) : h[a] = i /\ L[a] = M[i]
  BY <1>1 DEF Placed
<1>3. PICK b \in 1..Len(L) : h[b] = k /\ L[b] = M[k]
  BY <1>1 DEF Placed
<1>4. a <= b
  BY <1>2, <1>3 DEF First
<1>5. a < b \/ a = b
  BY <1>4
<1>6. h[a] < h[b] \/ h[a] = h[b]
  BY <1>5 DEF Placed
<1> QED
  BY <1>2, <1>3, <1>6

(* The buffer that is set last is at the end.                              *)
LEMMA EnvsAppended ==
  ASSUME NEW t, NEW es, NEW fs, NEW M, EnvsRight(t, es, fs, 0, M), ListRight(M),
         NEW x \in [env : Env, depth : Nat, vla : Sizes \union {0}],
         x.depth = Len(fs), Len(fs) > 0, fs \in Seq(FrameSet), x.vla = fs[Len(fs)].vla,
         First(t, x.env, M), \E q \in 1..Len(M) : Records(t, x, M[q]),
         \A i \in 1..Len(es) : es[i].env # x.env,
         NEW ds, ds = Append(es, x)
  PROVE  EnvsRight(t, ds, fs, 0, M)
<1>1. PICK T : T = [env : Env, depth : Nat, vla : Sizes \union {0}]
  OBVIOUS
<1>2. es \in Seq(T) /\ x \in T
  BY <1>1 DEF EnvsRight
<1>3. /\ ds \in Seq(T) /\ Len(ds) = Len(es) + 1 /\ ds[Len(ds)] = x /\ Len(es) \in Nat
      /\ \A i \in 1..Len(es) : ds[i] = es[i]
  BY <1>2
<1>4. \A i \in 1..Len(ds) : i = Len(ds) \/ i \in 1..Len(es)
  BY <1>3
<1>5. /\ \A i \in 1..Len(es) : /\ EnvOf(fs, es[i])
                               /\ \E k \in 1..Len(M) : Records(t, es[i], M[k])
      /\ \A i, m \in 1..Len(es) : i < m =>
           /\ es[i].env # es[m].env
           /\ es[i].depth <= es[m].depth
           /\ es[i].depth = es[m].depth /\ es[i].vla # 0 => es[m].vla = es[i].vla
           /\ \A k, l \in 1..Len(M) :
                M[k].penv = <<t, es[i].env>> /\ M[l].penv = <<t, es[m].env>> => l < k
  BY DEF EnvsRight
<1>6. EnvOf(fs, x)
  BY DEF EnvOf
<1>7. ASSUME NEW i \in 1..Len(ds)
      PROVE  EnvOf(fs, ds[i]) /\ \E k \in 1..Len(M) : Records(t, ds[i], M[k])
  <2>1. CASE i = Len(ds)
    <3>1. ds[i] = x
      BY <1>3, <2>1
    <3> QED
      BY <1>6, <3>1
  <2>2. CASE i \in 1..Len(es)
    <3>1. ds[i] = es[i]
      BY <1>3, <2>2
    <3> QED
      BY <1>5, <2>2, <3>1
  <2> QED
    BY <1>4, <2>1, <2>2
<1>8. ASSUME NEW i \in 1..Len(ds), NEW m \in 1..Len(ds), i < m
      PROVE  /\ ds[i].env # ds[m].env
             /\ ds[i].depth <= ds[m].depth
             /\ ds[i].depth = ds[m].depth /\ ds[i].vla # 0 => ds[m].vla = ds[i].vla
             /\ \A k, l \in 1..Len(M) :
                  M[k].penv = <<t, ds[i].env>> /\ M[l].penv = <<t, ds[m].env>> => l < k
  <2>1. i \in 1..Len(es) /\ ds[i] = es[i]
    BY <1>3, <1>8
  <2>2. CASE m \in 1..Len(es)
    <3>1. ds[m] = es[m]
      BY <1>3, <2>2
    <3>2. /\ es[i].env # es[m].env
          /\ es[i].depth <= es[m].depth
          /\ es[i].depth = es[m].depth /\ es[i].vla # 0 => es[m].vla = es[i].vla
          /\ \A k, l \in 1..Len(M) :
               M[k].penv = <<t, es[i].env>> /\ M[l].penv = <<t, es[m].env>> => l < k
      BY <1>5, <1>8, <2>1, <2>2
    <3> QED
      BY <2>1, <3>1, <3>2
  <2>3. CASE m = Len(ds)
    <3>1. ds[m] = x
      BY <1>3, <2>3
    <3>2. es[i].env # x.env
      BY <2>1
    <3>3. es[i].depth \in 1..Len(fs) /\ (es[i].vla # 0 => fs[es[i].depth].vla = es[i].vla)
      BY <1>5, <2>1 DEF EnvOf
    <3>4. es[i].depth <= x.depth
      BY <3>3
    <3>5. es[i].depth = x.depth /\ es[i].vla # 0 => x.vla = es[i].vla
      BY <3>3
    <3>6. ASSUME NEW k \in 1..Len(M), NEW l \in 1..Len(M),
                 M[k].penv = <<t, es[i].env>>, M[l].penv = <<t, x.env>>
          PROVE  l < k
      <4>1. M[k].tid = t
        BY <3>6 DEF ListRight
      <4>2. l <= k
        BY <3>6, <4>1 DEF First
      <4>3. l # k
        BY <3>2, <3>6
      <4> QED
        BY <4>2, <4>3
    <3> QED
      BY <2>1, <3>1, <3>2, <3>4, <3>5, <3>6
  <2> QED
    BY <1>4, <2>2, <2>3
<1> QED
  BY <1>1, <1>3, <1>7, <1>8 DEF EnvsRight

(* __bound_setjmp(): the entry of the buffer is made, or made again.       *)
LEMMA SetjmpRecordStep ==
  ASSUME IInv, NEW t \in Thread, SetjmpRecord(t)
  PROVE  IInv'
<1> USE DEF IInv
<1>1. /\ op[t] = "setjmp" /\ Done(t)
      /\ UNCHANGED <<heap, frames, off, regions, reuse, alloca_list, child>>
  BY DEF SetjmpRecord, Holds
<1>2. PICK fs, d, e, v, es, L :
        /\ fs = frames[t] /\ d = Len(fs) /\ e = arg[t].env /\ v = fs[d].vla
        /\ es = envs[t] /\ L = jmp_list
  OBVIOUS
<1>3. PICK x, new, S :
        /\ x = [env |-> e, depth |-> d, vla |-> v]
        /\ new = [penv |-> <<t, e>>, fp |-> fp(t, d), end_fp |-> Below(t, d, v), tid |-> t]
        /\ S = {y \in Range(es) : y.env # e}
  OBVIOUS
<1>4. PICK M : M = jmp_list'
  OBVIOUS
<1>5. /\ M = Recorded(t, e, new, L)
      /\ envs' = [envs EXCEPT ![t] = Append(Only(es, S), x)]
  BY <1>2, <1>3, <1>4 DEF SetjmpRecord, Depth, Recorded
<1>6. /\ StackRight(op[t], arg[t], fs, 0) /\ off[t] = 0 /\ fs \in Seq(FrameSet)
      /\ Len(fs) > 0 /\ d \in 1..Len(fs) /\ d \in 1..MaxDepth /\ d \in Nat /\ v \in Sizes \union {0}
  <2>1. StackRight(op[t], arg[t], fs, off[t])
    BY <1>2 DEF Stacks
  <2>2. off[t] = 0 /\ fs \in Seq(FrameSet) /\ Len(fs) \in 1..MaxDepth
    BY <1>1, <2>1 DEF StackRight
  <2>3. Len(fs) > 0 /\ d \in 1..Len(fs) /\ d \in 1..MaxDepth /\ d \in Nat
    BY <1>2, <2>2, StackAssumption
  <2>4. v \in Sizes \union {0}
    BY <1>2, <2>3, FrameHas
  <2> QED
    BY <2>1, <2>2, <2>3, <2>4
<1>7. e \in Env /\ First(t, e, L) /\ ListRight(L) /\ EnvsRight(t, es, fs, 0, L)
  BY <1>1, <1>2, <1>6 DEF Jumps, JumpCall
<1>8. new \in Jump /\ new.penv = <<t, e>> /\ new.tid = t /\ Records(t, x, new)
  <2>1. fp(t, d) \in Int
    BY <1>6, FrameLayout
  <2>2. Below(t, d, v) \in Int
    BY <2>1 DEF Below
  <2> QED
    BY <1>3, <1>7, <2>1, <2>2 DEF Jump, Records
<1>9. /\ ListRight(M) /\ First(t, e, M)
      /\ \E q \in 1..Len(M) : M[q] = new
      /\ \E h : Placed(t, e, L, M, h)
  BY <1>5, <1>7, <1>8, RecordedIs
<1>10. PICK h : Placed(t, e, L, M, h)
  BY <1>9
<1>11. PICK ds, ys : ds = Only(es, S) /\ ys = Append(ds, x)
  OBVIOUS
<1>12. EnvsRight(t, ds, fs, 0, M) /\ \A i \in 1..Len(ds) : ds[i].env # x.env
  <2>1. PICK T : T = [env : Env, depth : Nat, vla : Sizes \union {0}] /\ es \in Seq(T)
    BY <1>7 DEF EnvsRight
  <2>2. /\ ds \in Seq(T)
        /\ \A i \in 1..Len(ds) : ds[i] \in S
        /\ \E g : Leaves(ds, es, S, g)
    BY <1>11, <2>1, OnlyIs
  <2>3. PICK g : Thin(ds, es, g)
    BY <2>2 DEF Leaves
  <2>4. \A i \in 1..Len(ds) : ds[i].env # e /\ ds[i].env # x.env
    BY <1>3, <2>2
  <2>5. \A i \in 1..Len(ds) : EnvOf(fs, ds[i])
    BY <1>7, <2>3 DEF Thin, EnvsRight
  <2>6. PICK f : Thin(L, L, f) /\ \A k \in 1..Len(L) : \E q \in 1..Len(L) : f[q] = k
    BY <1>7, Whole DEF ListRight
  <2>7. ds \in Seq([env : Env, depth : Nat, vla : Sizes \union {0}])
    BY <2>1, <2>2
  <2>8. EnvsRight(t, ds, fs, 0, L)
    BY <1>7, <2>3, <2>5, <2>6, <2>7, EnvsThinned
  <2>9. EnvsRight(t, ds, fs, 0, M)
    BY <1>10, <2>4, <2>8, EnvsPlaced
  <2> QED
    BY <2>4, <2>9
<1>13. EnvsRight(t, ys, fs, 0, M)
  <2>1. /\ x \in [env : Env, depth : Nat, vla : Sizes \union {0}]
        /\ x.depth = Len(fs) /\ x.vla = fs[Len(fs)].vla /\ x.env = e
    BY <1>2, <1>3, <1>6, <1>7
  <2>2. \E q \in 1..Len(M) : Records(t, x, M[q])
    BY <1>8, <1>9
  <2> QED
    BY <1>6, <1>9, <1>11, <1>12, <2>1, <2>2, EnvsAppended
<1>14. Calls' /\ Others(t) /\ op'[t] = "run"
  BY <1>1, DoneIs
<1>15. Reuse' /\ Blocks' /\ InCalls' /\ Kept' = Kept /\ Freeing' = Freeing
  BY <1>1, <1>14, HeapSame DEF HeapOps
<1>16. Known'
  BY <1>1, <1>15, KnownSame
<1>17. Stacks'
  <2>1. Changed(frames, frames', t) /\ Changed(off, off', t)
    BY <1>1 DEF Stacks, Changed
  <2>2. StackRight(op'[t], arg'[t], frames'[t], off'[t])
    BY <1>1, <1>2, <1>6, <1>14 DEF StackRight
  <2> QED
    BY <1>14, <2>1, <2>2, StacksStep
<1>18. Arrays' /\ Child'
  <2>1. Arrays'
    BY <1>1 DEF Arrays, fp, Vla
  <2>2. Child'
    BY <1>1, <1>14, ChildSame
  <2> QED
    BY <2>1, <2>2
<1>19. Changed(envs, envs', t) /\ envs'[t] = ys
  BY <1>5, <1>11, ExceptIs DEF Jumps
<1>20. ASSUME NEW u \in Thread
       PROVE  /\ EnvsRight(u, envs'[u], frames'[u], off'[u], M)
              /\ JumpCall(u, op'[u], arg'[u], envs'[u], M)
  <2>1. CASE u = t
    BY <1>1, <1>2, <1>6, <1>13, <1>14, <1>19, <2>1 DEF JumpCall
  <2>2. CASE u # t
    <3>1. /\ op'[u] = op[u] /\ arg'[u] = arg[u] /\ frames'[u] = frames[u]
          /\ off'[u] = off[u] /\ envs'[u] = envs[u]
      BY <1>1, <1>14, <1>19, <2>2 DEF Others, Changed
    <3>2. EnvsRight(u, envs[u], frames[u], off[u], L) /\ JumpCall(u, op[u], arg[u], envs[u], L)
      BY <1>2 DEF Jumps
    <3>3. EnvsRight(u, envs[u], frames[u], off[u], M)
      BY <1>10, <2>2, <3>2, EnvsPlaced
    <3>4. \A y : First(u, y, L) => First(u, y, M)
      BY <1>7, <1>9, <1>10, <2>2, FirstPlaced
    <3>5. JumpCall(u, op[u], arg[u], envs[u], M)
      BY <3>2, <3>4, Zenon DEF JumpCall
    <3> QED
      BY <3>1, <3>3, <3>5
  <2> QED
    BY <2>1, <2>2
<1>21. Jumps'
  BY <1>4, <1>9, <1>19, <1>20 DEF Jumps, Changed
<1> QED
  BY <1>14, <1>15, <1>16, <1>17, <1>18, <1>21

-----------------------------------------------------------------------------
(* longjmp().  M is L with nothing but entries of S in front of the k-th.  *)
Trims(M, L, k, S, g) ==
  /\ Thin(M, L, g)
  /\ \A p \in 1..Len(L) : p >= k \/ L[p] \in S => \E q \in 1..Len(M) : g[q] = p

(* The list that a jump leaves.                                            *)
LEMMA Trimmed ==
  ASSUME NEW T, NEW L \in Seq(T), NEW k \in 1..Len(L), NEW S,
         NEW M, M = Only(SubSeq(L, 1, k - 1), S) \o SubSeq(L, k, Len(L))
  PROVE  M \in Seq(T) /\ \E g : Trims(M, L, k, S, g)
<1>1. PICK A, B, r : A = SubSeq(L, 1, k - 1) /\ B = SubSeq(L, k, Len(L)) /\ r = Only(A, S)
  OBVIOUS
<1>2. /\ A \in Seq(T) /\ Len(A) = k - 1 /\ \A p \in 1..(k - 1) : A[p] = L[p]
  <2>1. k - 1 \in 0..Len(L)
    OBVIOUS
  <2> QED
    BY <1>1, <2>1, Shortened
<1>3. /\ B \in Seq(T) /\ Len(B) = Len(L) - k + 1
      /\ \A p \in 1..(Len(L) - k + 1) : B[p] = L[p + k - 1]
  BY <1>1
<1>4. r \in Seq(T) /\ \E h : Leaves(r, A, S, h)
  BY <1>1, <1>2, OnlyIs
<1>5. PICK h : Leaves(r, A, S, h)
  BY <1>4
<1>6. PICK n, m : n = Len(r) /\ m = Len(M)
  OBVIOUS
<1>7. /\ M \in Seq(T) /\ m = n + (Len(L) - k + 1) /\ n \in Nat /\ m \in Nat
      /\ \A q \in 1..n : M[q] = r[q]
      /\ \A q \in (n + 1)..m : M[q] = B[q - n]
  BY <1>1, <1>3, <1>4, <1>6
<1>8. k \in Nat /\ Len(L) \in Nat /\ k <= Len(L)
  OBVIOUS
<1>9. \A q \in 1..n : h[q] \in 1..(k - 1) /\ r[q] = A[h[q]]
  BY <1>2, <1>5, <1>6 DEF Leaves, Thin
<1> DEFINE g == [q \in 1..m |-> IF q <= n THEN h[q] ELSE q - n + k - 1]
<1>10. /\ \A q \in 1..n : q \in 1..m /\ g[q] = h[q]
       /\ \A q \in (n + 1)..m : q \in 1..m /\ g[q] = q - n + k - 1
  BY <1>7, <1>8
<1>11. \A q \in 1..m : q \in 1..n \/ q \in (n + 1)..m
  BY <1>7
<1>12. DOMAIN g = 1..m /\ g = [q \in 1..m |-> g[q]]
  OBVIOUS
<1> HIDE DEF g
<1>13. ASSUME NEW q \in 1..m PROVE g[q] \in 1..Len(L) /\ M[q] = L[g[q]]
  <2>1. CASE q \in 1..n
    <3>1. g[q] \in 1..(k - 1) /\ M[q] = A[g[q]]
      BY <1>7, <1>9, <1>10, <2>1
    <3>2. \A p \in 1..(k - 1) : p \in 1..Len(L)
      BY <1>8
    <3> QED
      BY <1>2, <3>1, <3>2
  <2>2. CASE q \in (n + 1)..m
    <3>1. PICK len \in Nat : len = Len(L) /\ m = n + (len - k + 1)
      BY <1>7, <1>8
    <3>2. q \in Int /\ n + 1 <= q /\ q <= m /\ n \in Int /\ k \in Int
      BY <1>7, <1>8, <2>2
    <3>3. q - n \in Int /\ 1 <= q - n /\ q - n <= len - k + 1
      BY <3>1, <3>2
    <3>4. q - n \in 1..(Len(L) - k + 1) /\ g[q] = (q - n) + k - 1
      <4>1. g[q] = q - n + k - 1
        BY <1>10, <2>2
      <4>2. q - n \in 1..(len - k + 1)
        BY <3>1, <3>2, <3>3
      <4> QED
        BY <3>1, <4>1, <4>2
    <3>5. M[q] = B[q - n]
      BY <1>7, <2>2
    <3>6. B[q - n] = L[g[q]]
      BY <1>3, <3>4
    <3>7. g[q] \in 1..Len(L)
      BY <1>8, <3>4
    <3> QED
      BY <3>5, <3>6, <3>7
  <2> QED
    BY <1>11, <2>1, <2>2
<1>14. ASSUME NEW q \in 1..m, NEW p \in 1..m, q < p PROVE g[q] < g[p]
  <2>1. CASE p \in 1..n
    <3>1. q \in 1..n
      BY <1>7, <1>14, <2>1
    <3>2. h[q] < h[p]
      BY <1>5, <1>6, <1>14, <2>1, <3>1 DEF Leaves, Thin
    <3> QED
      BY <1>10, <2>1, <3>1, <3>2
  <2>2. CASE p \in (n + 1)..m /\ q \in 1..n
    <3>1. g[q] \in 1..(k - 1)
      BY <1>9, <1>10, <2>2
    <3>2. g[p] = p - n + k - 1 /\ p > n
      BY <1>7, <1>10, <2>2
    <3> QED
      BY <1>7, <1>8, <3>1, <3>2
  <2>3. CASE p \in (n + 1)..m /\ q \in (n + 1)..m
    BY <1>7, <1>8, <1>10, <1>14, <2>3
  <2> QED
    BY <1>11, <2>1, <2>2, <2>3
<1>15. ASSUME NEW p \in 1..Len(L), p >= k \/ L[p] \in S PROVE \E q \in 1..m : g[q] = p
  <2>1. CASE p >= k
    <3>1. PICK q : q = p - k + 1 + n
      OBVIOUS
    <3>2. q \in (n + 1)..m /\ q - n + k - 1 = p
      BY <1>7, <1>8, <2>1, <3>1
    <3> QED
      BY <1>10, <3>2
  <2>2. CASE ~(p >= k)
    <3>1. p \in 1..(k - 1) /\ p \in 1..Len(A) /\ L[p] \in S
      BY <1>2, <1>8, <1>15, <2>2
    <3>2. A[p] \in S
      BY <1>2, <3>1
    <3>3. PICK q \in 1..n : h[q] = p
      BY <1>5, <1>6, <3>1, <3>2 DEF Leaves
    <3> QED
      BY <1>10, <3>3
  <2> QED
    BY <2>1, <2>2
<1>16. g \in [1..m -> 1..Len(L)]
  BY <1>12, <1>13
<1>17. Trims(M, L, k, S, g)
  BY <1>6, <1>13, <1>14, <1>15, <1>16 DEF Trims, Thin
<1> QED
  BY <1>7, <1>17

(* What a jump does to the stack: the frames above the one it returns to   *)
(* are gone, and in that one the array that it had not when setjmp() was   *)
(* called.                                                                 *)
LEMMA FramesCut ==
  ASSUME NEW fs \in Seq(FrameSet), NEW m \in 1..Len(fs), NEW v \in Sizes \union {0},
         NEW gs, gs = Sized(SubSeq(fs, 1, m), m, v)
  PROVE  /\ gs \in Seq(FrameSet) /\ Len(gs) = m /\ gs[m].vla = v
         /\ gs[m].seen <=> fs[m].seen
         /\ \A e \in 1..m : e # m => gs[e] = fs[e]
<1>1. PICK hs : hs = SubSeq(fs, 1, m)
  OBVIOUS
<1>2. m \in 0..Len(fs) /\ m \in 1..m
  OBVIOUS
<1>3. hs \in Seq(FrameSet) /\ Len(hs) = m /\ \A e \in 1..m : hs[e] = fs[e]
  BY <1>1, <1>2, Shortened
<1>4. gs = Sized(hs, m, v) /\ m \in 1..Len(hs)
  BY <1>1, <1>2, <1>3
<1> QED
  BY <1>2, <1>3, <1>4, Resized

(* The part of the stack that is searched for regions.                     *)
Part(t, d, m, v, a) == fp(t, d) <= a /\ a <= Below(t, m, v)

(* What of the thread's own is in it.                                      *)
LEMMA PartFrames ==
  ASSUME NEW t \in Thread, NEW d \in 1..MaxDepth, NEW m \in 1..d, NEW v, NEW e \in 1..d
  PROVE  /\ Part(t, d, m, v, Local(t, e)) <=> e > m
         /\ Part(t, d, m, v, Vla(t, e)) <=> e > m \/ (e = m /\ v = 0)
<1>1. Top[t] \in Int /\ d \in Int /\ m \in Int /\ e \in Int /\ e <= d /\ m <= d
  BY StackAssumption
<1>2. /\ fp(t, d) = Top[t] - 8 * d
      /\ Local(t, e) = Top[t] - 8 * e + 4 /\ Vla(t, e) = Top[t] - 8 * e + 1
      /\ v = 0 => Below(t, m, v) = Top[t] - 8 * m + 3
      /\ v # 0 => Below(t, m, v) = Top[t] - 8 * m + 0
  BY DEF fp, Local, Vla, Below
<1> QED
  BY <1>1, <1>2 DEF Part

(* Nothing of another thread's, and no block.                              *)
LEMMA PartOthers ==
  ASSUME NEW t \in Thread, NEW d \in 1..MaxDepth, NEW m \in 1..d, NEW v
  PROVE  /\ \A u \in Thread, e \in 1..MaxDepth : u # t =>
              ~Part(t, d, m, v, Local(u, e)) /\ ~Part(t, d, m, v, Vla(u, e))
         /\ \A b \in Block : ~Part(t, d, m, v, b)
<1>1. /\ Top[t] \in Int /\ d \in Int /\ m \in Int /\ m <= d /\ m >= 1
      /\ MaxDepth \in Int /\ d <= MaxDepth
  BY StackAssumption
<1>2. /\ fp(t, d) = Top[t] - 8 * d
      /\ v = 0 => Below(t, m, v) = Top[t] - 8 * m + 3
      /\ v # 0 => Below(t, m, v) = Top[t] - 8 * m + 0
  BY DEF fp, Below
<1>3. \A a \in Int : Part(t, d, m, v, a) => Top[t] - 8 * MaxDepth <= a /\ a < Top[t]
  BY <1>1, <1>2 DEF Part
<1>4. ASSUME NEW u \in Thread, NEW e \in 1..MaxDepth, u # t
      PROVE  ~Part(t, d, m, v, Local(u, e)) /\ ~Part(t, d, m, v, Vla(u, e))
  <2>1. /\ Top[u] \in Int /\ e \in Int /\ e >= 1 /\ e <= MaxDepth
        /\ Top[t] <= Top[u] - 8 * MaxDepth \/ Top[u] <= Top[t] - 8 * MaxDepth
    BY <1>1, <1>4, StackAssumption
  <2>2. Local(u, e) = Top[u] - 8 * e + 4 /\ Vla(u, e) = Top[u] - 8 * e + 1
    BY DEF fp, Local, Vla
  <2> QED
    BY <1>1, <1>3, <2>1, <2>2
<1>5. ASSUME NEW b \in Block PROVE ~Part(t, d, m, v, b)
  <2>1. PICK n \in Sizes : n \in Nat /\ n > 0
    BY SizesAssumption, SizesAre
  <2>2. b \in Nat /\ (b + n <= Top[t] - 8 * MaxDepth \/ Top[t] <= b)
    BY BlockAssumption, StackAssumption
  <2> QED
    BY <1>1, <1>3, <2>1, <2>2
<1> QED
  BY <1>4, <1>5

(* The frames that a jump leaves.                                          *)
Cut(fs, d, m, v, gs) ==
  /\ fs \in Seq(FrameSet) /\ d = Len(fs) /\ d \in 1..MaxDepth /\ m \in 1..d
  /\ v # 0 => fs[m].vla = v
  /\ gs \in Seq(FrameSet) /\ Len(gs) = m /\ gs[m].vla = v
  /\ gs[m].seen <=> fs[m].seen
  /\ \A e \in 1..m : e # m => gs[e] = fs[e]

(* A frame that is left has what it had, unless it is in that part of the  *)
(* stack.                                                                  *)
LEMMA CutOwn ==
  ASSUME NEW t \in Thread, NEW fs, NEW d, NEW m, NEW v \in Sizes \union {0}, NEW gs, Cut(fs, d, m, v, gs),
         NEW r
  PROVE  /\ \A e \in 1..d : r \in Own(t, e, fs[e]) /\ ~Part(t, d, m, v, r.start) =>
              e \in 1..m /\ r \in Own(t, e, gs[e])
         /\ \A e \in 1..m : r \in Own(t, e, gs[e]) =>
              e \in 1..d /\ r \in Own(t, e, fs[e]) /\ ~Part(t, d, m, v, r.start)
<1>1. d \in 1..MaxDepth /\ m \in 1..d /\ m \in Nat /\ d \in Nat
  BY StackAssumption DEF Cut
<1>2. \A e \in 1..d : \A f : r \in Own(t, e, f) =>
        \/ f.seen /\ r = Region(Local(t, e), 1) /\ r.start = Local(t, e)
        \/ f.vla > 0 /\ r = Region(Vla(t, e), f.vla) /\ r.start = Vla(t, e)
  BY DEF Own, Region
<1>3. \A e \in 1..d : /\ Part(t, d, m, v, Local(t, e)) <=> e > m
                      /\ Part(t, d, m, v, Vla(t, e)) <=> e > m \/ (e = m /\ v = 0)
  BY <1>1, PartFrames
<1>4. /\ v # 0 => fs[m].vla = v
      /\ gs[m].vla = v /\ (gs[m].seen <=> fs[m].seen)
      /\ \A e \in 1..m : e # m => gs[e] = fs[e]
      /\ v # 0 => v > 0
  BY SizesAre DEF Cut
<1>5. ASSUME NEW e \in 1..d, r \in Own(t, e, fs[e]), ~Part(t, d, m, v, r.start)
      PROVE  e \in 1..m /\ r \in Own(t, e, gs[e])
  <2>1. e \in 1..m
    BY <1>1, <1>2, <1>3, <1>5
  <2>2. CASE e # m
    <3>1. gs[e] = fs[e]
      BY <1>4, <2>1, <2>2
    <3> QED
      BY <1>5, <2>1, <3>1
  <2>3. CASE e = m
    <3>1. CASE fs[e].seen /\ r = Region(Local(t, e), 1)
      <4>1. gs[e].seen
        BY <1>4, <2>3, <3>1
      <4> QED
        BY <2>1, <3>1, <4>1 DEF Own
    <3>2. CASE fs[e].vla > 0 /\ r = Region(Vla(t, e), fs[e].vla) /\ r.start = Vla(t, e)
      <4>1. v # 0
        BY <1>3, <1>5, <2>3, <3>2
      <4>2. gs[e].vla = fs[e].vla
        BY <1>4, <2>3, <4>1
      <4> QED
        BY <2>1, <3>2, <4>2 DEF Own
    <3> QED
      BY <1>2, <1>5, <3>1, <3>2
  <2> QED
    BY <2>2, <2>3
<1>6. ASSUME NEW e \in 1..m, r \in Own(t, e, gs[e])
      PROVE  e \in 1..d /\ r \in Own(t, e, fs[e]) /\ ~Part(t, d, m, v, r.start)
  <2>1. e \in 1..d /\ ~(e > m)
    BY <1>1
  <2>2. CASE e # m
    <3>1. gs[e] = fs[e]
      BY <1>4, <2>2
    <3>2. r \in Own(t, e, fs[e])
      BY <1>6, <3>1
    <3>3. r.start = Local(t, e) \/ r.start = Vla(t, e)
      BY <1>2, <2>1, <3>2
    <3> QED
      BY <1>3, <2>1, <2>2, <3>2, <3>3
  <2>3. CASE e = m
    <3>1. CASE gs[e].seen /\ r = Region(Local(t, e), 1) /\ r.start = Local(t, e)
      <4>1. fs[e].seen
        BY <1>4, <2>3, <3>1
      <4>2. r \in Own(t, e, fs[e])
        BY <3>1, <4>1 DEF Own
      <4> QED
        BY <1>3, <2>1, <3>1, <4>2
    <3>2. CASE gs[e].vla > 0 /\ r = Region(Vla(t, e), gs[e].vla) /\ r.start = Vla(t, e)
      <4>1. v # 0
        BY <1>4, <2>3, <3>2
      <4>2. gs[e].vla = fs[e].vla
        BY <1>4, <2>3, <4>1
      <4>3. r \in Own(t, e, fs[e])
        BY <3>2, <4>2 DEF Own
      <4> QED
        BY <1>3, <2>1, <3>2, <4>1, <4>3
    <3> QED
      BY <1>2, <1>6, <2>1, <3>1, <3>2
  <2> QED
    BY <2>2, <2>3
<1> QED
  BY <1>5, <1>6

(* The regions that a jump leaves are those of the frames that it leaves.  *)
LEMMA RegionsCut ==
  ASSUME Stacks, Known, NEW t \in Thread, NEW d, NEW m, NEW v \in Sizes \union {0},
         NEW gs, Cut(frames[t], d, m, v, gs),
         NEW R, \A r : r \in R <=> r \in regions /\ ~Part(t, d, m, v, r.start)
  PROVE  R = (regions \ OfFrames(t, frames[t])) \union OfFrames(t, gs)
<1>1. PICK fs : fs = frames[t]
  OBVIOUS
<1>2. /\ fs \in Seq(FrameSet) /\ gs \in Seq(FrameSet) /\ Len(fs) = d /\ Len(gs) = m
      /\ d \in 1..MaxDepth /\ m \in 1..d /\ Cut(fs, d, m, v, gs)
  BY <1>1 DEF Cut
<1>3. \A r : r \in OfFrames(t, fs) <=> \E e \in 1..d : r \in Own(t, e, fs[e])
  BY <1>2, OwnAre
<1>4. \A r : r \in OfFrames(t, gs) <=> \E e \in 1..m : r \in Own(t, e, gs[e])
  BY <1>2, OwnAre
<1>5. OfFrames(t, fs) \subseteq regions
  BY <1>1, FramesKnown DEF Known
<1>11. ASSUME NEW r
      PROVE  /\ \A e \in 1..d : r \in Own(t, e, fs[e]) /\ ~Part(t, d, m, v, r.start) =>
                  e \in 1..m /\ r \in Own(t, e, gs[e])
             /\ \A e \in 1..m : r \in Own(t, e, gs[e]) =>
                  e \in 1..d /\ r \in Own(t, e, fs[e]) /\ ~Part(t, d, m, v, r.start)
  <2>1. Cut(fs, d, m, v, gs)
    BY <1>2
  <2>2. v \in Sizes \union {0}
    OBVIOUS
  <2>3. \A e \in 1..d : r \in Own(t, e, fs[e]) /\ ~Part(t, d, m, v, r.start) =>
          e \in 1..m /\ r \in Own(t, e, gs[e])
    BY <2>1, <2>2, CutOwn
  <2>4. \A e \in 1..m : r \in Own(t, e, gs[e]) =>
          e \in 1..d /\ r \in Own(t, e, fs[e]) /\ ~Part(t, d, m, v, r.start)
    BY <2>1, <2>2, CutOwn
  <2> QED
    BY <2>3, <2>4
<1>6. ASSUME NEW r \in regions, r \notin OfFrames(t, fs) PROVE ~Part(t, d, m, v, r.start)
  <2>1. CASE OfBlock(r)
    <3>1. r.start \in Block
      BY <2>1 DEF OfBlock
    <3> QED
      BY <1>2, <3>1, PartOthers
  <2>2. CASE OfStack(r)
    <3>0. PICK u \in Thread : \E e \in 1..Len(frames[u]) :
            \/ frames[u][e].seen /\ r = Region(Local(u, e), 1)
            \/ frames[u][e].vla > 0 /\ r = Region(Vla(u, e), frames[u][e].vla)
      BY <2>2 DEF OfStack
    <3>1. PICK e \in 1..Len(frames[u]) :
            \/ frames[u][e].seen /\ r = Region(Local(u, e), 1)
            \/ frames[u][e].vla > 0 /\ r = Region(Vla(u, e), frames[u][e].vla)
      BY <3>0
    <3>2. u # t
      BY <1>1, <1>2, <1>6, <3>1, FramesAre
    <3>3. e \in 1..MaxDepth
      BY FrameHas
    <3>4. r.start = Local(u, e) \/ r.start = Vla(u, e)
      BY <3>1 DEF Region
    <3> QED
      BY <1>2, <3>2, <3>3, <3>4, PartOthers
  <2> QED
    BY <2>1, <2>2 DEF Known
<1>7. ASSUME NEW r
      PROVE  r \in R <=> r \in (regions \ OfFrames(t, fs)) \union OfFrames(t, gs)
  <2>1. CASE r \in OfFrames(t, fs)
    <3>1. r \in regions
      BY <1>5, <2>1
    <3>2. ~Part(t, d, m, v, r.start) => r \in OfFrames(t, gs)
      BY <1>3, <1>4, <1>11, <2>1
    <3>3. r \in OfFrames(t, gs) => ~Part(t, d, m, v, r.start)
      BY <1>4, <1>11
    <3> QED
      BY <2>1, <3>1, <3>2, <3>3
  <2>2. CASE r \notin OfFrames(t, fs)
    <3>1. r \notin OfFrames(t, gs)
      BY <1>3, <1>4, <1>11, <2>2
    <3>2. r \in regions => ~Part(t, d, m, v, r.start)
      BY <1>6, <2>2
    <3> QED
      BY <2>2, <3>1, <3>2
  <2> QED
    BY <2>1, <2>2
<1> QED
  BY <1>1, <1>7

(* So are the entries of alloca_list.                                      *)
LEMMA ArraysCut ==
  ASSUME Stacks, Arrays, NEW t \in Thread, NEW d, NEW m, NEW v \in Sizes \union {0},
         NEW gs, Cut(frames[t], d, m, v, gs),
         NEW A, \A a : a \in A <=> a \in alloca_list /\ ~Part(t, d, m, v, a.p)
  PROVE  A = (alloca_list \ ArraysOf(t, frames[t])) \union ArraysOf(t, gs)
<1>1. PICK fs : fs = frames[t]
  OBVIOUS
<1>2. /\ Len(fs) = d /\ Len(gs) = m /\ d \in 1..MaxDepth /\ m \in 1..d /\ m \in Nat /\ d \in Nat
      /\ v # 0 => fs[m].vla = v
      /\ gs[m].vla = v
      /\ v # 0 => v > 0
      /\ \A e \in 1..m : e # m => gs[e] = fs[e]
  BY <1>1, StackAssumption, SizesAre DEF Cut
<1>3. \A u \in Thread : \A a : a \in ArraysOf(u, frames[u]) <=>
        \E e \in 1..Len(frames[u]) : frames[u][e].vla > 0 /\ a = [fp |-> fp(u, e), p |-> Vla(u, e)]
  BY DEF ArraysOf
<1>4. \A a : a \in ArraysOf(t, gs) <=>
        \E e \in 1..m : gs[e].vla > 0 /\ a = [fp |-> fp(t, e), p |-> Vla(t, e)]
  BY <1>2 DEF ArraysOf
<1>5. \A a : a \in alloca_list <=> \E u \in Thread : a \in ArraysOf(u, frames[u])
  BY DEF Arrays, ArraysOf
<1>6. \A e \in 1..d : Part(t, d, m, v, Vla(t, e)) <=> e > m \/ (e = m /\ v = 0)
  BY <1>2, PartFrames
<1>7. ASSUME NEW a \in alloca_list, a \notin ArraysOf(t, fs) PROVE ~Part(t, d, m, v, a.p)
  <2>1. PICK u \in Thread : a \in ArraysOf(u, frames[u])
    BY <1>5
  <2>2. PICK e \in 1..Len(frames[u]) : a = [fp |-> fp(u, e), p |-> Vla(u, e)]
    BY <1>3, <2>1
  <2>3. u # t /\ e \in 1..MaxDepth /\ a.p = Vla(u, e)
    BY <1>1, <1>7, <2>1, <2>2, FrameHas
  <2> QED
    BY <1>2, <2>3, PartOthers
<1>8. ASSUME NEW a \in ArraysOf(t, fs), ~Part(t, d, m, v, a.p) PROVE a \in ArraysOf(t, gs)
  <2>1. PICK e \in 1..d : fs[e].vla > 0 /\ a = [fp |-> fp(t, e), p |-> Vla(t, e)]
    BY <1>1, <1>2, <1>3
  <2>2. ~(e > m \/ (e = m /\ v = 0))
    BY <1>6, <1>8, <2>1
  <2>3. e \in 1..m
    BY <1>2, <2>2
  <2>4. gs[e].vla > 0
    <3>1. CASE e = m
      <4>1. v > 0 /\ gs[e].vla = v
        BY <1>2, <2>2, <3>1, Zenon
      <4> QED
        BY <4>1
    <3>2. CASE e # m
      <4>1. gs[e] = fs[e]
        BY <1>2, <2>3, <3>2
      <4> QED
        BY <2>1, <4>1
    <3> QED
      BY <3>1, <3>2
  <2> QED
    BY <1>4, <2>1, <2>3, <2>4
<1>9. ASSUME NEW a \in ArraysOf(t, gs) PROVE a \in ArraysOf(t, fs) /\ ~Part(t, d, m, v, a.p)
  <2>1. PICK e \in 1..m : gs[e].vla > 0 /\ a = [fp |-> fp(t, e), p |-> Vla(t, e)]
    BY <1>4
  <2>2. e \in 1..d /\ e <= m /\ a.p = Vla(t, e)
    BY <1>2, <2>1
  <2>3. e = m => v # 0
    <3>1. ~(0 > 0)
      OBVIOUS
    <3>2. e = m => gs[e].vla = v
      BY <1>2, Zenon
    <3> QED
      BY <2>1, <3>1, <3>2
  <2>4. fs[e].vla > 0
    <3>1. CASE e = m
      <4>1. fs[e].vla = v /\ gs[e].vla = v
        BY <1>2, <2>3, <3>1, Zenon
      <4> QED
        BY <2>1, <4>1
    <3>2. CASE e # m
      <4>1. gs[e] = fs[e]
        BY <1>2, <3>2
      <4> QED
        BY <2>1, <4>1
    <3> QED
      BY <3>1, <3>2
  <2>5. ~Part(t, d, m, v, a.p)
    BY <1>2, <1>6, <2>2, <2>3
  <2> QED
    BY <1>1, <1>2, <1>3, <2>1, <2>2, <2>4, <2>5
<1>10. ASSUME NEW a
       PROVE  a \in A <=> a \in (alloca_list \ ArraysOf(t, fs)) \union ArraysOf(t, gs)
  <2>1. a \in ArraysOf(t, fs) => a \in alloca_list
    BY <1>1, <1>5
  <2> QED
    BY <1>7, <1>8, <1>9, <2>1
<1> QED
  BY <1>1, <1>10

(* The one entry of a buffer that is jumped to.                            *)
Entry(t, e, L, k) == {q \in DOMAIN L : L[q].penv = <<t, e>> /\ L[q].tid = t} = {k}

(* It is there, and so is the buffer.                                      *)
LEMMA JumpFinds ==
  ASSUME NEW t \in Thread, NEW es, NEW fs, NEW L, EnvsRight(t, es, fs, 0, L), ListRight(L),
         NEW e, NEW i \in 1..Len(es), es[i].env = e
  PROVE  /\ (CHOOSE k \in {k \in DOMAIN es : es[k].env = e} : TRUE) = i
         /\ \E k \in 1..Len(L) : Records(t, es[i], L[k]) /\ Entry(t, e, L, k)
<1>1. DOMAIN es = 1..Len(es) /\ Len(es) \in Nat
  BY DEF EnvsRight
<1>2. DOMAIN L = 1..Len(L) /\ Len(L) \in Nat
  BY DEF ListRight
<1>3. ASSUME NEW k \in 1..Len(es), es[k].env = e PROVE k = i
  <2>1. k < i => es[k].env # es[i].env
    BY DEF EnvsRight
  <2>2. i < k => es[i].env # es[k].env
    BY DEF EnvsRight
  <2> QED
    BY <1>1, <1>3, <2>1, <2>2
<1>4. {k \in DOMAIN es : es[k].env = e} = {i}
  BY <1>1, <1>3
<1>5. PICK k \in 1..Len(L) : Records(t, es[i], L[k])
  BY DEF EnvsRight
<1>6. L[k].penv = <<t, e>> /\ L[k].tid = t
  BY <1>5 DEF Records
<1>7. \A q \in 1..Len(L) : L[q].penv = <<t, e>> => q = k
  BY <1>6 DEF ListRight
<1>8. {q \in DOMAIN L : L[q].penv = <<t, e>> /\ L[q].tid = t} = {k}
  BY <1>2, <1>6, <1>7
<1> QED
  BY <1>4, <1>5, <1>8 DEF Entry

(* The buffers that are left: those set before, whose entries are behind.  *)
LEMMA JumpEnvs ==
  ASSUME NEW t \in Thread, NEW es, NEW fs, NEW L, EnvsRight(t, es, fs, 0, L), ListRight(L),
         NEW i \in 1..Len(es), NEW ds, ds = SubSeq(es, 1, i),
         NEW k \in 1..Len(L), Records(t, es[i], L[k]),
         NEW d, NEW m, m = es[i].depth, NEW v, v = es[i].vla, NEW gs, Cut(fs, d, m, v, gs),
         NEW S, NEW M, NEW g, Trims(M, L, k, S, g)
  PROVE  EnvsRight(t, ds, gs, 0, M)
<1>1. PICK T : T = [env : Env, depth : Nat, vla : Sizes \union {0}] /\ es \in Seq(T)
  BY DEF EnvsRight
<1>2. Len(es) \in Nat /\ i \in 0..Len(es)
  BY <1>1
<1>3. ds \in Seq(T) /\ Len(ds) = i /\ \A a \in 1..i : ds[a] = es[a]
  BY <1>1, <1>2, Shortened
<1>4. PICK h : h = [a \in 1..i |-> a]
  OBVIOUS
<1>5. Thin(ds, es, h)
  <2>1. h \in [1..i -> 1..Len(es)]
    BY <1>2, <1>4
  <2> QED
    BY <1>3, <1>4, <2>1 DEF Thin
<1>6. /\ m \in 1..Len(fs) /\ m \in Nat /\ Len(gs) = m /\ gs[m].vla = v
      /\ \A a \in 1..m : a # m => gs[a] = fs[a]
  BY StackAssumption DEF Cut
<1>7. ASSUME NEW a \in 1..Len(ds)
      PROVE  /\ EnvOf(gs, ds[a])
             /\ \A p \in 1..Len(L) : Records(t, ds[a], L[p]) => p >= k
  <2>1. a \in 1..Len(es) /\ ds[a] = es[a] /\ (a = i \/ a < i)
    BY <1>2, <1>3
  <2>2. PICK y : y = es[a]
    OBVIOUS
  <2>3. y.depth \in 1..Len(fs) /\ (y.vla # 0 => fs[y.depth].vla = y.vla)
    BY <2>1, <2>2 DEF EnvsRight, EnvOf
  <2>4. CASE a = i
    <3>1. y.depth = m /\ y.vla = v
      BY <2>2, <2>4
    <3>2. EnvOf(gs, y)
      BY <1>6, <3>1 DEF EnvOf
    <3>3. ASSUME NEW p \in 1..Len(L), Records(t, y, L[p]) PROVE p = k
      <4>1. L[p].penv = L[k].penv
        BY <2>2, <2>4, <3>3 DEF Records
      <4> QED
        BY <4>1 DEF ListRight
    <3> QED
      BY <2>1, <2>2, <3>2, <3>3
  <2>5. CASE a < i
    <3>1. /\ y.depth <= m
          /\ y.depth = m /\ y.vla # 0 => v = y.vla
          /\ \A p, q \in 1..Len(L) :
               L[p].penv = <<t, y.env>> /\ L[q].penv = <<t, es[i].env>> => q < p
      BY <2>1, <2>2, <2>5 DEF EnvsRight
    <3>2. y.depth \in 1..m
      BY <1>6, <2>3, <3>1
    <3>3. y.vla # 0 => gs[y.depth].vla = y.vla
      <4>1. CASE y.depth = m
        BY <1>6, <3>1, <4>1
      <4>2. CASE y.depth # m
        <5>1. gs[y.depth] = fs[y.depth]
          BY <1>6, <3>2, <4>2
        <5> QED
          BY <2>3, <5>1
      <4> QED
        BY <4>1, <4>2
    <3>4. EnvOf(gs, y)
      BY <1>6, <3>2, <3>3 DEF EnvOf
    <3>5. ASSUME NEW p \in 1..Len(L), Records(t, y, L[p]) PROVE p >= k
      <4>1. L[p].penv = <<t, y.env>> /\ L[k].penv = <<t, es[i].env>>
        BY <3>5 DEF Records
      <4>2. k < p
        BY <3>1, <4>1
      <4> QED
        BY <4>2
    <3> QED
      BY <2>1, <2>2, <3>4, <3>5
  <2> QED
    BY <2>1, <2>4, <2>5
<1>8. Thin(M, L, g) /\ \A p \in 1..Len(L) : p >= k => \E q \in 1..Len(M) : g[q] = p
  BY DEF Trims
<1>9. \A a \in 1..Len(ds) : \A p \in 1..Len(L) :
        Records(t, ds[a], L[p]) => \E q \in 1..Len(M) : g[q] = p
  BY <1>7, <1>8
<1>10. \A a \in 1..Len(ds) : EnvOf(gs, ds[a]) /\ (0 # 0 => ds[a].depth <= 0)
  BY <1>7
<1>11. ds \in Seq([env : Env, depth : Nat, vla : Sizes \union {0}])
  BY <1>1, <1>3
<1> QED
  BY <1>5, <1>8, <1>9, <1>10, <1>11, EnvsThinned

(* __bound_longjmp(): what was entered since setjmp() is gone, with its    *)
(* regions, its arrays and its buffers.                                    *)
LEMMA LongjmpJumpStep ==
  ASSUME IInv, Allowed = {}, NEW t \in Thread, LongjmpJump(t)
  PROVE  IInv'
<1> USE DEF IInv
<1>1. /\ op[t] = "longjmp" /\ Done(t)
      /\ UNCHANGED <<heap, off, reuse, child>>
  BY DEF LongjmpJump, Holds
<1>2. PICK fs, es, L, e : fs = frames[t] /\ es = envs[t] /\ L = jmp_list /\ e = arg[t].env
  OBVIOUS
<1>3. PICK o, a : o = op[t] /\ a = arg[t]
  OBVIOUS
<1>4. StackRight(o, a, fs, off[t]) /\ o = "longjmp" /\ e = a.env
  BY <1>1, <1>2, <1>3 DEF Stacks
<1>5. /\ off[t] = 0 /\ fs \in Seq(FrameSet) /\ Len(fs) \in 1..MaxDepth
      /\ \A b \in 1..Len(fs) : fs[b].seen
  BY <1>4 DEF StackRight
<1>6. ListRight(L) /\ EnvsRight(t, es, fs, 0, L)
  BY <1>2, <1>5 DEF Jumps
<1>7. PICK i \in 1..Len(es) : es[i].env = e
  BY <1>1, <1>2, <1>3 DEF Jumps, JumpCall
<1>8. PICK k \in 1..Len(L) : Records(t, es[i], L[k]) /\ Entry(t, e, L, k)
  <2> HIDE DEF IInv
  <2>1. \E k \in 1..Len(L) : Records(t, es[i], L[k]) /\ Entry(t, e, L, k)
    BY <1>6, <1>7, JumpFinds
  <2> QED
    BY <2>1
<1>9. PICK x, d, m, v : x = es[i] /\ d = Len(fs) /\ m = x.depth /\ v = x.vla
  OBVIOUS
<1>10. /\ d \in 1..MaxDepth /\ m \in 1..d /\ v \in Sizes \union {0}
       /\ v # 0 => fs[m].vla = v
  <2>1. EnvOf(fs, x) /\ x \in [env : Env, depth : Nat, vla : Sizes \union {0}]
    <3>1. PICK T : T = [env : Env, depth : Nat, vla : Sizes \union {0}] /\ es \in Seq(T)
      BY <1>6 DEF EnvsRight
    <3>2. x \in T
      <4> HIDE DEF IInv
      <4>1. es \in Seq(T) /\ i \in 1..Len(es)
        BY <1>7, <3>1
      <4>2. es[i] \in T
        BY <4>1
      <4> QED
        BY <1>9, <4>2
    <3>3. EnvOf(fs, es[i])
      BY <1>6 DEF EnvsRight
    <3> QED
      BY <1>9, <3>1, <3>2, <3>3
  <2> QED
    BY <1>5, <1>9, <2>1 DEF EnvOf
<1>11. PICK S, M, gs, ds :
         /\ S = {y \in Range(L) : y.tid # t}
         /\ M = Only(SubSeq(L, 1, k - 1), S) \o SubSeq(L, k, Len(L))
         /\ gs = Sized(SubSeq(fs, 1, m), m, v)
         /\ ds = SubSeq(es, 1, i)
  OBVIOUS
<1>12. /\ jmp_list' = M
       /\ regions' = Purged(regions, fp(t, d), L[k].end_fp)
       /\ alloca_list' = {y \in alloca_list : y.p < fp(t, d) \/ y.p > L[k].end_fp}
       /\ frames' = [frames EXCEPT ![t] = gs]
       /\ envs' = [envs EXCEPT ![t] = ds]
  <2>1. (CHOOSE q \in EnvAt(t, e) : TRUE) = i
    BY <1>2, <1>6, <1>7, JumpFinds DEF EnvAt
  <2>2. Min({k}) = k
    BY DEF Min
  <2>3. Nested
    BY DEF Nested
  <2>4. {q \in DOMAIN jmp_list : jmp_list[q].penv = <<t, arg[t].env>> /\ jmp_list[q].tid = t} = {k}
    BY <1>2, <1>8 DEF Entry
  <2> QED
    BY <1>2, <1>9, <1>11, <2>1, <2>2, <2>3, <2>4 DEF LongjmpJump, Unwound, Depth, Sized
<1>13. L[k].end_fp = Below(t, m, v)
  BY <1>8, <1>9 DEF Records
<1>14. Cut(fs, d, m, v, gs)
  <2>1. m \in 1..Len(fs)
    BY <1>9, <1>10
  <2>2. /\ gs \in Seq(FrameSet) /\ Len(gs) = m /\ gs[m].vla = v
        /\ gs[m].seen <=> fs[m].seen
        /\ \A b \in 1..m : b # m => gs[b] = fs[b]
    BY <1>5, <1>10, <1>11, <2>1, FramesCut
  <2> QED
    BY <1>5, <1>9, <1>10, <2>2 DEF Cut
<1>15. L \in Seq(Jump)
  BY <1>6 DEF ListRight
<1>16. M \in Seq(Jump) /\ \E g : Trims(M, L, k, S, g)
  BY <1>11, <1>15, Trimmed
<1>17. PICK g : Trims(M, L, k, S, g)
  BY <1>16
<1>18. ListRight(M) /\ Spares(t, L, M)
  <2>1. Thin(M, L, g) /\ \A p \in 1..Len(L) : L[p] \in S => \E q \in 1..Len(M) : g[q] = p
    BY <1>17 DEF Trims
  <2>2. ListRight(M)
    BY <1>6, <1>16, <2>1, ListThinned
  <2>3. ASSUME NEW u, u # t, NEW y, NEW p \in 1..Len(L), Records(u, y, L[p])
        PROVE  \E q \in 1..Len(M) : g[q] = p
    <3>1. L[p].tid = u /\ L[p] \in Range(L)
      BY <1>15, <2>3 DEF Records, Range
    <3>2. L[p] \in S
      BY <1>11, <2>3, <3>1
    <3> QED
      BY <2>1, <3>2
  <2>4. \A u \in Thread : u # t => \A b \in 1..Len(envs[u]) : \A p \in 1..Len(L) :
          Records(u, envs[u][b], L[p]) => \E q \in 1..Len(M) : g[q] = p
    BY <2>3
  <2>5. Spares(t, L, M)
    BY <2>1, <2>4 DEF Spares
  <2> QED
    BY <2>2, <2>5
<1>19. EnvsRight(t, ds, gs, 0, M)
  BY <1>6, <1>8, <1>9, <1>11, <1>14, <1>17, JumpEnvs
<1>20. StackRight("run", <<>>, gs, 0)
  <2>1. /\ gs \in Seq(FrameSet) /\ Len(gs) = m /\ (gs[m].seen <=> fs[m].seen)
        /\ \A b \in 1..m : b # m => gs[b] = fs[b]
    BY <1>14 DEF Cut
  <2>2. \A b \in 1..m : b \in 1..Len(fs)
    BY <1>9, <1>10
  <2>3. \A b \in 1..m : gs[b].seen
    <3>1. ASSUME NEW b \in 1..m PROVE gs[b].seen
      <4>1. fs[b].seen
        BY <1>5, <2>2
      <4>2. CASE b = m
        BY <2>1, <4>1, <4>2
      <4>3. CASE b # m
        <5>1. gs[b] = fs[b]
          BY <2>1, <4>3
        <5> QED
          BY <4>1, <5>1
      <4> QED
        BY <4>2, <4>3
    <3> QED
      BY <3>1
  <2>4. Len(gs) \in 1..MaxDepth /\ 0 \in 0..Len(gs)
    BY <1>10, <2>1, StackAssumption
  <2>5. \A b \in 1..Len(gs) : gs[b].seen
    BY <2>1, <2>3
  <2> QED
    BY <2>1, <2>4, <2>5 DEF StackRight
<1>21. regions' = (regions \ OfFrames(t, frames[t])) \union OfFrames(t, gs)
  <2>1. PICK R : R = regions'
    OBVIOUS
  <2>2. \A r : r \in R <=> r \in regions /\ ~Part(t, d, m, v, r.start)
    BY <1>12, <1>13, <2>1 DEF Purged, Part
  <2>3. Cut(frames[t], d, m, v, gs)
    BY <1>2, <1>14
  <2>4. R = (regions \ OfFrames(t, frames[t])) \union OfFrames(t, gs)
    BY <1>10, <2>2, <2>3, RegionsCut
  <2> QED
    BY <2>1, <2>4
<1>22. alloca_list' = (alloca_list \ ArraysOf(t, frames[t])) \union ArraysOf(t, gs)
  <2>1. PICK A : A = alloca_list'
    OBVIOUS
  <2>2. PICK lo, hi : lo = fp(t, d) /\ hi = Below(t, m, v) /\ lo \in Int /\ hi \in Int
    <3>1. m \in 1..MaxDepth
      BY <1>10, StackAssumption
    <3>2. fp(t, d) \in Int /\ fp(t, m) \in Int
      BY <1>10, <3>1, FrameLayout
    <3>3. Below(t, m, v) \in Int
      BY <3>2 DEF Below
    <3> QED
      BY <3>2, <3>3
  <2>3. ASSUME NEW y \in alloca_list PROVE y.p \in Int
    <3>1. PICK u \in Thread :
            y \in {[fp |-> fp(u, b), p |-> Vla(u, b)] : b \in {b \in 1..Len(frames[u]) : frames[u][b].vla > 0}}
      BY <2>3 DEF Arrays
    <3>2. PICK b \in 1..Len(frames[u]) : y = [fp |-> fp(u, b), p |-> Vla(u, b)]
      BY <3>1
    <3>3. b \in 1..MaxDepth
      BY FrameHas
    <3>4. Vla(u, b) \in Int
      BY <3>3, FrameLayout
    <3> QED
      BY <3>2, <3>4
  <2>4. \A y \in alloca_list : y.p < lo \/ y.p > hi <=> ~Part(t, d, m, v, y.p)
    <3>1. \A n \in Int : n < lo \/ n > hi <=> ~(lo <= n /\ n <= hi)
      BY <2>2
    <3> QED
      BY <2>2, <2>3, <3>1 DEF Part
  <2>5. \A y : y \in A <=> y \in alloca_list /\ ~Part(t, d, m, v, y.p)
    BY <1>12, <1>13, <2>1, <2>2, <2>4
  <2>6. Cut(frames[t], d, m, v, gs)
    BY <1>2, <1>14
  <2>7. A = (alloca_list \ ArraysOf(t, frames[t])) \union ArraysOf(t, gs)
    BY <1>10, <2>5, <2>6, ArraysCut
  <2> QED
    BY <2>1, <2>7
<1>23. Calls' /\ Others(t) /\ op'[t] = "run"
  BY <1>1, DoneIs
<1>24. Changed(frames, frames', t) /\ frames'[t] = gs
  BY <1>12, ExceptIs DEF Stacks
<1>25. Changed(off, off', t) /\ off'[t] = 0
  BY <1>1, <1>5 DEF Stacks, Changed
<1>26. Changed(envs, envs', t) /\ envs'[t] = ds
  BY <1>12, ExceptIs DEF Jumps
<1>27. ListRight(jmp_list') /\ Spares(t, jmp_list, jmp_list') /\ EnvsRight(t, envs'[t], frames'[t], off'[t], jmp_list')
  BY <1>2, <1>12, <1>18, <1>19, <1>24, <1>25, <1>26
<1> QED
  BY <1>1, <1>20, <1>21, <1>22, <1>23, <1>24, <1>25, <1>26, <1>27, FrameStep DEF HeapOps

-----------------------------------------------------------------------------
(* At the beginning every thread has one frame, and there is nothing else. *)
LEMMA InitInv == Init => IInv
<1> SUFFICES ASSUME Init PROVE IInv
  OBVIOUS
<1>1. PICK f \in FrameSet : f = Frame(TRUE) /\ f.seen /\ f.vla = 0 /\ ~(f.vla > 0)
  <2>1. Frame(TRUE) \in FrameSet /\ Frame(TRUE).seen /\ Frame(TRUE).vla = 0
    BY DEF Frame, FrameSet
  <2>2. ~(0 > 0)
    OBVIOUS
  <2> QED
    BY <2>1, <2>2, Zenon
<1>2. /\ used = {} /\ owned = [b \in Block |-> 0] /\ unseen = {}
      /\ frames = [t \in Thread |-> <<f>>]
      /\ envs = [t \in Thread |-> <<>>] /\ off = [t \in Thread |-> 0]
      /\ op = [t \in Thread |-> "run"] /\ arg = [t \in Thread |-> <<>>]
      /\ regions = {Region(Local(t, 1), 1) : t \in Thread}
      /\ free_reuse_list = [i \in 1 .. FREE_REUSE_SIZE |-> NoBlock] /\ free_reuse_index = 1
      /\ alloca_list = {} /\ jmp_list = <<>> /\ child = <<>>
  BY <1>1 DEF Init
<1>3. \A t \in Thread : op[t] = "run" /\ frames[t] = <<f>> /\ off[t] = 0 /\ envs[t] = <<>>
  BY <1>2
<1>4. Calls
  BY <1>2 DEF Calls, Ops
<1>5. Reuse
  BY <1>2, ReuseAssumption DEF Reuse, NoBlock
<1>6. Kept = {}
  BY <1>2 DEF Kept
<1>7. Blocks
  <2>1. \A b \in Block : owned[b] = 0 /\ ~(owned[b] > 0)
    BY <1>2
  <2> QED
    BY <1>2, <1>6, <2>1 DEF Blocks
<1>8. \A t \in Thread : BlockCall(op[t], arg[t]) /\ Touched(op[t], arg[t]) = {}
  BY <1>3 DEF BlockCall, Touched
<1>9. InCalls
  BY <1>3, <1>8 DEF InCalls
<1>10. /\ <<f>> \in Seq(FrameSet) /\ Len(<<f>>) = 1 /\ <<f>>[1] = f
       /\ \A d \in 1..Len(<<f>>) : d = 1
  OBVIOUS
<1>11. PICK fs : fs = <<f>>
  OBVIOUS
<1>12. fs \in Seq(FrameSet) /\ Len(fs) = 1 /\ fs[1] = f /\ \A d \in 1..Len(fs) : d = 1
  BY <1>10, <1>11
<1>13. \A t \in Thread : frames[t] = fs
  BY <1>3, <1>11
<1>14. \A d \in 1..Len(fs) : fs[d].seen /\ ~(fs[d].vla > 0) /\ d = 1
  BY <1>1, <1>12
<1>15. \A a : StackRight("run", a, fs, 0)
  <2>1. Len(fs) \in 1..MaxDepth /\ 0 \in 0..Len(fs)
    BY <1>12, StackAssumption
  <2> QED
    BY <1>12, <1>14, <2>1 DEF StackRight
<1>16. Stacks
  BY <1>2, <1>3, <1>13, <1>15 DEF Stacks
<1>17. Arrays
  BY <1>2, <1>13, <1>14 DEF Arrays
<1>18. Known
  <2>1. 1 \in 1..Len(fs)
    BY <1>12
  <2>2. \A r \in regions : OfStack(r)
    BY <1>2, <1>13, <1>14, <2>1 DEF OfStack
  <2>3. StackKnown
    BY <1>2, <1>13, <1>14 DEF StackKnown
  <2>4. HeapKnown
    <3>1. \A b \in Block : ~(owned[b] > 0)
      BY <1>2
    <3> QED
      BY <1>6, <3>1 DEF HeapKnown
  <2> QED
    BY <2>2, <2>3, <2>4 DEF Known
<1>19. Jumps
  <2>1. PICK es, L : es = <<>> /\ L = <<>>
    OBVIOUS
  <2>2. /\ L \in Seq(Jump) /\ \A i \in 1..Len(L) : FALSE
        /\ es \in Seq([env : Env, depth : Nat, vla : Sizes \union {0}])
        /\ \A i \in 1..Len(es) : FALSE
    BY <2>1
  <2>3. ListRight(L)
    BY <2>2 DEF ListRight
  <2>4. \A t : EnvsRight(t, es, fs, 0, L)
    BY <2>2 DEF EnvsRight
  <2>5. \A t, a : JumpCall(t, "run", a, es, L)
    BY DEF JumpCall
  <2>6. jmp_list = L /\ \A t \in Thread : envs[t] = es
    BY <1>2, <1>3, <2>1
  <2> QED
    BY <1>2, <1>3, <1>13, <2>3, <2>4, <2>5, <2>6 DEF Jumps
<1>20. Child
  BY <1>3 DEF Child
<1> QED
  BY <1>4, <1>5, <1>7, <1>9, <1>16, <1>17, <1>18, <1>19, <1>20 DEF IInv

(* Every step keeps all of it.                                             *)
LEMMA NextInv == Allowed = {} /\ IInv /\ [Next]_vars => IInv'
<1> SUFFICES ASSUME Allowed = {}, IInv, [Next]_vars PROVE IInv'
  OBVIOUS
<1>1. CASE UNCHANGED vars
  <2>1. /\ used' = used /\ owned' = owned /\ unseen' = unseen
        /\ frames' = frames /\ envs' = envs /\ off' = off /\ op' = op /\ arg' = arg
        /\ regions' = regions /\ free_reuse_list' = free_reuse_list
        /\ free_reuse_index' = free_reuse_index /\ alloca_list' = alloca_list
        /\ jmp_list' = jmp_list /\ child' = child
    BY <1>1 DEF vars, heap, stack, lists, reuse
  <2>2. Kept' = Kept /\ Freeing' = Freeing
    BY <2>1 DEF Kept, Freeing
  <2>3. Calls' /\ Reuse' /\ Blocks' /\ InCalls' /\ Stacks'
    BY <2>1, <2>2 DEF IInv, Calls, Reuse, Blocks, InCalls, Stacks
  <2>4. Arrays' /\ Child'
    BY <2>1 DEF IInv, Arrays, Child
  <2>5. Jumps'
    BY <2>1 DEF IInv, Jumps
  <2>6. Known'
    <3>1. \A r : OfStack(r)' <=> OfStack(r)
      BY <2>1 DEF OfStack
    <3>2. \A r : OfBlock(r)' <=> OfBlock(r)
      BY <2>1, <2>2 DEF OfBlock
    <3>3. StackKnown' /\ HeapKnown'
      BY <2>1, <2>2 DEF IInv, Known, StackKnown, HeapKnown
    <3> QED
      BY <2>1, <3>1, <3>2, <3>3 DEF IInv, Known
  <2> QED
    BY <2>3, <2>4, <2>5, <2>6 DEF IInv
<1>2. ASSUME NEW t \in Thread,
             \/ Wait(t)
             \/ Malloc(t) \/ MallocInsert(t) \/ Free(t) \/ FreeMark(t) \/ Release(t)
             \/ Realloc(t) \/ ReallocMove(t)
             \/ Call(t) \/ CallInsert(t) \/ Leave(t) \/ LeaveDelete(t)
             \/ Alloca(t) \/ AllocaInsert(t)
             \/ Setjmp(t) \/ SetjmpRecord(t) \/ Longjmp(t) \/ LongjmpJump(t)
             \/ Switch(t) \/ Fork(t) \/ ForkChild(t) \/ ForkReturn(t)
      PROVE  IInv'
  <2>1. CASE Wait(t)
    BY <2>1, WaitStep
  <2>2. CASE Malloc(t)
    BY <2>2, MallocStep
  <2>3. CASE MallocInsert(t)
    BY <2>3, MallocInsertStep
  <2>4. CASE Free(t)
    BY <2>4, FreeStep
  <2>5. CASE FreeMark(t)
    BY <2>5, FreeMarkStep
  <2>6. CASE Release(t)
    BY <2>6, ReleaseStep
  <2>7. CASE Realloc(t)
    BY <2>7, ReallocStep
  <2>8. CASE ReallocMove(t)
    BY <2>8, ReallocMoveStep
  <2>9. CASE Call(t)
    BY <2>9, CallStep
  <2>10. CASE CallInsert(t)
    BY <2>10, CallInsertStep
  <2>11. CASE Leave(t)
    BY <2>11, LeaveStep
  <2>12. CASE LeaveDelete(t)
    BY <2>12, LeaveDeleteStep
  <2>13. CASE Alloca(t)
    BY <2>13, AllocaStep
  <2>14. CASE AllocaInsert(t)
    BY <2>14, AllocaInsertStep
  <2>15. CASE Setjmp(t)
    BY <2>15, SetjmpStep
  <2>16. CASE SetjmpRecord(t)
    BY <2>16, SetjmpRecordStep
  <2>17. CASE Longjmp(t)
    BY <2>17, LongjmpStep
  <2>18. CASE LongjmpJump(t)
    BY <2>18, LongjmpJumpStep
  <2>19. CASE Switch(t)
    BY <2>19, SwitchStep
  <2>20. CASE Fork(t)
    BY <2>20, ForkStep
  <2>21. CASE ForkChild(t)
    BY <2>21, ForkChildStep
  <2>22. CASE ForkReturn(t)
    BY <2>22, ForkReturnStep
  <2> QED
    BY <1>2, <2>1, <2>2, <2>3, <2>4, <2>5, <2>6, <2>7, <2>8, <2>9, <2>10, <2>11, <2>12,
       <2>13, <2>14, <2>15, <2>16, <2>17, <2>18, <2>19, <2>20, <2>21, <2>22
<1> QED
  BY <1>1, <1>2 DEF Next

(* So it always holds.                                                     *)
LEMMA Invariant == Allowed = {} /\ Spec => []IInv
<1> SUFFICES ASSUME Allowed = {} PROVE Spec => []IInv
  OBVIOUS
<1>1. Init => IInv
  BY InitInv
<1>2. IInv /\ [Next]_vars => IInv'
  BY NextInv
<1> QED
  BY <1>1, <1>2, PTL DEF Spec

(* Those of a thread's frames.                                             *)
LEMMA ThreadHas ==
  ASSUME Stacks, NEW t \in Thread
  PROVE  \A r : r \in OfFrames(t, frames[t]) <=>
           \E d \in 1..Len(frames[t]) :
             \/ frames[t][d].seen /\ r = Region(Local(t, d), 1)
             \/ frames[t][d].vla > 0 /\ r = Region(Vla(t, d), frames[t][d].vla)
<1>1. PICK fs : fs = frames[t]
  OBVIOUS
<1>2. fs \in Seq(FrameSet)
  BY <1>1 DEF Stacks, StackRight
<1>3. \A r : r \in OfFrames(t, fs) <=>
        \E d \in 1..Len(fs) :
          \/ fs[d].seen /\ r = Region(Local(t, d), 1)
          \/ fs[d].vla > 0 /\ r = Region(Vla(t, d), fs[d].vla)
  BY <1>2, FramesAre
<1> QED
  BY <1>1, <1>3

(* The regions that are valid are those of what the program has, or of a   *)
(* block that is being freed or moved.                                     *)
LEMMA InvTracked == IInv => Tracked
<1> SUFFICES ASSUME IInv PROVE Tracked
  OBVIOUS
<1>1. Stacks /\ Known /\ Blocks
  BY DEF IInv
<1>2. \A r : r \in Valid <=> r \in regions /\ ~r.is_invalid
  BY DEF Valid
<1>3. \A r : r \in Expected <=>
        \/ \E t \in Thread : r \in OfFrames(t, frames[t])
        \/ r \in OfHeap(owned) /\ r.start \notin unseen
  <2>1. \A r : r \in OfStacks <=> \E t \in Thread : r \in OfFrames(t, frames[t])
    BY DEF OfStacks
  <2>2. \A r : r \in OfHeld <=> r \in OfHeap(owned) /\ r.start \notin unseen
    BY DEF OfHeld
  <2>3. Expected = OfStacks \union OfHeld
    BY DEF Expected
  <2> QED
    BY <2>1, <2>2, <2>3
<1>4. \A a, n : ~Region(a, n).is_invalid /\ Region(a, n).start = a
  BY DEF Region
<1>5. ASSUME NEW r \in Expected PROVE r \in regions /\ ~r.is_invalid
  <2>1. CASE \E t \in Thread : r \in OfFrames(t, frames[t])
    <3>1. PICK t \in Thread : r \in OfFrames(t, frames[t])
      BY <2>1
    <3>2. PICK e \in 1..Len(frames[t]) :
            \/ frames[t][e].seen /\ r = Region(Local(t, e), 1)
            \/ frames[t][e].vla > 0 /\ r = Region(Vla(t, e), frames[t][e].vla)
      BY <1>1, <3>1, ThreadHas
    <3> QED
      BY <1>1, <1>4, <3>2 DEF Known, StackKnown
  <2>2. CASE r \in OfHeap(owned) /\ r.start \notin unseen
    <3>1. PICK b \in Block : owned[b] > 0 /\ r = Region(b, owned[b])
      BY <2>2 DEF OfHeap
    <3> QED
      BY <1>1, <1>4, <2>2, <3>1 DEF Known, HeapKnown
  <2> QED
    BY <1>3, <1>5, <2>1, <2>2
<1>6. ASSUME NEW r \in Valid, r \notin Expected PROVE r.start \in Freeing
  <2>1. r \in regions /\ ~r.is_invalid
    BY <1>2
  <2>2. ~OfStack(r)
    <3>1. ASSUME OfStack(r) PROVE FALSE
      <4>1. PICK t \in Thread : \E e \in 1..Len(frames[t]) :
              \/ frames[t][e].seen /\ r = Region(Local(t, e), 1)
              \/ frames[t][e].vla > 0 /\ r = Region(Vla(t, e), frames[t][e].vla)
        BY <3>1 DEF OfStack
      <4>2. r \in OfFrames(t, frames[t])
        BY <1>1, <4>1, ThreadHas
      <4> QED
        BY <1>3, <1>6, <4>1, <4>2
    <3> QED
      BY <3>1
  <2>3. OfBlock(r)
    BY <1>1, <2>1, <2>2 DEF Known
  <2>4. PICK b, n, i : b = r.start /\ n = r.size /\ i = r.is_invalid
    OBVIOUS
  <2>5. /\ b \in Block /\ n \in Sizes /\ r = [start |-> b, size |-> n, is_invalid |-> i]
        /\ i = FALSE /\ (b \in Freeing \/ (n = owned[b] /\ b \notin unseen))
    BY <2>1, <2>3, <2>4, Zenon DEF OfBlock, Triple
  <2>6. ASSUME n = owned[b], b \notin unseen PROVE FALSE
    <3>1. r = Region(b, owned[b]) /\ owned[b] > 0
      BY <2>5, <2>6, SizesAre DEF Region
    <3>2. r \in OfHeap(owned)
      BY <2>5, <3>1 DEF OfHeap
    <3> QED
      BY <1>3, <1>6, <2>4, <2>6, <3>2
  <2> QED
    BY <2>4, <2>5, <2>6
<1>7. Expected \subseteq Valid
  BY <1>2, <1>5
<1> QED
  BY <1>6, <1>7 DEF Tracked

(* The blocks that are kept are those whose regions are marked.            *)
LEMMA InvFreedKept == IInv => FreedKept
<1> SUFFICES ASSUME IInv PROVE FreedKept
  OBVIOUS
<1>1. Known /\ Blocks
  BY DEF IInv
<1>2. Kept \subseteq Block
  BY DEF IInv, Kept, Reuse
<1>3. ASSUME NEW r \in regions, r.is_invalid PROVE r.start \in Kept
  <2>1. ~OfStack(r)
    <3>1. \A a, n : ~Region(a, n).is_invalid
      BY DEF Region
    <3> QED
      BY <1>3, <3>1 DEF OfStack
  <2>2. OfBlock(r)
    BY <1>1, <2>1 DEF Known
  <2> QED
    BY <1>3, <2>2, Zenon DEF OfBlock
<1>4. ASSUME NEW b \in Kept PROVE \E r \in regions : r.is_invalid /\ r.start = b
  <2>1. PICK n \in Sizes : FreedRegion(b, n) \in regions
    BY <1>1, <1>2 DEF Known, HeapKnown
  <2>2. FreedRegion(b, n).is_invalid /\ FreedRegion(b, n).start = b
    BY DEF FreedRegion
  <2> QED
    BY <2>1, <2>2
<1>5. {r.start : r \in {r \in regions : r.is_invalid}} = Kept
  BY <1>3, <1>4
<1>6. Kept \subseteq used /\ \A b \in Kept : owned[b] = 0
  BY <1>1, <1>2 DEF Blocks
<1> QED
  BY <1>5, <1>6 DEF FreedKept

(* What the child of fork() begins with.                                   *)
LEMMA InvChildSound == IInv => ChildSound
<1> SUFFICES ASSUME IInv, NEW t \in Thread, NEW i \in DOMAIN child, op[t] = "forked"
             PROVE  child[i].sem = None /\ OfFrames(t, frames[t]) \subseteq child[i].regions
  BY DEF ChildSound
<1>1. /\ child[i].sem = None
      /\ \A d \in 1..Len(frames[t]) :
           /\ frames[t][d].seen => Region(Local(t, d), 1) \in child[i].regions
           /\ frames[t][d].vla > 0 => Region(Vla(t, d), frames[t][d].vla) \in child[i].regions
  BY DEF IInv, Child
<1>2. ASSUME NEW r \in OfFrames(t, frames[t]) PROVE r \in child[i].regions
  <2>1. Stacks
    BY DEF IInv
  <2>2. PICK e \in 1..Len(frames[t]) :
          \/ frames[t][e].seen /\ r = Region(Local(t, e), 1)
          \/ frames[t][e].vla > 0 /\ r = Region(Vla(t, e), frames[t][e].vla)
    BY <2>1, ThreadHas
  <2> QED
    BY <1>1, <2>2
<1> QED
  BY <1>1, <1>2

-----------------------------------------------------------------------------
(* Tracked: in a program that is not unusual the regions that are valid    *)
(* are those of the frames and of the blocks it holds, with their sizes,   *)
(* whatever threads allocate, return, jump and fork in between.            *)
THEOREM RegionsTracked == Allowed = {} /\ Spec => []Tracked
<1> SUFFICES ASSUME Allowed = {} PROVE Spec => []Tracked
  OBVIOUS
<1>1. Spec => []IInv
  BY Invariant
<1>2. IInv => Tracked
  BY InvTracked
<1> QED
  BY <1>1, <1>2, PTL

(* FreedKept: a block that was freed stays the runtime's and marked while  *)
(* it is in free_reuse_list.                                               *)
THEOREM FreedStayKept == Allowed = {} /\ Spec => []FreedKept
<1> SUFFICES ASSUME Allowed = {} PROVE Spec => []FreedKept
  OBVIOUS
<1>1. Spec => []IInv
  BY Invariant
<1>2. IInv => FreedKept
  BY InvFreedKept
<1> QED
  BY <1>1, <1>2, PTL

(* ChildSound: the child of fork() has a lock that is free, and the        *)
(* regions of its thread.                                                  *)
THEOREM ChildIsSound == Allowed = {} /\ Spec => []ChildSound
<1> SUFFICES ASSUME Allowed = {} PROVE Spec => []ChildSound
  OBVIOUS
<1>1. Spec => []IInv
  BY Invariant
<1>2. IInv => ChildSound
  BY InvChildSound
<1> QED
  BY <1>1, <1>2, PTL
=============================================================================
