---------------------------- MODULE SplayProofs ----------------------------
(***************************************************************************)
(* Proofs about Splay, for any memory and any regions: the links of the    *)
(* nodes are a search tree on the regions that are known, between two      *)
(* calls and, in three parts, in every round of splay() and splay_end();   *)
(* so the tree implements the set of regions (TreeRefinesSet).             *)
(*                                                                         *)
(* A search tree is told by labels and not by recursion: lo[n] and hi[n]   *)
(* are the bounds between which the nodes below n are.                     *)
(***************************************************************************)
EXTENDS Splay, TLAPS

Labels == [Addr -> 0..Limit]
Links == [Addr \union {N} -> Addr \union {NULL}]

(* The link q has all nodes of S between a and b below it.                 *)
Hangs(q, a, b, S, lo, hi) ==
  IF q = NULL THEN \A x \in S : ~(a < x /\ x < b)
  ELSE q \in S /\ lo[q] = a /\ hi[q] = b

Bounded(S, lo, hi) ==
  \A n \in S : /\ lo[n] < n /\ n < hi[n]
               /\ lo[n] \in S \union {0} /\ hi[n] \in S \union {Limit}

Nested(S, lo, hi) ==
  \A n, m \in S :
    /\ lo[n] < m /\ m < n => lo[n] <= lo[m] /\ hi[m] <= n
    /\ n < m /\ m < hi[n] => n <= lo[m] /\ hi[m] <= hi[n]

Linked(S, lf, rg, lo, hi) ==
  \A n \in S : /\ Hangs(lf[n], lo[n], n, S, lo, hi)
               /\ Hangs(rg[n], n, hi[n], S, lo, hi)

Less(S, q) == {x \in S : x < q}
More(S, q) == {x \in S : x > q}

(* The links without the one of n. *)
Cut(f, n) == [f EXCEPT ![n] = NULL]

(* From q, the links lf and rg are a search tree on the nodes S.           *)
IsTree(q, S, lf, rg) ==
  \E lo, hi \in Labels :
    /\ Hangs(q, 0, Limit, S, lo, hi)
    /\ Bounded(S, lo, hi)
    /\ Nested(S, lo, hi)
    /\ Linked(S, lf, rg, lo, hi)

-----------------------------------------------------------------------------
(* No link is the tree without nodes.                                      *)
LEMMA EmptyTree ==
  ASSUME NEW lf \in Links, NEW rg \in Links
  PROVE  IsTree(NULL, {}, lf, rg)
<1> DEFINE lo == [n \in Addr |-> 0]
<1>1. lo \in Labels
  BY MemoryAssumption DEF Labels
<1>2. /\ Hangs(NULL, 0, Limit, {}, lo, lo) /\ Bounded({}, lo, lo)
      /\ Nested({}, lo, lo) /\ Linked({}, lf, rg, lo, lo)
  BY DEF Hangs, Bounded, Nested, Linked
<1> HIDE DEF lo
<1> QED BY <1>1, <1>2 DEF IsTree

(* A tree has a root unless it has no nodes.                               *)
LEMMA TreeRoot ==
  ASSUME NEW q, NEW S \in SUBSET Addr, NEW lf \in Links, NEW rg \in Links,
         IsTree(q, S, lf, rg)
  PROVE  IF q = NULL THEN S = {} ELSE q \in S
<1>1. PICK lo \in Labels, hi \in Labels : Hangs(q, 0, Limit, S, lo, hi)
  BY DEF IsTree
<1>2. CASE q = NULL
  <2>1. \A x \in S : 0 < x /\ x < Limit
    BY MemoryAssumption
  <2> QED BY <1>1, <1>2, <2>1 DEF Hangs
<1>3. CASE q # NULL
  BY <1>1, <1>3 DEF Hangs
<1> QED BY <1>2, <1>3

(* Only the links of the tree's own nodes count.                           *)
LEMMA SameLinks ==
  ASSUME NEW q, NEW S \in SUBSET Addr,
         NEW lf \in Links, NEW rg \in Links, NEW lf1 \in Links, NEW rg1 \in Links,
         IsTree(q, S, lf, rg),
         \A n \in S : lf1[n] = lf[n] /\ rg1[n] = rg[n]
  PROVE  IsTree(q, S, lf1, rg1)
<1>1. PICK lo \in Labels, hi \in Labels :
        /\ Hangs(q, 0, Limit, S, lo, hi) /\ Bounded(S, lo, hi) /\ Nested(S, lo, hi)
        /\ Linked(S, lf, rg, lo, hi)
  BY DEF IsTree
<1>2. Linked(S, lf1, rg1, lo, hi)
  BY <1>1 DEF Linked
<1> QED BY <1>1, <1>2 DEF IsTree

(* What is at the left of the root is a tree.                              *)
LEMMA LeftPart ==
  ASSUME NEW q \in Addr, NEW S \in SUBSET Addr, NEW lf \in Links, NEW rg \in Links,
         IsTree(q, S, lf, rg)
  PROVE  IsTree(lf[q], Less(S, q), lf, rg)
<1>1. PICK lo \in Labels, hi \in Labels :
        /\ Hangs(q, 0, Limit, S, lo, hi) /\ Bounded(S, lo, hi) /\ Nested(S, lo, hi)
        /\ Linked(S, lf, rg, lo, hi)
  BY DEF IsTree
<1> DEFINE P == {x \in S : x < q}
           hj == [n \in Addr |-> IF hi[n] = q THEN Limit ELSE hi[n]]
<1>2. q # NULL /\ q \in S /\ lo[q] = 0 /\ hi[q] = Limit
  BY <1>1, MemoryAssumption DEF Hangs, NULL
<1>3. lo \in Labels /\ hj \in Labels
  BY MemoryAssumption DEF Labels
<1>4. \A n \in S : n \in 1..(Limit - 1) /\ lo[n] \in 0..Limit /\ hi[n] \in 0..Limit
  BY MemoryAssumption DEF Labels
<1>5. \A n \in P : n \in S /\ n < q /\ lo[n] < n /\ n < hi[n] /\ hi[n] <= q
                   /\ lo[n] \in P \union {0} /\ (hi[n] # q => hi[n] \in P)
                   /\ hj[n] = IF hi[n] = q THEN Limit ELSE hi[n]
  <2> SUFFICES ASSUME NEW n \in P
               PROVE  n \in S /\ n < q /\ lo[n] < n /\ n < hi[n] /\ hi[n] <= q
                      /\ lo[n] \in P \union {0} /\ (hi[n] # q => hi[n] \in P)
                      /\ hj[n] = IF hi[n] = q THEN Limit ELSE hi[n]
    OBVIOUS
  <2>1. n \in S /\ n < q /\ lo[n] < n /\ n < hi[n] /\ lo[n] \in S \union {0} /\ hi[n] \in S \union {Limit}
    BY <1>1 DEF Bounded
  <2>2. hi[n] <= q
    BY <2>1, <1>1, <1>2, <1>4 DEF Nested
  <2> QED BY <2>1, <2>2, <1>2, <1>4
<1> HIDE DEF hj
<1>6. Bounded(P, lo, hj)
  BY <1>2, <1>3, <1>4, <1>5 DEF Bounded
<1>7. Nested(P, lo, hj)
  <2> SUFFICES ASSUME NEW n \in P, NEW m \in P
               PROVE  /\ lo[n] < m /\ m < n => lo[n] <= lo[m] /\ hj[m] <= n
                      /\ n < m /\ m < hj[n] => n <= lo[m] /\ hj[m] <= hj[n]
    BY DEF Nested
  <2>1. /\ lo[n] < m /\ m < n => lo[n] <= lo[m] /\ hi[m] <= n
        /\ n < m /\ m < hi[n] => n <= lo[m] /\ hi[m] <= hi[n]
    BY <1>1 DEF Nested
  <2> QED BY <2>1, <1>2, <1>4, <1>5
<1>8. Hangs(lf[q], 0, Limit, P, lo, hj)
  <2>1. Hangs(lf[q], 0, q, S, lo, hi)
    BY <1>1, <1>2 DEF Linked
  <2>2. lf[q] # NULL => lf[q] \in P
    BY <2>1, <1>1, <1>2, <1>4 DEF Hangs, Bounded
  <2> QED BY <2>1, <2>2, <1>2, <1>4, <1>5 DEF Hangs
<1>9. Linked(P, lf, rg, lo, hj)
  <2> SUFFICES ASSUME NEW n \in P
               PROVE  /\ Hangs(lf[n], lo[n], n, P, lo, hj)
                      /\ Hangs(rg[n], n, hj[n], P, lo, hj)
    BY DEF Linked
  <2>1. /\ Hangs(lf[n], lo[n], n, S, lo, hi) /\ Hangs(rg[n], n, hi[n], S, lo, hi)
    BY <1>1 DEF Linked
  <2>2. \A c \in S : lo[c] < c /\ c < hi[c]
    BY <1>1 DEF Bounded
  <2>3. lf[n] # NULL => lf[n] \in P
    BY <2>1, <2>2, <1>4, <1>5, <1>2 DEF Hangs
  <2>4. rg[n] # NULL => rg[n] \in P
    BY <2>1, <2>2, <1>4, <1>5, <1>2 DEF Hangs
  <2>5. Hangs(lf[n], lo[n], n, P, lo, hj)
    BY <2>1, <2>3, <1>2, <1>4, <1>5 DEF Hangs
  <2>6. Hangs(rg[n], n, hj[n], P, lo, hj)
    BY <2>1, <2>4, <1>2, <1>4, <1>5 DEF Hangs
  <2> QED BY <2>5, <2>6
<1> HIDE DEF P
<1>10. IsTree(lf[q], P, lf, rg)
  BY <1>3, <1>6, <1>7, <1>8, <1>9 DEF IsTree
<1> QED BY <1>10 DEF P, Less

(* What is at the right of the root is a tree.                              *)
LEMMA RightPart ==
  ASSUME NEW q \in Addr, NEW S \in SUBSET Addr, NEW lf \in Links, NEW rg \in Links,
         IsTree(q, S, lf, rg)
  PROVE  IsTree(rg[q], More(S, q), lf, rg)
<1>1. PICK lo \in Labels, hi \in Labels :
        /\ Hangs(q, 0, Limit, S, lo, hi) /\ Bounded(S, lo, hi) /\ Nested(S, lo, hi)
        /\ Linked(S, lf, rg, lo, hi)
  BY DEF IsTree
<1> DEFINE P == {x \in S : x > q}
           lj == [n \in Addr |-> IF lo[n] = q THEN 0 ELSE lo[n]]
<1>2. q # NULL /\ q \in S /\ hi[q] = Limit /\ lo[q] = 0
  BY <1>1, MemoryAssumption DEF Hangs, NULL
<1>3. hi \in Labels /\ lj \in Labels
  BY MemoryAssumption DEF Labels
<1>4. \A n \in S : n \in 1..(Limit - 1) /\ hi[n] \in 0..Limit /\ lo[n] \in 0..Limit
  BY MemoryAssumption DEF Labels
<1>5. \A n \in P : n \in S /\ n > q /\ hi[n] > n /\ n > lo[n] /\ lo[n] >= q
                   /\ hi[n] \in P \union {Limit} /\ (lo[n] # q => lo[n] \in P)
                   /\ lj[n] = IF lo[n] = q THEN 0 ELSE lo[n]
  <2> SUFFICES ASSUME NEW n \in P
               PROVE  n \in S /\ n > q /\ hi[n] > n /\ n > lo[n] /\ lo[n] >= q
                      /\ hi[n] \in P \union {Limit} /\ (lo[n] # q => lo[n] \in P)
                      /\ lj[n] = IF lo[n] = q THEN 0 ELSE lo[n]
    OBVIOUS
  <2>1. n \in S /\ n > q /\ hi[n] > n /\ n > lo[n] /\ hi[n] \in S \union {Limit} /\ lo[n] \in S \union {0}
    BY <1>1 DEF Bounded
  <2>2. lo[n] >= q
    BY <2>1, <1>1, <1>2, <1>4 DEF Nested
  <2> QED BY <2>1, <2>2, <1>2, <1>4
<1> HIDE DEF lj
<1>6. Bounded(P, lj, hi)
  BY <1>2, <1>3, <1>4, <1>5 DEF Bounded
<1>7. Nested(P, lj, hi)
  <2> SUFFICES ASSUME NEW n \in P, NEW m \in P
               PROVE  /\ hi[n] > m /\ m > n => hi[n] >= hi[m] /\ lj[m] >= n
                      /\ n > m /\ m > lj[n] => n >= hi[m] /\ lj[m] >= lj[n]
    BY DEF Nested
  <2>1. /\ hi[n] > m /\ m > n => hi[n] >= hi[m] /\ lo[m] >= n
        /\ n > m /\ m > lo[n] => n >= hi[m] /\ lo[m] >= lo[n]
    BY <1>1 DEF Nested
  <2> QED BY <2>1, <1>2, <1>4, <1>5
<1>8. Hangs(rg[q], 0, Limit, P, lj, hi)
  <2>1. Hangs(rg[q], q, Limit, S, lo, hi)
    BY <1>1, <1>2 DEF Linked
  <2>2. rg[q] # NULL => rg[q] \in P
    BY <2>1, <1>1, <1>2, <1>4 DEF Hangs, Bounded
  <2> QED BY <2>1, <2>2, <1>2, <1>4, <1>5 DEF Hangs
<1>9. Linked(P, lf, rg, lj, hi)
  <2> SUFFICES ASSUME NEW n \in P
               PROVE  /\ Hangs(rg[n], n, hi[n], P, lj, hi)
                      /\ Hangs(lf[n], lj[n], n, P, lj, hi)
    BY DEF Linked
  <2>1. /\ Hangs(rg[n], n, hi[n], S, lo, hi) /\ Hangs(lf[n], lo[n], n, S, lo, hi)
    BY <1>1 DEF Linked
  <2>2. \A c \in S : hi[c] > c /\ c > lo[c]
    BY <1>1 DEF Bounded
  <2>3. rg[n] # NULL => rg[n] \in P
    BY <2>1, <2>2, <1>4, <1>5, <1>2 DEF Hangs
  <2>4. lf[n] # NULL => lf[n] \in P
    BY <2>1, <2>2, <1>4, <1>5, <1>2 DEF Hangs
  <2>5. Hangs(rg[n], n, hi[n], P, lj, hi)
    BY <2>1, <2>3, <1>2, <1>4, <1>5 DEF Hangs
  <2>6. Hangs(lf[n], lj[n], n, P, lj, hi)
    BY <2>1, <2>4, <1>2, <1>4, <1>5 DEF Hangs
  <2> QED BY <2>5, <2>6
<1> HIDE DEF P
<1>10. IsTree(rg[q], P, lf, rg)
  BY <1>3, <1>6, <1>7, <1>8, <1>9 DEF IsTree
<1> QED BY <1>10 DEF P, More

(* A root, a tree of smaller and a tree of larger nodes make a tree.       *)
LEMMA Compose ==
  ASSUME NEW S \in SUBSET Addr, NEW q \in S, NEW lf \in Links, NEW rg \in Links,
         IsTree(lf[q], Less(S, q), lf, rg), IsTree(rg[q], More(S, q), lf, rg)
  PROVE  IsTree(q, S, lf, rg)
<1> DEFINE A == {x \in S : x < q}
           B == {x \in S : x > q}
<1>1. PICK lo1 \in Labels, hi1 \in Labels :
        /\ Hangs(lf[q], 0, Limit, A, lo1, hi1) /\ Bounded(A, lo1, hi1)
        /\ Nested(A, lo1, hi1) /\ Linked(A, lf, rg, lo1, hi1)
  BY DEF IsTree, Less, More
<1>2. PICK lo2 \in Labels, hi2 \in Labels :
        /\ Hangs(rg[q], 0, Limit, B, lo2, hi2) /\ Bounded(B, lo2, hi2)
        /\ Nested(B, lo2, hi2) /\ Linked(B, lf, rg, lo2, hi2)
  BY DEF IsTree, Less, More
<1> DEFINE lo == [n \in Addr |-> IF n < q THEN lo1[n] ELSE IF n = q THEN 0
                            ELSE IF lo2[n] = 0 THEN q ELSE lo2[n]]
           hi == [n \in Addr |-> IF n > q THEN hi2[n] ELSE IF n = q THEN Limit
                            ELSE IF hi1[n] = Limit THEN q ELSE hi1[n]]
<1>3. Limit \in Nat /\ q \in 1..(Limit - 1) /\ q # NULL /\ \A n \in S : n \in 1..(Limit - 1)
  BY MemoryAssumption DEF NULL
<1>4. lo \in Labels /\ hi \in Labels
  BY <1>3, MemoryAssumption DEF Labels
<1>5. \A n \in A : /\ n \in S /\ n < q /\ n \in 1..(Limit - 1)
                   /\ lo1[n] \in 0..Limit /\ hi1[n] \in 0..Limit
                   /\ lo1[n] < n /\ n < hi1[n]
                   /\ lo1[n] \in A \union {0} /\ hi1[n] \in A \union {Limit}
                   /\ lo[n] = lo1[n]
                   /\ hi[n] = IF hi1[n] = Limit THEN q ELSE hi1[n]
  BY <1>1, <1>3 DEF Bounded, Labels
<1>6. \A n \in B : /\ n \in S /\ n > q /\ n \in 1..(Limit - 1)
                   /\ lo2[n] \in 0..Limit /\ hi2[n] \in 0..Limit
                   /\ lo2[n] < n /\ n < hi2[n]
                   /\ lo2[n] \in B \union {0} /\ hi2[n] \in B \union {Limit}
                   /\ lo[n] = IF lo2[n] = 0 THEN q ELSE lo2[n]
                   /\ hi[n] = hi2[n]
  BY <1>2, <1>3 DEF Bounded, Labels
<1>7. lo[q] = 0 /\ hi[q] = Limit
  BY <1>3
<1>8. \A n \in S : n \in A \/ n = q \/ n \in B
  BY <1>3
<1> HIDE DEF lo, hi, A, B
<1>9. Bounded(S, lo, hi)
  <2> SUFFICES ASSUME NEW n \in S
               PROVE  /\ lo[n] < n /\ n < hi[n]
                      /\ lo[n] \in S \union {0} /\ hi[n] \in S \union {Limit}
    BY DEF Bounded
  <2>1. CASE n \in A
    BY <2>1, <1>3, <1>5
  <2>2. CASE n \in B
    BY <2>2, <1>3, <1>6
  <2>3. CASE n = q
    BY <2>3, <1>3, <1>7
  <2> QED BY <2>1, <2>2, <2>3, <1>8
<1>10. Hangs(q, 0, Limit, S, lo, hi)
  BY <1>3, <1>7 DEF Hangs
<1>11. Nested(S, lo, hi)
  <2> SUFFICES ASSUME NEW n \in S, NEW m \in S
               PROVE  /\ lo[n] < m /\ m < n => lo[n] <= lo[m] /\ hi[m] <= n
                      /\ n < m /\ m < hi[n] => n <= lo[m] /\ hi[m] <= hi[n]
    BY DEF Nested
  <2>1. CASE n \in A /\ m \in A
    BY <2>1, <1>1, <1>3, <1>5 DEF Nested
  <2>2. CASE n \in B /\ m \in B
    BY <2>2, <1>2, <1>3, <1>6 DEF Nested
  <2>3. CASE n = q
    <3>1. CASE m \in A
      BY <2>3, <3>1, <1>3, <1>5, <1>7
    <3>2. CASE m \in B
      BY <2>3, <3>2, <1>3, <1>6, <1>7
    <3>3. CASE m = q
      BY <2>3, <3>3, <1>3
    <3> QED BY <3>1, <3>2, <3>3, <1>8
  <2>4. CASE n \in A /\ m \in B
    BY <2>4, <1>3, <1>5, <1>6
  <2>5. CASE n \in B /\ m \in A
    BY <2>5, <1>3, <1>5, <1>6
  <2>6. CASE n # q /\ m = q
    <3>1. CASE n \in A
      <4>1. hi[n] <= q
        BY <3>1, <1>3, <1>5
      <4> QED BY <2>6, <3>1, <4>1, <1>3, <1>5
    <3>2. CASE n \in B
      <4>1. q <= lo[n]
        BY <3>2, <1>3, <1>6
      <4> QED BY <2>6, <3>2, <4>1, <1>3, <1>6
    <3> QED BY <2>6, <3>1, <3>2, <1>8
  <2> QED BY <2>1, <2>2, <2>3, <2>4, <2>5, <2>6, <1>8
<1>12. Linked(S, lf, rg, lo, hi)
  <2> SUFFICES ASSUME NEW n \in S
               PROVE  /\ Hangs(lf[n], lo[n], n, S, lo, hi)
                      /\ Hangs(rg[n], n, hi[n], S, lo, hi)
    BY DEF Linked
  <2>1. CASE n \in A
    <3>1. /\ Hangs(lf[n], lo1[n], n, A, lo1, hi1)
          /\ Hangs(rg[n], n, hi1[n], A, lo1, hi1)
      BY <2>1, <1>1 DEF Linked
    <3>2. Hangs(lf[n], lo[n], n, S, lo, hi)
      <4>1. CASE lf[n] = NULL
        BY <4>1, <3>1, <2>1, <1>3, <1>5, <1>6, <1>8 DEF Hangs
      <4>2. CASE lf[n] # NULL
        <5>1. lf[n] \in A /\ lo1[lf[n]] = lo1[n] /\ hi1[lf[n]] = n
          BY <4>2, <3>1 DEF Hangs
        <5>2. lf[n] \in S /\ lo[lf[n]] = lo[n] /\ hi[lf[n]] = n
          <6>1. n # Limit
            BY <2>1, <1>3, <1>5
          <6>2. \A c \in A : lo1[c] = lo1[n] /\ hi1[c] = n => c \in S /\ lo[c] = lo[n] /\ hi[c] = n
            BY <6>1, <2>1, <1>5
          <6> QED BY <5>1, <6>2
        <5> QED BY <4>2, <5>2 DEF Hangs
      <4> QED BY <4>1, <4>2
    <3>3. Hangs(rg[n], n, hi[n], S, lo, hi)
      <4>1. CASE rg[n] = NULL
        BY <4>1, <3>1, <2>1, <1>3, <1>5, <1>6, <1>8 DEF Hangs
      <4>2. CASE rg[n] # NULL
        BY <4>2, <3>1, <2>1, <1>3, <1>5, <1>6 DEF Hangs
      <4> QED BY <4>1, <4>2
    <3> QED BY <3>2, <3>3
  <2>2. CASE n \in B
    <3>1. /\ Hangs(lf[n], lo2[n], n, B, lo2, hi2)
          /\ Hangs(rg[n], n, hi2[n], B, lo2, hi2)
      BY <2>2, <1>2 DEF Linked
    <3>2. Hangs(lf[n], lo[n], n, S, lo, hi)
      <4>1. CASE lf[n] = NULL
        BY <4>1, <3>1, <2>2, <1>3, <1>5, <1>6, <1>8 DEF Hangs
      <4>2. CASE lf[n] # NULL
        BY <4>2, <3>1, <2>2, <1>3, <1>5, <1>6 DEF Hangs
      <4> QED BY <4>1, <4>2
    <3>3. Hangs(rg[n], n, hi[n], S, lo, hi)
      <4>1. CASE rg[n] = NULL
        BY <4>1, <3>1, <2>2, <1>3, <1>5, <1>6, <1>8 DEF Hangs
      <4>2. CASE rg[n] # NULL
        <5>1. rg[n] \in B /\ lo2[rg[n]] = n /\ hi2[rg[n]] = hi2[n]
          BY <4>2, <3>1 DEF Hangs
        <5>2. rg[n] \in S /\ lo[rg[n]] = n /\ hi[rg[n]] = hi[n]
          <6>1. n # 0
            BY <2>2, <1>3, <1>6
          <6>2. \A c \in B : lo2[c] = n /\ hi2[c] = hi2[n] => c \in S /\ lo[c] = n /\ hi[c] = hi[n]
            BY <6>1, <2>2, <1>6
          <6> QED BY <5>1, <6>2
        <5> QED BY <4>2, <5>2 DEF Hangs
      <4> QED BY <4>1, <4>2
    <3> QED BY <3>2, <3>3
  <2>3. CASE n = q
    <3>1. Hangs(lf[q], 0, q, S, lo, hi)
      <4>1. CASE lf[q] = NULL
        BY <4>1, <1>1, <1>3, <1>5, <1>6, <1>8 DEF Hangs
      <4>2. CASE lf[q] # NULL
        BY <4>2, <1>1, <1>3, <1>5, <1>6 DEF Hangs
      <4> QED BY <4>1, <4>2
    <3>2. Hangs(rg[q], q, Limit, S, lo, hi)
      <4>1. CASE rg[q] = NULL
        BY <4>1, <1>2, <1>3, <1>5, <1>6, <1>8 DEF Hangs
      <4>2. CASE rg[q] # NULL
        BY <4>2, <1>2, <1>3, <1>5, <1>6 DEF Hangs
      <4> QED BY <4>1, <4>2
    <3> QED BY <2>3, <3>1, <3>2, <1>7
  <2> QED BY <2>1, <2>2, <2>3, <1>8
<1> QED BY <1>4, <1>9, <1>10, <1>11, <1>12 DEF IsTree

(* At the right of its largest node a tree can take larger ones.           *)
LEMMA GraftRight ==
  ASSUME NEW q, NEW S \in SUBSET Addr, NEW A \in SUBSET Addr,
         NEW lf \in Links, NEW rg \in Links, NEW p \in Addr \union {NULL}, NEW e \in S,
         IsTree(q, S, lf, rg), \A x \in S : x <= e,
         IsTree(p, A, lf, rg), \A x \in A : e < x
  PROVE  IsTree(q, S \union A, lf, [rg EXCEPT ![e] = p])
<1> DEFINE rgx == [rg EXCEPT ![e] = p]
           U == S \union A
<1>1. PICK lo1 \in Labels, hi1 \in Labels :
        /\ Hangs(q, 0, Limit, S, lo1, hi1) /\ Bounded(S, lo1, hi1)
        /\ Nested(S, lo1, hi1) /\ Linked(S, lf, rg, lo1, hi1)
  BY DEF IsTree
<1>2. PICK lo2 \in Labels, hi2 \in Labels :
        /\ Hangs(p, 0, Limit, A, lo2, hi2) /\ Bounded(A, lo2, hi2)
        /\ Nested(A, lo2, hi2) /\ Linked(A, lf, rg, lo2, hi2)
  BY DEF IsTree
<1> DEFINE lo == [n \in Addr |-> IF n <= e THEN lo1[n] ELSE IF lo2[n] = 0 THEN e ELSE lo2[n]]
           hi == [n \in Addr |-> IF n <= e THEN hi1[n] ELSE hi2[n]]
<1>3. /\ Limit \in Nat /\ e \in 1..(Limit - 1) /\ NULL = 0 \* keep
      /\ \A n \in Addr : n \in 1..(Limit - 1)
  BY MemoryAssumption DEF NULL
<1>4. lo \in Labels /\ hi \in Labels
  BY <1>3 DEF Labels
<1>5. \A n \in S : /\ n \in 1..(Limit - 1) /\ n <= e
                   /\ lo1[n] \in 0..Limit /\ hi1[n] \in 0..Limit
                   /\ lo1[n] < n /\ n < hi1[n]
                   /\ lo1[n] \in S \union {0} /\ hi1[n] \in S \union {Limit}
                   /\ lo[n] = lo1[n] /\ hi[n] = hi1[n]
  BY <1>1, <1>3 DEF Bounded, Labels
<1>6. \A n \in A : /\ n \in 1..(Limit - 1) /\ e < n
                   /\ lo2[n] \in 0..Limit /\ hi2[n] \in 0..Limit
                   /\ lo2[n] < n /\ n < hi2[n]
                   /\ lo2[n] \in A \union {0} /\ hi2[n] \in A \union {Limit}
                   /\ lo[n] = (IF lo2[n] = 0 THEN e ELSE lo2[n]) /\ hi[n] = hi2[n]
  BY <1>2, <1>3 DEF Bounded, Labels
<1>7. hi1[e] = Limit
  <2>1. hi1[e] \in S => hi1[e] <= e
    OBVIOUS
  <2>2. /\ e \in 1..(Limit - 1) /\ hi1[e] \in 0..Limit
        /\ e < hi1[e] /\ hi1[e] \in S \union {Limit}
    BY <1>5
  <2> QED BY <2>1, <2>2
<1>8. \A n \in S : hi1[n] <= e \/ hi1[n] = Limit
  BY <1>5
<1>9. rgx[e] = p /\ \A n \in Addr : n # e => rgx[n] = rg[n]
  BY DEF Links
<1>10. rgx \in Links
  BY DEF Links
<1> HIDE DEF lo, hi, U, rgx
<1>11. Bounded(U, lo, hi)
  <2> SUFFICES ASSUME NEW n \in U
               PROVE  /\ lo[n] < n /\ n < hi[n]
                      /\ lo[n] \in U \union {0} /\ hi[n] \in U \union {Limit}
    BY DEF Bounded
  <2>1. CASE n \in S
    BY <2>1, <1>3, <1>5 DEF U
  <2>2. CASE n \in A
    BY <2>2, <1>3, <1>5, <1>6 DEF U
  <2> QED BY <2>1, <2>2 DEF U
<1>12. Hangs(q, 0, Limit, U, lo, hi)
  <2>1. q # NULL
    BY <1>1, <1>3 DEF Hangs
  <2> QED BY <2>1, <1>1, <1>5 DEF Hangs, U
<1>13. Nested(U, lo, hi)
  <2> SUFFICES ASSUME NEW n \in U, NEW m \in U
               PROVE  /\ lo[n] < m /\ m < n => lo[n] <= lo[m] /\ hi[m] <= n
                      /\ n < m /\ m < hi[n] => n <= lo[m] /\ hi[m] <= hi[n]
    BY DEF Nested
  <2>1. CASE n \in S /\ m \in S
    BY <2>1, <1>1, <1>3, <1>5 DEF Nested
  <2>2. CASE n \in A /\ m \in A
    BY <2>2, <1>2, <1>3, <1>6 DEF Nested
  <2>3. CASE n \in S /\ m \in A
    BY <2>3, <1>3, <1>5, <1>6, <1>7, <1>8
  <2>4. CASE n \in A /\ m \in S
    BY <2>4, <1>3, <1>5, <1>6, <1>7, <1>8
  <2> QED BY <2>1, <2>2, <2>3, <2>4 DEF U
<1>14. /\ \A c \in S : \A a, b : lo1[c] = a /\ hi1[c] = b => c \in U /\ lo[c] = a /\ hi[c] = b
       /\ \A c \in A : /\ c \in U
                       /\ lo2[c] = 0 => lo[c] = e
                       /\ lo2[c] # 0 => lo[c] = lo2[c]
                       /\ hi[c] = hi2[c]
  BY <1>5, <1>6 DEF U
<1>15. Linked(U, lf, rgx, lo, hi)
  <2> SUFFICES ASSUME NEW n \in U
               PROVE  /\ Hangs(lf[n], lo[n], n, U, lo, hi)
                      /\ Hangs(rgx[n], n, hi[n], U, lo, hi)
    BY DEF Linked
  <2>1. CASE n \in S
    <3>1. /\ Hangs(lf[n], lo1[n], n, S, lo1, hi1)
          /\ Hangs(rg[n], n, hi1[n], S, lo1, hi1)
      BY <2>1, <1>1 DEF Linked
    <3>2. Hangs(lf[n], lo[n], n, U, lo, hi)
      <4>1. CASE lf[n] = NULL
        BY <4>1, <3>1, <2>1, <1>3, <1>5, <1>6 DEF Hangs, U
      <4>2. CASE lf[n] # NULL
        BY <4>2, <3>1, <2>1, <1>5, <1>14 DEF Hangs
      <4> QED BY <4>1, <4>2
    <3>3. CASE n # e
      <4>1. rgx[n] = rg[n]
        BY <3>3, <2>1, <1>9
      <4>2. CASE rg[n] = NULL
        <5>1. hi1[n] <= e
          BY <4>2, <3>3, <3>1, <2>1, <1>3, <1>5, <1>8 DEF Hangs
        <5>2. \A x \in S : ~(n < x /\ x < hi1[n])
          BY <4>2, <3>1 DEF Hangs
        <5>3. \A x \in U : ~(n < x /\ x < hi[n])
          BY <5>1, <5>2, <2>1, <1>3, <1>5, <1>6 DEF U
        <5>4. Hangs(rgx[n], n, hi[n], U, lo, hi)
          BY <5>3, <4>1, <4>2 DEF Hangs
        <5> QED BY <5>4, <3>2
      <4>3. CASE rg[n] # NULL
        <5>1. Hangs(rgx[n], n, hi[n], U, lo, hi)
          BY <4>3, <4>1, <3>1, <2>1, <1>5, <1>14 DEF Hangs
        <5> QED BY <5>1, <3>2
      <4> QED BY <4>2, <4>3
    <3>4. CASE n = e
      <4>1. rgx[e] = p
        BY <1>9
      <4>2. CASE p = NULL
        <5>1. A = {}
          BY <4>2, <1>2, <1>3 DEF Hangs
        <5>2. \A x \in U : ~(e < x)
          BY <5>1, <1>3, <1>5 DEF U
        <5>3. Hangs(rgx[n], n, hi[n], U, lo, hi)
          BY <4>1, <4>2, <5>2, <3>4 DEF Hangs
        <5> QED BY <5>3, <3>2
      <4>3. CASE p # NULL
        <5>1. p \in A /\ lo2[p] = 0 /\ hi2[p] = Limit
          BY <4>3, <1>2 DEF Hangs
        <5>2. p \in U /\ lo[p] = e /\ hi[p] = hi[e]
          BY <5>1, <1>5, <1>7, <1>14
        <5>3. Hangs(rgx[n], n, hi[n], U, lo, hi)
          BY <4>1, <4>3, <5>2, <3>4 DEF Hangs
        <5> QED BY <5>3, <3>2
      <4> QED BY <4>2, <4>3
    <3> QED BY <3>3, <3>4
  <2>2. CASE n \in A
    <3>1. /\ Hangs(lf[n], lo2[n], n, A, lo2, hi2)
          /\ Hangs(rg[n], n, hi2[n], A, lo2, hi2)
      BY <2>2, <1>2 DEF Linked
    <3>2. Hangs(lf[n], lo[n], n, U, lo, hi)
      <4>1. CASE lf[n] = NULL
        BY <4>1, <3>1, <2>2, <1>3, <1>5, <1>6 DEF Hangs, U
      <4>2. CASE lf[n] # NULL
        <5>1. lf[n] \in A /\ lo2[lf[n]] = lo2[n] /\ hi2[lf[n]] = n
          BY <4>2, <3>1 DEF Hangs
        <5>2. lf[n] \in U /\ lo[lf[n]] = lo[n] /\ hi[lf[n]] = n
          BY <5>1, <2>2, <1>14
        <5> QED BY <4>2, <5>2 DEF Hangs
      <4> QED BY <4>1, <4>2
    <3>3. rgx[n] = rg[n]
      BY <2>2, <1>3, <1>6, <1>9
    <3>4. Hangs(rg[n], n, hi[n], U, lo, hi)
      <4>1. CASE rg[n] = NULL
        BY <4>1, <3>1, <2>2, <1>3, <1>5, <1>6 DEF Hangs, U
      <4>2. CASE rg[n] # NULL
        <5>1. rg[n] \in A /\ lo2[rg[n]] = n /\ hi2[rg[n]] = hi2[n]
          BY <4>2, <3>1 DEF Hangs
        <5>2. n # 0
          BY <2>2, <1>3, <1>6
        <5>3. rg[n] \in U /\ lo[rg[n]] = n /\ hi[rg[n]] = hi[n]
          BY <5>1, <5>2, <2>2, <1>14
        <5> QED BY <4>2, <5>3 DEF Hangs
      <4> QED BY <4>1, <4>2
    <3> QED BY <3>2, <3>3, <3>4
  <2> QED BY <2>1, <2>2 DEF U
<1>16. IsTree(q, U, lf, rgx)
  BY <1>4, <1>11, <1>12, <1>13, <1>15 DEF IsTree
<1> QED BY <1>16 DEF U, rgx

(* At the left of its smallest node a tree can take smaller ones.         *)
LEMMA GraftLeft ==
  ASSUME NEW q, NEW S \in SUBSET Addr, NEW A \in SUBSET Addr,
         NEW lf \in Links, NEW rg \in Links, NEW p \in Addr \union {NULL}, NEW e \in S,
         IsTree(q, S, lf, rg), \A x \in S : x >= e,
         IsTree(p, A, lf, rg), \A x \in A : e > x
  PROVE  IsTree(q, S \union A, [lf EXCEPT ![e] = p], rg)
<1> DEFINE lfx == [lf EXCEPT ![e] = p]
           U == S \union A
<1>1. PICK hi1 \in Labels, lo1 \in Labels :
        /\ Hangs(q, 0, Limit, S, lo1, hi1) /\ Bounded(S, lo1, hi1)
        /\ Nested(S, lo1, hi1) /\ Linked(S, lf, rg, lo1, hi1)
  BY DEF IsTree
<1>2. PICK hi2 \in Labels, lo2 \in Labels :
        /\ Hangs(p, 0, Limit, A, lo2, hi2) /\ Bounded(A, lo2, hi2)
        /\ Nested(A, lo2, hi2) /\ Linked(A, lf, rg, lo2, hi2)
  BY DEF IsTree
<1> DEFINE hi == [n \in Addr |-> IF n >= e THEN hi1[n] ELSE IF hi2[n] = Limit THEN e ELSE hi2[n]]
           lo == [n \in Addr |-> IF n >= e THEN lo1[n] ELSE lo2[n]]
<1>3. /\ Limit \in Nat /\ e \in 1..(Limit - 1) /\ NULL = 0
      /\ \A n \in Addr : n \in 1..(Limit - 1)
  BY MemoryAssumption DEF NULL
<1>4. hi \in Labels /\ lo \in Labels
  BY <1>3 DEF Labels
<1>5. \A n \in S : /\ n \in 1..(Limit - 1) /\ n >= e
                   /\ hi1[n] \in 0..Limit /\ lo1[n] \in 0..Limit
                   /\ hi1[n] > n /\ n > lo1[n]
                   /\ hi1[n] \in S \union {Limit} /\ lo1[n] \in S \union {0}
                   /\ hi[n] = hi1[n] /\ lo[n] = lo1[n]
  BY <1>1, <1>3 DEF Bounded, Labels
<1>6. \A n \in A : /\ n \in 1..(Limit - 1) /\ e > n
                   /\ hi2[n] \in 0..Limit /\ lo2[n] \in 0..Limit
                   /\ hi2[n] > n /\ n > lo2[n]
                   /\ hi2[n] \in A \union {Limit} /\ lo2[n] \in A \union {0}
                   /\ hi[n] = (IF hi2[n] = Limit THEN e ELSE hi2[n]) /\ lo[n] = lo2[n]
  BY <1>2, <1>3 DEF Bounded, Labels
<1>7. lo1[e] = 0
  <2>1. lo1[e] \in S => lo1[e] >= e
    OBVIOUS
  <2>2. /\ e \in 1..(Limit - 1) /\ lo1[e] \in 0..Limit
        /\ e > lo1[e] /\ lo1[e] \in S \union {0}
    BY <1>5
  <2> QED BY <2>1, <2>2
<1>8. \A n \in S : lo1[n] >= e \/ lo1[n] = 0
  BY <1>5
<1>9. lfx[e] = p /\ \A n \in Addr : n # e => lfx[n] = lf[n]
  BY DEF Links
<1>10. lfx \in Links
  BY DEF Links
<1> HIDE DEF lo, hi, U, lfx
<1>11. Bounded(U, lo, hi)
  <2> SUFFICES ASSUME NEW n \in U
               PROVE  /\ hi[n] > n /\ n > lo[n]
                      /\ hi[n] \in U \union {Limit} /\ lo[n] \in U \union {0}
    BY DEF Bounded
  <2>1. CASE n \in S
    BY <2>1, <1>3, <1>5 DEF U
  <2>2. CASE n \in A
    BY <2>2, <1>3, <1>5, <1>6 DEF U
  <2> QED BY <2>1, <2>2 DEF U
<1>12. Hangs(q, 0, Limit, U, lo, hi)
  <2>1. q # NULL
    BY <1>1, <1>3 DEF Hangs
  <2> QED BY <2>1, <1>1, <1>5 DEF Hangs, U
<1>13. Nested(U, lo, hi)
  <2> SUFFICES ASSUME NEW n \in U, NEW m \in U
               PROVE  /\ hi[n] > m /\ m > n => hi[n] >= hi[m] /\ lo[m] >= n
                      /\ n > m /\ m > lo[n] => n >= hi[m] /\ lo[m] >= lo[n]
    BY DEF Nested
  <2>1. CASE n \in S /\ m \in S
    BY <2>1, <1>1, <1>3, <1>5 DEF Nested
  <2>2. CASE n \in A /\ m \in A
    BY <2>2, <1>2, <1>3, <1>6 DEF Nested
  <2>3. CASE n \in S /\ m \in A
    BY <2>3, <1>3, <1>5, <1>6, <1>7, <1>8
  <2>4. CASE n \in A /\ m \in S
    BY <2>4, <1>3, <1>5, <1>6, <1>7, <1>8
  <2> QED BY <2>1, <2>2, <2>3, <2>4 DEF U
<1>14. /\ \A c \in S : \A a, b : hi1[c] = a /\ lo1[c] = b => c \in U /\ hi[c] = a /\ lo[c] = b
       /\ \A c \in A : /\ c \in U
                       /\ hi2[c] = Limit => hi[c] = e
                       /\ hi2[c] # Limit => hi[c] = hi2[c]
                       /\ lo[c] = lo2[c]
  BY <1>5, <1>6 DEF U
<1>15. Linked(U, lfx, rg, lo, hi)
  <2> SUFFICES ASSUME NEW n \in U
               PROVE  /\ Hangs(rg[n], n, hi[n], U, lo, hi)
                      /\ Hangs(lfx[n], lo[n], n, U, lo, hi)
    BY DEF Linked
  <2>1. CASE n \in S
    <3>1. /\ Hangs(rg[n], n, hi1[n], S, lo1, hi1)
          /\ Hangs(lf[n], lo1[n], n, S, lo1, hi1)
      BY <2>1, <1>1 DEF Linked
    <3>2. Hangs(rg[n], n, hi[n], U, lo, hi)
      <4>1. CASE rg[n] = NULL
        BY <4>1, <3>1, <2>1, <1>3, <1>5, <1>6 DEF Hangs, U
      <4>2. CASE rg[n] # NULL
        BY <4>2, <3>1, <2>1, <1>5, <1>14 DEF Hangs
      <4> QED BY <4>1, <4>2
    <3>3. CASE n # e
      <4>1. lfx[n] = lf[n]
        BY <3>3, <2>1, <1>9
      <4>2. CASE lf[n] = NULL
        <5>1. lo1[n] >= e
          BY <4>2, <3>3, <3>1, <2>1, <1>3, <1>5, <1>8 DEF Hangs
        <5>2. \A x \in S : ~(n > x /\ x > lo1[n])
          BY <4>2, <3>1 DEF Hangs
        <5>3. \A x \in U : ~(n > x /\ x > lo[n])
          BY <5>1, <5>2, <2>1, <1>3, <1>5, <1>6 DEF U
        <5>4. Hangs(lfx[n], lo[n], n, U, lo, hi)
          BY <5>3, <4>1, <4>2 DEF Hangs
        <5> QED BY <5>4, <3>2
      <4>3. CASE lf[n] # NULL
        <5>1. Hangs(lfx[n], lo[n], n, U, lo, hi)
          BY <4>3, <4>1, <3>1, <2>1, <1>5, <1>14 DEF Hangs
        <5> QED BY <5>1, <3>2
      <4> QED BY <4>2, <4>3
    <3>4. CASE n = e
      <4>1. lfx[e] = p
        BY <1>9
      <4>2. CASE p = NULL
        <5>1. A = {}
          BY <4>2, <1>2, <1>3 DEF Hangs
        <5>2. \A x \in U : ~(e > x)
          BY <5>1, <1>3, <1>5 DEF U
        <5>3. Hangs(lfx[n], lo[n], n, U, lo, hi)
          BY <4>1, <4>2, <5>2, <3>4 DEF Hangs
        <5> QED BY <5>3, <3>2
      <4>3. CASE p # NULL
        <5>1. p \in A /\ hi2[p] = Limit /\ lo2[p] = 0
          BY <4>3, <1>2 DEF Hangs
        <5>2. p \in U /\ hi[p] = e /\ lo[p] = lo[e]
          BY <5>1, <1>5, <1>7, <1>14
        <5>3. Hangs(lfx[n], lo[n], n, U, lo, hi)
          BY <4>1, <4>3, <5>2, <3>4 DEF Hangs
        <5> QED BY <5>3, <3>2
      <4> QED BY <4>2, <4>3
    <3> QED BY <3>3, <3>4
  <2>2. CASE n \in A
    <3>1. /\ Hangs(rg[n], n, hi2[n], A, lo2, hi2)
          /\ Hangs(lf[n], lo2[n], n, A, lo2, hi2)
      BY <2>2, <1>2 DEF Linked
    <3>2. Hangs(rg[n], n, hi[n], U, lo, hi)
      <4>1. CASE rg[n] = NULL
        BY <4>1, <3>1, <2>2, <1>3, <1>5, <1>6 DEF Hangs, U
      <4>2. CASE rg[n] # NULL
        <5>1. rg[n] \in A /\ hi2[rg[n]] = hi2[n] /\ lo2[rg[n]] = n
          BY <4>2, <3>1 DEF Hangs
        <5>2. rg[n] \in U /\ hi[rg[n]] = hi[n] /\ lo[rg[n]] = n
          BY <5>1, <2>2, <1>14
        <5> QED BY <4>2, <5>2 DEF Hangs
      <4> QED BY <4>1, <4>2
    <3>3. lfx[n] = lf[n]
      BY <2>2, <1>3, <1>6, <1>9
    <3>4. Hangs(lf[n], lo[n], n, U, lo, hi)
      <4>1. CASE lf[n] = NULL
        BY <4>1, <3>1, <2>2, <1>3, <1>5, <1>6 DEF Hangs, U
      <4>2. CASE lf[n] # NULL
        <5>1. lf[n] \in A /\ hi2[lf[n]] = n /\ lo2[lf[n]] = lo2[n]
          BY <4>2, <3>1 DEF Hangs
        <5>2. n # Limit
          BY <2>2, <1>3, <1>6
        <5>3. lf[n] \in U /\ hi[lf[n]] = n /\ lo[lf[n]] = lo[n]
          BY <5>1, <5>2, <2>2, <1>14
        <5> QED BY <4>2, <5>3 DEF Hangs
      <4> QED BY <4>1, <4>2
    <3> QED BY <3>2, <3>3, <3>4
  <2> QED BY <2>1, <2>2 DEF U
<1>16. IsTree(q, U, lfx, rg)
  BY <1>4, <1>11, <1>12, <1>13, <1>15 DEF IsTree
<1> QED BY <1>16 DEF U, lfx

(* Turning a tree to the right at its root.                                *)
LEMMA TurnRight ==
  ASSUME NEW q \in Addr, NEW S \in SUBSET Addr, NEW lf \in Links, NEW rg \in Links,
         IsTree(q, S, lf, rg), NEW y \in Addr, lf[q] = y
  PROVE  /\ y \in S /\ y < q
         /\ IsTree(y, S, [lf EXCEPT ![q] = rg[y]], [rg EXCEPT ![y] = q])
<1> DEFINE lfx == [lf EXCEPT ![q] = rg[y]]
           rgx == [rg EXCEPT ![y] = q]
           A == Less(S, q)
           B == More(S, y)
<1>1. q # NULL /\ y # NULL /\ N \notin Addr /\ \A n \in Addr : n \in Int
  BY MemoryAssumption DEF NULL, N
<1>2. q \in S /\ IsTree(y, A, lf, rg) /\ IsTree(rg[q], More(S, q), lf, rg)
  BY <1>1, TreeRoot, LeftPart, RightPart
<1>3. y \in A
  <2>1. A \in SUBSET Addr
    BY DEF Less
  <2> QED BY <2>1, <1>1, <1>2, TreeRoot
<1>4. IsTree(lf[y], Less(A, y), lf, rg) /\ IsTree(rg[y], More(A, y), lf, rg)
  <2>1. A \in SUBSET Addr
    BY DEF Less
  <2> QED BY <2>1, <1>2, LeftPart, RightPart
<1>5. /\ Less(A, y) = Less(S, y)
      /\ More(A, y) = Less(B, q)
      /\ More(B, q) = More(S, q)
  BY <1>1, <1>3 DEF Less, More
<1>6. /\ lfx \in Links /\ rgx \in Links
      /\ lfx[q] = rg[y] /\ \A n \in Addr : n # q => lfx[n] = lf[n]
      /\ rgx[y] = q /\ \A n \in Addr : n # y => rgx[n] = rg[n]
  BY DEF Links
<1>7. y \in S /\ y < q
  BY <1>3 DEF Less
<1> HIDE DEF lfx, rgx
<1>8. IsTree(lfx[y], Less(S, y), lfx, rgx)
  <2>1. \A n \in Less(S, y) : lfx[n] = lf[n] /\ rgx[n] = rg[n]
    BY <1>1, <1>6, <1>7 DEF Less, More
  <2>2. lfx[y] = lf[y] /\ Less(S, y) \in SUBSET Addr
    BY <1>1, <1>6, <1>7 DEF Less
  <2> QED BY <2>1, <2>2, <1>4, <1>5, <1>6, SameLinks
<1>9. IsTree(lfx[q], Less(B, q), lfx, rgx)
  <2>1. \A n \in Less(B, q) : lfx[n] = lf[n] /\ rgx[n] = rg[n]
    BY <1>1, <1>6, <1>7 DEF Less, More
  <2>2. Less(B, q) \in SUBSET Addr
    BY DEF Less, More
  <2> QED BY <2>1, <2>2, <1>4, <1>5, <1>6, SameLinks
<1>10. IsTree(rgx[q], More(B, q), lfx, rgx)
  <2>1. \A n \in More(S, q) : lfx[n] = lf[n] /\ rgx[n] = rg[n]
    BY <1>1, <1>6, <1>7 DEF Less, More
  <2>2. rgx[q] = rg[q] /\ More(S, q) \in SUBSET Addr
    BY <1>6, <1>7, <1>1 DEF More
  <2> QED BY <2>1, <2>2, <1>2, <1>5, <1>6, SameLinks
<1>11. IsTree(q, B, lfx, rgx)
  <2>1. B \in SUBSET Addr /\ q \in B
    BY <1>2, <1>7, <1>1 DEF More
  <2> QED BY <2>1, <1>6, <1>9, <1>10, Compose
<1>12. IsTree(y, S, lfx, rgx)
  <2>1. IsTree(rgx[y], More(S, y), lfx, rgx)
    BY <1>11, <1>6
  <2> QED BY <2>1, <1>6, <1>7, <1>8, Compose
<1> QED BY <1>7, <1>12 DEF lfx, rgx

(* Turning a tree to the left at its root.                                *)
LEMMA TurnLeft ==
  ASSUME NEW q \in Addr, NEW S \in SUBSET Addr, NEW lf \in Links, NEW rg \in Links,
         IsTree(q, S, lf, rg), NEW y \in Addr, rg[q] = y
  PROVE  /\ y \in S /\ y > q
         /\ IsTree(y, S, [lf EXCEPT ![y] = q], [rg EXCEPT ![q] = lf[y]])
<1> DEFINE rgx == [rg EXCEPT ![q] = lf[y]]
           lfx == [lf EXCEPT ![y] = q]
           A == More(S, q)
           B == Less(S, y)
<1>1. q # NULL /\ y # NULL /\ N \notin Addr /\ \A n \in Addr : n \in Int
  BY MemoryAssumption DEF NULL, N
<1>2. q \in S /\ IsTree(y, A, lf, rg) /\ IsTree(lf[q], Less(S, q), lf, rg)
  BY <1>1, TreeRoot, RightPart, LeftPart
<1>3. y \in A
  <2>1. A \in SUBSET Addr
    BY DEF More
  <2> QED BY <2>1, <1>1, <1>2, TreeRoot
<1>4. IsTree(rg[y], More(A, y), lf, rg) /\ IsTree(lf[y], Less(A, y), lf, rg)
  <2>1. A \in SUBSET Addr
    BY DEF More
  <2> QED BY <2>1, <1>2, RightPart, LeftPart
<1>5. /\ More(A, y) = More(S, y)
      /\ Less(A, y) = More(B, q)
      /\ Less(B, q) = Less(S, q)
  BY <1>1, <1>3 DEF More, Less
<1>6. /\ rgx \in Links /\ lfx \in Links
      /\ rgx[q] = lf[y] /\ \A n \in Addr : n # q => rgx[n] = rg[n]
      /\ lfx[y] = q /\ \A n \in Addr : n # y => lfx[n] = lf[n]
  BY DEF Links
<1>7. y \in S /\ y > q
  BY <1>3 DEF More
<1> HIDE DEF lfx, rgx
<1>8. IsTree(rgx[y], More(S, y), lfx, rgx)
  <2>1. \A n \in More(S, y) : rgx[n] = rg[n] /\ lfx[n] = lf[n]
    BY <1>1, <1>6, <1>7 DEF More, Less
  <2>2. rgx[y] = rg[y] /\ More(S, y) \in SUBSET Addr
    BY <1>1, <1>6, <1>7 DEF More
  <2> QED BY <2>1, <2>2, <1>4, <1>5, <1>6, SameLinks
<1>9. IsTree(rgx[q], More(B, q), lfx, rgx)
  <2>1. \A n \in More(B, q) : rgx[n] = rg[n] /\ lfx[n] = lf[n]
    BY <1>1, <1>6, <1>7 DEF More, Less
  <2>2. More(B, q) \in SUBSET Addr
    BY DEF More, Less
  <2> QED BY <2>1, <2>2, <1>4, <1>5, <1>6, SameLinks
<1>10. IsTree(lfx[q], Less(B, q), lfx, rgx)
  <2>1. \A n \in Less(S, q) : rgx[n] = rg[n] /\ lfx[n] = lf[n]
    BY <1>1, <1>6, <1>7 DEF More, Less
  <2>2. lfx[q] = lf[q] /\ Less(S, q) \in SUBSET Addr
    BY <1>6, <1>7, <1>1 DEF Less
  <2> QED BY <2>1, <2>2, <1>2, <1>5, <1>6, SameLinks
<1>11. IsTree(q, B, lfx, rgx)
  <2>1. B \in SUBSET Addr /\ q \in B
    BY <1>2, <1>7, <1>1 DEF Less
  <2> QED BY <2>1, <1>6, <1>9, <1>10, Compose
<1>12. IsTree(y, S, lfx, rgx)
  <2>1. IsTree(lfx[y], Less(S, y), lfx, rgx)
    BY <1>11, <1>6
  <2> QED BY <2>1, <1>6, <1>7, <1>8, Compose
<1> QED BY <1>7, <1>12 DEF lfx, rgx

(* Below N, or below its largest node e, a tree whose link at the right is *)
(* open takes another one.                                                 *)
LEMMA FillRight ==
  ASSUME NEW S \in SUBSET Addr, NEW A \in SUBSET Addr,
         NEW lf \in Links, NEW rg \in Links, NEW e \in S \union {N},
         e = N => S = {}, e # N => \A x \in S : x <= e, \A x \in A : x > e \/ e = N,
         NEW p \in Addr \union {NULL}, IsTree(p, A, lf, rg),
         IsTree(Cut(rg, e)[N], S, lf, Cut(rg, e))
  PROVE  IsTree([rg EXCEPT ![e] = p][N], S \union A, lf, [rg EXCEPT ![e] = p])
<1> DEFINE rgx == [rg EXCEPT ![e] = p]
<1>1. N \notin Addr /\ \A n \in Addr : n \in Int
  BY MemoryAssumption DEF N
<1>2. /\ rgx \in Links /\ rgx[e] = p
      /\ \A n \in Addr \union {N} : n # e => rgx[n] = rg[n]
      /\ Cut(rg, e) \in Links
      /\ \A n \in Addr \union {N} : n # e => Cut(rg, e)[n] = rg[n]
      /\ rgx = [Cut(rg, e) EXCEPT ![e] = p]
  BY DEF Cut, Links, NULL
<1>3. CASE e = N
  <2>1. S \union A = A
    BY <1>3
  <2>2. \A n \in A : lf[n] = lf[n] /\ rgx[n] = rg[n]
    BY <1>1, <1>2, <1>3
  <2> HIDE DEF rgx
  <2>3. IsTree(p, A, lf, rgx)
    <3>1. \A g \in Links : (\A n \in A : lf[n] = lf[n] /\ g[n] = rg[n])
                             => IsTree(p, A, lf, g)
      BY SameLinks
    <3> QED BY <2>2, <3>1, <1>2
  <2> QED BY <2>1, <2>3, <1>2, <1>3 DEF rgx
<1>4. CASE e # N
  <2>1. e \in S /\ \A x \in A : e < x
    BY <1>1, <1>4
  <2>2. \A n \in A : lf[n] = lf[n] /\ Cut(rg, e)[n] = rg[n]
    BY <2>1, <1>1, <1>2
  <2>3. IsTree(p, A, lf, Cut(rg, e))
    BY <2>2, <1>2, SameLinks
  <2>4. Cut(rg, e)[N] = rgx[N]
    BY <1>2, <1>4
  <2> HIDE DEF rgx
  <2>5. IsTree(Cut(rg, e)[N], S \union A, lf, [Cut(rg, e) EXCEPT ![e] = p])
    BY <2>1, <2>3, <1>2, <1>4, GraftRight
  <2> QED BY <2>4, <2>5, <1>2 DEF rgx
<1> QED BY <1>3, <1>4

(* A link of the loop at the left: the root q of the middle part, with     *)
(* what is at its left, is put at the open link, and its own right link is *)
(* open then.                                                              *)
LEMMA PutRight ==
  ASSUME NEW S \in SUBSET Addr, NEW A \in SUBSET Addr,
         NEW lf \in Links, NEW rg \in Links, NEW e \in S \union {N},
         e = N => S = {}, e # N => \A x \in S : x <= e, \A x \in A : x > e \/ e = N,
         NEW q \in A, IsTree(q, A, lf, rg),
         IsTree(Cut(rg, e)[N], S, lf, Cut(rg, e)), NEW rg1, rg1 = [rg EXCEPT ![e] = q]
  PROVE  /\ IsTree(Cut(rg1, q)[N], S \union {x \in A : x <= q}, lf, Cut(rg1, q))
         /\ IsTree(rg1[q], More(A, q), lf, rg1)
<1> DEFINE rgq == Cut(rg, q)
           U == {x \in A : x <= q}
<1>1. /\ N \notin Addr /\ NULL \notin Addr /\ \A n \in Addr : n \in Int
      /\ q \in Addr /\ q # N /\ q # e
  BY MemoryAssumption DEF N, NULL
<1>2. q \notin S
  <2>1. CASE e = N
    BY <2>1
  <2>2. CASE e # N
    BY <2>2, <1>1
  <2> QED BY <2>1, <2>2
<1>3. /\ rgq \in Links /\ rgq[q] = NULL
      /\ \A n \in Addr \union {N} : n # q => rgq[n] = rg[n]
      /\ Cut(rg, e) \in Links /\ Cut(rg, e)[e] = NULL
      /\ \A n \in Addr \union {N} : n # e => Cut(rg, e)[n] = rg[n]
      /\ Cut(rgq, e) \in Links /\ Cut(rgq, e)[e] = NULL
      /\ \A n \in Addr \union {N} : n # e => Cut(rgq, e)[n] = rgq[n]
      /\ rg1[e] = q /\ \A n \in Addr \union {N} : n # e => rg1[n] = rg[n]
  BY <1>1 DEF Cut, Links
<1>4. [rgq EXCEPT ![e] = q] = Cut(rg1, q)
  BY <1>1 DEF Cut, Links
<1>5. U \in SUBSET Addr /\ q \in U /\ Less(U, q) = Less(A, q) /\ More(U, q) = {}
  BY <1>1 DEF Less, More
<1> HIDE DEF rgq, U
<1>6. IsTree(q, U, lf, rgq)
  <2>1. IsTree(lf[q], Less(A, q), lf, rg)
    BY <1>1, LeftPart
  <2>2. \A n \in Less(A, q) : lf[n] = lf[n] /\ rgq[n] = rg[n]
    BY <1>1, <1>3 DEF Less
  <2>3. Less(A, q) \in SUBSET Addr
    BY DEF Less
  <2>4. IsTree(lf[q], Less(U, q), lf, rgq)
    BY <2>1, <2>2, <2>3, <1>3, <1>5, SameLinks
  <2>5. IsTree(rgq[q], More(U, q), lf, rgq)
    BY <1>3, <1>5, EmptyTree
  <2> QED BY <2>4, <2>5, <1>3, <1>5, Compose
<1>7. IsTree(Cut(rgq, e)[N], S, lf, Cut(rgq, e))
  <2>1. \A n \in S \union {N} : Cut(rgq, e)[n] = Cut(rg, e)[n]
    BY <1>1, <1>2, <1>3
  <2>2. \A n \in S : lf[n] = lf[n] /\ Cut(rgq, e)[n] = Cut(rg, e)[n]
    BY <2>1
  <2>3. IsTree(Cut(rg, e)[N], S, lf, Cut(rgq, e))
    BY <2>2, <1>3, SameLinks
  <2> QED BY <2>1, <2>3
<1>8. \A x \in U : x > e \/ e = N
  BY DEF U
<1>9. IsTree([rgq EXCEPT ![e] = q][N], S \union U, lf, [rgq EXCEPT ![e] = q])
  BY <1>1, <1>3, <1>5, <1>6, <1>7, <1>8, FillRight
<1>10. IsTree(rg1[q], More(A, q), lf, rg1)
  <2>1. IsTree(rg[q], More(A, q), lf, rg)
    BY <1>1, RightPart
  <2>2. \A n \in More(A, q) : lf[n] = lf[n] /\ rg1[n] = rg[n]
    <3>1. CASE e = N
      BY <3>1, <1>1, <1>3 DEF More
    <3>2. CASE e # N
      BY <3>2, <1>1, <1>3 DEF More
    <3> QED BY <3>1, <3>2
  <2>3. More(A, q) \in SUBSET Addr /\ rg1[q] = rg[q]
    BY <1>1, <1>3 DEF More
  <2>4. IsTree(rg[q], More(A, q), lf, rg1)
    <3>1. rg1 \in Links
      BY <1>1 DEF Links
    <3>2. \A g \in Links : (\A n \in More(A, q) : lf[n] = lf[n] /\ g[n] = rg[n])
                             => IsTree(rg[q], More(A, q), lf, g)
      BY <2>1, <2>3, SameLinks
    <3> QED BY <2>2, <3>1, <3>2
  <2> QED BY <2>3, <2>4
<1> QED BY <1>4, <1>9, <1>10 DEF U

(* Below N, or below its largest node e, a tree whose link at the left is *)
(* open takes another one.                                                 *)
LEMMA FillLeft ==
  ASSUME NEW S \in SUBSET Addr, NEW A \in SUBSET Addr,
         NEW lf \in Links, NEW rg \in Links, NEW e \in S \union {N},
         e = N => S = {}, e # N => \A x \in S : x >= e, \A x \in A : x < e \/ e = N,
         NEW p \in Addr \union {NULL}, IsTree(p, A, lf, rg),
         IsTree(Cut(lf, e)[N], S, Cut(lf, e), rg)
  PROVE  IsTree([lf EXCEPT ![e] = p][N], S \union A, [lf EXCEPT ![e] = p], rg)
<1> DEFINE lfx == [lf EXCEPT ![e] = p]
<1>1. N \notin Addr /\ \A n \in Addr : n \in Int
  BY MemoryAssumption DEF N
<1>2. /\ lfx \in Links /\ lfx[e] = p
      /\ \A n \in Addr \union {N} : n # e => lfx[n] = lf[n]
      /\ Cut(lf, e) \in Links
      /\ \A n \in Addr \union {N} : n # e => Cut(lf, e)[n] = lf[n]
      /\ lfx = [Cut(lf, e) EXCEPT ![e] = p]
  BY DEF Cut, Links, NULL
<1>3. CASE e = N
  <2>1. S \union A = A
    BY <1>3
  <2>2. \A n \in A : rg[n] = rg[n] /\ lfx[n] = lf[n]
    BY <1>1, <1>2, <1>3
  <2> HIDE DEF lfx
  <2>3. IsTree(p, A, lfx, rg)
    <3>1. \A g \in Links : (\A n \in A : rg[n] = rg[n] /\ g[n] = lf[n])
                             => IsTree(p, A, g, rg)
      BY SameLinks
    <3> QED BY <2>2, <3>1, <1>2
  <2> QED BY <2>1, <2>3, <1>2, <1>3 DEF lfx
<1>4. CASE e # N
  <2>1. e \in S /\ \A x \in A : e > x
    BY <1>1, <1>4
  <2>2. \A n \in A : rg[n] = rg[n] /\ Cut(lf, e)[n] = lf[n]
    BY <2>1, <1>1, <1>2
  <2>3. IsTree(p, A, Cut(lf, e), rg)
    BY <2>2, <1>2, SameLinks
  <2>4. Cut(lf, e)[N] = lfx[N]
    BY <1>2, <1>4
  <2> HIDE DEF lfx
  <2>5. IsTree(Cut(lf, e)[N], S \union A, [Cut(lf, e) EXCEPT ![e] = p], rg)
    BY <2>1, <2>3, <1>2, <1>4, GraftLeft
  <2> QED BY <2>4, <2>5, <1>2 DEF lfx
<1> QED BY <1>3, <1>4

(* A link of the loop at the right: the root q of the middle part, with     *)
(* what is at its right, is put at the open link, and its own left link is *)
(* open then.                                                              *)
LEMMA PutLeft ==
  ASSUME NEW S \in SUBSET Addr, NEW A \in SUBSET Addr,
         NEW lf \in Links, NEW rg \in Links, NEW e \in S \union {N},
         e = N => S = {}, e # N => \A x \in S : x >= e, \A x \in A : x < e \/ e = N,
         NEW q \in A, IsTree(q, A, lf, rg),
         IsTree(Cut(lf, e)[N], S, Cut(lf, e), rg), NEW lf1, lf1 = [lf EXCEPT ![e] = q]
  PROVE  /\ IsTree(Cut(lf1, q)[N], S \union {x \in A : x >= q}, Cut(lf1, q), rg)
         /\ IsTree(lf1[q], Less(A, q), lf1, rg)
<1> DEFINE lfq == Cut(lf, q)
           U == {x \in A : x >= q}
<1>1. /\ N \notin Addr /\ NULL \notin Addr /\ \A n \in Addr : n \in Int
      /\ q \in Addr /\ q # N /\ q # e
  BY MemoryAssumption DEF N, NULL
<1>2. q \notin S
  <2>1. CASE e = N
    BY <2>1
  <2>2. CASE e # N
    BY <2>2, <1>1
  <2> QED BY <2>1, <2>2
<1>3. /\ lfq \in Links /\ lfq[q] = NULL
      /\ \A n \in Addr \union {N} : n # q => lfq[n] = lf[n]
      /\ Cut(lf, e) \in Links /\ Cut(lf, e)[e] = NULL
      /\ \A n \in Addr \union {N} : n # e => Cut(lf, e)[n] = lf[n]
      /\ Cut(lfq, e) \in Links /\ Cut(lfq, e)[e] = NULL
      /\ \A n \in Addr \union {N} : n # e => Cut(lfq, e)[n] = lfq[n]
      /\ lf1[e] = q /\ \A n \in Addr \union {N} : n # e => lf1[n] = lf[n]
  BY <1>1 DEF Cut, Links
<1>4. [lfq EXCEPT ![e] = q] = Cut(lf1, q)
  BY <1>1 DEF Cut, Links
<1>5. U \in SUBSET Addr /\ q \in U /\ More(U, q) = More(A, q) /\ Less(U, q) = {}
  BY <1>1 DEF More, Less
<1> HIDE DEF lfq, U
<1>6. IsTree(q, U, lfq, rg)
  <2>1. IsTree(rg[q], More(A, q), lf, rg)
    BY <1>1, RightPart
  <2>2. \A n \in More(A, q) : rg[n] = rg[n] /\ lfq[n] = lf[n]
    BY <1>1, <1>3 DEF More
  <2>3. More(A, q) \in SUBSET Addr
    BY DEF More
  <2>4. IsTree(rg[q], More(U, q), lfq, rg)
    BY <2>1, <2>2, <2>3, <1>3, <1>5, SameLinks
  <2>5. IsTree(lfq[q], Less(U, q), lfq, rg)
    BY <1>3, <1>5, EmptyTree
  <2> QED BY <2>4, <2>5, <1>3, <1>5, Compose
<1>7. IsTree(Cut(lfq, e)[N], S, Cut(lfq, e), rg)
  <2>1. \A n \in S \union {N} : Cut(lfq, e)[n] = Cut(lf, e)[n]
    BY <1>1, <1>2, <1>3
  <2>2. \A n \in S : rg[n] = rg[n] /\ Cut(lfq, e)[n] = Cut(lf, e)[n]
    BY <2>1
  <2>3. IsTree(Cut(lf, e)[N], S, Cut(lfq, e), rg)
    BY <2>2, <1>3, SameLinks
  <2> QED BY <2>1, <2>3
<1>8. \A x \in U : x < e \/ e = N
  BY DEF U
<1>9. IsTree([lfq EXCEPT ![e] = q][N], S \union U, [lfq EXCEPT ![e] = q], rg)
  BY <1>1, <1>3, <1>5, <1>6, <1>7, <1>8, FillLeft
<1>10. IsTree(lf1[q], Less(A, q), lf1, rg)
  <2>1. IsTree(lf[q], Less(A, q), lf, rg)
    BY <1>1, LeftPart
  <2>2. \A n \in Less(A, q) : rg[n] = rg[n] /\ lf1[n] = lf[n]
    <3>1. CASE e = N
      BY <3>1, <1>1, <1>3 DEF Less
    <3>2. CASE e # N
      BY <3>2, <1>1, <1>3 DEF Less
    <3> QED BY <3>1, <3>2
  <2>3. Less(A, q) \in SUBSET Addr /\ lf1[q] = lf[q]
    BY <1>1, <1>3 DEF Less
  <2>4. IsTree(lf[q], Less(A, q), lf1, rg)
    <3>1. lf1 \in Links
      BY <1>1 DEF Links
    <3>2. \A g \in Links : (\A n \in Less(A, q) : rg[n] = rg[n] /\ g[n] = lf[n])
                             => IsTree(lf[q], Less(A, q), g, rg)
      BY <2>1, <2>3, SameLinks
    <3> QED BY <2>2, <3>1, <3>2
  <2> QED BY <2>3, <2>4
<1> QED BY <1>4, <1>9, <1>10 DEF U

(* A root with its two halves, each a tree by links of its own.            *)
LEMMA Halves ==
  ASSUME NEW U \in SUBSET Addr, NEW q \in U,
         NEW lf \in Links, NEW rg \in Links, NEW lf1 \in Links, NEW rg1 \in Links,
         NEW lf2 \in Links, NEW rg2 \in Links,
         IsTree(lf2[q], Less(U, q), lf, rg1), IsTree(rg2[q], More(U, q), lf1, rg),
         \A n \in Less(U, q) : lf2[n] = lf[n] /\ rg2[n] = rg1[n],
         \A n \in More(U, q) : lf2[n] = lf1[n] /\ rg2[n] = rg[n]
  PROVE  IsTree(q, U, lf2, rg2)
<1>1. Less(U, q) \in SUBSET Addr /\ More(U, q) \in SUBSET Addr
  BY DEF Less, More
<1>2. IsTree(lf2[q], Less(U, q), lf2, rg2)
  BY <1>1, SameLinks
<1>3. IsTree(rg2[q], More(U, q), lf2, rg2)
  BY <1>1, SameLinks
<1> QED BY <1>2, <1>3, Compose

(* The three parts of the loop, put together.                              *)
LEMMA Assembly ==
  ASSUME NEW L \in SUBSET Addr, NEW M \in SUBSET Addr, NEW R \in SUBSET Addr,
         NEW lf \in Links, NEW rg \in Links,
         NEW e \in L \union {N}, e = N => L = {}, e # N => \A x \in L : x <= e,
         NEW f \in R \union {N}, f = N => R = {}, f # N => \A x \in R : x >= f,
         \A x \in L, y \in M : x < y, \A x \in M, y \in R : x < y,
         NEW q \in M, IsTree(q, M, lf, rg),
         IsTree(Cut(rg, e)[N], L, lf, Cut(rg, e)),
         IsTree(Cut(lf, f)[N], R, Cut(lf, f), rg)
  PROVE  LET rg1 == [rg EXCEPT ![e] = lf[q]]
             lf1 == [lf EXCEPT ![f] = rg[q]]
             lf2 == [lf1 EXCEPT ![q] = rg1[N], ![N] = NULL]
             rg2 == [rg1 EXCEPT ![q] = lf1[N], ![N] = NULL]
         IN lf2 \in Links /\ rg2 \in Links /\ IsTree(q, L \union M \union R, lf2, rg2)
<1> DEFINE rg1 == [rg EXCEPT ![e] = lf[q]]
           lf1 == [lf EXCEPT ![f] = rg[q]]
           lf2 == [lf1 EXCEPT ![q] = rg1[N], ![N] = NULL]
           rg2 == [rg1 EXCEPT ![q] = lf1[N], ![N] = NULL]
           U == L \union M \union R
           A == L \union Less(M, q)
           B == R \union More(M, q)
<1>1. /\ N \notin Addr /\ NULL \notin Addr /\ \A n \in Addr : n \in Int
      /\ q \in Addr /\ q # N
  BY MemoryAssumption DEF N, NULL
<1>2. \A x \in L, y \in R : x < q /\ q < y /\ x < y
  BY <1>1
<1>3. /\ e # q /\ f # q
      /\ \A n \in A : n # q /\ n # f
      /\ \A n \in B : n # q /\ n # e
  BY <1>1, <1>2 DEF Less, More
<1>4. /\ rg1 \in Links /\ lf1 \in Links /\ rg2 \in Links /\ lf2 \in Links
      /\ \A n \in Addr : n # e => rg1[n] = rg[n]
      /\ \A n \in Addr : n # f => lf1[n] = lf[n]
      /\ \A n \in Addr : n # q => rg2[n] = rg1[n] /\ lf2[n] = lf1[n]
      /\ lf2[q] = rg1[N] /\ rg2[q] = lf1[N]
  BY <1>1 DEF Links
<1>5. A = Less(U, q) /\ B = More(U, q) /\ A \in SUBSET Addr /\ B \in SUBSET Addr
  BY <1>1, <1>2 DEF Less, More
<1>6. /\ IsTree(lf[q], Less(M, q), lf, rg) /\ IsTree(rg[q], More(M, q), lf, rg)
      /\ Less(M, q) \in SUBSET Addr /\ More(M, q) \in SUBSET Addr
      /\ lf[q] \in Addr \union {NULL} /\ rg[q] \in Addr \union {NULL}
  BY <1>1, LeftPart, RightPart DEF Less, More, Links
<1>7. IsTree(rg1[N], A, lf, rg1)
  <2>1. \A x \in Less(M, q) : x > e \/ e = N
    BY <1>1 DEF Less
  <2>2. IsTree([rg EXCEPT ![e] = lf[q]][N], A, lf, [rg EXCEPT ![e] = lf[q]])
    BY <2>1, <1>6, FillRight
  <2> QED BY <2>2
<1>8. IsTree(lf1[N], B, lf1, rg)
  <2>1. \A x \in More(M, q) : f > x \/ f = N
    BY <1>1 DEF More
  <2>2. IsTree([lf EXCEPT ![f] = rg[q]][N], B, [lf EXCEPT ![f] = rg[q]], rg)
    BY <2>1, <1>6, FillLeft
  <2> QED BY <2>2
<1> HIDE DEF A, B, lf1, rg1, lf2, rg2
<1>9. \A n \in A : lf2[n] = lf[n] /\ rg2[n] = rg1[n]
  BY <1>1, <1>3, <1>4, <1>5
<1>10. \A n \in B : lf2[n] = lf1[n] /\ rg2[n] = rg[n]
  BY <1>1, <1>3, <1>4, <1>5
<1> HIDE DEF U
<1>11. IsTree(q, U, lf2, rg2)
  <2>1. U \in SUBSET Addr /\ q \in U
    BY DEF U
  <2>2. /\ IsTree(lf2[q], Less(U, q), lf, rg1) /\ IsTree(rg2[q], More(U, q), lf1, rg)
        /\ \A n \in Less(U, q) : lf2[n] = lf[n] /\ rg2[n] = rg1[n]
        /\ \A n \in More(U, q) : lf2[n] = lf1[n] /\ rg2[n] = rg[n]
    BY <1>4, <1>5, <1>7, <1>8, <1>9, <1>10
  <2> QED BY <2>1, <2>2, <1>4, Halves
<1> QED BY <1>4, <1>11 DEF U, lf1, rg1, lf2, rg2

-----------------------------------------------------------------------------
(* The inductive invariant.  Where the variables are; two regions do not   *)
(* overlap.                                                                *)
Types ==
  /\ known \in SUBSET Addr /\ size \in [Addr -> Nat] /\ invalid \in SUBSET known
  /\ left \in Links /\ right \in Links
  /\ tree \in Addr \union {NULL} /\ t \in Addr \union {NULL} /\ found \in Addr \union {NULL}
  /\ l \in Addr \union {N} /\ r \in Addr \union {N}
  /\ addr \in Nat /\ len \in Nat /\ fp \in Nat \X Nat
  /\ at \in {"idle", "look", "turned", "return", "search"}
  /\ by \in {"splay", "splay_end"}
  /\ op \in {"none", "insert", "delete", "free", "longjmp", "check"}

Apart ==
  /\ \A n \in known : size[n] > 0
  /\ \A m, n \in known : m < n => m + size[m] <= n

(* What a call was given, and what it has found out so far.  A region that *)
(* is deleted is still known while what was at its left is splayed.        *)
Room(a, n) ==
  \/ \E x \in known : x <= a /\ a < x + size[x]
  \/ \A x \in known : a + n <= x \/ x + size[x] <= a

Uncovered == \A x \in known : ~(x <= addr /\ addr < x + size[x])

Calls ==
  /\ at = "idle" <=> op = "none"
  /\ at = "search" => op = "longjmp"
  /\ op = "insert" => addr \in Addr /\ len \in Size /\ Room(addr, len)
  /\ op \in {"delete", "free", "check"} => addr \in Addr
  /\ op = "check" => len \in Size
  /\ op = "longjmp" => fp \in Stack /\ (at # "search" => InSpan(addr))
  /\ by = "splay_end" => op = "check" /\ Uncovered

(* The nodes that are splayed, and the three parts they are in.            *)
Scope == IF found = NULL THEN known ELSE {x \in known : x < found}
High == IF r = N THEN Limit ELSE r
Below == {x \in Scope : x <= l}
Between == {x \in Scope : l < x /\ x < High}
Above == {x \in Scope : High <= x}

InLoop ==
  /\ l \in Scope \union {N} /\ r \in Scope \union {N}
  /\ t \in Between
  /\ IsTree(t, Between, left, right)
  /\ IsTree(Cut(right, l)[N], Below, left, Cut(right, l))
  /\ IsTree(Cut(left, r)[N], Above, Cut(left, r), right)
  /\ \A x \in Below : Comp(x) > 0
  /\ \A x \in Above : Comp(x) < 0

(* After splay() the key is at the root or between its neighbours.         *)
Splayed ==
  /\ IsTree(t, Scope, left, right)
  /\ t = NULL => op = "insert"
  /\ \A x \in Scope : (x < t => Comp(x) > 0) /\ (x > t => Comp(x) < 0)

Searching ==
  \E S \in SUBSET known :
    /\ IsTree(t, S, left, right)
    /\ \A n \in known : InSpan(n) => n \in S

Trees ==
  /\ at \in {"idle", "search"} => IsTree(tree, known, left, right) /\ found = NULL
  /\ at = "search" => Searching
  /\ at \in {"look", "turned"} => InLoop
  /\ at = "return" => Splayed

Taken ==
  found # NULL =>
    /\ op \in {"delete", "longjmp"} /\ found \in known /\ addr = found
    /\ IsTree(right[found], More(known, found), left, right)

IInv == Types /\ Apart /\ Calls /\ Trees /\ Taken

-----------------------------------------------------------------------------
(* Addresses are numbers, and neither NULL nor N is one.                   *)
LEMMA Addresses ==
  /\ NULL = 0 /\ N = -1 /\ N \notin Addr /\ NULL \notin Addr /\ Limit \in Nat
  /\ \A n \in Addr : n \in Int /\ 0 < n /\ n < Limit
BY MemoryAssumption DEF NULL, N

(* Regions do not overlap: what is before the key, or after it, is so by   *)
(* the beginnings and by the ends.                                         *)
LEMMA CompOrder ==
  ASSUME Types, Apart, NEW m \in known, NEW n \in known, m < n
  PROVE  /\ Comp(n) >= 0 => Comp(m) > 0
         /\ Comp(m) <= 0 => Comp(n) < 0
<1>1. m \in Int /\ n \in Int /\ size[m] \in Nat /\ size[n] \in Nat /\ addr \in Int
  BY Addresses DEF Types
<1>2. m + size[m] <= n /\ size[m] > 0 /\ size[n] > 0
  BY DEF Apart
<1> QED BY <1>1, <1>2 DEF Comp, compare, compare_end

(* Comp() says which of three.                                             *)
LEMMA CompThree ==
  ASSUME Types, NEW n \in known
  PROVE  Comp(n) \in {-1, 0, 1}
BY DEF Comp, compare, compare_end

(* The nodes that are splayed are known.                                   *)
LEMMA ScopeKnown ==
  ASSUME Types
  PROVE  Scope \in SUBSET known /\ Scope \in SUBSET Addr /\ found \notin Scope
BY Addresses DEF Types, Scope

(* A round of the loop changes links of the nodes that are splayed.        *)
LEMMA Round ==
  ASSUME IInv, at \in {"look", "turned"}, at' \in {"look", "turned"},
         UNCHANGED <<node, tree, ans, call, found, by>>,
         t' \in Addr, l' \in Addr \union {N}, r' \in Addr \union {N},
         left' \in Links, right' \in Links,
         \A n \in Addr : n \notin Scope => left'[n] = left[n] /\ right'[n] = right[n],
         InLoop'
  PROVE  IInv'
<1>1. /\ known' = known /\ size' = size /\ invalid' = invalid /\ tree' = tree
      /\ op' = op /\ addr' = addr /\ len' = len /\ fp' = fp /\ found' = found /\ by' = by
  BY DEF node, call
<1>2. Types'
  BY <1>1 DEF IInv, Types
<1>3. Apart'
  BY <1>1 DEF IInv, Apart
<1>4. Calls'
  BY <1>1 DEF IInv, Calls, Room, Uncovered, InSpan
<1>5. Trees'
  BY DEF Trees
<1>6. Taken'
  <2> SUFFICES ASSUME found # NULL
               PROVE  IsTree(right'[found], More(known, found), left', right')
    BY <1>1 DEF IInv, Taken
  <2>1. /\ found \in known /\ found \in Addr
        /\ IsTree(right[found], More(known, found), left, right)
    BY DEF IInv, Taken, Types
  <2>2. right'[found] = right[found]
    BY <2>1, ScopeKnown DEF IInv
  <2>3. \A n \in More(known, found) : left'[n] = left[n] /\ right'[n] = right[n]
    BY <2>1, Addresses DEF IInv, Types, Scope, More
  <2>4. More(known, found) \in SUBSET Addr /\ left \in Links /\ right \in Links
    BY DEF IInv, Types, More
  <2> QED BY <2>1, <2>2, <2>3, <2>4, SameLinks
<1> QED BY <1>2, <1>3, <1>4, <1>5, <1>6 DEF IInv

(* Where the loop is: the root of the middle part.                         *)
LEMMA InLoopFacts ==
  ASSUME IInv, at \in {"look", "turned"}
  PROVE  /\ InLoop
         /\ left \in Links /\ right \in Links
         /\ Scope \in SUBSET known /\ Scope \in SUBSET Addr
         /\ Below \in SUBSET Scope /\ Between \in SUBSET Scope /\ Above \in SUBSET Scope
         /\ t \in Addr /\ t # l /\ t # r /\ t # N /\ t # NULL
         /\ High \in Int /\ l \in Int /\ l < High
         /\ l \notin Between /\ r \notin Between /\ l \notin Above /\ r \notin Below
<1>1. InLoop /\ left \in Links /\ right \in Links
  BY DEF IInv, Trees, Types
<1>2. Scope \in SUBSET known /\ Scope \in SUBSET Addr
  BY ScopeKnown DEF IInv
<1>3. /\ Below \in SUBSET Scope /\ Between \in SUBSET Scope /\ Above \in SUBSET Scope
      /\ t \in Between
  BY <1>1 DEF Below, Between, Above, InLoop
<1>4. High \in Int /\ l \in Int
  BY <1>1, <1>2, Addresses DEF High, InLoop
<1>5. l < t /\ t < High /\ t \in Int /\ t \in Addr
  BY <1>2, <1>3, <1>4, Addresses DEF Between
<1>6. l < High
  BY <1>4, <1>5
<1>7. l \notin Between /\ r \notin Between /\ l \notin Above /\ r \notin Below
  BY <1>1, <1>2, <1>4, <1>5, <1>6, Addresses DEF Between, Above, Below, High, InLoop
<1>8. t # r /\ t # l /\ t # N /\ t # NULL
  BY <1>3, <1>5, <1>7, Addresses
<1> QED BY <1>1, <1>2, <1>3, <1>4, <1>5, <1>6, <1>7, <1>8

(* Links of the middle part do not matter to the part at the left,         *)
LEMMA BelowKept ==
  ASSUME IInv, at \in {"look", "turned"}, NEW lf \in Links, NEW rg \in Links,
         \A n \in Addr \union {N} : n \notin Between /\ n \notin Above => rg[n] = right[n],
         \A n \in Below : lf[n] = left[n]
  PROVE  IsTree(Cut(rg, l)[N], Below, lf, Cut(rg, l))
<1>1. /\ left \in Links /\ right \in Links /\ Below \in SUBSET Addr /\ l \in Addr \union {N}
      /\ IsTree(Cut(right, l)[N], Below, left, Cut(right, l))
  BY InLoopFacts DEF InLoop, IInv, Types
<1>2. \A n \in Below \union {N} : n \notin Between /\ n \notin Above
  BY InLoopFacts, Addresses DEF Below, Between, Above
<1>3. /\ Cut(rg, l) \in Links /\ Cut(right, l) \in Links
      /\ \A n \in Below \union {N} : Cut(rg, l)[n] = Cut(right, l)[n]
  BY <1>1, <1>2 DEF Cut, Links, NULL
<1>4. \A n \in Below : lf[n] = left[n] /\ Cut(rg, l)[n] = Cut(right, l)[n]
  BY <1>3
<1>5. IsTree(Cut(right, l)[N], Below, lf, Cut(rg, l))
  BY <1>1, <1>3, <1>4, SameLinks
<1> QED BY <1>3, <1>5

(* nor to the part at the right.                                           *)
LEMMA AboveKept ==
  ASSUME IInv, at \in {"look", "turned"}, NEW lf \in Links, NEW rg \in Links,
         \A n \in Addr \union {N} : n \notin Between /\ n \notin Below => lf[n] = left[n],
         \A n \in Above : rg[n] = right[n]
  PROVE  IsTree(Cut(lf, r)[N], Above, Cut(lf, r), rg)
<1>1. /\ left \in Links /\ right \in Links /\ Above \in SUBSET Addr /\ r \in Addr \union {N}
      /\ IsTree(Cut(left, r)[N], Above, Cut(left, r), right)
  BY InLoopFacts DEF InLoop, IInv, Types
<1>2. \A n \in Above \union {N} : n \notin Between /\ n \notin Below
  BY InLoopFacts, Addresses DEF Below, Between, Above
<1>3. /\ Cut(lf, r) \in Links /\ Cut(left, r) \in Links
      /\ \A n \in Above \union {N} : Cut(lf, r)[n] = Cut(left, r)[n]
  BY <1>1, <1>2 DEF Cut, Links, NULL
<1>4. \A n \in Above : Cut(lf, r)[n] = Cut(left, r)[n] /\ rg[n] = right[n]
  BY <1>3
<1>5. IsTree(Cut(left, r)[N], Above, Cut(lf, r), rg)
  BY <1>1, <1>3, <1>4, SameLinks
<1> QED BY <1>3, <1>5

(* RotateRight: the middle part is turned.                                 *)
LEMMA RotateRightInv == IInv /\ RotateRight => IInv'
<1> SUFFICES ASSUME IInv, RotateRight
             PROVE  IInv'
  OBVIOUS
<1> DEFINE y == left[t]
<1>1. /\ at \in {"look", "turned"} /\ at' = "turned" /\ t' = y /\ l' = l /\ r' = r
      /\ left' = [left EXCEPT ![t] = right[y]] /\ right' = [right EXCEPT ![y] = t]
      /\ UNCHANGED <<node, tree, ans, call, found, by>>
      /\ y # NULL
  BY DEF RotateRight, Turns, Ahead
<1>2. /\ InLoop /\ left \in Links /\ right \in Links /\ t \in Addr /\ t # N
      /\ Scope \in SUBSET Addr /\ Between \in SUBSET Scope /\ Below \in SUBSET Scope
      /\ l \in Addr \union {N} /\ r \in Addr \union {N}
  BY <1>1, InLoopFacts DEF IInv, Types
<1>3. y \in Addr /\ y # N
  BY <1>1, <1>2, Addresses DEF Links
<1> HIDE DEF y
<1>4. t \in Between /\ IsTree(t, Between, left, right) /\ left[t] = y
  BY <1>2 DEF InLoop, y
<1>5. y \in Between /\ IsTree(y, Between, left', right')
  <2>1. Between \in SUBSET Addr
    BY <1>2
  <2>2. /\ y \in Between
        /\ IsTree(y, Between, [left EXCEPT ![t] = right[y]], [right EXCEPT ![y] = t])
    BY <2>1, <1>2, <1>3, <1>4, TurnRight
  <2> QED BY <2>2, <1>1
<1>6. left' \in Links /\ right' \in Links
  BY <1>1, <1>2, <1>3 DEF Links
<1>7. /\ \A n \in Addr \union {N} : n \notin Between => left'[n] = left[n] /\ right'[n] = right[n]
  BY <1>1, <1>2, <1>4, <1>5 DEF Links
<1>8. /\ \A n \in Below : n \notin Between
      /\ \A n \in Above : n \notin Between
      /\ Below \in SUBSET Addr /\ Above \in SUBSET Addr
  BY <1>1, InLoopFacts, Addresses DEF Below, Between, Above
<1>9. IsTree(Cut(right', l)[N], Below, left', Cut(right', l))
  BY <1>1, <1>6, <1>7, <1>8, BelowKept
<1>10. IsTree(Cut(left', r)[N], Above, Cut(left', r), right')
  BY <1>1, <1>6, <1>7, <1>8, AboveKept
<1>11. /\ known' = known /\ size' = size /\ found' = found /\ by' = by /\ addr' = addr
  BY <1>1 DEF node, call
<1>12. /\ Scope' = Scope /\ Below' = Below /\ Between' = Between /\ Above' = Above
  BY <1>1, <1>11 DEF Scope, Below, Between, Above, High
<1>13. \A x : Comp(x)' = Comp(x)
  BY <1>11 DEF Comp, compare, compare_end
<1>14. InLoop'
  BY <1>1, <1>2, <1>5, <1>9, <1>10, <1>12, <1>13 DEF InLoop
<1>15. \A n \in Addr : n \notin Scope => left'[n] = left[n] /\ right'[n] = right[n]
  BY <1>2, <1>7
<1> QED BY <1>1, <1>2, <1>3, <1>6, <1>14, <1>15, Round

(* RotateLeft.                                                             *)
LEMMA RotateLeftInv == IInv /\ RotateLeft => IInv'
<1> SUFFICES ASSUME IInv, RotateLeft
             PROVE  IInv'
  OBVIOUS
<1> DEFINE y == right[t]
<1>1. /\ at \in {"look", "turned"} /\ at' = "turned" /\ t' = y /\ l' = l /\ r' = r
      /\ right' = [right EXCEPT ![t] = left[y]] /\ left' = [left EXCEPT ![y] = t]
      /\ UNCHANGED <<node, tree, ans, call, found, by>>
      /\ y # NULL
  <2>1. at = "look" /\ Comp(t) > 0
    BY DEF RotateLeft, Turns
  <2>2. ~(Comp(t) < 0)
    BY <2>1, InLoopFacts, CompThree DEF IInv, InLoop
  <2> QED BY <2>1, <2>2 DEF RotateLeft, Turns, Ahead
<1>2. /\ InLoop /\ right \in Links /\ left \in Links /\ t \in Addr /\ t # N
      /\ Scope \in SUBSET Addr /\ Between \in SUBSET Scope /\ Below \in SUBSET Scope
      /\ l \in Addr \union {N} /\ r \in Addr \union {N}
  BY <1>1, InLoopFacts DEF IInv, Types
<1>3. y \in Addr /\ y # N
  BY <1>1, <1>2, Addresses DEF Links
<1> HIDE DEF y
<1>4. t \in Between /\ IsTree(t, Between, left, right) /\ right[t] = y
  BY <1>2 DEF InLoop, y
<1>5. y \in Between /\ IsTree(y, Between, left', right')
  <2>1. Between \in SUBSET Addr
    BY <1>2
  <2>2. /\ y \in Between
        /\ IsTree(y, Between, [left EXCEPT ![y] = t], [right EXCEPT ![t] = left[y]])
    BY <2>1, <1>2, <1>3, <1>4, TurnLeft
  <2> QED BY <2>2, <1>1
<1>6. right' \in Links /\ left' \in Links
  BY <1>1, <1>2, <1>3 DEF Links
<1>7. /\ \A n \in Addr \union {N} : n \notin Between => right'[n] = right[n] /\ left'[n] = left[n]
  BY <1>1, <1>2, <1>4, <1>5 DEF Links
<1>8. /\ \A n \in Below : n \notin Between
      /\ \A n \in Above : n \notin Between
      /\ Below \in SUBSET Addr /\ Above \in SUBSET Addr
  BY <1>1, InLoopFacts, Addresses DEF Below, Between, Above
<1>9. IsTree(Cut(right', l)[N], Below, left', Cut(right', l))
  BY <1>1, <1>6, <1>7, <1>8, BelowKept
<1>10. IsTree(Cut(left', r)[N], Above, Cut(left', r), right')
  BY <1>1, <1>6, <1>7, <1>8, AboveKept
<1>11. /\ known' = known /\ size' = size /\ found' = found /\ by' = by /\ addr' = addr
  BY <1>1 DEF node, call
<1>12. /\ Scope' = Scope /\ Below' = Below /\ Between' = Between /\ Above' = Above
  BY <1>1, <1>11 DEF Scope, Below, Between, Above, High
<1>13. \A x : Comp(x)' = Comp(x)
  BY <1>11 DEF Comp, compare, compare_end
<1>14. InLoop'
  BY <1>1, <1>2, <1>5, <1>9, <1>10, <1>12, <1>13 DEF InLoop
<1>15. \A n \in Addr : n \notin Scope => right'[n] = right[n] /\ left'[n] = left[n]
  BY <1>2, <1>7
<1> QED BY <1>1, <1>2, <1>3, <1>6, <1>14, <1>15, Round

(* LinkLeft: the root and what is smaller in the middle part go to the     *)
(* part at the left.                                                       *)
LEMMA LinkLeftInv == IInv /\ LinkLeft => IInv'
<1> SUFFICES ASSUME IInv, LinkLeft
             PROVE  IInv'
  OBVIOUS
<1>1. /\ at \in {"look", "turned"} /\ at' = "look" /\ t' = right[t] /\ l' = t /\ r' = r
      /\ left' = left /\ right' = [right EXCEPT ![l] = t]
      /\ UNCHANGED <<node, tree, ans, call, found, by>>
      /\ right[t] # NULL /\ Comp(t) > 0
  <2>1. at \in {"look", "turned"} /\ Comp(t) > 0
    BY DEF LinkLeft, GoesOn
  <2>2. ~(Comp(t) < 0)
    BY <2>1, InLoopFacts, CompThree DEF IInv, InLoop
  <2> QED BY <2>1, <2>2 DEF LinkLeft, GoesOn, Ahead
<1>2. /\ InLoop /\ left \in Links /\ right \in Links /\ t \in Addr /\ t # N /\ t # l /\ t # r
      /\ Scope \in SUBSET Addr /\ Scope \in SUBSET known
      /\ Between \in SUBSET Scope /\ Below \in SUBSET Scope /\ Above \in SUBSET Scope
      /\ l \in Scope \union {N} /\ r \in Scope \union {N} /\ r \notin Below
      /\ High \in Int /\ l \in Int /\ l < High /\ l \notin Between
  BY <1>1, InLoopFacts DEF InLoop
<1>3. /\ t \in Between /\ IsTree(t, Between, left, right)
      /\ IsTree(Cut(right, l)[N], Below, left, Cut(right, l))
  BY <1>2 DEF InLoop
<1>4. /\ l \in Below \union {N} /\ (l = N => Below = {}) /\ (l # N => \A x \in Below : x <= l)
      /\ \A x \in Between : x > l \/ l = N
  <2>1. \A x \in Scope : x \in Int /\ 0 < x
    BY <1>2, Addresses
  <2>2. l \in Below \union {N}
    BY <2>1, <1>2 DEF Below
  <2>3. l = N => Below = {}
    BY <2>1, Addresses DEF Below
  <2> QED BY <2>2, <2>3, <1>2 DEF Below, Between
<1>5. right' \in Links
  BY <1>1, <1>2 DEF Links
<1>6. /\ IsTree(Cut(right', t)[N], Below \union {x \in Between : x <= t}, left, Cut(right', t))
      /\ IsTree(right'[t], More(Between, t), left, right')
  <2>1. Between \in SUBSET Addr /\ Below \in SUBSET Addr
    BY <1>2
  <2>2. \A g : g = [right EXCEPT ![l] = t] =>
          /\ IsTree(Cut(g, t)[N], Below \union {x \in Between : x <= t}, left, Cut(g, t))
          /\ IsTree(g[t], More(Between, t), left, g)
    BY <2>1, <1>2, <1>3, <1>4, PutRight
  <2> QED BY <2>2, <1>1
<1>7. /\ known' = known /\ size' = size /\ found' = found /\ by' = by /\ addr' = addr
  BY <1>1 DEF node, call
<1>8. /\ Scope' = Scope /\ High' = High /\ Above' = Above
      /\ Below' = Below \union {x \in Between : x <= t}
      /\ Between' = More(Between, t)
  <2>1. Scope' = Scope /\ High' = High /\ Above' = Above
    BY <1>1, <1>7 DEF Scope, High, Above
  <2>2. /\ \A x \in Scope : x \in Int
        /\ t \in Int /\ l < t /\ t < High
    BY <1>2, <1>3, Addresses DEF Between
  <2>3. Below' = {x \in Scope : x <= t} /\ Between' = {x \in Scope : t < x /\ x < High}
    BY <2>1, <1>1 DEF Below, Between
  <2>4. {x \in Scope : x <= t} = Below \union {x \in Between : x <= t}
    <3> SUFFICES ASSUME NEW x \in Scope
                 PROVE  x <= t <=> x <= l \/ (l < x /\ x < High /\ x <= t)
      BY <1>2, <2>2 DEF Below, Between
    <3> QED BY <1>2, <2>2
  <2>5. {x \in Scope : t < x /\ x < High} = More(Between, t)
    <3> SUFFICES ASSUME NEW x \in Scope
                 PROVE  t < x /\ x < High <=> (l < x /\ x < High) /\ x > t
      BY <1>2, <2>2 DEF Between, More
    <3> QED BY <1>2, <2>2
  <2> QED BY <2>1, <2>3, <2>4, <2>5
<1>9. right'[t] = right[t] /\ right[t] \in Addr
  BY <1>1, <1>2, Addresses DEF Links
<1>10. right[t] \in More(Between, t)
  <2>1. More(Between, t) \in SUBSET Addr
    BY <1>2 DEF More
  <2> QED BY <2>1, <1>1, <1>2, <1>5, <1>6, <1>9, TreeRoot
<1>11. IsTree(Cut(left, r)[N], Above, Cut(left, r), right')
  <2>1. \A n \in Above : right'[n] = right[n]
    <3>1. l \notin Above
      BY <1>1, InLoopFacts
    <3> QED BY <3>1, <1>1, <1>2 DEF Links
  <2> QED BY <2>1, <1>1, <1>2, <1>5, AboveKept
<1>12. \A x : Comp(x)' = Comp(x)
  BY <1>7 DEF Comp, compare, compare_end
<1>13. \A x \in Below' : Comp(x) > 0
  <2> SUFFICES ASSUME NEW x \in Between, x <= t
               PROVE  Comp(x) > 0
    BY <1>2, <1>8 DEF InLoop
  <2>1. CASE x = t
    BY <2>1, <1>1
  <2>2. CASE x < t
    <3>1. Comp(t) >= 0
      BY <1>1, <1>2, <1>3, CompThree DEF IInv
    <3> QED BY <3>1, <2>2, <1>2, <1>3, CompOrder DEF IInv
  <2> QED BY <2>1, <2>2, <1>2, Addresses
<1>14. InLoop'
  BY <1>1, <1>2, <1>3, <1>6, <1>8, <1>9, <1>10, <1>11, <1>12, <1>13 DEF InLoop
<1>15. \A n \in Addr : n \notin Scope => left'[n] = left[n] /\ right'[n] = right[n]
  BY <1>1, <1>2, Addresses DEF Links
<1> QED
  BY <1>1, <1>2, <1>5, <1>9, <1>14, <1>15, Round DEF IInv, Types

(* LinkRight: the root and what is larger in the middle part go to the     *)
(* part at the right.                                                      *)
LEMMA LinkRightInv == IInv /\ LinkRight => IInv'
<1> SUFFICES ASSUME IInv, LinkRight
             PROVE  IInv'
  OBVIOUS
<1>1. /\ at \in {"look", "turned"} /\ at' = "look" /\ t' = left[t] /\ l' = l /\ r' = t
      /\ right' = right /\ left' = [left EXCEPT ![r] = t]
      /\ UNCHANGED <<node, tree, ans, call, found, by>>
      /\ left[t] # NULL /\ Comp(t) < 0
  BY DEF LinkRight, GoesOn, Ahead
<1>2. /\ InLoop /\ left \in Links /\ right \in Links /\ t \in Addr /\ t # N /\ t # l /\ t # r
      /\ Scope \in SUBSET Addr /\ Scope \in SUBSET known
      /\ Between \in SUBSET Scope /\ Below \in SUBSET Scope /\ Above \in SUBSET Scope
      /\ l \in Scope \union {N} /\ r \in Scope \union {N} /\ r \notin Below
      /\ High \in Int /\ l \in Int /\ l < High /\ r \notin Between
  BY <1>1, InLoopFacts DEF InLoop
<1>3. /\ t \in Between /\ IsTree(t, Between, left, right)
      /\ IsTree(Cut(left, r)[N], Above, Cut(left, r), right)
  BY <1>2 DEF InLoop
<1>4. /\ r \in Above \union {N} /\ (r = N => Above = {}) /\ (r # N => \A x \in Above : x >= r)
      /\ \A x \in Between : x < r \/ r = N
  <2>1. \A x \in Scope : x \in Int /\ x < Limit /\ Limit \in Int
    BY <1>2, Addresses
  <2>2. r \in Above \union {N}
    BY <2>1, <1>2 DEF Above, High
  <2>3. r = N => Above = {}
    BY <2>1 DEF Above, High
  <2>4. r # N => High = r
    BY DEF High
  <2> QED BY <2>1, <2>2, <2>3, <2>4, <1>2 DEF Above, Between
<1>5. left' \in Links
  BY <1>1, <1>2 DEF Links
<1>6. /\ IsTree(Cut(left', t)[N], Above \union {x \in Between : x >= t}, Cut(left', t), right)
      /\ IsTree(left'[t], Less(Between, t), left', right)
  <2>1. Between \in SUBSET Addr /\ Above \in SUBSET Addr
    BY <1>2
  <2>2. \A g : g = [left EXCEPT ![r] = t] =>
          /\ IsTree(Cut(g, t)[N], Above \union {x \in Between : x >= t}, Cut(g, t), right)
          /\ IsTree(g[t], Less(Between, t), g, right)
    BY <2>1, <1>2, <1>3, <1>4, PutLeft
  <2> QED BY <2>2, <1>1
<1>7. /\ known' = known /\ size' = size /\ found' = found /\ by' = by /\ addr' = addr
  BY <1>1 DEF node, call
<1>8. /\ Scope' = Scope /\ High' = t /\ Below' = Below
      /\ Above' = Above \union {x \in Between : x >= t}
      /\ Between' = Less(Between, t)
  <2>1. Scope' = Scope /\ High' = t /\ Below' = Below
    BY <1>1, <1>2, <1>7 DEF Scope, High, Below
  <2>2. /\ \A x \in Scope : x \in Int
        /\ t \in Int /\ l < t /\ t < High
    BY <1>2, <1>3, Addresses DEF Between
  <2>3. Above' = {x \in Scope : t <= x} /\ Between' = {x \in Scope : l < x /\ x < t}
    BY <2>1, <1>1 DEF Above, Between
  <2>4. {x \in Scope : t <= x} = Above \union {x \in Between : x >= t}
    <3> SUFFICES ASSUME NEW x \in Scope
                 PROVE  t <= x <=> High <= x \/ (l < x /\ x < High /\ x >= t)
      BY <1>2, <2>2 DEF Above, Between
    <3> QED BY <1>2, <2>2
  <2>5. {x \in Scope : l < x /\ x < t} = Less(Between, t)
    <3> SUFFICES ASSUME NEW x \in Scope
                 PROVE  l < x /\ x < t <=> (l < x /\ x < High) /\ x < t
      BY <1>2, <2>2 DEF Between, Less
    <3> QED BY <1>2, <2>2
  <2> QED BY <2>1, <2>3, <2>4, <2>5
<1>9. left'[t] = left[t] /\ left[t] \in Addr
  BY <1>1, <1>2, Addresses DEF Links
<1>10. left[t] \in Less(Between, t)
  <2>1. Less(Between, t) \in SUBSET Addr
    BY <1>2 DEF Less
  <2> QED BY <2>1, <1>1, <1>2, <1>5, <1>6, <1>9, TreeRoot
<1>11. IsTree(Cut(right, l)[N], Below, left', Cut(right, l))
  <2>1. \A n \in Below : left'[n] = left[n]
    BY <1>1, <1>2 DEF Links
  <2> QED BY <2>1, <1>1, <1>2, <1>5, BelowKept
<1>12. \A x : Comp(x)' = Comp(x)
  BY <1>7 DEF Comp, compare, compare_end
<1>13. \A x \in Above' : Comp(x) < 0
  <2> SUFFICES ASSUME NEW x \in Between, x >= t
               PROVE  Comp(x) < 0
    BY <1>2, <1>8 DEF InLoop
  <2>1. CASE x = t
    BY <2>1, <1>1
  <2>2. CASE t < x
    <3>1. Comp(t) <= 0
      BY <1>1, <1>2, <1>3, CompThree DEF IInv
    <3> QED BY <3>1, <2>2, <1>2, <1>3, CompOrder DEF IInv
  <2> QED BY <2>1, <2>2, <1>2, Addresses
<1>14. InLoop'
  <2>1. Cut(right', l') = Cut(right, l)
    BY <1>1
  <2> QED BY <2>1, <1>1, <1>2, <1>3, <1>6, <1>8, <1>9, <1>10, <1>11, <1>12, <1>13 DEF InLoop
<1>15. \A n \in Addr : n \notin Scope => left'[n] = left[n] /\ right'[n] = right[n]
  BY <1>1, <1>2, Addresses DEF Links
<1> QED
  BY <1>1, <1>2, <1>5, <1>9, <1>14, <1>15, Round DEF IInv, Types

(* Assemble: one tree again, with the key at the root or between the root  *)
(* and its neighbour.                                                      *)
LEMMA AssembleInv == IInv /\ Assemble => IInv'
<1> SUFFICES ASSUME IInv, Assemble
             PROVE  IInv'
  OBVIOUS
<1> DEFINE right1 == [right EXCEPT ![l] = left[t]]
           left1 == [left EXCEPT ![r] = right[t]]
<1>1. /\ at \in {"look", "turned"} /\ at' = "return" /\ t' = t /\ l' = l /\ r' = r /\ by' = by
      /\ left' = [left1 EXCEPT ![t] = right1[N], ![N] = NULL]
      /\ right' = [right1 EXCEPT ![t] = left1[N], ![N] = NULL]
      /\ UNCHANGED <<node, tree, ans, call, found>>
      /\ Ahead = NULL
  BY DEF Assemble, Return
<1>2. /\ InLoop /\ left \in Links /\ right \in Links /\ t \in Addr /\ t # N /\ t # l /\ t # r
      /\ Scope \in SUBSET Addr /\ Scope \in SUBSET known
      /\ Between \in SUBSET Scope /\ Below \in SUBSET Scope /\ Above \in SUBSET Scope
      /\ l \in Scope \union {N} /\ r \in Scope \union {N}
      /\ High \in Int /\ l \in Int /\ l < High /\ t # NULL
  BY <1>1, InLoopFacts DEF InLoop
<1>3. /\ t \in Between /\ IsTree(t, Between, left, right)
      /\ IsTree(Cut(right, l)[N], Below, left, Cut(right, l))
      /\ IsTree(Cut(left, r)[N], Above, Cut(left, r), right)
  BY <1>2 DEF InLoop
<1>4. \A x \in Scope : x \in Int /\ 0 < x /\ x < Limit /\ Limit \in Int
  BY <1>2, Addresses
<1>5. /\ l \in Below \union {N} /\ (l = N => Below = {}) /\ (l # N => \A x \in Below : x <= l)
      /\ r \in Above \union {N} /\ (r = N => Above = {}) /\ (r # N => \A x \in Above : x >= r)
  <2>1. l \in Below \union {N} /\ r \in Above \union {N}
    BY <1>2, <1>4 DEF Below, Above, High
  <2>2. (l = N => Below = {}) /\ (r = N => Above = {})
    BY <1>4, Addresses DEF Below, Above, High
  <2> QED BY <2>1, <2>2 DEF Below, Above, High
<1>6. /\ \A x \in Below, y \in Between : x < y
      /\ \A x \in Between, y \in Above : x < y
  <2> SUFFICES ASSUME NEW x \in Scope, NEW y \in Scope
               PROVE  /\ x <= l /\ l < y => x < y
                      /\ x < High /\ High <= y => x < y
    BY DEF Below, Between, Above
  <2>1. x \in Int /\ y \in Int
    BY <1>4
  <2> QED BY <2>1, <1>2
<1>7. Scope = Below \union Between \union Above
  <2> SUFFICES ASSUME NEW x \in Scope
               PROVE  x \in Below \union Between \union Above
    BY <1>2
  <2>1. x \in Int
    BY <1>4
  <2> QED BY <2>1, <1>2 DEF Below, Between, Above
<1>8. left' \in Links /\ right' \in Links /\ IsTree(t, Scope, left', right')
  <2>1. Below \in SUBSET Addr /\ Between \in SUBSET Addr /\ Above \in SUBSET Addr
    BY <1>2
  <2>2. LET lf2 == [left1 EXCEPT ![t] = right1[N], ![N] = NULL]
            rg2 == [right1 EXCEPT ![t] = left1[N], ![N] = NULL]
        IN lf2 \in Links /\ rg2 \in Links
           /\ IsTree(t, Below \union Between \union Above, lf2, rg2)
    BY <2>1, <1>2, <1>3, <1>5, <1>6, Assembly
  <2> QED BY <2>2, <1>1, <1>7
<1>9. /\ known' = known /\ size' = size /\ invalid' = invalid /\ tree' = tree
      /\ op' = op /\ addr' = addr /\ len' = len /\ fp' = fp /\ found' = found
  BY <1>1 DEF node, call
<1>10. Scope' = Scope /\ \A x : Comp(x)' = Comp(x)
  BY <1>1, <1>9 DEF Scope, Comp, compare, compare_end
<1>11. ASSUME NEW x \in Scope
       PROVE  (x < t => Comp(x) > 0) /\ (x > t => Comp(x) < 0)
  <2>1. x \in known /\ t \in known /\ x \in Int /\ t \in Int
    BY <1>2, <1>3, <1>4
  <2>2. CASE x \in Below
    BY <2>2, <1>2, <1>3, <1>6, <2>1 DEF InLoop
  <2>3. CASE x \in Above
    BY <2>3, <1>2, <1>3, <1>6, <2>1 DEF InLoop
  <2>4. CASE x \in Between /\ Comp(t) = 0
    BY <2>1, <2>4, CompOrder DEF IInv
  <2>5. CASE x \in Between /\ Comp(t) < 0
    <3>1. left[t] = NULL
      BY <2>5, <1>1 DEF Ahead
    <3>2. Less(Between, t) = {}
      <4>1. IsTree(left[t], Less(Between, t), left, right)
        BY <1>2, <1>3, LeftPart
      <4>2. Less(Between, t) \in SUBSET Addr
        BY <1>2 DEF Less
      <4> QED BY <3>1, <4>1, <4>2, <1>2, TreeRoot
    <3>3. ~(x < t)
      BY <3>2, <2>5 DEF Less
    <3> QED BY <3>3, <2>1, <2>5, CompOrder, CompThree DEF IInv
  <2>6. CASE x \in Between /\ Comp(t) > 0
    <3>1. right[t] = NULL
      BY <2>1, <2>6, <1>1, CompThree DEF Ahead, IInv
    <3>2. More(Between, t) = {}
      <4>1. IsTree(right[t], More(Between, t), left, right)
        BY <1>2, <1>3, RightPart
      <4>2. More(Between, t) \in SUBSET Addr
        BY <1>2 DEF More
      <4> QED BY <3>1, <4>1, <4>2, <1>2, TreeRoot
    <3>3. ~(x > t)
      BY <3>2, <2>6 DEF More
    <3> QED BY <3>3, <2>1, <2>6, CompOrder, CompThree DEF IInv
  <2>7. Comp(t) \in {-1, 0, 1}
    BY <2>1, CompThree DEF IInv
  <2> QED BY <2>2, <2>3, <2>4, <2>5, <2>6, <2>7, <1>7
<1>12. Types'
  BY <1>1, <1>8, <1>9 DEF IInv, Types
<1>13. Apart'
  BY <1>9 DEF IInv, Apart
<1>14. Calls'
  BY <1>1, <1>9 DEF IInv, Calls, Room, Uncovered, InSpan
<1>15. Trees'
  <2>1. Splayed'
    BY <1>1, <1>2, <1>8, <1>10, <1>11 DEF Splayed
  <2> QED BY <2>1, <1>1 DEF Trees
<1>16. Taken'
  <2> SUFFICES ASSUME found # NULL
               PROVE  IsTree(right'[found], More(known, found), left', right')
    BY <1>9 DEF IInv, Taken
  <2>1. /\ found \in known /\ found \in Addr
        /\ IsTree(right[found], More(known, found), left, right)
    BY DEF IInv, Taken, Types
  <2>2. \A n \in Addr : n \notin Scope => left'[n] = left[n] /\ right'[n] = right[n]
    BY <1>1, <1>2, <1>3, Addresses DEF Links
  <2>3. right'[found] = right[found]
    BY <2>1, <2>2, ScopeKnown DEF IInv
  <2>4. \A n \in More(known, found) : left'[n] = left[n] /\ right'[n] = right[n]
    BY <2>1, <2>2, Addresses DEF IInv, Types, Scope, More
  <2>5. More(known, found) \in SUBSET Addr
    BY DEF IInv, Types, More
  <2> QED BY <2>1, <2>3, <2>4, <2>5, <1>2, <1>8, SameLinks
<1> QED BY <1>12, <1>13, <1>14, <1>15, <1>16 DEF IInv

-----------------------------------------------------------------------------
(* splay() is entered with the whole tree in the middle.                   *)
LEMMA Entered ==
  ASSUME Types', t' # NULL, l' = N, r' = N, IsTree(t', Scope', left', right')
  PROVE  InLoop'
<1>1. /\ Scope' \in SUBSET Addr /\ t' \in Addr /\ left' \in Links /\ right' \in Links
  BY DEF Types, Scope
<1>2. /\ \A x \in Scope' : x \in Int /\ 0 < x /\ x < Limit
      /\ N = -1 /\ Limit \in Int
  BY <1>1, Addresses
<1>3. High' = Limit
  BY DEF High
<1>4. Below' = {} /\ Above' = {} /\ Between' = Scope'
  <2> SUFFICES ASSUME NEW x \in Scope'
               PROVE  ~(x <= l') /\ ~(Limit <= x) /\ l' < x /\ x < Limit
    BY <1>3 DEF Below, Above, Between
  <2> QED BY <1>2
<1>5. t' \in Scope'
  BY <1>1, TreeRoot
<1>6. /\ Cut(right', l') \in Links /\ Cut(right', l')[N] = NULL
      /\ Cut(left', r') \in Links /\ Cut(left', r')[N] = NULL
  BY <1>1 DEF Cut, Links
<1>7. /\ IsTree(Cut(right', l')[N], {}, left', Cut(right', l'))
      /\ IsTree(Cut(left', r')[N], {}, Cut(left', r'), right')
  BY <1>1, <1>6, EmptyTree
<1> QED BY <1>4, <1>5, <1>7 DEF InLoop

(* A call that ends leaves a tree.                                         *)
LEMMA Finished ==
  ASSUME NEW q \in Addr \union {NULL}, Finish(q),
         known' \in SUBSET Addr, size' \in [Addr -> Nat], invalid' \in SUBSET known',
         left' \in Links, right' \in Links, Apart',
         IsTree(q, known', left', right')
  PROVE  IInv'
<1>1. Types'
  BY DEF Finish, Types
<1>2. Calls'
  BY DEF Finish, Calls
<1>3. Trees' /\ Taken'
  BY DEF Finish, Trees, Taken
<1> QED BY <1>1, <1>2, <1>3 DEF IInv

(* So does a node's deletion, after which __bound_long_jump() goes on.     *)
LEMMA DeletionInv ==
  ASSUME IInv, Deletes, NEW q \in Addr \union {NULL}, Deletion(q),
         known' \in SUBSET Addr, size' \in [Addr -> Nat], invalid' \in SUBSET known',
         left' \in Links, right' \in Links, Apart',
         IsTree(q, known', left', right')
  PROVE  IInv'
<1>1. CASE op = "delete"
  BY <1>1, Finished DEF Deletion
<1>2. CASE op = "longjmp"
  <2>1. /\ tree' = q /\ found' = NULL /\ at' = "search" /\ t' = q
        /\ UNCHANGED <<op, addr, len, fp, by, l, r>>
    BY <1>2 DEF Deletion, call
  <2>2. Types'
    BY <2>1 DEF IInv, Types
  <2>3. Calls'
    BY <1>2, <2>1 DEF IInv, Calls
  <2>4. Trees'
    <3>1. Searching'
      BY <2>1 DEF Searching
    <3> QED BY <3>1, <2>1 DEF Trees
  <2>5. Taken'
    BY <2>1 DEF Taken
  <2> QED BY <2>2, <2>3, <2>4, <2>5 DEF IInv
<1> QED BY <1>1, <1>2 DEF Deletes

(* Between two calls nothing is known of a key.                            *)
LEMMA Idle ==
  ASSUME IInv, at = "idle"
  PROVE  /\ op = "none" /\ by = "splay" /\ found = NULL /\ Scope = known
         /\ IsTree(tree, known, left, right)
         /\ known \in SUBSET Addr /\ left \in Links /\ right \in Links
BY DEF IInv, Types, Calls, Trees, Scope

(* A call that goes through splay() begins.                                *)
LEMMA BeginSplay ==
  ASSUME IInv, tree # NULL, NEW o, NEW a \in Addr, NEW n \in Nat,
         Begin(o, a, n), UNCHANGED fp, Enter("splay", tree),
         \/ o \in {"delete", "free"}
         \/ o = "check" /\ n \in Size
         \/ o = "insert" /\ n \in Size /\ Room(a, n)
  PROVE  IInv'
<1>1. /\ at = "idle" /\ op' = o /\ addr' = a /\ len' = n /\ fp' = fp
      /\ UNCHANGED <<known, size, invalid, left, right, tree, found>>
      /\ at' = "look" /\ by' = "splay" /\ t' = tree /\ l' = N /\ r' = N
  BY DEF Begin, Enter, node, links
<1>2. /\ found = NULL /\ Scope = known
      /\ IsTree(tree, known, left, right)
  BY <1>1, Idle
<1>3. a \in Nat
  BY Addresses
<1>4. Types'
  BY <1>1, <1>3 DEF IInv, Types
<1>5. Apart' /\ Taken'
  BY <1>1, <1>2 DEF IInv, Apart, Taken
<1>6. Calls'
  BY <1>1 DEF IInv, Calls, Room
<1>7. Trees'
  <2>1. Scope' = known
    BY <1>1, <1>2 DEF Scope
  <2>2. InLoop'
    BY <2>1, <1>1, <1>2, <1>4, Entered
  <2> QED BY <2>2, <1>1 DEF Trees
<1> QED BY <1>4, <1>5, <1>6, <1>7 DEF IInv

(* The fields of a region.                                                 *)
LEMMA RegFields ==
  ASSUME NEW n
  PROVE  Reg(n).start = n /\ Reg(n).size = size[n] /\ Reg(n).is_invalid = (n \in invalid)
BY DEF Reg

(* Placeable() says of the regions what Room() says of the nodes.          *)
LEMMA PlaceableRoom ==
  ASSUME NEW a, NEW n
  PROVE  Placeable({Reg(x) : x \in known}, a, n) <=> Room(a, n)
<1>1. \A x : Reg(x).start = x /\ Reg(x).size = size[x]
  BY RegFields
<1>2. (\E reg \in {Reg(x) : x \in known} : Covers(reg, a))
        <=> \E x \in known : x <= a /\ a < x + size[x]
  BY <1>1 DEF Covers, End
<1>3. (\A reg \in {Reg(x) : x \in known} : a + n <= reg.start \/ End(reg) <= a)
        <=> \A x \in known : a + n <= x \/ x + size[x] <= a
  BY <1>1 DEF End
<1> QED BY <1>2, <1>3 DEF Placeable, Room

(* Insert: the region may be placed.                                       *)
LEMMA InsertInv ==
  ASSUME IInv, NEW a \in Addr, NEW n \in Size, Insert(a, n)
  PROVE  IInv'
<1>1. /\ Room(a, n) /\ Begin("insert", a, n) /\ UNCHANGED fp
      /\ n \in Nat /\ a \in Nat
  BY PlaceableRoom, MemoryAssumption DEF Insert
<1>2. CASE tree # NULL
  BY <1>1, <1>2, BeginSplay DEF Insert
<1>3. CASE tree = NULL
  <2>1. /\ at = "idle" /\ op' = "insert" /\ addr' = a /\ len' = n /\ fp' = fp
        /\ UNCHANGED <<known, size, invalid, left, right, tree, found>>
        /\ at' = "return" /\ t' = NULL /\ UNCHANGED <<by, l, r>>
    BY <1>1, <1>3 DEF Insert, Begin, Return, node, links
  <2>2. /\ found = NULL /\ by = "splay" /\ Scope = known
        /\ IsTree(tree, known, left, right)
        /\ known \in SUBSET Addr /\ left \in Links /\ right \in Links
    BY <2>1, Idle
  <2>3. known = {}
    BY <1>3, <2>2, TreeRoot
  <2>4. Types'
    BY <1>1, <2>1 DEF IInv, Types
  <2>5. Apart' /\ Taken'
    BY <2>1, <2>2 DEF IInv, Apart, Taken
  <2>6. Calls'
    BY <1>1, <2>1, <2>2 DEF IInv, Calls, Room
  <2>7. Trees'
    <3>1. Scope' = {}
      BY <2>1, <2>2, <2>3 DEF Scope
    <3>2. Splayed'
      BY <3>1, <2>1, <2>2, <2>3, <1>3 DEF Splayed
    <3> QED BY <3>2, <2>1 DEF Trees
  <2> QED BY <2>4, <2>5, <2>6, <2>7 DEF IInv
<1> QED BY <1>2, <1>3

(* Delete and Free.                                                        *)
LEMMA DeleteFreeInv ==
  ASSUME IInv, NEW a \in Addr, Delete(a) \/ Free(a)
  PROVE  IInv'
<1>1. \E o \in {"delete", "free"} :
        tree # NULL /\ Begin(o, a, 0) /\ UNCHANGED fp /\ Enter("splay", tree)
  BY DEF Delete, Free
<1>2. 0 \in Nat
  OBVIOUS
<1> QED BY <1>1, <1>2, BeginSplay

(* Where splay() has left the key.                                         *)
LEMMA Returned ==
  ASSUME IInv, at = "return"
  PROVE  /\ IsTree(t, Scope, left, right)
         /\ left \in Links /\ right \in Links
         /\ Scope \in SUBSET known /\ known \in SUBSET Addr
         /\ IF t = NULL THEN op = "insert" /\ Scope = {} ELSE t \in Scope
         /\ \A x \in Scope : (x < t => Comp(x) > 0) /\ (x > t => Comp(x) < 0)
         /\ op \notin {"delete", "longjmp"} => found = NULL
         /\ found = NULL => Scope = known
         /\ op # "check" => by = "splay"
<1>1. /\ IsTree(t, Scope, left, right) /\ (t = NULL => op = "insert")
      /\ \A x \in Scope : (x < t => Comp(x) > 0) /\ (x > t => Comp(x) < 0)
  BY DEF IInv, Trees, Splayed
<1>2. /\ left \in Links /\ right \in Links /\ known \in SUBSET Addr
      /\ Scope \in SUBSET known /\ Scope \in SUBSET Addr
  BY ScopeKnown DEF IInv, Types
<1>3. IF t = NULL THEN Scope = {} ELSE t \in Scope
  BY <1>1, <1>2, TreeRoot
<1>4. /\ op \notin {"delete", "longjmp"} => found = NULL
      /\ found = NULL => Scope = known
  BY DEF IInv, Taken, Scope
<1>5. op # "check" => by = "splay"
  BY DEF IInv, Types, Calls
<1> QED BY <1>1, <1>2, <1>3, <1>4, <1>5

(* InsertFound: the root covers the address.                               *)
LEMMA InsertFoundInv == IInv /\ InsertFound => IInv'
<1> SUFFICES ASSUME IInv, InsertFound
             PROVE  IInv'
  OBVIOUS
<1>1. /\ at = "return" /\ op = "insert" /\ t # NULL /\ Finish(t)
      /\ UNCHANGED <<known, size, invalid, left, right>>
  BY DEF InsertFound, IsThere, node, links
<1>2. IsTree(t, known, left, right) /\ t \in Addr
  BY <1>1, Returned
<1>3. Apart'
  BY <1>1 DEF IInv, Apart
<1> QED BY <1>1, <1>2, <1>3, Finished DEF IInv, Types

(* The address of a new region is in none that is known.                   *)
LEMMA NotThere ==
  ASSUME IInv, at = "return", op = "insert", ~IsThere
  PROVE  /\ addr \in Addr /\ addr \notin known /\ len \in Nat /\ len > 0
         /\ \A x \in known : ~(x <= addr /\ addr < x + size[x])
         /\ \A x \in known : addr + len <= x \/ x + size[x] <= addr
         /\ \A x \in known : x < addr <=> x < t \/ (x = t /\ ~(compare(addr, t) < 0))
<1>1. /\ Scope = known /\ by = "splay"
      /\ \A x \in known : (x < t => Comp(x) > 0) /\ (x > t => Comp(x) < 0)
      /\ known \in SUBSET Addr
      /\ t # NULL => t \in known
  BY Returned
<1>2. addr \in Addr /\ len \in Nat /\ len > 0 /\ Room(addr, len)
  <2>1. addr \in Addr /\ len \in Size /\ Room(addr, len)
    BY DEF IInv, Calls
  <2>2. \A n \in Size : n \in Nat /\ n > 0
    BY MemoryAssumption
  <2> QED BY <2>1, <2>2
<1>3. \A x \in known : x \in Int /\ addr \in Int /\ size[x] \in Nat /\ size[x] > 0 /\ t \in Int
  BY <1>1, <1>2, Addresses DEF IInv, Types, Apart
<1>4. ASSUME NEW x \in known
      PROVE  /\ ~(x <= addr /\ addr < x + size[x])
             /\ x < addr <=> x < t \/ (x = t /\ ~(compare(addr, t) < 0))
  <2>1. x < t => compare(addr, x) > 0
    BY <1>1 DEF Comp
  <2>2. x > t => compare(addr, x) < 0
    BY <1>1 DEF Comp
  <2>3. x = t => compare(addr, x) # 0
    BY <1>1, Addresses DEF IsThere
  <2>4. x \in Int /\ addr \in Int /\ size[x] \in Nat /\ size[x] > 0 /\ t \in Int
    BY <1>3
  <2>5. CASE x < t
    BY <2>1, <2>4, <2>5 DEF compare
  <2>6. CASE x > t
    BY <2>2, <2>4, <2>6 DEF compare
  <2>7. CASE x = t
    BY <2>3, <2>4, <2>7 DEF compare
  <2> QED BY <2>4, <2>5, <2>6, <2>7
<1>5. \A x \in known : addr + len <= x \/ x + size[x] <= addr
  BY <1>2, <1>4 DEF Room
<1>6. addr \notin known
  BY <1>3, <1>4
<1> QED BY <1>2, <1>4, <1>5, <1>6

(* InsertNew: the new node is the root of what is before it and what is    *)
(* after it.                                                               *)
LEMMA InsertNewInv == IInv /\ InsertNew => IInv'
<1> SUFFICES ASSUME IInv, InsertNew
             PROVE  IInv'
  OBVIOUS
<1>1. /\ at = "return" /\ op = "insert" /\ ~IsThere /\ Finish(addr)
      /\ known' = known \union {addr} /\ size' = [size EXCEPT ![addr] = len]
      /\ invalid' = invalid
  BY DEF InsertNew
<1>2. /\ IsTree(t, known, left, right) /\ left \in Links /\ right \in Links
      /\ known \in SUBSET Addr
      /\ IF t = NULL THEN known = {} ELSE t \in known
  BY <1>1, Returned
<1>3. /\ addr \in Addr /\ addr \notin known /\ len \in Nat /\ len > 0
      /\ \A x \in known : addr + len <= x \/ x + size[x] <= addr
      /\ \A x \in known : x < addr <=> x < t \/ (x = t /\ ~(compare(addr, t) < 0))
  BY <1>1, NotThere
<1>4. /\ known' \in SUBSET Addr /\ addr \in known' /\ size' \in [Addr -> Nat]
      /\ invalid' \in SUBSET known'
      /\ size'[addr] = len /\ \A x \in known : size'[x] = size[x]
  BY <1>1, <1>2, <1>3 DEF IInv, Types
<1>5. Apart'
  <2>1. /\ \A x \in known' : x \in Int /\ 0 < x /\ size'[x] \in Nat
        /\ \A n \in known : size[n] > 0
        /\ \A m, n \in known : m < n => m + size[m] <= n
    BY <1>4, Addresses DEF IInv, Apart
  <2>2. ASSUME NEW n \in known'
        PROVE  size'[n] > 0
    BY <2>1, <1>1, <1>3, <1>4
  <2>3. ASSUME NEW m \in known', NEW n \in known', m < n
        PROVE  m + size'[m] <= n
    <3>1. CASE m \in known /\ n \in known
      BY <3>1, <2>1, <2>3, <1>4
    <3>2. CASE m = addr
      BY <3>2, <2>1, <2>3, <1>1, <1>3, <1>4
    <3>3. CASE n = addr
      <4>1. m \in known /\ (addr + len <= m \/ m + size[m] <= addr)
        BY <3>3, <2>1, <2>3, <1>1, <1>3
      <4>2. m \in Int /\ n \in Int /\ size[m] \in Nat /\ size'[m] = size[m]
        BY <4>1, <2>1, <1>4
      <4> QED BY <4>1, <4>2, <3>3, <2>3, <1>3
    <3> QED BY <3>1, <3>2, <3>3, <1>1
  <2> QED BY <2>2, <2>3 DEF Apart
<1>6. left' \in Links /\ right' \in Links /\ IsTree(addr, known', left', right')
  <2>1. /\ N \notin Addr /\ NULL = 0
        /\ \A x \in known' : x \in Int /\ 0 < x
    BY <1>4, Addresses
  <2>2. CASE t = NULL
    <3>1. /\ left' = [left EXCEPT ![addr] = NULL] /\ right' = [right EXCEPT ![addr] = NULL]
          /\ known' = {addr}
      BY <2>2, <1>1, <1>2 DEF InsertNew
    <3>2. left' \in Links /\ right' \in Links /\ left'[addr] = NULL /\ right'[addr] = NULL
      BY <3>1, <1>2, <1>3 DEF Links
    <3>3. Less(known', addr) = {} /\ More(known', addr) = {}
      BY <3>1, <2>1 DEF Less, More
    <3>4. IsTree(left'[addr], {}, left', right') /\ IsTree(right'[addr], {}, left', right')
      BY <3>2, EmptyTree
    <3> QED BY <3>2, <3>3, <3>4, <1>4, Compose
  <2>3. CASE t # NULL /\ compare(addr, t) < 0
    <3>1. /\ left' = [left EXCEPT ![addr] = left[t], ![t] = NULL]
          /\ right' = [right EXCEPT ![addr] = t]
          /\ t \in known /\ t \in Addr /\ t # addr
      BY <2>3, <1>1, <1>2, <1>3 DEF InsertNew
    <3>2. /\ left' \in Links /\ right' \in Links
          /\ left'[addr] = left[t] /\ left'[t] = NULL
          /\ right'[addr] = t /\ right'[t] = right[t]
          /\ \A n \in Addr : n # addr /\ n # t => left'[n] = left[n] /\ right'[n] = right[n]
      BY <3>1, <1>2, <1>3, Addresses DEF Links
    <3> DEFINE U == {x \in known : x >= t}
    <3>3. /\ Less(known', addr) = Less(known, t) /\ More(known', addr) = U
          /\ Less(U, t) = {} /\ More(U, t) = More(known, t)
      <4>1. \A x \in known : x < addr <=> x < t
        BY <2>3, <1>3
      <4>2. \A x \in known : x # addr
        BY <1>3
      <4>3. t \in Int /\ addr \in Int
        BY <2>1, <3>1, <1>1
      <4>4. \A x \in known : x > addr <=> x >= t
        BY <4>1, <4>2, <4>3, <2>1, <1>1
      <4>5. Less(known', addr) = Less(known, t)
        BY <4>1, <4>3, <1>1 DEF Less
      <4>6. More(known', addr) = U
        BY <4>3, <4>4, <1>1 DEF More
      <4>7. Less(U, t) = {} /\ More(U, t) = More(known, t)
        BY <4>3, <2>1, <1>1 DEF Less, More
      <4> QED BY <4>5, <4>6, <4>7
    <3>4. /\ Less(known, t) \in SUBSET Addr /\ More(known, t) \in SUBSET Addr
          /\ \A n \in Less(known, t) \union More(known, t) : n \in Addr /\ n # t /\ n # addr
          /\ t \in U /\ U \in SUBSET Addr
      BY <3>1, <2>1, <1>1, <1>2, <1>3 DEF Less, More
    <3> HIDE DEF U
    <3>5. IsTree(left[t], Less(known, t), left, right) /\ IsTree(right[t], More(known, t), left, right)
      BY <3>1, <1>2, LeftPart, RightPart
    <3>6. /\ IsTree(left[t], Less(known, t), left', right')
          /\ IsTree(right[t], More(known, t), left', right')
      BY <3>2, <3>4, <3>5, <1>2, SameLinks
    <3>7. IsTree(NULL, {}, left', right')
      BY <3>2, EmptyTree
    <3>8. IsTree(t, U, left', right')
      BY <3>2, <3>3, <3>4, <3>6, <3>7, Compose
    <3> QED BY <3>2, <3>3, <3>6, <3>8, <1>4, Compose
  <2>4. CASE t # NULL /\ ~(compare(addr, t) < 0)
    <3>1. /\ right' = [right EXCEPT ![addr] = right[t], ![t] = NULL]
          /\ left' = [left EXCEPT ![addr] = t]
          /\ t \in known /\ t \in Addr /\ t # addr
      BY <2>4, <1>1, <1>2, <1>3 DEF InsertNew
    <3>2. /\ left' \in Links /\ right' \in Links
          /\ right'[addr] = right[t] /\ right'[t] = NULL
          /\ left'[addr] = t /\ left'[t] = left[t]
          /\ \A n \in Addr : n # addr /\ n # t => left'[n] = left[n] /\ right'[n] = right[n]
      BY <3>1, <1>2, <1>3, Addresses DEF Links
    <3> DEFINE U == {x \in known : x <= t}
    <3>3. /\ More(known', addr) = More(known, t) /\ Less(known', addr) = U
          /\ More(U, t) = {} /\ Less(U, t) = Less(known, t)
      <4>1. \A x \in known : x < addr <=> x < t \/ x = t
        BY <2>4, <1>3
      <4>2. \A x \in known : x # addr
        BY <1>3
      <4>3. t \in Int /\ addr \in Int
        BY <2>1, <3>1, <1>1
      <4>4. \A x \in known : (x < addr <=> x <= t) /\ (x > addr <=> x > t)
        BY <4>1, <4>2, <4>3, <2>1, <1>1
      <4>5. More(known', addr) = More(known, t)
        BY <4>4, <4>3, <1>1 DEF More
      <4>6. Less(known', addr) = U
        BY <4>3, <4>4, <1>1 DEF Less
      <4>7. More(U, t) = {} /\ Less(U, t) = Less(known, t)
        BY <4>3, <2>1, <1>1 DEF Less, More
      <4> QED BY <4>5, <4>6, <4>7
    <3>4. /\ Less(known, t) \in SUBSET Addr /\ More(known, t) \in SUBSET Addr
          /\ \A n \in Less(known, t) \union More(known, t) : n \in Addr /\ n # t /\ n # addr
          /\ t \in U /\ U \in SUBSET Addr
      BY <3>1, <2>1, <1>1, <1>2, <1>3 DEF Less, More
    <3> HIDE DEF U
    <3>5. IsTree(left[t], Less(known, t), left, right) /\ IsTree(right[t], More(known, t), left, right)
      BY <3>1, <1>2, LeftPart, RightPart
    <3>6. /\ IsTree(left[t], Less(known, t), left', right')
          /\ IsTree(right[t], More(known, t), left', right')
      BY <3>2, <3>4, <3>5, <1>2, SameLinks
    <3>7. IsTree(NULL, {}, left', right')
      BY <3>2, EmptyTree
    <3>8. IsTree(t, U, left', right')
      BY <3>2, <3>3, <3>4, <3>6, <3>7, Compose
    <3> QED BY <3>2, <3>3, <3>6, <3>8, <1>4, Compose
  <2> QED BY <2>2, <2>3, <2>4
<1> QED BY <1>1, <1>3, <1>4, <1>5, <1>6, Finished

(* FreeEnd: the block's region is marked.                                  *)
LEMMA FreeEndInv == IInv /\ FreeEnd => IInv'
<1> SUFFICES ASSUME IInv, FreeEnd
             PROVE  IInv'
  OBVIOUS
<1>1. /\ at = "return" /\ op = "free" /\ Finish(t)
      /\ UNCHANGED <<known, size, left, right>>
      /\ invalid' \in SUBSET (invalid \union {t})
  BY DEF FreeEnd, links
<1>2. IsTree(t, known, left, right) /\ t \in known /\ known \in SUBSET Addr
  BY <1>1, Returned
<1>3. Apart'
  BY <1>1 DEF IInv, Apart
<1> QED BY <1>1, <1>2, <1>3, Finished DEF IInv, Types

(* A node that is deleted leaves the others as they were.                  *)
LEMMA NodeFreed ==
  ASSUME IInv, NEW n \in known, FreeNode(n)
  PROVE  /\ known' = known \ {n} /\ known' \in SUBSET Addr
         /\ size' \in [Addr -> Nat] /\ invalid' \in SUBSET known'
         /\ Apart'
         /\ \A x \in known' : size'[x] = size[x] /\ (x \in invalid' <=> x \in invalid)
<1>1. /\ known' = known \ {n} /\ size' = [size EXCEPT ![n] = 0] /\ invalid' = invalid \ {n}
      /\ known \in SUBSET Addr /\ size \in [Addr -> Nat] /\ invalid \in SUBSET known
  BY DEF IInv, Types, FreeNode
<1>2. \A x \in known' : size'[x] = size[x] /\ x \in known
  BY <1>1
<1>3. Apart'
  BY <1>1, <1>2 DEF IInv, Apart
<1> QED BY <1>1, <1>2, <1>3

(* DeleteMissed: no region begins there.                                   *)
LEMMA DeleteMissedInv == IInv /\ DeleteMissed => IInv'
<1> SUFFICES ASSUME IInv, DeleteMissed
             PROVE  IInv'
  OBVIOUS
<1>1. /\ Deletes /\ at = "return" /\ found = NULL /\ Deletion(t)
      /\ UNCHANGED <<known, size, invalid, left, right>>
  BY DEF DeleteMissed, Deletes, node, links
<1>2. IsTree(t, known, left, right) /\ t \in Addr \union {NULL}
  BY <1>1, Returned DEF IInv, Types
<1>3. Apart'
  BY <1>1 DEF IInv, Apart
<1> QED BY <1>1, <1>2, <1>3, DeletionInv DEF IInv, Types

(* DeleteLeftmost: the right part is the tree.                             *)
LEMMA DeleteLeftmostInv == IInv /\ DeleteLeftmost => IInv'
<1> SUFFICES ASSUME IInv, DeleteLeftmost
             PROVE  IInv'
  OBVIOUS
<1>1. /\ Deletes /\ at = "return" /\ op # "insert" /\ found = NULL /\ left[t] = NULL
      /\ FreeNode(t) /\ Deletion(right[t])
      /\ left' = left /\ right' = [right EXCEPT ![t] = NULL]
  BY DEF DeleteLeftmost, Deletes
<1>2. /\ IsTree(t, known, left, right) /\ left \in Links /\ right \in Links
      /\ t \in known /\ t \in Addr /\ known \in SUBSET Addr
  BY <1>1, Returned
<1>3. /\ known' = known \ {t} /\ known' \in SUBSET Addr
      /\ size' \in [Addr -> Nat] /\ invalid' \in SUBSET known' /\ Apart'
  BY <1>1, <1>2, NodeFreed
<1>4. /\ IsTree(left[t], Less(known, t), left, right)
      /\ IsTree(right[t], More(known, t), left, right)
      /\ Less(known, t) \in SUBSET Addr
  BY <1>2, LeftPart, RightPart DEF Less
<1>5. Less(known, t) = {}
  BY <1>1, <1>2, <1>4, TreeRoot
<1>6. More(known, t) = known'
  <2>1. \A x \in known : x \in Int /\ t \in Int /\ ~(x < t)
    BY <1>2, <1>5, Addresses DEF Less
  <2> QED BY <2>1, <1>3 DEF More
<1>7. /\ left' \in Links /\ right' \in Links /\ right[t] \in Addr \union {NULL}
      /\ \A n \in known' : left'[n] = left[n] /\ right'[n] = right[n]
  BY <1>1, <1>2, <1>3 DEF Links
<1>8. IsTree(right[t], known', left', right')
  <2>1. IsTree(right[t], known', left, right)
    BY <1>4, <1>6
  <2> QED BY <2>1, <1>2, <1>3, <1>7, SameLinks
<1> QED BY <1>1, <1>2, <1>3, <1>7, <1>8, DeletionInv

(* DeleteSplit: splay() again, in the left part.                           *)
LEMMA DeleteSplitInv == IInv /\ DeleteSplit => IInv'
<1> SUFFICES ASSUME IInv, DeleteSplit
             PROVE  IInv'
  OBVIOUS
<1>1. /\ at = "return" /\ op \in {"delete", "longjmp"} /\ found = NULL
      /\ t = addr /\ left[t] # NULL
      /\ found' = t /\ at' = "look" /\ by' = "splay" /\ t' = left[t] /\ l' = N /\ r' = N
      /\ UNCHANGED <<known, size, invalid, left, right, tree, op, addr, len, fp>>
  BY DEF DeleteSplit, Deletes, Enter, node, links, call
<1>2. /\ IsTree(t, known, left, right) /\ left \in Links /\ right \in Links
      /\ t \in known /\ t \in Addr /\ known \in SUBSET Addr /\ t # NULL
  BY <1>1, Returned, Addresses
<1>3. /\ IsTree(left[t], Less(known, t), left, right)
      /\ IsTree(right[t], More(known, t), left, right)
      /\ left[t] \in Addr \union {NULL}
  BY <1>2, LeftPart, RightPart DEF Links
<1>4. Types'
  BY <1>1, <1>2, <1>3 DEF IInv, Types
<1>5. Apart'
  BY <1>1 DEF IInv, Apart
<1>6. Calls'
  BY <1>1 DEF IInv, Calls, InSpan
<1>7. Trees'
  <2>1. Scope' = Less(known, t)
    BY <1>1, <1>2 DEF Scope, Less
  <2>2. InLoop'
    BY <2>1, <1>1, <1>3, <1>4, Entered
  <2> QED BY <2>2, <1>1 DEF Trees
<1>8. Taken'
  BY <1>1, <1>2, <1>3 DEF Taken
<1> QED BY <1>4, <1>5, <1>6, <1>7, <1>8 DEF IInv

(* DeleteJoin: the largest node of the left part is at its root, and has   *)
(* nothing at its right; the right part goes there.                        *)
LEMMA DeleteJoinInv == IInv /\ DeleteJoin => IInv'
<1> SUFFICES ASSUME IInv, DeleteJoin
             PROVE  IInv'
  OBVIOUS
<1>1. /\ Deletes /\ at = "return" /\ op \in {"delete", "longjmp"} /\ found # NULL
      /\ FreeNode(found) /\ Deletion(t)
      /\ left' = [left EXCEPT ![found] = NULL]
      /\ right' = [right EXCEPT ![t] = right[found], ![found] = NULL]
  BY DEF DeleteJoin, Deletes
<1>2. /\ IsTree(t, Scope, left, right) /\ left \in Links /\ right \in Links
      /\ t \in Scope /\ known \in SUBSET Addr /\ by = "splay"
      /\ \A x \in Scope : x > t => Comp(x) < 0
  BY <1>1, Returned
<1>3. /\ found \in known /\ addr = found /\ Scope = Less(known, found)
      /\ IsTree(right[found], More(known, found), left, right)
  BY <1>1 DEF IInv, Taken, Scope, Less
<1>4. /\ known' = known \ {found} /\ known' \in SUBSET Addr
      /\ size' \in [Addr -> Nat] /\ invalid' \in SUBSET known' /\ Apart'
  BY <1>1, <1>3, NodeFreed
<1>5. /\ \A x \in known : x \in Int
      /\ t \in known /\ t < found /\ t \in Addr /\ found \in Addr /\ t # found
  BY <1>2, <1>3, Addresses DEF Less
<1>6. \A x \in Scope : ~(x > t)
  <2> SUFFICES ASSUME NEW x \in Scope, x > t
               PROVE  FALSE
    OBVIOUS
  <2>1. compare(found, x) < 0
    BY <1>2, <1>3 DEF Comp
  <2>2. x \in Int /\ found \in Int /\ x < found /\ size[x] \in Nat
    BY <1>2, <1>3, <1>5 DEF Less, IInv, Types
  <2> QED BY <2>1, <2>2 DEF compare
<1>7. Less(known', t) = Less(Scope, t) /\ More(known', t) = More(known, found)
  <2> SUFFICES ASSUME NEW x \in known
               PROVE  /\ x # found /\ x < t <=> x < found /\ x < t
                      /\ x # found /\ x > t <=> x > found
    BY <1>3, <1>4 DEF Less, More
  <2> QED BY <1>3, <1>5, <1>6 DEF Less
<1>8. /\ left' \in Links /\ right' \in Links
      /\ left'[t] = left[t] /\ right'[t] = right[found]
      /\ \A n \in Addr : n # t /\ n # found => left'[n] = left[n] /\ right'[n] = right[n]
  BY <1>1, <1>2, <1>5 DEF Links
<1>9. /\ Less(Scope, t) \in SUBSET Addr /\ More(known, found) \in SUBSET Addr
      /\ \A n \in Less(Scope, t) \union More(known, found) : n \in Addr /\ n # t /\ n # found
      /\ Scope \in SUBSET Addr
  BY <1>2, <1>3, <1>5 DEF Less, More
<1>10. IsTree(left[t], Less(Scope, t), left, right)
  BY <1>2, <1>5, <1>9, LeftPart
<1>11. /\ IsTree(left[t], Less(Scope, t), left', right')
       /\ IsTree(right[found], More(known, found), left', right')
  BY <1>2, <1>3, <1>8, <1>9, <1>10, SameLinks
<1>12. IsTree(t, known', left', right')
  <2>1. t \in known'
    BY <1>4, <1>5
  <2> QED BY <2>1, <1>4, <1>7, <1>8, <1>11, Compose
<1> QED BY <1>1, <1>4, <1>5, <1>8, <1>12, DeletionInv

(* LongJump: the search begins with the whole tree.                        *)
LEMMA LongJumpInv ==
  ASSUME IInv, NEW s \in Stack, LongJump(s[1], s[2])
  PROVE  IInv'
<1>1. /\ at = "idle" /\ op' = "longjmp" /\ addr' = 0 /\ len' = 0 /\ fp' = <<s[1], s[2]>>
      /\ at' = "search" /\ t' = tree
      /\ UNCHANGED <<known, size, invalid, left, right, tree, found, by, l, r>>
  BY DEF LongJump, Begin, node, links
<1>2. s \in Nat \X Nat /\ <<s[1], s[2]>> = s
  BY MemoryAssumption
<1>3. found = NULL /\ by = "splay" /\ IsTree(tree, known, left, right)
  BY <1>1, Idle
<1>4. Types'
  BY <1>1, <1>2 DEF IInv, Types
<1>5. Apart' /\ Taken'
  BY <1>1, <1>3 DEF IInv, Apart, Taken
<1>6. Calls'
  BY <1>1, <1>2, <1>3 DEF Calls
<1>7. Trees'
  <2>1. Searching'
    BY <1>1, <1>3 DEF Searching
  <2> QED BY <2>1, <1>1, <1>3 DEF Trees
<1> QED BY <1>4, <1>5, <1>6, <1>7 DEF IInv

(* Search: the part of the tree that is left holds every region that       *)
(* begins in the part of the stack.                                        *)
LEMMA SearchInv == IInv /\ Search => IInv'
<1> SUFFICES ASSUME IInv, Search
             PROVE  IInv'
  OBVIOUS
<1>1. /\ at = "search" /\ t # NULL /\ ~InSpan(t)
      /\ t' = IF t < fp[1] THEN right[t] ELSE left[t]
      /\ UNCHANGED <<known, size, invalid, left, right, tree, found, op, addr, len, fp>>
      /\ UNCHANGED <<at, by, l, r>>
  BY DEF Search, node, links, call
<1>2. PICK S \in SUBSET known :
        IsTree(t, S, left, right) /\ \A n \in known : InSpan(n) => n \in S
  BY <1>1 DEF IInv, Trees, Searching
<1>3. /\ S \in SUBSET Addr /\ left \in Links /\ right \in Links /\ t \in Addr
      /\ fp[1] \in Nat /\ fp[2] \in Nat
  BY <1>1 DEF IInv, Types
<1>4. \A n \in Addr : n \in Int
  BY Addresses
<1>5. /\ IsTree(left[t], Less(S, t), left, right)
      /\ IsTree(right[t], More(S, t), left, right)
      /\ left[t] \in Addr \union {NULL} /\ right[t] \in Addr \union {NULL}
  BY <1>2, <1>3, LeftPart, RightPart DEF Links
<1>6. \E S1 \in SUBSET known :
        IsTree(t', S1, left, right) /\ \A n \in known : InSpan(n) => n \in S1
  <2>1. CASE t < fp[1]
    <3>1. \A n \in known : InSpan(n) => n \in More(S, t)
      BY <2>1, <1>2, <1>3, <1>4 DEF More, InSpan
    <3>2. More(S, t) \in SUBSET known
      BY DEF More
    <3> QED BY <3>1, <3>2, <2>1, <1>1, <1>5
  <2>2. CASE ~(t < fp[1])
    <3>1. \A n \in known : InSpan(n) => n \in Less(S, t)
      BY <2>2, <1>1, <1>2, <1>3, <1>4 DEF Less, InSpan
    <3>2. Less(S, t) \in SUBSET known
      BY DEF Less
    <3> QED BY <3>1, <3>2, <2>2, <1>1, <1>5
  <2> QED BY <2>1, <2>2
<1>7. Types'
  BY <1>1, <1>5 DEF IInv, Types
<1>8. Apart' /\ Taken'
  BY <1>1 DEF IInv, Apart, Trees, Taken
<1>9. Calls'
  BY <1>1 DEF IInv, Calls
<1>10. Trees'
  <2>1. Searching'
    BY <1>1, <1>6 DEF Searching, InSpan
  <2> QED BY <2>1, <1>1 DEF IInv, Trees
<1> QED BY <1>7, <1>8, <1>9, <1>10 DEF IInv

(* SearchFound: one is found, and splayed.                                 *)
LEMMA SearchFoundInv == IInv /\ SearchFound => IInv'
<1> SUFFICES ASSUME IInv, SearchFound
             PROVE  IInv'
  OBVIOUS
<1>1. /\ at = "search" /\ t # NULL /\ InSpan(t) /\ addr' = t
      /\ at' = "look" /\ by' = "splay" /\ t' = tree /\ l' = N /\ r' = N
      /\ UNCHANGED <<known, size, invalid, left, right, tree, found, op, len, fp>>
  BY DEF SearchFound, Enter, node, links
<1>2. /\ IsTree(tree, known, left, right) /\ found = NULL /\ op = "longjmp"
      /\ left \in Links /\ right \in Links /\ known \in SUBSET Addr
  BY <1>1 DEF IInv, Types, Calls, Trees
<1>3. t \in known /\ t \in Nat
  <2>1. PICK S \in SUBSET known : IsTree(t, S, left, right)
    BY <1>1 DEF IInv, Trees, Searching
  <2>2. S \in SUBSET Addr
    BY <1>2
  <2> QED BY <2>1, <2>2, <1>1, <1>2, TreeRoot, Addresses
<1>4. tree # NULL
  BY <1>2, <1>3, TreeRoot
<1>5. Types'
  BY <1>1, <1>3 DEF IInv, Types
<1>6. Apart' /\ Taken'
  BY <1>1, <1>2 DEF IInv, Apart, Taken
<1>7. Calls'
  BY <1>1, <1>2 DEF IInv, Calls, InSpan
<1>8. Trees'
  <2>1. Scope' = known
    BY <1>1, <1>2 DEF Scope
  <2>2. InLoop'
    BY <2>1, <1>1, <1>2, <1>4, <1>5, Entered
  <2> QED BY <2>2, <1>1 DEF Trees
<1> QED BY <1>5, <1>6, <1>7, <1>8 DEF IInv

(* SearchEnd: there is none.                                               *)
LEMMA SearchEndInv == IInv /\ SearchEnd => IInv'
<1> SUFFICES ASSUME IInv, SearchEnd
             PROVE  IInv'
  OBVIOUS
<1>1. at = "search" /\ Finish(tree) /\ UNCHANGED <<known, size, invalid, left, right>>
  BY DEF SearchEnd, node, links
<1>2. IsTree(tree, known, left, right)
  BY <1>1 DEF IInv, Trees
<1>3. Apart'
  BY <1>1 DEF IInv, Apart
<1> QED BY <1>1, <1>2, <1>3, Finished DEF IInv, Types

(* Check: the root covers the address, or the tree is splayed.             *)
LEMMA CheckInv ==
  ASSUME IInv, NEW p \in Addr, NEW far \in Size, Check(p, far)
  PROVE  IInv'
<1>1. tree # NULL /\ Begin("check", p, far) /\ UNCHANGED fp /\ far \in Nat /\ p \in Nat
  BY MemoryAssumption DEF Check
<1>2. CASE Enter("splay", tree)
  BY <1>1, <1>2, BeginSplay
<1>3. CASE tree <= p /\ p < tree + size[tree] /\ Return(tree)
  <2>1. /\ at = "idle" /\ op' = "check" /\ addr' = p /\ len' = far /\ fp' = fp
        /\ UNCHANGED <<known, size, invalid, left, right, tree, found>>
        /\ at' = "return" /\ t' = tree /\ UNCHANGED <<by, l, r>>
    BY <1>1, <1>3 DEF Begin, Return, node, links
  <2>2. /\ found = NULL /\ by = "splay" /\ Scope = known
        /\ IsTree(tree, known, left, right)
        /\ known \in SUBSET Addr /\ left \in Links /\ right \in Links
    BY <2>1, Idle
  <2>3. tree \in known
    BY <1>1, <2>2, TreeRoot
  <2>4. Types'
    BY <1>1, <2>1 DEF IInv, Types
  <2>5. Apart' /\ Taken'
    BY <2>1, <2>2 DEF IInv, Apart, Taken
  <2>6. Calls'
    BY <1>1, <2>1, <2>2 DEF IInv, Calls
  <2>7. ASSUME NEW x \in known
        PROVE  /\ x < tree => compare(p, x) > 0
               /\ x > tree => compare(p, x) < 0
    <3>1. /\ x \in Int /\ tree \in Int /\ p \in Int
          /\ size[x] \in Nat /\ size[tree] \in Nat /\ size[x] > 0 /\ size[tree] > 0
      BY <2>2, <2>3, Addresses DEF IInv, Types, Apart
    <3>2. x < tree => x + size[x] <= tree
      BY <2>3 DEF IInv, Apart
    <3>3. tree < x => tree + size[tree] <= x
      BY <2>3 DEF IInv, Apart
    <3> QED BY <3>1, <3>2, <3>3, <1>3 DEF compare
  <2>8. Trees'
    <3>1. Scope' = known /\ \A x : Comp(x)' = compare(p, x)
      BY <2>1, <2>2 DEF Scope, Comp, compare
    <3>2. Splayed'
      BY <3>1, <2>1, <2>2, <2>7, <1>1 DEF Splayed
    <3> QED BY <3>2, <2>1 DEF Trees
  <2> QED BY <2>4, <2>5, <2>6, <2>8 DEF IInv
<1> QED BY <1>2, <1>3 DEF Check

(* After splay() the root covers the address or no region does.            *)
LEMMA Uncovering ==
  ASSUME IInv, at = "return", op = "check", by = "splay", ~Within(t)
  PROVE  Uncovered
<1>1. /\ Scope = known /\ known \in SUBSET Addr /\ t \in known
      /\ \A x \in known : (x < t => compare(addr, x) > 0) /\ (x > t => compare(addr, x) < 0)
  BY Returned DEF Comp
<1> SUFFICES ASSUME NEW x \in known
             PROVE  ~(x <= addr /\ addr < x + size[x])
  BY DEF Uncovered
<1>2. x \in Int /\ t \in Int /\ addr \in Int /\ size[x] \in Nat
  BY <1>1, Addresses DEF IInv, Types
<1>3. CASE x < t
  BY <1>1, <1>2, <1>3 DEF compare
<1>4. CASE x > t
  BY <1>1, <1>2, <1>4 DEF compare
<1>5. CASE x = t
  BY <1>5 DEF Within
<1> QED BY <1>2, <1>3, <1>4, <1>5

(* CheckAgain: the tree is splayed by the ends.                            *)
LEMMA CheckAgainInv == IInv /\ CheckAgain => IInv'
<1> SUFFICES ASSUME IInv, CheckAgain
             PROVE  IInv'
  OBVIOUS
<1>1. /\ at = "return" /\ op = "check" /\ by = "splay" /\ ~Within(t)
      /\ tree' = t /\ at' = "look" /\ by' = "splay_end" /\ t' = t /\ l' = N /\ r' = N
      /\ UNCHANGED <<known, size, invalid, left, right, found, op, addr, len, fp>>
  BY DEF CheckAgain, Enter, node, links, call
<1>2. /\ IsTree(t, known, left, right) /\ t \in known /\ t \in Addr
      /\ found = NULL /\ t # NULL
  BY <1>1, Returned, Addresses
<1>3. Uncovered
  BY <1>1, Uncovering
<1>4. Types'
  BY <1>1, <1>2 DEF IInv, Types
<1>5. Apart' /\ Taken'
  BY <1>1, <1>2 DEF IInv, Apart, Taken
<1>6. Calls'
  BY <1>1, <1>3 DEF IInv, Calls, Uncovered
<1>7. Trees'
  <2>1. Scope' = known
    BY <1>1, <1>2 DEF Scope
  <2>2. InLoop'
    BY <2>1, <1>1, <1>2, <1>4, Entered
  <2> QED BY <2>2, <1>1 DEF Trees
<1> QED BY <1>4, <1>5, <1>6, <1>7 DEF IInv

(* CheckEnd: the tree is left as it is.                                    *)
LEMMA CheckEndInv == IInv /\ CheckEnd => IInv'
<1> SUFFICES ASSUME IInv, CheckEnd
             PROVE  IInv'
  OBVIOUS
<1>1. /\ at = "return" /\ op = "check" /\ Finish(t)
      /\ UNCHANGED <<known, size, invalid, left, right>>
  <2>1. at = "return" /\ op = "check" /\ Finish(t) /\ UNCHANGED <<node, links>>
    BY Zenon DEF CheckEnd
  <2> QED BY <2>1 DEF node, links
<1>2. IsTree(t, known, left, right) /\ t \in known /\ known \in SUBSET Addr
  BY <1>1, Returned
<1>3. Apart'
  BY <1>1 DEF IInv, Apart
<1> QED BY <1>1, <1>2, <1>3, Finished DEF IInv, Types

(* No region is known at first.                                            *)
LEMMA InitInv == Init => IInv
<1> SUFFICES ASSUME Init
             PROVE  IInv
  OBVIOUS
<1>1. /\ known = {} /\ tree = NULL /\ at = "idle" /\ op = "none" /\ found = NULL
      /\ by = "splay" /\ left \in Links /\ right \in Links
  BY DEF Init, Links
<1>2. Types
  BY <1>1 DEF Init, Types
<1>3. Apart /\ Calls /\ Taken
  BY <1>1 DEF Apart, Calls, Taken
<1>4. Trees
  BY <1>1, EmptyTree DEF Trees
<1> QED BY <1>2, <1>3, <1>4 DEF IInv

(* Every step keeps the invariant.                                         *)
LEMMA NextInv == IInv /\ [Next]_vars => IInv'
<1> SUFFICES ASSUME IInv, [Next]_vars
             PROVE  IInv'
  OBVIOUS
<1>1. ASSUME NEW a \in Addr, NEW n \in Size, Insert(a, n)
      PROVE  IInv'
  BY <1>1, InsertInv
<1>2. ASSUME NEW a \in Addr, Delete(a) \/ Free(a)
      PROVE  IInv'
  BY <1>2, DeleteFreeInv
<1>3. ASSUME NEW s \in Stack, LongJump(s[1], s[2])
      PROVE  IInv'
  BY <1>3, LongJumpInv
<1>4. ASSUME NEW p \in Addr, NEW far \in Size, Check(p, far)
      PROVE  IInv'
  BY <1>4, CheckInv
<1>5. CASE Loop
  BY <1>5, RotateRightInv, RotateLeftInv, LinkRightInv, LinkLeftInv, AssembleInv DEF Loop
<1>6. CASE InsertFound \/ InsertNew
  BY <1>6, InsertFoundInv, InsertNewInv
<1>7. CASE DeleteMissed \/ DeleteLeftmost \/ DeleteSplit \/ DeleteJoin
  BY <1>7, DeleteMissedInv, DeleteLeftmostInv, DeleteSplitInv, DeleteJoinInv
<1>8. CASE FreeEnd
  BY <1>8, FreeEndInv
<1>9. CASE Search \/ SearchFound \/ SearchEnd
  BY <1>9, SearchInv, SearchFoundInv, SearchEndInv
<1>10. CASE CheckAgain \/ CheckEnd
  BY <1>10, CheckAgainInv, CheckEndInv
<1>11. CASE UNCHANGED vars
  <2>1. /\ UNCHANGED <<known, size, invalid, left, right, tree, op, addr, len, fp, found>>
        /\ UNCHANGED <<at, by, t, l, r>>
    BY <1>11 DEF vars, node, links, call, loop
  <2>2. Types' /\ Apart' /\ Taken'
    BY <2>1 DEF IInv, Types, Apart, Taken
  <2>3. Calls'
    BY <2>1 DEF IInv, Calls, Room, Uncovered, InSpan
  <2>4. Scope' = Scope /\ High' = High /\ \A x : Comp(x)' = Comp(x)
    BY <2>1 DEF Scope, High, Comp, compare, compare_end
  <2>5. Below' = Below /\ Between' = Between /\ Above' = Above
    BY <2>1, <2>4 DEF Below, Between, Above
  <2>6. /\ InLoop => InLoop'
        /\ Splayed => Splayed'
        /\ Searching => Searching'
    BY <2>1, <2>4, <2>5 DEF InLoop, Splayed, Searching, InSpan
  <2>7. Trees'
    BY <2>1, <2>6 DEF IInv, Trees
  <2> QED BY <2>2, <2>3, <2>7 DEF IInv
<1> QED
  BY <1>1, <1>2, <1>3, <1>4, <1>5, <1>6, <1>7, <1>8, <1>9, <1>10, <1>11 DEF Next

(* So it always holds: between two calls the links of the nodes are a      *)
(* search tree on the regions that are known, and in every round of        *)
(* splay() and splay_end() the part in the middle and the two parts that   *)
(* hang from N are, and no region is in none of them.                      *)
THEOREM TreeKept == Spec => []IInv
<1>1. Init => IInv
  BY InitInv
<1>2. IInv /\ [Next]_vars => IInv'
  BY NextInv
<1> QED BY <1>1, <1>2, PTL DEF Spec

-----------------------------------------------------------------------------
(* The refinement.  Regions has operators of its own, with the same names. *)
LEMMA AbsOps ==
  ASSUME NEW R, NEW a, NEW b
  PROVE  /\ Abs!Inserted(R, a, b) = Inserted(R, a, b)
         /\ Abs!Deleted(R, a) = Deleted(R, a)
         /\ Abs!Invalidated(R, a) = Invalidated(R, a)
         /\ Abs!Purged(R, a, b) = Purged(R, a, b)
         /\ Abs!Verdict(R, a, b) = Verdict(R, a, b)
<1>1. Abs!Inserted(R, a, b) = Inserted(R, a, b)
  BY DEF Inserted, Covers, End, Region, Abs!Inserted, Abs!Covers, Abs!End, Abs!Region
<1>2. Abs!Deleted(R, a) = Deleted(R, a)
  BY DEF Deleted, Abs!Deleted
<1>3. Abs!Invalidated(R, a) = Invalidated(R, a)
  BY DEF Invalidated, Abs!Invalidated
<1>4. Abs!Purged(R, a, b) = Purged(R, a, b)
  BY DEF Purged, Abs!Purged
<1>5. Abs!Verdict(R, a, b) = Verdict(R, a, b)
  BY DEF Verdict, Covers, End, Abs!Verdict, Abs!Covers, Abs!End
<1> QED BY <1>1, <1>2, <1>3, <1>4, <1>5

(* Outside a longjmp() every node is a region.                             *)
LEMMA AllRegs ==
  ASSUME op # "longjmp"
  PROVE  Regs = {Reg(n) : n \in known}
BY DEF Regs, Doomed

(* So is every node after a call.                                          *)
LEMMA AllRegsAfter ==
  ASSUME op' # "longjmp"
  PROVE  Regs' = {Reg(n)' : n \in known'}
BY DEF Regs, Doomed

(* A region is the same when its size and its mark are.                    *)
LEMMA RegSame ==
  ASSUME NEW n, size'[n] = size[n], n \in invalid' <=> n \in invalid
  PROVE  Reg(n)' = Reg(n)
<1>1. (n \in invalid') = (n \in invalid)
  OBVIOUS
<1> QED BY <1>1, Zenon DEF Reg

(* InsertFound and InsertNew: Regions' Insert.                             *)
LEMMA InsertStep ==
  ASSUME IInv, InsertFound \/ InsertNew
  PROVE  \E a \in Addr, n \in Size : Abs!Insert(a, n)
<1>1. /\ at = "return" /\ op = "insert" /\ op' = "none" /\ ans' = ans
      /\ addr \in Addr /\ len \in Size /\ Room(addr, len)
  BY DEF IInv, Calls, InsertFound, InsertNew, Finish
<1>2. Regs = {Reg(n) : n \in known} /\ Regs' = {Reg(n)' : n \in known'}
  BY <1>1, AllRegs, AllRegsAfter
<1>3. Placeable(Regs, addr, len)
  BY <1>1, <1>2, PlaceableRoom
<1>4. Regs' = Inserted(Regs, addr, len)
  <2>1. \A x : Reg(x).start = x /\ Reg(x).size = size[x]
    BY RegFields
  <2>2. CASE InsertFound
    <3>1. /\ t # NULL /\ compare(addr, t) = 0
          /\ UNCHANGED <<known, size, invalid>>
      BY <2>2 DEF InsertFound, IsThere, node
    <3>2. t \in known /\ known \in SUBSET Addr
      BY <1>1, <3>1, Returned
    <3>3. t <= addr /\ addr < t + size[t]
      BY <3>1, <3>2, <1>1, Addresses DEF compare, IInv, Types
    <3>4. \E reg \in Regs : Covers(reg, addr)
      BY <3>2, <3>3, <2>1, <1>2 DEF Covers, End
    <3>5. Regs' = Regs
      BY <3>1, <1>2 DEF Reg
    <3> QED BY <3>4, <3>5 DEF Inserted
  <2>3. CASE InsertNew
    <3>1. /\ ~IsThere /\ known' = known \union {addr} /\ invalid' = invalid
          /\ size' = [size EXCEPT ![addr] = len]
      BY <2>3 DEF InsertNew
    <3>2. /\ addr \notin known
          /\ \A x \in known : ~(x <= addr /\ addr < x + size[x])
      BY <1>1, <3>1, NotThere
    <3>3. ~\E reg \in Regs : Covers(reg, addr)
      BY <3>2, <2>1, <1>2 DEF Covers, End
    <3>4. /\ size'[addr] = len /\ addr \notin invalid'
          /\ \A x \in known : size'[x] = size[x]
      BY <3>1, <3>2, <1>1 DEF IInv, Types
    <3>5. \A x \in known : Reg(x)' = Reg(x)
      <4> SUFFICES ASSUME NEW x \in known
                   PROVE  Reg(x)' = Reg(x)
        OBVIOUS
      <4> QED BY <3>1, <3>4, RegSame
    <3> PICK a \in Addr : a = addr
      BY <1>1
    <3>6. Reg(a)' = Region(a, len)
      <4>1. (a \in invalid') = FALSE
        BY <3>4
      <4>2. Reg(a)' = [start |-> a, size |-> size'[a], is_invalid |-> FALSE]
        BY <4>1, Zenon DEF Reg
      <4>3. size'[a] = len
        BY <3>4
      <4> QED BY <4>2, <4>3, Zenon DEF Region
    <3>7. Regs' = Regs \union {Region(addr, len)}
      <4>1. Regs' = {Reg(n)' : n \in known \union {a}}
        BY <3>1, <1>2
      <4>2. {Reg(n)' : n \in known \union {a}} = {Reg(n) : n \in known} \union {Region(a, len)}
        BY <3>5, <3>6
      <4> QED BY <4>1, <4>2, <1>2
    <3> QED BY <3>3, <3>7 DEF Inserted
  <2> QED BY <2>2, <2>3
<1>5. Abs!Insert(addr, len)
  BY <1>1, <1>3, <1>4, AbsOps DEF Abs!Insert
<1> QED BY <1>1, <1>5

(* After splay() the node of an address is at the root, if there is one.   *)
LEMMA AtRoot ==
  ASSUME IInv, at = "return", found = NULL, op \in {"delete", "free", "longjmp"},
         t # addr
  PROVE  addr \notin known
<1>1. /\ Scope = known /\ by = "splay" /\ known \in SUBSET Addr /\ t \in known
      /\ \A x \in known : (x < t => compare(addr, x) > 0) /\ (x > t => compare(addr, x) < 0)
  BY Returned DEF Comp
<1> SUFFICES ASSUME addr \in known
             PROVE  FALSE
  OBVIOUS
<1>2. addr \in Int /\ t \in Int /\ size[addr] \in Nat /\ size[addr] > 0
  BY <1>1, Addresses DEF IInv, Types, Apart
<1>3. addr < t \/ addr > t
  BY <1>2
<1>4. ~(compare(addr, addr) > 0) /\ ~(compare(addr, addr) < 0)
  BY <1>2 DEF compare
<1> QED BY <1>1, <1>3, <1>4

(* FreeEnd: Regions' Free.                                                 *)
LEMMA FreeStep ==
  ASSUME IInv, FreeEnd
  PROVE  \E a \in Addr : Abs!Free(a)
<1>1. /\ at = "return" /\ op = "free" /\ op' = "none" /\ ans' = ans /\ addr \in Addr
      /\ known' = known /\ size' = size
      /\ invalid' = IF t = addr THEN invalid \union {t} ELSE invalid
  BY DEF IInv, Calls, FreeEnd, Finish
<1>2. Regs = {Reg(n) : n \in known} /\ Regs' = {Reg(n)' : n \in known}
  BY <1>1, AllRegs, AllRegsAfter
<1>3. ASSUME NEW n \in known
      PROVE  Reg(n)' = IF Reg(n).start = addr THEN [Reg(n) EXCEPT !.is_invalid = TRUE] ELSE Reg(n)
  <2>1. Reg(n).start = n
    BY RegFields
  <2>2. CASE n = addr
    <3>1. t = addr
      BY <1>1, <2>2, AtRoot, Returned
    <3>2. n \in invalid' /\ size'[n] = size[n]
      BY <3>1, <2>2, <1>1
    <3>3. Reg(n)' = [start |-> n, size |-> size[n], is_invalid |-> TRUE]
      BY <3>2, Zenon DEF Reg
    <3>4. [Reg(n) EXCEPT !.is_invalid = TRUE] = [start |-> n, size |-> size[n], is_invalid |-> TRUE]
      <4>1. \A a, m, v, y : [[start |-> a, size |-> m, is_invalid |-> v] EXCEPT !.is_invalid = y]
                              = [start |-> a, size |-> m, is_invalid |-> y]
        OBVIOUS
      <4> QED BY <4>1, Zenon DEF Reg
    <3> QED BY <3>3, <3>4, <2>1, <2>2
  <2>3. CASE n # addr
    <3>1. size'[n] = size[n] /\ (n \in invalid' <=> n \in invalid)
      BY <2>3, <1>1
    <3> QED BY <3>1, <2>1, <2>3, RegSame
  <2> QED BY <2>2, <2>3
<1>4. Regs' = Invalidated(Regs, addr)
  BY <1>2, <1>3 DEF Invalidated
<1>5. Abs!Free(addr)
  BY <1>1, <1>4, AbsOps DEF Abs!Free
<1> QED BY <1>1, <1>5

(* LongJump: Regions' LongJump; what is to be deleted counts no more.      *)
LEMMA LongJumpStep ==
  ASSUME IInv, NEW s \in Stack, LongJump(s[1], s[2])
  PROVE  Abs!LongJump(s[1], s[2])
<1>1. /\ op = "none" /\ op' = "longjmp" /\ fp' = <<s[1], s[2]>> /\ ans' = ans
      /\ known' = known /\ size' = size /\ invalid' = invalid
  BY Idle DEF LongJump, Begin, node
<1>2. Regs = {Reg(n) : n \in known}
  BY <1>1, AllRegs
<1>3. Regs' = {Reg(n) : n \in {x \in known : ~(s[1] <= x /\ x <= s[2])}}
  <2>1. Doomed' = {x \in known : s[1] <= x /\ x <= s[2]}
    BY <1>1 DEF Doomed, InSpan
  <2>2. \A n : Reg(n)' = Reg(n)
    BY <1>1 DEF Reg
  <2> QED BY <2>1, <2>2, <1>1 DEF Regs
<1>4. \A n : Reg(n).start = n
  BY RegFields
<1>5. Regs' = Purged(Regs, s[1], s[2])
  BY <1>2, <1>3, <1>4 DEF Purged
<1> QED BY <1>1, <1>5, AbsOps DEF Abs!LongJump

(* A node that is freed: its region is not there any more.                 *)
LEMMA FreedStep ==
  ASSUME IInv, NEW n \in known, n = addr, FreeNode(n), Deletes,
         NEW q, Deletion(q), ans' = ans
  PROVE  (\E a \in Addr : Abs!Delete(a)) \/ UNCHANGED <<Regs, ans>>
<1>1. /\ known' = known \ {n}
      /\ \A x \in known' : Reg(x)' = Reg(x)
  BY NodeFreed, RegSame
<1>2. CASE op = "delete"
  <2>1. op' = "none" /\ addr \in Addr
    BY <1>2 DEF Deletion, Finish, IInv, Calls
  <2>2. Regs = {Reg(x) : x \in known} /\ Regs' = {Reg(x)' : x \in known'}
    BY <1>2, <2>1, AllRegs, AllRegsAfter
  <2>3. \A x : Reg(x).start = x
    BY RegFields
  <2>4. Regs' = {Reg(x) : x \in known \ {n}}
    BY <1>1, <2>2
  <2>5. Regs' = Deleted(Regs, addr)
    BY <2>2, <2>3, <2>4 DEF Deleted
  <2>6. Abs!Delete(addr)
    BY <2>5, AbsOps DEF Abs!Delete
  <2> QED BY <2>1, <2>6
<1>3. CASE op = "longjmp"
  <2>1. op' = "longjmp" /\ fp' = fp /\ InSpan(n)
    BY <1>3 DEF Deletion, call, IInv, Calls, Deletes
  <2>2. known' \ Doomed' = known \ Doomed
    BY <1>1, <1>3, <2>1 DEF Doomed, InSpan
  <2>3. Regs' = {Reg(x)' : x \in known \ Doomed}
    BY <2>2 DEF Regs
  <2>4. \A x \in known \ Doomed : Reg(x)' = Reg(x)
    BY <1>1, <2>2
  <2>5. Regs' = Regs
    BY <2>3, <2>4 DEF Regs
  <2> QED BY <2>5
<1> QED BY <1>2, <1>3 DEF Deletes

(* The deletions: Regions' Delete, if __bound_long_jump() is not at work.  *)
LEMMA DeleteStep ==
  ASSUME IInv, DeleteMissed \/ DeleteLeftmost \/ DeleteJoin
  PROVE  (\E a \in Addr : Abs!Delete(a)) \/ UNCHANGED <<Regs, ans>>
<1>1. CASE DeleteMissed
  <2>1. /\ at = "return" /\ op \in {"delete", "longjmp"} /\ found = NULL /\ t # addr
        /\ Deletion(t) /\ UNCHANGED <<known, size, invalid, ans>>
    BY <1>1 DEF DeleteMissed, Deletes, node
  <2>2. \A x : Reg(x)' = Reg(x)
    BY <2>1 DEF Reg
  <2>3. CASE op = "delete"
    <3>1. op' = "none" /\ addr \in Addr
      BY <2>1, <2>3 DEF Deletion, Finish, IInv, Calls
    <3>2. Regs = {Reg(x) : x \in known} /\ Regs' = {Reg(x) : x \in known}
      BY <2>1, <2>2, <2>3, <3>1, AllRegs, AllRegsAfter
    <3>3. addr \notin known
      BY <2>1, AtRoot
    <3>4. \A x : Reg(x).start = x
      BY RegFields
    <3>5. Regs' = Deleted(Regs, addr)
      BY <3>2, <3>3, <3>4 DEF Deleted
    <3>6. Abs!Delete(addr)
      BY <2>1, <3>5, AbsOps DEF Abs!Delete
    <3> QED BY <3>1, <3>6
  <2>4. CASE op = "longjmp"
    <3>1. op' = op /\ fp' = fp
      BY <2>1, <2>4 DEF Deletion, call
    <3>2. Regs' = Regs
      BY <2>1, <2>2, <3>1 DEF Regs, Doomed, InSpan
    <3> QED BY <2>1, <3>2
  <2> QED BY <2>1, <2>3, <2>4
<1>2. CASE DeleteLeftmost
  <2>1. /\ Deletes /\ at = "return" /\ op # "insert" /\ found = NULL /\ t = addr
        /\ FreeNode(t) /\ Deletion(right[t]) /\ ans' = ans
    BY <1>2 DEF DeleteLeftmost, Deletes
  <2>2. t \in known
    BY <2>1, Returned
  <2> QED BY <2>1, <2>2, FreedStep
<1>3. CASE DeleteJoin
  <2>1. /\ Deletes /\ found # NULL /\ FreeNode(found) /\ Deletion(t) /\ ans' = ans
    BY <1>3 DEF DeleteJoin
  <2>2. found \in known /\ found = addr
    BY <2>1 DEF IInv, Taken
  <2> QED BY <2>1, <2>2, FreedStep
<1> QED BY <1>1, <1>2, <1>3

(* The regions that Verdict() asks.                                        *)
LEMMA VerdictOf ==
  ASSUME NEW R, NEW p, NEW far, NEW q \in R,
         \/ \A reg \in R : Covers(reg, p) <=> reg = q
         \/ /\ \A reg \in R : ~Covers(reg, p)
            /\ \A reg \in R : End(reg) = p <=> reg = q
  PROVE  Verdict(R, p, far)
           = IF ~q.is_invalid /\ p + far <= End(q) THEN "inside" ELSE "outside"
<1> DEFINE in == {reg \in R : Covers(reg, p)}
           at1 == IF in # {} THEN in ELSE {reg \in R : End(reg) = p}
<1>1. at1 = {q}
  OBVIOUS
<1>2. Verdict(R, p, far) = IF at1 = {} THEN "not found"
                           ELSE IF \A reg \in at1 : ~reg.is_invalid /\ p + far <= End(reg)
                           THEN "inside" ELSE "outside"
  BY DEF Verdict
<1> HIDE DEF at1
<1>3. Verdict(R, p, far) = IF \A reg \in {q} : ~reg.is_invalid /\ p + far <= End(reg)
                           THEN "inside" ELSE "outside"
  BY <1>1, <1>2, Zenon
<1>4. (\A reg \in {q} : ~reg.is_invalid /\ p + far <= End(reg))
        <=> ~q.is_invalid /\ p + far <= End(q)
  OBVIOUS
<1> QED BY <1>3, <1>4, Zenon

(* No region covers the address, or ends there.                            *)
LEMMA NoVerdict ==
  ASSUME NEW R, NEW p, NEW far, \A reg \in R : ~Covers(reg, p) /\ End(reg) # p
  PROVE  Verdict(R, p, far) = "not found"
BY DEF Verdict

(* CheckEnd: Regions' Check.                                               *)
LEMMA CheckStep ==
  ASSUME IInv, CheckEnd
  PROVE  \E p \in Addr, far \in Size : Abs!Check(p, far)
<1>1. /\ at = "return" /\ op = "check" /\ op' = "none"
      /\ (by = "splay_end" \/ Within(t))
      /\ UNCHANGED <<known, size, invalid>>
      /\ addr \in Addr /\ len \in Size /\ len \in Nat
  <2>1. /\ at = "return" /\ op = "check" /\ (by = "splay_end" \/ Within(t))
        /\ Finish(t) /\ UNCHANGED <<node, links>>
    BY Zenon DEF CheckEnd
  <2>2. addr \in Addr /\ len \in Size
    BY <2>1 DEF IInv, Calls
  <2> QED BY <2>1, <2>2, MemoryAssumption DEF node, Finish
<1>2. ans' = IF ~(t <= addr /\ addr <= t + size[t]) THEN "not found"
             ELSE IF t \in invalid \/ addr + len > t + size[t] THEN "outside"
             ELSE "inside"
  BY Zenon DEF CheckEnd
<1>3. /\ Scope = known /\ known \in SUBSET Addr /\ t \in known
      /\ \A x \in known : (x < t => Comp(x) > 0) /\ (x > t => Comp(x) < 0)
  BY <1>1, Returned
<1>4. /\ Regs = {Reg(n) : n \in known} /\ Regs' = {Reg(n)' : n \in known}
      /\ \A n : Reg(n)' = Reg(n)
  <2>1. \A n : Reg(n)' = Reg(n)
    BY <1>1 DEF Reg
  <2> QED BY <2>1, <1>1, AllRegs, AllRegsAfter
<1>5. \A n : Reg(n).start = n /\ Reg(n).size = size[n] /\ (Reg(n).is_invalid <=> n \in invalid)
  BY RegFields
<1>6. \A n : /\ Covers(Reg(n), addr) <=> n <= addr /\ addr < n + size[n]
             /\ End(Reg(n)) = n + size[n]
             /\ \A m : Reg(n) = Reg(m) <=> n = m
  BY <1>5 DEF Covers, End
<1>7. /\ \A x \in known : x \in Int /\ size[x] \in Int /\ size[x] > 0
      /\ \A x, y \in known : x < y => x + size[x] <= y
      /\ addr \in Int /\ len \in Int
  BY <1>1, <1>3, Addresses DEF IInv, Types, Apart
<1>8. ASSUME \/ \A reg \in Regs : Covers(reg, addr) <=> reg = Reg(t)
             \/ /\ \A reg \in Regs : ~Covers(reg, addr)
                /\ \A reg \in Regs : End(reg) = addr <=> reg = Reg(t),
             t <= addr, addr <= t + size[t]
      PROVE  ans' = Verdict(Regs, addr, len)
  <2>1. Reg(t) \in Regs
    BY <1>3, <1>4
  <2>2. Verdict(Regs, addr, len)
          = IF ~Reg(t).is_invalid /\ addr + len <= End(Reg(t)) THEN "inside" ELSE "outside"
    BY <1>8, <2>1, VerdictOf
  <2>3. /\ Reg(t).is_invalid <=> t \in invalid
        /\ addr + len <= End(Reg(t)) <=> ~(addr + len > t + size[t])
    BY <1>3, <1>5, <1>6, <1>7
  <2>4. ans' = IF t \in invalid \/ addr + len > t + size[t] THEN "outside" ELSE "inside"
    BY <1>2, <1>8, Zenon
  <2> QED BY <2>2, <2>3, <2>4, Zenon
<1>9. ASSUME Within(t)
      PROVE  ans' = Verdict(Regs, addr, len)
  <2>1. t <= addr /\ addr < t + size[t]
    BY <1>9 DEF Within
  <2>2. \A x \in known : (x <= addr /\ addr < x + size[x]) <=> x = t
    BY <1>3, <1>7, <2>1
  <2>3. \A reg \in Regs : Covers(reg, addr) <=> reg = Reg(t)
    BY <1>4, <1>6, <2>2
  <2>4. addr <= t + size[t]
    BY <1>3, <1>7, <2>1
  <2> QED BY <1>8, <2>1, <2>3, <2>4, Zenon
<1>10. ASSUME by = "splay_end"
       PROVE  ans' = Verdict(Regs, addr, len)
  <2>1. \A x \in known : ~(x <= addr /\ addr < x + size[x])
    BY <1>10 DEF IInv, Calls, Uncovered
  <2>2. \A reg \in Regs : ~Covers(reg, addr)
    BY <2>1, <1>4, <1>6
  <2>3. ASSUME NEW x \in known, x # t
        PROVE  x + size[x] # addr
    <3>1. (x < t => compare_end(addr, x) > 0) /\ (x > t => compare_end(addr, x) < 0)
      BY <1>3, <1>10 DEF Comp
    <3>2. x \in Int /\ size[x] \in Int /\ t \in Int
      BY <1>3, <1>7
    <3>3. x < t \/ x > t
      BY <2>3, <3>2
    <3> QED BY <3>1, <3>2, <3>3, <1>7 DEF compare_end
  <2>4. CASE addr = t + size[t]
    <3>1. \A reg \in Regs : End(reg) = addr <=> reg = Reg(t)
      BY <2>3, <2>4, <1>4, <1>6
    <3>2. t <= addr /\ addr <= t + size[t]
      BY <2>4, <1>3, <1>7
    <3> QED BY <1>8, <2>2, <3>1, <3>2, Zenon
  <2>5. CASE addr # t + size[t]
    <3>1. \A reg \in Regs : ~Covers(reg, addr) /\ End(reg) # addr
      BY <2>2, <2>3, <2>5, <1>4, <1>6
    <3>2. ~(t <= addr /\ addr <= t + size[t])
      BY <2>1, <2>5, <1>3, <1>7
    <3>3. Verdict(Regs, addr, len) = "not found"
      BY <3>1, NoVerdict, Zenon
    <3> QED BY <3>2, <3>3, <1>2, Zenon
  <2> QED BY <2>4, <2>5
<1>11. ans' = Verdict(Regs, addr, len) /\ Regs' = Regs
  <2>1. Regs' = Regs
    BY <1>4
  <2> QED BY <2>1, <1>1, <1>9, <1>10, Zenon
<1>12. Abs!Check(addr, len)
  BY <1>11, AbsOps DEF Abs!Check
<1> QED BY <1>1, <1>12

(* The other steps do not show.                                            *)
LEMMA Unseen ==
  ASSUME UNCHANGED <<known, size, invalid, ans>>, Doomed' = Doomed
  PROVE  UNCHANGED <<Regs, ans>>
<1>1. \A n : Reg(n)' = Reg(n)
  BY DEF Reg
<1>2. Regs' = Regs
  BY <1>1 DEF Regs
<1> QED BY <1>2

(* A round of a loop, and the beginning of a call that is no longjmp().    *)
LEMMA StutterSteps ==
  ASSUME IInv,
         \/ Loop \/ DeleteSplit \/ Search \/ SearchFound \/ CheckAgain
         \/ \E a \in Addr, n \in Size : Insert(a, n) \/ Check(a, n)
         \/ \E a \in Addr : Delete(a) \/ Free(a)
  PROVE  UNCHANGED <<Regs, ans>>
<1>1. CASE Loop \/ DeleteSplit \/ Search \/ SearchFound \/ CheckAgain
  <2>1. UNCHANGED <<known, size, invalid, ans, op, fp>>
    BY <1>1 DEF Loop, RotateRight, RotateLeft, LinkRight, LinkLeft, Assemble, DeleteSplit,
                Search, SearchFound, CheckAgain, node, call
  <2>2. Doomed' = Doomed
    BY <2>1 DEF Doomed, InSpan
  <2> QED BY <2>1, <2>2, Unseen
<1>2. CASE \/ \E a \in Addr, n \in Size : Insert(a, n) \/ Check(a, n)
           \/ \E a \in Addr : Delete(a) \/ Free(a)
  <2>1. /\ at = "idle" /\ op' \in {"insert", "check", "delete", "free"}
        /\ UNCHANGED <<known, size, invalid, ans>>
    BY <1>2 DEF Insert, Check, Delete, Free, Begin, node
  <2>2. Doomed = {} /\ Doomed' = {}
    BY <2>1, Idle DEF Doomed
  <2> QED BY <2>1, <2>2, Unseen
<1> QED BY <1>1, <1>2

(* SearchEnd: every region that begins in the part of the stack is gone.   *)
LEMMA SearchEndStep ==
  ASSUME IInv, SearchEnd
  PROVE  UNCHANGED <<Regs, ans>>
<1>1. /\ at = "search" /\ t = NULL /\ op' = "none"
      /\ UNCHANGED <<known, size, invalid, ans>>
  BY DEF SearchEnd, Finish, node
<1>2. PICK S \in SUBSET known :
        IsTree(t, S, left, right) /\ \A n \in known : InSpan(n) => n \in S
  BY <1>1 DEF IInv, Trees, Searching
<1>3. S = {}
  <2>1. S \in SUBSET Addr /\ left \in Links /\ right \in Links
    BY DEF IInv, Types
  <2> QED BY <2>1, <1>1, <1>2, TreeRoot
<1>4. Doomed = {} /\ Doomed' = {}
  BY <1>1, <1>2, <1>3 DEF Doomed
<1> QED BY <1>1, <1>4, Unseen

(* Every step is one of Regions or does not show.                          *)
LEMMA StepRefines ==
  ASSUME IInv, [Next]_vars
  PROVE  [Abs!Next]_<<Regs, ans>>
<1>1. CASE \E s \in Stack : LongJump(s[1], s[2])
  BY <1>1, LongJumpStep DEF Abs!Next
<1>2. CASE InsertFound \/ InsertNew
  BY <1>2, InsertStep DEF Abs!Next
<1>3. CASE DeleteMissed \/ DeleteLeftmost \/ DeleteJoin
  BY <1>3, DeleteStep DEF Abs!Next
<1>4. CASE FreeEnd
  BY <1>4, FreeStep DEF Abs!Next
<1>5. CASE CheckEnd
  BY <1>5, CheckStep DEF Abs!Next
<1>6. CASE SearchEnd
  BY <1>6, SearchEndStep
<1>7. CASE \/ Loop \/ DeleteSplit \/ Search \/ SearchFound \/ CheckAgain
           \/ \E a \in Addr, n \in Size : Insert(a, n) \/ Check(a, n)
           \/ \E a \in Addr : Delete(a) \/ Free(a)
  BY <1>7, StutterSteps
<1>8. CASE UNCHANGED vars
  <2>1. UNCHANGED <<known, size, invalid, ans, op, fp>>
    BY <1>8 DEF vars, node, call
  <2>2. Doomed' = Doomed
    BY <2>1 DEF Doomed, InSpan
  <2> QED BY <2>1, <2>2, Unseen
<1> QED
  BY <1>1, <1>2, <1>3, <1>4, <1>5, <1>6, <1>7, <1>8 DEF Next

(* TreeIsSet: whatever the shape of the tree, a call does to the regions,  *)
(* and a check answers, what Regions says of a set of them; the keys       *)
(* splay() and splay_end() look for are ordered alike, splay_delete()      *)
(* loses no region where it joins two subtrees, and the search of          *)
(* __bound_long_jump() misses none that it has to delete.                  *)
THEOREM TreeRefinesSet == Spec => TreeIsSet
<1>1. Init => Abs!Init
  <2> SUFFICES ASSUME Init
               PROVE  Abs!Init
    OBVIOUS
  <2>1. Regs = {} /\ ans = "inside"
    BY DEF Init, Regs
  <2> QED BY <2>1 DEF Abs!Init
<1>2. IInv /\ [Next]_vars => [Abs!Next]_<<Regs, ans>>
  BY StepRefines
<1> QED BY <1>1, <1>2, TreeKept, PTL DEF Spec, TreeIsSet, Abs!Spec

-----------------------------------------------------------------------------
(* A round of splay() or splay_end() is the last one, or turns and the     *)
(* next one does not, or leaves the root out of the part in the middle.    *)
Closer ==
  \/ at' = "return"
  \/ at = "look" /\ at' = "turned" /\ Between' = Between
  \/ at' = "look" /\ t \in Between /\ Between' \subseteq Between \ {t}

(* RoundsCount: the for (;;) of splay() and splay_end() goes round at most *)
(* twice for each node of the tree and once more, whatever its shape: no   *)
(* node comes back to the root by the links that were changed.             *)
THEOREM RoundsCount == Spec => [][Loop => Closer]_vars
<1>1. ASSUME IInv, Loop
      PROVE  Closer
  <2>1. at \in {"look", "turned"}
    BY <1>1 DEF Loop, RotateRight, RotateLeft, LinkRight, LinkLeft, Assemble, Turns, GoesOn
  <2>2. /\ Scope \in SUBSET Addr /\ t \in Between /\ l \in Int /\ High \in Int
        /\ t \in Addr /\ t # N
    BY <1>1, <2>1, InLoopFacts DEF InLoop
  <2>3. \A x \in Scope : x \in Int
    BY <2>2, Addresses
  <2>4. l < t /\ t < High /\ t \in Int
    BY <2>2, <2>3 DEF Between
  <2>5. CASE Assemble
    BY <2>5 DEF Assemble, Return, Closer
  <2>6. CASE RotateRight \/ RotateLeft
    <3>1. /\ at = "look" /\ at' = "turned"
          /\ UNCHANGED <<node, call, found, l, r>>
      BY <2>6 DEF RotateRight, RotateLeft, Turns
    <3>2. Between' = Between
      BY <3>1 DEF Between, Scope, High, node
    <3> QED BY <3>1, <3>2 DEF Closer
  <2>7. CASE LinkRight
    <3>1. /\ at' = "look" /\ r' = t /\ l' = l /\ known' = known /\ found' = found
      BY <2>7 DEF LinkRight, node
    <3>2. Scope' = Scope /\ High' = t
      BY <3>1, <2>2 DEF Scope, High
    <3>3. Between' = {x \in Scope : l < x /\ x < t}
      BY <3>1, <3>2 DEF Between
    <3>4. \A x \in Scope : l < x /\ x < t => l < x /\ x < High /\ x # t
      BY <2>2, <2>3, <2>4
    <3> QED BY <3>1, <3>3, <3>4, <2>2 DEF Closer, Between
  <2>8. CASE LinkLeft
    <3>1. /\ at' = "look" /\ l' = t /\ r' = r /\ known' = known /\ found' = found
      BY <2>8 DEF LinkLeft, node
    <3>2. Scope' = Scope /\ High' = High
      BY <3>1 DEF Scope, High
    <3>3. Between' = {x \in Scope : t < x /\ x < High}
      BY <3>1, <3>2 DEF Between
    <3>4. \A x \in Scope : t < x /\ x < High => l < x /\ x < High /\ x # t
      BY <2>2, <2>3, <2>4
    <3> QED BY <3>1, <3>3, <3>4, <2>2 DEF Closer, Between
  <2> QED BY <1>1, <2>5, <2>6, <2>7, <2>8 DEF Loop
<1>2. IInv /\ [Next]_vars => [Loop => Closer]_vars
  BY <1>1
<1> QED BY <1>2, TreeKept, PTL DEF Spec
=============================================================================
