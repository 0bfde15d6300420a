---------------------------- MODULE ElfSymProofs ----------------------------
(***************************************************************************)
(* Proofs about ElfSym, for any names, hash function, symbols, archives    *)
(* and number of symbols: the chains of the hash lead to every symbol,     *)
(* relocations keep their symbols through the merging at the end of a      *)
(* compilation, and an entry is the one that the precedence of the symbols *)
(* of its name calls for, in every order.                                  *)
(***************************************************************************)
EXTENDS ElfSym, SequenceTheorems, WellFoundedInduction, TLAPS

-----------------------------------------------------------------------------
(* A set of numbers has a least one.  The provers cannot instantiate an    *)
(* induction theorem, which takes a predicate; what they do by induction   *)
(* here takes the least counterexample instead.                            *)
LEMMA LeastNat ==
  ASSUME NEW T, T \subseteq Nat, T # {}
  PROVE  \E m \in T : \A k \in T : m <= k
<1> DEFINE R == OpToRel(<, Nat)
<1>1. PICK m \in T : \A k \in T : ~ (<<k, m>> \in R)
  BY NatLessThanWellFounded, WFMin
<1>2. R = {s \in Nat \X Nat : s[1] < s[2]}
  BY DEF OpToRel
<1> HIDE DEF R
<1>3. ASSUME NEW k \in T, k < m PROVE FALSE
  <2>1. <<k, m>> \in R
    BY <1>2, <1>3
  <2> QED
    BY <2>1, <1>1
<1> QED
  BY <1>3

(* What Largest() returns: the newest symbol of a chain, or 0. *)
LEMMA LargestIn ==
  ASSUME NEW n \in Nat, NEW S, S \subseteq 1..n
  PROVE  /\ Largest(S) \in 0..n
         /\ S = {} => Largest(S) = 0
         /\ S # {} => Largest(S) \in S /\ \A y \in S : y <= Largest(S)
<1>1. CASE S = {}
  BY <1>1 DEF Largest
<1>2. CASE S # {}
  <2> DEFINE T == {k \in 0..n : n - k \in S}
  <2>1. T \subseteq Nat /\ T # {}
    <3>1. PICK y \in S : TRUE
      BY <1>2
    <3>2. y \in 1..n
      BY <3>1
    <3>3. n - y \in 0..n /\ n - (n - y) = y
      BY <3>2
    <3>4. n - (n - y) \in S
      BY <3>3, Zenon
    <3>5. n - y \in T
      BY <3>3, <3>4
    <3>6. T \subseteq Nat
      OBVIOUS
    <3> HIDE DEF T
    <3> QED
      BY <3>5, <3>6
  <2>2. PICK m \in T : \A k \in T : m <= k
    BY <2>1, LeastNat
  <2>3. n - m \in S
    BY <2>2
  <2>4. ASSUME NEW y \in S PROVE y <= n - m
    <3>1. n - y \in T
      OBVIOUS
    <3> QED
      BY <3>1, <2>2
  <2>5. \E x \in S : \A y \in S : y <= x
    BY <2>3, <2>4
  <2>6. Largest(S) \in S /\ \A y \in S : y <= Largest(S)
    BY <2>5, <1>2, Zenon DEF Largest
  <2> HIDE DEF T
  <2>7. Largest(S) \in 1..n
    BY <2>6, Zenon
  <2> QED
    BY <2>6, <2>7, <1>2
<1> QED
  BY <1>1, <1>2

-----------------------------------------------------------------------------
(* The symbols of syms up to n that are on the chain of bucket h. *)
On(syms, nb, h, n) ==
  {i \in 1..n : syms[i].bind # "LOCAL" /\ BucketOf(syms[i].name, nb) = h}

(* A table's hash is what rebuild_hash() would make of its symbols.        *)
Chained(t) ==
  /\ t = [syms |-> t.syms, hash |-> t.hash, new_undef_sym |-> t.new_undef_sym]
  /\ t.syms \in Seq(Symbol)
  /\ t.new_undef_sym \in BOOLEAN
  /\ t.hash.nb \in Nat \ {0}
  /\ t.hash.hashed \in Nat
  /\ t.hash = rebuild_hash(t.syms, t.hash.nb, t.hash.hashed)

(* Two entries for a name: none but LOCAL ones. *)
OneEach(syms) ==
  \A i, j \in 1..Len(syms) :
    /\ syms[i].bind # "LOCAL" /\ syms[j].bind # "LOCAL"
    /\ syms[i].name = syms[j].name
    => i = j

(* The buckets are those of the hash function. *)
LEMMA BucketIn ==
  ASSUME NEW n \in Name, NEW nb \in Nat \ {0}
  PROVE  BucketOf(n, nb) \in 0..(nb - 1)
<1>1. ElfHash[n] \in Nat
  BY HashAssumption
<1> QED
  BY <1>1 DEF BucketOf

(* r is the hash that rebuild_hash() makes, one bucket and one symbol at a *)
(* time.                                                                   *)
Rebuilt(r, syms, nb, hashed) ==
  /\ r = [nb |-> nb, bucket |-> r.bucket, chain |-> r.chain, hashed |-> hashed]
  /\ r.bucket = [h \in 0..(nb - 1) |-> r.bucket[h]]
  /\ \A h \in 0..(nb - 1) : r.bucket[h] = Largest(On(syms, nb, h, Len(syms)))
  /\ r.chain = [i \in 1..Len(syms) |-> r.chain[i]]
  /\ \A i \in 1..Len(syms) :
       r.chain[i] = IF syms[i].bind = "LOCAL" THEN 0
                    ELSE Largest(On(syms, nb, BucketOf(syms[i].name, nb), i - 1))

(* What rebuild_hash() makes. *)
LEMMA RebuildAt ==
  ASSUME NEW syms, NEW nb, NEW hashed
  PROVE  Rebuilt(rebuild_hash(syms, nb, hashed), syms, nb, hashed)
<1> DEFINE r == rebuild_hash(syms, nb, hashed)
<1> DEFINE B == [h \in 0..(nb - 1) |-> Largest(On(syms, nb, h, Len(syms)))]
           C == [i \in 1..Len(syms) |->
                   IF syms[i].bind = "LOCAL" THEN 0
                   ELSE Largest(On(syms, nb, BucketOf(syms[i].name, nb), i - 1))]
<1>1. r = [nb |-> nb, bucket |-> B, chain |-> C, hashed |-> hashed]
  BY Zenon DEF rebuild_hash, On
<1>2. /\ B = [h \in 0..(nb - 1) |-> B[h]]
      /\ \A h \in 0..(nb - 1) : B[h] = Largest(On(syms, nb, h, Len(syms)))
  OBVIOUS
<1>3. /\ C = [i \in 1..Len(syms) |-> C[i]]
      /\ \A i \in 1..Len(syms) :
           C[i] = IF syms[i].bind = "LOCAL" THEN 0
                  ELSE Largest(On(syms, nb, BucketOf(syms[i].name, nb), i - 1))
  OBVIOUS
<1> HIDE DEF B, C, r
<1>4. r.bucket = B /\ r.chain = C
  BY <1>1
<1> QED
  BY <1>1, <1>2, <1>3, <1>4, Zenon DEF Rebuilt, r

(* The same, of the hash of a table. *)
LEMMA ChainedAt ==
  ASSUME NEW t, Chained(t)
  PROVE  /\ \A h \in 0..(t.hash.nb - 1) :
              t.hash.bucket[h] = Largest(On(t.syms, t.hash.nb, h, Len(t.syms)))
         /\ \A i \in 1..Len(t.syms) :
              t.hash.chain[i] = IF t.syms[i].bind = "LOCAL" THEN 0
                                ELSE Largest(On(t.syms, t.hash.nb,
                                                BucketOf(t.syms[i].name, t.hash.nb), i - 1))
<1>1. Rebuilt(t.hash, t.syms, t.hash.nb, t.hash.hashed)
  BY RebuildAt DEF Chained
<1> QED
  BY <1>1 DEF Rebuilt

(* A chain leads to older symbols. *)
LEMMA ChainDown ==
  ASSUME NEW t, Chained(t), NEW i \in 1..Len(t.syms)
  PROVE  t.hash.chain[i] \in 0..(i - 1)
<1> DEFINE S == On(t.syms, t.hash.nb, BucketOf(t.syms[i].name, t.hash.nb), i - 1)
<1>1. i - 1 \in Nat /\ S \subseteq 1..(i - 1)
  BY DEF On
<1>2. Largest(S) \in 0..(i - 1)
  BY <1>1, LargestIn
<1>3. t.hash.chain[i] = IF t.syms[i].bind = "LOCAL" THEN 0 ELSE Largest(S)
  BY ChainedAt
<1> HIDE DEF S
<1> QED
  BY <1>2, <1>3

-----------------------------------------------------------------------------
(* find_elf_sym(): f walks the chains of the symbols up to m for name n.   *)
Walks(t, n, m, f) ==
  f = [i \in 0..m |-> IF i = 0 \/ t.syms[i].name = n THEN i ELSE f[t.hash.chain[i]]]

(* There is such a walk: chains lead to older symbols, so that the walk    *)
(* from a symbol only needs those that begin before it.                    *)
LEMMA WalkExists ==
  ASSUME NEW t, Chained(t), NEW n
  PROVE  \E f : Walks(t, n, Len(t.syms), f)
<1> DEFINE Bad == {m \in 0..Len(t.syms) : ~ \E f : Walks(t, n, m, f)}
<1>1. Len(t.syms) \in Nat
  BY DEF Chained
<1>2. SUFFICES Bad = {}
  BY <1>1
<1>3. SUFFICES ASSUME Bad # {} PROVE FALSE
  OBVIOUS
<1>4. PICK m \in Bad : \A k \in Bad : m <= k
  <2>1. Bad \subseteq Nat
    BY <1>1
  <2> HIDE DEF Bad
  <2> QED
    BY <1>3, <2>1, LeastNat
<1>5. m \in 0..Len(t.syms) /\ ~ \E f : Walks(t, n, m, f)
  OBVIOUS
<1>6. CASE m = 0
  <2>1. Walks(t, n, m, [i \in 0..0 |-> i])
    BY <1>6 DEF Walks
  <2> QED
    BY <2>1, <1>5
<1>7. CASE m # 0
  <2>1. m - 1 \in 0..Len(t.syms) /\ m - 1 \notin Bad
    BY <1>4, <1>5, <1>7
  <2>2. PICK f : Walks(t, n, m - 1, f)
    BY <2>1
  <2> DEFINE g == [i \in 0..m |-> IF i < m THEN f[i]
                                  ELSE IF t.syms[m].name = n THEN m
                                  ELSE f[t.hash.chain[m]]]
             h == [i \in 0..m |-> IF i = 0 \/ t.syms[i].name = n THEN i
                                  ELSE g[t.hash.chain[i]]]
  <2>3. ASSUME NEW i \in 0..m PROVE g[i] = h[i]
    <3>1. CASE i = 0
      BY <3>1, <2>2, <1>5, <1>7 DEF Walks
    <3>2. CASE i # 0
      <4>1. i \in 1..Len(t.syms) /\ t.hash.chain[i] \in 0..(i - 1)
        BY <3>2, <1>5, ChainDown
      <4>2. t.hash.chain[i] \in 0..(m - 1)
        BY <4>1, <1>5
      <4>3. g[t.hash.chain[i]] = f[t.hash.chain[i]]
        BY <4>2, <1>5
      <4>4. CASE i < m
        <5>1. i \in 0..(m - 1)
          BY <4>4, <1>5
        <5>2. f[i] = IF t.syms[i].name = n THEN i ELSE f[t.hash.chain[i]]
          BY <5>1, <3>2, <2>2 DEF Walks
        <5> QED
          BY <5>2, <4>3, <4>4, <3>2
      <4>5. CASE i = m
        BY <4>5, <4>3, <3>2
      <4> QED
        BY <4>4, <4>5, <1>5
    <3> QED
      BY <3>1, <3>2
  <2>4. g = h
    BY <2>3
  <2>5. Walks(t, n, m, g)
    BY <2>4 DEF Walks
  <2> QED
    BY <2>5, <1>5
<1> QED
  BY <1>6, <1>7

(* What a walk from the newest symbol of n's bucket up to m should end at: *)
(* r is the symbol n, or 0 if there is none on the chain.                  *)
Ends(t, n, m, r) ==
  LET C == On(t.syms, t.hash.nb, BucketOf(n, t.hash.nb), m)
  IN /\ r \in 0..m
     /\ r = 0 => \A j \in C : t.syms[j].name # n
     /\ r # 0 => r \in C /\ t.syms[r].name = n

(* Every walk ends where it should. *)
LEMMA WalkEnds ==
  ASSUME NEW t, Chained(t), NEW n \in Name, NEW W, Walks(t, n, Len(t.syms), W),
         NEW q \in 0..Len(t.syms)
  PROVE  Ends(t, n, q, W[Largest(On(t.syms, t.hash.nb, BucketOf(n, t.hash.nb), q))])
<1> DEFINE b == BucketOf(n, t.hash.nb)
           C(m) == On(t.syms, t.hash.nb, b, m)
           Bad == {m \in 0..Len(t.syms) : ~ Ends(t, n, m, W[Largest(C(m))])}
<1>1. Len(t.syms) \in Nat
  BY DEF Chained
<1>2. SUFFICES ASSUME Bad # {} PROVE FALSE
  OBVIOUS
<1>3. PICK m \in Bad : \A k \in Bad : m <= k
  <2>1. Bad \subseteq Nat
    BY <1>1
  <2> HIDE DEF Bad
  <2> QED
    BY <1>2, <2>1, LeastNat
<1>4. m \in 0..Len(t.syms) /\ ~ Ends(t, n, m, W[Largest(C(m))])
  OBVIOUS
<1>5. \A k \in 0..(m - 1) : Ends(t, n, k, W[Largest(C(k))])
  BY <1>3, <1>4
<1>6. C(m) \subseteq 1..m
  BY DEF On
<1>7. W[0] = 0
  BY <1>1 DEF Walks
<1> HIDE DEF Bad
<1>8. CASE C(m) = {}
  <2>1. Largest(C(m)) = 0
    BY <1>8 DEF Largest
  <2>2. Ends(t, n, m, 0)
    BY <1>8, <1>4 DEF Ends
  <2> QED
    BY <2>1, <2>2, <1>7, <1>4
<1>9. CASE C(m) # {}
  <2> DEFINE x == Largest(C(m))
  <2>1. x \in C(m) /\ \A y \in C(m) : y <= x
    BY <1>4, <1>6, <1>9, LargestIn
  <2> HIDE DEF x
  <2>2. x \in 1..m /\ x \in 1..Len(t.syms) /\ t.syms[x].bind # "LOCAL"
        /\ BucketOf(t.syms[x].name, t.hash.nb) = b
    BY <2>1, <1>4 DEF On
  <2>3. W[x] = IF t.syms[x].name = n THEN x ELSE W[t.hash.chain[x]]
    BY <2>2, <1>1 DEF Walks
  <2>4. CASE t.syms[x].name = n
    <3>1. W[x] = x
      BY <2>3, <2>4
    <3>2. Ends(t, n, m, x)
      BY <2>1, <2>2, <2>4, <1>4 DEF Ends
    <3> QED
      BY <3>1, <3>2, <1>4 DEF x
  <2>5. CASE t.syms[x].name # n
    <3>1. t.hash.chain[x] = Largest(C(x - 1))
      BY <2>2, ChainedAt
    <3>2. x - 1 \in 0..(m - 1)
      BY <2>2, <1>4
    <3> DEFINE r == W[Largest(C(x - 1))]
    <3>3. Ends(t, n, x - 1, r)
      BY <3>2, <1>5
    <3>4. W[x] = r
      BY <2>3, <2>5, <3>1
    <3> HIDE DEF r
    <3>5. C(x - 1) = {j \in C(m) : j < x}
      BY <2>2, <1>4 DEF On
    <3>6. r \in 0..(x - 1) /\ r \in 0..m
      BY <3>3, <3>2, <1>4 DEF Ends
    <3>7. ASSUME r = 0, NEW j \in C(m) PROVE t.syms[j].name # n
      <4>1. CASE j = x
        BY <4>1, <2>5
      <4>2. CASE j # x
        <5>1. j < x
          BY <4>2, <2>1, <2>2, <1>6
        <5> QED
          BY <5>1, <3>3, <3>5, <3>7 DEF Ends
      <4> QED
        BY <4>1, <4>2
    <3>8. r # 0 => r \in C(m) /\ t.syms[r].name = n
      BY <3>3, <3>5 DEF Ends
    <3>9. Ends(t, n, m, r)
      BY <3>6, <3>7, <3>8 DEF Ends
    <3> QED
      BY <3>4, <3>9, <1>4 DEF x
  <2> QED
    BY <2>4, <2>5
<1> QED
  BY <1>8, <1>9

(* find_elf_sym() finds the entry of a name if there is one. *)
LEMMA FindRight ==
  ASSUME NEW t, Chained(t), NEW n \in Name
  PROVE  /\ find_elf_sym(t, n) \in 0..Len(t.syms)
         /\ find_elf_sym(t, n) = 0 =>
              \A j \in 1..Len(t.syms) : t.syms[j].bind # "LOCAL" => t.syms[j].name # n
         /\ find_elf_sym(t, n) # 0 =>
              /\ t.syms[find_elf_sym(t, n)].bind # "LOCAL"
              /\ t.syms[find_elf_sym(t, n)].name = n
<1> DEFINE W == CHOOSE f : Walks(t, n, Len(t.syms), f)
           b == BucketOf(n, t.hash.nb)
           C == On(t.syms, t.hash.nb, b, Len(t.syms))
           r == W[Largest(C)]
<1>1. Walks(t, n, Len(t.syms), W)
  BY WalkExists
<1>2. Len(t.syms) \in Nat /\ t.hash.nb \in Nat \ {0}
  BY DEF Chained
<1>3. Ends(t, n, Len(t.syms), r)
  <2> HIDE DEF W
  <2> QED
    BY <1>1, <1>2, WalkEnds
<1>4. t.hash.bucket[b] = Largest(C)
  BY <1>2, BucketIn, ChainedAt
<1>5. find_elf_sym(t, n) = W[t.hash.bucket[b]]
  BY <1>2 DEF find_elf_sym, Walks
<1>6. find_elf_sym(t, n) = r
  BY <1>4, <1>5
<1> HIDE DEF r
<1>7. \A j \in 1..Len(t.syms) :
        t.syms[j].bind # "LOCAL" /\ t.syms[j].name = n => j \in C
  BY DEF On
<1>8. C \subseteq 1..Len(t.syms) /\ \A j \in C : t.syms[j].bind # "LOCAL"
  BY DEF On
<1> QED
  BY <1>3, <1>6, <1>7, <1>8 DEF Ends

-----------------------------------------------------------------------------
(* The chains after a symbol is appended. *)
LEMMA OnAppend ==
  ASSUME NEW syms \in Seq(Symbol), NEW e \in Symbol, NEW nb \in Nat \ {0}, NEW h
  PROVE  /\ \A n \in 0..Len(syms) : On(Append(syms, e), nb, h, n) = On(syms, nb, h, n)
         /\ On(Append(syms, e), nb, h, Len(syms) + 1) =
              On(syms, nb, h, Len(syms)) \union
                (IF e.bind # "LOCAL" /\ BucketOf(e.name, nb) = h THEN {Len(syms) + 1} ELSE {})
<1> DEFINE s == Append(syms, e)
<1>1. /\ Len(syms) \in Nat /\ Len(s) = Len(syms) + 1
      /\ \A i \in 1..Len(syms) : s[i] = syms[i]
      /\ s[Len(syms) + 1] = e
  OBVIOUS
<1> HIDE DEF s
<1>2. ASSUME NEW n \in 0..Len(syms) PROVE On(s, nb, h, n) = On(syms, nb, h, n)
  BY <1>1 DEF On
<1>3. On(s, nb, h, Len(syms) + 1) =
        On(syms, nb, h, Len(syms)) \union
          (IF e.bind # "LOCAL" /\ BucketOf(e.name, nb) = h THEN {Len(syms) + 1} ELSE {})
  BY <1>1 DEF On
<1> QED
  BY <1>2, <1>3 DEF s

(* A function on one more index is the sequence with one more element. *)
LEMMA AppendIs ==
  ASSUME NEW n \in Nat, NEW T, NEW f \in [1..n -> T], NEW g \in [1..(n + 1) -> T],
         NEW v, g[n + 1] = v, \A i \in 1..n : g[i] = f[i]
  PROVE  g = Append(f, v)
<1>1. f \in Seq(T) /\ g \in Seq(T) /\ Len(f) = n /\ Len(g) = n + 1 /\ v \in T
  OBVIOUS
<1> QED
  BY <1>1

(* What rebuild_hash() makes when a symbol is appended. *)
LEMMA RebuildAppend ==
  ASSUME NEW syms \in Seq(Symbol), NEW e \in Symbol, NEW nb \in Nat \ {0}, NEW hashed, NEW more,
         NEW old, old = rebuild_hash(syms, nb, hashed),
         NEW new, new = rebuild_hash(Append(syms, e), nb, more),
         NEW b, b = BucketOf(e.name, nb)
  PROVE  /\ new.bucket = IF e.bind = "LOCAL" THEN old.bucket
                         ELSE [old.bucket EXCEPT ![b] = Len(syms) + 1]
         /\ new.chain = Append(old.chain, IF e.bind = "LOCAL" THEN 0 ELSE old.bucket[b])
<1> DEFINE s == Append(syms, e)
<1>1. /\ Len(syms) \in Nat /\ Len(s) = Len(syms) + 1
      /\ \A i \in 1..Len(syms) : s[i] = syms[i]
      /\ s[Len(syms) + 1] = e
      /\ b \in 0..(nb - 1)
  BY BucketIn DEF Symbol
<1>2. \A h : /\ \A n \in 0..Len(syms) : On(s, nb, h, n) = On(syms, nb, h, n)
             /\ On(s, nb, h, Len(syms) + 1) =
                  On(syms, nb, h, Len(syms)) \union
                    (IF e.bind # "LOCAL" /\ b = h THEN {Len(syms) + 1} ELSE {})
  BY OnAppend
<1> HIDE DEF s
<1>3. /\ old.bucket = [h \in 0..(nb - 1) |-> old.bucket[h]]
      /\ \A h \in 0..(nb - 1) : old.bucket[h] = Largest(On(syms, nb, h, Len(syms)))
      /\ old.chain = [i \in 1..Len(syms) |-> old.chain[i]]
      /\ \A i \in 1..Len(syms) :
           old.chain[i] = IF syms[i].bind = "LOCAL" THEN 0
                          ELSE Largest(On(syms, nb, BucketOf(syms[i].name, nb), i - 1))
  <2>1. Rebuilt(old, syms, nb, hashed)
    BY RebuildAt
  <2> QED
    BY <2>1 DEF Rebuilt
<1>4. /\ new.bucket = [h \in 0..(nb - 1) |-> new.bucket[h]]
      /\ \A h \in 0..(nb - 1) : new.bucket[h] = Largest(On(s, nb, h, Len(s)))
      /\ new.chain = [i \in 1..Len(s) |-> new.chain[i]]
      /\ \A i \in 1..Len(s) :
           new.chain[i] = IF s[i].bind = "LOCAL" THEN 0
                          ELSE Largest(On(s, nb, BucketOf(s[i].name, nb), i - 1))
  <2>1. Rebuilt(new, s, nb, more)
    BY RebuildAt DEF s
  <2> QED
    BY <2>1 DEF Rebuilt
<1>5. new.bucket = IF e.bind = "LOCAL" THEN old.bucket
                   ELSE [old.bucket EXCEPT ![b] = Len(syms) + 1]
  <2>1. ASSUME NEW h \in 0..(nb - 1), e.bind = "LOCAL" \/ h # b
        PROVE  new.bucket[h] = old.bucket[h]
    <3>1. On(s, nb, h, Len(s)) = On(syms, nb, h, Len(syms))
      BY <1>1, <1>2, <2>1
    <3> QED
      BY <3>1, <1>3, <1>4
  <2>2. CASE e.bind = "LOCAL"
    BY <1>3, <1>4, <2>1, <2>2
  <2>3. CASE e.bind # "LOCAL"
    <3>1. new.bucket[b] = Len(syms) + 1
      <4> DEFINE S == On(s, nb, b, Len(s))
      <4>1. Len(syms) + 1 \in S /\ S \subseteq 1..(Len(syms) + 1)
        BY <1>1, <1>2, <2>3 DEF On
      <4> HIDE DEF S
      <4>2. Len(syms) + 1 \in Nat /\ S # {}
        BY <4>1, <1>1
      <4>3. Largest(S) \in S /\ \A y \in S : y <= Largest(S)
        BY <4>1, <4>2, LargestIn
      <4>4. Largest(S) \in 1..(Len(syms) + 1) /\ Len(syms) + 1 <= Largest(S)
        BY <4>1, <4>3, Zenon
      <4>5. Largest(S) = Len(syms) + 1
        BY <4>4, <1>1
      <4> QED
        BY <4>5, <1>1, <1>4 DEF S
    <3>2. new.bucket = [old.bucket EXCEPT ![b] = Len(syms) + 1]
      BY <1>1, <1>3, <1>4, <2>1, <3>1
    <3> QED
      BY <2>3, <3>2
  <2> QED
    BY <2>2, <2>3
<1>6. new.chain = Append(old.chain, IF e.bind = "LOCAL" THEN 0 ELSE old.bucket[b])
  <2> DEFINE v == IF e.bind = "LOCAL" THEN 0 ELSE old.bucket[b]
             T == {new.chain[i] : i \in 1..(Len(syms) + 1)}
  <2>1. ASSUME NEW i \in 1..Len(syms) PROVE new.chain[i] = old.chain[i]
    <3>1. i \in 1..Len(s) /\ i - 1 \in 0..Len(syms) /\ s[i] = syms[i]
      BY <1>1
    <3>2. On(s, nb, BucketOf(syms[i].name, nb), i - 1)
            = On(syms, nb, BucketOf(syms[i].name, nb), i - 1)
      BY <3>1, <1>2
    <3>3. new.chain[i] = IF syms[i].bind = "LOCAL" THEN 0
                         ELSE Largest(On(s, nb, BucketOf(syms[i].name, nb), i - 1))
      BY <3>1, <1>4
    <3>4. old.chain[i] = IF syms[i].bind = "LOCAL" THEN 0
                         ELSE Largest(On(syms, nb, BucketOf(syms[i].name, nb), i - 1))
      BY <1>3
    <3> QED
      BY <3>2, <3>3, <3>4, Zenon
  <2>2. new.chain[Len(syms) + 1] = v
    <3>1. On(s, nb, b, Len(syms)) = On(syms, nb, b, Len(syms))
      BY <1>1, <1>2
    <3>2. Len(syms) + 1 \in 1..Len(s) /\ (Len(syms) + 1) - 1 = Len(syms)
      BY <1>1
    <3>3. new.chain[Len(syms) + 1] =
            IF e.bind = "LOCAL" THEN 0 ELSE Largest(On(s, nb, b, Len(syms)))
      BY <3>2, <1>1, <1>4
    <3>4. old.bucket[b] = Largest(On(syms, nb, b, Len(syms)))
      BY <1>1, <1>3
    <3> HIDE DEF T
    <3> QED
      BY <3>1, <3>3, <3>4
  <2>3. new.chain \in [1..(Len(syms) + 1) -> T]
    BY <1>1, <1>4
  <2>4. old.chain \in [1..Len(syms) -> T]
    BY <1>1, <1>3, <2>1
  <2> HIDE DEF v, T
  <2>5. new.chain = Append(old.chain, v)
    BY <1>1, <2>1, <2>2, <2>3, <2>4, AppendIs
  <2> QED
    BY <2>5 DEF v
<1> QED
  BY <1>5, <1>6

(* A LOCAL symbol is on no chain; another one is prepended to its chain.    *)
Skipped(hs) == [hs EXCEPT !.chain = Append(@, 0)]
Prepended(hs, b, i) ==
  [hs EXCEPT !.chain = Append(@, hs.bucket[b]), !.bucket[b] = i, !.hashed = @ + 1]

(* How put_elf_sym() updates a hash. *)
LEMMA HashUpdate ==
  ASSUME NEW hs, NEW b, NEW i,
         hs = [nb |-> hs.nb, bucket |-> hs.bucket, chain |-> hs.chain, hashed |-> hs.hashed]
  PROVE  /\ Skipped(hs) = [nb |-> hs.nb, bucket |-> hs.bucket,
                           chain |-> Append(hs.chain, 0), hashed |-> hs.hashed]
         /\ Prepended(hs, b, i) =
              [nb |-> hs.nb, bucket |-> [hs.bucket EXCEPT ![b] = i],
               chain |-> Append(hs.chain, hs.bucket[b]), hashed |-> hs.hashed + 1]
<1> DEFINE X == Append(hs.chain, hs.bucket[b])
           Y == [hs.bucket EXCEPT ![b] = i]
           Z == Append(hs.chain, 0)
           k == hs.hashed + 1
           h1 == [hs EXCEPT !.chain = X]
           h2 == [h1 EXCEPT !.bucket = Y]
           h3 == [h2 EXCEPT !.hashed = k]
<1>1. Prepended(hs, b, i) = h3
  BY DEF Prepended
<1>2. Skipped(hs) = [hs EXCEPT !.chain = Z]
  BY DEF Skipped
<1> HIDE DEF X, Y, Z, k
<1>3. [hs EXCEPT !.chain = Z]
        = [nb |-> hs.nb, bucket |-> hs.bucket, chain |-> Z, hashed |-> hs.hashed]
  OBVIOUS
<1>4. h1 = [nb |-> hs.nb, bucket |-> hs.bucket, chain |-> X, hashed |-> hs.hashed]
  OBVIOUS
<1> HIDE DEF h1
<1>5. h2 = [nb |-> hs.nb, bucket |-> Y, chain |-> X, hashed |-> hs.hashed]
  BY <1>4
<1> HIDE DEF h2
<1>6. h3 = [nb |-> hs.nb, bucket |-> Y, chain |-> X, hashed |-> k]
  BY <1>5
<1> HIDE DEF h3
<1> QED
  BY <1>1, <1>2, <1>3, <1>6, Zenon DEF X, Y, Z, k

(* put_elf_sym() keeps the chains, whether it doubles the buckets or not. *)
LEMMA PutRight ==
  ASSUME NEW t, Chained(t), NEW e \in Symbol
  PROVE  /\ Chained(put_elf_sym(t, e))
         /\ put_elf_sym(t, e).syms = Append(t.syms, e)
         /\ put_elf_sym(t, e).new_undef_sym = t.new_undef_sym
<1> DEFINE hs == t.hash
           nb == hs.nb
           syms == Append(t.syms, e)
           b == BucketOf(e.name, nb)
           hs1 == Prepended(hs, b, Len(syms))
           H == IF nb = 0 THEN hs
                ELSE IF e.bind = "LOCAL" THEN Skipped(hs)
                ELSE IF hs1.hashed > 2 * nb THEN rebuild_hash(syms, 2 * nb, hs1.hashed)
                ELSE hs1
           p == [syms |-> syms, hash |-> H, new_undef_sym |-> t.new_undef_sym]
<1>1. /\ t = [syms |-> t.syms, hash |-> hs, new_undef_sym |-> t.new_undef_sym]
      /\ t.syms \in Seq(Symbol) /\ t.new_undef_sym \in BOOLEAN
      /\ nb \in Nat \ {0} /\ hs.hashed \in Nat
      /\ hs = rebuild_hash(t.syms, nb, hs.hashed)
  BY DEF Chained
<1>2. put_elf_sym(t, e) = [t EXCEPT !.syms = syms, !.hash = H]
  BY DEF put_elf_sym, Skipped, Prepended
<1>3. put_elf_sym(t, e) = p
  <2> HIDE DEF H
  <2> QED
    BY <1>1, <1>2
<1>4. syms \in Seq(Symbol) /\ Len(syms) = Len(t.syms) + 1
  BY <1>1
<1>5. Rebuilt(hs, t.syms, nb, hs.hashed)
  BY <1>1, RebuildAt
<1> HIDE DEF hs, nb, syms, b
<1>6. hs = [nb |-> nb, bucket |-> hs.bucket, chain |-> hs.chain, hashed |-> hs.hashed]
  BY <1>5 DEF Rebuilt
<1>7. hs1 = [nb |-> nb, bucket |-> [hs.bucket EXCEPT ![b] = Len(syms)],
             chain |-> Append(hs.chain, hs.bucket[b]), hashed |-> hs.hashed + 1]
  BY <1>6, HashUpdate
<1> HIDE DEF hs1
<1>8. H.nb \in Nat \ {0} /\ H.hashed \in Nat /\ H = rebuild_hash(syms, H.nb, H.hashed)
  <2>1. CASE e.bind = "LOCAL"
    <3> DEFINE new == rebuild_hash(syms, nb, hs.hashed)
    <3>1. H = [nb |-> nb, bucket |-> hs.bucket, chain |-> Append(hs.chain, 0),
               hashed |-> hs.hashed]
      <4>1. Skipped(hs) =
              [nb |-> nb, bucket |-> hs.bucket, chain |-> Append(hs.chain, 0),
               hashed |-> hs.hashed]
        BY <1>6, HashUpdate
      <4> QED
        BY <1>1, <2>1, <4>1
    <3>2. new.bucket = hs.bucket /\ new.chain = Append(hs.chain, 0)
      <4>1. /\ new.bucket = IF e.bind = "LOCAL" THEN hs.bucket
                            ELSE [hs.bucket EXCEPT ![b] = Len(t.syms) + 1]
            /\ new.chain = Append(hs.chain, IF e.bind = "LOCAL" THEN 0 ELSE hs.bucket[b])
        BY <1>1, RebuildAppend DEF syms, b
      <4> QED
        BY <4>1, <2>1
    <3>3. Rebuilt(new, syms, nb, hs.hashed)
      BY RebuildAt
    <3> HIDE DEF new, H
    <3>4. H = new /\ H.nb = nb /\ H.hashed = hs.hashed
      BY <3>1, <3>2, <3>3 DEF Rebuilt
    <3> QED
      BY <1>1, <3>4 DEF new
  <2>2. CASE e.bind # "LOCAL" /\ hs1.hashed > 2 * nb
    <3>1. H = rebuild_hash(syms, 2 * nb, hs1.hashed)
      BY <1>1, <2>2
    <3>2. Rebuilt(H, syms, 2 * nb, hs1.hashed)
      BY <3>1, RebuildAt
    <3> HIDE DEF H
    <3>3. H.nb = 2 * nb /\ H.hashed = hs1.hashed
      BY <3>2 DEF Rebuilt
    <3>4. 2 * nb \in Nat \ {0} /\ hs1.hashed \in Nat
      BY <1>1, <1>7
    <3> QED
      BY <3>1, <3>3, <3>4
  <2>3. CASE e.bind # "LOCAL" /\ ~ (hs1.hashed > 2 * nb)
    <3> DEFINE new == rebuild_hash(syms, nb, hs.hashed + 1)
    <3>1. H = hs1
      BY <1>1, <2>3
    <3>2. /\ new.bucket = [hs.bucket EXCEPT ![b] = Len(t.syms) + 1]
          /\ new.chain = Append(hs.chain, hs.bucket[b])
      BY <1>1, <2>3, RebuildAppend DEF syms, b
    <3>3. Rebuilt(new, syms, nb, hs.hashed + 1)
      BY RebuildAt
    <3> HIDE DEF new, H
    <3>4. H = new /\ H.nb = nb /\ H.hashed = hs.hashed + 1
      BY <1>4, <1>7, <3>1, <3>2, <3>3 DEF Rebuilt
    <3> QED
      BY <1>1, <3>4 DEF new
  <2> QED
    BY <2>1, <2>2, <2>3
<1> HIDE DEF H
<1> QED
  BY <1>3, <1>4, <1>8 DEF Chained, syms

(* The chains only depend on the names and on which symbols are LOCAL. *)
LEMMA SameChains ==
  ASSUME NEW t, Chained(t), NEW syms \in Seq(Symbol), Len(syms) = Len(t.syms),
         NEW u \in BOOLEAN,
         \A i \in 1..Len(syms) : /\ syms[i].name = t.syms[i].name
                                 /\ syms[i].bind = "LOCAL" <=> t.syms[i].bind = "LOCAL"
  PROVE  Chained([syms |-> syms, hash |-> t.hash, new_undef_sym |-> u])
<1> DEFINE old == t.hash
           nb == old.nb
           new == rebuild_hash(syms, nb, old.hashed)
<1>1. /\ t.syms \in Seq(Symbol) /\ nb \in Nat \ {0} /\ old.hashed \in Nat
      /\ old = rebuild_hash(t.syms, nb, old.hashed)
  BY DEF Chained
<1>2. Rebuilt(old, t.syms, nb, old.hashed) /\ Rebuilt(new, syms, nb, old.hashed)
  BY <1>1, RebuildAt
<1>3. ASSUME NEW h, NEW n \in 0..Len(syms) PROVE On(syms, nb, h, n) = On(t.syms, nb, h, n)
  BY DEF On
<1> HIDE DEF old, nb, new
<1>4. new.bucket = old.bucket
  <2>1. ASSUME NEW h \in 0..(nb - 1) PROVE new.bucket[h] = old.bucket[h]
    <3>1. On(syms, nb, h, Len(syms)) = On(t.syms, nb, h, Len(t.syms))
      BY <1>3
    <3> QED
      BY <3>1, <1>2 DEF Rebuilt
  <2> QED
    BY <2>1, <1>2 DEF Rebuilt
<1>5. new.chain = old.chain
  <2>1. ASSUME NEW i \in 1..Len(syms) PROVE new.chain[i] = old.chain[i]
    <3>1. i - 1 \in 0..Len(syms) /\ syms[i].name = t.syms[i].name
      OBVIOUS
    <3>2. On(syms, nb, BucketOf(syms[i].name, nb), i - 1)
            = On(t.syms, nb, BucketOf(t.syms[i].name, nb), i - 1)
      BY <3>1, <1>3
    <3>3. /\ new.chain[i] = IF syms[i].bind = "LOCAL" THEN 0
                            ELSE Largest(On(syms, nb, BucketOf(syms[i].name, nb), i - 1))
          /\ old.chain[i] = IF t.syms[i].bind = "LOCAL" THEN 0
                            ELSE Largest(On(t.syms, nb, BucketOf(t.syms[i].name, nb), i - 1))
      BY <1>2 DEF Rebuilt
    <3> QED
      BY <3>2, <3>3
  <2> QED
    BY <2>1, <1>2 DEF Rebuilt
<1>6. new = old
  BY <1>2, <1>4, <1>5 DEF Rebuilt
<1> QED
  BY <1>1, <1>6 DEF Chained, new, old, nb

-----------------------------------------------------------------------------
(* Symbols are appended or patched: those of s keep their names in r, and  *)
(* which of them are LOCAL.                                                *)
Grows(s, r) ==
  /\ Len(r) \in Len(s)..(Len(s) + 1)
  /\ \A i \in 1..Len(s) : /\ r[i].name = s[i].name
                          /\ r[i].bind = "LOCAL" <=> s[i].bind = "LOCAL"

(* r is what set_elf_sym() should make of t and e: a table with one entry  *)
(* for a name, and the index of the one that stands for e.                 *)
Entered(t, e, r) ==
  /\ Chained(r.tab)
  /\ OneEach(r.tab.syms)
  /\ Grows(t.syms, r.tab.syms)
  /\ r.index \in 1..Len(r.tab.syms)
  /\ r.tab.syms[r.index].name = e.name

(* An entry that is merged with a symbol of its name keeps the name, and   *)
(* does not become LOCAL.                                                  *)
LEMMA MergedKeeps ==
  ASSUME NEW o \in Symbol, NEW e \in Symbol, o.name = e.name,
         o.bind # "LOCAL", e.bind # "LOCAL"
  PROVE  /\ Merged(o, e) \in Symbol
         /\ Merged(o, e).name = o.name
         /\ Merged(o, e).bind # "LOCAL"
<1> DEFINE v == NewVis(o.vis, e.vis)
           x == [e EXCEPT !.vis = v]
           p == [x EXCEPT !.asm_set = o.asm_set]
           k == [o EXCEPT !.vis = v]
<1>1. v \in Vis
  BY DEF NewVis, Symbol, Vis
<1>2. \/ Merged(o, e) = o
      \/ Merged(o, e) = e
      \/ Merged(o, e) = p
      \/ Merged(o, e) = k
  BY DEF Merged
<1> HIDE DEF v
<1>3. x \in Symbol /\ x.name = e.name /\ x.bind = e.bind
  BY <1>1 DEF Symbol
<1>4. k \in Symbol /\ k.name = o.name /\ k.bind = o.bind
  BY <1>1 DEF Symbol
<1> HIDE DEF x
<1>5. p \in Symbol /\ p.name = x.name /\ p.bind = x.bind
  BY <1>3 DEF Symbol
<1> HIDE DEF p, k
<1> QED
  BY <1>2, <1>3, <1>4, <1>5

(* The table after entry i was replaced. *)
WithEntry(t, i, m, u) == [t EXCEPT !.syms[i] = m, !.new_undef_sym = @ \/ u]

(* It keeps its hash. *)
LEMMA PatchIs ==
  ASSUME NEW t, t = [syms |-> t.syms, hash |-> t.hash, new_undef_sym |-> t.new_undef_sym],
         NEW i, NEW m, NEW u
  PROVE  WithEntry(t, i, m, u)
           = [syms |-> [t.syms EXCEPT ![i] = m], hash |-> t.hash,
              new_undef_sym |-> t.new_undef_sym \/ u]
<1> DEFINE S == [t.syms EXCEPT ![i] = m]
           U == t.new_undef_sym \/ u
           t1 == [t EXCEPT !.syms = S]
           t2 == [t1 EXCEPT !.new_undef_sym = U]
<1>1. WithEntry(t, i, m, u) = t2
  BY DEF WithEntry
<1> HIDE DEF S, U
<1>2. t1 = [syms |-> S, hash |-> t.hash, new_undef_sym |-> t.new_undef_sym]
  OBVIOUS
<1> HIDE DEF t1
<1>3. t2 = [syms |-> S, hash |-> t.hash, new_undef_sym |-> U]
  BY <1>2
<1> HIDE DEF t2
<1> QED
  BY <1>1, <1>3, Zenon DEF S, U

(* Which entry set_elf_sym() finds for e, 0 if it appends e. *)
Old(t, e) == IF e.bind = "LOCAL" THEN 0 ELSE find_elf_sym(t, e.name)

(* What set_elf_sym() makes. *)
LEMMA SetIs ==
  ASSUME NEW t, t = [syms |-> t.syms, hash |-> t.hash, new_undef_sym |-> t.new_undef_sym],
         NEW e, NEW i, i = Old(t, e), NEW r, r = set_elf_sym(t, e)
  PROVE  /\ i = 0 => r.tab = put_elf_sym(t, e) /\ r.index = Len(t.syms) + 1
         /\ i # 0 => /\ r.tab = [syms |-> [t.syms EXCEPT ![i] = Merged(t.syms[i], e)],
                                 hash |-> t.hash,
                                 new_undef_sym |-> t.new_undef_sym \/ Patched(t.syms[i], e)]
                     /\ r.index = i
<1>1. CASE i = 0
  BY <1>1 DEF set_elf_sym, Old
<1>2. CASE i # 0
  <2> DEFINE m == Merged(t.syms[i], e)
             u == Patched(t.syms[i], e)
             T == WithEntry(t, i, m, u)
  <2>1. r.tab = T /\ r.index = i
    <3> DEFINE x == t.syms[i] # e /\ t.syms[i].shndx # "UNDEF" /\ Verdict(t.syms[i], e) = "twice"
    <3>1. r = [tab |-> T, index |-> i, err |-> x]
      <4> DEFINE j == Old(t, e)
                 o == t.syms[j]
      <4>1. set_elf_sym(t, e) =
              IF j = 0 THEN [tab |-> put_elf_sym(t, e), index |-> Len(t.syms) + 1,
                             err |-> FALSE]
              ELSE [tab |-> WithEntry(t, j, Merged(o, e), Patched(o, e)), index |-> j,
                    err |-> o # e /\ o.shndx # "UNDEF" /\ Verdict(o, e) = "twice"]
        BY DEF set_elf_sym, Old, WithEntry
      <4>2. j = i
        OBVIOUS
      <4> HIDE DEF j
      <4>3. r = IF i = 0 THEN [tab |-> put_elf_sym(t, e), index |-> Len(t.syms) + 1,
                               err |-> FALSE]
                ELSE [tab |-> T, index |-> i, err |-> x]
        BY <4>1, <4>2, Zenon
      <4> HIDE DEF T, x
      <4> QED
        BY <4>3, <1>2
    <3> HIDE DEF T, x
    <3> QED
      BY <3>1
  <2> HIDE DEF m, u
  <2>2. T = [syms |-> [t.syms EXCEPT ![i] = m], hash |-> t.hash,
             new_undef_sym |-> t.new_undef_sym \/ u]
    BY PatchIs
  <2> HIDE DEF T
  <2> QED
    BY <1>2, <2>1, <2>2 DEF m, u
<1> QED
  BY <1>1, <1>2

(* set_elf_sym() keeps the chains and one entry for each name. *)
LEMMA SetRight ==
  ASSUME NEW t, Chained(t), OneEach(t.syms), NEW e \in Symbol,
         NEW r, r = set_elf_sym(t, e)
  PROVE  Entered(t, e, r)
<1> DEFINE i == Old(t, e)
           syms == r.tab.syms
<1>1. /\ t = [syms |-> t.syms, hash |-> t.hash, new_undef_sym |-> t.new_undef_sym]
      /\ t.syms \in Seq(Symbol) /\ Len(t.syms) \in Nat /\ e.name \in Name
  BY DEF Chained, Symbol
<1>2. /\ i \in 0..Len(t.syms)
      /\ i = 0 /\ e.bind # "LOCAL" =>
           \A j \in 1..Len(t.syms) : t.syms[j].bind # "LOCAL" => t.syms[j].name # e.name
      /\ i # 0 => /\ e.bind # "LOCAL" /\ t.syms[i].bind # "LOCAL"
                  /\ t.syms[i].name = e.name
  BY <1>1, FindRight DEF Old
<1>3. /\ i = 0 => r.tab = put_elf_sym(t, e) /\ r.index = Len(t.syms) + 1
      /\ i # 0 => /\ r.tab = [syms |-> [t.syms EXCEPT ![i] = Merged(t.syms[i], e)],
                              hash |-> t.hash,
                              new_undef_sym |-> t.new_undef_sym \/ Patched(t.syms[i], e)]
                  /\ r.index = i
  BY <1>1, SetIs
<1> HIDE DEF i
<1>4. CASE i = 0
  <2>1. Chained(r.tab) /\ syms = Append(t.syms, e) /\ r.index = Len(t.syms) + 1
    BY <1>3, <1>4, PutRight
  <2>2. /\ Len(syms) = Len(t.syms) + 1
        /\ \A j \in 1..Len(t.syms) : syms[j] = t.syms[j]
        /\ syms[Len(t.syms) + 1] = e
    BY <1>1, <2>1
  <2> HIDE DEF syms
  <2>3. OneEach(syms)
    <3> SUFFICES ASSUME NEW j \in 1..Len(syms), NEW k \in 1..Len(syms),
                        syms[j].bind # "LOCAL", syms[k].bind # "LOCAL",
                        syms[j].name = syms[k].name, j # k
                 PROVE  FALSE
      BY DEF OneEach
    <3>1. CASE j \in 1..Len(t.syms) /\ k \in 1..Len(t.syms)
      BY <3>1, <2>2 DEF OneEach
    <3>2. CASE j \in 1..Len(t.syms) /\ k = Len(t.syms) + 1
      BY <3>2, <2>2, <1>2, <1>4
    <3>3. CASE k \in 1..Len(t.syms) /\ j = Len(t.syms) + 1
      BY <3>3, <2>2, <1>2, <1>4
    <3> QED
      BY <3>1, <3>2, <3>3, <2>2, <1>1
  <2>4. Grows(t.syms, syms)
    BY <2>2, <1>1 DEF Grows
  <2>5. r.index \in 1..Len(syms) /\ syms[r.index].name = e.name
    BY <2>1, <2>2, <1>1
  <2> QED
    BY <2>1, <2>3, <2>4, <2>5 DEF Entered, syms
<1>5. CASE i # 0
  <2> DEFINE m == Merged(t.syms[i], e)
             u == t.new_undef_sym \/ Patched(t.syms[i], e)
  <2>1. /\ syms = [t.syms EXCEPT ![i] = m]
        /\ r.tab = [syms |-> syms, hash |-> t.hash, new_undef_sym |-> u]
        /\ r.index = i /\ i \in 1..Len(t.syms)
    <3> HIDE DEF m, u
    <3> QED
      BY <1>2, <1>3, <1>5 DEF m, u
  <2>2. m \in Symbol /\ m.name = e.name /\ m.bind # "LOCAL"
    <3>1. t.syms[i] \in Symbol
      BY <1>1, <2>1
    <3> QED
      BY <1>2, <1>5, <3>1, MergedKeeps
  <2> HIDE DEF m, u, syms
  <2>3. /\ syms \in Seq(Symbol) /\ Len(syms) = Len(t.syms)
        /\ syms[i] = m
        /\ \A j \in 1..Len(t.syms) : j # i => syms[j] = t.syms[j]
    BY <1>1, <2>1, <2>2
  <2>4. \A j \in 1..Len(syms) : /\ syms[j].name = t.syms[j].name
                                /\ syms[j].bind = "LOCAL" <=> t.syms[j].bind = "LOCAL"
    BY <1>2, <1>5, <2>2, <2>3
  <2>5. Chained(r.tab)
    <3>1. u \in BOOLEAN
      BY DEF u, Chained
    <3>2. Chained([syms |-> syms, hash |-> t.hash, new_undef_sym |-> u])
      BY <2>3, <2>4, <3>1, SameChains
    <3> QED
      BY <2>1, <3>2
  <2>6. OneEach(syms)
    BY <2>3, <2>4 DEF OneEach
  <2>7. Grows(t.syms, syms)
    BY <1>1, <2>3, <2>4 DEF Grows
  <2>8. r.index \in 1..Len(syms) /\ syms[r.index].name = e.name
    BY <2>1, <2>2, <2>3
  <2> QED
    BY <2>5, <2>6, <2>7, <2>8 DEF Entered, syms
<1> QED
  BY <1>4, <1>5

-----------------------------------------------------------------------------
(* The definitions of n in S. *)
DefsIn(S, n) == {e \in S : e.name = n /\ e.bind # "LOCAL" /\ e.shndx # "UNDEF"}

(* Entry x is the one that the definitions D of its name call for. *)
Fair(x, D) ==
  /\ x.shndx = "UNDEF" <=> D = {}
  /\ D # {} => (x.bind = "WEAK" <=> \A d \in D : d.bind = "WEAK")
  /\ InBss(x) => ~ \E d \in D : d.bind = "GLOBAL" /\ d.shndx = "DATA" /\ d.vis \notin Hidden
  /\ \A d \in D : d.vis # 0 => x.vis \in 1..d.vis

(* The entries of syms are those that the symbols in S call for. *)
Precedes(syms, S) ==
  /\ S \subseteq Symbol
  /\ \A i \in 1..Len(syms) :
       syms[i].bind # "LOCAL" => Fair(syms[i], DefsIn(S, syms[i].name))
  /\ \A e \in S : e.bind # "LOCAL" =>
       \E i \in 1..Len(syms) : syms[i].bind # "LOCAL" /\ syms[i].name = e.name

(* The more constraining of two visibilities. *)
LEMMA NewVisIs ==
  ASSUME NEW p \in Vis, NEW q \in Vis
  PROVE  /\ NewVis(p, q) \in Vis
         /\ \A v \in Vis : v # 0 /\ (p \in 1..v \/ q \in 1..v) => NewVis(p, q) \in 1..v
BY DEF NewVis, Vis

(* Which definition wins, as set_elf_sym() decides it. *)
LEMMA VerdictIs ==
  ASSUME NEW o \in Symbol, NEW e \in Symbol, o.bind # "LOCAL", e.bind # "LOCAL"
  PROVE  /\ e.shndx = "UNDEF" => Verdict(o, e) # "patch"
         /\ e.shndx # "UNDEF" /\ e.bind = "WEAK" => Verdict(o, e) # "patch"
         /\ e.shndx # "UNDEF" /\ e.bind = "GLOBAL" /\ o.bind = "WEAK" => Verdict(o, e) = "patch"
         /\ o.bind # "WEAK" /\ InBss(e) => Verdict(o, e) # "patch"
         /\ e.bind = "GLOBAL" /\ InBss(o) /\ e.shndx = "DATA" /\ e.vis \notin Hidden
              => Verdict(o, e) = "patch"
<1>1. /\ o.bind \in {"GLOBAL", "WEAK"} /\ e.bind \in {"GLOBAL", "WEAK"}
      /\ InBss(e) => e.shndx # "UNDEF"
  BY DEF Symbol, Bind, InBss
<1>2. CASE e.shndx = "UNDEF"
  <2>1. Verdict(o, e) = "keep"
    BY <1>2 DEF Verdict
  <2> QED
    BY <2>1, <1>1, <1>2
<1>3. CASE e.shndx # "UNDEF" /\ e.bind = "GLOBAL" /\ o.bind = "WEAK"
  <2>1. Verdict(o, e) = "patch"
    BY <1>3 DEF Verdict
  <2> QED
    BY <2>1, <1>1, <1>3
<1>4. CASE e.shndx # "UNDEF" /\ e.bind = "WEAK"
  <2>1. Verdict(o, e) = "keep"
    BY <1>4 DEF Verdict
  <2> QED
    BY <2>1, <1>1, <1>4
<1>5. CASE e.shndx # "UNDEF" /\ e.bind = "GLOBAL" /\ o.bind = "GLOBAL"
  <2>1. Verdict(o, e) = IF e.vis \in Hidden THEN "keep"
                        ELSE IF InBss(o) /\ e.shndx = "DATA" THEN "patch"
                        ELSE IF InBss(e) THEN "keep"
                        ELSE IF Dynsym THEN "keep"
                        ELSE IF o.asm_set THEN "patch"
                        ELSE "twice"
    BY <1>5 DEF Verdict
  <2>2. InBss(e) => e.shndx # "DATA"
    BY DEF InBss
  <2> QED
    BY <2>1, <2>2, <1>1, <1>5
<1> QED
  BY <1>1, <1>2, <1>3, <1>4, <1>5

(* The entry of a name after another symbol e of it was merged into o. *)
LEMMA MergedFair ==
  ASSUME NEW o \in Symbol, NEW e \in Symbol, o.bind # "LOCAL", e.bind # "LOCAL",
         NEW D, D \subseteq Symbol, \A d \in D : d.bind # "LOCAL", Fair(o, D),
         NEW E, E = IF e.shndx # "UNDEF" THEN D \union {e} ELSE D
  PROVE  Fair(Merged(o, e), E)
<1> DEFINE v == NewVis(o.vis, e.vis)
           x == [e EXCEPT !.vis = v]
           p == [x EXCEPT !.asm_set = o.asm_set]
           k == [o EXCEPT !.vis = v]
<1>1. /\ o.bind \in {"GLOBAL", "WEAK"} /\ e.bind \in {"GLOBAL", "WEAK"}
      /\ o.vis \in Vis /\ e.vis \in Vis
      /\ \A d \in D : d.vis \in Vis /\ d.bind \in {"GLOBAL", "WEAK"}
  BY DEF Symbol, Bind
<1>2. v \in Vis /\ \A w \in Vis : w # 0 /\ (o.vis \in 1..w \/ e.vis \in 1..w) => v \in 1..w
  BY <1>1, NewVisIs
<1>3. \/ o = e /\ Merged(o, e) = o
      \/ o # e /\ o.shndx = "UNDEF" /\ Merged(o, e) = e
      \/ o # e /\ o.shndx # "UNDEF" /\ Verdict(o, e) = "patch" /\ Merged(o, e) = p
      \/ o # e /\ o.shndx # "UNDEF" /\ Verdict(o, e) # "patch" /\ Merged(o, e) = k
  BY DEF Merged
<1> HIDE DEF v
<1>4. k.shndx = o.shndx /\ k.bind = o.bind /\ k.vis = v
  BY DEF Symbol
<1>5. x.shndx = e.shndx /\ x.bind = e.bind /\ x.vis = v /\ x \in Symbol
  BY <1>2 DEF Symbol
<1> HIDE DEF x
<1>6. p.shndx = e.shndx /\ p.bind = e.bind /\ p.vis = v
  BY <1>5 DEF Symbol
<1> HIDE DEF p, k
<1>7. CASE o = e /\ Merged(o, e) = o
  BY <1>1, <1>7 DEF Fair, InBss, Vis, Hidden
<1>8. CASE o.shndx = "UNDEF" /\ Merged(o, e) = e
  BY <1>1, <1>8 DEF Fair, InBss, Vis, Hidden
<1>9. CASE o.shndx # "UNDEF" /\ Verdict(o, e) = "patch" /\ Merged(o, e) = p
  <2>1. /\ e.shndx # "UNDEF" /\ e.bind = "GLOBAL" /\ E = D \union {e}
        /\ o.bind # "WEAK" => ~ InBss(e)
    BY <1>1, <1>9, VerdictIs
  <2>2. InBss(p) <=> InBss(e)
    BY <1>6 DEF InBss
  <2>3. \A d \in E : d.vis # 0 => v \in 1..d.vis
    <3>1. ASSUME NEW d \in D, d.vis # 0 PROVE v \in 1..d.vis
      BY <3>1, <1>1, <1>2 DEF Fair
    <3>2. e.vis # 0 => v \in 1..e.vis
      BY <1>1, <1>2 DEF Vis
    <3> QED
      BY <3>1, <3>2, <2>1
  <2>4. InBss(p) => ~ \E d \in E : d.bind = "GLOBAL" /\ d.shndx = "DATA" /\ d.vis \notin Hidden
    <3> SUFFICES ASSUME InBss(e), NEW d \in E, d.bind = "GLOBAL", d.shndx = "DATA"
                 PROVE  FALSE
      BY <2>2
    <3>1. d \in D
      BY <2>1 DEF InBss
    <3>2. o.bind = "WEAK"
      BY <2>1
    <3> QED
      BY <3>1, <3>2 DEF Fair
  <2> QED
    BY <1>6, <1>9, <2>1, <2>3, <2>4 DEF Fair
<1>10. CASE o.shndx # "UNDEF" /\ Verdict(o, e) # "patch" /\ Merged(o, e) = k
  <2>1. /\ e.shndx # "UNDEF" /\ e.bind = "GLOBAL" => o.bind # "WEAK"
        /\ e.bind = "GLOBAL" /\ InBss(o) /\ e.shndx = "DATA" => e.vis \in Hidden
    BY <1>1, <1>10, VerdictIs
  <2>2. InBss(k) <=> InBss(o)
    BY <1>4 DEF InBss
  <2>3. \A d \in E : d.vis # 0 => v \in 1..d.vis
    <3>1. ASSUME NEW d \in D, d.vis # 0 PROVE v \in 1..d.vis
      BY <3>1, <1>1, <1>2 DEF Fair
    <3>2. e.vis # 0 => v \in 1..e.vis
      BY <1>1, <1>2 DEF Vis
    <3> QED
      BY <3>1, <3>2
  <2>4. InBss(k) => ~ \E d \in E : d.bind = "GLOBAL" /\ d.shndx = "DATA" /\ d.vis \notin Hidden
    BY <2>1, <2>2 DEF Fair
  <2>5. D # {} /\ E # {}
    BY <1>10 DEF Fair
  <2>6. k.bind = "WEAK" <=> \A d \in E : d.bind = "WEAK"
    BY <1>1, <1>4, <2>1, <2>5 DEF Fair
  <2> QED
    BY <1>4, <1>10, <2>3, <2>4, <2>5, <2>6 DEF Fair
<1> QED
  BY <1>3, <1>7, <1>8, <1>9, <1>10

(* set_elf_sym() leaves the entry that the symbols of a name call for. *)
LEMMA SetPrecedes ==
  ASSUME NEW t, Chained(t), OneEach(t.syms), NEW e \in Symbol,
         NEW S, Precedes(t.syms, S), NEW syms, syms = set_elf_sym(t, e).tab.syms
  PROVE  Precedes(syms, S \union {e})
<1> DEFINE i == Old(t, e)
           r == set_elf_sym(t, e)
           T == S \union {e}
<1>1. /\ t = [syms |-> t.syms, hash |-> t.hash, new_undef_sym |-> t.new_undef_sym]
      /\ t.syms \in Seq(Symbol) /\ Len(t.syms) \in Nat /\ e.name \in Name
  BY DEF Chained, Symbol
<1>2. /\ i \in 0..Len(t.syms)
      /\ i = 0 /\ e.bind # "LOCAL" =>
           \A j \in 1..Len(t.syms) : t.syms[j].bind # "LOCAL" => t.syms[j].name # e.name
      /\ i # 0 => /\ e.bind # "LOCAL" /\ t.syms[i].bind # "LOCAL"
                  /\ t.syms[i].name = e.name
  BY <1>1, FindRight DEF Old
<1>3. /\ i = 0 => r.tab = put_elf_sym(t, e)
      /\ i # 0 => r.tab = [syms |-> [t.syms EXCEPT ![i] = Merged(t.syms[i], e)],
                           hash |-> t.hash,
                           new_undef_sym |-> t.new_undef_sym \/ Patched(t.syms[i], e)]
  BY <1>1, SetIs
<1> HIDE DEF i
<1>4. /\ S \subseteq Symbol /\ T \subseteq Symbol
      /\ \A j \in 1..Len(t.syms) :
           t.syms[j].bind # "LOCAL" => Fair(t.syms[j], DefsIn(S, t.syms[j].name))
      /\ \A d \in S : d.bind # "LOCAL" =>
           \E j \in 1..Len(t.syms) : t.syms[j].bind # "LOCAL" /\ t.syms[j].name = d.name
  BY DEF Precedes
<1>5. ASSUME NEW n, n # e.name \/ e.bind = "LOCAL" PROVE DefsIn(T, n) = DefsIn(S, n)
  BY <1>5 DEF DefsIn
<1>6. CASE i = 0
  <2>1. syms = Append(t.syms, e)
    BY <1>3, <1>6, PutRight
  <2>2. /\ Len(syms) = Len(t.syms) + 1
        /\ \A j \in 1..Len(t.syms) : syms[j] = t.syms[j]
        /\ syms[Len(t.syms) + 1] = e
    BY <1>1, <2>1
  <2> HIDE DEF T
  <2>3. ASSUME NEW j \in 1..Len(syms), syms[j].bind # "LOCAL"
        PROVE  Fair(syms[j], DefsIn(T, syms[j].name))
    <3>1. CASE j \in 1..Len(t.syms)
      <4>1. syms[j].name # e.name \/ e.bind = "LOCAL"
        BY <1>2, <1>6, <2>2, <2>3, <3>1
      <4> QED
        BY <1>4, <1>5, <2>2, <2>3, <3>1, <4>1
    <3>2. CASE j = Len(t.syms) + 1
      <4>1. syms[j] = e /\ e.bind # "LOCAL"
        BY <2>2, <2>3, <3>2
      <4>2. DefsIn(T, e.name) = IF e.shndx # "UNDEF" THEN {e} ELSE {}
        <5>1. \A d \in S : d.bind # "LOCAL" => d.name # e.name
          BY <1>2, <1>4, <1>6, <4>1
        <5> QED
          BY <4>1, <5>1 DEF DefsIn, T
      <4>3. e.vis \in Vis
        BY DEF Symbol
      <4> QED
        BY <4>1, <4>2, <4>3 DEF Fair, InBss, Vis
    <3> QED
      BY <3>1, <3>2, <2>2, <1>1
  <2>4. ASSUME NEW d \in T, d.bind # "LOCAL"
        PROVE  \E j \in 1..Len(syms) : syms[j].bind # "LOCAL" /\ syms[j].name = d.name
    <3>1. CASE d \in S
      <4>1. PICK j \in 1..Len(t.syms) : t.syms[j].bind # "LOCAL" /\ t.syms[j].name = d.name
        BY <1>4, <2>4, <3>1
      <4> QED
        BY <4>1, <2>2, <1>1
    <3>2. CASE d = e
      BY <3>2, <2>2, <2>4, <1>1
    <3> QED
      BY <3>1, <3>2 DEF T
  <2> QED
    BY <1>4, <2>3, <2>4 DEF Precedes, T
<1>7. CASE i # 0
  <2> DEFINE m == Merged(t.syms[i], e)
  <2>1. syms = [t.syms EXCEPT ![i] = m] /\ i \in 1..Len(t.syms)
    <3> HIDE DEF m
    <3> QED
      BY <1>2, <1>3, <1>7 DEF m
  <2>2. t.syms[i] \in Symbol /\ m \in Symbol /\ m.name = e.name /\ m.bind # "LOCAL"
    <3>1. t.syms[i] \in Symbol
      BY <1>1, <2>1
    <3> QED
      BY <1>2, <1>7, <3>1, MergedKeeps
  <2>3. Fair(m, DefsIn(T, e.name))
    <3> DEFINE D == DefsIn(S, e.name)
               E == DefsIn(T, e.name)
    <3>1. /\ D \subseteq Symbol /\ \A d \in D : d.bind # "LOCAL"
          /\ E = IF e.shndx # "UNDEF" THEN D \union {e} ELSE D
      BY <1>2, <1>4, <1>7 DEF DefsIn
    <3>2. Fair(t.syms[i], D) /\ t.syms[i].bind # "LOCAL" /\ e.bind # "LOCAL"
      BY <1>2, <1>4, <1>7, <2>1
    <3> HIDE DEF D, E
    <3> QED
      BY <2>2, <3>1, <3>2, MergedFair DEF E
  <2> HIDE DEF m, T
  <2>4. /\ Len(syms) = Len(t.syms) /\ syms[i] = m
        /\ \A j \in 1..Len(t.syms) : j # i => syms[j] = t.syms[j]
    BY <1>1, <2>1, <2>2
  <2>5. ASSUME NEW j \in 1..Len(syms), syms[j].bind # "LOCAL"
        PROVE  Fair(syms[j], DefsIn(T, syms[j].name))
    <3>1. CASE j = i
      BY <3>1, <2>2, <2>3, <2>4
    <3>2. CASE j # i
      <4>1. syms[j] = t.syms[j] /\ t.syms[j].name # e.name
        BY <3>2, <1>2, <1>7, <2>1, <2>4, <2>5 DEF OneEach
      <4> QED
        BY <4>1, <1>4, <1>5, <2>4, <2>5
    <3> QED
      BY <3>1, <3>2
  <2>6. ASSUME NEW d \in T, d.bind # "LOCAL"
        PROVE  \E j \in 1..Len(syms) : syms[j].bind # "LOCAL" /\ syms[j].name = d.name
    <3>1. PICK j \in 1..Len(t.syms) : t.syms[j].bind # "LOCAL" /\ t.syms[j].name = d.name
      BY <1>2, <1>4, <1>7, <2>1, <2>6 DEF T
    <3>2. syms[j].bind # "LOCAL" /\ syms[j].name = d.name
      BY <3>1, <1>2, <1>7, <2>2, <2>4
    <3> QED
      BY <3>1, <3>2, <2>4
  <2> QED
    BY <1>4, <2>5, <2>6 DEF Precedes, T
<1> QED
  BY <1>6, <1>7

-----------------------------------------------------------------------------
(* The inductive invariant. *)

(* A table as it is between calls: hashed, one entry for each name, and    *)
(* the entries those that the symbols S call for.                          *)
Ordered(t, S) ==
  /\ Chained(t)
  /\ OneEach(t.syms)
  /\ Precedes(t.syms, S)

(* The table that a compilation appends to. *)
Base == [syms |-> SubSeq(tab.syms, 1, first), hash |-> saved,
         new_undef_sym |-> tab.new_undef_sym]

(* The table, while compiling the one of before it. *)
Tables ==
  /\ phase # "compile" => Ordered(tab, seen)
  /\ phase = "compile" =>
       /\ tab = [syms |-> tab.syms, hash |-> NoHash, new_undef_sym |-> tab.new_undef_sym]
       /\ Ordered(Base, seen)

(* A relocation whose symbol was found has one with its name. *)
Relocations ==
  /\ rels = [k \in 1..Len(rels) |-> [sym |-> rels[k].sym, name |-> rels[k].name]]
  /\ Len(rels) \in Nat
  /\ \A k \in 1..Len(rels) :
       /\ rels[k].name \in Name
       /\ rels[k].sym \in 0..Len(tab.syms)
       /\ rels[k].sym # 0 => tab.syms[rels[k].sym].name = rels[k].name

(* Where the archives are read. *)
Scanning ==
  /\ scan \in [group : BOOLEAN, lib : Nat \ {0}, i : Nat \ {0}, bound : BOOLEAN,
               left : Seq(Symbol)]
  /\ scan.lib <= Len(Library) + 1

Types ==
  /\ tab.syms \in Seq(Symbol)
  /\ tab.new_undef_sym \in BOOLEAN
  /\ first \in 0..Len(tab.syms)
  /\ phase \in {"link", "compile", "archive", "done"}
  /\ nread \in 0..MaxSyms
  /\ twice \subseteq Name
  /\ undef \subseteq Name

IInv == Types /\ Tables /\ Relocations /\ Scanning

(* Relocations keep their symbols when the table grows. *)
LEMMA RelocationsKept ==
  ASSUME Relocations, rels' = rels, tab.syms \in Seq(Symbol), tab'.syms \in Seq(Symbol),
         Len(tab.syms) <= Len(tab'.syms),
         \A i \in 1..Len(tab.syms) : tab'.syms[i].name = tab.syms[i].name
  PROVE  Relocations'
<1>1. Len(tab.syms) \in Nat /\ Len(tab'.syms) \in Nat
  OBVIOUS
<1>2. ASSUME NEW k \in 1..Len(rels)
      PROVE  /\ rels[k].name \in Name
             /\ rels[k].sym \in 0..Len(tab'.syms)
             /\ rels[k].sym # 0 => tab'.syms[rels[k].sym].name = rels[k].name
  <2>1. /\ rels[k].name \in Name
        /\ rels[k].sym \in 0..Len(tab.syms)
        /\ rels[k].sym # 0 => tab.syms[rels[k].sym].name = rels[k].name
    BY DEF Relocations
  <2> QED
    BY <1>1, <2>1
<1> QED
  BY <1>2 DEF Relocations

(* And another one may follow them. *)
LEMMA RelocationsAdd ==
  ASSUME Relocations, tab.syms \in Seq(Symbol), tab'.syms \in Seq(Symbol),
         Len(tab.syms) <= Len(tab'.syms),
         \A i \in 1..Len(tab.syms) : tab'.syms[i].name = tab.syms[i].name,
         NEW s \in 0..Len(tab'.syms), NEW n \in Name,
         s # 0 => tab'.syms[s].name = n,
         rels' = Append(rels, [sym |-> s, name |-> n])
  PROVE  Relocations'
<1> DEFINE x == [sym |-> s, name |-> n]
           T == {rels[k] : k \in 1..Len(rels)} \union {x}
           new == rels'
<1>1. /\ Len(tab.syms) \in Nat /\ Len(tab'.syms) \in Nat /\ Len(rels) \in Nat
      /\ x.sym = s /\ x.name = n
  BY DEF Relocations
<1>2. rels = [k \in 1..Len(rels) |-> rels[k]]
  BY DEF Relocations
<1>3. rels \in Seq(T) /\ x \in T
  BY <1>1, <1>2
<1>4. x = [sym |-> x.sym, name |-> x.name]
  OBVIOUS
<1> HIDE DEF x, T
<1>5. new = Append(rels, x)
  BY DEF x
<1> HIDE DEF new
<1>6. /\ new \in Seq(T) /\ Len(new) = Len(rels) + 1
      /\ \A k \in 1..Len(rels) : new[k] = rels[k]
      /\ new[Len(rels) + 1] = x
  BY <1>1, <1>3, <1>5
<1>7. ASSUME NEW k \in 1..Len(new)
      PROVE  /\ new[k] = [sym |-> new[k].sym, name |-> new[k].name]
             /\ new[k].name \in Name
             /\ new[k].sym \in 0..Len(tab'.syms)
             /\ new[k].sym # 0 => tab'.syms[new[k].sym].name = new[k].name
  <2>1. CASE k \in 1..Len(rels)
    <3>1. /\ rels[k] = [sym |-> rels[k].sym, name |-> rels[k].name]
          /\ rels[k].name \in Name
          /\ rels[k].sym \in 0..Len(tab.syms)
          /\ rels[k].sym # 0 => tab.syms[rels[k].sym].name = rels[k].name
      BY <2>1 DEF Relocations
    <3>2. new[k] = rels[k]
      BY <1>6, <2>1
    <3> QED
      BY <1>1, <3>1, <3>2
  <2>2. CASE k = Len(rels) + 1
    BY <1>1, <1>4, <1>6, <2>2
  <2> QED
    BY <2>1, <2>2, <1>1, <1>6
<1>8. new = [k \in 1..Len(new) |-> [sym |-> new[k].sym, name |-> new[k].name]]
  <2>1. new = [k \in 1..Len(new) |-> new[k]]
    BY <1>6
  <2> QED
    BY <2>1, <1>7
<1>9. Len(new) \in Nat
  BY <1>6
<1> QED
  BY <1>7, <1>8, <1>9 DEF Relocations, new

(* One more symbol of an object. *)
LEMMA LoadRight ==
  ASSUME IInv, phase # "compile", NEW e \in Symbol, NEW skip \in BOOLEAN,
         LoadSymbol(e, skip)
  PROVE  /\ Ordered(tab', seen')
         /\ tab'.syms \in Seq(Symbol) /\ tab'.new_undef_sym \in BOOLEAN
         /\ Len(tab.syms) <= Len(tab'.syms)
         /\ Relocations'
         /\ twice' \subseteq Name
<1>1. /\ Chained(tab) /\ OneEach(tab.syms) /\ Precedes(tab.syms, seen)
      /\ tab.syms \in Seq(Symbol) /\ Len(tab.syms) \in Nat
      /\ e.name \in Name /\ twice \subseteq Name
  BY DEF IInv, Types, Tables, Ordered, Symbol
<1> DEFINE i == Old(tab, e)
           r == set_elf_sym(tab, e)
<1>2. CASE skip
  <2>1. /\ tab' = tab /\ seen' = seen /\ twice' = twice
        /\ rels' = Append(rels, [sym |-> i, name |-> e.name])
    BY <1>2 DEF LoadSymbol, Old
  <2>2. i \in 0..Len(tab.syms) /\ (i # 0 => tab.syms[i].name = e.name)
    BY <1>1, FindRight DEF Old
  <2> HIDE DEF i
  <2>3. Relocations'
    <3>1. /\ tab'.syms \in Seq(Symbol) /\ Len(tab.syms) <= Len(tab'.syms)
          /\ \A k \in 1..Len(tab.syms) : tab'.syms[k].name = tab.syms[k].name
          /\ i \in 0..Len(tab'.syms) /\ (i # 0 => tab'.syms[i].name = e.name)
      BY <1>1, <2>1, <2>2
    <3> QED
      BY <1>1, <2>1, <3>1, RelocationsAdd DEF IInv
  <2> QED
    BY <1>1, <2>1, <2>3 DEF Ordered, Chained
<1>3. CASE ~ skip
  <2>1. /\ tab' = r.tab /\ seen' = seen \union {e} /\ twice' \subseteq Name
        /\ rels' = Append(rels, [sym |-> r.index, name |-> e.name])
    <3> HIDE DEF r
    <3> QED
      BY <1>1, <1>3 DEF LoadSymbol, r
  <2>2. Entered(tab, e, r)
    BY <1>1, SetRight
  <2>3. Precedes(r.tab.syms, seen \union {e})
    BY <1>1, SetPrecedes
  <2> HIDE DEF r
  <2>4. /\ tab'.syms \in Seq(Symbol) /\ Len(tab.syms) <= Len(tab'.syms)
        /\ tab'.new_undef_sym \in BOOLEAN
        /\ \A k \in 1..Len(tab.syms) : tab'.syms[k].name = tab.syms[k].name
        /\ r.index \in 0..Len(tab'.syms)
        /\ tab'.syms[r.index].name = e.name
    BY <1>1, <2>1, <2>2 DEF Entered, Grows, Chained
  <2>5. Relocations'
    BY <1>1, <2>1, <2>4, RelocationsAdd DEF IInv
  <2> QED
    BY <2>1, <2>2, <2>3, <2>4, <2>5 DEF Entered, Ordered
<1> QED
  BY <1>2, <1>3

(* A prefix of a sequence, and of one with another symbol. *)
LEMMA Prefix ==
  ASSUME NEW T, NEW s \in Seq(T), NEW m \in 0..Len(s)
  PROVE  /\ SubSeq(s, 1, m) \in Seq(T)
         /\ Len(SubSeq(s, 1, m)) = m
         /\ \A i \in 1..m : SubSeq(s, 1, m)[i] = s[i]
         /\ SubSeq(s, 1, Len(s)) = s
         /\ \A x \in T : SubSeq(Append(s, x), 1, m) = SubSeq(s, 1, m)
<1>1. /\ SubSeq(s, 1, m) \in Seq(T)
      /\ Len(SubSeq(s, 1, m)) = m
      /\ \A i \in 1..m : SubSeq(s, 1, m)[i] = s[i]
  OBVIOUS
<1>2. SubSeq(s, 1, Len(s)) = s
  OBVIOUS
<1>3. ASSUME NEW x \in T PROVE SubSeq(Append(s, x), 1, m) = SubSeq(s, 1, m)
  <2> DEFINE a == Append(s, x)
  <2>1. a \in Seq(T) /\ Len(a) = Len(s) + 1 /\ \A i \in 1..Len(s) : a[i] = s[i]
    OBVIOUS
  <2> HIDE DEF a
  <2>2. /\ SubSeq(a, 1, m) \in Seq(T) /\ Len(SubSeq(a, 1, m)) = m
        /\ \A i \in 1..m : SubSeq(a, 1, m)[i] = s[i]
    BY <2>1
  <2>3. SubSeq(a, 1, m) = SubSeq(s, 1, m)
    BY <1>1, <2>2, SeqEqual
  <2> QED
    BY <2>3 DEF a
<1> QED
  BY <1>1, <1>2, <1>3

(* Without a hash every symbol is appended. *)
LEMMA CompileIs ==
  ASSUME NEW t, t = [syms |-> t.syms, hash |-> NoHash, new_undef_sym |-> t.new_undef_sym],
         NEW e, NEW r, r = set_elf_sym(t, e)
  PROVE  /\ r.tab = [syms |-> Append(t.syms, e), hash |-> NoHash,
                     new_undef_sym |-> t.new_undef_sym]
         /\ r.index = Len(t.syms) + 1
         /\ r.err = FALSE
<1>1. t.hash = NoHash /\ t.hash.nb = 0
  BY DEF NoHash
<1>2. find_elf_sym(t, e.name) = 0
  BY <1>1, Zenon DEF find_elf_sym
<1>3. r = [tab |-> put_elf_sym(t, e), index |-> Len(t.syms) + 1, err |-> FALSE]
  BY <1>2 DEF set_elf_sym
<1>4. put_elf_sym(t, e) = [t EXCEPT !.syms = Append(t.syms, e), !.hash = NoHash]
  BY <1>1, Zenon DEF put_elf_sym
<1> DEFINE s == Append(t.syms, e)
           p == put_elf_sym(t, e)
<1> HIDE DEF s, p
<1>5. p = [t EXCEPT !.syms = s, !.hash = NoHash]
  BY <1>4 DEF p, s
<1>6. p = [syms |-> s, hash |-> NoHash, new_undef_sym |-> t.new_undef_sym]
  BY <1>5
<1> QED
  BY <1>3, <1>6 DEF p, s

-----------------------------------------------------------------------------
(* tccelf_end_file() *)

(* f are the rounds of its loop up to m. *)
Start == [tab |-> [tab EXCEPT !.syms = SubSeq(@, 1, first), !.hash = saved],
          mem |-> tab.syms, tr |-> <<>>, err |-> {}, got |-> {}]
Rounds(f, m) == f = [i \in 0..m |-> IF i = 0 THEN Start ELSE EndRound(f[i - 1], i)]

(* A round only needs those before it. *)
LEMMA RoundsExist ==
  ASSUME NEW K \in Nat
  PROVE  \E f : Rounds(f, K)
<1> DEFINE Bad == {m \in Nat : ~ \E f : Rounds(f, m)}
<1>1. SUFFICES ASSUME Bad # {} PROVE FALSE
  OBVIOUS
<1>2. PICK m \in Bad : \A k \in Bad : m <= k
  <2>1. Bad \subseteq Nat
    OBVIOUS
  <2> HIDE DEF Bad
  <2> QED
    BY <1>1, <2>1, LeastNat
<1>3. m \in Nat /\ ~ \E f : Rounds(f, m)
  OBVIOUS
<1>4. CASE m = 0
  <2>1. Rounds([i \in 0..0 |-> Start], 0)
    BY DEF Rounds
  <2> QED
    BY <2>1, <1>3, <1>4
<1>5. CASE m # 0
  <2>1. m - 1 \in Nat /\ m - 1 \notin Bad
    BY <1>2, <1>3, <1>5
  <2>2. PICK f : Rounds(f, m - 1)
    BY <2>1
  <2> DEFINE g == [i \in 0..m |-> IF i < m THEN f[i] ELSE EndRound(f[m - 1], m)]
             h == [i \in 0..m |-> IF i = 0 THEN Start ELSE EndRound(g[i - 1], i)]
  <2>3. ASSUME NEW i \in 0..m PROVE g[i] = h[i]
    <3>1. CASE i = 0
      BY <3>1, <2>2, <1>3, <1>5 DEF Rounds
    <3>2. CASE i # 0 /\ i < m
      <4>1. i \in 0..(m - 1) /\ i - 1 \in 0..m /\ i - 1 < m
        BY <3>2, <1>3
      <4>2. f[i] = EndRound(f[i - 1], i)
        BY <4>1, <3>2, <2>2 DEF Rounds
      <4>3. g[i - 1] = f[i - 1]
        BY <4>1
      <4> QED
        BY <4>2, <4>3, <3>2
    <3>3. CASE i = m
      <4>1. i - 1 \in 0..m /\ i - 1 < m
        BY <3>3, <1>3, <1>5
      <4>2. g[i - 1] = f[m - 1]
        BY <4>1, <3>3
      <4> QED
        BY <4>2, <3>3, <1>5
    <3> QED
      BY <3>1, <3>2, <3>3, <1>3
  <2>4. g = h
    BY <2>3
  <2>5. Rounds(g, m)
    BY <2>4 DEF Rounds
  <2> QED
    BY <2>5, <1>3
<1> QED
  BY <1>4, <1>5

(* What tccelf_end_file() has in round i: the table has taken in as many   *)
(* symbols as were read, so that those still to be read are in the memory  *)
(* as the compilation left them, and tr leads from those that were read to *)
(* symbols with their names.                                               *)
Merging(i, a) ==
  /\ Ordered(a.tab, seen \union a.got)
  /\ Len(a.tab.syms) \in first..(first + i)
  /\ \A k \in 1..first : a.tab.syms[k].name = tab.syms[k].name
  /\ a.mem \in Seq(Symbol)
  /\ Len(a.mem) = Len(tab.syms)
  /\ \A k \in (first + i + 1)..Len(tab.syms) : a.mem[k] = tab.syms[k]
  /\ a.tr \in Seq(Nat)
  /\ Len(a.tr) = i
  /\ \A j \in 1..i : /\ a.tr[j] \in 1..Len(a.tab.syms)
                     /\ a.tab.syms[a.tr[j]].name = tab.syms[first + j].name
  /\ a.err \subseteq Name

(* The table is cut back to what it was before the compilation. *)
LEMMA MergeStart ==
  ASSUME IInv, phase = "compile"
  PROVE  Merging(0, Start)
<1> DEFINE S == SubSeq(tab.syms, 1, first)
           t1 == [tab EXCEPT !.syms = S]
           t2 == [t1 EXCEPT !.hash = saved]
<1>1. /\ tab = [syms |-> tab.syms, hash |-> NoHash, new_undef_sym |-> tab.new_undef_sym]
      /\ Ordered(Base, seen)
      /\ tab.syms \in Seq(Symbol) /\ Len(tab.syms) \in Nat /\ first \in 0..Len(tab.syms)
  BY DEF IInv, Tables, Types
<1>2. S \in Seq(Symbol) /\ Len(S) = first /\ \A i \in 1..first : S[i] = tab.syms[i]
  BY <1>1, Prefix
<1>3. Base = [syms |-> S, hash |-> saved, new_undef_sym |-> tab.new_undef_sym]
  BY DEF Base
<1>4. Start = [tab |-> t2, mem |-> tab.syms, tr |-> <<>>, err |-> {}, got |-> {}]
  BY DEF Start
<1> HIDE DEF S
<1>5. t1 = [syms |-> S, hash |-> NoHash, new_undef_sym |-> tab.new_undef_sym]
  BY <1>1
<1> HIDE DEF t1
<1>6. t2 = [syms |-> S, hash |-> saved, new_undef_sym |-> tab.new_undef_sym]
  BY <1>5
<1>7. t2 = Base
  BY <1>3, <1>6
<1> HIDE DEF t2
<1>8. /\ Start.tab = Base /\ Start.mem = tab.syms /\ Start.tr = <<>>
      /\ Start.err = {} /\ Start.got = {}
  BY <1>4, <1>7
<1>9. Base.syms = S
  BY <1>3
<1>10. Ordered(Start.tab, seen \union Start.got)
  <2>1. seen \union {} = seen
    OBVIOUS
  <2> QED
    BY <1>1, <1>8, <2>1
<1> HIDE DEF S
<1>11. /\ Len(Start.tab.syms) = first
       /\ \A k \in 1..first : Start.tab.syms[k] = tab.syms[k]
  BY <1>2, <1>8, <1>9
<1>12. Start.tr \in Seq(Nat) /\ Len(Start.tr) = 0
  BY <1>8
<1> QED
  BY <1>1, <1>8, <1>10, <1>11, <1>12 DEF Merging

(* One round: set_elf_sym() may overwrite the memory of symbol i, but not  *)
(* that of a later one.                                                    *)
LEMMA MergeRound ==
  ASSUME IInv, phase = "compile", NEW i \in 1..(Len(tab.syms) - first),
         NEW a, Merging(i - 1, a)
  PROVE  Merging(i, EndRound(a, i))
<1> DEFINE x == a.mem[first + i]
           e == Globalize(x)
           r == set_elf_sym(a.tab, e)
           syms == r.tab.syms
           n == Len(syms)
           mem == [k \in 1..Len(a.mem) |-> IF k <= n THEN syms[k] ELSE a.mem[k]]
           tr == Append(a.tr, r.index)
           err == IF r.err THEN a.err \union {e.name} ELSE a.err
           new == EndRound(a, i)
<1>1. /\ tab.syms \in Seq(Symbol) /\ Len(tab.syms) \in Nat /\ first \in 0..Len(tab.syms)
      /\ first \in Nat /\ i \in Nat /\ i # 0 /\ first + i <= Len(tab.syms)
  BY DEF IInv, Types
<1>2. /\ Ordered(a.tab, seen \union a.got)
      /\ Len(a.tab.syms) \in first..(first + (i - 1))
      /\ \A k \in 1..first : a.tab.syms[k].name = tab.syms[k].name
      /\ a.mem \in Seq(Symbol)
      /\ Len(a.mem) = Len(tab.syms)
      /\ \A k \in (first + (i - 1) + 1)..Len(tab.syms) : a.mem[k] = tab.syms[k]
      /\ a.tr \in Seq(Nat)
      /\ Len(a.tr) = i - 1
      /\ \A j \in 1..(i - 1) : /\ a.tr[j] \in 1..Len(a.tab.syms)
                               /\ a.tab.syms[a.tr[j]].name = tab.syms[first + j].name
      /\ a.err \subseteq Name
  BY DEF Merging
<1>3. x = tab.syms[first + i] /\ x \in Symbol
  <2>1. first + i \in (first + (i - 1) + 1)..Len(tab.syms) /\ first + i \in 1..Len(tab.syms)
    BY <1>1
  <2>2. a.mem[first + i] = tab.syms[first + i]
    BY <1>2, <2>1
  <2>3. tab.syms[first + i] \in Symbol
    BY <1>1, <2>1
  <2> QED
    BY <2>2, <2>3
<1> HIDE DEF x
<1>4. e \in Symbol /\ e.name = x.name /\ e.name \in Name
  BY <1>3 DEF Globalize, Symbol, Bind
<1>5. new = [tab |-> r.tab, mem |-> mem, tr |-> tr, err |-> err, got |-> a.got \union {e}]
  BY DEF EndRound, x
<1> HIDE DEF e
<1>6. Entered(a.tab, e, r)
  BY <1>2, <1>4, SetRight DEF Ordered
<1>7. Precedes(syms, (seen \union a.got) \union {e})
  BY <1>2, <1>4, SetPrecedes DEF Ordered
<1> HIDE DEF r
<1>8. /\ syms \in Seq(Symbol) /\ n \in Nat
      /\ a.tab.syms \in Seq(Symbol) /\ Len(a.tab.syms) \in Nat
  BY <1>2, <1>6 DEF Entered, Chained, Ordered
<1>9. /\ n \in Len(a.tab.syms)..(Len(a.tab.syms) + 1)
      /\ \A k \in 1..Len(a.tab.syms) : syms[k].name = a.tab.syms[k].name
      /\ r.index \in 1..n /\ syms[r.index].name = e.name
  BY <1>6 DEF Entered, Grows
<1> HIDE DEF syms, n, mem, tr, err, new
<1>10. /\ new.tab = r.tab /\ new.tab.syms = syms /\ new.mem = mem /\ new.tr = tr
       /\ new.err = err /\ new.got = a.got \union {e}
  BY <1>5 DEF syms
<1>11. Ordered(new.tab, seen \union new.got)
  <2>1. seen \union (a.got \union {e}) = (seen \union a.got) \union {e}
    OBVIOUS
  <2> QED
    BY <1>6, <1>7, <1>10, <2>1 DEF Ordered, Entered, syms
<1>12. n \in first..(first + i)
  BY <1>1, <1>2, <1>8, <1>9
<1>13. ASSUME NEW k \in 1..first PROVE syms[k].name = tab.syms[k].name
  BY <1>1, <1>2, <1>8, <1>9
<1>14. /\ mem \in Seq(Symbol) /\ Len(mem) = Len(tab.syms)
       /\ \A k \in 1..Len(tab.syms) : mem[k] = IF k <= n THEN syms[k] ELSE a.mem[k]
  <2>1. /\ \A k \in 1..n : syms[k] \in Symbol
        /\ \A k \in 1..Len(tab.syms) : a.mem[k] \in Symbol
    BY <1>2, <1>8 DEF n
  <2>2. mem \in [1..Len(tab.syms) -> Symbol]
    BY <1>1, <1>2, <1>8, <2>1 DEF mem
  <2>3. \A k \in 1..Len(tab.syms) : mem[k] = IF k <= n THEN syms[k] ELSE a.mem[k]
    BY <1>2 DEF mem
  <2> HIDE DEF mem
  <2>4. mem \in Seq(Symbol) /\ Len(mem) = Len(tab.syms)
    BY <1>1, <2>2
  <2> QED
    BY <2>3, <2>4
<1>15. ASSUME NEW k \in (first + i + 1)..Len(tab.syms) PROVE mem[k] = tab.syms[k]
  <2>1. k \in 1..Len(tab.syms) /\ k > n /\ k \in (first + (i - 1) + 1)..Len(tab.syms)
    BY <1>1, <1>8, <1>12
  <2> QED
    BY <1>2, <1>8, <1>14, <2>1
<1>16. /\ tr \in Seq(Nat) /\ Len(tr) = i /\ tr[i] = r.index
       /\ \A j \in 1..(i - 1) : tr[j] = a.tr[j]
  BY <1>1, <1>2, <1>8, <1>9 DEF tr
<1>17. ASSUME NEW j \in 1..i
       PROVE  tr[j] \in 1..n /\ syms[tr[j]].name = tab.syms[first + j].name
  <2>1. CASE j = i
    BY <2>1, <1>3, <1>4, <1>9, <1>16
  <2>2. CASE j # i
    <3>1. j \in 1..(i - 1) /\ tr[j] = a.tr[j]
      BY <2>2, <1>1, <1>16
    <3>2. a.tr[j] \in 1..Len(a.tab.syms) /\ a.tab.syms[a.tr[j]].name = tab.syms[first + j].name
      BY <3>1, <1>2
    <3>3. a.tr[j] \in 1..n
      BY <3>2, <1>8, <1>9
    <3>4. syms[a.tr[j]].name = a.tab.syms[a.tr[j]].name
      BY <3>2, <1>9
    <3> QED
      BY <3>1, <3>2, <3>3, <3>4
  <2> QED
    BY <2>1, <2>2
<1>18. err \subseteq Name
  BY <1>2, <1>4 DEF err
<1> QED
  BY <1>10, <1>11, <1>12, <1>13, <1>14, <1>15, <1>16, <1>17, <1>18 DEF Merging, new, n

(* After the last round. *)
LEMMA MergeRight ==
  ASSUME IInv, phase = "compile"
  PROVE  Merging(Len(tab.syms) - first, EndMerge)
<1> DEFINE K == Len(tab.syms) - first
           F == CHOOSE f : Rounds(f, K)
           Bad == {m \in 0..K : ~ Merging(m, F[m])}
<1>1. K \in Nat
  BY DEF IInv, Types
<1>2. EndMerge = F[K]
  BY DEF EndMerge, Rounds, Start
<1> HIDE DEF K
<1>3. Rounds(F, K)
  BY <1>1, RoundsExist
<1> HIDE DEF F
<1>4. SUFFICES Bad = {}
  BY <1>1, <1>2 DEF K
<1>5. SUFFICES ASSUME Bad # {} PROVE FALSE
  OBVIOUS
<1>6. PICK m \in Bad : \A k \in Bad : m <= k
  <2>1. Bad \subseteq Nat
    BY <1>1
  <2> HIDE DEF Bad
  <2> QED
    BY <1>5, <2>1, LeastNat
<1>7. m \in 0..K /\ ~ Merging(m, F[m])
  OBVIOUS
<1>8. CASE m = 0
  <2>1. F[0] = Start
    BY <1>1, <1>3 DEF Rounds
  <2> QED
    BY <1>7, <1>8, <2>1, MergeStart
<1>9. CASE m # 0
  <2>1. m - 1 \in 0..K /\ m - 1 \notin Bad
    BY <1>1, <1>6, <1>7, <1>9
  <2>2. Merging(m - 1, F[m - 1])
    BY <2>1
  <2>3. F[m] = EndRound(F[m - 1], m)
    BY <1>1, <1>3, <1>7, <1>9 DEF Rounds
  <2>4. m \in 1..(Len(tab.syms) - first)
    BY <1>1, <1>7, <1>9 DEF K
  <2> QED
    BY <1>7, <2>2, <2>3, <2>4, MergeRound
<1> QED
  BY <1>8, <1>9

-----------------------------------------------------------------------------
(* The steps. *)

(* The first state. *)
LEMMA InitIInv == Init => IInv
<1> SUFFICES ASSUME Init PROVE IInv
  OBVIOUS
<1>1. /\ tab = [syms |-> <<>>, hash |-> EmptyHash, new_undef_sym |-> FALSE]
      /\ phase = "link" /\ first = 0 /\ rels = <<>> /\ nread = 0 /\ seen = {}
      /\ twice = {} /\ undef = {}
      /\ scan = [group |-> FALSE, lib |-> 1, i |-> 1, bound |-> FALSE, left |-> <<>>]
  BY DEF Init
<1>2. tab.syms = <<>> /\ tab.hash = EmptyHash /\ tab.new_undef_sym = FALSE
  BY <1>1
<1>3. <<>> \in Seq(Symbol) /\ Len(<<>>) = 0
  OBVIOUS
<1>4. EmptyHash = rebuild_hash(<<>>, 1, 0)
  <2> DEFINE r == rebuild_hash(<<>>, 1, 0)
  <2>1. Rebuilt(r, <<>>, 1, 0)
    BY RebuildAt
  <2>2. \A h : On(<<>>, 1, h, 0) = {}
    BY DEF On
  <2> HIDE DEF r
  <2>3. \A h \in 0..0 : r.bucket[h] = 0
    <3>1. Largest({}) = 0
      BY DEF Largest
    <3> QED
      BY <1>3, <2>1, <2>2, <3>1 DEF Rebuilt
  <2>4. r.bucket = [h \in 0..0 |-> 0]
    BY <2>1, <2>3 DEF Rebuilt
  <2>5. r.chain = <<>>
    BY <1>3, <2>1 DEF Rebuilt
  <2> QED
    BY <2>1, <2>4, <2>5 DEF Rebuilt, EmptyHash, r
<1>5. EmptyHash.nb = 1 /\ EmptyHash.hashed = 0
  BY DEF EmptyHash
<1>6. Chained(tab)
  BY <1>1, <1>2, <1>3, <1>4, <1>5 DEF Chained
<1>7. OneEach(tab.syms) /\ Precedes(tab.syms, seen)
  BY <1>1, <1>2, <1>3 DEF OneEach, Precedes
<1>8. Types
  BY <1>1, <1>2, <1>3, InputAssumption DEF Types
<1>9. Tables
  BY <1>1, <1>6, <1>7 DEF Tables, Ordered
<1>10. Relocations
  BY <1>1 DEF Relocations
<1>11. Scanning
  <2>1. Len(Library) \in Nat
    BY LibraryAssumption
  <2> QED
    BY <1>1, <1>3, <2>1 DEF Scanning
<1> QED
  BY <1>8, <1>9, <1>10, <1>11 DEF IInv

(* A symbol of an object on the command line. *)
LEMMA LoadSymbolStep ==
  ASSUME IInv, NEW e \in Inputs, NEW skip \in BOOLEAN, load_symbol(e, skip)
  PROVE  IInv'
<1>1. /\ phase = "link" /\ phase' = phase /\ first' = first /\ saved' = saved /\ scan' = scan
      /\ undef' = undef /\ nread' = nread + 1 /\ nread < MaxSyms
      /\ LoadSymbol(e, skip) /\ e \in Symbol
  BY InputAssumption DEF load_symbol
<1>2. /\ Ordered(tab', seen')
      /\ tab'.syms \in Seq(Symbol) /\ tab'.new_undef_sym \in BOOLEAN
      /\ Len(tab.syms) <= Len(tab'.syms)
      /\ Relocations'
      /\ twice' \subseteq Name
  BY <1>1, LoadRight
<1>3. Types'
  <2>1. /\ tab.syms \in Seq(Symbol) /\ first \in 0..Len(tab.syms) /\ nread \in 0..MaxSyms
        /\ undef \subseteq Name
    BY DEF IInv, Types
  <2>2. first' \in 0..Len(tab'.syms)
    BY <1>1, <1>2, <2>1
  <2>3. nread' \in 0..MaxSyms
    BY <1>1, <2>1, InputAssumption
  <2> QED
    BY <1>1, <1>2, <2>1, <2>2, <2>3 DEF Types
<1>4. Tables'
  BY <1>1, <1>2 DEF Tables
<1>5. Scanning'
  BY <1>1 DEF IInv, Scanning
<1> QED
  BY <1>2, <1>3, <1>4, <1>5 DEF IInv

(* A symbol of a member of an archive. *)
LEMMA MemberStep ==
  ASSUME IInv, alacarte_load
  PROVE  IInv'
<1>1. /\ phase = "archive" /\ phase' = phase /\ first' = first /\ saved' = saved
      /\ undef' = undef /\ nread' = nread
      /\ scan' = [scan EXCEPT !.left = Tail(@)] /\ scan.left # <<>>
      /\ LoadSymbol(Head(scan.left), FALSE)
  BY DEF alacarte_load
<1>2. /\ scan \in [group : BOOLEAN, lib : Nat \ {0}, i : Nat \ {0}, bound : BOOLEAN,
                   left : Seq(Symbol)]
      /\ scan.lib <= Len(Library) + 1
  BY DEF IInv, Scanning
<1>3. Head(scan.left) \in Symbol /\ Tail(scan.left) \in Seq(Symbol)
  BY <1>1, <1>2
<1>4. /\ Ordered(tab', seen')
      /\ tab'.syms \in Seq(Symbol) /\ tab'.new_undef_sym \in BOOLEAN
      /\ Len(tab.syms) <= Len(tab'.syms)
      /\ Relocations'
      /\ twice' \subseteq Name
  BY <1>1, <1>3, LoadRight
<1>5. Types'
  <2>1. /\ tab.syms \in Seq(Symbol) /\ first \in 0..Len(tab.syms) /\ nread \in 0..MaxSyms
        /\ undef \subseteq Name
    BY DEF IInv, Types
  <2>2. first' \in 0..Len(tab'.syms)
    BY <1>1, <1>4, <2>1
  <2> QED
    BY <1>1, <1>4, <2>1, <2>2 DEF Types
<1>6. Tables'
  BY <1>1, <1>4 DEF Tables
<1>7. Scanning'
  <2> DEFINE l == Tail(scan.left)
  <2>1. scan' = [scan EXCEPT !.left = l] /\ l \in Seq(Symbol)
    BY <1>1, <1>3
  <2> HIDE DEF l
  <2> QED
    BY <1>2, <2>1 DEF Scanning
<1> QED
  BY <1>4, <1>5, <1>6, <1>7 DEF IInv

(* Only scan, loads and new_undef_sym change, and the phase between those  *)
(* that have a hash.                                                       *)
LEMMA ArchiveFrame ==
  ASSUME IInv, phase # "compile", phase' \in {"link", "archive", "done"},
         tab' = tab \/ tab' = [tab EXCEPT !.new_undef_sym = FALSE],
         first' = first, saved' = saved, rels' = rels, nread' = nread, seen' = seen,
         twice' = twice, undef' = undef, Scanning'
  PROVE  IInv'
<1>1. Ordered(tab, seen)
  BY DEF IInv, Tables
<1>2. /\ tab = [syms |-> tab.syms, hash |-> tab.hash, new_undef_sym |-> tab.new_undef_sym]
      /\ tab.syms \in Seq(Symbol) /\ tab.new_undef_sym \in BOOLEAN
      /\ Chained(tab)
  BY <1>1 DEF Ordered, Chained
<1>3. /\ tab'.syms = tab.syms /\ tab'.new_undef_sym \in BOOLEAN
      /\ tab' = [syms |-> tab.syms, hash |-> tab.hash, new_undef_sym |-> tab'.new_undef_sym]
  BY <1>2
<1>4. Chained(tab')
  <2>1. Chained([syms |-> tab.syms, hash |-> tab.hash, new_undef_sym |-> tab'.new_undef_sym])
    BY <1>2, <1>3, SameChains
  <2> QED
    BY <1>3, <2>1
<1>5. Ordered(tab', seen')
  BY <1>1, <1>3, <1>4 DEF Ordered
<1>6. Types'
  BY <1>3 DEF IInv, Types
<1>7. Relocations'
  BY <1>3 DEF IInv, Relocations
<1>8. Tables'
  BY <1>5 DEF Tables
<1> QED
  BY <1>6, <1>7, <1>8 DEF IInv

(* Moving on in the archives. *)
Scan == [group : BOOLEAN, lib : Nat \ {0}, i : Nat \ {0}, bound : BOOLEAN, left : Seq(Symbol)]
ScanLoad(s, i, left) == [s EXCEPT !.i = i, !.bound = TRUE, !.left = left]
ScanPass(s, lib) == [s EXCEPT !.i = 1, !.bound = FALSE, !.lib = lib]
LEMMA ScanLoads ==
  ASSUME NEW s \in Scan, NEW i \in Nat \ {0}, NEW left \in Seq(Symbol)
  PROVE  ScanLoad(s, i, left) \in Scan /\ ScanLoad(s, i, left).lib = s.lib
<1> DEFINE s1 == [s EXCEPT !.i = i]
           s2 == [s1 EXCEPT !.bound = TRUE]
           s3 == [s2 EXCEPT !.left = left]
<1>1. ScanLoad(s, i, left) = s3
  BY DEF ScanLoad
<1>2. s1 \in Scan /\ s1.lib = s.lib
  BY DEF Scan
<1> HIDE DEF s1
<1>3. s2 \in Scan /\ s2.lib = s.lib
  BY <1>2 DEF Scan
<1> HIDE DEF s2
<1>4. s3 \in Scan /\ s3.lib = s.lib
  BY <1>3 DEF Scan
<1> HIDE DEF s3
<1> QED
  BY <1>1, <1>4

(* Starting another pass. *)
LEMMA ScanPasses ==
  ASSUME NEW s \in Scan, NEW lib \in Nat \ {0}
  PROVE  ScanPass(s, lib) \in Scan /\ ScanPass(s, lib).lib = lib
<1> DEFINE s1 == [s EXCEPT !.i = 1]
           s2 == [s1 EXCEPT !.bound = FALSE]
           s3 == [s2 EXCEPT !.lib = lib]
<1>1. ScanPass(s, lib) = s3
  BY DEF ScanPass
<1>2. s1 \in Scan
  BY DEF Scan
<1> HIDE DEF s1
<1>3. s2 \in Scan
  BY <1>2 DEF Scan
<1> HIDE DEF s2
<1>4. s3 \in Scan /\ s3.lib = lib
  BY <1>3 DEF Scan
<1> HIDE DEF s3
<1> QED
  BY <1>1, <1>4

(* The steps that read archives. *)
LEMMA ArchiveStep ==
  ASSUME IInv, Linker \/ \E group \in BOOLEAN : ld_add_file_list(group)
  PROVE  IInv'
<1>1. /\ scan \in [group : BOOLEAN, lib : Nat \ {0}, i : Nat \ {0}, bound : BOOLEAN,
                   left : Seq(Symbol)]
      /\ scan.lib <= Len(Library) + 1
      /\ Len(Library) \in Nat
  BY LibraryAssumption DEF IInv, Scanning
<1>2. CASE alacarte_load
  BY <1>2, MemberStep
<1>3. ASSUME NEW group \in BOOLEAN, ld_add_file_list(group) PROVE IInv'
  <2>1. Scanning'
    <3>1. <<>> \in Seq(Symbol)
      OBVIOUS
    <3> QED
      BY <1>1, <1>3, <3>1 DEF ld_add_file_list, Scanning
  <2> QED
    BY <1>3, <2>1, ArchiveFrame DEF ld_add_file_list
<1>4. CASE alacarte_entry
  <2> DEFINE l == Member[scan.lib][Index[scan.i].member]
  <2>1. l \in Seq(Symbol)
    <3>1. scan.lib \in 1..Len(Library) /\ scan.i \in 1..Len(Index)
      <4>1. scan.lib \in 1..Len(Library)
        BY <1>1, <1>4 DEF alacarte_entry
      <4>2. Len(Index) \in Nat
        BY <4>1, LibraryAssumption DEF Index
      <4> QED
        BY <1>1, <1>4, <4>1, <4>2 DEF alacarte_entry
    <3> QED
      BY <3>1, LibraryAssumption DEF Index
  <2>2. \/ scan' = [scan EXCEPT !.i = scan.i + 1, !.bound = TRUE, !.left = l]
        \/ scan' = [scan EXCEPT !.i = scan.i + 1]
    BY <1>4 DEF alacarte_entry
  <2> HIDE DEF l
  <2>3. Scanning'
    <3> DEFINE s == scan
               j == s.i + 1
    <3>1. j \in Nat \ {0} /\ s \in Scan
      BY <1>1 DEF Scan
    <3>2. scan' = ScanLoad(s, j, l) \/ scan' = [s EXCEPT !.i = j]
      BY <2>2 DEF ScanLoad
    <3> HIDE DEF j
    <3>3. [s EXCEPT !.i = j] \in Scan /\ [s EXCEPT !.i = j].lib = s.lib
      BY <3>1 DEF Scan
    <3>4. scan' \in Scan /\ scan'.lib = scan.lib
      BY <2>1, <3>1, <3>2, <3>3, ScanLoads
    <3> QED
      BY <1>1, <3>4 DEF Scanning, Scan
  <2> QED
    BY <1>4, <2>3, ArchiveFrame DEF alacarte_entry
<1>5. CASE alacarte_pass
  <2>1. Scanning'
    <3> DEFINE s == scan
               k == IF s.bound THEN s.lib ELSE s.lib + 1
    <3>1. k \in Nat \ {0} /\ k <= Len(Library) + 1 /\ s \in Scan
      BY <1>1, <1>5 DEF alacarte_pass, Scan
    <3>2. scan' = ScanPass(s, k)
      BY <1>5 DEF alacarte_pass, ScanPass
    <3> HIDE DEF k
    <3>3. scan' \in Scan /\ scan'.lib = k
      BY <3>1, <3>2, ScanPasses
    <3> QED
      BY <1>1, <3>1, <3>3 DEF Scanning, Scan
  <2> QED
    BY <1>5, <2>1, ArchiveFrame DEF alacarte_pass
<1>6. CASE ld_list_end
  <2>1. Scanning'
    BY <1>1, <1>6 DEF ld_list_end, Scanning
  <2>2. phase = "archive" /\ phase' \in {"link", "archive"}
    BY <1>6 DEF ld_list_end
  <2> QED
    BY <1>6, <2>1, <2>2, ArchiveFrame DEF ld_list_end
<1> QED
  BY <1>2, <1>3, <1>4, <1>5, <1>6 DEF Linker

(* Start of a compilation: its mark is at the end of the table. *)
LEMMA BeginStep ==
  ASSUME IInv, tccelf_begin_file
  PROVE  IInv'
<1>1. /\ phase = "link" /\ phase' = "compile" /\ first' = Len(tab.syms)
      /\ saved' = tab.hash /\ tab' = [tab EXCEPT !.hash = NoHash]
      /\ rels' = rels /\ scan' = scan /\ nread' = nread /\ seen' = seen
      /\ twice' = twice /\ undef' = undef
  BY DEF tccelf_begin_file
<1>2. /\ Ordered(tab, seen) /\ tab.syms \in Seq(Symbol) /\ tab.new_undef_sym \in BOOLEAN
      /\ tab = [syms |-> tab.syms, hash |-> tab.hash, new_undef_sym |-> tab.new_undef_sym]
  BY <1>1 DEF IInv, Tables, Ordered, Chained
<1>3. /\ tab' = [syms |-> tab.syms, hash |-> NoHash, new_undef_sym |-> tab.new_undef_sym]
      /\ tab'.syms = tab.syms /\ tab'.new_undef_sym = tab.new_undef_sym
  BY <1>1, <1>2
<1>4. Base' = tab
  <2>1. Base' = [syms |-> SubSeq(tab'.syms, 1, first'), hash |-> saved',
                 new_undef_sym |-> tab'.new_undef_sym]
    BY DEF Base
  <2>2. SubSeq(tab.syms, 1, Len(tab.syms)) = tab.syms
    BY <1>2, Prefix
  <2> QED
    BY <1>1, <1>2, <1>3, <2>1, <2>2
<1>5. Types'
  BY <1>1, <1>2, <1>3 DEF IInv, Types
<1>6. Tables'
  BY <1>1, <1>2, <1>3, <1>4 DEF Tables
<1>7. Relocations'
  BY <1>1, <1>3 DEF IInv, Relocations
<1>8. Scanning'
  BY <1>1 DEF IInv, Scanning
<1> QED
  BY <1>5, <1>6, <1>7, <1>8 DEF IInv

(* A symbol of a compilation. *)
LEMMA CompileStep ==
  ASSUME IInv, NEW e \in Inputs, compile_symbol(e)
  PROVE  IInv'
<1> DEFINE r == set_elf_sym(tab, e)
<1>1. /\ phase = "compile" /\ phase' = phase /\ first' = first /\ saved' = saved
      /\ tab' = r.tab /\ rels' = Append(rels, [sym |-> r.index, name |-> e.name])
      /\ scan' = scan /\ nread' = nread + 1 /\ nread < MaxSyms /\ seen' = seen
      /\ twice' = twice /\ undef' = undef
  BY DEF compile_symbol
<1>2. /\ tab = [syms |-> tab.syms, hash |-> NoHash, new_undef_sym |-> tab.new_undef_sym]
      /\ Ordered(Base, seen)
      /\ tab.syms \in Seq(Symbol) /\ tab.new_undef_sym \in BOOLEAN
      /\ first \in 0..Len(tab.syms) /\ Len(tab.syms) \in Nat
      /\ e \in Symbol /\ e.name \in Name /\ nread \in 0..MaxSyms
  BY <1>1, InputAssumption DEF IInv, Tables, Types, Symbol
<1>3. /\ r.tab = [syms |-> Append(tab.syms, e), hash |-> NoHash,
                  new_undef_sym |-> tab.new_undef_sym]
      /\ r.index = Len(tab.syms) + 1
  <2>1. tab = [syms |-> tab.syms, hash |-> NoHash, new_undef_sym |-> tab.new_undef_sym]
    BY <1>2
  <2> QED
    BY <2>1, CompileIs
<1> HIDE DEF r
<1>4. /\ tab' = [syms |-> tab'.syms, hash |-> NoHash, new_undef_sym |-> tab'.new_undef_sym]
      /\ tab'.syms = Append(tab.syms, e) /\ tab'.new_undef_sym = tab.new_undef_sym
  BY <1>1, <1>3
<1>5. /\ tab'.syms \in Seq(Symbol) /\ Len(tab'.syms) = Len(tab.syms) + 1
      /\ \A i \in 1..Len(tab.syms) : tab'.syms[i] = tab.syms[i]
      /\ tab'.syms[Len(tab.syms) + 1] = e
  BY <1>2, <1>4
<1>6. Base' = Base
  <2>1. Base' = [syms |-> SubSeq(tab'.syms, 1, first'), hash |-> saved',
                 new_undef_sym |-> tab'.new_undef_sym]
    BY DEF Base
  <2>2. SubSeq(Append(tab.syms, e), 1, first) = SubSeq(tab.syms, 1, first)
    BY <1>2, Prefix
  <2> QED
    BY <1>1, <1>4, <2>1, <2>2 DEF Base
<1>7. Types'
  <2>1. first' \in 0..Len(tab'.syms) /\ nread' \in 0..MaxSyms
    BY <1>1, <1>2, <1>5, InputAssumption
  <2> QED
    BY <1>1, <1>2, <1>4, <1>5, <2>1 DEF IInv, Types
<1>8. Tables'
  BY <1>1, <1>2, <1>4, <1>6 DEF Tables
<1>9. Relocations'
  <2>1. /\ Len(tab.syms) <= Len(tab'.syms)
        /\ \A i \in 1..Len(tab.syms) : tab'.syms[i].name = tab.syms[i].name
        /\ r.index \in 0..Len(tab'.syms) /\ tab'.syms[r.index].name = e.name
    BY <1>2, <1>3, <1>5
  <2> QED
    BY <1>1, <1>2, <1>5, <2>1, RelocationsAdd DEF IInv
<1>10. Scanning'
  BY <1>1 DEF IInv, Scanning
<1> QED
  BY <1>7, <1>8, <1>9, <1>10 DEF IInv

(* The relocations of a compilation refer to the merged symbols. *)
LEMMA EndStep ==
  ASSUME IInv, tccelf_end_file
  PROVE  IInv'
<1> DEFINE m == EndMerge
           new == [k \in DOMAIN rels |-> IF rels[k].sym > first
                                           THEN [rels[k] EXCEPT !.sym = m.tr[@ - first]]
                                           ELSE rels[k]]
<1>1. /\ phase = "compile" /\ phase' = "link" /\ tab' = m.tab /\ rels' = new
      /\ twice' = twice \union m.err /\ seen' = seen \union m.got
      /\ first' = 0 /\ saved' = NoHash /\ scan' = scan /\ nread' = nread /\ undef' = undef
  BY DEF tccelf_end_file
<1>2. Merging(Len(tab.syms) - first, m)
  BY <1>1, MergeRight
<1>3. /\ tab.syms \in Seq(Symbol) /\ Len(tab.syms) \in Nat /\ first \in 0..Len(tab.syms)
      /\ twice \subseteq Name
  BY DEF IInv, Types
<1> HIDE DEF m
<1>4. /\ Ordered(m.tab, seen \union m.got)
      /\ Len(m.tab.syms) \in first..(first + (Len(tab.syms) - first))
      /\ \A k \in 1..first : m.tab.syms[k].name = tab.syms[k].name
      /\ \A j \in 1..(Len(tab.syms) - first) :
           /\ m.tr[j] \in 1..Len(m.tab.syms)
           /\ m.tab.syms[m.tr[j]].name = tab.syms[first + j].name
      /\ m.err \subseteq Name
  BY <1>2 DEF Merging
<1>5. m.tab.syms \in Seq(Symbol) /\ m.tab.new_undef_sym \in BOOLEAN
  BY <1>4 DEF Ordered, Chained
<1>6. Types'
  BY <1>1, <1>3, <1>4, <1>5 DEF IInv, Types
<1>7. Tables'
  BY <1>1, <1>4 DEF Tables
<1>8. Relocations'
  <2>1. /\ rels = [k \in 1..Len(rels) |-> [sym |-> rels[k].sym, name |-> rels[k].name]]
        /\ Len(rels) \in Nat
        /\ \A k \in 1..Len(rels) :
             /\ rels[k].name \in Name
             /\ rels[k].sym \in 0..Len(tab.syms)
             /\ rels[k].sym # 0 => tab.syms[rels[k].sym].name = rels[k].name
    BY DEF IInv, Relocations
  <2>2. DOMAIN rels = 1..Len(rels)
    BY <2>1
  <2> DEFINE to(k) == IF rels[k].sym > first THEN m.tr[rels[k].sym - first] ELSE rels[k].sym
  <2>3. ASSUME NEW k \in 1..Len(rels)
        PROVE  new[k] = [sym |-> to(k), name |-> rels[k].name]
    <3>1. rels[k] = [sym |-> rels[k].sym, name |-> rels[k].name]
      BY <2>1
    <3>2. new[k] = IF rels[k].sym > first
                     THEN [rels[k] EXCEPT !.sym = m.tr[rels[k].sym - first]] ELSE rels[k]
      BY <2>2
    <3> QED
      BY <3>1, <3>2
  <2>4. ASSUME NEW k \in 1..Len(rels)
        PROVE  to(k) \in 0..Len(m.tab.syms)
               /\ (to(k) # 0 => m.tab.syms[to(k)].name = rels[k].name)
    <3>1. /\ rels[k].sym \in 0..Len(tab.syms)
          /\ rels[k].sym # 0 => tab.syms[rels[k].sym].name = rels[k].name
      BY <2>1
    <3>2. CASE rels[k].sym > first
      <4> DEFINE j == rels[k].sym - first
      <4>1. j \in 1..(Len(tab.syms) - first) /\ first + j = rels[k].sym /\ rels[k].sym # 0
        BY <1>3, <3>1, <3>2
      <4> HIDE DEF j
      <4>2. to(k) = m.tr[j]
        BY <3>2 DEF j
      <4>3. /\ m.tr[j] \in 1..Len(m.tab.syms)
            /\ m.tab.syms[m.tr[j]].name = tab.syms[rels[k].sym].name
        BY <1>4, <4>1
      <4> QED
        BY <3>1, <4>1, <4>2, <4>3
    <3>3. CASE ~ (rels[k].sym > first)
      <4>1. to(k) = rels[k].sym /\ rels[k].sym \in 0..first
        BY <1>3, <3>1, <3>3
      <4>2. first <= Len(m.tab.syms) /\ Len(m.tab.syms) \in Nat
        BY <1>3, <1>4
      <4>3. to(k) \in 0..Len(m.tab.syms)
        BY <1>3, <4>1, <4>2
      <4>4. ASSUME to(k) # 0 PROVE m.tab.syms[to(k)].name = rels[k].name
        <5>1. to(k) \in 1..first
          BY <1>3, <4>1, <4>4
        <5>2. m.tab.syms[to(k)].name = tab.syms[to(k)].name
          BY <1>4, <5>1
        <5> QED
          BY <3>1, <4>1, <4>4, <5>2
      <4> QED
        BY <4>3, <4>4
    <3> QED
      BY <3>2, <3>3
  <2> HIDE DEF to
  <2>5. new = [k \in 1..Len(rels) |-> [sym |-> to(k), name |-> rels[k].name]]
    <3>1. new = [k \in 1..Len(rels) |-> new[k]]
      BY <2>2
    <3> QED
      BY <3>1, <2>3
  <2> HIDE DEF new
  <2>6. Len(new) = Len(rels)
    BY <2>1, <2>5
  <2>7. ASSUME NEW k \in 1..Len(new)
        PROVE  /\ new[k] = [sym |-> new[k].sym, name |-> new[k].name]
               /\ new[k].name \in Name
               /\ new[k].sym \in 0..Len(m.tab.syms)
               /\ new[k].sym # 0 => m.tab.syms[new[k].sym].name = new[k].name
    <3>1. k \in 1..Len(rels)
      BY <2>6
    <3> DEFINE s == to(k)
    <3> HIDE DEF s
    <3>4. new[k] = [sym |-> s, name |-> rels[k].name]
      BY <3>1, <2>3 DEF s
    <3>5. new[k].sym = s /\ new[k].name = rels[k].name
      BY <3>4
    <3>2. new[k].sym = to(k) /\ new[k].name = rels[k].name
      BY <3>5 DEF s
    <3>3. new[k] = [sym |-> new[k].sym, name |-> new[k].name]
      BY <3>4, <3>5
    <3> QED
      BY <2>1, <2>4, <3>1, <3>2, <3>3
  <2>8. new = [k \in 1..Len(new) |-> [sym |-> new[k].sym, name |-> new[k].name]]
    <3>1. new = [k \in 1..Len(new) |-> new[k]]
      BY <2>5, <2>6
    <3> QED
      BY <3>1, <2>7
  <2>9. Len(new) \in Nat
    BY <2>1, <2>6
  <2> QED
    BY <1>1, <2>7, <2>8, <2>9 DEF Relocations
<1>9. Scanning'
  BY <1>1 DEF IInv, Scanning
<1> QED
  BY <1>6, <1>7, <1>8, <1>9 DEF IInv

(* The link: common symbols get room in BSS. *)
LEMMA RelocateStep ==
  ASSUME IInv, relocate_syms
  PROVE  IInv'
<1> DEFINE new == [i \in DOMAIN tab.syms |->
                     IF tab.syms[i].shndx = "COMMON" THEN [tab.syms[i] EXCEPT !.shndx = "BSS"]
                     ELSE tab.syms[i]]
<1>1. /\ phase = "link" /\ phase' = "done" /\ tab' = [tab EXCEPT !.syms = new]
      /\ first' = first /\ saved' = saved /\ rels' = rels /\ scan' = scan
      /\ nread' = nread /\ seen' = seen /\ twice' = twice
  BY DEF relocate_syms
<1>2. undef' \subseteq Name
  <2>1. undef' = {tab.syms[i].name : i \in {i \in DOMAIN tab.syms :
                   /\ tab.syms[i].shndx = "UNDEF"
                   /\ tab.syms[i].name \notin Resolved
                   /\ tab.syms[i].bind # "WEAK"}}
    BY DEF relocate_syms
  <2>2. \A i \in DOMAIN tab.syms : tab.syms[i].name \in Name
    <3>1. tab.syms \in Seq(Symbol)
      BY DEF IInv, Types
    <3>2. \A i \in DOMAIN tab.syms : tab.syms[i] \in Symbol
      BY <3>1
    <3> QED
      BY <3>2 DEF Symbol
  <2> QED
    BY <2>1, <2>2
<1>3. /\ Ordered(tab, seen) /\ tab.syms \in Seq(Symbol) /\ tab.new_undef_sym \in BOOLEAN
      /\ tab = [syms |-> tab.syms, hash |-> tab.hash, new_undef_sym |-> tab.new_undef_sym]
      /\ Len(tab.syms) \in Nat
  BY <1>1 DEF IInv, Tables, Ordered, Chained
<1>4. ASSUME NEW i \in 1..Len(tab.syms)
      PROVE  /\ new[i] \in Symbol
             /\ new[i].name = tab.syms[i].name
             /\ new[i].bind = tab.syms[i].bind
             /\ new[i].vis = tab.syms[i].vis
             /\ new[i].shndx = "UNDEF" <=> tab.syms[i].shndx = "UNDEF"
             /\ InBss(new[i]) <=> InBss(tab.syms[i])
  <2> DEFINE x == tab.syms[i]
             y == [x EXCEPT !.shndx = "BSS"]
  <2>1. x \in Symbol
    BY <1>3
  <2>2. new[i] = IF x.shndx = "COMMON" THEN y ELSE x
    BY <1>3
  <2> HIDE DEF x
  <2>3. /\ y \in Symbol /\ y.name = x.name /\ y.bind = x.bind /\ y.vis = x.vis
        /\ y.shndx = "BSS"
    BY <2>1 DEF Symbol, Shndx
  <2> HIDE DEF y, new
  <2> QED
    BY <2>1, <2>2, <2>3 DEF InBss, x
<1>5. DOMAIN new = 1..Len(tab.syms)
  BY <1>3
<1>6. new = [i \in 1..Len(tab.syms) |-> new[i]]
  BY <1>5
<1> HIDE DEF new
<1>7. new \in [1..Len(tab.syms) -> Symbol]
  BY <1>4, <1>6
<1>8. new \in Seq(Symbol) /\ Len(new) = Len(tab.syms)
  BY <1>3, <1>7
<1>9. /\ tab' = [syms |-> new, hash |-> tab.hash, new_undef_sym |-> tab.new_undef_sym]
      /\ tab'.syms = new /\ tab'.new_undef_sym = tab.new_undef_sym
  BY <1>1, <1>3
<1>10. Chained(tab')
  <2>1. Chained([syms |-> new, hash |-> tab.hash, new_undef_sym |-> tab.new_undef_sym])
    BY <1>3, <1>4, <1>8, SameChains DEF Ordered
  <2> QED
    BY <1>9, <2>1
<1>11. OneEach(new)
  BY <1>3, <1>4, <1>8 DEF Ordered, OneEach
<1>12. Precedes(new, seen)
  <2>1. ASSUME NEW i \in 1..Len(new), new[i].bind # "LOCAL"
        PROVE  Fair(new[i], DefsIn(seen, new[i].name))
    <3>1. Fair(tab.syms[i], DefsIn(seen, tab.syms[i].name))
      BY <1>3, <1>4, <1>8, <2>1 DEF Ordered, Precedes
    <3> QED
      BY <3>1, <1>4, <1>8 DEF Fair
  <2>2. ASSUME NEW e \in seen, e.bind # "LOCAL"
        PROVE  \E i \in 1..Len(new) : new[i].bind # "LOCAL" /\ new[i].name = e.name
    <3>1. PICK i \in 1..Len(tab.syms) : tab.syms[i].bind # "LOCAL" /\ tab.syms[i].name = e.name
      BY <1>3, <2>2 DEF Ordered, Precedes
    <3> QED
      BY <3>1, <1>4, <1>8
  <2> QED
    BY <1>3, <2>1, <2>2 DEF Ordered, Precedes
<1>13. Tables'
  BY <1>1, <1>9, <1>10, <1>11, <1>12 DEF Tables, Ordered
<1>14. Types'
  BY <1>1, <1>2, <1>3, <1>8, <1>9 DEF IInv, Types
<1>15. Relocations'
  BY <1>1, <1>3, <1>4, <1>8, <1>9, RelocationsKept DEF IInv
<1>16. Scanning'
  BY <1>1 DEF IInv, Scanning
<1> QED
  BY <1>13, <1>14, <1>15, <1>16 DEF IInv

(* The invariant is inductive. *)
LEMMA NextIInv == IInv /\ [Next]_vars => IInv'
<1> SUFFICES ASSUME IInv, [Next]_vars PROVE IInv'
  OBVIOUS
<1>1. ASSUME NEW e \in Inputs, NEW skip \in BOOLEAN, load_symbol(e, skip) PROVE IInv'
  BY <1>1, LoadSymbolStep
<1>2. ASSUME NEW e \in Inputs, compile_symbol(e) PROVE IInv'
  BY <1>2, CompileStep
<1>3. CASE tccelf_begin_file
  BY <1>3, BeginStep
<1>4. CASE tccelf_end_file
  BY <1>4, EndStep
<1>5. CASE Linker \/ \E group \in BOOLEAN : ld_add_file_list(group)
  BY <1>5, ArchiveStep
<1>6. CASE relocate_syms
  BY <1>6, RelocateStep
<1>7. CASE UNCHANGED vars
  BY <1>7 DEF vars, IInv, Types, Tables, Relocations, Scanning, Base
<1> QED
  BY <1>1, <1>2, <1>3, <1>4, <1>5, <1>6, <1>7 DEF Next

(* Every state of the linker satisfies it. *)
LEMMA Invariance == Spec => []IInv
<1>1. Init => IInv
  BY InitIInv
<1>2. IInv /\ [Next]_vars => IInv'
  BY NextIInv
<1> QED
  BY <1>1, <1>2, PTL DEF Spec

-----------------------------------------------------------------------------
(* The chains and the counter of put_elf_sym(), the merging of a           *)
(* compilation and the state of the archives keep their types, for any     *)
(* symbols and archives.                                                   *)
THEOREM TypeCorrect == Spec => []TypeOK
<1>1. IInv => TypeOK
  <2> SUFFICES ASSUME IInv PROVE TypeOK
    OBVIOUS
  <2>1. /\ Types
        /\ Precedes(tab.syms, seen) \/ Precedes(Base.syms, seen)
    BY DEF IInv, Tables, Ordered
  <2>2. seen \subseteq Symbol
    BY <2>1 DEF Precedes
  <2>3. ASSUME NEW r \in Range(rels)
        PROVE  r.sym \in 0..Len(tab.syms) /\ r.name \in Name
    <3>1. PICK k \in DOMAIN rels : r = rels[k]
      BY DEF Range
    <3>2. DOMAIN rels = 1..Len(rels)
      BY DEF IInv, Relocations
    <3> QED
      BY <3>1, <3>2 DEF IInv, Relocations
  <2>4. scan.lib \in 1..(Len(Library) + 1)
    <3>1. Len(Library) \in Nat
      BY LibraryAssumption
    <3> QED
      BY <3>1 DEF IInv, Scanning
  <2> QED
    BY <2>1, <2>2, <2>3, <2>4 DEF Types, TypeOK
<1> QED
  BY <1>1, Invariance, PTL

(* For any names and hash function, find_elf_sym() finds the one global or *)
(* weak symbol of a name, after any put_elf_sym(), rebuild_hash() and      *)
(* compilation.                                                            *)
THEOREM ChainsLead == Spec => []HashFinds
<1>1. IInv => HashFinds
  <2> SUFFICES ASSUME IInv, phase # "compile", NEW n \in Name
               PROVE  LET i == find_elf_sym(tab, n)
                      IN Entry(n) = IF i = 0 THEN {} ELSE {i}
    BY DEF HashFinds
  <2> DEFINE i == find_elf_sym(tab, n)
  <2>1. Chained(tab) /\ OneEach(tab.syms)
    BY DEF IInv, Tables, Ordered
  <2>2. DOMAIN tab.syms = 1..Len(tab.syms)
    BY <2>1 DEF Chained
  <2>3. /\ i \in 0..Len(tab.syms)
        /\ i = 0 => \A j \in 1..Len(tab.syms) : tab.syms[j].bind # "LOCAL" => tab.syms[j].name # n
        /\ i # 0 => tab.syms[i].bind # "LOCAL" /\ tab.syms[i].name = n
    BY <2>1, FindRight
  <2> HIDE DEF i
  <2>4. ASSUME i = 0 PROVE Entry(n) = {}
    BY <2>2, <2>3, <2>4 DEF Entry
  <2>5. ASSUME i # 0 PROVE Entry(n) = {i}
    <3>1. i \in 1..Len(tab.syms)
      BY <2>1, <2>3, <2>5
    <3>2. i \in Entry(n)
      BY <2>2, <2>3, <2>5, <3>1 DEF Entry
    <3>3. ASSUME NEW j \in Entry(n) PROVE j = i
      BY <2>1, <2>2, <2>3, <2>5, <3>1 DEF Entry, OneEach
    <3> QED
      BY <3>2, <3>3
  <2> QED
    BY <2>4, <2>5 DEF i
<1> QED
  BY <1>1, Invariance, PTL

(* For any symbols, a relocation refers to a symbol with the name it was   *)
(* written for, at every moment of tccelf_end_file()'s merging in place.   *)
THEOREM RelocationsRight == Spec => []RelocNames
<1>1. IInv => RelocNames
  <2> SUFFICES ASSUME IInv, NEW r \in Range(rels), r.sym # 0
               PROVE  r.sym <= Len(tab.syms) /\ tab.syms[r.sym].name = r.name
    BY DEF RelocNames
  <2>1. PICK k \in DOMAIN rels : r = rels[k]
    BY DEF Range
  <2>2. DOMAIN rels = 1..Len(rels)
    BY DEF IInv, Relocations
  <2>3. tab.syms \in Seq(Symbol)
    BY DEF IInv, Types
  <2> QED
    BY <2>1, <2>2, <2>3 DEF IInv, Relocations
<1> QED
  BY <1>1, Invariance, PTL

(* For any symbols in any order, set_elf_sym() leaves the entry that the   *)
(* precedence of strong, weak, common and hidden symbols calls for.        *)
THEOREM PrecedenceRight == Spec => []Precedence
<1>1. IInv => Precedence
  <2> SUFFICES ASSUME IInv, phase # "compile", NEW n \in Name, NEW i \in Entry(n)
               PROVE  Fair(tab.syms[i], Defs(n))
    BY DEF Precedence, StrongWins, DataWins, VisOfDefs, Fair
  <2>1. Precedes(tab.syms, seen) /\ tab.syms \in Seq(Symbol)
    BY DEF IInv, Tables, Ordered, Types
  <2>2. i \in 1..Len(tab.syms) /\ tab.syms[i].name = n /\ tab.syms[i].bind # "LOCAL"
    BY <2>1 DEF Entry
  <2>3. Defs(n) = DefsIn(seen, n)
    BY DEF Defs, DefsIn
  <2> QED
    BY <2>1, <2>2, <2>3 DEF Precedes
<1> QED
  BY <1>1, Invariance, PTL

-----------------------------------------------------------------------------
(* Archives. *)

(* The entries of syms want a definition of n. *)
WantedIn(syms, n) ==
  \E j \in 1..Len(syms) : /\ syms[j].bind # "LOCAL"
                          /\ syms[j].name = n
                          /\ syms[j].shndx = "UNDEF"

Defines(e, n) == e.name = n /\ e.bind # "LOCAL" /\ e.shndx # "UNDEF"

(* Until a pass loads a member, what it has looked at is not wanted, and   *)
(* nothing of the kind is left from an archive before.                     *)
Passing ==
  /\ scan.left # <<>> => scan.bound
  /\ scan.lib > Len(Library) => scan.i = 1 /\ ~ scan.bound
  /\ ~ scan.bound /\ scan.lib <= Len(Library) =>
       \A j \in 1..Len(Index) : j < scan.i => ~ WantedIn(tab.syms, Index[j].name)

(* Until a symbol is patched, the archives that were read are not wanted,  *)
(* except while a member is loaded that will patch one.                    *)
Promising ==
  ~ tab.new_undef_sym =>
    IF scan.left = <<>>
      THEN \A l \in 1..Len(Library) : l < scan.lib =>
             \A i \in 1..Len(Library[l]) : ~ WantedIn(tab.syms, Library[l][i].name)
      ELSE \E n \in Name : \E k \in 1..Len(scan.left) :
             WantedIn(tab.syms, n) /\ Defines(scan.left[k], n)

AInv == phase = "archive" => Passing /\ Promising

(* Wanted() is about the entries, wherever find_elf_sym() looks for them. *)
LEMMA WantedIs ==
  ASSUME IInv, phase # "compile", NEW n \in Name
  PROVE  Wanted(n) <=> WantedIn(tab.syms, n)
<1> DEFINE i == find_elf_sym(tab, n)
<1>1. Chained(tab) /\ OneEach(tab.syms) /\ Len(tab.syms) \in Nat
  BY DEF IInv, Tables, Ordered, Chained
<1>2. /\ i \in 0..Len(tab.syms)
      /\ i = 0 => \A j \in 1..Len(tab.syms) : tab.syms[j].bind # "LOCAL" => tab.syms[j].name # n
      /\ i # 0 => tab.syms[i].bind # "LOCAL" /\ tab.syms[i].name = n
  BY <1>1, FindRight
<1>3. Wanted(n) <=> i # 0 /\ tab.syms[i].shndx = "UNDEF"
  BY DEF Wanted
<1> HIDE DEF i
<1>4. CASE i = 0
  BY <1>2, <1>3, <1>4 DEF WantedIn
<1>5. CASE i # 0
  <2>1. i \in 1..Len(tab.syms)
    BY <1>1, <1>2, <1>5
  <2>2. \A j \in 1..Len(tab.syms) :
          tab.syms[j].bind # "LOCAL" /\ tab.syms[j].name = n => j = i
    BY <1>1, <1>2, <1>5, <2>1 DEF OneEach
  <2> QED
    BY <1>2, <1>3, <1>5, <2>1, <2>2 DEF WantedIn
<1> QED
  BY <1>4, <1>5

(* A name that is wanted stays so until a definition of it patches its     *)
(* entry, which sets new_undef_sym.                                        *)
LEMMA SetWants ==
  ASSUME NEW t, Chained(t), OneEach(t.syms), NEW e \in Symbol,
         NEW r, r = set_elf_sym(t, e), ~ r.tab.new_undef_sym,
         NEW n \in Name, WantedIn(t.syms, n)
  PROVE  WantedIn(r.tab.syms, n) /\ ~ Defines(e, n)
<1> DEFINE i == Old(t, e)
<1>1. /\ t = [syms |-> t.syms, hash |-> t.hash, new_undef_sym |-> t.new_undef_sym]
      /\ t.syms \in Seq(Symbol) /\ Len(t.syms) \in Nat /\ e.name \in Name
      /\ t.new_undef_sym \in BOOLEAN
  BY DEF Chained, Symbol
<1>2. /\ i \in 0..Len(t.syms)
      /\ i = 0 /\ e.bind # "LOCAL" =>
           \A j \in 1..Len(t.syms) : t.syms[j].bind # "LOCAL" => t.syms[j].name # e.name
      /\ i # 0 => /\ e.bind # "LOCAL" /\ t.syms[i].bind # "LOCAL"
                  /\ t.syms[i].name = e.name
  BY <1>1, FindRight DEF Old
<1>3. /\ i = 0 => r.tab = put_elf_sym(t, e)
      /\ i # 0 => r.tab = [syms |-> [t.syms EXCEPT ![i] = Merged(t.syms[i], e)],
                           hash |-> t.hash,
                           new_undef_sym |-> t.new_undef_sym \/ Patched(t.syms[i], e)]
  BY <1>1, SetIs
<1> HIDE DEF i
<1>4. PICK j \in 1..Len(t.syms) : /\ t.syms[j].bind # "LOCAL"
                                  /\ t.syms[j].name = n
                                  /\ t.syms[j].shndx = "UNDEF"
  BY DEF WantedIn
<1>5. CASE i = 0
  <2>1. r.tab.syms = Append(t.syms, e)
    BY <1>3, <1>5, PutRight
  <2>2. r.tab.syms[j] = t.syms[j] /\ Len(r.tab.syms) = Len(t.syms) + 1
    BY <1>1, <1>4, <2>1
  <2>3. WantedIn(r.tab.syms, n)
    BY <1>1, <1>4, <2>2 DEF WantedIn
  <2> QED
    BY <1>2, <1>4, <1>5, <2>3 DEF Defines
<1>6. CASE i # 0
  <2> DEFINE o == t.syms[i]
             m == Merged(o, e)
             u == Patched(o, e)
  <2>1. i \in 1..Len(t.syms)
    BY <1>2, <1>6
  <2>2. /\ r.tab.syms = [t.syms EXCEPT ![i] = m]
        /\ r.tab.new_undef_sym = (t.new_undef_sym \/ u)
    <3> HIDE DEF m, u
    <3> QED
      BY <1>3, <1>6 DEF m, u
  <2>3. ~ u
    BY <2>2
  <2>4. o = e \/ o.shndx # "UNDEF"
    BY <2>3 DEF Patched
  <2>5. o = e => m = o
    BY DEF Merged
  <2> HIDE DEF m, u
  <2>6. \A k \in 1..Len(t.syms) : k # i => r.tab.syms[k] = t.syms[k]
    BY <1>1, <2>2
  <2>7. r.tab.syms[i] = m /\ Len(r.tab.syms) = Len(t.syms)
    BY <1>1, <2>1, <2>2
  <2>8. j = i => o = e
    BY <1>4, <2>4
  <2>9. r.tab.syms[j] = t.syms[j]
    BY <2>5, <2>6, <2>7, <2>8
  <2>10. WantedIn(r.tab.syms, n)
    BY <1>4, <2>7, <2>9 DEF WantedIn
  <2>11. ~ Defines(e, n)
    <3> SUFFICES ASSUME Defines(e, n) PROVE FALSE
      OBVIOUS
    <3>1. j = i
      BY <1>2, <1>4, <1>6, <2>1 DEF Defines, OneEach
    <3> QED
      BY <1>4, <2>8, <3>1 DEF Defines
  <2> QED
    BY <2>10, <2>11
<1> QED
  BY <1>5, <1>6

(* new_undef_sym is not reset by set_elf_sym(). *)
LEMMA SetSticky ==
  ASSUME NEW t, Chained(t), NEW e \in Symbol
  PROVE  t.new_undef_sym => set_elf_sym(t, e).tab.new_undef_sym
<1> DEFINE i == Old(t, e)
           r == set_elf_sym(t, e)
           u == Patched(t.syms[i], e)
<1>1. t = [syms |-> t.syms, hash |-> t.hash, new_undef_sym |-> t.new_undef_sym]
      /\ t.new_undef_sym \in BOOLEAN
  BY DEF Chained
<1>2. /\ i = 0 => r.tab = put_elf_sym(t, e)
      /\ i # 0 => r.tab = [syms |-> [t.syms EXCEPT ![i] = Merged(t.syms[i], e)],
                           hash |-> t.hash,
                           new_undef_sym |-> t.new_undef_sym \/ Patched(t.syms[i], e)]
  BY <1>1, SetIs
<1>3. put_elf_sym(t, e).new_undef_sym = t.new_undef_sym
  BY PutRight
<1> HIDE DEF i, r
<1>4. CASE i = 0
  BY <1>2, <1>3, <1>4 DEF r
<1>5. CASE i # 0
  <2>1. r.tab.new_undef_sym = (t.new_undef_sym \/ u)
    BY <1>2, <1>5
  <2> HIDE DEF u
  <2> QED
    BY <2>1 DEF r
<1> QED
  BY <1>4, <1>5

(* What an index holds. *)
LEMMA IndexIs ==
  /\ Len(Library) \in Nat
  /\ DOMAIN Library = 1..Len(Library)
  /\ \A l \in 1..Len(Library) :
       /\ Len(Library[l]) \in Nat
       /\ DOMAIN Library[l] = 1..Len(Library[l])
       /\ \A i \in 1..Len(Library[l]) : Library[l][i].name \in Name
<1> DEFINE T == [name : Name, member : Nat]
<1>1. Library \in Seq(Seq(T))
  BY LibraryAssumption
<1>2. \A x \in T : x.name \in Name
  OBVIOUS
<1> HIDE DEF T
<1>3. \A l \in 1..Len(Library) : Library[l] \in Seq(T)
  BY <1>1
<1>4. \A l \in 1..Len(Library) : \A i \in 1..Len(Library[l]) : Library[l][i] \in T
  BY <1>3
<1> QED
  BY <1>1, <1>2, <1>3, <1>4

(* The steps keep what has been read so. *)
LEMMA NextAInv == IInv /\ AInv /\ [Next]_vars => AInv'
<1> SUFFICES ASSUME IInv, AInv, [Next]_vars, phase' = "archive" PROVE Passing' /\ Promising'
  BY DEF AInv
<1>1. /\ scan \in Scan
      /\ scan.lib <= Len(Library) + 1
      /\ Len(Library) \in Nat
      /\ \A l \in 1..Len(Library) : Len(Library[l]) \in Nat
      /\ Len(<<>>) = 0
  BY LibraryAssumption DEF IInv, Scanning, Scan
<1>2. ASSUME NEW group \in BOOLEAN, ld_add_file_list(group) PROVE Passing' /\ Promising'
  <2>1. scan' = [group |-> group, lib |-> 1, i |-> 1, bound |-> FALSE, left |-> <<>>]
    BY <1>2 DEF ld_add_file_list
  <2>2. scan'.lib = 1 /\ scan'.i = 1 /\ ~ scan'.bound /\ scan'.left = <<>>
    BY <2>1
  <2>3. Passing'
    BY <2>2 DEF Passing
  <2>4. Promising'
    BY <2>2 DEF Promising
  <2> QED
    BY <2>3, <2>4
<1>3. CASE alacarte_entry
  <2>1. /\ phase = "archive" /\ scan.lib <= Len(Library) /\ scan.i <= Len(Index)
        /\ scan.left = <<>> /\ tab' = tab
    BY <1>3 DEF alacarte_entry
  <2>2. Passing /\ Promising
    BY <2>1 DEF AInv
  <2> DEFINE x == Index[scan.i]
             m == Member[scan.lib][x.member]
             j == scan.i + 1
  <2>3. scan.lib \in 1..Len(Library) /\ scan.i \in 1..Len(Index) /\ x.name \in Name
        /\ m \in Seq(Symbol)
    <3>1. scan.lib \in 1..Len(Library) /\ Library[scan.lib] \in Seq([name : Name, member : Nat])
      BY <1>1, <2>1, LibraryAssumption DEF Scan
    <3>2. scan.i \in 1..Len(Index)
      BY <1>1, <2>1, <3>1 DEF Scan, Index
    <3>3. m \in Seq(Symbol)
      BY <3>1, <3>2, LibraryAssumption DEF Index
    <3>4. x.name \in Name
      BY <3>1, <3>2, IndexIs DEF Index
    <3> QED
      BY <3>1, <3>2, <3>3, <3>4
  <2>4. Wanted(x.name) <=> WantedIn(tab.syms, x.name)
    BY <2>1, <2>3, WantedIs
  <2>5. CASE Wanted(x.name)
    <3>1. scan' = ScanLoad(scan, j, m)
      BY <1>3, <2>5 DEF alacarte_entry, ScanLoad
    <3>2. scan'.bound /\ scan'.left = m /\ scan'.lib = scan.lib
      <4> HIDE DEF m
      <4> QED
        BY <1>1, <3>1 DEF ScanLoad, Scan
    <3>3. PICK k \in 1..Len(m) : Defines(m[k], x.name)
      BY <2>3, IndexAssumption DEF Defines, Index
    <3>4. m # <<>>
      BY <1>1, <3>3
    <3> HIDE DEF m
    <3>5. Passing'
      BY <1>1, <2>1, <3>2 DEF Passing, Scan
    <3>6. Promising'
      BY <2>1, <2>3, <2>4, <2>5, <3>2, <3>3, <3>4 DEF Promising
    <3> QED
      BY <3>5, <3>6
  <2>6. CASE ~ Wanted(x.name)
    <3>1. scan' = [scan EXCEPT !.i = j]
      BY <1>3, <2>6 DEF alacarte_entry
    <3>2. /\ scan'.bound = scan.bound /\ scan'.left = <<>> /\ scan'.lib = scan.lib
          /\ scan'.i = j
      <4> HIDE DEF j
      <4> QED
        BY <1>1, <2>1, <3>1 DEF Scan
    <3>3. ASSUME ~ scan.bound, NEW k \in 1..Len(Index), k < j
          PROVE  ~ WantedIn(tab.syms, Index[k].name)
      <4>1. CASE k < scan.i
        BY <2>1, <2>2, <3>3, <4>1 DEF Passing
      <4>2. CASE k = scan.i
        BY <2>4, <2>6, <4>2
      <4> QED
        BY <1>1, <2>3, <3>3, <4>1, <4>2
    <3>4. Index' = Index
      BY <3>2 DEF Index
    <3>5. Passing'
      BY <1>1, <2>1, <3>2, <3>3, <3>4 DEF Passing, Scan
    <3>6. Promising'
      BY <2>1, <2>2, <3>2 DEF Promising
    <3> QED
      BY <3>5, <3>6
  <2> QED
    BY <2>5, <2>6
<1>4. CASE alacarte_load
  <2> DEFINE e == Head(scan.left)
             r == set_elf_sym(tab, e)
             l == Tail(scan.left)
  <2>1. /\ phase = "archive" /\ scan.left # <<>> /\ scan' = [scan EXCEPT !.left = l]
        /\ LoadSymbol(e, FALSE)
    BY <1>4 DEF alacarte_load
  <2>2. Passing /\ Promising
    BY <2>1 DEF AInv
  <2>3. /\ scan.left \in Seq(Symbol) /\ e \in Symbol /\ Len(scan.left) \in Nat
        /\ scan.left[1] = e /\ Len(l) = Len(scan.left) - 1
        /\ \A k \in 1..Len(l) : l[k] = scan.left[k + 1]
    BY <1>1, <2>1 DEF Scan
  <2>4. tab' = r.tab
    BY <2>1 DEF LoadSymbol
  <2>5. /\ Chained(tab) /\ OneEach(tab.syms) /\ tab.new_undef_sym \in BOOLEAN
    BY <2>1 DEF IInv, Tables, Ordered, Chained
  <2> HIDE DEF e, l
  <2>6. scan'.bound = scan.bound /\ scan'.left = l /\ scan'.lib = scan.lib /\ scan'.i = scan.i
    BY <1>1, <2>1 DEF Scan
  <2>7. scan.bound
    BY <2>1, <2>2 DEF Passing
  <2>8. Passing'
    BY <2>2, <2>6, <2>7 DEF Passing
  <2>9. Promising'
    <3> SUFFICES ASSUME ~ r.tab.new_undef_sym
                 PROVE  \E n \in Name : \E k \in 1..Len(l) :
                          WantedIn(r.tab.syms, n) /\ Defines(l[k], n)
      <4>1. ASSUME NEW n \in Name, NEW k \in 1..Len(l) PROVE l # <<>>
        BY <1>1, <4>1
      <4> QED
        BY <2>4, <2>6, <4>1 DEF Promising
    <3>1. ~ tab.new_undef_sym
      BY <2>3, <2>5, SetSticky
    <3>2. PICK n \in Name, k \in 1..Len(scan.left) :
            WantedIn(tab.syms, n) /\ Defines(scan.left[k], n)
      BY <2>1, <2>2, <3>1 DEF Promising
    <3>3. WantedIn(r.tab.syms, n) /\ ~ Defines(e, n)
      BY <2>3, <2>5, <3>2, SetWants
    <3>4. k - 1 \in 1..Len(l) /\ l[k - 1] = scan.left[k]
      BY <2>3, <3>2, <3>3
    <3> QED
      BY <3>2, <3>3, <3>4
  <2> QED
    BY <2>8, <2>9
<1>5. CASE alacarte_pass
  <2> DEFINE k == IF scan.bound THEN scan.lib ELSE scan.lib + 1
  <2>1. /\ phase = "archive" /\ scan.lib <= Len(Library) /\ scan.i > Len(Index)
        /\ scan.left = <<>> /\ tab' = tab /\ scan' = ScanPass(scan, k)
    BY <1>5 DEF alacarte_pass, ScanPass
  <2>2. Passing /\ Promising
    BY <2>1 DEF AInv
  <2>3. scan.lib \in 1..Len(Library) /\ Index = Library[scan.lib]
    BY <1>1, <2>1 DEF Scan, Index
  <2>4. ~ scan.bound => \A j \in 1..Len(Index) : ~ WantedIn(tab.syms, Index[j].name)
    BY <1>1, <2>1, <2>2, <2>3 DEF Passing, Scan
  <2>5. k \in Nat \ {0}
    BY <2>3
  <2>6. scan'.i = 1 /\ ~ scan'.bound /\ scan'.lib = k /\ scan'.left = <<>>
    <3> HIDE DEF k
    <3> QED
      BY <1>1, <2>1 DEF Scan, ScanPass
  <2>7. Passing'
    BY <2>6 DEF Passing
  <2>8. Promising'
    <3> SUFFICES ASSUME ~ tab.new_undef_sym, NEW l \in 1..Len(Library), l < k,
                        NEW j \in 1..Len(Library[l])
                 PROVE  ~ WantedIn(tab.syms, Library[l][j].name)
      BY <2>1, <2>6 DEF Promising
    <3>1. CASE l < scan.lib
      BY <2>1, <2>2, <3>1 DEF Promising
    <3>2. CASE ~ (l < scan.lib)
      <4>1. l = scan.lib /\ ~ scan.bound
        BY <2>3, <3>2
      <4> QED
        BY <2>3, <2>4, <4>1
    <3> QED
      BY <3>1, <3>2
  <2> QED
    BY <2>7, <2>8
<1>6. CASE ld_list_end
  <2>1. /\ phase = "archive" /\ scan.lib > Len(Library) /\ scan' = [scan EXCEPT !.lib = 1]
    BY <1>6 DEF ld_list_end
  <2>2. Passing
    BY <2>1 DEF AInv
  <2>3. scan.i = 1 /\ ~ scan.bound /\ scan.left = <<>>
    BY <2>1, <2>2 DEF Passing
  <2>4. scan'.lib = 1 /\ scan'.i = 1 /\ ~ scan'.bound /\ scan'.left = <<>>
    BY <1>1, <2>1, <2>3 DEF Scan
  <2>5. Passing'
    BY <2>4 DEF Passing
  <2>6. Promising'
    BY <2>4 DEF Promising
  <2> QED
    BY <2>5, <2>6
<1>7. CASE UNCHANGED vars
  <2>1. phase = "archive" /\ Passing /\ Promising
    BY <1>7 DEF vars, AInv
  <2> QED
    BY <1>7, <2>1 DEF vars, Passing, Promising, Index
<1>8. ASSUME NEW e \in Inputs,
             (\E skip \in BOOLEAN : load_symbol(e, skip)) \/ compile_symbol(e)
      PROVE  FALSE
  BY <1>8 DEF load_symbol, compile_symbol
<1>9. ~ tccelf_begin_file /\ ~ tccelf_end_file /\ ~ relocate_syms
  BY DEF tccelf_begin_file, tccelf_end_file, relocate_syms
<1> QED
  BY <1>2, <1>3, <1>4, <1>5, <1>6, <1>7, <1>8, <1>9 DEF Next, Linker

(* When an archive has been read to its end, it has nothing that is        *)
(* wanted; when a GROUP has, none of its archives has: new_undef_sym is    *)
(* set by every load.                                                      *)
THEOREM ScanRight == Spec => ScanComplete
<1> DEFINE Complete ==
      phase = "archive" =>
        /\ scan'.lib > scan.lib
             => \A i \in DOMAIN Index : ~Wanted(Index[i].name)
        /\ scan.group /\ phase' = "link"
             => \A l \in DOMAIN Library : \A i \in DOMAIN Library[l] :
                  ~Wanted(Library[l][i].name)
<1>1. Init => AInv
  BY DEF Init, AInv
<1>2. IInv /\ AInv /\ [Next]_vars => Complete
  <2> SUFFICES ASSUME IInv, AInv, [Next]_vars, phase = "archive" PROVE Complete
    OBVIOUS
  <2>1. /\ Passing /\ Promising
        /\ scan \in Scan
    BY DEF IInv, AInv, Scanning, Scan
  <2>2. \A n \in Name : Wanted(n) <=> WantedIn(tab.syms, n)
    BY WantedIs
  <2>3. ASSUME scan'.lib > scan.lib, NEW i \in DOMAIN Index PROVE ~ Wanted(Index[i].name)
    <3>1. alacarte_pass
      <4>1. scan.lib \in Nat \ {0}
        BY <2>1 DEF Scan
      <4>2. ASSUME scan' = scan PROVE FALSE
        BY <2>3, <4>1, <4>2
      <4>3. CASE alacarte_entry
        <5>1. scan'.lib = scan.lib
          BY <4>3, <2>1 DEF alacarte_entry, Scan
        <5> QED
          BY <2>3, <4>1, <5>1
      <4>4. CASE alacarte_load
        <5>1. scan'.lib = scan.lib
          BY <4>4, <2>1 DEF alacarte_load, Scan
        <5> QED
          BY <2>3, <4>1, <5>1
      <4>5. CASE ld_list_end
        <5>1. scan'.lib \in {1, scan.lib}
          BY <4>5, <2>1 DEF ld_list_end, Scan
        <5> QED
          BY <2>3, <4>1, <5>1
      <4>6. Linker \/ UNCHANGED vars
        BY DEF Next, load_symbol, compile_symbol, tccelf_begin_file, tccelf_end_file,
               relocate_syms, ld_add_file_list
      <4> QED
        BY <4>2, <4>3, <4>4, <4>5, <4>6 DEF Linker, vars
    <3>2. /\ scan.lib <= Len(Library) /\ scan.i > Len(Index)
          /\ scan' = ScanPass(scan, IF scan.bound THEN scan.lib ELSE scan.lib + 1)
      BY <3>1 DEF alacarte_pass, ScanPass
    <3>3. ~ scan.bound
      <4>1. scan.bound => scan'.lib = scan.lib
        BY <2>1, <3>2 DEF ScanPass, Scan
      <4> QED
        BY <2>1, <2>3, <4>1 DEF Scan
    <3>4. scan.lib \in 1..Len(Library)
      BY <2>1, <3>2, IndexIs DEF Scan
    <3>5. i \in 1..Len(Index) /\ i < scan.i /\ Index[i].name \in Name
      <4>1. i \in 1..Len(Index) /\ scan.i \in Nat /\ Index[i].name \in Name
        BY <2>1, <2>3, <3>4, IndexIs DEF Scan, Index
      <4>2. Len(Index) \in Nat
        BY <3>4, IndexIs DEF Index
      <4> QED
        BY <3>2, <4>1, <4>2
    <3> QED
      BY <2>1, <2>2, <3>2, <3>3, <3>5 DEF Passing
  <2>4. ASSUME scan.group, phase' = "link", NEW l \in DOMAIN Library,
               NEW i \in DOMAIN Library[l]
        PROVE  ~ Wanted(Library[l][i].name)
    <3>1. ld_list_end
      BY <2>4 DEF Next, Linker, load_symbol, compile_symbol, tccelf_begin_file,
                  tccelf_end_file, relocate_syms, ld_add_file_list, alacarte_entry,
                  alacarte_load, alacarte_pass, vars
    <3>2. scan.lib > Len(Library) /\ ~ tab.new_undef_sym
      BY <2>4, <3>1 DEF ld_list_end
    <3>3. scan.left = <<>>
      BY <2>1, <3>2 DEF Passing
    <3>4. /\ l \in 1..Len(Library) /\ l < scan.lib
          /\ i \in 1..Len(Library[l]) /\ Library[l][i].name \in Name
      <4>1. l \in 1..Len(Library) /\ l < scan.lib
        BY <2>1, <2>4, <3>2, IndexIs DEF Scan
      <4> QED
        BY <2>4, <4>1, IndexIs
    <3> QED
      BY <2>1, <2>2, <3>2, <3>3, <3>4 DEF Promising
  <2> QED
    BY <2>3, <2>4
<1> QED
  BY <1>1, <1>2, NextAInv, Invariance, PTL DEF Spec, ScanComplete
=============================================================================
