---------------------------- MODULE BisectProofs ----------------------------
(***************************************************************************)
(* Proofs about Bisect, for any number of commits and any history: with a  *)
(* probe that answers, the range that git bisect keeps always holds the    *)
(* commit with the fix, and every verdict is on the commit it is for.      *)
(***************************************************************************)
EXTENDS Bisect, TLAPS

(* The bounds, the exit status and the program counter stay in their sets. *)
LEMMA InitInv == Init => IInv
<1> SUFFICES ASSUME Init PROVE IInv
  OBVIOUS
<1>1. TypeOK
  BY NAssumption DEF Init, TypeOK, Commit, Names, Lines
<1>2. Testing /\ OnlyOwn /\ VerdictRight
  BY DEF Init, Testing, OnlyOwn, VerdictRight
<1>3. FixInRange
  BY NAssumption DEF Init, FixInRange
<1> QED
  BY <1>1, <1>2, <1>3 DEF IInv

(* What a probe may do when nothing goes wrong: the oracle's verdict is 0  *)
(* if and only if the tool chain has the fix.                              *)
LEMMA OutcomeRight ==
  ASSUME Troubles = {}, NEW fixed \in BOOLEAN, NEW o \in Outcome(fixed)
  PROVE  /\ o[2] \subseteq Lines
         /\ Verdict(o[1], o[2]) \in {0, 1}
         /\ Verdict(o[1], o[2]) = 0 <=> fixed
<1>1. CASE fixed
  <2>1. o = <<0, Lines>>
    BY <1>1 DEF Outcome
  <2> QED
    BY <2>1, <1>1 DEF Verdict, Lines
<1>2. CASE ~fixed
  <2>1. o = <<1, {}>> \/ o = <<0, {}>>
    BY <1>2 DEF Outcome
  <2> QED
    BY <2>1, <1>2 DEF Verdict, Lines
<1> QED
  BY <1>1, <1>2

(* Every step keeps the invariant, one case for each action. *)
LEMMA NextInv == ASSUME Troubles = {}, IInv, [Next]_vars PROVE IInv'
<1> USE NAssumption DEF IInv
<1>1. CASE Select
  <2>1. head' \in (lo + 1)..(hi - 1) /\ head' \in Commit
    BY <1>1 DEF Select, Open, TypeOK, Commit
  <2>2. TypeOK'
    BY <1>1, <2>1, SMTT(60) DEF Select, TypeOK, history, Commit
  <2>3. Testing' /\ OnlyOwn' /\ VerdictRight'
    BY <1>1, <2>1 DEF Select, Testing, OnlyOwn, VerdictRight
  <2>4. FixInRange'
    BY <1>1 DEF Select, FixInRange, history
  <2> QED
    BY <2>2, <2>3, <2>4
<1>2. CASE Finish
  <2>1. TypeOK' /\ FixInRange'
    BY <1>2 DEF Finish, TypeOK, FixInRange, history, git, Commit
  <2>2. Testing' /\ OnlyOwn' /\ VerdictRight'
    BY <1>2 DEF Finish, Testing, OnlyOwn, VerdictRight
  <2> QED
    BY <2>1, <2>2
<1>3. CASE Clean
  <2>a. archive' = [a \in Names |-> 0] /\ UNCHANGED <<history, git, linked, right, rc>> /\ pc' = "make"
    BY <1>3 DEF Clean
  <2>b. archive' \in [Names -> 0..N]
    BY <2>a
  <2>1. TypeOK' /\ FixInRange'
    BY <2>a, <2>b DEF TypeOK, FixInRange, history, git
  <2>2. Testing' /\ OnlyOwn' /\ VerdictRight'
    BY <1>3 DEF Clean, Testing, OnlyOwn, VerdictRight, git
  <2> QED
    BY <2>1, <2>2
<1>4. CASE Make
  <2>1. name[head] \in Names /\ head \in Commit /\ head # 0
    BY DEF TypeOK, Commit
  <2>2. archive' \in [Names -> 0..N]
    BY <1>4, <2>1 DEF Make, TypeOK, Commit
  <2>3. TypeOK' /\ FixInRange'
    BY <1>4, <2>2 DEF Make, TypeOK, FixInRange, history, git, Commit
  <2>4. Testing' /\ VerdictRight'
    BY <1>4 DEF Make, Testing, VerdictRight, git
  <2>5. OnlyOwn'
    <3>1. CASE head \in builds
      <4>1. archive' = [archive EXCEPT ![name[head]] = head] /\ head' = head /\ pc' = "probe"
        BY <1>4, <3>1 DEF Make, git
      <4>2. \A a \in Names : archive'[a] = IF a = name[head] THEN head ELSE 0
        BY <1>4, <2>1, <4>1 DEF Make, OnlyOwn, TypeOK
      <4>3. Library' = head
        BY <2>1, <4>2 DEF Library, Names
      <4> QED
        BY <4>1, <4>3 DEF OnlyOwn
    <3>2. CASE head \notin builds
      BY <1>4, <3>2 DEF Make, OnlyOwn
    <3> QED
      BY <3>1, <3>2
  <2> QED
    BY <2>3, <2>4, <2>5
<1>5. CASE Probe
  <2>1. Library = head /\ linked' = head /\ head' = head /\ pc' = "verdict"
    BY <1>5 DEF Probe, OnlyOwn, git
  <2>a. PICK fixed \in {Fixed(head), Fixed(Library)} :
          \E o \in Outcome(fixed) : right' = o[2] /\ rc' = Verdict(o[1], o[2])
    BY <1>5 DEF Probe
  <2>2. PICK o \in Outcome(fixed) : right' = o[2] /\ rc' = Verdict(o[1], o[2])
    BY <2>a
  <2>b. fixed = Fixed(head)
    BY <2>1, <2>a, Zenon
  <2>c. Fixed(head) \in BOOLEAN
    BY DEF Fixed
  <2>3. fixed = Fixed(head) /\ fixed \in BOOLEAN
    BY <2>b, <2>c, Zenon
  <2>4. right' \subseteq Lines /\ rc' \in {0, 1} /\ (rc' = 0 <=> Fixed(head))
    BY <2>2, <2>3, OutcomeRight
  <2>5. Fixed(head)' <=> Fixed(head)
    BY <1>5 DEF Probe, Fixed, history, git
  <2>6. TypeOK' /\ FixInRange'
    BY <1>5, <2>1, <2>4, SMTT(60)
    DEF Probe, TypeOK, FixInRange, history, git, Commit
  <2>7. Testing' /\ OnlyOwn'
    BY <1>5 DEF Probe, Testing, OnlyOwn, git
  <2>8. VerdictRight'
    BY <2>1, <2>4, <2>5 DEF VerdictRight
  <2> QED
    BY <2>6, <2>7, <2>8
<1>6. CASE Wrapper
  <2>1. head \in (lo + 1)..(hi - 1) /\ lo \in Nat /\ hi \in Nat /\ head \in Nat /\ fixedAt \in Nat
    BY <1>6 DEF Wrapper, Testing, TypeOK, Commit
  <2>2. Mark(rc) = "fixed" => Fixed(head)
    BY <1>6 DEF Wrapper, Mark, VerdictRight
  <2>3. Mark(rc) = "broken" => ~Fixed(head)
    BY <1>6 DEF Wrapper, Mark, VerdictRight
  <2>4. FixInRange'
    BY <1>6, <2>1, <2>2, <2>3 DEF Wrapper, FixInRange, Fixed, history
  <2>5. lo' \in Commit /\ hi' \in Commit /\ lo' < hi'
    BY <1>6, <2>1, SMTT(60) DEF Wrapper, TypeOK, Commit, Mark
  <2>6. TypeOK'
    BY <1>6, <2>5 DEF Wrapper, TypeOK, history, Commit
  <2>7. Testing' /\ OnlyOwn' /\ VerdictRight'
    BY <1>6 DEF Wrapper, Testing, OnlyOwn, VerdictRight
  <2> QED
    BY <2>4, <2>6, <2>7
<1>7. CASE UNCHANGED vars
  <2>1. TypeOK' /\ FixInRange'
    BY <1>7 DEF vars, history, git, TypeOK, FixInRange, Commit
  <2>2. Testing' /\ OnlyOwn' /\ VerdictRight'
    BY <1>7 DEF vars, history, git, Testing, OnlyOwn, VerdictRight, Library, Fixed
  <2> QED
    BY <2>1, <2>2
<1> QED
  BY <1>1, <1>2, <1>3, <1>4, <1>5, <1>6, <1>7 DEF Next

LEMMA Inductive == Troubles = {} /\ Spec => []IInv
<1> SUFFICES ASSUME Troubles = {} PROVE Spec => []IInv
  OBVIOUS
<1>1. IInv /\ [Next]_vars => IInv'
  BY NextInv
<1> QED
  BY InitInv, <1>1, PTL DEF Spec

(* The bounds that git bisect keeps are always commits of the range it was *)
(* given, the older before the newer.                                      *)
THEOREM TypeCorrect == Troubles = {} /\ Spec => []TypeOK
<1>1. IInv => TypeOK
  BY DEF IInv
<1> QED
  BY <1>1, Inductive, PTL

(* Whatever the history and whichever commits git selects, the commit with *)
(* the fix stays in the range that git bisect still considers.             *)
THEOREM FixKept == Troubles = {} /\ Spec => []FixInRange
<1>1. IInv => FixInRange
  BY DEF IInv
<1> QED
  BY <1>1, Inductive, PTL

(* Whatever earlier tests left in the checkout, bisect-oracle.sh links the *)
(* probe with the library of the commit under test.                        *)
THEOREM LibraryIsOwn == Troubles = {} /\ Spec => []OwnLibrary
<1>1. IInv => OwnLibrary
  BY DEF IInv, VerdictRight, OwnLibrary
<1> QED
  BY <1>1, Inductive, PTL

-----------------------------------------------------------------------------
(* What git was told to skip cannot be built: 125 is the oracle's answer   *)
(* to a failed build only.  When git is done nothing else is open.         *)
NInv ==
  /\ skipped \intersect builds = {}
  /\ pc = "verdict" /\ rc = 125 => head \notin builds
  /\ pc = "done" => Open = {}

(* Every step keeps it, whatever happens to the probe. *)
LEMMA NextNInv == NInv /\ [Next]_vars => NInv'
<1> SUFFICES ASSUME NInv, [Next]_vars PROVE NInv'
  OBVIOUS
<1> USE DEF NInv, history, git
<1>1. CASE Select \/ Clean
  BY <1>1 DEF Select, Clean
<1>2. CASE Make
  BY <1>2 DEF Make
<1>3. CASE Probe
  <2>1. rc' # 125
    BY <1>3 DEF Probe, Verdict
  <2> QED
    BY <1>3, <2>1 DEF Probe
<1>4. CASE Wrapper
  <2>1. Mark(rc) = "skip" => head \notin builds
    BY <1>4 DEF Wrapper, Mark
  <2> QED
    BY <1>4, <2>1 DEF Wrapper
<1>5. CASE Finish
  BY <1>5 DEF Finish, Open
<1>6. CASE UNCHANGED vars
  BY <1>6 DEF vars, Open
<1> QED
  BY <1>1, <1>2, <1>3, <1>4, <1>5, <1>6 DEF Next

(* Whatever the history, the order of the tests and the troubles with the  *)
(* probe: when the search ends, the commits that are left between git's    *)
(* two bounds cannot be built.                                             *)
THEOREM NarrowestRange == Spec => []Narrowest
<1>1. Init => NInv
  BY DEF Init, NInv
<1>2. NInv => Narrowest
  BY DEF NInv, Narrowest, Open
<1> QED
  BY <1>1, <1>2, NextNInv, PTL DEF Spec
=============================================================================
