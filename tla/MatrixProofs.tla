---------------------------- MODULE MatrixProofs ----------------------------
(***************************************************************************)
(* Proofs about Matrix, for any number of interruptions and of commits:    *)
(* setup.sh never goes on with a tarball that was downloaded in part, and  *)
(* repro.sh does not exit with 0 because a program was missing or hung.    *)
(***************************************************************************)
EXTENDS Matrix, TLAPS

States == {"none", "part", "good", "buggy", "bad"}

(* What is run by a leg: it is there after the link that makes it, or it   *)
(* is what was there before.                                               *)
Atomic == Flexes \union PathsOf(Probes)

(* The types, of the variables that what follows depends on. *)
TypeOK ==
  /\ src \in {"buggy", "good"}
  /\ build \in [Path -> States]
  /\ cache \in [Path -> States]
  /\ phase \in {"setup", "stopped", "link", "legs", "end"}
  /\ at \in Nat \ {0}
  /\ FAILED \in {0, 1}

(* No program that a leg runs is ever left in part: not by setup.sh, not   *)
(* in the workflow's cache.                                                *)
NeverPart == \A p \in Atomic : build[p] # "part" /\ cache[p] # "part"

(* As long as FAILED is 0, each leg that was run ran what the table says,  *)
(* or what was made from parts; after the last one that holds for all.     *)
LegsRight ==
  /\ phase = "legs" /\ FAILED = 0 =>
       \A l \in 1..Len(Legs) :
         l < at => build[Legs[l].path] \in {Legs[l].table, "bad"}
  /\ GreenMatchesTable

IInv == TypeOK /\ NeverPart /\ TarballsWhole /\ LegsRight

-----------------------------------------------------------------------------
(* The tarballs are steps 3, 7 and 10, made from nothing that setup.sh     *)
(* makes before.                                                           *)
LEMMA TarballSteps ==
  /\ Len(Steps) = 15
  /\ Steps[3] = [path |-> "tar:musl-1.2.5", needs |-> {}]
  /\ Steps[7] = [path |-> "tar:musl-1.1.24", needs |-> {}]
  /\ Steps[10] = [path |-> "tar:flex", needs |-> {}]
  /\ \A i \in 1..15 : Steps[i].path \in Tarballs <=> i \in {3, 7, 10}
<1>1. Len(Steps) = 15
  BY DEF Steps
<1>2. /\ Steps[3] = [path |-> "tar:musl-1.2.5", needs |-> {}]
      /\ Steps[7] = [path |-> "tar:musl-1.1.24", needs |-> {}]
      /\ Steps[10] = [path |-> "tar:flex", needs |-> {}]
  BY DEF Steps
<1>3. \A i \in 1..15 : Steps[i].path \in Tarballs <=> i \in {3, 7, 10}
  BY SMTT(60) DEF Steps, Tarballs
<1> QED
  BY <1>1, <1>2, <1>3

(* Every step makes one of the paths, and a path that is atomic is made by *)
(* a step that ends with the link, and by no tarball.                      *)
LEMMA StepPaths ==
  /\ \A i \in 1..15 : Steps[i].path \in Path
  /\ Len(Probes) = 4
  /\ \A i \in 1..4 : Probes[i].path \in Path \cap Atomic
  /\ Atomic \subseteq Path
<1>1. \A i \in 1..15 : Steps[i].path \in Path
  BY TarballSteps DEF Path, PathsOf
<1>2. Len(Probes) = 4
  BY DEF Probes
<1>3. \A i \in 1..4 : Probes[i].path \in Path \cap Atomic
  BY <1>2 DEF Path, PathsOf, Atomic
<1>4. Steps[12].path = "flex:x86" /\ Steps[13].path = "flex:rv64"
      /\ Steps[14].path = "flex:vintage-gccmusl" /\ Steps[15].path = "flex:vintage-chainmusl"
  BY DEF Steps
<1>5. Flexes \subseteq Path
  BY <1>1, <1>4 DEF Flexes
<1> QED
  BY <1>1, <1>2, <1>3, <1>5 DEF Atomic, Path

(* A probe is linked by repro.sh, not by setup.sh. *)
LEMMA StepsNoProbes == \A i \in 1..15 : Steps[i].path \notin PathsOf(Probes)
<1>1. PathsOf(Probes) = {"probe-vintage", "probe-mob", "lt-vintage", "lt-mob"}
  BY SMTT(60) DEF PathsOf, Probes
<1> QED
  BY <1>1, SMTT(60) DEF Steps

(* Each of the seven legs runs a program that is only there when it is     *)
(* complete.                                                               *)
LEMMA LegPaths ==
  /\ Len(Legs) = 7
  /\ \A l \in 1..7 : Legs[l].path \in Atomic
<1>1. Len(Legs) = 7
  BY DEF Legs
<1>2. \A l \in 1..7 : Legs[l].path \in Flexes
        \/ \E i \in 1..4 : Legs[l].path = Probes[i].path
  BY SMTT(60) DEF Legs, Flexes, Probes
<1>3. Len(Probes) = 4
  BY DEF Probes
<1> QED
  BY <1>1, <1>2, <1>3 DEF Atomic, PathsOf

(* The four verdicts of run(). *)
LEMMA Verdicts ==
  ASSUME NEW rc, NEW line \in BOOLEAN
  PROVE  /\ LegVerdict("pass", rc, line) = (rc = 0)
         /\ LegVerdict("probe-ok", rc, line) = (rc = 0 /\ line)
         /\ LegVerdict("ldbad", rc, line) = (rc \in {2, 3})
         /\ LegVerdict("crash", rc, line) = (rc >= 128)
<1>1. LegVerdict("pass", rc, line) = (rc = 0)
  BY DEF LegVerdict
<1>2. LegVerdict("probe-ok", rc, line) = (rc = 0 /\ line)
  BY DEF LegVerdict
<1>3. LegVerdict("ldbad", rc, line) = (rc \in {2, 3})
  BY DEF LegVerdict
<1>4. LegVerdict("crash", rc, line) = (rc >= 128)
  BY DEF LegVerdict
<1> QED
  BY <1>1, <1>2, <1>3, <1>4

(* run() takes a leg for right only if its program is what README.md's     *)
(* table says, or was made from parts: the exit statuses of a timeout, of  *)
(* a missing file and of a crash are told apart.                           *)
LEMMA VerdictHonest ==
  ASSUME TypeOK, NEW l \in 1..7, build[Legs[l].path] # "part",
         NEW o \in LegOutcome(Legs[l].path),
         LegVerdict(Legs[l].expect, o[1], o[2])
  PROVE  build[Legs[l].path] \in {Legs[l].table, "bad"}
<1> DEFINE p == Legs[l].path
<1>1. build[p] \in States
  BY LegPaths, StepPaths DEF TypeOK
<1>2. /\ Legs[l].expect \in {"pass", "probe-ok"} => Legs[l].table = "good"
      /\ Legs[l].expect = "crash" => Legs[l].table = "buggy" /\ p # "lt-vintage"
      /\ Legs[l].expect = "ldbad" => Legs[l].table = "buggy" /\ p = "lt-vintage"
      /\ Legs[l].expect \in {"pass", "probe-ok", "crash", "ldbad"}
  BY DEF Legs
<1>3. PICK rc \in Nat, line \in BOOLEAN :
        /\ o = <<rc, line>>
        /\ build[p] = "none" => rc = 127
        /\ build[p] = "good" => rc \in {0, 124}
        /\ build[p] = "buggy" /\ p = "lt-vintage" => rc \in {2, 3, 124}
        /\ build[p] = "buggy" /\ p # "lt-vintage" => rc \in {139, 124}
  <2>1. CASE build[p] = "none"
    <3>1. o = <<127, FALSE>>
      BY <2>1 DEF LegOutcome
    <3> QED
      BY <3>1, <2>1
  <2>2. CASE build[p] = "good"
    <3>1. o = <<0, TRUE>> \/ o = <<124, FALSE>>
      BY <2>2 DEF LegOutcome
    <3> QED
      BY <3>1, <2>2
  <2>3. CASE build[p] = "buggy" /\ p = "lt-vintage"
    <3>1. o = <<2, FALSE>> \/ o = <<3, FALSE>> \/ o = <<124, FALSE>>
      BY <2>3 DEF LegOutcome
    <3> QED
      BY <3>1, <2>3
  <2>4. CASE build[p] = "buggy" /\ p # "lt-vintage"
    <3>1. o = <<139, FALSE>> \/ o = <<124, FALSE>>
      BY <2>4 DEF LegOutcome
    <3> QED
      BY <3>1, <2>4
  <2>5. CASE build[p] = "bad"
    <3>1. \/ o = <<0, TRUE>> \/ o = <<0, FALSE>> \/ o = <<1, FALSE>>
          \/ o = <<2, FALSE>> \/ o = <<139, FALSE>>
      BY <2>5 DEF LegOutcome
    <3> QED
      BY <3>1, <2>5
  <2> QED
    BY <1>1, <2>1, <2>2, <2>3, <2>4, <2>5 DEF States
<1>4. LegVerdict(Legs[l].expect, rc, line)
  BY <1>3
<1>5. CASE Legs[l].expect \in {"pass", "probe-ok"}
  <2>1. rc = 0
    BY <1>4, <1>5, Verdicts
  <2> QED
    BY <2>1, <1>1, <1>2, <1>3, <1>5 DEF States
<1>6. CASE Legs[l].expect = "ldbad"
  <2>1. rc \in {2, 3}
    BY <1>4, <1>6, Verdicts
  <2> QED
    BY <2>1, <1>1, <1>2, <1>3, <1>6 DEF States
<1>7. CASE Legs[l].expect = "crash"
  <2>1. rc >= 128
    BY <1>4, <1>7, Verdicts
  <2> QED
    BY <2>1, <1>1, <1>2, <1>3, <1>7 DEF States
<1> QED
  BY <1>2, <1>5, <1>6, <1>7

-----------------------------------------------------------------------------
(* In the beginning build/ and the cache are empty and nothing was run. *)
LEMMA InitInv == MatrixInit => IInv
  BY StepPaths DEF MatrixInit, IInv, TypeOK, Nothing, States, NeverPart, TarballsWhole, LegsRight,
     GreenMatchesTable, Green

(* What a step or a link makes of whole things is a compiler, a library or *)
(* a program, never a part.                                                *)
LEMMA MadeWhole ==
  ASSUME TypeOK, NEW p, NEW needs, \A n \in needs : Whole(n),
         p = "sys-chain-vintage" \/ p = "lt-vintage" => "tcc-vintage" \in needs,
         p \in {"probe-vintage", "flex:vintage-chainmusl"} => "sys-chain-vintage" \in needs
  PROVE  Made(p) \in {"good", "buggy"}
  BY DEF Made, Whole, TypeOK

(* What each step and each probe is made from is enough for that. *)
LEMMA NeedsEnough ==
  ASSUME NEW s, (\E i \in 1..15 : s = Steps[i]) \/ (\E i \in 1..4 : s = Probes[i])
  PROVE  /\ s.path = "sys-chain-vintage" \/ s.path = "lt-vintage" => "tcc-vintage" \in s.needs
         /\ s.path \in {"probe-vintage", "flex:vintage-chainmusl"}
              => "sys-chain-vintage" \in s.needs
<1>1. ASSUME NEW i \in 1..15, s = Steps[i]
      PROVE  /\ s.path = "sys-chain-vintage" \/ s.path = "lt-vintage" => "tcc-vintage" \in s.needs
             /\ s.path \in {"probe-vintage", "flex:vintage-chainmusl"}
                  => "sys-chain-vintage" \in s.needs
  BY <1>1, SMTT(60) DEF Steps
<1>2. ASSUME NEW i \in 1..4, s = Probes[i]
      PROVE  /\ s.path = "sys-chain-vintage" \/ s.path = "lt-vintage" => "tcc-vintage" \in s.needs
             /\ s.path \in {"probe-vintage", "flex:vintage-chainmusl"}
                  => "sys-chain-vintage" \in s.needs
  BY <1>2 DEF Probes
<1> QED
  BY <1>1, <1>2

(* Every step keeps the invariant: first setup.sh. *)
LEMMA SetupInv ==
  ASSUME IInv, setup_skip \/ setup_build \/ setup_stop \/ setup_fail \/ setup_complete
  PROVE  IInv'
<1> USE DEF IInv
<1>1. CASE setup_skip
  <2>1. TypeOK' /\ NeverPart' /\ LegsRight'
    BY <1>1 DEF setup_skip, TypeOK, NeverPart, LegsRight, GreenMatchesTable, Green
  <2>2. TarballsWhole'
    BY <1>1, TarballSteps DEF setup_skip, TarballsWhole, Present, TypeOK
  <2> QED
    BY <2>1, <2>2
<1>2. CASE setup_build
  <2> DEFINE s == Steps[at]
             v == IF \A n \in s.needs : Whole(n) THEN Made(s.path) ELSE "bad"
  <2>1. at \in 1..15
    BY <1>2, TarballSteps DEF setup_build, TypeOK
  <2>2. v \in {"good", "buggy", "bad"}
    <3>1. (\A n \in s.needs : Whole(n)) => Made(s.path) \in {"good", "buggy"}
      BY <2>1, NeedsEnough, MadeWhole
    <3>2. CASE \A n \in s.needs : Whole(n)
      BY <3>1, <3>2
    <3>3. CASE ~ \A n \in s.needs : Whole(n)
      BY <3>3
    <3> HIDE DEF v
    <3> QED
      BY <3>2, <3>3
  <2>3. build' = [build EXCEPT ![s.path] = v]
    BY <1>2 DEF setup_build
  <2>4. s.path \in Tarballs => v = "good"
    BY <2>1, TarballSteps DEF Made
  <2> HIDE DEF v
  <2>5. TypeOK'
    <3>1. v \in States
      BY <2>2 DEF States
    <3>2. build' \in [Path -> States]
      BY <2>3, <3>1 DEF TypeOK
    <3>3. UNCHANGED <<src, cache, phase, FAILED>> /\ at' = at + 1
      BY <1>2 DEF setup_build
    <3> QED
      BY <3>2, <3>3 DEF TypeOK
  <2>6. NeverPart' /\ LegsRight'
    BY <1>2, <2>2, <2>3, StepPaths
       DEF setup_build, TypeOK, NeverPart, LegsRight, GreenMatchesTable, Green
  <2>7. TarballsWhole'
    <3> SUFFICES ASSUME NEW i \in 1..15, Steps[i].path \in Tarballs, i < at + 1
                 PROVE  build'[Steps[i].path] = "good"
      BY <1>2, TarballSteps DEF setup_build, TarballsWhole
    <3>1. CASE i = at
      BY <3>1, <2>1, <2>3, <2>4, StepPaths DEF TypeOK
    <3>2. CASE i < at
      <4>1. build[Steps[i].path] = "good"
        BY <1>2, <3>2, TarballSteps DEF setup_build, TarballsWhole
      <4> QED
        BY <4>1, <2>1, <2>3, <2>4, StepPaths DEF TypeOK
    <3> QED
      BY <3>1, <3>2, <2>1
  <2> QED
    BY <2>5, <2>6, <2>7
<1>3. CASE setup_stop
  <2>1. at \in 1..15
    BY <1>3, TarballSteps DEF setup_stop, TypeOK
  <2>2. \/ build' = build
        \/ /\ Steps[at].path \notin Flexes
           /\ build' = [build EXCEPT ![Steps[at].path] = "part"]
    BY <1>3 DEF setup_stop
  <2>3. TypeOK'
    BY <1>3, <2>2 DEF setup_stop, TypeOK, States
  <2>4. Steps[at].path \notin PathsOf(Probes)
    BY <2>1, StepsNoProbes
  <2>5. NeverPart' /\ LegsRight'
    BY <1>3, <2>2, <2>4, StepPaths
       DEF setup_stop, TypeOK, NeverPart, LegsRight, GreenMatchesTable, Green, Atomic
  <2>6. TarballsWhole'
    <3> SUFFICES ASSUME NEW i \in 1..15, Steps[i].path \in Tarballs, i < at
                 PROVE  build'[Steps[i].path] = "good"
      BY <1>3, TarballSteps DEF setup_stop, TarballsWhole
    <3>1. build[Steps[i].path] = "good"
      BY <1>3, TarballSteps DEF setup_stop, TarballsWhole
    <3>2. Steps[at].path # Steps[i].path
      BY <1>3, <3>1 DEF setup_stop, Present
    <3> QED
      BY <3>1, <3>2, <2>1, <2>2, StepPaths DEF TypeOK
  <2> QED
    BY <2>3, <2>5, <2>6
<1>4. CASE setup_fail
  BY <1>4 DEF setup_fail, TypeOK, NeverPart, TarballsWhole, LegsRight, GreenMatchesTable, Green
<1>5. CASE setup_complete
  BY <1>5 DEF setup_complete, TypeOK, NeverPart, TarballsWhole, LegsRight, GreenMatchesTable,
     Green
<1> QED
  BY <1>1, <1>2, <1>3, <1>4, <1>5

(* Then repro.sh, the workflow and whoever runs them again. *)
LEMMA ReproInv ==
  ASSUME IInv, linkprobe \/ all_linked \/ run \/ informational \/ again \/ repro_anyway \/ push
  PROVE  IInv'
<1> USE DEF IInv
<1>1. CASE linkprobe
  <2> DEFINE p == Probes[at]
  <2>1. at \in 1..4
    BY <1>1, StepPaths DEF linkprobe, TypeOK
  <2>2. (\A n \in p.needs : Whole(n)) => Made(p.path) \in {"good", "buggy"}
    BY <2>1, NeedsEnough, MadeWhole
  <2>3. \/ build' = build
        \/ \E v \in {"good", "buggy", "bad"} : build' = [build EXCEPT ![p.path] = v]
    BY <1>1, <2>2 DEF linkprobe
  <2>4. TypeOK' /\ NeverPart'
    BY <1>1, <2>1, <2>3, StepPaths DEF linkprobe, TypeOK, NeverPart, States
  <2>5. TarballsWhole' /\ LegsRight'
    BY <1>1 DEF linkprobe, TarballsWhole, LegsRight, GreenMatchesTable, Green
  <2> QED
    BY <2>4, <2>5
<1>2. CASE all_linked
  BY <1>2, LegPaths DEF all_linked, TypeOK, NeverPart, TarballsWhole, LegsRight, GreenMatchesTable,
     Green
<1>3. CASE run
  <2>1. at \in 1..7
    BY <1>3, LegPaths DEF run, TypeOK
  <2>2. PICK o \in LegOutcome(Legs[at].path) :
          FAILED' = IF LegVerdict(Legs[at].expect, o[1], o[2]) THEN FAILED ELSE 1
    BY <1>3 DEF run
  <2>3. FAILED' = 0 => FAILED = 0 /\ build[Legs[at].path] \in {Legs[at].table, "bad"}
    BY <2>1, <2>2, LegPaths, VerdictHonest DEF TypeOK, NeverPart
  <2>4. TypeOK' /\ NeverPart' /\ TarballsWhole'
    BY <1>3, <2>2 DEF run, TypeOK, NeverPart, TarballsWhole
  <2>5. LegsRight'
    BY <1>3, <2>1, <2>3, LegPaths DEF run, LegsRight, GreenMatchesTable, Green, TypeOK
  <2> QED
    BY <2>4, <2>5
<1>4. CASE informational
  <2>1. TypeOK' /\ NeverPart' /\ TarballsWhole'
    BY <1>4, SMTT(60) DEF informational, TypeOK, NeverPart, TarballsWhole
  <2>2. LegsRight'
    BY <1>4, LegPaths DEF informational, LegsRight, GreenMatchesTable, Green, TypeOK
  <2> QED
    BY <2>1, <2>2
<1>5. CASE again
  BY <1>5 DEF again, TypeOK, NeverPart, TarballsWhole, LegsRight, GreenMatchesTable, Green
<1>6. CASE repro_anyway
  BY <1>6 DEF repro_anyway, TypeOK, NeverPart, TarballsWhole, LegsRight, GreenMatchesTable, Green
<1>7. CASE push
  BY <1>7 DEF push, TypeOK, NeverPart, TarballsWhole, LegsRight, GreenMatchesTable, Green
<1> QED
  BY <1>1, <1>2, <1>3, <1>4, <1>5, <1>6, <1>7

-----------------------------------------------------------------------------
(* However often setup.sh is stopped, and whatever is pushed: no tarball   *)
(* that was downloaded in part is unpacked, and repro.sh never exits with  *)
(* 0 because a program is missing or hangs.                                *)
THEOREM MatrixRight == MatrixSpec => []MatrixHonest
<1>1. IInv /\ [MatrixNext]_matrixVars => IInv'
  <2> SUFFICES ASSUME IInv, [MatrixNext]_matrixVars PROVE IInv'
    OBVIOUS
  <2>1. CASE UNCHANGED matrixVars
    BY <2>1 DEF matrixVars, IInv, TypeOK, NeverPart, TarballsWhole, LegsRight, GreenMatchesTable, Green
  <2> QED
    BY <2>1, SetupInv, ReproInv DEF MatrixNext
<1>2. IInv => MatrixHonest
  BY DEF IInv, LegsRight, MatrixHonest
<1> QED
  BY <1>1, <1>2, InitInv, PTL DEF MatrixSpec
=============================================================================
