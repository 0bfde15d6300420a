------------------------------- MODULE Matrix -------------------------------
(***************************************************************************)
(* The reproduction matrix: setup.sh builds the compilers, the C libraries *)
(* and flex under build/, each unless a file says that it is there;        *)
(* repro.sh links four probes, runs every leg and compares its exit status *)
(* with the one expected.  setup.sh may be interrupted or fail at any step *)
(* and be run again in the same build/ (locally), or be run by the         *)
(* workflow for a new commit, with the build/ that an earlier job cached.  *)
(*                                                                         *)
(* What is at a path of build/:                                            *)
(*   "none"   nothing                                                      *)
(*   "part"   something, but its construction was not finished             *)
(*   "good"   what it should be, without the long-double defect            *)
(*   "buggy"  what it should be, with the defect                           *)
(*   "bad"    made from something that was only there in part              *)
(***************************************************************************)
EXTENDS Naturals, Sequences

CONSTANTS MaxStops,   \* bound: interruptions and failures of setup.sh
          MaxPushes   \* bound: later commits that the workflow runs for

(* What setup.sh makes, in its order, and what it makes it from.           *)
(* "tar:" is a tarball, "flex:" a flex built by a compiler for a library.  *)
Steps == <<
  [path |-> "tcc-prefix",      needs |-> {}],
  [path |-> "tcc-vintage",     needs |-> {}],
  [path |-> "tar:musl-1.2.5",  needs |-> {}],
  [path |-> "musl-1.2.5",      needs |-> {"tar:musl-1.2.5"}],
  [path |-> "sysroot-x86_64",  needs |-> {"musl-1.2.5"}],
  [path |-> "sysroot-riscv64", needs |-> {"musl-1.2.5"}],
  [path |-> "tar:musl-1.1.24", needs |-> {}],
  [path |-> "sys-chain-vintage", needs |-> {"tar:musl-1.1.24", "tcc-vintage"}],
  [path |-> "sys-chain-mob",   needs |-> {"tar:musl-1.1.24", "tcc-prefix"}],
  [path |-> "tar:flex",        needs |-> {}],
  [path |-> "flex-2.5.39",     needs |-> {"tar:flex"}],
  [path |-> "flex:x86",        needs |-> {"flex-2.5.39", "tcc-prefix", "sysroot-x86_64"}],
  [path |-> "flex:rv64",       needs |-> {"flex-2.5.39", "tcc-prefix", "sysroot-riscv64"}],
  [path |-> "flex:vintage-gccmusl",
            needs |-> {"flex-2.5.39", "tcc-vintage", "sysroot-riscv64"}],
  [path |-> "flex:vintage-chainmusl",
            needs |-> {"flex-2.5.39", "tcc-vintage", "sys-chain-vintage"}] >>

(* The probes that repro.sh links. *)
Probes == <<
  [path |-> "probe-vintage", needs |-> {"tcc-vintage", "sys-chain-vintage"}],
  [path |-> "probe-mob",     needs |-> {"tcc-prefix", "sys-chain-mob"}],
  [path |-> "lt-vintage",    needs |-> {"tcc-vintage", "sysroot-riscv64"}],
  [path |-> "lt-mob",        needs |-> {"tcc-prefix", "sysroot-riscv64"}] >>

(* The legs that repro.sh asserts; "table" is what README.md says of them. *)
Legs == <<
  [path |-> "lt-vintage",    expect |-> "ldbad",    table |-> "buggy"],
  [path |-> "lt-mob",        expect |-> "pass",     table |-> "good"],
  [path |-> "probe-vintage", expect |-> "crash",    table |-> "buggy"],
  [path |-> "probe-mob",     expect |-> "probe-ok", table |-> "good"],
  [path |-> "flex:x86",      expect |-> "pass",     table |-> "good"],
  [path |-> "flex:rv64",     expect |-> "pass",     table |-> "good"],
  [path |-> "flex:vintage-gccmusl", expect |-> "pass", table |-> "good"] >>

PathsOf(s) == {s[i].path : i \in 1..Len(s)}
Path == PathsOf(Steps) \union PathsOf(Probes)
Tarballs == {"tar:musl-1.2.5", "tar:musl-1.1.24", "tar:flex"}
Flexes == {"flex:x86", "flex:rv64", "flex:vintage-gccmusl", "flex:vintage-chainmusl"}

VARIABLES
  ci,      \* the workflow, rather than a local run
  src,     \* is the vendored tcc "buggy" or "good"?
  build,   \* what is at each path of build/
  cache,   \* the workflow's cache, empty or a build/
  phase,   \* "setup", "stopped", "link", "legs" or "end"
  at,      \* the step, probe or leg that is next
  FAILED,  \* repro.sh's variable, and its exit status
  info,    \* what the leg that is only informational did
  stops, pushes

matrixVars == <<ci, src, build, cache, phase, at, FAILED, info, stops, pushes>>

Nothing == [p \in Path |-> "none"]
Whole(p) == build[p] \in {"good", "buggy"}

MatrixInit ==
  /\ ci \in BOOLEAN
  /\ src = "buggy"
  /\ build = Nothing
  /\ cache = Nothing
  /\ phase = "setup" /\ at = 1
  /\ FAILED = 0
  /\ info = "none"
  /\ stops = 0 /\ pushes = 0

-----------------------------------------------------------------------------
(* Mutant: a tarball that is there is taken for the right one. *)
MutPresent(p) == build[p] # "none"

(* The guard of a step: a tarball by its SHA-256, all others by a file or  *)
(* a directory that is there before the step has ended.                    *)
Present(p) ==
  IF p \in Tarballs THEN build[p] = "good" ELSE build[p] # "none"

(* What is made at p if all that it needs is whole: the vendored compiler  *)
(* is as its source; code that is linked with the library it built, or     *)
(* that has long-double constants itself, shows its defect.                *)
Made(p) ==
  CASE p = "tcc-vintage" -> src
    [] p = "sys-chain-vintage" -> build["tcc-vintage"]
    [] p \in {"probe-vintage", "flex:vintage-chainmusl"} -> build["sys-chain-vintage"]
    [] p = "lt-vintage" -> build["tcc-vintage"]
    [] OTHER -> "good"

setup_skip ==
  /\ phase = "setup" /\ at <= Len(Steps)
  /\ Present(Steps[at].path)
  /\ at' = at + 1
  /\ UNCHANGED <<ci, src, build, cache, phase, FAILED, info, stops, pushes>>

(* One step of setup.sh.  What is made from parts may go unnoticed.        *)
setup_build ==
  /\ phase = "setup" /\ at <= Len(Steps)
  /\ ~Present(Steps[at].path)
  /\ LET s == Steps[at]
         v == IF \A n \in s.needs : Whole(n) THEN Made(s.path) ELSE "bad"
     IN build' = [build EXCEPT ![s.path] = v]
  /\ at' = at + 1
  /\ UNCHANGED <<ci, src, cache, phase, FAILED, info, stops, pushes>>

(* "set -e": a command of the step fails, or setup.sh is interrupted.  A   *)
(* flex is only there after the link that ends its step; anything else may *)
(* be left in part: a tarball, a directory, the compiler without its       *)
(* library, crt1.o without libc.a.                                         *)
setup_stop ==
  /\ phase = "setup" /\ at <= Len(Steps)
  /\ ~Present(Steps[at].path)
  /\ stops < MaxStops
  /\ stops' = stops + 1
  /\ phase' = "stopped"
  /\ build' \in {build} \union
       {[build EXCEPT ![p] = "part"] : p \in {Steps[at].path} \ Flexes}
  /\ UNCHANGED <<ci, src, cache, at, FAILED, info, pushes>>

(* What a step needs is not whole, and it fails for that. *)
setup_fail ==
  /\ phase = "setup" /\ at <= Len(Steps)
  /\ ~Present(Steps[at].path)
  /\ \E n \in Steps[at].needs : ~Whole(n)
  /\ phase' = "stopped"
  /\ UNCHANGED <<ci, src, build, cache, at, FAILED, info, stops, pushes>>

(* "setup complete"; then repro.sh *)
setup_complete ==
  /\ phase = "setup" /\ at = Len(Steps) + 1
  /\ phase' = "link" /\ at' = 1
  /\ FAILED' = 0
  /\ UNCHANGED <<ci, src, build, cache, info, stops, pushes>>

(* linkprobe() and buildlt(): their status is not looked at.  A link that  *)
(* fails leaves what an earlier run of repro.sh made.                      *)
linkprobe ==
  /\ phase = "link" /\ at <= Len(Probes)
  /\ LET p == Probes[at]
     IN build' \in IF \A n \in p.needs : Whole(n)
                     THEN {[build EXCEPT ![p.path] = Made(p.path)]}
                     ELSE {build, [build EXCEPT ![p.path] = "bad"]}
  /\ at' = at + 1
  /\ UNCHANGED <<ci, src, cache, phase, FAILED, info, stops, pushes>>

all_linked ==
  /\ phase = "link" /\ at = Len(Probes) + 1
  /\ phase' = "legs" /\ at' = 1
  /\ UNCHANGED <<ci, src, build, cache, FAILED, info, stops, pushes>>

(* The exit status of a leg, and whether its output has the line that is   *)
(* looked for: 124 is a timeout, 127 a file that is not there, 139 a crash.*)
LegOutcome(p) ==
  CASE build[p] = "none" -> {<<127, FALSE>>}
    [] build[p] = "good" -> {<<0, TRUE>>, <<124, FALSE>>}
    [] build[p] = "buggy" /\ p = "lt-vintage" ->
         {<<2, FALSE>>, <<3, FALSE>>, <<124, FALSE>>}
    [] build[p] = "buggy" /\ p # "lt-vintage" -> {<<139, FALSE>>, <<124, FALSE>>}
    [] OTHER -> {<<0, TRUE>>, <<0, FALSE>>, <<1, FALSE>>, <<2, FALSE>>, <<139, FALSE>>}

(* run(): is the leg's outcome the one expected? *)
LegVerdict(expect, rc, line) ==
  CASE expect = "pass" -> rc = 0
    [] expect = "probe-ok" -> rc = 0 /\ line
    [] expect = "ldbad" -> rc \in {2, 3}
    [] expect = "crash" -> rc >= 128

run ==
  /\ phase = "legs" /\ at <= Len(Legs)
  /\ \E o \in LegOutcome(Legs[at].path) :
       FAILED' = IF LegVerdict(Legs[at].expect, o[1], o[2]) THEN FAILED ELSE 1
  /\ at' = at + 1
  /\ UNCHANGED <<ci, src, build, cache, phase, info, stops, pushes>>

(* The last leg is run and printed only; with the defect it may pass,      *)
(* crash or die with flex's message.  The workflow's post step saves       *)
(* build/ if the job succeeded and the cache was empty: its key is the     *)
(* hash of setup.sh.                                                       *)
informational ==
  /\ phase = "legs" /\ at = Len(Legs) + 1
  /\ info' \in IF build["flex:vintage-chainmusl"] = "good"
                 THEN {"pass"} ELSE {"pass", "crash", "magic"}
  /\ cache' = IF ci /\ FAILED = 0 /\ cache = Nothing THEN build ELSE cache
  /\ phase' = "end"
  /\ UNCHANGED <<ci, src, build, at, FAILED, stops, pushes>>

(* Locally: setup.sh again, and repro.sh. *)
again ==
  /\ ~ci /\ phase \in {"stopped", "end"}
  /\ phase' = "setup" /\ at' = 1
  /\ UNCHANGED <<ci, src, build, cache, FAILED, info, stops, pushes>>

(* Locally: repro.sh, although setup.sh did not get to its end. *)
repro_anyway ==
  /\ ~ci /\ phase = "stopped"
  /\ phase' = "link" /\ at' = 1
  /\ FAILED' = 0
  /\ UNCHANGED <<ci, src, build, cache, info, stops, pushes>>

(* A commit, which may change the vendored compiler, is pushed: the job    *)
(* starts with the cached build/, if there is one.                         *)
push ==
  /\ ci /\ phase \in {"stopped", "end"}
  /\ pushes < MaxPushes
  /\ pushes' = pushes + 1
  /\ src' \in {"buggy", "good"}
  /\ build' = cache
  /\ phase' = "setup" /\ at' = 1
  /\ UNCHANGED <<ci, cache, FAILED, info, stops>>

MatrixNext ==
  \/ setup_skip \/ setup_build \/ setup_stop \/ setup_fail \/ setup_complete
  \/ linkprobe \/ all_linked \/ run \/ informational \/ again
  \/ repro_anyway \/ push

MatrixSpec == MatrixInit /\ [][MatrixNext]_matrixVars

-----------------------------------------------------------------------------
Green == phase = "end" /\ FAILED = 0

(* However often setup.sh was stopped and run again: nothing is extracted  *)
(* from a tarball that was downloaded in part, so every tree that was      *)
(* built by one complete step comes from the sources that setup.sh pins.   *)
TarballsWhole ==
  \A i \in 1..Len(Steps) :
    Steps[i].path \in Tarballs /\ phase \in {"setup", "stopped"} /\ i < at
      => build[Steps[i].path] = "good"

(* If repro.sh exits with 0, every asserted leg was run with the program   *)
(* that README.md's table is about, or with one that setup.sh made from    *)
(* parts: a program that is missing, or one that times out, is never taken *)
(* for the crash that is expected.                                         *)
GreenMatchesTable ==
  Green => \A l \in 1..Len(Legs) : build[Legs[l].path] \in {Legs[l].table, "bad"}

(* Both: however often setup.sh was stopped, the sources that are built    *)
(* are the pinned ones and a green matrix never counts a program that is   *)
(* missing or hangs.                                                       *)
MatrixHonest == TarballsWhole /\ GreenMatchesTable

(* "build every leg of the test matrix FROM SOURCE": when setup.sh says    *)
(* that it is complete, everything is there, and whole.                    *)
CompleteIsWhole ==
  phase = "setup" /\ at = Len(Steps) + 1 => \A p \in PathsOf(Steps) : Whole(p)

(* "GREEN CI == BUG REPRODUCED": if the workflow's job succeeds, the       *)
(* compiler in the commit has the defect.                                  *)
GreenMeansBug == ci /\ Green => src = "buggy"

(* "Exit 0 iff every leg behaves as expected", and leg 6 is expected to    *)
(* fail with flex's message.                                               *)
GreenMeansAllLegs == Green => info = "magic"
=============================================================================
