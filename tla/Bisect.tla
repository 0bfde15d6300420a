------------------------------- MODULE Bisect -------------------------------
(***************************************************************************)
(* The search for the commit that fixed the miscompilation:                *)
(* `git bisect run bisect-run-wrapper.sh', which runs bisect-oracle.sh in  *)
(* the checkout of each commit that git selects.  The commits are 1..N in  *)
(* their order; 1 was marked broken and N fixed before the run.            *)
(*                                                                         *)
(* The checkout is shared by all the tests and git leaves untracked files  *)
(* alone, so what one test builds is there when the next one starts: the   *)
(* two archives libtcc1 may be built into are part of the state.           *)
(***************************************************************************)
EXTENDS Naturals, FiniteSets

CONSTANTS N,       \* the number of commits
          Troubles \* what may happen to a probe: see Outcome

ASSUME NAssumption == N \in Nat /\ N >= 2
ASSUME TroublesAssumption == Troubles \subseteq {"partly right", "no answer"}

Commit == 1..N
Names == {"libtcc1-riscv64.a", "riscv64-libtcc1.a"}
Lines == 1..4     \* the lines that log10-probe.c prints

VARIABLES
  fixedAt,  \* the first commit with the fix
  builds,   \* the commits at which the tool chain can be built
  name,     \* what the Makefile of a commit calls libtcc1
  lo, hi,   \* git: the last commit known broken, the first known fixed
  skipped,  \* git: the commits it was told to skip
  head,     \* the commit that is checked out
  archive,  \* the commit an archive in the checkout was made from, or 0
  linked,   \* the commit of the archive that the probe was linked with, or 0
  right,    \* the lines of the probe's output that are right
  rc,       \* the oracle's exit status
  pc        \* "select", "clean", "make", "probe", "verdict" or "done"

history == <<fixedAt, builds, name>>
git == <<lo, hi, skipped, head>>
vars == <<history, git, archive, linked, right, rc, pc>>

-----------------------------------------------------------------------------
Init ==
  /\ fixedAt \in 2..N
  /\ builds \in SUBSET Commit
  /\ name \in [Commit -> Names]
  /\ lo = 1 /\ hi = N /\ skipped = {} /\ head = N
  /\ archive = [a \in Names |-> 0]
  /\ linked = 0
  /\ right = {}
  /\ rc = 0
  /\ pc = "select"

(* git bisect checks out one of the commits that may still be the first    *)
(* fixed one.  Git prefers the middle; any of them is allowed here.        *)
Open == (lo + 1)..(hi - 1) \ skipped

Select ==
  /\ pc = "select"
  /\ Open # {}
  /\ head' \in Open
  /\ pc' = "clean"
  /\ UNCHANGED <<history, lo, hi, skipped, archive, linked, right, rc>>

Finish ==
  /\ pc = "select"
  /\ Open = {}
  /\ pc' = "done"
  /\ UNCHANGED <<history, git, archive, linked, right, rc>>

(* Mutant: the checkout is used as the last test left it. *)
MutClean ==
  /\ pc = "clean"
  /\ pc' = "make"
  /\ UNCHANGED <<history, git, archive, linked, right, rc>>

(* `git clean': nothing that an earlier test built survives. *)
Clean ==
  /\ pc = "clean"
  /\ archive' = [a \in Names |-> 0]
  /\ pc' = "make"
  /\ UNCHANGED <<history, git, linked, right, rc>>

(* configure, make riscv64-tcc and make of libtcc1 by either name; then    *)
(* musl.  If one of these fails the oracle exits with 125.                 *)
Make ==
  /\ pc = "make"
  /\ IF head \in builds
       THEN /\ archive' = [archive EXCEPT ![name[head]] = head]
            /\ pc' = "probe"
            /\ rc' = rc
       ELSE /\ archive' = archive
            /\ pc' = "verdict"
            /\ rc' = 125
  /\ UNCHANGED <<history, git, linked, right>>

(* `ls a b | head -1': the first by name of those that exist. *)
Library ==
  IF archive["libtcc1-riscv64.a"] # 0
    THEN archive["libtcc1-riscv64.a"] ELSE archive["riscv64-libtcc1.a"]

(* What the probe may do: its exit status (0, or not) and the lines of its *)
(* output that are right.  Fixed, it prints four right lines; broken, it   *)
(* crashes or prints wrong values, and the constants it needs for log10(2) *)
(* are among the wrong ones, unless it is "partly right"; with "no answer" *)
(* the emulator is missing or 20 seconds are not enough.  A library of     *)
(* another commit may do either.                                           *)
Outcome(fixed) ==
  (IF fixed THEN {<<0, Lines>>}
   ELSE {<<1, {}>>, <<0, {}>>}
        \union (IF "partly right" \in Troubles THEN {<<0, {1, 2}>>} ELSE {}))
  \union (IF "no answer" \in Troubles THEN {<<1, {}>>} ELSE {})

Fixed(c) == c >= fixedAt

(* The oracle's verdict on the probe's exit status and output. *)
Verdict(status, lines) == IF status = 0 /\ 2 \in lines THEN 0 ELSE 1

Probe ==
  /\ pc = "probe"
  /\ linked' = Library
  /\ \E fixed \in {Fixed(head), Fixed(Library)} :
       \E o \in Outcome(fixed) :
         /\ right' = o[2]
         /\ rc' = Verdict(o[1], o[2])
  /\ pc' = "verdict"
  /\ UNCHANGED <<history, git, archive>>

(* Mutant: a test that failed is skipped. *)
MutMark(status) ==
  CASE status = 0 -> "fixed"
    [] OTHER -> "skip"

(* Mutant: the usual reading of a test script's exit status. *)
MutMarkPlain(status) ==
  CASE status = 0 -> "broken"
    [] status = 125 -> "skip"
    [] OTHER -> "fixed"

(* bisect-run-wrapper.sh, and what git makes of its exit status: 1 is the  *)
(* new term, `fixed', and 0 the old one, `broken'.                         *)
Mark(status) ==
  CASE status = 0 -> "fixed"
    [] status = 125 -> "skip"
    [] OTHER -> "broken"

(* Mutant: git is not told about a commit that cannot be tested. *)
MutWrapper ==
  /\ pc = "verdict"
  /\ pc' = "select"
  /\ hi' = IF Mark(rc) = "fixed" THEN head ELSE hi
  /\ lo' = IF Mark(rc) = "broken" THEN head ELSE lo
  /\ UNCHANGED <<history, skipped, head, archive, linked, right, rc>>

Wrapper ==
  /\ pc = "verdict"
  /\ pc' = "select"
  /\ hi' = IF Mark(rc) = "fixed" THEN head ELSE hi
  /\ lo' = IF Mark(rc) = "broken" THEN head ELSE lo
  /\ skipped' = IF Mark(rc) = "skip" THEN skipped \union {head} ELSE skipped
  /\ UNCHANGED <<history, head, archive, linked, right, rc>>

Next == Select \/ Clean \/ Make \/ Probe \/ Wrapper \/ Finish

(* git and the shell go on as long as there is something to do. *)
Spec == Init /\ [][Next]_vars /\ WF_vars(Next)

-----------------------------------------------------------------------------
(* The variables have their types; in particular git's two bounds stay     *)
(* commits of the range that was given, in their order.                    *)
TypeOK ==
  /\ fixedAt \in Commit /\ builds \subseteq Commit /\ name \in [Commit -> Names]
  /\ lo \in Commit /\ hi \in Commit /\ lo < hi
  /\ skipped \subseteq Commit /\ head \in Commit
  /\ archive \in [Names -> 0..N]
  /\ linked \in 0..N
  /\ right \subseteq Lines
  /\ rc \in {0, 1, 125}
  /\ pc \in {"select", "clean", "make", "probe", "verdict", "done"}

(* The commit with the fix never leaves the range that git still           *)
(* considers: the two inversions (the oracle's exit status by the wrapper, *)
(* old and new terms by git) cancel, and no verdict depends on what an     *)
(* earlier test left in the checkout.                                      *)
FixInRange == lo < fixedAt /\ fixedAt <= hi

(* When the search ends, it has named one commit, or a range of which all  *)
(* but the last cannot be built.                                           *)
Narrowest == pc = "done" => \A c \in (lo + 1)..(hi - 1) : c \notin builds

(* "stale cross libtcc1 archives from a previous checkout otherwise        *)
(* survive and get linked": the probe is linked with the library of the    *)
(* commit under test.                                                      *)
OwnLibrary == pc = "verdict" /\ rc # 125 => linked = head

(* The search ends: no commit is tested over and over. *)
SearchEnds == <>(pc = "done")

(* The inductive invariant behind FixInRange and OwnLibrary when nothing   *)
(* goes wrong with the probe.                                              *)
Testing == pc \in {"clean", "make", "probe", "verdict"} => head \in (lo + 1)..(hi - 1)

OnlyOwn ==
  /\ pc = "make" => \A a \in Names : archive[a] = 0
  /\ pc = "probe" => Library = head

VerdictRight ==
  pc = "verdict" /\ rc # 125 => linked = head /\ (rc = 0 <=> Fixed(head))

IInv == TypeOK /\ Testing /\ OnlyOwn /\ VerdictRight /\ FixInRange

(* "Exit 0  = GOOD (probe prints 4 correct lines)" *)
GoodIsFourLines == pc = "verdict" /\ rc = 0 => right = Lines

(* "Exit 1  = BAD  (probe crashes or prints wrong values)": the oracle     *)
(* never calls a commit bad that has the fix.                              *)
BadIsBroken == pc = "verdict" /\ rc = 1 => ~Fixed(head)
=============================================================================
