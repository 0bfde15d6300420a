------------------------------ MODULE Minimize ------------------------------
(***************************************************************************)
(* minimize.py: delta-debugging of a flex input down to a small trigger.   *)
(*                                                                         *)
(* A text is a sequence of lines, a line is [id, len]: which line of the   *)
(* input it is, and how many of its characters are left.  The flex runs    *)
(* are external: the first time a text is tried its outcome is chosen      *)
(* nondeterministically and remembered in `outcome', so every              *)
(* deterministic oracle is covered.  With Flaky = TRUE the outcome is      *)
(* chosen anew at each call: the 20 s timeout of run() makes the verdict   *)
(* depend on the load of the machine.                                      *)
(***************************************************************************)
EXTENDS Integers, Sequences

CONSTANTS
    NLines,   \* lines of the input file
    LineLen,  \* characters of each line of the input file
    Outcomes, \* pairs <<x86 flex, chain flex>> of outcomes of the two runs
    Flaky     \* BOOLEAN: may two runs on one text disagree?

ASSUME NLinesAssumption == NLines \in Nat \ {0}
ASSUME LineLenAssumption == LineLen \in Nat
ASSUME OutcomesAssumption ==
    Outcomes \subseteq {"ok", "bad"} \X {"ok", "magic", "other"}
ASSUME FlakyAssumption == Flaky \in BOOLEAN

VARIABLES
    pc,       \* program point: see PCs
    raw,      \* the input file differs from "\n".join(splitlines) + "\n"
    lines,    \* the local `lines' of main, ddmin_lines and trim_line_chars
    prev,     \* main's `prev': lines before the last call of ddmin_lines
    n, i, reduced, chunk, \* the locals of ddmin_lines
    ti, lo, hi,           \* the locals of trim_line_chars (ti is its `i')
    outcome   \* what each text tried so far made the two flexes do

vars == <<pc, raw, lines, prev, n, i, reduced, chunk, ti, lo, hi, outcome>>
ddVars == <<n, i, reduced, chunk>>
trimVars == <<ti, lo, hi>>

PCs == {"start", "refused", "fixpoint", "pass", "scan", "trim", "search",
        "final", "failed", "done"}
Line == [id : 1..NLines, len : 0..LineLen]
Input == [k \in 1..NLines |-> [id |-> k, len |-> LineLen]]

-----------------------------------------------------------------------------
(* The oracle. *)

\* The file as main() read it: when raw, not the text of any later call (the
\* line 0 stands for the bytes that splitlines() and join() do not restore).
Original == IF raw THEN Append(Input, [id |-> 0, len |-> 0]) ELSE Input

\* Mutant of Interesting: a one-sided oracle.
MutInteresting(o) == o[2] = "magic"

\* interesting(): x86 passes AND the chain flex dies with the magic error;
\* the chain flex is not run (and a timeout is no verdict) otherwise.
Interesting(o) == o[1] = "ok" /\ o[2] = "magic"

\* One call of interesting(text) with outcome o, remembered.
Ask(text, o) ==
    /\ o \in Outcomes
    /\ text \in DOMAIN outcome /\ ~Flaky => o = outcome[text]
    /\ outcome' = [t \in DOMAIN outcome \cup {text} |->
                      IF t = text THEN o ELSE outcome[t]]

Max2(a, b) == IF a >= b THEN a ELSE b
Min2(a, b) == IF a <= b THEN a ELSE b

\* lines[:i] + lines[i + chunk:], i counted from 0 as in the code.
Without(s, from, width) ==
    SubSeq(s, 1, from) \o SubSeq(s, from + width + 1, Len(s))

\* lines[:i] + [line[:mid]] + lines[i + 1:]
Cut(s, k, len) == [s EXCEPT ![k + 1].len = len]

-----------------------------------------------------------------------------
Init ==
    /\ pc = "start"
    /\ raw \in BOOLEAN
    /\ lines = Input /\ prev = <<>>
    /\ n = 2 /\ i = 0 /\ reduced = FALSE /\ chunk = 1
    /\ ti = 0 /\ lo = 0 /\ hi = 0
    /\ outcome = <<>>

\* main(): refuse an input that does not satisfy the oracle.
Start ==
    /\ pc = "start"
    /\ \E o \in Outcomes :
          /\ Ask(Original, o)
          /\ pc' = IF Interesting(o) THEN "fixpoint" ELSE "refused"
    /\ UNCHANGED <<raw, lines, prev, ddVars, trimVars>>

\* main(): while prev != lines: one more call of ddmin_lines, or the trim.
Fixpoint ==
    /\ pc = "fixpoint"
    /\ IF prev # lines
       THEN /\ prev' = lines
            /\ n' = 2
            /\ pc' = "pass"
            /\ UNCHANGED ti
       ELSE /\ ti' = 0
            /\ pc' = "trim"
            /\ UNCHANGED <<prev, n>>
    /\ UNCHANGED <<raw, lines, i, reduced, chunk, lo, hi, outcome>>

\* ddmin_lines: the head of the outer while.
Pass ==
    /\ pc = "pass"
    /\ IF Len(lines) >= 2
       THEN /\ chunk' = Max2(1, Len(lines) \div n)
            /\ reduced' = FALSE
            /\ i' = 0
            /\ pc' = "scan"
       ELSE /\ pc' = "fixpoint"
            /\ UNCHANGED <<i, reduced, chunk>>
    /\ UNCHANGED <<raw, lines, prev, n, trimVars, outcome>>

\* Mutants of EndOfPass: stop before single lines were tried; never stop.
MutEndOfPassEarly ==
    IF reduced
    THEN n' = Max2(n - 1, 2) /\ pc' = "pass"
    ELSE IF n >= Len(lines) \div 2
    THEN pc' = "fixpoint" /\ UNCHANGED n
    ELSE n' = Min2(n * 2, Len(lines)) /\ pc' = "pass"
MutEndOfPassStrict ==
    IF reduced
    THEN n' = Max2(n - 1, 2) /\ pc' = "pass"
    ELSE IF n > Len(lines)
    THEN pc' = "fixpoint" /\ UNCHANGED n
    ELSE n' = Min2(n * 2, Len(lines)) /\ pc' = "pass"

\* ddmin_lines: the granularity after a pass.
EndOfPass ==
    IF reduced
    THEN n' = Max2(n - 1, 2) /\ pc' = "pass"
    ELSE IF n >= Len(lines)
    THEN pc' = "fixpoint" /\ UNCHANGED n
    ELSE n' = Min2(n * 2, Len(lines)) /\ pc' = "pass"

\* ddmin_lines: one iteration of the inner while, or the end of the pass.
Scan ==
    /\ pc = "scan"
    /\ LET candidate == Without(lines, i, chunk)
       IN  \/ /\ i < Len(lines) /\ candidate # <<>>
              /\ \E o \in Outcomes :
                    /\ Ask(candidate, o)
                    /\ IF Interesting(o)
                       THEN /\ lines' = candidate
                            /\ reduced' = TRUE
                            /\ UNCHANGED i
                       ELSE /\ i' = i + chunk
                            /\ UNCHANGED <<lines, reduced>>
              /\ UNCHANGED <<pc, n>>
           \/ /\ i < Len(lines) /\ candidate = <<>>
              /\ i' = i + chunk
              /\ UNCHANGED <<pc, n, lines, reduced, outcome>>
           \/ /\ i >= Len(lines)
              /\ EndOfPass
              /\ UNCHANGED <<lines, i, reduced, outcome>>
    /\ UNCHANGED <<raw, prev, chunk, trimVars>>

\* trim_line_chars: the next line, or the end of the for.
Trim ==
    /\ pc = "trim"
    /\ IF ti < Len(lines)
       THEN /\ lo' = 0
            /\ hi' = lines[ti + 1].len
            /\ pc' = "search"
       ELSE /\ pc' = "final"
            /\ UNCHANGED <<lo, hi>>
    /\ UNCHANGED <<raw, lines, prev, ddVars, ti, outcome>>

Searching == lo < hi

\* Mutant of Narrow: keep a truncation that was rejected.
MutNarrowSwapped(mid, accepted) ==
    IF accepted THEN lo' = mid + 1 /\ UNCHANGED hi ELSE hi' = mid /\ UNCHANGED lo

Narrow(mid, accepted) ==
    IF accepted THEN hi' = mid /\ UNCHANGED lo ELSE lo' = mid + 1 /\ UNCHANGED hi

\* trim_line_chars: one step of the binary search for the shortest
\* truncation, or its end, where the line is replaced.
Search ==
    /\ pc = "search"
    /\ LET mid == (lo + hi) \div 2
       IN  \/ /\ Searching
              /\ \E o \in Outcomes :
                    /\ Ask(Cut(lines, ti, mid), o)
                    /\ Narrow(mid, Interesting(o))
              /\ UNCHANGED <<pc, lines, ti>>
           \/ /\ ~Searching
              /\ lines' = Cut(lines, ti, hi)
              /\ ti' = ti + 1
              /\ pc' = "trim"
              /\ UNCHANGED <<lo, hi, outcome>>
    /\ UNCHANGED <<raw, prev, ddVars>>

\* main(): the final sanity assertion, and the write of minimized.l.
Final ==
    /\ pc = "final"
    /\ \E o \in Outcomes :
          /\ Ask(lines, o)
          /\ pc' = IF Interesting(o) THEN "done" ELSE "failed"
    /\ UNCHANGED <<raw, lines, prev, ddVars, trimVars>>

Terminated ==
    /\ pc \in {"refused", "failed", "done"}
    /\ UNCHANGED vars

Next == Start \/ Fixpoint \/ Pass \/ Scan \/ Trim \/ Search \/ Final
        \/ Terminated

\* The script is one sequential process: it keeps running.
Spec == Init /\ [][Next]_vars /\ WF_vars(Next)

-----------------------------------------------------------------------------
(* The locals of the script stay in the ranges its arithmetic needs: a     *)
(* granularity of at least one chunk, a cut no longer than a line.         *)
TypeOK ==
    /\ pc \in PCs
    /\ raw \in BOOLEAN
    /\ lines \in Seq(Line) /\ prev \in Seq(Line)
    /\ n \in Nat \ {0} /\ i \in Nat /\ chunk \in Nat \ {0}
    /\ reduced \in BOOLEAN
    /\ ti \in Nat /\ lo \in 0..LineLen /\ hi \in 0..LineLen
    /\ \A t \in DOMAIN outcome : outcome[t] \in Outcomes

Answered(text, verdict) ==
    text \in DOMAIN outcome /\ Interesting(outcome[text]) = verdict

(* "Invariant preserved at every step": once the input is accepted, the    *)
(* lines the script holds made x86 flex pass and the chain flex fail when  *)
(* they were tried.  (An input that is not equal to its own join is only   *)
(* tried after the first successful reduction.)                            *)
KeepsTrigger ==
    pc \notin {"start", "refused"} /\ ~Flaky /\ (raw => lines # Input)
        => /\ lines \in DOMAIN outcome
           /\ outcome[lines] = <<"ok", "magic">>

(* ddmin "iterated to a fixpoint": when the trim pass begins, every text   *)
(* with one line fewer was tried and rejected (an empty text never is      *)
(* tried).                                                                 *)
OneMinimal ==
    pc = "trim" /\ ti = 0 /\ Len(lines) >= 2 /\ ~Flaky
        => \A k \in 0..(Len(lines) - 1) : Answered(Without(lines, k, 1), FALSE)

(* The binary search cuts a line where the next shorter truncation was      *)
(* rejected, even when the oracle is not monotone in the length.           *)
TightCut ==
    pc = "trim" /\ ti > 0 /\ hi > 0 /\ ~Flaky
        => Answered(Cut(lines, ti - 1, hi - 1), FALSE)

(* What the two loops of minimize.py promise: no line, and no last         *)
(* character of a line that was cut, can be dropped.                       *)
Minimal == OneMinimal /\ TightCut

(* With a deterministic oracle the final assertion of main() only fails    *)
(* for an input file that is not equal to its own join and that no step    *)
(* reduced.                                                                *)
AssertHolds == pc = "failed" => Flaky \/ (raw /\ lines = Input)

(* The script ends, whatever the oracle answers: no sequence of            *)
(* granularities cycles.                                                   *)
Terminates == <>(pc \in {"refused", "failed", "done"})
=============================================================================
