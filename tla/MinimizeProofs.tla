--------------------------- MODULE MinimizeProofs ---------------------------
(***************************************************************************)
(* The reduction loop of minimize.py never loses the trigger, and what it  *)
(* leaves is minimal, for inputs of any size and every oracle.             *)
(***************************************************************************)
EXTENDS Minimize, SequenceTheorems, TLAPS

USE NLinesAssumption, LineLenAssumption, OutcomesAssumption, FlakyAssumption

(* A text the script may hold: it was tried and accepted, or it is the     *)
(* untried join of an input file that is not its own join.                 *)
Good(text) ==
    \/ raw /\ text = Input
    \/ text \in DOMAIN outcome /\ outcome[text] = <<"ok", "magic">>

(* The inductive invariant: the lines are good, the truncation the binary  *)
(* search has reached is good, and it belongs to an existing line.         *)
IInv ==
    /\ TypeOK
    /\ pc = "search" => ti + 1 \in 1..Len(lines)
    /\ ~Flaky /\ pc \notin {"start", "refused"} => Good(lines)
    /\ ~Flaky /\ pc = "search" => Good(Cut(lines, ti, hi))
    /\ ~Flaky /\ pc = "failed" => raw /\ lines = Input
    /\ pc = "start" => lines = Input

(* Removing a chunk of lines (candidate of ddmin_lines) yields lines.      *)
LEMMA WithoutType ==
    ASSUME NEW s \in Seq(Line), NEW from \in Nat, from < Len(s),
           NEW width \in Nat
    PROVE  Without(s, from, width) \in Seq(Line)
<1>1. \A k \in 1..from : s[k] \in Line
  BY LenProperties
<1>2. \A k \in (from + width + 1)..Len(s) : s[k] \in Line
  BY LenProperties
<1>. QED
  BY <1>1, <1>2 DEF Without

(* Truncating an existing line yields lines.                               *)
LEMMA CutType ==
    ASSUME NEW s \in Seq(Line), NEW k \in Nat, k + 1 \in 1..Len(s),
           NEW len \in 0..LineLen
    PROVE  Cut(s, k, len) \in Seq(Line)
<1>1. s[k + 1] \in Line
  BY LenProperties
<1>2. [s[k + 1] EXCEPT !.len = len] \in Line
  BY <1>1 DEF Line
<1>3. Cut(s, k, len) = [s EXCEPT ![k + 1] = [s[k + 1] EXCEPT !.len = len]]
  BY DEF Cut
<1>. QED
  BY <1>2, <1>3, ExceptSeq

(* Truncating a line to its own length changes nothing: where the binary   *)
(* search of trim_line_chars starts.                                       *)
LEMMA CutSelf ==
    ASSUME NEW s \in Seq(Line), NEW k \in Nat, k + 1 \in 1..Len(s)
    PROVE  Cut(s, k, s[k + 1].len) = s
<1>1. s[k + 1] \in Line /\ s \in [1..Len(s) -> Line]
  BY LenProperties
<1>2. [s[k + 1] EXCEPT !.len = s[k + 1].len] = s[k + 1]
  BY <1>1 DEF Line
<1>3. Cut(s, k, s[k + 1].len)
        = [s EXCEPT ![k + 1] = [s[k + 1] EXCEPT !.len = s[k + 1].len]]
  BY DEF Cut
<1>. QED
  BY <1>1, <1>2, <1>3

(* Only the two-sided outcome is interesting.                              *)
LEMMA InterestingIff ==
    ASSUME NEW o \in Outcomes
    PROVE  Interesting(o) <=> o = <<"ok", "magic">>
  BY DEF Interesting

(* A call of the oracle keeps every earlier verdict when the oracle is     *)
(* deterministic, and records the verdict of the text it tried.            *)
LEMMA AskKeeps ==
    ASSUME NEW text, NEW o \in Outcomes, Ask(text, o), UNCHANGED raw,
           \A t \in DOMAIN outcome : outcome[t] \in Outcomes
    PROVE  /\ \A t \in DOMAIN outcome' : outcome'[t] \in Outcomes
           /\ text \in DOMAIN outcome' /\ outcome'[text] = o
           /\ ~Flaky => \A t : Good(t) => Good(t)'
           /\ Interesting(o) => Good(text)'
<1>1. /\ DOMAIN outcome' = DOMAIN outcome \cup {text}
      /\ \A t \in DOMAIN outcome' :
            outcome'[t] = IF t = text THEN o ELSE outcome[t]
  BY DEF Ask
<1>2. \A t \in DOMAIN outcome : ~Flaky => outcome'[t] = outcome[t]
  BY <1>1 DEF Ask
<1>3. text \in DOMAIN outcome' /\ outcome'[text] = o
  BY <1>1
<1>4. \A t \in DOMAIN outcome' : outcome'[t] \in Outcomes
  BY <1>1
<1>5. ~Flaky => \A t : Good(t) => Good(t)'
  BY <1>1, <1>2 DEF Good
<1>6. Interesting(o) => Good(text)'
  BY <1>3, InterestingIff DEF Good
<1>. QED
  BY <1>3, <1>4, <1>5, <1>6

(* The input file's lines are lines.                                       *)
LEMMA InputType == Input \in Seq(Line)
<1>1. Input \in [1..NLines -> Line]
  BY DEF Input, Line
<1>. QED
  BY <1>1

LEMMA InitIInv == Init => IInv
<1> SUFFICES ASSUME Init PROVE IInv
  OBVIOUS
<1>1. <<>> \in Seq(Line) /\ DOMAIN outcome = {}
  BY DEF Init
<1>. QED
  <2>1. \A t \in DOMAIN outcome : outcome[t] \in Outcomes
    BY <1>1
  <2>2. 0 \in 0..LineLen
    OBVIOUS
  <2>3. reduced \in BOOLEAN /\ raw \in BOOLEAN /\ pc \in PCs
    BY Zenon DEF Init, PCs
  <2>4. TypeOK
    <3>1. lines \in Seq(Line) /\ prev \in Seq(Line)
      BY <1>1, InputType DEF Init
    <3>2. n \in Nat \ {0} /\ i \in Nat /\ chunk \in Nat \ {0} /\ ti \in Nat
      BY DEF Init
    <3>3. lo \in 0..LineLen /\ hi \in 0..LineLen
      BY <2>2 DEF Init
    <3>. QED
      BY <2>1, <2>3, <3>1, <3>2, <3>3 DEF TypeOK
  <2>. QED
    BY <2>4 DEF Init, IInv

LEMMA NextIInv == IInv /\ [Next]_vars => IInv'
<1> SUFFICES ASSUME IInv, [Next]_vars PROVE IInv'
  OBVIOUS
<1> USE DEF PCs
<1>0. TypeOK /\ lines \in Seq(Line) /\ Len(lines) \in Nat
  BY DEF IInv, TypeOK
<1>1. CASE Start
  <2>1. PICK o \in Outcomes :
           /\ Ask(Original, o)
           /\ pc' = IF Interesting(o) THEN "fixpoint" ELSE "refused"
    BY <1>1 DEF Start
  <2>2. lines = Input /\ UNCHANGED <<raw, lines, prev, n, i, reduced, chunk, ti, lo, hi>>
    BY <1>1 DEF Start, IInv, ddVars, trimVars
  <2>3. TypeOK'
    BY <1>0, <2>1, <2>2, AskKeeps DEF TypeOK
  <2>4. Interesting(o) => Good(lines)'
    BY <2>1, <2>2, AskKeeps, <1>0 DEF Good, Original, TypeOK
  <2>. QED
    BY <2>1, <2>2, <2>3, <2>4 DEF IInv
<1>2. CASE Fixpoint
  <2>1. /\ UNCHANGED <<raw, lines, outcome, i, reduced, chunk, lo, hi>>
        /\ pc = "fixpoint" /\ pc' \in {"pass", "trim"}
        /\ prev' \in {prev, lines} /\ n' \in {n, 2} /\ ti' \in {ti, 0}
    BY <1>2 DEF Fixpoint
  <2>2. TypeOK'
    BY <1>0, <2>1 DEF TypeOK
  <2>. QED
    BY <2>1, <2>2 DEF IInv, Good
<1>3. CASE Pass
  <2>1. /\ UNCHANGED <<raw, lines, outcome, prev, n, ti, lo, hi>>
        /\ pc = "pass" /\ pc' \in {"scan", "fixpoint"}
        /\ i' \in {i, 0} /\ reduced' \in {reduced, FALSE}
        /\ chunk' \in {chunk, Max2(1, Len(lines) \div n)}
    BY <1>3 DEF Pass, trimVars
  <2>2. Len(lines) \div n \in Int
    BY <1>0 DEF TypeOK
  <2>3. chunk' \in Nat \ {0}
    BY <1>0, <2>1, <2>2 DEF TypeOK, Max2
  <2>4. i' \in Nat
    BY <1>0, <2>1 DEF TypeOK
  <2>5. reduced' \in BOOLEAN
    BY <1>0, <2>1, Zenon DEF TypeOK
  <2>6. TypeOK'
    BY <1>0, <2>1, <2>3, <2>4, <2>5 DEF TypeOK
  <2>. QED
    BY <2>1, <2>6 DEF IInv, Good
<1>4. CASE Scan
  <2> DEFINE candidate == Without(lines, i, chunk)
  <2>0. UNCHANGED <<raw, prev, chunk, ti, lo, hi>> /\ pc = "scan"
    BY <1>4 DEF Scan, trimVars
  <2>1. CASE i < Len(lines) /\ candidate # <<>>
    <3>1. PICK o \in Outcomes :
             /\ Ask(candidate, o)
             /\ IF Interesting(o)
                THEN lines' = candidate /\ reduced' = TRUE /\ UNCHANGED i
                ELSE i' = i + chunk /\ UNCHANGED <<lines, reduced>>
      BY <1>0, <1>4, <2>1 DEF Scan, TypeOK
    <3>2. UNCHANGED <<pc, n>>
      BY <1>0, <1>4, <2>1 DEF Scan, TypeOK
    <3>3. candidate \in Seq(Line)
      BY <1>0, <2>1, WithoutType DEF TypeOK
    <3>4. TypeOK'
      <4>1. \A t \in DOMAIN outcome' : outcome'[t] \in Outcomes
        BY <1>0, <2>0, <3>1, AskKeeps DEF TypeOK
      <4>2. i' \in Nat /\ lines' \in Seq(Line)
        BY <1>0, <3>1, <3>3 DEF TypeOK
      <4>3. reduced' \in BOOLEAN
        BY <1>0, <3>1, Zenon DEF TypeOK
      <4>. QED
        BY <1>0, <2>0, <3>2, <4>1, <4>2, <4>3 DEF TypeOK
    <3>5. ~Flaky => Good(lines)'
      <4>1. CASE Interesting(o)
        BY <3>1, <4>1, <2>0, <1>0, AskKeeps DEF Good, TypeOK
      <4>2. CASE ~Interesting(o)
        <5>1. ~Flaky => Good(lines)
          BY <2>0 DEF IInv
        <5>. QED
          BY <3>1, <4>2, <5>1, <2>0, <1>0, AskKeeps, SMTT(60) DEF Good, TypeOK
      <4>. QED
        BY <4>1, <4>2
    <3>. QED
      BY <2>0, <3>2, <3>4, <3>5 DEF IInv
  <2>2. CASE i < Len(lines) /\ candidate = <<>>
    <3>1. i' = i + chunk /\ UNCHANGED <<pc, n, lines, reduced, outcome>>
      BY <1>0, <1>4, <2>2 DEF Scan, TypeOK
    <3>. QED
      BY <1>0, <2>0, <3>1 DEF IInv, TypeOK, Good
  <2>3. CASE i >= Len(lines)
    <3>1. EndOfPass /\ UNCHANGED <<lines, i, reduced, outcome>>
      BY <1>0, <1>4, <2>3 DEF Scan, TypeOK
    <3>2. n' \in Nat \ {0} /\ pc' \in {"pass", "fixpoint"}
      BY <1>0, <3>1 DEF EndOfPass, Max2, Min2, TypeOK
    <3>. QED
      BY <1>0, <2>0, <3>1, <3>2 DEF IInv, TypeOK, Good
  <2>. QED
    BY <1>0, <2>1, <2>2, <2>3 DEF TypeOK
<1>5. CASE Trim
  <2>0. UNCHANGED <<raw, lines, prev, n, i, reduced, chunk, ti, outcome>> /\ pc = "trim"
    BY <1>5 DEF Trim, ddVars
  <2>1. CASE ti < Len(lines)
    <3>1. lo' = 0 /\ hi' = lines[ti + 1].len /\ pc' = "search"
      BY <1>5, <2>1 DEF Trim
    <3>2. ti + 1 \in 1..Len(lines)
      BY <1>0, <2>1 DEF TypeOK
    <3>3. lines[ti + 1].len \in 0..LineLen
      <4>1. lines[ti + 1] \in Line
        BY <1>0, <3>2, ElementOfSeq
      <4>. QED
        BY <4>1 DEF Line
    <3>4. Cut(lines, ti, lines[ti + 1].len) = lines
      BY <1>0, <3>2, CutSelf DEF TypeOK
    <3>5. Cut(lines, ti, hi)' = lines
      BY <2>0, <3>1, <3>4 DEF Cut
    <3>6. TypeOK'
      BY <1>0, <2>0, <3>1, <3>3 DEF TypeOK
    <3>. QED
      BY <2>0, <3>1, <3>2, <3>5, <3>6 DEF IInv, Good
  <2>2. CASE ~(ti < Len(lines))
    <3>1. pc' = "final" /\ UNCHANGED <<lo, hi>>
      BY <1>5, <2>2 DEF Trim
    <3>. QED
      BY <1>0, <2>0, <3>1 DEF IInv, TypeOK, Good
  <2>. QED
    BY <2>1, <2>2
<1>6. CASE Search
  <2> DEFINE mid == (lo + hi) \div 2
  <2>0. UNCHANGED <<raw, prev, n, i, reduced, chunk>> /\ pc = "search"
    BY <1>6 DEF Search, ddVars
  <2>1. ti + 1 \in 1..Len(lines) /\ ti \in Nat
    BY <1>0, <2>0 DEF IInv, TypeOK
  <2>2. CASE lo < hi
    <3>1. PICK o \in Outcomes :
             Ask(Cut(lines, ti, mid), o) /\ Narrow(mid, Interesting(o))
      BY <1>0, <1>6, <2>2 DEF Search, Searching, TypeOK
    <3>2. UNCHANGED <<pc, lines, ti>>
      BY <1>0, <1>6, <2>2 DEF Search, Searching, TypeOK
    <3>3. mid \in 0..LineLen /\ mid + 1 \in 0..LineLen
      BY <1>0, <2>2 DEF TypeOK
    <3>4. TypeOK'
      BY <1>0, <2>0, <3>1, <3>2, <3>3, AskKeeps, SMTT(60) DEF TypeOK, Narrow
    <3>5. ~Flaky => Good(lines)'
      BY <1>0, <2>0, <3>1, <3>2, AskKeeps DEF IInv, TypeOK, Good
    <3>6. ~Flaky => Good(Cut(lines, ti, hi))'
      <4>1. CASE Interesting(o)
        <5> DEFINE text == Cut(lines, ti, mid)
        <5>1. text \in DOMAIN outcome' /\ outcome'[text] = <<"ok", "magic">>
          BY <1>0, <2>0, <3>1, <4>1, AskKeeps, InterestingIff DEF TypeOK
        <5>2. Cut(lines, ti, hi)' = text
          BY <3>1, <3>2, <4>1 DEF Narrow, Cut
        <5>. QED
          BY <5>1, <5>2 DEF Good
      <4>2. CASE ~Interesting(o)
        <5>1. ~Flaky => Good(Cut(lines, ti, hi))
          BY <2>0 DEF IInv
        <5>2. Cut(lines, ti, hi)' = Cut(lines, ti, hi)
          BY <3>1, <3>2, <4>2 DEF Narrow, Cut
        <5>. QED
          BY <1>0, <2>0, <3>1, <5>1, <5>2, AskKeeps DEF TypeOK, Good
      <4>. QED
        BY <4>1, <4>2
    <3>. QED
      BY <2>0, <2>1, <3>2, <3>4, <3>5, <3>6 DEF IInv
  <2>3. CASE ~(lo < hi)
    <3>1. /\ lines' = Cut(lines, ti, hi) /\ ti' = ti + 1 /\ pc' = "trim"
          /\ UNCHANGED <<lo, hi, outcome>>
      BY <1>0, <1>6, <2>3 DEF Search, Searching, TypeOK
    <3>2. Cut(lines, ti, hi) \in Seq(Line)
      BY <1>0, <2>1, CutType DEF TypeOK
    <3>. QED
      BY <1>0, <2>0, <2>1, <3>1, <3>2 DEF IInv, TypeOK, Good
  <2>. QED
    BY <2>2, <2>3
<1>7. CASE Final
  <2>0. UNCHANGED <<raw, lines, prev, n, i, reduced, chunk, ti, lo, hi>> /\ pc = "final"
    BY <1>7 DEF Final, ddVars, trimVars
  <2>1. PICK o \in Outcomes :
           Ask(lines, o) /\ pc' = IF Interesting(o) THEN "done" ELSE "failed"
    BY <1>7 DEF Final
  <2>2. TypeOK'
    BY <1>0, <2>0, <2>1, AskKeeps DEF TypeOK
  <2>3. ~Flaky => Good(lines) /\ Good(lines)'
    BY <1>0, <2>0, <2>1, AskKeeps DEF IInv, TypeOK, Good
  <2>4. ~Flaky /\ pc' = "failed" => raw /\ lines = Input
    BY <2>1, <2>3, InterestingIff DEF Good, Ask
  <2>. QED
    BY <2>0, <2>1, <2>2, <2>3, <2>4 DEF IInv
<1>8. CASE Terminated \/ UNCHANGED vars
  <2>1. UNCHANGED vars
    BY <1>8 DEF Terminated
  <2>. QED
    BY <2>1 DEF vars, IInv, TypeOK, Good, Cut
<1>. QED
  BY <1>1, <1>2, <1>3, <1>4, <1>5, <1>6, <1>7, <1>8 DEF Next

(* The strengthened invariant holds throughout.                            *)
LEMMA SpecIInv == Spec => []IInv
  BY InitIInv, NextIInv, PTL DEF Spec

(* The locals of minimize.py stay in range, for every input and oracle.    *)
THEOREM TypeCorrect == Spec => []TypeOK
<1>1. IInv => TypeOK
  BY DEF IInv
<1>. QED
  BY <1>1, SpecIInv, PTL

(* "Invariant preserved at every step": no reduction and no truncation     *)
(* loses the trigger, for inputs of any size.                              *)
THEOREM TriggerKept == Spec => []KeepsTrigger
<1>1. IInv => KeepsTrigger
  BY DEF IInv, KeepsTrigger, Good
<1>. QED
  BY <1>1, SpecIInv, PTL

(* The `assert interesting(out)' of main() can only fail on an untried     *)
(* input or with an oracle that contradicts itself.                        *)
THEOREM FinalAssertion == Spec => []AssertHolds
<1>1. IInv => AssertHolds
  BY DEF IInv, AssertHolds
<1>. QED
  BY <1>1, SpecIInv, PTL

-----------------------------------------------------------------------------
(* What the loops know of rejected texts.  A pass without reduction keeps  *)
(* the chunk it began with, and single lines below i were rejected.  The   *)
(* binary search has seen the truncation before lo rejected.  RejectedNow  *)
(* speaks of the state after a step and of a text before it.               *)
Rejected(text) == Answered(text, FALSE)
RejectedNow(text) == text \in DOMAIN outcome' /\ Interesting(outcome'[text]) = FALSE
NoLine == \A k \in 0..(Len(lines) - 1) : Rejected(Without(lines, k, 1))
Scanned ==
    /\ Len(lines) >= 2
    /\ chunk = Max2(1, Len(lines) \div n)
    /\ chunk = 1 => \A k \in 0..(Len(lines) - 1) : k < i => Rejected(Without(lines, k, 1))

MInv ==
    /\ pc = "start" => prev = <<>>
    /\ pc = "fixpoint" /\ ~Flaky /\ Len(lines) >= 2 => prev = <<>> \/ NoLine
    /\ pc = "scan" /\ ~Flaky /\ ~reduced => Scanned
    /\ pc = "trim" /\ ~Flaky /\ ti = 0 /\ Len(lines) >= 2 => NoLine
    /\ pc = "search" => lo <= hi
    /\ pc = "search" /\ ~Flaky /\ lo > 0 => Rejected(Cut(lines, ti, lo - 1))
    /\ pc = "trim" /\ ~Flaky /\ ti > 0 /\ hi > 0 => Rejected(Cut(lines, ti - 1, hi - 1))

(* The length of a candidate of ddmin_lines that leaves out one line. *)
LEMMA WithoutLen ==
    ASSUME NEW s \in Seq(Line), NEW k \in Nat, k < Len(s)
    PROVE  Len(Without(s, k, 1)) = Len(s) - 1
<1> DEFINE a == SubSeq(s, 1, k)
           b == SubSeq(s, k + 1 + 1, Len(s))
<1>1. a \in Seq(Line) /\ Len(a) = k
  BY LenProperties
<1>2. b \in Seq(Line) /\ Len(b) = Len(s) - (k + 1)
  BY LenProperties
<1>3. Without(s, k, 1) = a \o b
  BY DEF Without
<1> HIDE DEF a, b
<1>. QED
  BY <1>1, <1>2, <1>3, ConcatProperties, LenProperties

(* Truncating a line twice is truncating it once. *)
LEMMA CutCut ==
    ASSUME NEW s \in Seq(Line), NEW k \in Nat, k + 1 \in 1..Len(s), NEW a, NEW b
    PROVE  Cut(Cut(s, k, a), k, b) = Cut(s, k, b)
<1>1. s[k + 1] \in Line /\ DOMAIN s = 1..Len(s)
  BY LenProperties
<1>2. DOMAIN s[k + 1] = {"id", "len"}
  BY <1>1 DEF Line
<1>. QED
  BY <1>1, <1>2 DEF Cut

(* A deterministic oracle that is asked once more forgets no rejection,    *)
(* and a text that is not interesting has been rejected.                   *)
LEMMA AskRejects ==
    ASSUME NEW text, NEW o \in Outcomes, Ask(text, o), ~Flaky
    PROVE  /\ \A t : Rejected(t) => RejectedNow(t)
           /\ ~Interesting(o) => RejectedNow(text)
<1>1. /\ DOMAIN outcome' = DOMAIN outcome \cup {text}
      /\ \A t \in DOMAIN outcome' :
            outcome'[t] = IF t = text THEN o ELSE outcome[t]
  BY DEF Ask
<1>2. \A t \in DOMAIN outcome : outcome'[t] = outcome[t]
  BY <1>1 DEF Ask
<1>3. Interesting(o) \in BOOLEAN
  BY DEF Interesting
<1>. QED
  BY <1>1, <1>2, <1>3 DEF Rejected, RejectedNow, Answered

(* Every step keeps what the loops know. *)
LEMMA NextMInv == IInv /\ MInv /\ [Next]_vars => MInv'
<1> SUFFICES ASSUME IInv, MInv, [Next]_vars PROVE MInv'
  OBVIOUS
<1> USE DEF PCs
<1>0. TypeOK /\ lines \in Seq(Line) /\ Len(lines) \in Nat
  BY DEF IInv, TypeOK
<1>1. CASE Start
  BY <1>1 DEF Start, MInv, NoLine, Scanned
<1>2. CASE Fixpoint
  <2>1. pc = "fixpoint" /\ UNCHANGED <<lines, outcome>>
    BY <1>2 DEF Fixpoint
  <2>2. CASE prev # lines
    <3>1. pc' = "pass"
      BY <1>2, <2>2 DEF Fixpoint
    <3>. QED
      BY <3>1 DEF MInv
  <2>3. CASE prev = lines
    <3>1. pc' = "trim" /\ ti' = 0
      BY <1>2, <2>3 DEF Fixpoint
    <3>2. Len(lines) >= 2 => prev # <<>>
      BY <2>3
    <3>3. ~Flaky /\ Len(lines) >= 2 => NoLine
      BY <2>1, <3>2 DEF MInv
    <3>4. ~Flaky /\ Len(lines) >= 2 => NoLine'
      BY <2>1, <3>3 DEF NoLine, Rejected, Answered
    <3>. QED
      BY <2>1, <3>1, <3>4 DEF MInv
  <2>. QED
    BY <2>2, <2>3
<1>3. CASE Pass
  <2>1. pc = "pass" /\ UNCHANGED <<lines, outcome, n>>
    BY <1>3 DEF Pass
  <2>2. CASE Len(lines) >= 2
    <3>1. /\ pc' = "scan" /\ i' = 0 /\ chunk' = Max2(1, Len(lines) \div n)
      BY <1>3, <2>2 DEF Pass
    <3>2. Scanned'
      BY <1>0, <2>1, <2>2, <3>1 DEF Scanned
    <3>. QED
      BY <3>1, <3>2 DEF MInv
  <2>3. CASE ~(Len(lines) >= 2)
    <3>1. pc' = "fixpoint"
      BY <1>3, <2>3 DEF Pass
    <3>. QED
      BY <2>1, <2>3, <3>1 DEF MInv
  <2>. QED
    BY <2>2, <2>3
<1>4. CASE Scan
  <2> DEFINE candidate == Without(lines, i, chunk)
  <2>0. UNCHANGED <<prev, chunk>> /\ pc = "scan" /\ i \in Nat
    BY <1>0, <1>4 DEF Scan, TypeOK
  <2>1. CASE i < Len(lines) /\ candidate # <<>>
    <3>1. PICK o \in Outcomes :
             /\ Ask(candidate, o)
             /\ IF Interesting(o)
                THEN lines' = candidate /\ reduced' = TRUE /\ UNCHANGED i
                ELSE i' = i + chunk /\ UNCHANGED <<lines, reduced>>
      BY <1>0, <1>4, <2>1 DEF Scan, TypeOK
    <3>2. UNCHANGED <<pc, n>>
      BY <1>0, <1>4, <2>1 DEF Scan, TypeOK
    <3>3. ASSUME ~Flaky, ~reduced' PROVE Scanned'
      <4>1. ~Interesting(o) /\ i' = i + chunk /\ UNCHANGED <<lines, reduced>>
        BY <3>1, <3>3
      <4>2. Scanned
        BY <2>0, <3>3, <4>1 DEF MInv
      <4>3. /\ \A t : Rejected(t) => RejectedNow(t)
            /\ RejectedNow(candidate)
        BY <3>1, <3>3, <4>1, AskRejects
      <4>4. ASSUME chunk = 1, NEW k \in 0..(Len(lines) - 1), k < i + 1
            PROVE  Rejected(Without(lines, k, 1))'
        <5>1. CASE k = i
          BY <4>3, <4>4, <5>1, <2>0, <4>1 DEF Rejected, RejectedNow, Answered
        <5>2. CASE k < i
          <6>1. Rejected(Without(lines, k, 1))
            BY <4>2, <4>4, <5>2 DEF Scanned
          <6>. QED
            BY <4>3, <6>1, <4>1 DEF Rejected, RejectedNow, Answered
        <5>. QED
          BY <2>0, <4>4, <5>1, <5>2
      <4>. QED
        BY <2>0, <3>2, <4>1, <4>2, <4>4 DEF Scanned, Rejected, Answered
    <3>. QED
      BY <2>0, <3>2, <3>3 DEF MInv
  <2>2. CASE i < Len(lines) /\ candidate = <<>>
    <3>1. i' = i + chunk /\ UNCHANGED <<pc, n, lines, reduced, outcome>>
      BY <1>0, <1>4, <2>2 DEF Scan, TypeOK
    <3>2. ASSUME ~Flaky, ~reduced' PROVE Scanned'
      <4>1. Scanned
        BY <2>0, <3>1, <3>2 DEF MInv
      <4>2. chunk # 1
        BY <1>0, <2>0, <2>2, <4>1, WithoutLen DEF Scanned
      <4>. QED
        BY <2>0, <3>1, <4>1, <4>2 DEF Scanned
    <3>. QED
      BY <2>0, <3>1, <3>2 DEF MInv
  <2>3. CASE i >= Len(lines)
    <3>1. EndOfPass /\ UNCHANGED <<lines, i, reduced, outcome>>
      BY <1>0, <1>4, <2>3 DEF Scan, TypeOK
    <3>2. CASE pc' = "pass"
      BY <3>2 DEF MInv
    <3>3. CASE pc' = "fixpoint"
      <4>1. ~reduced /\ n >= Len(lines)
        BY <3>1, <3>3 DEF EndOfPass
      <4>2. ASSUME ~Flaky PROVE NoLine'
        <5>1. Scanned
          BY <2>0, <4>1, <4>2 DEF MInv
        <5>2. n \in Nat \ {0}
          BY <1>0 DEF TypeOK
        <5>3. Len(lines) \div n <= 1
          BY <1>0, <4>1, <5>2
        <5>4. chunk = 1
          BY <1>0, <5>1, <5>2, <5>3 DEF Scanned, Max2
        <5>. QED
          BY <1>0, <2>0, <2>3, <3>1, <5>1, <5>4 DEF Scanned, NoLine, Rejected, Answered
      <4>. QED
        BY <3>3, <4>2 DEF MInv
    <3>. QED
      BY <3>1, <3>2, <3>3 DEF EndOfPass
  <2>. QED
    BY <1>0, <2>1, <2>2, <2>3 DEF TypeOK
<1>5. CASE Trim
  <2>0. UNCHANGED <<lines, ti, outcome>> /\ pc = "trim"
    BY <1>5 DEF Trim
  <2>1. CASE ti < Len(lines)
    <3>1. lo' = 0 /\ hi' = lines[ti + 1].len /\ pc' = "search"
      BY <1>5, <2>1 DEF Trim
    <3>2. lines[ti + 1] \in Line
      BY <1>0, <2>1, ElementOfSeq DEF TypeOK
    <3>. QED
      BY <3>1, <3>2 DEF MInv, Line
  <2>2. CASE ~(ti < Len(lines))
    <3>1. pc' = "final"
      BY <1>5, <2>2 DEF Trim
    <3>. QED
      BY <3>1 DEF MInv
  <2>. QED
    BY <2>1, <2>2
<1>6. CASE Search
  <2> DEFINE mid == (lo + hi) \div 2
  <2>0. pc = "search" /\ lo <= hi /\ lo \in Nat /\ hi \in Nat
    BY <1>0, <1>6 DEF Search, MInv, TypeOK
  <2>1. ti + 1 \in 1..Len(lines) /\ ti \in Nat
    BY <1>0, <2>0 DEF IInv, TypeOK
  <2>2. CASE lo < hi
    <3>1. PICK o \in Outcomes :
             Ask(Cut(lines, ti, mid), o) /\ Narrow(mid, Interesting(o))
      BY <1>0, <1>6, <2>2 DEF Search, Searching, TypeOK
    <3>2. UNCHANGED <<pc, lines, ti>>
      BY <1>0, <1>6, <2>2 DEF Search, Searching, TypeOK
    <3>3. mid \in Nat /\ lo <= mid /\ mid < hi
      BY <2>0, <2>2
    <3>4. lo' <= hi'
      BY <2>0, <3>1, <3>3 DEF Narrow
    <3>5. ASSUME ~Flaky, lo' > 0 PROVE Rejected(Cut(lines, ti, lo - 1))'
      <4>1. CASE Interesting(o)
        <5>1. lo' = lo
          BY <3>1, <4>1 DEF Narrow
        <5>2. Rejected(Cut(lines, ti, lo - 1))
          BY <2>0, <3>5, <5>1 DEF MInv
        <5>3. Cut(lines, ti, lo - 1)' = Cut(lines, ti, lo - 1)
          BY <3>2, <5>1 DEF Cut
        <5>. QED
          BY <3>1, <3>5, <5>2, <5>3, AskRejects DEF Rejected, RejectedNow, Answered
      <4>2. CASE ~Interesting(o)
        <5>1. lo' = mid + 1 /\ lo' - 1 = mid
          BY <3>1, <3>3, <4>2 DEF Narrow
        <5>2. Cut(lines, ti, lo - 1)' = Cut(lines, ti, mid)
          BY <3>2, <5>1 DEF Cut
        <5>. QED
          BY <3>1, <3>5, <4>2, <5>2, AskRejects DEF Rejected, RejectedNow, Answered
      <4>. QED
        BY <4>1, <4>2
    <3>. QED
      BY <2>0, <3>2, <3>4, <3>5 DEF MInv
  <2>3. CASE ~(lo < hi)
    <3>1. /\ lines' = Cut(lines, ti, hi) /\ ti' = ti + 1 /\ pc' = "trim"
          /\ UNCHANGED <<lo, hi, outcome>>
      BY <1>0, <1>6, <2>3 DEF Search, Searching, TypeOK
    <3>2. lo = hi
      BY <2>0, <2>3
    <3>3. ASSUME ~Flaky, hi > 0 PROVE Rejected(Cut(lines, ti - 1, hi - 1))'
      <4>1. Rejected(Cut(lines, ti, hi - 1))
        BY <2>0, <3>2, <3>3 DEF MInv
      <4>2. ti' - 1 = ti
        BY <2>1, <3>1
      <4>3. Cut(lines, ti - 1, hi - 1)' = Cut(Cut(lines, ti, hi), ti, hi - 1)
        BY <3>1, <4>2 DEF Cut
      <4>4. Cut(lines, ti - 1, hi - 1)' = Cut(lines, ti, hi - 1)
        BY <1>0, <2>1, <4>3, CutCut
      <4>. QED
        BY <3>1, <4>1, <4>4 DEF Rejected, RejectedNow, Answered
    <3>. QED
      BY <2>1, <3>1, <3>3 DEF MInv
  <2>. QED
    BY <2>2, <2>3
<1>7. CASE Final
  <2>1. pc' \in {"done", "failed"}
    BY <1>7 DEF Final
  <2>. QED
    BY <2>1 DEF MInv
<1>8. CASE Terminated \/ UNCHANGED vars
  <2>1. UNCHANGED vars
    BY <1>8 DEF Terminated
  <2>. QED
    BY <2>1 DEF vars, MInv, NoLine, Scanned, Rejected, Answered, Cut, Without
<1>. QED
  BY <1>1, <1>2, <1>3, <1>4, <1>5, <1>6, <1>7, <1>8 DEF Next

(* For inputs of any size and every deterministic oracle: when the lines   *)
(* reach their fixpoint none of them can be dropped, and every line that   *)
(* was cut is cut where one character less was rejected.                   *)
THEOREM MinimalResult == Spec => []Minimal
<1>1. Init => MInv
  BY DEF Init, MInv
<1>2. IInv /\ MInv => Minimal
  <2> SUFFICES ASSUME IInv, MInv PROVE Minimal
    OBVIOUS
  <2>1. OneMinimal
    BY DEF MInv, OneMinimal, NoLine, Rejected
  <2>2. TightCut
    BY DEF MInv, TightCut, Rejected
  <2>. QED
    BY <2>1, <2>2 DEF Minimal
<1>. QED
  BY <1>1, <1>2, SpecIInv, NextMInv, PTL DEF Spec
=============================================================================
