----------------------------- MODULE MCRuntime -----------------------------
(***************************************************************************)
(* Instances for TLC of two parts of the runtime library: the tree of      *)
(* regions (Splay, on a small piece of memory) and the coverage file       *)
(* (Tcov, with processes that end at the same time).  part says which of   *)
(* them a behaviour exercises; the other one rests.                        *)
(***************************************************************************)
EXTENDS Splay, TLC

CONSTANTS Process, None, Programs, Sources, Counts, Chunk, MaxLinks, MaxKills

VARIABLES part, program, source, pc, fd, counted, out, link, disk, lock, total

Tc == INSTANCE Tcov
tcVars == <<program, source, pc, fd, counted, out, link, disk, lock, total>>

TreeRests == Init
TcovRests ==
  /\ program = <<>> /\ source = <<>> /\ pc = <<>> /\ fd = <<>> /\ counted = <<>>
  /\ out = <<>> /\ link = 0 /\ disk = <<>> /\ lock = <<>> /\ total = <<>>

MCInit ==
  \/ part = "tree" /\ Init /\ TcovRests
  \/ part = "tcov" /\ TreeRests /\ Tc!Init
MCNext ==
  \/ part = "tree" /\ Next /\ UNCHANGED <<part, tcVars>>
  \/ part = "tcov" /\ Tc!Next /\ UNCHANGED <<part, vars>>
MCSpec == MCInit /\ [][MCNext]_<<part, vars, tcVars>>


(* Of Tcov, the comment "merge with previous tcov file": what a process    *)
(* has run is not shown as never run.                                      *)
Merged == Tc!Merged

-----------------------------------------------------------------------------
MCSymmetry == Permutations(Process)

MCStack == {<<2, 4>>}

Line(fline, lline) == [fline |-> fline, lline |-> lline]
Fn(name, first, lines) == [function |-> name, first_line |-> first, line |-> lines]

(* The end of a for statement is recorded after its body, and an inline    *)
(* function after the others.                                              *)
ForLoop ==
  << [filename |-> "a", func |-> <<Fn("main", 2, <<Line(4, 4), Line(3, 4)>>)>>],
     [filename |-> "b", func |-> <<Fn("h", 1, <<Line(2, 2)>>)>>] >>
InlineFn ==
  << [filename |-> "b", func |-> <<Fn("main", 3, <<Line(4, 4)>>), Fn("inl", 1, <<Line(2, 3)>>)>>] >>

(* A static function of a header that two units include. *)
Header ==
  << [filename |-> "h", func |-> <<Fn("f", 1, <<Line(2, 2), Line(3, 3)>>)>>],
     [filename |-> "h", func |-> <<Fn("f", 1, <<Line(2, 2), Line(3, 3)>>)>>] >>

MCPrograms == {ForLoop, InlineFn}
MCHeader == {Header}

Length(a, b) == [x \in {"a", "b", "h"} |-> CASE x = "a" -> a [] x = "b" -> b [] x = "h" -> 4]
MCSources == {Length(5, 4), Length(5, 0)}
=============================================================================
