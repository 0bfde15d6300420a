------------------------------ MODULE MCScripts ------------------------------
(***************************************************************************)
(* Instances for TLC of the two modules about the scripts around the       *)
(* compiler: the search for the commit with the fix (Bisect) and the       *)
(* reproduction matrix (Matrix).  A behaviour is one of the former or one  *)
(* of the latter; the other component rests.                               *)
(***************************************************************************)
EXTENDS Bisect, Matrix

BisectRests ==
  /\ fixedAt = N /\ builds = {} /\ name = [n \in Commit |-> CHOOSE a \in Names : TRUE]
  /\ lo = 1 /\ hi = N /\ skipped = {} /\ head = N
  /\ archive = [a \in Names |-> 0] /\ linked = 0 /\ right = {} /\ rc = 0 /\ pc = "done"
MatrixRests ==
  /\ ci = FALSE /\ src = "buggy" /\ build = Nothing /\ cache = Nothing
  /\ phase = "rest" /\ at = 1 /\ FAILED = 0 /\ info = "none" /\ stops = 0 /\ pushes = 0

MCInit == (Init /\ MatrixRests) \/ (MatrixInit /\ BisectRests)
MCNext == (Next /\ UNCHANGED matrixVars) \/ (MatrixNext /\ UNCHANGED vars)
MCSpec == MCInit /\ [][MCNext]_<<vars, matrixVars>> /\ WF_vars(Next)
=============================================================================
