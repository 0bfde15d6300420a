------------------------------ MODULE MCBcheck ------------------------------
(* Two threads of which one uses the heap and the other the stack. *)
EXTENDS Bcheck

MCBlock == {1, 4}
MCTop == [t1 |-> 40, t2 |-> 80]
MCThread == {"t1", "t2"}
Mixed == [t1 |-> {"malloc", "realloc", "free", "off"},
          t2 |-> {"call", "alloca", "jump", "fork"}]
HeapOnly == [t1 |-> {"malloc", "free", "realloc"}, t2 |-> {"malloc", "free"}]
=============================================================================
