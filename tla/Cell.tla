-------------------------------- MODULE Cell ---------------------------------
(***************************************************************************)
(* What the command mvar promises: a variable that is empty or holds one   *)
(* value.  A writer fills it when it is empty, and every value it holds is *)
(* read once.                                                              *)
(***************************************************************************)
EXTENDS Sequences

CONSTANT Values

VARIABLES cell,  \* <<>>, or <<v>>
          last   \* the value that was read last

Init == cell = <<>> /\ last \notin Values

Put(v) == cell = <<>> /\ cell' = <<v>> /\ UNCHANGED last

Take == cell # <<>> /\ cell' = <<>> /\ last' = Head(cell)

Next == Take \/ \E v \in Values : Put(v)

Spec == Init /\ [][Next]_<<cell, last>>
=============================================================================
