--------------------------------- MODULE Heap ---------------------------------
(***************************************************************************)
(* What alloc() and free() promise to those who call them: a block handed  *)
(* out lies in the heap and touches no other block that is handed out, it  *)
(* stays as it is until it is given back, and giving a block back takes    *)
(* back that block alone.                                                  *)
(***************************************************************************)
EXTENDS Integers

CONSTANT Bytes  \* of the heap

VARIABLE given  \* the blocks handed out: records [at, size]

Span(b) == b.at .. b.at + b.size - 1
Apart(b, c) == Span(b) \cap Span(c) = {}

Init == given = {}

Give == \E b \in given' \ given :
          /\ Span(b) # {} /\ Span(b) \subseteq Bytes
          /\ \A c \in given : Apart(b, c)
          /\ given' = given \cup {b}

TakeBack == \E b \in given : given' = given \ {b}

Spec == Init /\ [][Give \/ TakeBack]_given
=============================================================================
