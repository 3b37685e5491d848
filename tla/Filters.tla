------------------------------- MODULE Filters -------------------------------
(***************************************************************************)
(* What cat, filter and wc (userlib_so.c) make of the bytes they read, one *)
(* at a time, until the end of the file.                                   *)
(*                                                                         *)
(* A character is "nl", "bs", "vowel" or any other.  The echo is left out, *)
(* and so are the characters around what cat writes at the end.            *)
(***************************************************************************)
EXTENDS Integers, SequencesExt

CONSTANT LINE_BUFFER  \* BUFFER_SIZE of userlib_so.h

ASSUME FiltersAssumption == LINE_BUFFER \in Nat \ {0, 1}

\* line_buffer[0 .. line_index-1] and the lines that have been written.
Start == [line |-> <<>>, out |-> <<>>]

\* One turn of the loop of cat_dummy() and filter_dummy(): a line that is too
\* long loses its end, and its new line.
Turn(s, c) ==
  LET line == IF Len(s.line) < LINE_BUFFER - 1 THEN Append(s.line, c) ELSE s.line
  IN CASE c = "bs" -> [s EXCEPT !.line = IF @ = <<>> THEN @ ELSE Front(@)]
       [] c = "nl" -> [line |-> <<>>, out |-> Append(s.out, line)]
       [] OTHER    -> [s EXCEPT !.line = line]

\* The lines that cat writes; at the end of the file, those that are not empty.
Cat(text) == LET s == FoldLeft(Turn, Start, text)
             IN IF s.line = <<>> THEN s.out ELSE Append(s.out, s.line)

Vowels(line) == SelectSeq(line, LAMBDA c : c = "vowel")
Filter(text) == LET lines == Cat(text) IN [i \in DOMAIN lines |-> Vowels(lines[i])]

\* The lines that wc counts.
Wc(text) == FoldLeft(LAMBDA n, c : IF c = "nl" THEN n + 1 ELSE n, 1, text)

-----------------------------------------------------------------------------
(* What they are for.                                                      *)

Count(text, i, j, S) == Cardinality({k \in i .. j : text[k] \in S})

\* The end of the line that place i of a text is on: its new line, if it has one.
LineEnd(text, i) ==
  Min({j \in i .. Len(text) : text[j] = "nl"} \cup {Len(text)})

\* Places of a text, in their order.
InOrder(text, S) == SelectSeq([i \in DOMAIN text |-> i], LAMBDA i : i \in S)

\* A character stays when no backspace of its line is there for it.
Stays(text, i) ==
  /\ text[i] # "bs"
  /\ \A j \in i .. LineEnd(text, i) :
       text[j] = "bs" => Count(text, i, j, {"bs"}) < Count(text, i, j, {"vowel", "other"})

\* What stays of the line that starts at place i.
Edited(text, i) ==
  LET at == InOrder(text, {j \in i .. LineEnd(text, i) : Stays(text, j)})
  IN [n \in DOMAIN at |-> text[at[n]]]

Starts(text) == {i \in DOMAIN text : i = 1 \/ text[i - 1] = "nl"}

\* The lines of a text, edited; one that has been erased altogether and has no
\* end is none.
LinesOf(text) ==
  LET at == InOrder(text, {i \in Starts(text) : Edited(text, i) # <<>>})
  IN [n \in DOMAIN at |-> Edited(text, at[n])]

\* No line is ever longer than the buffer while it is typed.
Fits(text) ==
  \A i \in Starts(text), j \in DOMAIN text :
    i <= j /\ j <= LineEnd(text, i) => j - i + 1 < LINE_BUFFER

\* Lines that fit are written as they were edited, or their vowels; of a longer
\* one no more than the buffer holds; and wc counts every line.
FiltersAgree(text) ==
  /\ Fits(text) =>
       /\ Cat(text) = LinesOf(text)
       /\ Len(Filter(text)) = Len(LinesOf(text))
       /\ \A i \in DOMAIN LinesOf(text) :
            Filter(text)[i] = SelectSeq(LinesOf(text)[i], LAMBDA c : c = "vowel")
  /\ \A line \in ToSet(Cat(text)) : Len(line) < LINE_BUFFER
  /\ Wc(text) = 1 + Count(text, 1, Len(text), {"nl"})
=============================================================================
