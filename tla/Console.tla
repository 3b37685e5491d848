------------------------------- MODULE Console -------------------------------
(***************************************************************************)
(* The screen: the text cursor of the video driver (video_drivre.c) and    *)
(* the copy of the text that write_out() of the shell keeps so that it can *)
(* scroll (screen_buffer, cursor_x, cursor_y, limit_index of shell.c).     *)
(*                                                                         *)
(* A character is "nl" (new line), "bs" (backspace) or any other.  Of a    *)
(* row of screen_buffer only the places of its NUL bytes matter: printing  *)
(* it stops at the first.                                                  *)
(* Sizes are in characters, for the one font size in use.                  *)
(***************************************************************************)
EXTENDS Integers, SequencesExt

CONSTANTS VERT_SIZE,     \* rows of screen_buffer and of the screen
          LINE_SIZE,     \* characters in a row of screen_buffer
          SCREEN_WIDTH   \* characters in a row of the screen

ASSUME ConsoleAssumption == /\ VERT_SIZE \in Nat \ {0, 1}
                            /\ LINE_SIZE \in Nat \ {0, 1} /\ SCREEN_WIDTH >= LINE_SIZE

VARIABLE con  \* see ConsoleType

Rows == 0 .. VERT_SIZE - 1
Columns == 0 .. LINE_SIZE - 1

\* reprinted is history: some characters were on the screen already, because
\* write_out() had scrolled past them, when it printed the whole string.
ConsoleType == [cursor_x : Columns, cursor_y : Rows, limit_index : Rows,
                nulls : [Rows -> SUBSET Columns],
                x : 0 .. SCREEN_WIDTH - 1, y : Int, reprinted : BOOLEAN]

-----------------------------------------------------------------------------
(* The driver.                                                             *)

NewLine(c) == [c EXCEPT !.x = 0, !.y = @ + 1]
Advance(c) == IF c.x + 1 >= SCREEN_WIDTH THEN NewLine(c) ELSE [c EXCEPT !.x = @ + 1]
RepoCursor(c) == IF c.x = 0 THEN [c EXCEPT !.x = SCREEN_WIDTH - 1, !.y = @ - 1]
                 ELSE [c EXCEPT !.x = @ - 1]

ProcessInput(c, char) == CASE char = "nl" -> NewLine(c)
                           [] char = "bs" -> RepoCursor(Advance(RepoCursor(c)))
                           [] OTHER       -> Advance(c)

PrintCant(c, string) == FoldLeft(ProcessInput, c, string)
Clear(c) == [c EXCEPT !.x = 0, !.y = 0]

-----------------------------------------------------------------------------
(* write_out()                                                             *)

\* The characters of a row, whichever they are.
RowText(c, r) == [i \in 1 .. Min(c.nulls[r]) |-> "c"]

\* shift(): the rows after the oldest one are printed on a clear screen.
Shift(c) ==
  LET print(d, i) ==
        LET row == PrintCant(d, RowText(d, (i + c.limit_index + 1) % VERT_SIZE))
        IN IF i = VERT_SIZE - 1 THEN row ELSE PrintCant(row, <<"nl">>)
  IN FoldLeft(print, Clear(c), [i \in 1 .. VERT_SIZE - 1 |-> i])

\* Mutant: the row at which to scroll stays where it was.
CheckShift_KeepsLimit(c, begun) ==
  LET s == IF c.cursor_y # c.limit_index THEN c
           ELSE [Shift(c) EXCEPT !.reprinted = @ \/ begun]
  IN [s EXCEPT !.cursor_y = (@ + 1) % VERT_SIZE, !.cursor_x = 0]

\* check_shift() and cursor_x = 0; begun: within a string.
CheckShift(c, begun) ==
  LET s == IF c.cursor_y # c.limit_index THEN c
           ELSE [Shift(c) EXCEPT !.reprinted = @ \/ begun,
                                 !.limit_index = (@ + 1) % VERT_SIZE]
  IN [s EXCEPT !.cursor_y = (@ + 1) % VERT_SIZE, !.cursor_x = 0]

Store(c) == [c EXCEPT !.nulls[c.cursor_y] = @ \ {c.cursor_x}, !.cursor_x = @ + 1]

\* A full row is left before a character, which goes to the next one.
Copy(c, char, begun) ==
  CASE char = "nl" ->
         CheckShift([c EXCEPT !.nulls[c.cursor_y] = @ \cup {c.cursor_x}], begun)
    [] char # "nl" /\ c.cursor_x = LINE_SIZE - 1 -> Store(CheckShift(c, begun))
    [] OTHER -> Store(c)

WriteOut(c, string) ==
  PrintCant(FoldLeftDomain(LAMBDA d, i : Copy(d, string[i], i > 1), c, string), string)

-----------------------------------------------------------------------------
(* What else moves the cursors.                                            *)

\* A backspace in process_key(): the row is not changed.
Backspace(c) ==
  PrintCant([c EXCEPT !.cursor_x = (@ + LINE_SIZE - 1) % LINE_SIZE], <<"bs">>)

\* comando_clean().
CleanScreen(c) == [Clear(c) EXCEPT !.cursor_x = 0, !.cursor_y = 0,
                                   !.limit_index = VERT_SIZE - 1, !.reprinted = FALSE]

ConsoleStart == [cursor_x |-> 0, cursor_y |-> 0, limit_index |-> VERT_SIZE - 1,
                 nulls |-> [r \in Rows |-> Columns], x |-> 0, y |-> 0,
                 reprinted |-> FALSE]

\* The row of the screen that write_out() takes to be the one it writes in.
CopyRow(c) == VERT_SIZE - 1 - ((c.limit_index + VERT_SIZE - c.cursor_y) % VERT_SIZE)

=============================================================================
