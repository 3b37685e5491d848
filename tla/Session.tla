------------------------------- MODULE Session -------------------------------
(***************************************************************************)
(* A session at the shell, as text: the keys edited into command_buffer,   *)
(* the line parsed into what the kernel is asked for, and what the shell   *)
(* and the command in the foreground write on the screen.                  *)
(*                                                                         *)
(* Keys are the characters of Keys, " ", "&" and "|" among them, with "nl" *)
(* and "bs".  Commands that run in the background are created and write    *)
(* nothing here: the shell is then not the only one to call write_out().   *)
(***************************************************************************)
EXTENDS Console, Listing, Filters

CONSTANTS Keys,         \* characters of the keyboard but Enter and Backspace
          Commands,     \* words of commands[] but exit
          ExitCommand,
          Texts,        \* strings that commands write
          BUFFER_SIZE,
          MAX_ARGS,
          MaxKeys,      \* bound: keys pressed
          OffHours      \* bound: hours before the machine is switched on

ASSUME SessionAssumption == BUFFER_SIZE \in Nat \ {0} /\ MAX_ARGS \in Nat \ {0, 1}

VARIABLES command_buffer,  \* command_buffer[0 .. command_cursor-1]
          line,            \* the line entered, until the next key
          request,         \* what process_command() made of it: see Parse
          pc,              \* "off", "prompt", "runs" a command in the foreground, "bye"
          keys,            \* how many keys so far
          utc, there,      \* the time in Greenwich and in Argentina
          hours            \* for how many hours the machine has been off

shellVars == <<con, command_buffer, line, request, pc, keys>>
clockVars == <<utc, there, hours>>
sessionVars == <<shellVars, clockVars>>

PROMPT_START == <<"star">>
ERROR_PROMPT == <<"c", ":", " ">>
Message == <<"c", "nl">>  \* the poem, or that the pipe is not valid

-----------------------------------------------------------------------------
(* Parsing.                                                                *)

Holds(str, c) == \E i \in DOMAIN str : str[i] = c
Before(str, c) == IF Holds(str, c) THEN SubSeq(str, 1, SelectInSeq(str, LAMBDA x : x = c) - 1)
                  ELSE str
After(str, c) == IF Holds(str, c)
                 THEN SubSeq(str, SelectInSeq(str, LAMBDA x : x = c) + 1, Len(str))
                 ELSE <<>>

\* What separates words for remove_extra_spaces(); Enter never gets into a line.
Space == {" ", "tab"}

\* Mutant: the spaces before the first word stay.
RemoveExtraSpaces_Leading(str) ==
  LET next(s, c) == IF c \notin Space THEN Append(s, c)
                    ELSE IF s # <<>> /\ Last(s) = " " THEN s ELSE Append(s, " ")
      out == FoldLeft(next, <<>>, str)
  IN IF out # <<>> /\ Last(out) = " " THEN Front(out) ELSE out

RemoveExtraSpaces(str) ==
  LET next(s, c) == IF c \notin Space THEN Append(s, c)
                    ELSE IF s = <<>> \/ Last(s) = " " THEN s ELSE Append(s, " ")
      out == FoldLeft(next, <<>>, str)
  IN IF out # <<>> /\ Last(out) = " " THEN Front(out) ELSE out

\* The loop of parse_arguments() with room for n more: the last one to fit is
\* not split any further.
RECURSIVE Split(_, _)
Split(str, n) ==
  IF n = 1 \/ ~Holds(str, " ") THEN <<str>>
  ELSE <<Before(str, " ")>> \o Split(After(str, " "), n - 1)

ParseArguments(str) == IF str = <<>> THEN <<>> ELSE Split(str, MAX_ARGS - 1)

Command(str) == LET s == RemoveExtraSpaces(str)
                IN [name |-> Before(s, " "), argv |-> ParseArguments(After(s, " "))]

FindCommandRip(name) == CASE name \in Commands   -> "rip"
                          [] name = ExitCommand  -> "exit"
                          [] OTHER               -> "none"

\* What is asked for: nothing ("empty", "unknown", "poem", "invalid pipe"), the
\* end of the shell, or one process or two that a pipe connects.
Parse(buffer) ==
  LET fg == ~Holds(buffer, "&")
      b  == Before(buffer, "&")
  IN IF Holds(b, "|")
     THEN LET cmds == <<Command(Before(b, "|")), Command(After(b, "|"))>>
          IN [kind |-> IF \E i \in 1 .. 2 : FindCommandRip(cmds[i].name) = "none"
                       THEN "invalid pipe" ELSE "pipe",
              foreground |-> fg, commands |-> cmds]
     ELSE LET cmd == Command(b)
              rip == FindCommandRip(cmd.name)
          IN [kind |-> CASE cmd.name = <<>> -> "empty"
                         [] cmd.name # <<>> /\ rip = "none" ->
                              IF Len(cmd.name) + 1 = BUFFER_SIZE THEN "poem" ELSE "unknown"
                         [] rip = "exit" -> "exit"
                         [] rip = "rip" -> "process",
              foreground |-> fg \/ (cmd.name # <<>> /\ rip = "none"),
              commands |-> <<cmd>>]

-----------------------------------------------------------------------------
(* process_key()                                                           *)

Presses == pc = "prompt" /\ keys < MaxKeys /\ keys' = keys + 1 /\ UNCHANGED clockVars

TypesKey(c) ==
  /\ Presses
  /\ IF Len(command_buffer) = BUFFER_SIZE - 1 THEN UNCHANGED <<command_buffer, con>>
     ELSE /\ command_buffer' = Append(command_buffer, c)
          /\ con' = WriteOut(con, <<c>>)
  /\ line' = <<>> /\ request' = Parse(<<>>) /\ UNCHANGED pc

Erases ==
  /\ Presses
  /\ IF command_buffer = <<>> THEN UNCHANGED <<command_buffer, con>>
     ELSE /\ command_buffer' = Front(command_buffer)
          /\ con' = Backspace(con)
  /\ line' = <<>> /\ request' = Parse(<<>>) /\ UNCHANGED pc

\* What the shell itself writes before the next prompt.
Answer(c, r) ==
  CASE r.kind = "unknown" ->
         LET d == WriteOut([c EXCEPT !.cursor_x = 0], ERROR_PROMPT)
         IN WriteOut(WriteOut(d, r.commands[1].name), <<"nl">>)
    [] r.kind \in {"poem", "invalid pipe"} -> WriteOut(c, Message)
    [] OTHER -> c

\* Enter: a process in the foreground is waited for, and so are two with a pipe
\* between them; without any the prompt is back at once.
Enters ==
  /\ Presses
  /\ command_buffer' = <<>>
  /\ line' = command_buffer
  /\ request' = Parse(command_buffer)
  /\ LET c == Answer(WriteOut(con, <<"nl">>), request') IN
       CASE request'.kind = "exit" -> pc' = "bye" /\ con' = c
         [] request'.kind \in {"process", "pipe"} /\ request'.foreground ->
              pc' = "runs" /\ con' = c
         [] OTHER -> pc' = "prompt" /\ con' = WriteOut(c, PROMPT_START)

-----------------------------------------------------------------------------
(* The command in the foreground.                                          *)

CommandWrites(text) ==
  /\ pc = "runs"
  /\ con' = WriteOut(con, text)
  /\ UNCHANGED <<command_buffer, line, request, pc, keys, clockVars>>

CommandCleans ==
  /\ pc = "runs"
  /\ con' = CleanScreen(con)
  /\ UNCHANGED <<command_buffer, line, request, pc, keys, clockVars>>

CommandEnds ==
  /\ pc = "runs"
  /\ pc' = "prompt"
  /\ con' = WriteOut(con, PROMPT_START)
  /\ UNCHANGED <<command_buffer, line, request, keys, clockVars>>

-----------------------------------------------------------------------------
(* The clock goes on while the machine is off.  Nothing in a session       *)
(* depends on the hour, so one hour at which it begins is enough.          *)

\* 30 December 2023, a Saturday, at midnight.
FirstHour == [hour |-> 0, day |-> 30, month |-> 12, year |-> 2023, weekday |-> 7]
FirstHourThere == [hour |-> 21, day |-> 29, month |-> 12, year |-> 2023, weekday |-> 6]

HourPasses ==
  /\ pc = "off" /\ hours < OffHours
  /\ utc' = NextHour(utc) /\ there' = NextHour(there) /\ hours' = hours + 1
  /\ UNCHANGED shellVars

\* shell()
SwitchOn ==
  /\ pc = "off" /\ hours = 0
  /\ pc' = "prompt"
  /\ con' = WriteOut(ConsoleStart, PROMPT_START)
  /\ UNCHANGED <<command_buffer, line, request, keys, clockVars>>

SessionInit ==
  /\ con = ConsoleStart
  /\ command_buffer = <<>> /\ line = <<>> /\ request = Parse(<<>>)
  /\ pc = "off" /\ keys = 0
  /\ utc = FirstHour /\ there = FirstHourThere /\ hours = 0

SessionNext ==
  \/ HourPasses \/ SwitchOn
  \/ \E c \in Keys : TypesKey(c)
  \/ Erases \/ Enters
  \/ \E text \in Texts : CommandWrites(text)
  \/ CommandCleans \/ CommandEnds

SessionSpec == SessionInit /\ [][SessionNext]_sessionVars

-----------------------------------------------------------------------------

\* The words of a text and the order they come in, by where they begin.
WordsOf(str) ==
  LET word(i) == {j \in i .. Len(str) : \A k \in i .. j : str[k] \notin Space}
      starts  == {i \in DOMAIN str : str[i] \notin Space /\ (i = 1 \/ str[i - 1] \in Space)}
      at      == SetToSortSeq(starts, <)
  IN [n \in DOMAIN at |-> SubSeq(str, at[n], Max(word(at[n])))]

\* The kernel is asked for what the line says: the commands are the first words
\* on either side of the pipe, the arguments the other words, in their order and
\* with nothing of what is behind "&", whatever the spaces; only a line with
\* commands that exist asks for processes, and it asks for as many as it names.
\* On either side of a pipe exit counts as such a command, as it does in the
\* code, which then asks for a process at the address (void*)-1.
RequestIsTheLine ==
  LET said  == Before(line, "&")
      sides == IF Holds(said, "|") THEN <<Before(said, "|"), After(said, "|")>>
               ELSE <<said>>
  IN /\ Len(request.commands) = Len(sides)
     /\ \A i \in DOMAIN sides :
          LET words == WordsOf(sides[i]) IN
            Len(words) <= MAX_ARGS =>
              <<request.commands[i].name>> \o request.commands[i].argv
                = IF words = <<>> THEN <<words>> ELSE words
     /\ request.kind \in {"process", "pipe"} =>
          /\ request.foreground = ~Holds(line, "&")
          /\ \A i \in DOMAIN sides :
               WordsOf(sides[i])[1] \in Commands \cup (IF Len(sides) = 2 THEN {ExitCommand} ELSE {})

\* Text stays on the screen, and no lower than where the shell takes it to be,
\* however keys, messages and commands come, as long as no string longer than
\* a character has made the screen scroll; clean puts it right again.
TextStaysOnScreen ==
  ~con.reprinted => con \in ConsoleType /\ con.y \in 0 .. CopyRow(con)

\* A text of four characters, as different as the numbers are.
TextOf(n) == LET t == UintToBase(n, 4)
             IN [i \in DOMAIN t |-> <<"nl", "vowel", "other", "bs">>[t[i] + 1]]

\* A name for a pipe, as long as the fields admit or by one character longer, and
\* what was in the fields before; a table with processes in all states.
PipeName(n) == Many("pipe", MAX_NAME_LENGTH - 14) \o TextOf(n)
OldPipe == [a \in -2 .. IN_USE + 3 |-> "?"]

TableOf(n) ==
  [i \in {n % MAX_PCS, (n + 1) % MAX_PCS, (7 * n) % MAX_PCS} |->
     [name |-> TextOf(n) \o TextOf(i), PID |-> i,
      parent_pid |-> ((i + n) % (MAX_PCS + 1)) - 1,
      state |-> <<"READY", "RUNNING", "BLOCKED", "ZOMBIE">>[((i + n) % 4) + 1],
      rsp |-> 6291456 + 4096 * n + 8 * i, my_prio |-> (i + n) % 6,
      child_amount |-> (n + i) % (MAX_PCS + 1),
      file_descriptors |-> [fd \in 0 .. 2 |-> IF fd = 0 THEN n % 2 ELSE fd]]]

\* What the commands and the system calls take from the libraries is right: text
\* becomes the number it says and numbers the text that says them, a sleep lasts
\* its ticks, cat, filter and wc write what was typed, the semaphores of pipes
\* have the names they should, ps says what is in the process table, and the
\* clock says what time it is in Argentina at every hour over New Year, the ends
\* of months and a leap day.  (On 1 March of a common year it does not: LastDay()
\* takes every year for a leap year.)
LibraryAgrees == /\ ReadsBack(hours)
                 /\ SleepsLongEnough(hours % 10)
                 /\ FiltersAgree(TextOf(hours) \o TextOf(hours))
                 /\ ClockSays(utc, there)
                 /\ pc = "off" => /\ NamesAgree(OldPipe, PipeName(hours), PipeName(hours + 1))
                                  /\ ListingAgrees(TableOf(hours))
                                  /\ hours = 0 => AnonNamesAgree(0 .. 15)

-----------------------------------------------------------------------------
(* Values for TLC: one command of a letter, exit, and strings that fill a  *)
(* row, end it, and do both.                                               *)

CommandWords == {<<"n">>}
ExitWord == <<"n", "n">>
SmallTexts == {<<"c">>, <<"nl">>, <<"c", "c", "c", "c", "nl">>}

=============================================================================
