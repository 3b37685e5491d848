------------------------------- MODULE Library -------------------------------
(***************************************************************************)
(* The pure functions that commands and system calls rest on: numbers to   *)
(* and from text (userlib.c, lib_math.c, test_util.c) and the wall clock   *)
(* (Kernel/time.c).                                                        *)
(*                                                                         *)
(* A text is a sequence of digits 0 .. 15, Minus, and Letter for any other *)
(* character.  An int has INT_BITS bits, two's complement.                 *)
(***************************************************************************)
EXTENDS Integers, SequencesExt

CONSTANT INT_BITS

ASSUME LibraryAssumption == INT_BITS \in Nat \ {0}

Minus == -1
Letter == -2
ERROR == 2^INT_BITS  \* no int: the process writes a message and exits

UINT_MAX == 2^INT_BITS - 1
INT_MAX == 2^(INT_BITS - 1) - 1
Unsigned(i) == i % 2^INT_BITS
Signed(u) == LET v == u % 2^INT_BITS IN IF v > INT_MAX THEN v - 2^INT_BITS ELSE v

-----------------------------------------------------------------------------
(* Numbers as text.                                                        *)

\* The do-while of uintToBase() and int_to_char(): the lowest digit first.
LowFirst[base \in Nat, v \in Nat] ==
  IF v \div base = 0 THEN <<v % base>>
  ELSE <<v % base>> \o LowFirst[base, v \div base]

\* Mutant: the digits are not turned around.
UintToBase_LowFirst(value, base) == LowFirst[base, value]

UintToBase(value, base) == Reverse(LowFirst[base, value])

\* For values above the least int, whose opposite is no int.
IntToChar(value) ==
  LET abs == IF value < 0 THEN -value ELSE value
      tmp == LowFirst[10, abs]
  IN Reverse(IF value < 0 THEN Append(tmp, Minus) ELSE tmp)

\* One turn of char_to_int(): the unsigned comparison keeps result * 10 + digit
\* within 32 bits, of which the int takes all.
NextDigit(result, c) ==
  IF result = ERROR \/ c \notin 0 .. 9 THEN ERROR
  ELSE IF Unsigned(result) > (UINT_MAX - c) \div 10 THEN ERROR
  ELSE Signed(Unsigned(result) * 10 + c)

CharToInt(str) == IF str = <<>> THEN ERROR ELSE FoldLeft(NextDigit, 0, str)

\* satoi() of the tests, in 64 bits: 0 stands for an error.
Satoi(str) ==
  LET neg    == str # <<>> /\ str[1] = Minus
      digits == IF neg THEN Tail(str) ELSE str
      value  == FoldLeft(LAMBDA r, c : r * 10 + c, 0, digits)
  IN IF \E i \in DOMAIN digits : digits[i] \notin 0 .. 9 THEN 0
     ELSE IF neg THEN -value ELSE value

-----------------------------------------------------------------------------
(* The clock.  The registers of the clock chip hold UTC, in binary or BCD, *)
(* with 24 hours a day (the 12-hour format is left out).                   *)

FromBCD(r) == (r % 16) + (r \div 16) * 10

\* formatTime(), of the hour register: Argentina is three hours behind.
FormatHour(reg, bcd) == LET h == IF bcd THEN FromBCD(reg) ELSE reg
                        IN IF h >= 3 THEN h - 3 ELSE h + 21

LastDay(month, year) ==
  IF month = 2
  THEN IF year % 4 = 0 \/ year % 100 # 0 \/ year % 400 = 0 THEN 29 ELSE 28
  ELSE IF (month % 2 = 0 /\ month < 8) \/ (month % 2 = 1 /\ month > 8) THEN 30 ELSE 31

\* Mutant: the year stays when New Year's Day becomes the last of December.
DayBefore_KeepsYear(d) ==
  IF d.day > 1 THEN [d EXCEPT !.day = @ - 1, !.weekday = ((@ + 5) % 7) + 1]
  ELSE LET month == IF d.month = 1 THEN 12 ELSE d.month - 1
       IN [day |-> LastDay(month, d.year), month |-> month, year |-> d.year,
           weekday |-> ((d.weekday + 5) % 7) + 1]

\* The correction of formatDate().
DayBefore(d) ==
  IF d.day > 1 THEN [d EXCEPT !.day = @ - 1, !.weekday = ((@ + 5) % 7) + 1]
  ELSE LET month == IF d.month = 1 THEN 12 ELSE d.month - 1
           year  == IF d.month = 1 THEN d.year - 1 ELSE d.year
       IN [day |-> LastDay(month, year), month |-> month, year |-> year,
           weekday |-> ((d.weekday + 5) % 7) + 1]

\* formatDate(), of registers in the format bcd; hour is left as it is read.
FormatDate(reg, hour, bcd) ==
  LET d == [day     |-> IF bcd THEN FromBCD(reg.day) ELSE reg.day,
            month   |-> IF bcd THEN FromBCD(reg.month) ELSE reg.month,
            year    |-> 2000 + (IF bcd THEN FromBCD(reg.year) ELSE reg.year),
            weekday |-> reg.weekday]
  IN IF hour < 3 THEN DayBefore(d) ELSE d

\* sleep(sec, uni) goes on after d ticks; 18 of them are taken for a second.
Pow(base, exponent) == base^exponent
StillSleeps(d, sec, uni) == (d * Pow(1000, uni)) \div 18 < sec

-----------------------------------------------------------------------------
(* What they are for.                                                      *)

Value(digits, base) == FoldLeft(LAMBDA r, c : base * r + c, 0, digits)

\* A number is written without leading zeros; the commands read it back as it
\* was, modulo the size of an int, unless it does not fit in 32 bits; the tests
\* read any.
ReadsBack(v) ==
  /\ \A base \in {2, 10, 16} :
       LET t == UintToBase(v, base)
       IN Value(t, base) = v /\ (Len(t) > 1 => t[1] # 0)
  /\ CharToInt(UintToBase(v, 10)) = IF v > UINT_MAX THEN ERROR ELSE Signed(v)
  /\ v <= INT_MAX => \A i \in {v, -v} : Satoi(IntToChar(i)) = i

\* A sleep lasts the time asked for, to the tick.
SleepsLongEnough(n) ==
  \A uni \in {0, 1}, d \in 0 .. 18 * n : StillSleeps(d, n, uni) <=> d * 1000^uni < 18 * n

\* The calendar, and the registers of the clock chip at a time t of it.
MonthDays(m, y) ==
  CASE m = 2 -> IF y % 4 = 0 /\ (y % 100 # 0 \/ y % 400 = 0) THEN 29 ELSE 28
    [] m \in {4, 6, 9, 11} -> 30
    [] OTHER -> 31

NextHour(t) ==
  CASE t.hour < 23 -> [t EXCEPT !.hour = @ + 1]
    [] t.hour = 23 /\ t.day < MonthDays(t.month, t.year) ->
         [t EXCEPT !.hour = 0, !.weekday = (@ % 7) + 1, !.day = @ + 1]
    [] OTHER ->
         [t EXCEPT !.hour = 0, !.weekday = (@ % 7) + 1, !.day = 1,
                   !.month = (@ % 12) + 1, !.year = IF t.month = 12 THEN @ + 1 ELSE @]

Register(v, bcd) == IF bcd THEN (v \div 10) * 16 + (v % 10) ELSE v
Registers(t, bcd) == [day |-> Register(t.day, bcd), month |-> Register(t.month, bcd),
                      year |-> Register(t.year - 2000, bcd), weekday |-> t.weekday]

\* What the clock is taken to say at the time utc is the time there.
ClockSays(utc, there) ==
  \A bcd \in BOOLEAN :
    LET hour == Register(utc.hour, bcd)
        date == FormatDate(Registers(utc, bcd), hour, bcd)
    IN /\ FormatHour(hour, bcd) = there.hour
       /\ \A f \in {"day", "month", "year", "weekday"} : date[f] = there[f]

=============================================================================
