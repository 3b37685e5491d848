---------------------------- MODULE TerminalProofs ----------------------------
(***************************************************************************)
(* That the readers of standard input get the characters that were typed,  *)
(* once and in order, for a ring of any size, any number of readers, and   *)
(* whoever of them is killed, blocked or unblocked.                        *)
(*                                                                         *)
(* The invariant says where in the ring each unread character is, counted  *)
(* from the index that is read next, so that no index has to be compared   *)
(* with one that has gone round more often.                                *)
(*                                                                         *)
(* And that no reader sleeps on a character that is there: an account of   *)
(* the tokens of sem_stdin, kept over the scheduler and the relations of   *)
(* the processes, as long as the shell lives.                              *)
(***************************************************************************)
EXTENDS Terminal, ShellProofs, SequenceTheorems

KeyClasses == {"char", "enter", "eof"}

\* The j-th place of the ring from place r on.
Place(r, j) == IF r + j < KEY_BUF_SIZE THEN r + j ELSE r + j - KEY_BUF_SIZE

\* b holds, from place r on, the numbers of u characters after the g-th.
Holds(b, r, g, u) == \A j \in 0 .. u - 1 : b[Place(r, j)] = g + j + 1

\* What holds as long as the ring has not been overrun.
Ordered ==
  /\ typed \in Seq(KeyClasses) /\ got \in Seq(Nat)
  /\ ascii_buf \in [0 .. KEY_BUF_SIZE - 1 -> Nat]
  /\ ascii_read_index \in 0 .. KEY_BUF_SIZE - 1
  /\ Unread \in 0 .. KEY_BUF_SIZE
  /\ ascii_insert_index = Place(ascii_read_index, Unread)
  /\ ascii_to_read <=> Unread # 0
  /\ Holds(ascii_buf, ascii_read_index, Len(got), Unread)
  /\ \A i \in 1 .. Len(got) : got[i] = i

RingInv == overrun \/ Ordered

LEMMA RingSize == KEY_BUF_SIZE \in Nat /\ KEY_BUF_SIZE > 0
BY TerminalAssumption

LEMMA PlaceFacts ==
  ASSUME NEW r \in 0 .. KEY_BUF_SIZE - 1
  PROVE  /\ (r + 1) % KEY_BUF_SIZE \in 0 .. KEY_BUF_SIZE - 1
         /\ (r + 1) % KEY_BUF_SIZE = Place(r, 1)
         /\ Place(r, 0) = r
         /\ \A j \in 0 .. KEY_BUF_SIZE :
              /\ Place(r, j) \in 0 .. KEY_BUF_SIZE - 1
              /\ j < KEY_BUF_SIZE => Place(Place(r, j), 1) = Place(r, j + 1)
              /\ j < KEY_BUF_SIZE => Place(Place(r, 1), j) = Place(r, j + 1)
              /\ j < KEY_BUF_SIZE /\ Place(r, j) = r => j = 0
         /\ \A i, j \in 0 .. KEY_BUF_SIZE - 1 : Place(r, i) = Place(r, j) => i = j
<1>1. KEY_BUF_SIZE \in Nat /\ KEY_BUF_SIZE > 0
  BY RingSize
<1>2. (r + 1) % KEY_BUF_SIZE = IF r + 1 = KEY_BUF_SIZE THEN 0 ELSE r + 1
  BY <1>1
<1> QED BY <1>1, <1>2 DEF Place

\* A character is typed: it comes behind those that are unread.
LEMMA TypesKeeps ==
  ASSUME RingInv, NEW c \in KeyClasses, Types(c), got' = got
  PROVE  RingInv'
<1> SUFFICES ASSUME ~overrun'
             PROVE  Ordered'
  BY DEF RingInv
<1>0. PICK r, u, g, b, e :
        /\ r = ascii_read_index /\ u = Unread /\ g = Len(got)
        /\ b = ascii_buf /\ e = Place(r, u)
  OBVIOUS
<1>1. ~overrun /\ Ordered /\ ~(u >= KEY_BUF_SIZE)
  BY <1>0 DEF Types, RingInv
<1>2. /\ KEY_BUF_SIZE \in Nat /\ KEY_BUF_SIZE > 0 /\ r \in 0 .. KEY_BUF_SIZE - 1 /\ u \in 0 .. KEY_BUF_SIZE - 1 /\ g \in Nat
      /\ b \in [0 .. KEY_BUF_SIZE - 1 -> Nat] /\ Len(typed) \in Nat /\ u = Len(typed) - g
      /\ ascii_insert_index = e
  BY <1>0, <1>1, RingSize, LenProperties DEF Ordered, Unread
<1>3. /\ typed' = Append(typed, c) /\ typed' \in Seq(KeyClasses)
      /\ Len(typed') = Len(typed) + 1
  <2>1. typed' = Append(typed, c) /\ typed \in Seq(KeyClasses)
    BY <1>1 DEF Types, Ordered
  <2> QED BY <2>1, AppendProperties
<1>4. Unread' = u + 1 /\ Unread' \in 0 .. KEY_BUF_SIZE /\ Unread' # 0
  BY <1>2, <1>0, <1>3 DEF Unread
<1>5. /\ e \in 0 .. KEY_BUF_SIZE - 1 /\ (e + 1) % KEY_BUF_SIZE = Place(r, u + 1)
      /\ \A j \in 0 .. KEY_BUF_SIZE - 1 :
           Place(r, j) \in 0 .. KEY_BUF_SIZE - 1 /\ (Place(r, j) = e => j = u)
  <2>1. \A j \in 0 .. KEY_BUF_SIZE - 1 : j \in 0 .. KEY_BUF_SIZE /\ j < KEY_BUF_SIZE
    BY <1>2
  <2>2. e \in 0 .. KEY_BUF_SIZE - 1 /\ Place(e, 1) = Place(r, u + 1)
    BY <1>0, <1>2, <2>1, PlaceFacts
  <2>3. (e + 1) % KEY_BUF_SIZE = Place(e, 1)
    BY <2>2, PlaceFacts
  <2>4. \A j \in 0 .. KEY_BUF_SIZE - 1 :
          Place(r, j) \in 0 .. KEY_BUF_SIZE - 1 /\ (Place(r, j) = e => j = u)
    <3> SUFFICES ASSUME NEW j \in 0 .. KEY_BUF_SIZE - 1
                 PROVE  Place(r, j) \in 0 .. KEY_BUF_SIZE - 1 /\ (Place(r, j) = e => j = u)
      OBVIOUS
    <3>1. Place(r, j) \in 0 .. KEY_BUF_SIZE - 1
      BY <1>2, <2>1, PlaceFacts
    <3>2. Place(r, j) = Place(r, u) => j = u
      <4>1. u \in 0 .. KEY_BUF_SIZE - 1 /\ r \in 0 .. KEY_BUF_SIZE - 1
        BY <1>2
      <4>2. \A x, y \in 0 .. KEY_BUF_SIZE - 1 : Place(r, x) = Place(r, y) => x = y
        BY <4>1, PlaceFacts
      <4> QED BY <4>1, <4>2
    <3> QED BY <1>0, <3>1, <3>2
  <2> QED BY <2>2, <2>3, <2>4
<1>6. PICK d : d = [b EXCEPT ![e] = g + u + 1]
  OBVIOUS
<1>7. /\ ascii_buf' = d /\ ascii_insert_index' = (e + 1) % KEY_BUF_SIZE /\ ascii_to_read' = TRUE
      /\ ascii_read_index' = r /\ got' = got
  <2>1. Len(typed) + 1 = g + u + 1
    BY <1>2
  <2> QED BY <1>0, <1>2, <1>6, <2>1 DEF Types, PutChar
<1>8. d \in [0 .. KEY_BUF_SIZE - 1 -> Nat]
  <2>1. g + u + 1 \in Nat
    BY <1>2
  <2> QED BY <1>2, <1>6, <2>1
<1>9. Holds(d, r, g, u + 1)
  <2> SUFFICES ASSUME NEW j \in 0 .. u
               PROVE  d[Place(r, j)] = g + j + 1
    BY <1>2 DEF Holds
  <2>1. CASE j = u
    BY <1>0, <1>2, <1>5, <1>6, <2>1
  <2>2. CASE j # u
    <3>1. Place(r, j) \in 0 .. KEY_BUF_SIZE - 1 /\ Place(r, j) # e /\ j \in 0 .. u - 1
      <4>1. j \in 0 .. KEY_BUF_SIZE - 1 /\ j \in 0 .. u - 1
        BY <1>2, <2>2
      <4> QED BY <1>5, <2>2, <4>1
    <3>2. b[Place(r, j)] = g + j + 1
      BY <1>0, <1>1, <3>1 DEF Ordered, Holds
    <3> QED BY <1>2, <1>6, <3>1, <3>2
  <2> QED BY <2>1, <2>2
<1> QED BY <1>0, <1>1, <1>3, <1>4, <1>5, <1>7, <1>8, <1>9 DEF Ordered

\* A character is read: the one that has waited longest, or none.
LEMMA ReadKeeps ==
  ASSUME RingInv, KeyIsRead, UNCHANGED <<typed, overrun>>,
         got' = IF ReadKey = 0 THEN got ELSE Append(got, ReadKey)
  PROVE  RingInv'
<1> SUFFICES ASSUME ~overrun
             PROVE  Ordered'
  BY DEF RingInv
<1>0. PICK r, u, g, b, s :
        /\ r = ascii_read_index /\ u = Unread /\ g = Len(got)
        /\ b = ascii_buf /\ s = Place(r, 1)
  OBVIOUS
<1>1. Ordered
  BY DEF RingInv
<1>2. /\ KEY_BUF_SIZE \in Nat /\ KEY_BUF_SIZE > 0 /\ r \in 0 .. KEY_BUF_SIZE - 1 /\ u \in 0 .. KEY_BUF_SIZE /\ g \in Nat
      /\ b \in [0 .. KEY_BUF_SIZE - 1 -> Nat] /\ Len(typed) \in Nat /\ u = Len(typed) - g
      /\ ascii_insert_index = Place(r, u)
  BY <1>0, <1>1, RingSize, LenProperties DEF Ordered, Unread
<1>3. CASE ~ascii_to_read
  <2>1. ReadKey = 0 /\ UNCHANGED ringVars /\ got' = got
    BY <1>3 DEF ReadKey, KeyIsRead
  <2> QED BY <1>1, <2>1 DEF Ordered, ringVars, Unread
<1>4. CASE ascii_to_read
  <2>1. u # 0 /\ 0 \in 0 .. u - 1
    BY <1>0, <1>1, <1>2, <1>4 DEF Ordered
  <2>2. ReadKey = g + 1
    <3>1. b[Place(r, 0)] = g + 0 + 1 /\ Place(r, 0) = r
      BY <1>0, <1>1, <1>2, <2>1, PlaceFacts DEF Ordered, Holds
    <3> QED BY <1>0, <1>2, <1>4, <3>1 DEF ReadKey
  <2>3. PICK n : n = Append(got, g + 1)
    OBVIOUS
  <2>4. /\ n \in Seq(Nat) /\ Len(n) = g + 1 /\ n[g + 1] = g + 1
        /\ \A i \in 1 .. g : n[i] = got[i]
    <3>1. got \in Seq(Nat) /\ g + 1 \in Nat
      BY <1>1, <1>2 DEF Ordered
    <3> QED BY <1>0, <2>3, <3>1, AppendProperties
  <2>5. got' = n
    BY <1>2, <2>2, <2>3
  <2>6. \A i \in 1 .. g + 1 : n[i] = i
    <3>1. \A i \in 1 .. g : got[i] = i
      BY <1>0, <1>1 DEF Ordered
    <3>2. \A i \in 1 .. g + 1 : i \in 1 .. g \/ i = g + 1
      BY <1>2
    <3> QED BY <2>4, <3>1, <3>2
  <2>7. /\ s \in 0 .. KEY_BUF_SIZE - 1 /\ ascii_read_index' = s /\ ascii_buf' = b
        /\ ascii_insert_index' = Place(r, u)
        /\ ascii_to_read' = (s # Place(r, u))
    <3>1. (r + 1) % KEY_BUF_SIZE \in 0 .. KEY_BUF_SIZE - 1 /\ (r + 1) % KEY_BUF_SIZE = s
      BY <1>0, <1>2, PlaceFacts
    <3> QED BY <1>0, <1>2, <1>4, <3>1 DEF KeyIsRead
  <2>8. /\ \A j \in 0 .. KEY_BUF_SIZE - 1 : Place(s, j) = Place(r, j + 1) /\ (Place(s, j) = s => j = 0)
        /\ Place(s, 0) = s
    <3>1. \A j \in 0 .. KEY_BUF_SIZE - 1 : j \in 0 .. KEY_BUF_SIZE /\ j < KEY_BUF_SIZE
      BY <1>2
    <3> QED BY <1>0, <1>2, <2>7, <3>1, PlaceFacts
  <2>9. u - 1 \in 0 .. KEY_BUF_SIZE - 1 /\ (u - 1) + 1 = u /\ Unread' = u - 1
    <3>1. Unread' = Len(typed) - (g + 1)
      BY <2>4, <2>5 DEF Unread
    <3> QED BY <1>2, <2>1, <3>1
  <2>10. Place(s, u - 1) = Place(r, u) /\ (s # Place(r, u) <=> u - 1 # 0)
    BY <2>8, <2>9
  <2>11. Holds(b, s, g + 1, u - 1)
    <3> SUFFICES ASSUME NEW j \in 0 .. u - 1 - 1
                 PROVE  b[Place(s, j)] = (g + 1) + j + 1
      BY DEF Holds
    <3>1. j \in 0 .. KEY_BUF_SIZE - 1 /\ j + 1 \in 0 .. u - 1
      BY <1>2, <2>9
    <3>2. b[Place(r, j + 1)] = g + (j + 1) + 1
      BY <1>0, <1>1, <3>1 DEF Ordered, Holds
    <3>3. Place(s, j) = Place(r, j + 1)
      BY <2>8, <3>1
    <3>4. g + (j + 1) + 1 = (g + 1) + j + 1
      BY <1>2, <3>1
    <3> QED BY <3>2, <3>3, <3>4
  <2>12. ascii_to_read' <=> Unread' # 0
    BY <2>7, <2>9, <2>10
  <2>13. ascii_insert_index' = Place(ascii_read_index', Unread')
    BY <2>7, <2>9, <2>10
  <2>14. /\ typed' \in Seq(KeyClasses) /\ got' \in Seq(Nat)
         /\ ascii_buf' \in [0 .. KEY_BUF_SIZE - 1 -> Nat]
         /\ ascii_read_index' \in 0 .. KEY_BUF_SIZE - 1
         /\ Unread' \in 0 .. KEY_BUF_SIZE
    <3>1. typed' = typed /\ typed \in Seq(KeyClasses)
      BY <1>1 DEF Ordered
    <3>2. u - 1 \in 0 .. KEY_BUF_SIZE
      BY <1>2, <2>9
    <3> QED BY <1>2, <2>4, <2>5, <2>7, <2>9, <3>1, <3>2
  <2>15. Holds(ascii_buf', ascii_read_index', Len(got'), Unread')
    BY <2>4, <2>5, <2>7, <2>9, <2>11
  <2>16. \A i \in 1 .. Len(got') : got'[i] = i
    BY <2>4, <2>5, <2>6
  <2> QED BY <2>12, <2>13, <2>14, <2>15, <2>16 DEF Ordered
<1> QED BY <1>3, <1>4

LEMMA RingStays ==
  ASSUME RingInv, UNCHANGED <<ringVars, typed, got, overrun>>
  PROVE  RingInv'
BY DEF RingInv, Ordered, ringVars, Unread

LEMMA RingNext == RingInv /\ [TermNext]_termVars => RingInv'
<1> SUFFICES ASSUME RingInv, [TermNext]_termVars
             PROVE  RingInv'
  OBVIOUS
<1>1. CASE UserStep
  <2>1. CASE ReadTurns
    <3>1. got' = IF ReadKey = 0 THEN got ELSE Append(got, ReadKey)
      BY <2>1 DEF ReadTurns
    <3> QED BY <2>1, <3>1, ReadKeeps DEF ReadTurns
  <2>2. CASE ~ReadTurns
    <3>1. UNCHANGED <<ringVars, typed, got, overrun>>
      BY <1>1, <2>2 DEF UserStep, ShellReads, CatReads, StartsReading, ReadSleeps, ShellParses,
         ShellCreates, ShellCannotCreate, ShellUpdates, ShellWaits, ShellYields, WaitEnds,
         CatStarts, LoopStarts, ProgramExits, Blocks, Unblocks, historyVars
    <3> QED BY <3>1, RingStays
  <2> QED BY <2>1, <2>2
<1>2. CASE \E c \in KeyClasses : KeyChar(c)
  BY <1>2, TypesKeeps DEF KeyChar
<1>3. CASE TermTick \/ (\E held \in BOOLEAN : KeyOther(held)) \/ KeyCtrlC \/ UNCHANGED termVars
  <2>1. UNCHANGED <<ringVars, typed, got, overrun>>
    BY <1>3 DEF TermTick, KeyOther, KeyCtrlC, termVars, historyVars
  <2> QED BY <2>1, RingStays
<1> QED BY <1>1, <1>2, <1>3 DEF TermNext, KeyClasses

LEMMA RingInit == TermInit => RingInv
<1> SUFFICES ASSUME TermInit
             PROVE  Ordered
  BY DEF RingInv
<1>1. KEY_BUF_SIZE \in Nat /\ KEY_BUF_SIZE > 0
  BY RingSize
<1>2. /\ typed = <<>> /\ got = <<>> /\ ascii_insert_index = 0 /\ ascii_read_index = 0
      /\ ascii_to_read = FALSE /\ ascii_buf = [i \in 0 .. KEY_BUF_SIZE - 1 |-> 0]
  BY DEF TermInit
<1>3. /\ <<>> \in Seq(KeyClasses) /\ <<>> \in Seq(Nat) /\ Len(<<>>) = 0
  BY EmptySeq
<1>4. Unread = 0 /\ Place(0, 0) = 0 /\ 0 \in 0 .. KEY_BUF_SIZE - 1 /\ 0 \in 0 .. KEY_BUF_SIZE
      /\ (\A j : j \notin 0 .. 0 - 1) /\ \A i : i \notin 1 .. 0
  BY <1>1, <1>2, <1>3 DEF Unread, Place
<1>5. ascii_buf \in [0 .. KEY_BUF_SIZE - 1 -> Nat]
  BY <1>2
<1> QED BY <1>2, <1>3, <1>4, <1>5 DEF Ordered, Holds

LEMMA OrderedReads == RingInv => KeysInOrder
<1> SUFFICES ASSUME Ordered
             PROVE  got = [i \in 1 .. Len(got) |-> i]
  BY DEF RingInv, KeysInOrder
<1>1. got \in Seq(Nat) /\ \A i \in 1 .. Len(got) : got[i] = i
  BY DEF Ordered
<1>2. got = [i \in 1 .. Len(got) |-> got[i]]
  BY <1>1, LenProperties
<1> QED BY <1>1, <1>2

\* As long as no character has come with the ring full, what the shell and its
\* programs have read is what was typed, each character once and in order, for
\* any size of the ring and any order of keys, reads, kills, blocks and unblocks.
THEOREM KeysAreReadInOrder == TermSpec => []KeysInOrder
<1> QED BY RingInit, RingNext, OrderedReads, PTL DEF TermSpec

-----------------------------------------------------------------------------
(* The tokens of sem_stdin.  A process in read() has one, or sleeps until a *)
(* key hands it one, or has interrupts off.                                *)

\* The idle process is the first of the table and creates the shell.
BootOrder == IDLE_PID = 0 /\ SHELL_PID = 1

Value == sems[Stdin].value
Queue == sems[Stdin].blocked
Queued(p) == \E i \in 1 .. Len(Queue) : Queue[i] = p

\* Who has taken a token, and who of them sleeps until it is there.
Tokens == {p \in Slots : reading[p] = "token"}
Sleepers == {p \in Tokens : state[p] = "BLOCKED" /\ Queued(p)}

\* The blocks of p that are pending: the user's, and that of its sem_wait().
Calls(p) == (IF p \in held_back THEN 1 ELSE 0) + (IF Queued(p) THEN 1 ELSE 0)

StdinType == sems \in [{Stdin} -> SemType]

StdinOK == /\ sems[Stdin].initialized
           /\ Len(Queue) = IF Value < 0 THEN -Value ELSE 0
           /\ stale \in Nat

ReadersOK == /\ reading \in [Slots -> {"no", "yes", "token"}]
             /\ \A p \in Slots : reading[p] # "no" => Live(p) /\ p # IDLE_PID
             /\ \A p \in Slots : reading[p] = "yes" => p = Caller
             /\ \A p \in Tokens : blocks_amount[p] <= Calls(p)

\* Every character that waits is covered by a token in the semaphore, in the
\* hands of a reader, or lost to a stale place; and every place in the queue is
\* that of a reader asleep or stale.
Covered == ~overrun => Unread <= Value + Cardinality(Tokens) + stale
Paid == Len(Queue) <= Cardinality(Sleepers) + stale

Reads == StdinOK /\ ReadersOK /\ Covered /\ Paid

\* What is known of the process table, whether the shell lives or not.
TableOK == /\ ProcInv /\ IdleLives(Kernel) /\ FamilyTypeOK
           /\ \A p \in Programs : child_amount[p] = 0

\* Nobody but the shell creates processes and waits, and it does not read then.
ShellOK == /\ Live(Shell)
           /\ \A p \in Slots : waiting[p] # NoPid => p = Shell
           /\ waiting[Shell] # IDLE_PID
           /\ parent_pid[IDLE_PID] # Shell
           /\ \A q \in Slots : dad_blocked[q] = 1 => waiting[Shell] = q
           /\ waiting[Shell] # NoPid => reading[Shell] = "no"

LabelsOK == /\ DOMAIN pc = Slots
            /\ \A p \in Slots \ {Shell} : pc[p] \notin {"create", "wait"}

Working == TableOK /\ StdinType /\ Reads /\ ShellOK /\ LabelsOK

\* After the exit of the shell, which takes all others along.
Gone == /\ TableOK /\ StdinType
        /\ \A p \in Slots \ {IDLE_PID} : ~Live(p)
        /\ \A p \in Slots : reading[p] = "no"
        /\ waiting[IDLE_PID] = NoPid

KeyInv == RingInv /\ (Working \/ Gone)

LEMMA TokensFinite ==
  /\ IsFiniteSet(Tokens) /\ Cardinality(Tokens) \in Nat
  /\ IsFiniteSet(Sleepers) /\ Cardinality(Sleepers) \in Nat
  /\ IsFiniteSet(Tokens') /\ Cardinality(Tokens') \in Nat
  /\ IsFiniteSet(Sleepers') /\ Cardinality(Sleepers') \in Nat
<1>1. IsFiniteSet(Slots)
  BY FS_Interval, SlotsAssumption DEF Slots
<1>2. \A S \in SUBSET Slots : IsFiniteSet(S) /\ Cardinality(S) \in Nat
  BY <1>1, FS_Subset, FS_CardinalityType
<1>3. /\ Tokens \in SUBSET Slots /\ Sleepers \in SUBSET Slots
      /\ Tokens' \in SUBSET Slots /\ Sleepers' \in SUBSET Slots
  BY DEF Tokens, Sleepers
<1> QED BY <1>2, <1>3

LEMMA StdinFacts ==
  ASSUME StdinType
  PROVE  /\ Queue \in Seq(Slots) /\ Len(Queue) \in Nat /\ Value \in Int
         /\ sems[Stdin] \in SemType
<1>1. sems[Stdin] \in SemType
  BY DEF StdinType
<1>2. Queue \in Seq(Slots) /\ Value \in Int
  BY <1>1 DEF SemType, Queue, Value
<1> QED BY <1>1, <1>2, LenProperties

LEMMA UnreadIsInt == RingInv => overrun \/ Unread \in 0 .. KEY_BUF_SIZE
BY DEF RingInv, Ordered

\* What a program's death does to the others.
LEMMA KillRest ==
  ASSUME NEW k, Settled(k), IdleLives(k), NEW f, FamilyShape(f), NEW p \in Programs
  PROVE  LET r == KillKernel(k, f, p)
         IN  /\ Settled(r) /\ IdleLives(r) /\ r.state[p] = "ZOMBIE"
             /\ \A q \in Programs \ {p} : Untouched(k, r, q)
             /\ f.dad_blocked[p] # 1 => Untouched(k, r, SHELL_PID)
             /\ PhaseOf(r.state[SHELL_PID]) = PhaseOf(k.state[SHELL_PID])
<1> DEFINE d == [k EXCEPT !.state[p] = "ZOMBIE"]
           w == WakeParent(d, f, p)
           r == KillKernel(k, f, p)
<1>1. /\ k \in KernelType /\ Coherent(k) /\ p \in Slots /\ p # IDLE_PID /\ p # SHELL_PID
      /\ SHELL_PID \in Slots /\ SHELL_PID # IDLE_PID /\ IDLE_PID \in Slots
  BY SettledCoherent, ShellIsNotIdle DEF Settled, Programs
<1>2. /\ Coherent(d)
      /\ d.state[p] = "ZOMBIE" /\ d.blocks_amount = k.blocks_amount
      /\ \A q \in Slots \ {p} : d.state[q] = k.state[q]
  <2>1. Coherent([k EXCEPT !.state = [q \in Slots |-> IF q \in {p} THEN "ZOMBIE"
                                                      ELSE k.state[q]]])
    BY <1>1, ZombiesCoherent
  <2>2. [q \in Slots |-> IF q \in {p} THEN "ZOMBIE" ELSE k.state[q]]
          = [k.state EXCEPT ![p] = "ZOMBIE"]
    BY <1>1 DEF KernelType
  <2>3. d = [k EXCEPT !.state = [k.state EXCEPT ![p] = "ZOMBIE"]]
    OBVIOUS
  <2> QED BY <1>1, <2>1, <2>2, <2>3 DEF KernelType
<1> HIDE DEF d
<1>3. /\ Coherent(w) /\ IdleLives(w) /\ w.state[p] = "ZOMBIE"
      /\ \A q \in Programs : w.state[q] = d.state[q] /\ w.blocks_amount[q] = d.blocks_amount[q]
      /\ f.dad_blocked[p] # 1 => w = d
      /\ PhaseOf(w.state[SHELL_PID]) = PhaseOf(d.state[SHELL_PID])
  <2>1. Coherent(w)
    BY <1>1, <1>2, WakeParentFacts
  <2>2. IdleLives(d)
    BY <1>1, <1>2 DEF IdleLives
  <2>3. CASE w = d
    BY <1>2, <2>1, <2>2, <2>3
  <2>4. CASE f.dad_blocked[p] = 1 /\ f.parent_pid[p] \in Slots
    <3> DEFINE h == f.parent_pid[p]
               u == UnblockProcess(d, h)
    <3>1. h \in {IDLE_PID, SHELL_PID} /\ h \in Slots /\ h \notin Programs
      <4>1. h \in {IDLE_PID, SHELL_PID, NoPid} /\ h \in Slots
        BY <1>1, <2>4 DEF FamilyShape
      <4>2. NoPid \notin Slots
        BY DEF NoPid, Slots
      <4> HIDE DEF h
      <4> QED BY <4>1, <4>2 DEF Programs
    <3>2. w = u
      BY <2>4 DEF WakeParent
    <3> HIDE DEF h
    <3>3. /\ \A q \in Slots \ {h} : /\ u.state[q] = d.state[q]
                                    /\ u.blocks_amount[q] = d.blocks_amount[q]
          /\ d.state[h] # "BLOCKED" => u = d
          /\ d.state[h] = "BLOCKED" => u.state[h] \in {"BLOCKED", "READY"}
      <4>1. d \in KernelType /\ Counted(d)
        BY <1>2 DEF Coherent
      <4> QED BY <3>1, <4>1, UnblockProcessFacts, Zenon
    <3> HIDE DEF u, w
    <3>4. \A q \in {IDLE_PID, SHELL_PID} : PhaseOf(u.state[q]) = PhaseOf(d.state[q])
      BY <1>1, <3>3 DEF PhaseOf
    <3>5. IdleLives(u)
      BY <1>1, <2>2, <3>3 DEF IdleLives
    <3> QED BY <1>2, <2>1, <2>4, <3>1, <3>2, <3>3, <3>4, <3>5, <1>1 DEF Programs
  <2>5. CASE f.dad_blocked[p] # 1
    BY <2>3, <2>5 DEF WakeParent
  <2>6. CASE f.parent_pid[p] \notin Slots
    BY <2>3, <2>6 DEF WakeParent, UnblockProcess, IsPidValid
  <2> QED BY <2>4, <2>5, <2>6
<1> HIDE DEF w
<1>4. r = LastWish(w, p)
  BY <1>1 DEF KillKernel, r, w, d
<1> HIDE DEF r
<1>5. Settled(r) /\ SameSleepers(w, r)
  BY <1>1, <1>3, <1>4, LastWishSleepers
<1>6. IdleLives(r) /\ \A q \in Slots \ {IDLE_PID} : Untouched(w, r, q)
  BY <1>3, <1>5 DEF SameSleepers
<1>7. r.state[p] = "ZOMBIE"
  BY <1>1, <1>3, <1>6 DEF Untouched
<1>8. ASSUME NEW q \in Slots \ {p, IDLE_PID}, w.state[q] = d.state[q],
             w.blocks_amount[q] = d.blocks_amount[q]
      PROVE  Untouched(k, r, q)
  BY <1>2, <1>6, <1>8 DEF Untouched
<1>9. \A q \in Programs \ {p} : Untouched(k, r, q)
  BY <1>1, <1>3, <1>8 DEF Programs
<1>10. f.dad_blocked[p] # 1 => Untouched(k, r, SHELL_PID)
  BY <1>1, <1>3, <1>8
<1>11. PhaseOf(r.state[SHELL_PID]) = PhaseOf(k.state[SHELL_PID])
  <2>1. PhaseOf(r.state[SHELL_PID]) = PhaseOf(w.state[SHELL_PID])
    BY <1>1, <1>3, <1>5, <1>6, UntouchedPhase DEF Settled, Coherent
  <2> QED BY <1>1, <1>2, <1>3, <2>1
<1> QED BY <1>5, <1>6, <1>7, <1>9, <1>10, <1>11 DEF r

\* What a step keeps that is none of the readers' business.
LEMMA ReadsKept ==
  ASSUME Reads, UNCHANGED <<sems, reading, held_back, stale, typed, got, overrun>>,
         \A p \in Slots : reading[p] # "no" => Untouched(Kernel, Kernel', p),
         \A p \in Slots : reading[p] = "yes" => p = Caller'
  PROVE  Reads'
<1>1. Queue' = Queue /\ Value' = Value /\ Tokens' = Tokens /\ Unread' = Unread
  BY DEF Queue, Value, Tokens, Unread
<1>2. \A p \in Slots : Queued(p)' <=> Queued(p)
  BY <1>1 DEF Queued
<1>3. \A p \in Slots : reading[p] # "no" =>
        /\ state'[p] = "BLOCKED" <=> state[p] = "BLOCKED"
        /\ blocks_amount'[p] = blocks_amount[p]
        /\ Live(p)' <=> Live(p)
  BY DEF Untouched, Kernel, Reads, ReadersOK, Live
<1>4. \A p \in Tokens : p \in Slots /\ reading[p] # "no"
  BY DEF Tokens
<1>5. Sleepers' = Sleepers
  BY <1>1, <1>2, <1>3, <1>4 DEF Sleepers
<1>6. StdinOK'
  BY <1>1 DEF Reads, StdinOK
<1>7. ReadersOK'
  <2>1. \A p \in Tokens : Calls(p)' = Calls(p) /\ blocks_amount'[p] = blocks_amount[p]
    BY <1>2, <1>3, <1>4 DEF Calls
  <2> QED BY <1>1, <1>3, <2>1 DEF Reads, ReadersOK
<1>8. Covered' /\ Paid'
  BY <1>1, <1>5 DEF Reads, Covered, Paid
<1> QED BY <1>6, <1>7, <1>8 DEF Reads

\* A program dies: if it was in read(), a token may be lost with it.
LEMMA ReadsLose ==
  ASSUME Reads, StdinType, RingInv, NEW q \in Slots, Dies(q),
         UNCHANGED <<sems, typed, got, overrun>>,
         \A p \in Slots \ {q} : reading[p] # "no" => Untouched(Kernel, Kernel', p),
         \A p \in Slots : reading[p] # "yes"
  PROVE  Reads'
<1>1. /\ Queue' = Queue /\ Value' = Value /\ Unread' = Unread
      /\ Len(Queue) \in Nat /\ Value \in Int
      /\ overrun \/ Unread \in Int
  BY StdinFacts, UnreadIsInt, RingSize DEF Queue, Value, Unread
<1>2. /\ reading \in [Slots -> {"no", "yes", "token"}]
      /\ reading' = [reading EXCEPT ![q] = "no"]
      /\ reading' \in [Slots -> {"no", "yes", "token"}]
      /\ reading'[q] = "no" /\ \A p \in Slots \ {q} : reading'[p] = reading[p]
      /\ held_back' = held_back \ {q}
      /\ stale \in Nat /\ stale' \in Nat
      /\ stale' = stale + (IF q \in Tokens THEN 1 ELSE 0)
  BY DEF Reads, ReadersOK, StdinOK, Dies, Tokens
<1>3. Tokens' = Tokens \ {q}
  BY <1>2 DEF Tokens
<1>4. \A p \in Slots : Queued(p)' <=> Queued(p)
  BY <1>1 DEF Queued
<1>5. \A p \in Slots \ {q} : reading[p] # "no" =>
        /\ state'[p] = "BLOCKED" <=> state[p] = "BLOCKED"
        /\ blocks_amount'[p] = blocks_amount[p]
        /\ Live(p)' <=> Live(p)
  BY DEF Untouched, Kernel, Reads, ReadersOK, Live
<1>6. \A p \in Tokens : p \in Slots /\ reading[p] # "no"
  BY DEF Tokens
<1>7. Sleepers' = Sleepers \ {q}
  BY <1>3, <1>4, <1>5, <1>6 DEF Sleepers
<1>8. /\ Cardinality(Tokens') \in Nat /\ Cardinality(Tokens) \in Nat
      /\ Cardinality(Tokens') = Cardinality(Tokens) - (IF q \in Tokens THEN 1 ELSE 0)
      /\ Cardinality(Sleepers') \in Nat /\ Cardinality(Sleepers) \in Nat
      /\ Cardinality(Sleepers') >= Cardinality(Sleepers) - (IF q \in Tokens THEN 1 ELSE 0)
  <2>1. q \in Sleepers => q \in Tokens
    BY DEF Sleepers
  <2> QED BY <1>3, <1>7, <2>1, TokensFinite, FS_RemoveElement, FS_CardinalityType
<1>9. StdinOK'
  BY <1>1, <1>2 DEF Reads, StdinOK
<1>10. ReadersOK'
  <2>1. \A p \in Tokens' : /\ p \in Tokens /\ p # q /\ Calls(p)' = Calls(p)
                           /\ blocks_amount'[p] = blocks_amount[p]
    BY <1>2, <1>3, <1>4, <1>5, <1>6 DEF Calls
  <2> QED BY <1>2, <1>5, <2>1 DEF Reads, ReadersOK
<1>11. Covered'
  <2> SUFFICES ASSUME ~overrun
               PROVE  Unread <= Value + Cardinality(Tokens') + stale'
    BY <1>1 DEF Covered
  <2>1. Unread <= Value + Cardinality(Tokens) + stale
    BY DEF Reads, Covered
  <2> QED BY <1>1, <1>2, <1>8, <2>1
<1>12. Paid'
  <2>1. Len(Queue) <= Cardinality(Sleepers) + stale
    BY DEF Reads, Paid
  <2>2. Len(Queue) <= Cardinality(Sleepers') + stale'
    BY <1>1, <1>2, <1>8, <2>1
  <2> QED BY <1>1, <2>2 DEF Paid
<1> QED BY <1>9, <1>10, <1>11, <1>12 DEF Reads

\* A process enters read(), and goes on without being interrupted.
LEMMA ReadsStart ==
  ASSUME Reads, Caller \in Slots \ {IDLE_PID}, Live(Caller), reading[Caller] = "no",
         \A p \in Slots : reading[p] # "yes",
         reading' = [reading EXCEPT ![Caller] = "yes"],
         UNCHANGED <<schedVars, sems, historyVars>>
  PROVE  Reads'
<1>1. /\ reading' \in [Slots -> {"no", "yes", "token"}]
      /\ reading'[Caller] = "yes" /\ \A p \in Slots \ {Caller} : reading'[p] = reading[p]
  BY DEF Reads, ReadersOK
<1>2. Tokens' = Tokens
  BY <1>1 DEF Tokens
<1>3. /\ Queue' = Queue /\ Value' = Value /\ Unread' = Unread
      /\ \A p \in Slots : (Queued(p)' <=> Queued(p)) /\ Calls(p)' = Calls(p) /\ (Live(p)' <=> Live(p))
  BY DEF Queue, Value, Unread, Queued, Calls, historyVars, orderVars, schedVars, Live
<1>4. Sleepers' = Sleepers
  BY <1>2, <1>3 DEF Sleepers, Tokens, schedVars
<1>5. StdinOK' /\ Covered' /\ Paid'
  BY <1>2, <1>3, <1>4 DEF Reads, StdinOK, Covered, Paid, historyVars
<1>6. ReadersOK'
  BY <1>1, <1>2, <1>3 DEF Reads, ReadersOK, schedVars, Caller, Tokens
<1> QED BY <1>5, <1>6 DEF Reads

LEMMA StdinBecomes ==
  ASSUME StdinType, NEW v \in Int, NEW q \in Seq(Slots),
         sems' = [sems EXCEPT ![Stdin].value = v, ![Stdin].blocked = q]
  PROVE  /\ StdinType' /\ Value' = v /\ Queue' = q
         /\ sems'[Stdin].initialized = sems[Stdin].initialized
<1> DEFINE x == [sems[Stdin] EXCEPT !.value = v, !.blocked = q]
<1>1. /\ x \in SemType /\ x.initialized = sems[Stdin].initialized
      /\ x.value = v /\ x.blocked = q
  <2>1. PICK w \in SemType : w = sems[Stdin]
    BY DEF StdinType
  <2>2. x = [w EXCEPT !.value = v, !.blocked = q]
    BY <2>1
  <2> HIDE DEF x
  <2> QED BY <2>1, <2>2 DEF SemType
<1>2. sems' = [sems EXCEPT ![Stdin] = x]
  BY DEF StdinType
<1> HIDE DEF x
<1> QED BY <1>1, <1>2 DEF StdinType, Value, Queue

LEMMA PostTable ==
  ASSUME StdinType, sems' = SemPostTable(sems, Stdin)
  PROVE  /\ StdinType'
         /\ sems[Stdin].initialized =>
              /\ sems'[Stdin].initialized /\ Value' = Value + 1
              /\ Queue' = IF MustWake(sems, Stdin) THEN Tail(Queue) ELSE Queue
<1>1. CASE ~sems[Stdin].initialized
  BY <1>1 DEF SemPostTable, StdinType
<1>2. CASE sems[Stdin].initialized
  <2> DEFINE v == Value + 1
             q == IF MustWake(sems, Stdin) THEN Tail(Queue) ELSE Queue
  <2>1. v \in Int /\ q \in Seq(Slots)
    BY StdinFacts, HeadTailProperties DEF MustWake, Queue
  <2>2. sems' = [sems EXCEPT ![Stdin].value = v, ![Stdin].blocked = q]
    BY <1>2 DEF SemPostTable, Value, Queue
  <2> HIDE DEF v, q
  <2>3. StdinType' /\ Value' = v /\ Queue' = q /\ sems'[Stdin].initialized
    BY <1>2, <2>1, <2>2, StdinBecomes
  <2> QED BY <2>3 DEF v, q
<1> QED BY <1>1, <1>2

\* What leaves the relations and lives of all processes as they are.
LEMMA TableKept ==
  ASSUME TableOK, TableStays, NEW r, KernelBecomes(r), Settled(r), IdleLives(r),
         Phases(r) = Phases(Kernel)
  PROVE  /\ TableOK'
         /\ \A p \in Slots : Live(p)' <=> Live(p)
         /\ UNCHANGED <<parent_pid, dad_blocked, waiting>>
         /\ state' = r.state /\ blocks_amount' = r.blocks_amount
<1>1. UNCHANGED <<parent_pid, dad_blocked, waiting, child_amount, dangling>>
  BY DEF TableStays, familyVars
<1>2. /\ SchedInv' /\ IdleLives(Kernel)'
      /\ state' = r.state /\ blocks_amount' = r.blocks_amount
  BY KernelNext
<1>3. \A p \in Slots : Live(p)' <=> Live(p)
  BY SamePhases DEF TableOK, ProcInv
<1>4. TableOK'
  BY <1>1, <1>2 DEF TableOK, ProcInv, FamilyTypeOK
<1> QED BY <1>1, <1>2, <1>3, <1>4

\* sem_post() leaves everybody the life it has.
LEMMA PostKernel ==
  ASSUME TableOK, StdinType, KeyPosts
  PROVE  /\ TableOK'
         /\ \A p \in Slots : Live(p)' <=> Live(p)
         /\ UNCHANGED <<parent_pid, dad_blocked, waiting>>
<1>1. SchedInv /\ Settled(Kernel) /\ IdleLives(Kernel)
  BY RunnerFacts DEF TableOK, ProcInv
<1>2. TableStays /\ KernelBecomes(SemPostKernel(Kernel, sems, Stdin))
  BY DEF KeyPosts
<1>3. PICK r : /\ KernelBecomes(r) /\ Settled(r) /\ IdleLives(r)
               /\ Phases(r) = Phases(Kernel)
  <2>1. CASE ~MustWake(sems, Stdin)
    BY <1>1, <1>2, <2>1 DEF SemPostKernel
  <2>2. CASE MustWake(sems, Stdin)
    <3>1. Head(Queue) \in Slots
      BY <2>2, StdinFacts, HeadTailProperties DEF MustWake, Queue
    <3>2. KernelBecomes(UnblockProcess(Kernel, Head(Queue)))
      BY <1>2, <2>2 DEF SemPostKernel, Queue
    <3> QED BY <1>1, <3>1, <3>2, UnblockPhases
  <2> QED BY <2>1, <2>2
<1> QED BY <1>2, <1>3, TableKept

\* A key is told to sem_stdin: the first of the queue wakes up, or a token is
\* left for the next who reads.
LEMMA ReadsPost ==
  ASSUME Reads, TableOK, StdinType, RingInv, KeyPosts,
         UNCHANGED <<reading, held_back, stale>>,
         ~overrun' => ~overrun /\ Unread' \in Int /\ Unread' <= Unread + 1,
         \A p \in Slots : reading[p] # "yes"
  PROVE  Reads'
<1>1. /\ SchedInv /\ Settled(Kernel) /\ Counted(Kernel) /\ Kernel \in KernelType
      /\ \A p \in Slots : Live(p)' <=> Live(p)
  BY PostKernel, RunnerFacts DEF TableOK, ProcInv, Settled
<1>2. /\ Queue \in Seq(Slots) /\ Len(Queue) \in Nat /\ Value \in Int /\ stale \in Nat
      /\ sems'[Stdin].initialized /\ Value' = Value + 1
      /\ Queue' = IF MustWake(sems, Stdin) THEN Tail(Queue) ELSE Queue
      /\ Len(Queue) = IF Value < 0 THEN -Value ELSE 0
      /\ overrun \/ Unread \in Int
  BY StdinFacts, PostTable, UnreadIsInt, RingSize DEF Reads, StdinOK, KeyPosts
<1>3. Tokens' = Tokens /\ Cardinality(Tokens) \in Nat
  BY TokensFinite DEF Tokens
<1>4. Covered'
  <2> SUFFICES ASSUME ~overrun'
               PROVE  Unread' <= Value' + Cardinality(Tokens) + stale
    BY <1>3 DEF Covered
  <2>1. Unread <= Value + Cardinality(Tokens) + stale
    BY DEF Reads, Covered
  <2> QED BY <1>2, <1>3, <2>1
<1>5. \A p \in Tokens : /\ p \in Slots \ {IDLE_PID} /\ state[p] \in {"READY", "RUNNING", "BLOCKED"}
                        /\ blocks_amount[p] \in Int
                        /\ state[p] # "BLOCKED" => blocks_amount[p] = 0
  BY <1>1 DEF Tokens, Reads, ReadersOK, Live, Counted, Kernel, KernelType
<1>6. ASSUME Len(Queue') = (IF Value' < 0 THEN -Value' ELSE 0), Paid',
             \A p \in Tokens : blocks_amount'[p] <= Calls(p)'
      PROVE  Reads'
  <2>1. StdinOK'
    BY <1>2, <1>6 DEF StdinOK
  <2>2. ReadersOK'
    BY <1>1, <1>3, <1>6 DEF Reads, ReadersOK
  <2> QED BY <1>4, <1>6, <2>1, <2>2 DEF Reads
<1>7. CASE ~MustWake(sems, Stdin)
  <2>1. UNCHANGED schedVars /\ Queue' = Queue
    BY <1>2, <1>7 DEF KeyPosts, SemPostKernel, KernelBecomes, Kernel, schedVars
  <2>2. Value >= 0
    <3>1. Queue # <<>> \/ Len(Queue) = 0
      BY <1>2, EmptySeq
    <3>2. ~(Value + 1 <= 0) \/ Queue = <<>>
      BY <1>7 DEF MustWake, Value, Queue, Reads, StdinOK
    <3> QED BY <1>2, <3>1, <3>2, EmptySeq
  <2>3. \A p \in Slots : (Queued(p)' <=> Queued(p)) /\ Calls(p)' = Calls(p)
    BY <2>1 DEF Queued, Calls
  <2>4. Sleepers' = Sleepers
    BY <1>3, <2>1, <2>3, <1>5 DEF Sleepers, schedVars
  <2>5. Paid'
    BY <2>1, <2>4 DEF Reads, Paid
  <2> QED BY <1>2, <1>5, <1>6, <2>1, <2>2, <2>3, <2>5 DEF Reads, ReadersOK, schedVars
<1>8. CASE MustWake(sems, Stdin)
  <2>0. PICK h : h = Head(Queue)
    OBVIOUS
  <2> DEFINE u == UnblockProcess(Kernel, h)
  <2>1. Value + 1 <= 0 /\ Queue # <<>>
    BY <1>8 DEF MustWake, Value, Queue
  <2>2. /\ h \in Slots /\ h = Queue[1] /\ Len(Queue') = Len(Queue) - 1
        /\ \A i \in 1 .. Len(Queue') : Queue'[i] = Queue[i + 1]
    BY <1>2, <1>8, <2>0, <2>1, HeadTailProperties
  <2>3. KernelBecomes(u)
    BY <1>8, <2>0 DEF KeyPosts, SemPostKernel, Queue
  <2>4. state' = u.state /\ blocks_amount' = u.blocks_amount
    BY <2>3 DEF KernelBecomes
  <2>5. /\ \A p \in Slots \ {h} : /\ u.state[p] = Kernel.state[p]
                                  /\ u.blocks_amount[p] = Kernel.blocks_amount[p]
        /\ Kernel.state[h] # "BLOCKED" => u = Kernel
        /\ Kernel.state[h] = "BLOCKED" =>
             u.blocks_amount[h] = Kernel.blocks_amount[h] - 1
    <3>1. h \in Slots /\ Kernel \in KernelType /\ Counted(Kernel)
      BY <1>1, <2>2
    <3> QED BY <3>1, UnblockProcessFacts, Zenon
  <2> HIDE DEF u
  <2>6. /\ \A p \in Slots \ {h} : state'[p] = state[p] /\ blocks_amount'[p] = blocks_amount[p]
        /\ state[h] # "BLOCKED" => state' = state /\ blocks_amount' = blocks_amount
        /\ state[h] = "BLOCKED" => blocks_amount'[h] = blocks_amount[h] - 1
    BY <2>4, <2>5 DEF Kernel
  <2>7. \A p \in Slots \ {h} : Queued(p) => Queued(p)'
    <3> SUFFICES ASSUME NEW p \in Slots \ {h}, NEW i \in 1 .. Len(Queue), Queue[i] = p
                 PROVE  \E j \in 1 .. Len(Queue') : Queue'[j] = p
      BY DEF Queued
    <3>1. i # 1
      BY <2>2
    <3>2. i - 1 \in 1 .. Len(Queue') /\ (i - 1) + 1 = i
      BY <1>2, <2>2, <3>1
    <3> QED BY <2>2, <3>2
  <2>8. Sleepers \subseteq Sleepers' \cup {h}
    BY <1>3, <2>6, <2>7 DEF Sleepers, Tokens
  <2>9. Cardinality(Sleepers) <= Cardinality(Sleepers') + 1
    <3>1. IsFiniteSet(Sleepers') /\ Cardinality(Sleepers') \in Nat /\ Cardinality(Sleepers) \in Nat
      BY TokensFinite
    <3>2. /\ IsFiniteSet(Sleepers' \cup {h})
          /\ Cardinality(Sleepers' \cup {h}) <= Cardinality(Sleepers') + 1
      BY <3>1, FS_AddElement
    <3>3. Cardinality(Sleepers) <= Cardinality(Sleepers' \cup {h})
      BY <2>8, <3>2, FS_Subset
    <3> QED BY <3>1, <3>2, <3>3, FS_CardinalityType
  <2>10. Paid'
    <3>1. Cardinality(Sleepers') \in Nat /\ Cardinality(Sleepers) \in Nat
      BY TokensFinite
    <3>2. Len(Queue) <= Cardinality(Sleepers) + stale
      BY DEF Reads, Paid
    <3>3. Len(Queue') <= Cardinality(Sleepers') + stale
      BY <1>2, <2>2, <2>9, <3>1, <3>2
    <3> QED BY <3>3 DEF Paid
  <2>11. ASSUME NEW p \in Tokens
         PROVE  blocks_amount'[p] <= Calls(p)'
    <3>1. blocks_amount[p] <= Calls(p) /\ p \in Slots
      BY <2>11, <1>5 DEF Reads, ReadersOK
    <3>2. CASE p # h
      BY <2>6, <2>7, <3>1, <3>2, <1>5 DEF Calls
    <3>3. CASE p = h
      <4>1. Queued(h)
        <5>1. 1 \in 1 .. Len(Queue)
          BY <1>2, <2>1
        <5> QED BY <2>2, <5>1 DEF Queued
      <4>2. PICK a \in {0, 1} : a = IF h \in held_back THEN 1 ELSE 0
        OBVIOUS
      <4>3. Calls(h) = a + 1
        BY <4>1, <4>2 DEF Calls
      <4>4. Calls(h)' \in {a, a + 1}
        <5>1. a = IF h \in held_back' THEN 1 ELSE 0
          BY <4>2
        <5>2. CASE Queued(h)'
          BY <5>1, <5>2 DEF Calls
        <5>3. CASE ~Queued(h)'
          BY <5>1, <5>3 DEF Calls
        <5> QED BY <5>2, <5>3
      <4>5. blocks_amount'[h] <= a
        BY <1>5, <2>6, <3>1, <3>3, <4>2, <4>3
      <4> QED BY <1>5, <2>6, <3>1, <3>3, <4>2, <4>4, <4>5
    <3> QED BY <3>2, <3>3
  <2>12. Len(Queue') = IF Value' < 0 THEN -Value' ELSE 0
    BY <1>2, <2>1, <2>2
  <2> QED BY <1>6, <2>10, <2>11, <2>12
<1> QED BY <1>7, <1>8

LEMMA WaitingSleep ==
  ASSUME NEW k, Settled(k), NEW p \in Slots \ {IDLE_PID},
         k.state[p] \in {"READY", "RUNNING", "BLOCKED"}
  PROVE  LET r == BlockProcess(k, p)
         IN  r.state[p] = "BLOCKED" /\ r.blocks_amount[p] = k.blocks_amount[p] + 1
<1> DEFINE r == BlockProcess(k, p)
<1>1. PICK m : /\ Coherent(m)
               /\ r = Yield(m)
               /\ m.state[p] = "BLOCKED"
               /\ m.blocks_amount[p] = k.blocks_amount[p] + 1
  BY BlockProcessCases
<1> HIDE DEF r
<1>2. Untouched(m, r, p)
  BY <1>1, YieldSleepers DEF SameSleepers
<1> QED BY <1>1, <1>2 DEF Untouched, r

\* A reader finds no token and sleeps: one place, one token to come.
LEMMA ReadsSleep ==
  ASSUME Reads, TableOK, StdinType, RingInv, ReadSleeps
  PROVE  /\ Reads' /\ TableOK' /\ StdinType'
         /\ \A p \in Slots : Live(p)' <=> Live(p)
         /\ UNCHANGED <<parent_pid, dad_blocked, waiting>>
<1>0. PICK c : c = Caller
  OBVIOUS
<1>1. /\ SchedInv /\ Settled(Kernel) /\ Kernel.current_index = c
      /\ c \in Slots /\ state[c] = "RUNNING" /\ GetPid(Kernel) = c /\ IdleLives(Kernel)
      /\ Kernel.state = state /\ Kernel.blocks_amount = blocks_amount
      /\ reading \in [Slots -> {"no", "yes", "token"}] /\ reading[c] = "yes" /\ c # IDLE_PID
  BY <1>0, RunnerFacts DEF TableOK, ProcInv, ReadSleeps, Kernel, Reads, ReadersOK
<1>2. /\ Queue \in Seq(Slots) /\ Len(Queue) \in Nat /\ Value \in Int /\ stale \in Nat
      /\ Value - 1 < 0 /\ sems[Stdin].initialized /\ Len(Queue) = -Value
      /\ overrun \/ Unread \in Int
  <2>1. Value - 1 < 0 /\ sems[Stdin].initialized
    BY DEF ReadSleeps, MustSleep, Value
  <2>2. Queue \in Seq(Slots) /\ Len(Queue) \in Nat /\ Value \in Int
    BY StdinFacts
  <2>3. stale \in Nat /\ Len(Queue) = IF Value < 0 THEN -Value ELSE 0
    BY DEF Reads, StdinOK
  <2>4. overrun \/ Unread \in Int
    BY UnreadIsInt, RingSize
  <2> QED BY <2>1, <2>2, <2>3, <2>4
<1>3. PICK q : q = Append(Queue, c)
  OBVIOUS
<1>4. /\ q \in Seq(Slots) /\ Len(q) = Len(Queue) + 1 /\ q[Len(Queue) + 1] = c
      /\ \A i \in 1 .. Len(Queue) : q[i] = Queue[i]
  BY <1>1, <1>2, <1>3, AppendProperties
<1>5. /\ StdinType' /\ Value' = Value - 1 /\ Queue' = q /\ sems'[Stdin].initialized
  <2>1. sems' = [sems EXCEPT ![Stdin].value = Value - 1, ![Stdin].blocked = q]
    BY <1>1, <1>2, <1>3 DEF ReadSleeps, SemWaitTable, Value, Queue
  <2>2. Value - 1 \in Int
    BY <1>2
  <2>3. StdinType' /\ Value' = Value - 1 /\ Queue' = q
        /\ sems'[Stdin].initialized = sems[Stdin].initialized
    BY <1>4, <2>1, <2>2, StdinBecomes
  <2> QED BY <1>2, <2>3
<1>6. PICK r : r = BlockProcess(Kernel, c)
  OBVIOUS
<1>7. KernelBecomes(r)
  BY <1>1, <1>6 DEF ReadSleeps, SemWaitKernel
<1>8. /\ Settled(r) /\ IdleLives(r) /\ Phases(r) = Phases(Kernel)
      /\ \A p \in Slots \ {c, IDLE_PID} : Untouched(Kernel, r, p)
  BY <1>1, <1>6, BlockPhases
<1>9. r.state[c] = "BLOCKED" /\ r.blocks_amount[c] = 1
  BY <1>1, <1>6, BlockSelf
<1>10. /\ state' = r.state /\ blocks_amount' = r.blocks_amount
       /\ SchedInv' /\ IdleLives(Kernel)'
       /\ \A p \in Slots : Live(p)' <=> Live(p)
  BY <1>1, <1>7, <1>8, KernelNext, SamePhases
<1>11. /\ UNCHANGED <<parent_pid, dad_blocked, waiting, child_amount, dangling>>
       /\ UNCHANGED <<held_back, stale, typed, got, overrun>>
       /\ reading' = [reading EXCEPT ![c] = "token"]
  BY <1>0 DEF ReadSleeps, TableStays, familyVars, historyVars, orderVars
<1>12. TableOK'
  BY <1>10, <1>11 DEF TableOK, ProcInv, FamilyTypeOK
<1>13. /\ reading' \in [Slots -> {"no", "yes", "token"}]
       /\ reading'[c] = "token" /\ \A p \in Slots \ {c} : reading'[p] = reading[p]
  BY <1>1, <1>11
<1>14. Tokens' = Tokens \cup {c} /\ c \notin Tokens /\ IDLE_PID \notin Tokens /\ Tokens \subseteq Slots
  BY <1>1, <1>13 DEF Tokens, Reads, ReadersOK
<1>15. \A p \in Slots : Queued(p) => Queued(p)'
  BY <1>2, <1>4, <1>5 DEF Queued
<1>16. Queued(c)'
  BY <1>2, <1>4, <1>5 DEF Queued
<1>17. \A p \in Tokens : /\ state'[p] = "BLOCKED" <=> state[p] = "BLOCKED"
                         /\ blocks_amount'[p] = blocks_amount[p]
  BY <1>1, <1>8, <1>10, <1>14 DEF Untouched
<1>18. Sleepers \cup {c} \subseteq Sleepers' /\ c \notin Sleepers
  BY <1>1, <1>9, <1>10, <1>14, <1>15, <1>16, <1>17 DEF Sleepers
<1>19. /\ Cardinality(Tokens') = Cardinality(Tokens) + 1
       /\ Cardinality(Sleepers') >= Cardinality(Sleepers) + 1
       /\ Cardinality(Tokens) \in Nat /\ Cardinality(Sleepers) \in Nat /\ Cardinality(Sleepers') \in Nat
  <2>1. Cardinality(Tokens \cup {c}) = Cardinality(Tokens) + 1
    BY <1>14, TokensFinite, FS_AddElement
  <2>2. Cardinality(Sleepers \cup {c}) = Cardinality(Sleepers) + 1
    BY <1>18, TokensFinite, FS_AddElement
  <2>3. Cardinality(Sleepers \cup {c}) <= Cardinality(Sleepers')
    BY <1>18, TokensFinite, FS_Subset
  <2> QED BY <1>14, <2>1, <2>2, <2>3, TokensFinite
<1>20. StdinOK'
  BY <1>2, <1>4, <1>5, <1>11 DEF StdinOK
<1>21. ReadersOK'
  <2>1. ASSUME NEW p \in Tokens'
        PROVE  blocks_amount'[p] <= Calls(p)'
    <3>1. CASE p = c
      BY <1>9, <1>10, <1>16, <3>1 DEF Calls
    <3>2. CASE p # c
      <4>1. p \in Tokens /\ p \in Slots
        BY <1>14, <3>2
      <4>2. blocks_amount[p] <= Calls(p) /\ blocks_amount[p] \in Int
        BY <1>1, <4>1 DEF Reads, ReadersOK, Settled, KernelType
      <4> QED BY <1>11, <1>15, <1>17, <4>1, <4>2 DEF Calls
    <3> QED BY <3>1, <3>2
  <2>2. \A p \in Slots : reading'[p] # "no" => Live(p)' /\ p # IDLE_PID
    BY <1>1, <1>10, <1>13 DEF Reads, ReadersOK
  <2>3. \A p \in Slots : reading'[p] # "yes"
    BY <1>0, <1>1, <1>13 DEF Reads, ReadersOK
  <2> QED BY <1>13, <2>1, <2>2, <2>3 DEF ReadersOK
<1>22. Covered'
  <2> SUFFICES ASSUME ~overrun
               PROVE  Unread <= Value' + Cardinality(Tokens') + stale
    BY <1>11 DEF Covered, Unread
  <2>1. Unread <= Value + Cardinality(Tokens) + stale
    BY DEF Reads, Covered
  <2> QED BY <1>2, <1>5, <1>19, <2>1
<1>23. Paid'
  <2>1. Len(Queue) <= Cardinality(Sleepers) + stale
    BY DEF Reads, Paid
  <2>2. Len(Queue') <= Cardinality(Sleepers') + stale
    BY <1>2, <1>4, <1>5, <1>19, <2>1
  <2> QED BY <1>11, <2>2 DEF Paid
<1> QED BY <1>5, <1>10, <1>11, <1>12, <1>20, <1>21, <1>22, <1>23 DEF Reads

\* A reader that finds no character has not overlooked one.
LEMMA NothingToRead ==
  ASSUME Ordered, ReadKey = 0
  PROVE  Unread = 0
<1> SUFFICES ASSUME Unread # 0
             PROVE  FALSE
  OBVIOUS
<1>1. PICK r, u, g : r = ascii_read_index /\ u = Unread /\ g = Len(got)
  OBVIOUS
<1>2. u \in 0 .. KEY_BUF_SIZE /\ u # 0 /\ g \in Nat /\ KEY_BUF_SIZE \in Nat /\ ascii_to_read
  BY <1>1, RingSize, LenProperties DEF Ordered
<1>3. 0 \in 0 .. u - 1 /\ Place(r, 0) = r
  BY <1>1, <1>2, PlaceFacts DEF Ordered
<1>4. ascii_buf[Place(r, 0)] = g + 0 + 1
  BY <1>1, <1>3 DEF Ordered, Holds
<1> QED BY <1>1, <1>2, <1>3, <1>4 DEF ReadKey

\* What a turn of the loop of read_chars() takes: a token, and a character
\* unless there is none.
LEMMA ReadsTurn ==
  ASSUME Reads, TableOK, StdinType, RingInv, ReadTurns
  PROVE  Reads' /\ StdinType'
<1>0. PICK c : c = Caller
  OBVIOUS
<1>1. /\ c \in Slots /\ state[c] = "RUNNING"
      /\ reading \in [Slots -> {"no", "yes", "token"}] /\ reading[c] \in {"yes", "token"}
      /\ sems[Stdin].initialized /\ stale \in Nat
  BY <1>0, RunnerFacts DEF TableOK, ProcInv, ReadTurns, InRead, Reads, ReadersOK, StdinOK
<1>2. /\ Queue \in Seq(Slots) /\ Len(Queue) \in Nat /\ Value \in Int
      /\ Len(Queue) = IF Value < 0 THEN -Value ELSE 0
      /\ overrun \/ Unread \in Int
  BY StdinFacts, UnreadIsInt, RingSize DEF Reads, StdinOK
<1>3. /\ UNCHANGED <<schedVars, held_back, stale, typed, overrun>>
      /\ reading' = [reading EXCEPT ![c] = IF ReadKey = 0 THEN "yes" ELSE "no"]
      /\ got' = IF ReadKey = 0 THEN got ELSE Append(got, ReadKey)
  BY <1>0 DEF ReadTurns, procVars, orderVars
<1>4. /\ StdinType' /\ sems'[Stdin].initialized /\ Queue' = Queue
      /\ Value' = Value - (IF reading[c] = "token" THEN 0 ELSE 1)
      /\ reading[c] = "yes" => Value >= 1
  <2>1. CASE reading[c] = "token"
    <3>1. sems' = sems
      BY <1>0, <2>1 DEF ReadTurns
    <3> QED BY <1>1, <1>2, <2>1, <3>1 DEF StdinType, Value, Queue
  <2>2. CASE reading[c] = "yes"
    <3>1. ~MustSleep(sems, Stdin) /\ sems' = SemWaitTable(Kernel, sems, Stdin)
      BY <1>0, <2>2 DEF ReadTurns
    <3>2. Value - 1 >= 0
      BY <1>1, <1>2, <3>1 DEF MustSleep, Value
    <3>3. sems' = [sems EXCEPT ![Stdin].value = Value - 1, ![Stdin].blocked = Queue]
      BY <1>1, <3>1 DEF SemWaitTable, Value, Queue
    <3>4. Value - 1 \in Int
      BY <1>2
    <3>5. StdinType' /\ Value' = Value - 1 /\ Queue' = Queue
          /\ sems'[Stdin].initialized = sems[Stdin].initialized
      BY <1>2, <3>3, <3>4, StdinBecomes
    <3> QED BY <1>1, <1>2, <2>2, <3>2, <3>5
  <2> QED BY <1>1, <2>1, <2>2
<1>5. /\ reading' \in [Slots -> {"no", "yes", "token"}]
      /\ reading'[c] # "token" /\ \A p \in Slots \ {c} : reading'[p] = reading[p]
  BY <1>1, <1>3
<1>6. Tokens' = Tokens \ {c} /\ (c \in Tokens <=> reading[c] = "token")
  BY <1>1, <1>5 DEF Tokens
<1>7. \A p \in Slots : (Queued(p)' <=> Queued(p)) /\ Calls(p)' = Calls(p) /\ (Live(p)' <=> Live(p))
  BY <1>3, <1>4 DEF Queued, Calls, Live, schedVars
<1>8. Sleepers' = Sleepers /\ c \notin Sleepers
  BY <1>1, <1>3, <1>6, <1>7 DEF Sleepers, Tokens, schedVars
<1>9. /\ Cardinality(Tokens') = Cardinality(Tokens) - (IF reading[c] = "token" THEN 1 ELSE 0)
      /\ Cardinality(Tokens) \in Nat /\ Cardinality(Tokens') \in Nat
      /\ Cardinality(Sleepers) \in Nat /\ Cardinality(Sleepers) <= Cardinality(Tokens')
  <2>1. Sleepers \subseteq Tokens'
    BY <1>6, <1>8 DEF Sleepers
  <2> QED BY <1>6, <2>1, TokensFinite, FS_RemoveElement, FS_Subset
<1>10. StdinOK' /\ Paid'
  <2>1. StdinOK'
    <3>1. Len(Queue') = IF Value' < 0 THEN -Value' ELSE 0
      BY <1>1, <1>2, <1>4
    <3> QED BY <1>1, <1>3, <1>4, <3>1 DEF StdinOK
  <2> QED BY <1>3, <1>4, <1>8, <2>1 DEF Paid, Reads
<1>11. ReadersOK'
  <2>1. \A p \in Tokens' : p \in Tokens /\ blocks_amount'[p] = blocks_amount[p] /\ Calls(p)' = Calls(p)
    BY <1>3, <1>6, <1>7 DEF schedVars, Tokens
  <2>2. \A p \in Slots : reading'[p] # "no" => Live(p)' /\ p # IDLE_PID
    BY <1>1, <1>5, <1>7 DEF Reads, ReadersOK
  <2>3. \A p \in Slots : reading'[p] = "yes" => p = Caller'
    BY <1>0, <1>3, <1>5 DEF Reads, ReadersOK, schedVars, Caller
  <2> QED BY <1>5, <2>1, <2>2, <2>3 DEF Reads, ReadersOK
<1>12. Covered'
  <2> SUFFICES ASSUME ~overrun
               PROVE  Unread' <= Value' + Cardinality(Tokens') + stale
    BY <1>3 DEF Covered
  <2>1. Ordered /\ Unread \in Int /\ Unread <= Value + Cardinality(Tokens) + stale
    BY <1>2 DEF RingInv, Reads, Covered
  <2>2. CASE ReadKey = 0
    <3>1. Unread' = 0
      BY <1>3, <2>1, <2>2, NothingToRead DEF Unread
    <3>2. 0 <= Value' + Cardinality(Tokens') + stale
      <4>1. Len(Queue) <= Cardinality(Sleepers) + stale
        BY DEF Reads, Paid
      <4> QED BY <1>1, <1>2, <1>4, <1>9, <4>1
    <3> QED BY <3>1, <3>2
  <2>3. CASE ReadKey # 0
    <3>1. got' = Append(got, ReadKey) /\ got \in Seq(Nat) /\ ReadKey \in Nat
      <4>1. ascii_to_read /\ ReadKey = ascii_buf[ascii_read_index]
        BY <2>3 DEF ReadKey
      <4> QED BY <1>3, <2>1, <2>3, <4>1 DEF Ordered
    <3>2. Len(got') = Len(got) + 1 /\ Len(got) \in Nat
      BY <3>1, AppendProperties, LenProperties
    <3>3. Len(typed) \in Nat /\ typed' = typed
      BY <1>3, <2>1, LenProperties DEF Ordered
    <3>4. Unread' = Unread - 1
      BY <3>2, <3>3 DEF Unread
    <3> QED BY <1>1, <1>2, <1>4, <1>9, <2>1, <3>4
  <2> QED BY <2>2, <2>3
<1> QED BY <1>4, <1>10, <1>11, <1>12 DEF Reads

\* The user blocks a process.
LEMMA ReadsHold ==
  ASSUME Reads, TableOK, StdinType, NEW q \in Slots \ held_back, SysBlock(q), TableStays,
         held_back' = (IF Live(q) THEN held_back \cup {q} ELSE held_back),
         UNCHANGED <<sems, reading, stale, typed, got, overrun>>,
         \A p \in Slots : reading[p] # "yes"
  PROVE  /\ Reads' /\ TableOK'
         /\ \A p \in Slots : Live(p)' <=> Live(p)
         /\ UNCHANGED <<parent_pid, dad_blocked, waiting>>
<1>1. /\ SchedInv /\ Settled(Kernel) /\ IdleLives(Kernel)
      /\ Kernel.state = state /\ Kernel.blocks_amount = blocks_amount
      /\ blocks_amount \in [Slots -> Int] /\ q \in Slots
  BY RunnerFacts DEF TableOK, ProcInv, Settled, KernelType, Kernel
<1>2. PICK r : r = BlockProcess(Kernel, q)
  OBVIOUS
<1>3. /\ Settled(r) /\ IdleLives(r) /\ Phases(r) = Phases(Kernel)
      /\ \A p \in Slots \ {q, IDLE_PID} : Untouched(Kernel, r, p)
  BY <1>1, <1>2, BlockPhases
<1>4. KernelBecomes(r)
  BY <1>2 DEF SysBlock
<1>5. /\ TableOK'
      /\ \A p \in Slots : Live(p)' <=> Live(p)
      /\ UNCHANGED <<parent_pid, dad_blocked, waiting>>
      /\ state' = r.state /\ blocks_amount' = r.blocks_amount
  BY <1>3, <1>4, TableKept
<1>6. /\ Queue' = Queue /\ Value' = Value /\ Tokens' = Tokens /\ Unread' = Unread
      /\ \A p \in Slots : Queued(p)' <=> Queued(p)
  BY DEF Queue, Value, Tokens, Unread, Queued
<1>7. \A p \in Tokens : p \in Slots /\ Live(p) /\ p # IDLE_PID
  BY DEF Tokens, Reads, ReadersOK
<1>8. \A p \in Tokens \ {q} : /\ state'[p] = "BLOCKED" <=> state[p] = "BLOCKED"
                              /\ blocks_amount'[p] = blocks_amount[p]
                              /\ Calls(p)' >= Calls(p) /\ Calls(p)' \in Int /\ Calls(p) \in Int
  BY <1>1, <1>3, <1>5, <1>6, <1>7 DEF Untouched, Calls
<1>9. ASSUME q \in Tokens
      PROVE  /\ state'[q] = "BLOCKED" /\ blocks_amount'[q] = blocks_amount[q] + 1
             /\ Calls(q)' = Calls(q) + 1 /\ Calls(q) \in Int
  <2>1. state[q] \in {"READY", "RUNNING", "BLOCKED"} /\ q # IDLE_PID
    BY <1>7, <1>9 DEF Live
  <2>2. r.state[q] = "BLOCKED" /\ r.blocks_amount[q] = Kernel.blocks_amount[q] + 1
    BY <1>1, <1>2, <2>1, WaitingSleep
  <2>3. q \notin held_back /\ q \in held_back'
    BY <1>7, <1>9
  <2> QED BY <1>1, <1>5, <1>6, <2>2, <2>3 DEF Calls
<1>10. Sleepers \subseteq Sleepers'
  BY <1>6, <1>8, <1>9 DEF Sleepers, Tokens
<1>11. Cardinality(Sleepers) <= Cardinality(Sleepers')
  BY <1>10, TokensFinite, FS_Subset
<1>12. StdinOK' /\ Covered'
  BY <1>6 DEF Reads, StdinOK, Covered
<1>13. Paid'
  <2>1. Len(Queue) <= Cardinality(Sleepers) + stale /\ Len(Queue) \in Nat /\ stale \in Nat
    BY StdinFacts DEF Reads, Paid, StdinOK
  <2>2. Len(Queue) <= Cardinality(Sleepers') + stale
    BY <1>11, <2>1, TokensFinite
  <2> QED BY <1>6, <2>2 DEF Paid
<1>14. ReadersOK'
  <2>1. ASSUME NEW p \in Tokens
        PROVE  blocks_amount'[p] <= Calls(p)'
    <3>1. blocks_amount[p] <= Calls(p) /\ blocks_amount[p] \in Int
      BY <1>1, <1>7 DEF Reads, ReadersOK
    <3> QED BY <1>8, <1>9, <3>1
  <2> QED BY <1>5, <1>6, <2>1 DEF Reads, ReadersOK
<1> QED BY <1>5, <1>12, <1>13, <1>14 DEF Reads

\* The user unblocks a process: if that wakes it up in read(), the place it had
\* in the queue is stale from now on.
LEMMA ReadsRelease ==
  ASSUME Reads, TableOK, StdinType, RingInv, NEW q \in Slots, SysUnblock(q), TableStays,
         held_back' = held_back \ {q},
         stale' = stale + (IF state[q] = "BLOCKED" /\ state'[q] = "READY" /\ Queued(q)
                           THEN 1 ELSE 0),
         UNCHANGED <<sems, reading, typed, got, overrun>>,
         \A p \in Slots : reading[p] # "yes"
  PROVE  /\ Reads' /\ TableOK'
         /\ \A p \in Slots : Live(p)' <=> Live(p)
         /\ UNCHANGED <<parent_pid, dad_blocked, waiting>>
<1>1. /\ SchedInv /\ Settled(Kernel) /\ IdleLives(Kernel)
      /\ Kernel.state = state /\ Kernel.blocks_amount = blocks_amount
      /\ blocks_amount \in [Slots -> Int] /\ q \in Slots
      /\ Kernel \in KernelType /\ Counted(Kernel)
  BY RunnerFacts DEF TableOK, ProcInv, Settled, KernelType, Kernel
<1>2. PICK r : r = UnblockProcess(Kernel, q)
  OBVIOUS
<1>3. /\ Settled(r) /\ IdleLives(r) /\ Phases(r) = Phases(Kernel)
  BY <1>1, <1>2, UnblockPhases
<1>4. KernelBecomes(r)
  BY <1>2 DEF SysUnblock
<1>5. /\ TableOK'
      /\ \A p \in Slots : Live(p)' <=> Live(p)
      /\ UNCHANGED <<parent_pid, dad_blocked, waiting>>
      /\ state' = r.state /\ blocks_amount' = r.blocks_amount
  BY <1>3, <1>4, TableKept
<1>6. /\ Queue' = Queue /\ Value' = Value /\ Tokens' = Tokens /\ Unread' = Unread
      /\ \A p \in Slots : Queued(p)' <=> Queued(p)
  BY DEF Queue, Value, Tokens, Unread, Queued
<1>7. \A p \in Tokens : /\ p \in Slots /\ p # IDLE_PID
                        /\ state[p] \in {"READY", "RUNNING", "BLOCKED"}
                        /\ blocks_amount[p] <= Calls(p) /\ blocks_amount[p] \in Int
  BY <1>1 DEF Tokens, Reads, ReadersOK, Live
<1>8. /\ \A p \in Slots \ {q} : /\ state'[p] = state[p] /\ blocks_amount'[p] = blocks_amount[p]
      /\ state[q] # "BLOCKED" => state' = state /\ blocks_amount' = blocks_amount
      /\ state[q] = "BLOCKED" =>
           /\ state'[q] = IF blocks_amount[q] > 1 THEN "BLOCKED" ELSE "READY"
           /\ blocks_amount'[q] = blocks_amount[q] - 1
  <2>1. /\ \A p \in Slots \ {q} : /\ r.state[p] = Kernel.state[p]
                                  /\ r.blocks_amount[p] = Kernel.blocks_amount[p]
        /\ Kernel.state[q] # "BLOCKED" => r = Kernel
        /\ Kernel.state[q] = "BLOCKED" =>
             /\ r.state[q] = IF Kernel.blocks_amount[q] > 1 THEN "BLOCKED" ELSE "READY"
             /\ r.blocks_amount[q] = Kernel.blocks_amount[q] - 1
    <3> DEFINE u == UnblockProcess(Kernel, q)
    <3>1. /\ \A p \in Slots \ {q} : /\ u.state[p] = Kernel.state[p]
                                    /\ u.blocks_amount[p] = Kernel.blocks_amount[p]
          /\ Kernel.state[q] # "BLOCKED" => u = Kernel
          /\ Kernel.state[q] = "BLOCKED" =>
               /\ u.state[q] = IF Kernel.blocks_amount[q] > 1 THEN "BLOCKED" ELSE "READY"
               /\ u.blocks_amount[q] = Kernel.blocks_amount[q] - 1
      <4>1. q \in Slots /\ Kernel \in KernelType /\ Counted(Kernel)
        BY <1>1
      <4> QED BY <4>1, UnblockProcessFacts, Zenon
    <3> HIDE DEF u
    <3>2. r = u
      BY <1>2 DEF u
    <3> QED BY <3>1, <3>2
  <2> QED BY <1>1, <1>5, <2>1
<1>9. \A p \in Tokens : blocks_amount'[p] <= Calls(p)'
  <2> SUFFICES ASSUME NEW p \in Tokens
               PROVE  blocks_amount'[p] <= Calls(p)'
    OBVIOUS
  <2>1. PICK b \in {0, 1} : b = IF Queued(p) THEN 1 ELSE 0
    OBVIOUS
  <2>2. Calls(p) = (IF p \in held_back THEN 1 ELSE 0) + b
    BY <2>1 DEF Calls
  <2>3. Calls(p)' = (IF p \in held_back' THEN 1 ELSE 0) + b
    <3>1. CASE Queued(p)
      BY <1>6, <1>7, <2>1, <3>1 DEF Calls
    <3>2. CASE ~Queued(p)
      BY <1>6, <1>7, <2>1, <3>2 DEF Calls
    <3> QED BY <3>1, <3>2
  <2>4. CASE p # q
    BY <1>7, <1>8, <2>2, <2>3, <2>4
  <2>5. CASE p = q
    <3>1. p \notin held_back' /\ Calls(p)' = b
      BY <2>3, <2>5
    <3>2. CASE state[q] # "BLOCKED"
      <4>1. blocks_amount[q] = 0
        BY <1>1, <1>7, <2>5, <3>2 DEF Counted
      <4> QED BY <1>8, <2>5, <3>1, <3>2, <4>1
    <3>3. CASE state[q] = "BLOCKED"
      BY <1>7, <1>8, <2>2, <2>5, <3>1, <3>3
    <3> QED BY <3>2, <3>3
  <2> QED BY <2>4, <2>5
<1>10. PICK d \in {0, 1} : d = IF state[q] = "BLOCKED" /\ state'[q] = "READY" /\ Queued(q)
                               THEN 1 ELSE 0
  OBVIOUS
<1>11. stale' = stale + d /\ stale \in Nat /\ stale' \in Nat
  BY <1>10 DEF Reads, StdinOK
<1>12. d = 0 => Sleepers \subseteq Sleepers'
  <2> SUFFICES ASSUME d = 0, NEW p \in Sleepers
               PROVE  p \in Sleepers'
    OBVIOUS
  <2>1. p \in Tokens /\ state[p] = "BLOCKED" /\ Queued(p) /\ p \in Slots
    BY <1>7 DEF Sleepers
  <2>2. state'[p] = "BLOCKED"
    BY <1>8, <1>10, <2>1
  <2> QED BY <1>6, <2>1, <2>2 DEF Sleepers
<1>13. Sleepers \subseteq Sleepers' \cup {q}
  BY <1>6, <1>7, <1>8 DEF Sleepers
<1>14. Cardinality(Sleepers) <= Cardinality(Sleepers') + d
  <2>1. CASE d = 0
    BY <1>12, <2>1, TokensFinite, FS_Subset
  <2>2. CASE d = 1
    <3>1. /\ IsFiniteSet(Sleepers' \cup {q})
          /\ Cardinality(Sleepers' \cup {q}) <= Cardinality(Sleepers') + 1
      <4>1. IsFiniteSet(Sleepers') /\ Cardinality(Sleepers') \in Nat
        BY TokensFinite
      <4>2. PICK S : S = Sleepers'
        OBVIOUS
      <4>3. /\ IsFiniteSet(S \cup {q})
            /\ Cardinality(S \cup {q}) = IF q \in S THEN Cardinality(S) ELSE Cardinality(S) + 1
        BY <4>1, <4>2, FS_AddElement
      <4> QED BY <4>1, <4>2, <4>3
    <3>2. Cardinality(Sleepers) <= Cardinality(Sleepers' \cup {q})
      BY <1>13, <3>1, FS_Subset
    <3> QED BY <2>2, <3>1, <3>2, TokensFinite, FS_CardinalityType
  <2> QED BY <2>1, <2>2
<1>15. StdinOK'
  BY <1>6, <1>11 DEF Reads, StdinOK
<1>16. ReadersOK'
  BY <1>5, <1>6, <1>9 DEF Reads, ReadersOK
<1>17. Covered'
  <2> SUFFICES ASSUME ~overrun
               PROVE  Unread <= Value + Cardinality(Tokens) + stale'
    BY <1>6 DEF Covered
  <2>1. /\ Unread <= Value + Cardinality(Tokens) + stale
        /\ Unread \in Int /\ Value \in Int /\ Cardinality(Tokens) \in Nat
    BY StdinFacts, UnreadIsInt, RingSize, TokensFinite DEF Reads, Covered
  <2> QED BY <1>11, <2>1
<1>18. Paid'
  <2>1. Len(Queue) <= Cardinality(Sleepers) + stale /\ Len(Queue) \in Nat
    BY StdinFacts DEF Reads, Paid
  <2>2. Len(Queue) <= Cardinality(Sleepers') + stale'
    BY <1>11, <1>14, <2>1, TokensFinite
  <2> QED BY <1>6, <2>2 DEF Paid
<1> QED BY <1>5, <1>15, <1>16, <1>17, <1>18 DEF Reads

-----------------------------------------------------------------------------
(* The steps while the shell lives.                                        *)

LEMMA WorkFacts ==
  ASSUME Working
  PROVE  /\ SchedInv /\ Settled(Kernel) /\ IdleLives(Kernel) /\ Kernel.current_index = Caller
         /\ Caller \in Slots /\ state[Caller] = "RUNNING" /\ Live(Caller)
         /\ GetPid(Kernel) = Caller
         /\ Kernel.state = state /\ Kernel.blocks_amount = blocks_amount
         /\ CurrentRuns(Kernel)
         /\ Shell = SHELL_PID /\ Shell \in Slots \ {IDLE_PID} /\ Shell \notin Programs
         /\ FamilyShape(Family)
         /\ UserRuns <=> Caller # IDLE_PID
<1>1. /\ SchedInv /\ Settled(Kernel) /\ IdleLives(Kernel) /\ Kernel.current_index = Caller
      /\ Caller \in Slots /\ state[Caller] = "RUNNING" /\ GetPid(Kernel) = Caller
      /\ Kernel.state = state /\ Kernel.blocks_amount = blocks_amount
  BY RunnerFacts DEF Working, TableOK, ProcInv, Kernel
<1>2. CurrentRuns(Kernel)
  BY <1>1 DEF CurrentRuns
<1>3. Shell = SHELL_PID /\ Shell \in Slots \ {IDLE_PID} /\ Shell \notin Programs
  BY ShellIsNotIdle DEF Shell, Programs
<1>4. FamilyShape(Family)
  BY FamilyIs DEF Working, TableOK
<1> QED BY <1>1, <1>2, <1>3, <1>4 DEF Live, UserRuns

\* Outside of a call nobody is between two steps of read().
LEMMA NobodyReads ==
  ASSUME Working, InUser \/ Interruptible
  PROVE  /\ \A p \in Slots : reading[p] # "yes"
         /\ reading[Caller] = "no" /\ waiting[Caller] = NoPid
<1>1. ~InRead /\ ~InWait
  BY DEF InUser, Interruptible
<1>2. reading[Caller] = "no" /\ waiting[Caller] = NoPid
  BY <1>1, WorkFacts DEF InRead, InWait
<1> QED BY <1>2 DEF Working, Reads, ReadersOK

LEMMA ShellKept ==
  ASSUME ShellOK, UNCHANGED <<parent_pid, dad_blocked, waiting>>, Live(Shell)',
         waiting[Shell] # NoPid => reading'[Shell] = "no"
  PROVE  ShellOK'
BY DEF ShellOK, Shell

\* Steps of programs that concern neither processes nor semaphores.
LEMMA QuietWorks ==
  ASSUME Working, UNCHANGED <<procVars, sems, reading, held_back, stale, typed, got, overrun>>,
         LabelsOK'
  PROVE  Working'
<1>1. /\ UNCHANGED <<schedVars, familyVars, waiting, dangling>>
      /\ UNCHANGED <<parent_pid, dad_blocked, child_amount>>
  BY DEF procVars, familyVars
<1>2. Kernel' = Kernel /\ Caller' = Caller /\ \A p \in Slots : Live(p)' <=> Live(p)
  BY <1>1 DEF Kernel, schedVars, Caller, Live
<1>3. TableOK'
  <2>1. SchedInv'
    BY <1>1, SchedNextInv, WorkFacts
  <2> QED BY <1>1, <1>2, <2>1 DEF Working, TableOK, ProcInv, FamilyTypeOK, IdleLives
<1>4. Reads'
  <2>1. \A p \in Slots : Untouched(Kernel, Kernel', p)
    BY <1>2 DEF Untouched
  <2>2. \A p \in Slots : reading[p] = "yes" => p = Caller'
    BY <1>2 DEF Working, Reads, ReadersOK
  <2> QED BY <2>1, <2>2, ReadsKept DEF Working
<1>5. ShellOK'
  BY <1>1, <1>2, ShellKept, WorkFacts DEF Working, ShellOK
<1> QED BY <1>3, <1>4, <1>5 DEF Working, StdinType

LEMMA QuietSteps ==
  ASSUME Working, ShellParses \/ ShellCannotCreate \/ ShellUpdates \/ CatStarts \/ LoopStarts
  PROVE  Working'
<1>1. /\ UNCHANGED <<procVars, sems, reading, held_back, stale, typed, got, overrun>>
      /\ \/ \E l \in {"create", "prompt", "yield", "wait"} : Goto(Shell, l)
         \/ \E l \in {"cat", "exit", "loop"} : Goto(Caller, l)
  BY DEF ShellParses, ShellCannotCreate, ShellUpdates, CatStarts, LoopStarts, historyVars, orderVars
<1>2. LabelsOK'
  BY <1>1, WorkFacts DEF Working, LabelsOK, Goto, Shell
<1> QED BY <1>1, <1>2, QuietWorks

LEMMA ReadStarts ==
  ASSUME Working, ShellReads \/ CatReads
  PROVE  Working'
<1>1. /\ UNCHANGED <<procVars, sems, pc, historyVars>> /\ InUser
      /\ reading' = [reading EXCEPT ![Caller] = "yes"]
  BY DEF ShellReads, CatReads, StartsReading, At
<1>2. /\ UNCHANGED <<schedVars, familyVars, waiting, dangling>>
      /\ UNCHANGED <<parent_pid, dad_blocked, child_amount>>
  BY <1>1 DEF procVars, familyVars
<1>3. /\ \A p \in Slots : reading[p] # "yes"
      /\ reading[Caller] = "no" /\ waiting[Caller] = NoPid
      /\ Caller \in Slots \ {IDLE_PID} /\ Live(Caller)
  BY <1>1, NobodyReads, WorkFacts DEF InUser
<1>4. \A p \in Slots : Live(p)' <=> Live(p)
  BY <1>2 DEF schedVars, Live
<1>5. TableOK'
  <2>1. SchedInv'
    BY <1>2, SchedNextInv, WorkFacts
  <2> QED BY <1>2, <2>1 DEF Working, TableOK, ProcInv, FamilyTypeOK, IdleLives, schedVars, Kernel
<1>6. Reads'
  BY <1>1, <1>2, <1>3, ReadsStart DEF Working
<1>7. ShellOK'
  <2>1. waiting[Shell] # NoPid => reading'[Shell] = "no"
    BY <1>1, <1>3 DEF Working, ShellOK, Reads, ReadersOK
  <2> QED BY <1>2, <1>4, <2>1, ShellKept, WorkFacts DEF Working, ShellOK
<1> QED BY <1>1, <1>5, <1>6, <1>7 DEF Working, StdinType, LabelsOK, Shell

LEMMA ReadGoesOn ==
  ASSUME Working, RingInv, ReadSleeps \/ ReadTurns
  PROVE  Working'
<1>1. /\ reading[Caller] # "no"
      /\ \E x : reading' = [reading EXCEPT ![Caller] = x]
  BY DEF ReadSleeps, ReadTurns, InRead
<1>2. waiting[Shell] # NoPid => reading'[Shell] = "no"
  BY <1>1 DEF Working, ShellOK, Reads, ReadersOK
<1>3. CASE ReadSleeps
  <2>1. /\ Reads' /\ TableOK' /\ StdinType'
        /\ \A p \in Slots : Live(p)' <=> Live(p)
        /\ UNCHANGED <<parent_pid, dad_blocked, waiting>>
    BY <1>3, ReadsSleep DEF Working
  <2>2. ShellOK'
    BY <1>2, <2>1, ShellKept, WorkFacts DEF Working, ShellOK
  <2>3. pc' = pc
    BY <1>3 DEF ReadSleeps
  <2> QED BY <2>1, <2>2, <2>3 DEF Working, LabelsOK, Shell
<1>4. CASE ReadTurns
  <2>1. Reads' /\ StdinType' /\ UNCHANGED procVars
    BY <1>4, ReadsTurn DEF Working, ReadTurns
  <2>2. /\ UNCHANGED <<schedVars, familyVars, waiting, dangling>>
        /\ UNCHANGED <<parent_pid, dad_blocked, child_amount>>
    BY <2>1 DEF procVars, familyVars
  <2>3. TableOK' /\ Live(Shell)'
    <3>1. SchedInv'
      BY <2>2, SchedNextInv, WorkFacts
    <3>2. Live(Shell)'
      BY <2>2 DEF Working, ShellOK, Live, schedVars, Shell
    <3> QED BY <2>2, <3>1, <3>2 DEF Working, TableOK, ProcInv, FamilyTypeOK, IdleLives, schedVars, Kernel
  <2>4. ShellOK'
    BY <1>2, <2>2, <2>3, ShellKept DEF Working
  <2>5. LabelsOK'
    <3>1. \/ pc' = pc
          \/ \E l : pc' = [pc EXCEPT ![Caller] = l]
                    /\ (Caller # Shell => l \in {"exit", pc[Caller]})
      BY <1>4 DEF ReadTurns, Goto, After
    <3> QED BY <3>1, WorkFacts DEF Working, LabelsOK, Shell
  <2> QED BY <2>1, <2>3, <2>4, <2>5 DEF Working
<1> QED BY <1>3, <1>4

\* A step that moves the CPU, or blocks and wakes up none who reads.
LEMMA MovesWork ==
  ASSUME Working, TableStays, NEW r, KernelBecomes(r), Settled(r), IdleLives(r),
         Phases(r) = Phases(Kernel),
         \A p \in Slots \ {IDLE_PID} : reading[p] # "no" => Untouched(Kernel, r, p),
         UNCHANGED <<sems, reading, held_back, stale, typed, got, overrun>>,
         \A p \in Slots : reading[p] # "yes", LabelsOK'
  PROVE  Working'
<1>1. /\ TableOK'
      /\ \A p \in Slots : Live(p)' <=> Live(p)
      /\ UNCHANGED <<parent_pid, dad_blocked, waiting>>
      /\ state' = r.state /\ blocks_amount' = r.blocks_amount
  BY TableKept DEF Working
<1>2. Reads'
  <2>1. ASSUME NEW p \in Slots, reading[p] # "no"
        PROVE  Untouched(Kernel, Kernel', p)
    <3>1. Untouched(Kernel, r, p)
      BY <2>1 DEF Working, Reads, ReadersOK
    <3> QED BY <1>1, <3>1 DEF Untouched, Kernel
  <2> QED BY <2>1, ReadsKept DEF Working
<1>3. ShellOK'
  BY <1>1, ShellKept, WorkFacts DEF Working, ShellOK
<1> QED BY <1>1, <1>2, <1>3 DEF Working, StdinType

LEMMA CpuMoves ==
  ASSUME Working, TermTick \/ ShellYields
  PROVE  Working'
<1>1. \A p \in Slots : reading[p] # "yes"
  BY NobodyReads DEF TermTick, ShellYields, At
<1>2. PICK r \in {Scheduling(Kernel), Yield(Kernel)} : KernelBecomes(r)
  BY DEF TermTick, TimerTick, ShellYields, SysYield
<1>3. Coherent(Kernel)
  BY WorkFacts, SettledCoherent
<1>4. Settled(r) /\ SameSleepers(Kernel, r)
  BY <1>2, <1>3, SchedulingFacts, SchedulingSleepers, YieldFacts, YieldSleepers
<1>5. IdleLives(r) /\ Phases(r) = Phases(Kernel)
  BY <1>3, <1>4, SleepersPhases, WorkFacts
<1>6. \A p \in Slots \ {IDLE_PID} : Untouched(Kernel, r, p)
  BY <1>4 DEF SameSleepers
<1>7. /\ UNCHANGED <<sems, reading, held_back, stale, typed, got, overrun>> /\ TableStays
      /\ pc' = pc \/ Goto(Shell, "prompt")
  BY DEF TermTick, ShellYields, userVars, historyVars, orderVars
<1>8. LabelsOK'
  BY <1>7, WorkFacts DEF Working, LabelsOK, Goto, Shell
<1> QED BY <1>1, <1>2, <1>4, <1>5, <1>6, <1>7, <1>8, MovesWork

LEMMA OrdersWork ==
  ASSUME Working, RingInv, Blocks \/ Unblocks
  PROVE  Working'
<1>1. /\ \A p \in Slots : reading[p] # "yes"
      /\ reading[Caller] = "no" /\ waiting[Caller] = NoPid
  BY NobodyReads DEF Blocks, Unblocks, At
<1>2. /\ UNCHANGED <<sems, reading, typed, got, overrun>> /\ TableStays
      /\ Goto(Caller, "exit")
  BY DEF Blocks, Unblocks
<1>3. LabelsOK'
  BY <1>2, WorkFacts DEF Working, LabelsOK, Goto, Shell
<1>4. ASSUME Reads', TableOK', \A p \in Slots : Live(p)' <=> Live(p),
             UNCHANGED <<parent_pid, dad_blocked, waiting>>
      PROVE  Working'
  <2>1. ShellOK'
    BY <1>2, <1>4, ShellKept, WorkFacts DEF Working, ShellOK
  <2> QED BY <1>2, <1>3, <1>4, <2>1 DEF Working, StdinType
<1>5. CASE Blocks
  <2>1. PICK p \in Targets \ held_back :
          IF p = Caller THEN UNCHANGED <<schedVars, held_back>>
          ELSE /\ SysBlock(p)
               /\ held_back' = IF Live(p) THEN held_back \cup {p} ELSE held_back
    BY <1>5 DEF Blocks
  <2>2. stale' = stale /\ p \in Slots \ held_back
    BY <1>5, <2>1, TargetsAssumption DEF Blocks
  <2>3. CASE p = Caller
    <3>1. KernelBecomes(Kernel) /\ held_back' = held_back
      BY <2>1, <2>3 DEF KernelBecomes, Kernel, schedVars
    <3>2. \A q \in Slots : Untouched(Kernel, Kernel, q)
      BY DEF Untouched
    <3> QED BY <1>1, <1>2, <1>3, <2>2, <3>1, <3>2, MovesWork, WorkFacts
  <2>4. CASE p # Caller
    <3>1. SysBlock(p) /\ held_back' = IF Live(p) THEN held_back \cup {p} ELSE held_back
      BY <2>1, <2>4
    <3> QED BY <1>1, <1>2, <1>4, <2>2, <3>1, ReadsHold DEF Working
  <2> QED BY <2>3, <2>4
<1>6. CASE Unblocks
  <2>1. PICK p \in Targets :
          /\ SysUnblock(p)
          /\ held_back' = held_back \ {p}
          /\ stale' = stale + IF /\ state[p] = "BLOCKED" /\ state'[p] = "READY"
                                /\ \E i \in DOMAIN sems[Stdin].blocked :
                                     sems[Stdin].blocked[i] = p
                             THEN 1 ELSE 0
    BY <1>6 DEF Unblocks
  <2>2. p \in Slots
    BY TargetsAssumption
  <2>3. (\E i \in DOMAIN sems[Stdin].blocked : sems[Stdin].blocked[i] = p) <=> Queued(p)
    <3>1. Queue \in Seq(Slots)
      BY StdinFacts DEF Working
    <3>2. DOMAIN Queue = 1 .. Len(Queue)
      BY <3>1, LenProperties
    <3> QED BY <3>2 DEF Queued, Queue
  <2>4. stale' = stale + (IF state[p] = "BLOCKED" /\ state'[p] = "READY" /\ Queued(p)
                          THEN 1 ELSE 0)
    BY <2>1, <2>3
  <2> QED BY <1>1, <1>2, <1>4, <2>1, <2>2, <2>4, ReadsRelease DEF Working
<1> QED BY <1>5, <1>6

\* A key, whatever the state of the ring.
LEMMA KeysWork ==
  ASSUME Working, RingInv, RingInv',
         (\E c \in KeyClasses : KeyChar(c)) \/ (\E held \in BOOLEAN : KeyOther(held))
  PROVE  Working'
<1>1. \A p \in Slots : reading[p] # "yes"
  BY NobodyReads DEF KeyChar, KeyOther, Key
<1>2. /\ KeyPosts /\ UNCHANGED <<reading, held_back, stale, got, pc>>
      /\ \/ UNCHANGED <<typed, overrun>>
         \/ \E c \in KeyClasses : Types(c)
  BY DEF KeyChar, KeyOther, userVars, orderVars
<1>3. /\ TableOK'
      /\ \A p \in Slots : Live(p)' <=> Live(p)
      /\ UNCHANGED <<parent_pid, dad_blocked, waiting>>
  BY <1>2, PostKernel DEF Working
<1>4. ASSUME ~overrun'
      PROVE  ~overrun /\ Unread' \in Int /\ Unread' <= Unread + 1
  <2>1. ~overrun /\ Unread' \in Int
    <3>1. ~overrun
      BY <1>2, <1>4 DEF Types
    <3>2. Ordered'
      BY <1>4 DEF RingInv
    <3>3. Unread' \in 0 .. KEY_BUF_SIZE
      BY <3>2 DEF Ordered
    <3> QED BY <3>1, <3>3, RingSize
  <2>2. Len(got) \in Nat /\ Len(typed) \in Nat /\ typed \in Seq(KeyClasses)
    BY <2>1, LenProperties DEF RingInv, Ordered
  <2>3. CASE typed' = typed
    BY <1>2, <2>1, <2>2, <2>3 DEF Unread
  <2>4. ASSUME NEW c \in KeyClasses, Types(c)
        PROVE  Unread' <= Unread + 1
    <3>1. Len(typed') = Len(typed) + 1
      BY <2>2, <2>4, AppendProperties DEF Types
    <3> QED BY <1>2, <2>2, <3>1 DEF Unread
  <2> QED BY <1>2, <2>1, <2>3, <2>4
<1>5. Reads'
  BY <1>1, <1>2, <1>4, ReadsPost DEF Working
<1>6. StdinType'
  BY <1>2, PostTable DEF KeyPosts, Working
<1>7. ShellOK' /\ LabelsOK'
  <2>1. ShellOK'
    BY <1>2, <1>3, ShellKept, WorkFacts DEF Working, ShellOK
  <2> QED BY <1>2, <2>1 DEF Working, LabelsOK, Shell
<1> QED BY <1>3, <1>5, <1>6, <1>7 DEF Working

\* What a program's slot is given or loses concerns nobody else.
SlotChanges(q) ==
  /\ TableOK'
  /\ \A p \in Slots \ {q} : Untouched(Kernel, Kernel', p) /\ (Live(p)' <=> Live(p))
  /\ dad_blocked'[q] = 0
  /\ \A p \in Slots \ {q} : dad_blocked'[p] = dad_blocked[p]
  /\ parent_pid'[IDLE_PID] = parent_pid[IDLE_PID]

LEMMA SlotTable ==
  ASSUME TableOK, ProcInv', NEW q \in Programs, NEW g, FamilyShape(g), FamilyBecomes(g),
         g.dad_blocked[q] = 0, g.child_amount[q] = 0,
         \A p \in Slots \ {q} : /\ g.dad_blocked[p] = dad_blocked[p]
                                /\ g.parent_pid[p] = parent_pid[p],
         \A p \in Programs \ {q} : g.child_amount[p] = child_amount[p],
         NEW r, KernelBecomes(r), Settled(r),
         \A p \in Slots \ {q} : r.state[p] = state[p] /\ r.blocks_amount[p] = blocks_amount[p],
         dangling' \in [Slots -> BOOLEAN]
  PROVE  SlotChanges(q)
<1>1. /\ FamilyTypeOK' /\ child_amount' = g.child_amount /\ dad_blocked' = g.dad_blocked
      /\ parent_pid' = g.parent_pid
  BY FamilyBecomesType
<1>2. /\ state' = r.state /\ blocks_amount' = r.blocks_amount
      /\ IdleLives(Kernel)' <=> IdleLives(r)
  BY KernelNext
<1>3. q # IDLE_PID /\ IDLE_PID \in Slots
  BY ShellIsNotIdle DEF Programs
<1>4. IdleLives(Kernel)'
  BY <1>2, <1>3 DEF TableOK, IdleLives, Kernel
<1>5. \A p \in Programs : child_amount'[p] = 0
  BY <1>1 DEF TableOK
<1>6. \A p \in Slots \ {q} : Untouched(Kernel, Kernel', p) /\ (Live(p)' <=> Live(p))
  BY <1>2 DEF Untouched, Kernel, Live
<1> QED BY <1>1, <1>3, <1>4, <1>5, <1>6 DEF SlotChanges, TableOK

\* A slot with no process in it changes hands.
LEMMA SlotWorks ==
  ASSUME Working, NEW q \in Programs, ~Live(q), SlotChanges(q), waiting[Shell] = NoPid,
         UNCHANGED <<waiting, sems, reading, held_back, stale, typed, got, overrun>>,
         \A p \in Slots : reading[p] # "yes", LabelsOK'
  PROVE  Working'
<1>1. Reads'
  <2>1. \A p \in Slots : reading[p] # "no" => Untouched(Kernel, Kernel', p)
    BY DEF SlotChanges, Working, Reads, ReadersOK
  <2> QED BY <2>1, ReadsKept DEF Working
<1>2. Shell \in Slots \ {q} /\ IDLE_PID \in Slots
  BY WorkFacts, ShellIsNotIdle
<1>3. Live(Shell)' /\ parent_pid'[IDLE_PID] # Shell
  BY <1>2 DEF SlotChanges, Working, ShellOK
<1>4. \A p \in Slots : dad_blocked'[p] # 1
  <2>1. \A p \in Slots : dad_blocked[p] # 1
    BY ShellIsNotIdle DEF Working, ShellOK
  <2> QED BY <2>1 DEF SlotChanges
<1>5. ShellOK'
  BY <1>3, <1>4 DEF Working, ShellOK, Shell
<1>6. TableOK'
  BY DEF SlotChanges
<1> QED BY <1>1, <1>5, <1>6 DEF Working, StdinType

LEMMA CreateWorks ==
  ASSUME Working, ShellCreates
  PROVE  Working'
<1>0. /\ SchedInv /\ Settled(Kernel) /\ IdleLives(Kernel) /\ Kernel.current_index = Caller
      /\ GetPid(Kernel) = Caller /\ state[Caller] = "RUNNING"
      /\ Kernel.state = state /\ Kernel.blocks_amount = blocks_amount
      /\ FamilyShape(Family) /\ Shell = SHELL_PID /\ Shell \in Slots \ {IDLE_PID}
      /\ Caller \in Slots /\ DOMAIN pc = Slots
  BY WorkFacts DEF Working, LabelsOK
<1>1. /\ SysCreate /\ InUser /\ pc[Caller] = "create" /\ Caller = Shell
  BY <1>0 DEF ShellCreates, At, Working, LabelsOK
<1>2. /\ \A p \in Slots : reading[p] # "yes"
      /\ waiting[Shell] = NoPid /\ waiting' = waiting
  BY <1>1, NobodyReads DEF SysCreate
<1>3. PICK q : q = Least(FreeSlots(Kernel))
  OBVIOUS
<1>4. /\ Freed(q) /\ q \in FreeSlots(Kernel)
      /\ \/ /\ KernelBecomes(NewKernel(Kernel, q))
            /\ FamilyBecomes(NewFamily(Kernel, Family, q))
         \/ /\ KernelBecomes(FreeKernel(Kernel, q))
            /\ FamilyBecomes(FreeFamily(Family, q))
  <2>1. FreeSlots(Kernel) \in SUBSET Nat /\ FreeSlots(Kernel) # {}
    BY <1>1 DEF SysCreate, FreeSlots, Slots
  <2>2. Least(FreeSlots(Kernel)) \in FreeSlots(Kernel)
    BY <2>1, LeastIsLeast
  <2> QED BY <1>1, <1>3, <2>2 DEF SysCreate
<1>5. q \in Programs /\ q \in Slots /\ q # Kernel.current_index /\ ~Live(q) /\ q # Shell
  BY <1>0, <1>1, <1>4 DEF FreeSlots, Programs, IdleLives, Live
<1>6. IsPidValid(Kernel, SHELL_PID) /\ GetPid(Kernel) = SHELL_PID
  BY <1>0, <1>1, ShellIsNotIdle DEF IsPidValid
<1>7. ProcInv'
  <2>1. ProcNext
    BY <1>1 DEF ProcNext
  <2> QED BY <2>1, ProcNextInv DEF Working, TableOK
<1>8. dangling' \in [Slots -> BOOLEAN]
  BY <1>4 DEF Freed, Working, TableOK, FamilyTypeOK
<1>9. SlotChanges(q)
  <2>1. CASE KernelBecomes(NewKernel(Kernel, q)) /\ FamilyBecomes(NewFamily(Kernel, Family, q))
    <3> DEFINE g == NewFamily(Kernel, Family, q)
               r == NewKernel(Kernel, q)
    <3>1. /\ FamilyShape(g)
          /\ g.dad_blocked[q] = 0 /\ g.child_amount[q] = 0
          /\ \A p \in Slots \ {q} : /\ g.dad_blocked[p] = dad_blocked[p]
                                    /\ g.parent_pid[p] = parent_pid[p]
          /\ \A p \in Programs \ {q} : g.child_amount[p] = child_amount[p]
      <4>1. Grown(Family, g, q)
        BY <1>0, <1>5, <1>6, NewFamilyFacts
      <4> HIDE DEF g
      <4> QED BY <4>1, FamilyIs DEF Grown, Programs
    <3>2. Settled(r) /\ \A p \in Slots \ {q} : r.state[p] = state[p] /\ r.blocks_amount[p] = blocks_amount[p]
      BY <1>0, <1>5, NewKernelFacts
    <3>3. KernelBecomes(r) /\ FamilyBecomes(g)
      BY <2>1
    <3> HIDE DEF g, r
    <3> QED BY <1>5, <1>7, <1>8, <3>1, <3>2, <3>3, SlotTable DEF Working
  <2>2. CASE KernelBecomes(FreeKernel(Kernel, q)) /\ FamilyBecomes(FreeFamily(Family, q))
    <3> DEFINE g == FreeFamily(Family, q)
               r == FreeKernel(Kernel, q)
    <3>1. /\ FamilyShape(g)
          /\ g.dad_blocked[q] = 0 /\ g.child_amount[q] = 0
          /\ \A p \in Slots \ {q} : /\ g.dad_blocked[p] = dad_blocked[p]
                                    /\ g.parent_pid[p] = parent_pid[p]
          /\ \A p \in Programs \ {q} : g.child_amount[p] = child_amount[p]
      <4>1. Emptied(Family, g, q)
        BY <1>0, <1>5, FreeFamilyFacts
      <4> HIDE DEF g
      <4> QED BY <4>1, FamilyIs DEF Emptied, Programs
    <3>2. Settled(r) /\ \A p \in Slots \ {q} : r.state[p] = state[p] /\ r.blocks_amount[p] = blocks_amount[p]
      BY <1>0, <1>5, FreeKernelFacts
    <3>3. KernelBecomes(r) /\ FamilyBecomes(g)
      BY <2>2
    <3> HIDE DEF g, r
    <3> QED BY <1>5, <1>7, <1>8, <3>1, <3>2, <3>3, SlotTable DEF Working
  <2> QED BY <1>4, <2>1, <2>2
<1>10. /\ UNCHANGED <<sems, reading, held_back, stale, typed, got, overrun>>
       /\ \/ \E l, start \in {"update", "yield", "prompt"} \cup Starts \cup Orders :
                pc' = [pc EXCEPT ![Shell] = l, ![q] = start]
          \/ \E l : pc' = [pc EXCEPT ![Shell] = l]
  BY <1>3 DEF ShellCreates
<1>11. LabelsOK'
  <2>1. \A l \in {"update", "yield", "prompt"} \cup Starts \cup Orders : l \notin {"create", "wait"}
    BY DEF Starts, Orders
  <2>2. Shell' = Shell
    BY DEF Shell
  <2>3. DOMAIN pc' = Slots /\ \A p \in Slots \ {Shell} : pc'[p] = pc[p] \/ pc'[p] \notin {"create", "wait"}
    BY <1>0, <1>5, <1>10, <2>1
  <2> QED BY <2>2, <2>3 DEF Working, LabelsOK
<1> QED BY <1>2, <1>5, <1>9, <1>10, <1>11, SlotWorks

LEMMA WaitsWork ==
  ASSUME Working, ShellWaits
  PROVE  Working'
<1>0. /\ SchedInv /\ Settled(Kernel) /\ IdleLives(Kernel) /\ Kernel.current_index = Caller
      /\ GetPid(Kernel) = Caller /\ state[Caller] = "RUNNING"
      /\ Kernel.state = state /\ Kernel.blocks_amount = blocks_amount
      /\ FamilyShape(Family) /\ Shell = SHELL_PID /\ Shell \in Slots \ {IDLE_PID}
      /\ Caller \in Slots
  BY WorkFacts
<1>1. PICK q : q = child
  OBVIOUS
<1>2. /\ SysWait(q) /\ InUser /\ Caller = Shell /\ q \in Slots /\ q # Shell
      /\ parent_pid[q] = Shell /\ q # IDLE_PID /\ q \in Programs
  <2>1. SysWait(q) /\ InUser /\ Caller = Shell
    BY <1>0, <1>1 DEF ShellWaits, At, Working, LabelsOK
  <2>2. q \in Slots /\ q # Shell /\ parent_pid[q] = Shell
    BY <2>1 DEF SysWait, IsPidValid
  <2> QED BY <1>0, <2>1, <2>2 DEF Working, ShellOK, Programs
<1>3. /\ \A p \in Slots : reading[p] # "yes"
      /\ waiting[Shell] = NoPid /\ reading[Shell] = "no"
  BY <1>2, NobodyReads
<1>4. ProcInv'
  <2>1. ProcNext
    BY <1>2 DEF ProcNext
  <2> QED BY <2>1, ProcNextInv DEF Working, TableOK
<1>5. /\ UNCHANGED <<sems, reading, held_back, stale, typed, got, overrun>>
      /\ Goto(Shell, "prompt")
  BY DEF ShellWaits, historyVars, orderVars
<1>6. LabelsOK'
  BY <1>5 DEF Working, LabelsOK, Goto, Shell
<1>7. CASE state[q] = "ZOMBIE"
  <2> DEFINE g == FreeFamily(Family, q)
             r == FreeKernel(Kernel, q)
  <2>1. /\ FamilyShape(g)
        /\ g.dad_blocked[q] = 0 /\ g.child_amount[q] = 0
        /\ \A p \in Slots \ {q} : /\ g.dad_blocked[p] = dad_blocked[p]
                                  /\ g.parent_pid[p] = parent_pid[p]
        /\ \A p \in Programs \ {q} : g.child_amount[p] = child_amount[p]
    <3>1. Emptied(Family, g, q)
      BY <1>0, <1>2, FreeFamilyFacts
    <3> HIDE DEF g
    <3> QED BY <3>1, FamilyIs DEF Emptied, Programs
  <2>2. Settled(r) /\ \A p \in Slots \ {q} : r.state[p] = state[p] /\ r.blocks_amount[p] = blocks_amount[p]
    BY <1>0, <1>2, FreeKernelFacts
  <2>3. KernelBecomes(r) /\ FamilyBecomes(g) /\ Freed(q) /\ waiting' = waiting
    BY <1>2, <1>7 DEF SysWait
  <2> HIDE DEF g, r
  <2>4. dangling' \in [Slots -> BOOLEAN]
    BY <2>3 DEF Freed, Working, TableOK, FamilyTypeOK
  <2>5. SlotChanges(q)
    BY <1>2, <1>4, <2>1, <2>2, <2>3, <2>4, SlotTable DEF Working
  <2>6. ~Live(q)
    BY <1>7 DEF Live
  <2> QED BY <1>2, <1>3, <1>5, <1>6, <2>3, <2>5, <2>6, SlotWorks
<1>8. CASE state[q] # "ZOMBIE"
  <2>1. PICK r : r = BlockProcess(Kernel, Shell)
    OBVIOUS
  <2>2. /\ KernelBecomes(r) /\ dangling' = dangling
        /\ FamilyBecomes([Family EXCEPT !.dad_blocked[q] = 1])
        /\ waiting' = [waiting EXCEPT ![Shell] = q]
    BY <1>2, <1>8, <2>1 DEF SysWait
  <2>3. /\ Settled(r) /\ IdleLives(r) /\ Phases(r) = Phases(Kernel)
        /\ \A p \in Slots \ {Shell, IDLE_PID} : Untouched(Kernel, r, p)
    BY <1>0, <2>1, BlockPhases
  <2>4. /\ state' = r.state /\ blocks_amount' = r.blocks_amount /\ IdleLives(Kernel)'
        /\ \A p \in Slots : Live(p)' <=> Live(p)
    BY <1>0, <2>2, <2>3, KernelNext, SamePhases
  <2>5. /\ UNCHANGED <<parent_pid, child_amount>>
        /\ dad_blocked' = [dad_blocked EXCEPT ![q] = 1]
    BY <2>2 DEF FamilyBecomes, Family
  <2>6. TableOK'
    BY <1>2, <1>4, <2>2, <2>4, <2>5 DEF Working, TableOK, FamilyTypeOK
  <2>7. Reads'
    <3>1. ASSUME NEW p \in Slots, reading[p] # "no"
          PROVE  Untouched(Kernel, Kernel', p)
      <4>1. Untouched(Kernel, r, p)
        BY <1>3, <2>3, <3>1 DEF Working, Reads, ReadersOK
      <4> QED BY <2>4, <4>1 DEF Untouched, Kernel
    <3> QED BY <1>3, <1>5, <3>1, ReadsKept DEF Working
  <2>8. ShellOK'
    <3>1. /\ waiting'[Shell] = q
          /\ \A p \in Slots \ {Shell} : waiting'[p] = waiting[p]
      BY <1>0, <2>2 DEF Working, TableOK, ProcInv
    <3>2. \A p \in Slots : dad_blocked'[p] = 1 => p = q
      <4>1. \A p \in Slots : dad_blocked[p] # 1
        BY <1>3, ShellIsNotIdle DEF Working, ShellOK
      <4> QED BY <2>5, <4>1 DEF Working, TableOK, FamilyTypeOK
    <3>3. Live(Shell)'
      BY <1>0, <2>4 DEF Working, ShellOK, Live, Shell
    <3> QED BY <1>2, <1>3, <1>5, <2>5, <3>1, <3>2, <3>3 DEF Working, ShellOK, Shell
  <2> QED BY <1>5, <1>6, <2>6, <2>7, <2>8 DEF Working, StdinType
<1> QED BY <1>7, <1>8

\* The shell frees the slot of its child: the child that still lives, and may be
\* in read(), is lost with it.
LEMMA ReturnWorks ==
  ASSUME Working, RingInv, WaitEnds
  PROVE  Working'
<1>0. /\ SchedInv /\ Settled(Kernel) /\ IdleLives(Kernel) /\ Kernel.current_index = Caller
      /\ GetPid(Kernel) = Caller /\ state[Caller] = "RUNNING"
      /\ Kernel.state = state /\ Kernel.blocks_amount = blocks_amount
      /\ FamilyShape(Family) /\ Shell = SHELL_PID /\ Shell \in Slots \ {IDLE_PID}
      /\ Caller \in Slots
  BY WorkFacts
<1>1. Caller = Shell /\ WaitReturns /\ waiting[Shell] # NoPid
  BY <1>0 DEF WaitEnds, WaitReturns, InWait, Working, ShellOK
<1>2. PICK q : q = waiting[Shell]
  OBVIOUS
<1>3. q \in Programs /\ q \in Slots /\ q # Shell /\ q # NoPid
  BY <1>0, <1>1, <1>2 DEF Working, ShellOK, TableOK, ProcInv, Programs
<1>4. /\ KernelBecomes(FreeKernel(Kernel, q))
      /\ FamilyBecomes(FreeFamily(Family, q))
      /\ waiting' = [waiting EXCEPT ![Shell] = NoPid, ![q] = NoPid]
      /\ dangling' = [p \in Slots |-> /\ p \notin {Shell, q}
                                      /\ dangling[p] \/ waiting[p] = q]
  BY <1>1, <1>2 DEF WaitReturns
<1>5. /\ UNCHANGED <<sems, typed, got, overrun>>
      /\ IF Live(q) THEN Dies(q) ELSE UNCHANGED <<reading, pc, stale, held_back>>
  BY <1>2 DEF WaitEnds
<1>6. ProcInv'
  <2>1. ProcNext
    BY <1>1 DEF ProcNext
  <2> QED BY <2>1, ProcNextInv DEF Working, TableOK
<1> DEFINE g == FreeFamily(Family, q)
           r == FreeKernel(Kernel, q)
<1>7. /\ FamilyShape(g)
      /\ g.dad_blocked[q] = 0 /\ g.child_amount[q] = 0
      /\ \A p \in Slots \ {q} : /\ g.dad_blocked[p] = dad_blocked[p]
                                /\ g.parent_pid[p] = parent_pid[p]
      /\ \A p \in Programs \ {q} : g.child_amount[p] = child_amount[p]
  <2>1. Emptied(Family, g, q)
    BY <1>0, <1>3, FreeFamilyFacts
  <2> HIDE DEF g
  <2> QED BY <2>1, FamilyIs DEF Emptied, Programs
<1>8. Settled(r) /\ \A p \in Slots \ {q} : r.state[p] = state[p] /\ r.blocks_amount[p] = blocks_amount[p]
  BY <1>0, <1>1, <1>3, FreeKernelFacts
<1>9. KernelBecomes(r) /\ FamilyBecomes(g)
  BY <1>4
<1> HIDE DEF g, r
<1>10. dangling' \in [Slots -> BOOLEAN]
  BY <1>4 DEF Working, TableOK, FamilyTypeOK
<1>11. SlotChanges(q)
  BY <1>3, <1>6, <1>7, <1>8, <1>9, <1>10, SlotTable DEF Working
<1>12. reading[Shell] = "no" /\ \A p \in Slots : reading[p] # "yes"
  BY <1>0, <1>1 DEF Working, ShellOK, Reads, ReadersOK
<1>13. Reads'
  <2>1. \A p \in Slots \ {q} : Untouched(Kernel, Kernel', p)
    BY <1>11 DEF SlotChanges
  <2>2. CASE Live(q)
    BY <1>3, <1>5, <1>12, <2>1, <2>2, ReadsLose DEF Working
  <2>3. CASE ~Live(q)
    <3>1. \A p \in Slots : reading[p] # "no" => Untouched(Kernel, Kernel', p)
      BY <2>1, <2>3 DEF Working, Reads, ReadersOK
    <3> QED BY <1>5, <1>12, <2>3, <3>1, ReadsKept DEF Working
  <2> QED BY <2>2, <2>3
<1>14. ShellOK'
  <2>1. \A p \in Slots : waiting'[p] = NoPid
    BY <1>0, <1>3, <1>4 DEF Working, TableOK, ProcInv, ShellOK
  <2>2. \A p \in Slots : dad_blocked'[p] # 1
    BY <1>2, <1>11 DEF SlotChanges, Working, ShellOK
  <2>3. Live(Shell)' /\ parent_pid'[IDLE_PID] # Shell
    BY <1>0, <1>3, <1>11, ShellIsNotIdle DEF SlotChanges, Working, ShellOK
  <2> QED BY <1>0, <2>1, <2>2, <2>3, ShellIsNotIdle DEF ShellOK, Shell
<1>15. LabelsOK'
  BY <1>3, <1>5 DEF Working, LabelsOK, Dies, Goto, Shell
<1>16. TableOK'
  BY <1>11 DEF SlotChanges
<1> QED BY <1>5, <1>13, <1>14, <1>15, <1>16 DEF Working, StdinType

\* The death of a program: the shell may wake up, if it waits, and nobody who
\* reads is touched.
LEMMA KillWorks ==
  ASSUME Working, RingInv, NEW p \in Programs, Kill(p),
         UNCHANGED <<sems, typed, got, overrun>>, \A q \in Slots : reading[q] # "yes",
         \/ Dies(p)
         \/ /\ reading[p] = "no" /\ UNCHANGED <<held_back, stale>>
            /\ reading' = [q \in Slots |-> IF state'[q] = "ZOMBIE" THEN "no" ELSE reading[q]]
            /\ pc' = [q \in Slots |-> IF state'[q] = "ZOMBIE" THEN "dead" ELSE pc[q]]
  PROVE  Working'
<1>0. /\ SchedInv /\ Settled(Kernel) /\ IdleLives(Kernel)
      /\ Kernel.state = state /\ Kernel.blocks_amount = blocks_amount
      /\ FamilyShape(Family) /\ Shell = SHELL_PID /\ Shell \in Slots \ {IDLE_PID}
      /\ p \in Slots /\ p # Shell /\ p # IDLE_PID
  BY WorkFacts DEF Programs
<1> DEFINE r == KillKernel(Kernel, Family, p)
           g == KillFamily(Kernel, Family, p)
<1>1. /\ Settled(r) /\ IdleLives(r) /\ r.state[p] = "ZOMBIE"
      /\ \A q \in Programs \ {p} : Untouched(Kernel, r, q)
      /\ Family.dad_blocked[p] # 1 => Untouched(Kernel, r, SHELL_PID)
      /\ PhaseOf(r.state[SHELL_PID]) = PhaseOf(Kernel.state[SHELL_PID])
  BY <1>0, KillRest
<1>2. /\ FamilyShape(g)
      /\ \A q \in Programs : g.child_amount[q] = 0
      /\ g.dad_blocked = dad_blocked
      /\ \A q \in Slots : g.parent_pid[q] = parent_pid[q]
  <2>1. \A q \in Programs : Family.child_amount[q] = 0
    BY FamilyIs DEF Working, TableOK
  <2>2. Bereft(Kernel, Family, g, p)
    BY <1>0, <2>1, KillFamilyFacts
  <2> HIDE DEF g
  <2>3. Family.dad_blocked = dad_blocked /\ Family.parent_pid = parent_pid
    BY FamilyIs
  <2> QED BY <2>2, <2>3 DEF Bereft
<1>3. KernelBecomes(r) /\ FamilyBecomes(g)
      /\ waiting' = [q \in Slots |-> IF state'[q] = "ZOMBIE" THEN NoPid ELSE waiting[q]]
      /\ dangling' = [q \in Slots |-> state'[q] # "ZOMBIE" /\ dangling[q]]
  BY DEF Kill
<1> HIDE DEF r, g
<1>4. /\ SchedInv' /\ state' = r.state /\ blocks_amount' = r.blocks_amount /\ IdleLives(Kernel)'
  BY <1>1, <1>3, KernelNext
<1>5. dangling' \in [Slots -> BOOLEAN]
  BY <1>3 DEF Working, TableOK, FamilyTypeOK
<1>6. /\ FamilyTypeOK' /\ parent_pid' = g.parent_pid /\ child_amount' = g.child_amount
      /\ dad_blocked' = g.dad_blocked
  BY <1>2, <1>3, <1>5, FamilyBecomesType
<1>7. ProcInv'
  BY <1>0, KillInv DEF Working, TableOK
<1>8. TableOK'
  BY <1>2, <1>4, <1>6, <1>7 DEF TableOK
<1>9. waiting[Shell] = NoPid => \A q \in Slots : dad_blocked[q] # 1
  BY ShellIsNotIdle DEF Working, ShellOK
<1>10. ASSUME NEW q \in Slots \ {p}, reading[q] # "no"
       PROVE  Untouched(Kernel, Kernel', q) /\ Live(q)'
  <2>1. Live(q) /\ q # IDLE_PID
    BY <1>10 DEF Working, Reads, ReadersOK
  <2>2. CASE q = Shell
    <3>1. Untouched(Kernel, r, q)
      BY <1>0, <1>1, <1>9, <1>10, <2>2, FamilyIs DEF Working, ShellOK
    <3> QED BY <1>4, <2>1, <3>1 DEF Untouched, Kernel, Live
  <2>3. CASE q # Shell
    <3>1. Untouched(Kernel, r, q)
      BY <1>0, <1>1, <2>1, <2>3 DEF Programs
    <3> QED BY <1>4, <2>1, <3>1 DEF Untouched, Kernel, Live
  <2> QED BY <2>2, <2>3
<1>11. Live(Shell)' /\ state'[Shell] # "ZOMBIE"
  <2>1. PhaseOf(state'[Shell]) = PhaseOf(state[Shell])
    BY <1>0, <1>1, <1>4
  <2>2. Live(Shell) /\ Shell \in Slots
    BY <1>0 DEF Working, ShellOK
  <2>3. state[Shell] \in ProcessState /\ state'[Shell] \in ProcessState
    BY <1>0, <1>1, <1>4, <2>2 DEF Settled, KernelType
  <2> QED BY <2>1, <2>2, <2>3, PhaseFacts DEF Live, Shell
<1>12. Reads' /\ reading'[Shell] = reading[Shell] /\ LabelsOK'
  <2>1. CASE Dies(p)
    <3>1. Reads'
      BY <1>0, <1>10, <2>1, ReadsLose DEF Working
    <3> QED BY <1>0, <2>1, <3>1 DEF Dies, Goto, Working, LabelsOK, Shell, Reads, ReadersOK
  <2>2. CASE /\ reading[p] = "no" /\ UNCHANGED <<held_back, stale>>
             /\ reading' = [q \in Slots |-> IF state'[q] = "ZOMBIE" THEN "no" ELSE reading[q]]
             /\ pc' = [q \in Slots |-> IF state'[q] = "ZOMBIE" THEN "dead" ELSE pc[q]]
    <3>1. reading \in [Slots -> {"no", "yes", "token"}]
      BY DEF Working, Reads, ReadersOK
    <3>2. reading' = reading
      <4>1. \A q \in Slots : reading'[q] = reading[q]
        BY <1>10, <2>2 DEF Live
      <4> QED BY <2>2, <3>1, <4>1
    <3>3. \A q \in Slots : reading[q] # "no" => Untouched(Kernel, Kernel', q)
      BY <1>10, <2>2
    <3>4. Reads'
      BY <2>2, <3>2, <3>3, ReadsKept DEF Working
    <3>5. LabelsOK'
      BY <2>2 DEF Working, LabelsOK, Shell
    <3> QED BY <3>2, <3>4, <3>5
  <2> QED BY <2>1, <2>2
<1>13. ShellOK'
  <2>1. waiting'[Shell] = waiting[Shell]
    BY <1>0, <1>3, <1>11
  <2>2. \A q \in Slots : waiting'[q] # NoPid => waiting[q] # NoPid
    BY <1>3
  <2>3. parent_pid'[IDLE_PID] # Shell
    BY <1>2, <1>6, ShellIsNotIdle DEF Working, ShellOK
  <2>4. \A q \in Slots : dad_blocked'[q] = 1 => waiting[Shell] = q
    BY <1>2, <1>6 DEF Working, ShellOK
  <2> QED BY <1>11, <1>12, <2>1, <2>2, <2>3, <2>4 DEF Working, ShellOK, Shell
<1> QED BY <1>8, <1>12, <1>13 DEF Working, StdinType

LEMMA CtrlCWorks ==
  ASSUME Working, RingInv, KeyCtrlC
  PROVE  Working'
<1>1. /\ \A p \in Slots : reading[p] # "yes"
      /\ UNCHANGED <<sems, typed, got, overrun>>
      /\ \/ CtrlC(foreground_pid) /\ Dies(foreground_pid)
         \/ UNCHANGED <<procVars, reading, pc, stale, held_back>>
  BY NobodyReads DEF KeyCtrlC, Key
<1>2. CASE CtrlC(foreground_pid) /\ Dies(foreground_pid)
  <2>1. Kill(foreground_pid) /\ foreground_pid \in Programs
    BY <1>2 DEF CtrlC, Kill, IsPidValid, Programs
  <2> QED BY <1>1, <1>2, <2>1, KillWorks
<1>3. CASE UNCHANGED <<procVars, reading, pc, stale, held_back>>
  <2>1. LabelsOK'
    BY <1>3 DEF Working, LabelsOK, Shell
  <2> QED BY <1>1, <1>3, <2>1, QuietWorks
<1> QED BY <1>1, <1>2, <1>3

\* The end of a program, which is not in read() then, or of the shell, which
\* takes all others along: only the idle process is left.
LEMMA ExitWorks ==
  ASSUME BootOrder, Working, RingInv, ProgramExits
  PROVE  Working' \/ Gone'
<1>0. /\ SchedInv /\ Settled(Kernel) /\ IdleLives(Kernel) /\ Kernel.current_index = Caller
      /\ Kernel.state = state /\ Kernel.blocks_amount = blocks_amount
      /\ FamilyShape(Family) /\ Shell = SHELL_PID /\ Shell \in Slots \ {IDLE_PID}
      /\ Caller \in Slots /\ (UserRuns <=> Caller # IDLE_PID)
  BY WorkFacts
<1>1. /\ SysExit /\ Kill(Caller) /\ Caller # IDLE_PID /\ InUser
      /\ UNCHANGED <<sems, held_back, stale, typed, got, overrun>>
      /\ reading' = [p \in Slots |-> IF state'[p] = "ZOMBIE" THEN "no" ELSE reading[p]]
      /\ pc' = [p \in Slots |-> IF state'[p] = "ZOMBIE" THEN "dead" ELSE pc[p]]
  BY <1>0 DEF ProgramExits, SysExit, At, historyVars, orderVars
<1>2. /\ \A p \in Slots : reading[p] # "yes"
      /\ reading[Caller] = "no" /\ waiting[Caller] = NoPid
  BY <1>1, NobodyReads
<1>3. CASE Caller # Shell
  <2>1. Caller \in Programs
    BY <1>0, <1>1, <1>3 DEF Programs
  <2> QED BY <1>1, <1>2, <2>1, KillWorks
<1>4. CASE Caller = Shell
  <2> DEFINE r == KillKernel(Kernel, Family, Shell)
             g == KillFamily(Kernel, Family, Shell)
  <2>1. \A q \in Slots : dad_blocked[q] # 1
    BY <1>2, <1>4, ShellIsNotIdle DEF Working, ShellOK
  <2>2. /\ Settled(r) /\ IdleLives(r)
        /\ \A q \in Slots \ {IDLE_PID} : q \in Dying(Kernel, Shell) => r.state[q] = "ZOMBIE"
        /\ \A q \in Slots \ {IDLE_PID} : q \notin Dying(Kernel, Shell) =>
             IF Family.dad_blocked[Shell] = 1 /\ q = SHELL_PID
             THEN r.state[q] \in {"READY", "RUNNING"}
             ELSE Untouched(Kernel, r, q)
    <3>1. WakesOnlyShell(Kernel, Family, Shell)
      BY <1>0, <2>1, FamilyIs DEF WakesOnlyShell
    <3> QED BY <1>0, <3>1, KillOutcome, SettledCoherent
  <2>3. /\ FamilyShape(g)
        /\ \A q \in Programs : g.child_amount[q] = 0
    <3>1. \A q \in Programs : Family.child_amount[q] = 0
      BY FamilyIs DEF Working, TableOK
    <3>2. Bereft(Kernel, Family, g, Shell)
      BY <1>0, <3>1, KillFamilyFacts
    <3> HIDE DEF g
    <3> QED BY <3>2 DEF Bereft
  <2>4. KernelBecomes(r) /\ FamilyBecomes(g)
        /\ waiting' = [q \in Slots |-> IF state'[q] = "ZOMBIE" THEN NoPid ELSE waiting[q]]
        /\ dangling' = [q \in Slots |-> state'[q] # "ZOMBIE" /\ dangling[q]]
    BY <1>1, <1>4 DEF Kill
  <2> HIDE DEF r, g
  <2>5. /\ state' = r.state /\ IdleLives(Kernel)' /\ SchedInv'
    BY <2>2, <2>4, KernelNext
  <2>6. dangling' \in [Slots -> BOOLEAN]
    BY <2>4 DEF Working, TableOK, FamilyTypeOK
  <2>7. FamilyTypeOK' /\ child_amount' = g.child_amount
    BY <2>3, <2>4, <2>6, FamilyBecomesType
  <2>8. ProcInv'
    BY <1>1, <1>0, KillInv DEF Working, TableOK
  <2>9. TableOK'
    BY <2>3, <2>5, <2>7, <2>8 DEF TableOK
  <2>10. \A p \in Slots \ {IDLE_PID} : state'[p] \in {"ZOMBIE", "INVALID"}
    <3> SUFFICES ASSUME NEW p \in Slots \ {IDLE_PID}
                 PROVE  state'[p] \in {"ZOMBIE", "INVALID"}
      OBVIOUS
    <3>1. CASE p \in Dying(Kernel, Shell)
      BY <2>2, <2>5, <3>1
    <3>2. CASE p \notin Dying(Kernel, Shell)
      <4>1. p # Shell /\ p > SHELL_PID
        BY <1>0, <3>2 DEF Dying, BootOrder, Slots
      <4>2. state[p] = "INVALID"
        BY <1>0, <3>2, <4>1 DEF Dying
      <4>3. Untouched(Kernel, r, p)
        BY <1>0, <2>2, <3>2, <4>1
      <4> QED BY <1>0, <2>5, <4>2, <4>3 DEF Untouched
    <3> QED BY <3>1, <3>2
  <2>11. \A p \in Slots \ {IDLE_PID} : ~Live(p)'
    BY <2>10 DEF Live
  <2>12. \A p \in Slots : reading'[p] = "no"
    <3>1. \A p \in Slots : reading[p] # "no" => Live(p) /\ p # IDLE_PID
      BY DEF Working, Reads, ReadersOK
    <3>2. \A p \in Slots : state[p] = "INVALID" => reading[p] = "no"
      BY <3>1 DEF Live
    <3>3. \A p \in Slots \ {IDLE_PID} : state'[p] = "ZOMBIE" \/ state[p] = "INVALID"
      <4> SUFFICES ASSUME NEW p \in Slots \ {IDLE_PID}
                   PROVE  state'[p] = "ZOMBIE" \/ state[p] = "INVALID"
        OBVIOUS
      <4>1. CASE p \in Dying(Kernel, Shell)
        BY <2>2, <2>5, <4>1
      <4>2. CASE p \notin Dying(Kernel, Shell)
        BY <1>0, <4>2 DEF Dying, BootOrder, Slots
      <4> QED BY <4>1, <4>2
    <3> QED BY <1>1, <3>1, <3>2, <3>3
  <2>13. waiting'[IDLE_PID] = NoPid
    BY <1>0, <2>4, ShellIsNotIdle DEF Working, ShellOK
  <2> QED BY <1>1, <2>9, <2>11, <2>12, <2>13 DEF Working, Gone, StdinType
<1> QED BY <1>3, <1>4

-----------------------------------------------------------------------------
(* After the shell: the idle process runs, and keys come that nobody reads. *)

LEMMA GoneIdles ==
  ASSUME Gone
  PROVE  /\ SchedInv /\ Settled(Kernel) /\ IdleLives(Kernel) /\ Kernel.state = state
         /\ ~UserStep
         /\ \A p \in Slots \ {IDLE_PID} : ~IsPidValid(Kernel, p) \/ state[p] = "ZOMBIE"
<1>1. /\ SchedInv /\ Settled(Kernel) /\ IdleLives(Kernel) /\ Kernel.state = state
      /\ Caller \in Slots /\ state[Caller] = "RUNNING"
  BY RunnerFacts DEF Gone, TableOK, ProcInv, Kernel
<1>2. Caller = IDLE_PID
  BY <1>1 DEF Gone, Live
<1>3. ~UserRuns /\ ~InRead /\ ~InWait
  BY <1>1, <1>2 DEF Gone, UserRuns, InRead, InWait
<1>4. ~UserStep
  BY <1>3 DEF UserStep, ShellReads, CatReads, StartsReading, ReadSleeps, ReadTurns,
     ShellParses, ShellCreates, ShellCannotCreate, ShellUpdates, ShellWaits, ShellYields,
     WaitEnds, WaitReturns, CatStarts, LoopStarts, ProgramExits, Blocks, Unblocks, At, InUser
<1>5. \A p \in Slots \ {IDLE_PID} : ~IsPidValid(Kernel, p) \/ state[p] = "ZOMBIE"
  BY <1>1, PhaseOfSlot DEF Gone, Live, IsPidValid, ProcessState
<1> QED BY <1>1, <1>4, <1>5

LEMMA GoneStays ==
  ASSUME Gone, [TermNext]_termVars
  PROVE  Gone'
<1>1. /\ SchedInv /\ Settled(Kernel) /\ IdleLives(Kernel) /\ Kernel.state = state /\ ~UserStep
  BY GoneIdles
<1>2. ASSUME TableOK', \A p \in Slots : Live(p)' <=> Live(p),
             UNCHANGED <<waiting, reading>>, StdinType'
      PROVE  Gone'
  BY <1>2 DEF Gone
<1>3. CASE TermTick
  <2>1. PICK r : r = Scheduling(Kernel)
    OBVIOUS
  <2>2. KernelBecomes(r) /\ TableStays /\ UNCHANGED <<sems, reading>>
    BY <1>3, <2>1 DEF TermTick, TimerTick, userVars
  <2>3. Coherent(Kernel)
    BY <1>1, SettledCoherent
  <2>4. Settled(r) /\ SameSleepers(Kernel, r)
    BY <2>1, <2>3, SchedulingFacts, SchedulingSleepers
  <2>5. IdleLives(r) /\ Phases(r) = Phases(Kernel)
    BY <1>1, <2>3, <2>4, SleepersPhases
  <2>6. /\ TableOK' /\ \A p \in Slots : Live(p)' <=> Live(p)
        /\ waiting' = waiting
    BY <2>2, <2>4, <2>5, TableKept DEF Gone
  <2> QED BY <1>2, <2>2, <2>6 DEF Gone, StdinType
<1>4. CASE (\E c \in KeyClasses : KeyChar(c)) \/ (\E held \in BOOLEAN : KeyOther(held))
  <2>1. KeyPosts /\ reading' = reading
    BY <1>4 DEF KeyChar, KeyOther, userVars
  <2>2. /\ TableOK' /\ \A p \in Slots : Live(p)' <=> Live(p)
        /\ waiting' = waiting
    BY <2>1, PostKernel DEF Gone
  <2>3. StdinType'
    BY <2>1, PostTable DEF KeyPosts, Gone
  <2> QED BY <1>2, <2>1, <2>2, <2>3
<1>5. CASE KeyCtrlC \/ UNCHANGED termVars
  <2>1. ~CtrlC(foreground_pid)
    BY GoneIdles DEF CtrlC, Kill, IsPidValid
  <2>2. UNCHANGED <<procVars, sems, reading>>
    BY <1>5, <2>1 DEF KeyCtrlC, termVars, userVars
  <2>3. /\ UNCHANGED <<schedVars, familyVars, waiting, dangling>>
        /\ UNCHANGED <<parent_pid, dad_blocked, child_amount>>
    BY <2>2 DEF procVars, familyVars
  <2>4. SchedInv'
    BY <1>1, <2>3, SchedNextInv
  <2>5. Kernel' = Kernel /\ \A p \in Slots : Live(p)' <=> Live(p)
    BY <2>3 DEF Kernel, schedVars, Live
  <2>6. TableOK'
    BY <2>3, <2>4, <2>5 DEF Gone, TableOK, ProcInv, FamilyTypeOK, IdleLives
  <2> QED BY <1>2, <2>2, <2>3, <2>5, <2>6 DEF Gone, StdinType
<1> QED BY <1>1, <1>3, <1>4, <1>5 DEF TermNext, KeyClasses

LEMMA WorkingNext ==
  ASSUME BootOrder, Working, RingInv, RingInv', [TermNext]_termVars
  PROVE  Working' \/ Gone'
<1>1. CASE UserStep
  <2>1. CASE ShellReads \/ CatReads
    BY <2>1, ReadStarts
  <2>2. CASE ReadSleeps \/ ReadTurns
    BY <2>2, ReadGoesOn
  <2>3. CASE ShellParses \/ ShellCannotCreate \/ ShellUpdates \/ CatStarts \/ LoopStarts
    BY <2>3, QuietSteps
  <2>4. CASE ShellCreates
    BY <2>4, CreateWorks
  <2>5. CASE ShellWaits
    BY <2>5, WaitsWork
  <2>6. CASE ShellYields
    BY <2>6, CpuMoves
  <2>7. CASE WaitEnds
    BY <2>7, ReturnWorks
  <2>8. CASE ProgramExits
    BY <2>8, ExitWorks
  <2>9. CASE Blocks \/ Unblocks
    BY <2>9, OrdersWork
  <2> QED BY <1>1, <2>1, <2>2, <2>3, <2>4, <2>5, <2>6, <2>7, <2>8, <2>9 DEF UserStep
<1>2. CASE TermTick
  BY <1>2, CpuMoves
<1>3. CASE (\E c \in KeyClasses : KeyChar(c)) \/ (\E held \in BOOLEAN : KeyOther(held))
  BY <1>3, KeysWork
<1>4. CASE KeyCtrlC
  BY <1>4, CtrlCWorks
<1>5. CASE UNCHANGED termVars
  <2>1. /\ UNCHANGED <<procVars, sems, reading, held_back, stale, typed, got, overrun>>
        /\ pc' = pc
    BY <1>5 DEF termVars, userVars, historyVars, orderVars
  <2>2. LabelsOK'
    BY <2>1 DEF Working, LabelsOK, Shell
  <2> QED BY <2>1, <2>2, QuietWorks
<1> QED BY <1>1, <1>2, <1>3, <1>4, <1>5 DEF TermNext, KeyClasses

LEMMA KeyNextInv == BootOrder /\ KeyInv /\ [TermNext]_termVars => KeyInv'
<1> SUFFICES ASSUME BootOrder, KeyInv, [TermNext]_termVars
             PROVE  KeyInv'
  OBVIOUS
<1>1. RingInv'
  BY RingNext DEF KeyInv
<1> QED BY <1>1, WorkingNext, GoneStays DEF KeyInv

LEMMA KeyInitInv == TermInit => KeyInv
<1> SUFFICES ASSUME TermInit
             PROVE  Working
  BY RingInit DEF KeyInv
<1>1. WaitInv
  BY WaitInitInv DEF TermInit
<1>2. TableOK
  BY <1>1 DEF WaitInv, TableOK
<1>3. /\ waiting = [p \in Slots |-> NoPid] /\ dad_blocked = [p \in Slots |-> 0]
      /\ parent_pid = [p \in Slots |-> IF p = SHELL_PID THEN IDLE_PID ELSE NoPid]
  BY DEF TermInit, ProcInit
<1>4. /\ reading = [p \in Slots |-> "no"] /\ stale = 0 /\ typed = <<>> /\ got = <<>>
      /\ pc = [p \in Slots |-> IF p = Shell THEN "prompt" ELSE "dead"]
      /\ sems = [n \in {Stdin} |-> [NoSem EXCEPT !.initialized = TRUE, !.openings = 1]]
  BY DEF TermInit
<1>5. StdinType /\ sems[Stdin].initialized /\ Value = 0 /\ Queue = <<>>
  <2>1. NoSem \in SemType /\ NoSem.value = 0 /\ NoSem.blocked = <<>>
    BY EmptySeq DEF NoSem, SemType
  <2>2. PICK w \in SemType : w = NoSem
    BY <2>1
  <2>3. PICK y : y = [w EXCEPT !.initialized = TRUE]
    OBVIOUS
  <2>4. y \in SemType /\ y.initialized = TRUE /\ y.value = w.value /\ y.blocked = w.blocked
    BY <2>3 DEF SemType
  <2>5. PICK x : x = [y EXCEPT !.openings = 1]
    OBVIOUS
  <2>6. /\ x \in SemType /\ x.initialized = y.initialized /\ x.value = y.value
        /\ x.blocked = y.blocked
    BY <2>4, <2>5 DEF SemType
  <2>7. sems = [n \in {Stdin} |-> x]
    BY <1>4, <2>2, <2>3, <2>5
  <2> QED BY <2>1, <2>2, <2>4, <2>6, <2>7 DEF StdinType, Value, Queue
<1>6. Tokens = {} /\ Cardinality(Tokens) = 0 /\ Cardinality(Sleepers) \in Nat
  <2>1. Tokens = {}
    BY <1>4 DEF Tokens
  <2> QED BY <2>1, FS_EmptySet, TokensFinite
<1>7. Len(Queue) = 0 /\ Unread = 0
  BY <1>4, <1>5, EmptySeq DEF Unread
<1>8. Reads
  <2>1. StdinOK
    BY <1>4, <1>5, <1>7 DEF StdinOK
  <2>2. ReadersOK
    BY <1>4, <1>6 DEF ReadersOK
  <2>3. Covered /\ Paid
    BY <1>4, <1>5, <1>6, <1>7 DEF Covered, Paid
  <2> QED BY <2>1, <2>2, <2>3 DEF Reads
<1>9. ShellOK
  <2>1. Live(Shell)
    <3>1. /\ FirstProc = SHELL_PID /\ SHELL_PID # IDLE_PID /\ SHELL_PID \in Slots
          /\ state[SHELL_PID] = "RUNNING"
      BY FirstIsAClient, ShellAssumption, ShellIsNotIdle DEF TermInit, ProcInit, SchedInit
    <3> QED BY <3>1 DEF Live, Shell
  <2> QED BY <1>3, <1>4, <2>1, ShellIsNotIdle DEF ShellOK, Shell
<1>10. LabelsOK
  BY <1>4 DEF LabelsOK
<1> QED BY <1>2, <1>5, <1>8, <1>9, <1>10 DEF Working

\* The argument: whoever sleeps and nobody holds back has a place in the queue,
\* so the sleepers are no more than the places, and the semaphore is that far
\* below zero; the characters that no token covers are those stale places cost.
LEMMA KeyInvUnsticks == KeyInv => NoKeyStuck
<1> DEFINE readers == {p \in Slots : reading[p] # "no"}
<1> SUFFICES ASSUME KeyInv, ~overrun, readers # {},
                    \A p \in readers : state[p] = "BLOCKED" /\ p \notin held_back
             PROVE  Unread <= stale
  BY DEF NoKeyStuck
<1>1. Working /\ RingInv
  BY DEF KeyInv, Gone
<1>2. /\ Settled(Kernel) /\ Kernel.state = state /\ Kernel.blocks_amount = blocks_amount
      /\ state[Caller] = "RUNNING" /\ Caller \in Slots
  BY <1>1, WorkFacts
<1>3. readers = Tokens
  <2>1. \A p \in Slots : reading[p] \in {"no", "yes", "token"}
    BY <1>1 DEF Working, Reads, ReadersOK
  <2>2. \A p \in Slots : reading[p] # "yes"
    BY <1>1, <1>2 DEF Working, Reads, ReadersOK
  <2> QED BY <2>1, <2>2 DEF Tokens
<1>4. \A p \in Tokens : Queued(p)
  <2> SUFFICES ASSUME NEW p \in Tokens, ~Queued(p)
               PROVE  FALSE
    OBVIOUS
  <2>1. p \in Slots /\ state[p] = "BLOCKED" /\ p \notin held_back /\ p # IDLE_PID
    BY <1>1, <1>3 DEF Tokens, Working, Reads, ReadersOK
  <2>2. blocks_amount[p] > 0 /\ blocks_amount[p] \in Int
    BY <1>2, <2>1 DEF Settled, Counted, KernelType
  <2>3. blocks_amount[p] <= 0
    BY <1>1, <2>1 DEF Working, Reads, ReadersOK, Calls
  <2> QED BY <2>2, <2>3
<1>5. /\ Queue \in Seq(Slots) /\ Len(Queue) \in Nat /\ Value \in Int
      /\ Len(Queue) = IF Value < 0 THEN -Value ELSE 0
  BY <1>1, StdinFacts DEF Working, Reads, StdinOK
<1>6. Cardinality(Tokens) <= Len(Queue) /\ Cardinality(Tokens) \in Nat
  <2> DEFINE place == [p \in Tokens |-> CHOOSE i \in 1 .. Len(Queue) : Queue[i] = p]
  <2>1. \A p \in Tokens : place[p] \in 1 .. Len(Queue) /\ Queue[place[p]] = p
    BY <1>4 DEF Queued
  <2>2. place \in Injection(Tokens, 1 .. Len(Queue))
    BY <2>1 DEF Injection, IsInjective
  <2> HIDE DEF place
  <2>3. IsFiniteSet(1 .. Len(Queue)) /\ Cardinality(1 .. Len(Queue)) = Len(Queue)
    <3>1. PICK n \in Int : n = Len(Queue)
      BY <1>5
    <3>2. /\ IsFiniteSet(1 .. n)
          /\ Cardinality(1 .. n) = IF 1 > n THEN 0 ELSE n - 1 + 1
      BY <3>1, FS_Interval
    <3> QED BY <1>5, <3>1, <3>2
  <2>4. Cardinality(Tokens) <= Cardinality(1 .. Len(Queue))
    BY <2>2, <2>3, TokensFinite, FS_Injection
  <2> QED BY <2>3, <2>4, TokensFinite
<1>7. Cardinality(Tokens) # 0
  BY <1>3, TokensFinite, FS_EmptySet
<1>8. Unread <= Value + Cardinality(Tokens) + stale /\ stale \in Nat /\ Unread \in Int
  BY <1>1, UnreadIsInt, RingSize DEF Working, Reads, Covered, StdinOK
<1> QED BY <1>5, <1>6, <1>7, <1>8

\* For any size of the ring and any number of readers, blocked, unblocked and
\* killed as the user likes: when all who are in read() sleep, no more characters
\* wait than processes killed or unblocked inside of read() have left places in
\* the queue of sem_stdin.
THEOREM NoKeyIsStuck ==
  ASSUME BootOrder
  PROVE  TermSpec => []NoKeyStuck
<1>1. TermInit => KeyInv
  BY KeyInitInv
<1>2. KeyInv /\ [TermNext]_termVars => KeyInv'
  BY KeyNextInv
<1>3. KeyInv => NoKeyStuck
  BY KeyInvUnsticks
<1> QED BY <1>1, <1>2, <1>3, PTL DEF TermSpec

=============================================================================
