------------------------------ MODULE Strings ------------------------------
(***************************************************************************)
(* The strings of the kernel: lib_str.c and lib_mem.c, of which pipes.c    *)
(* has copies of its own, and the names of the three semaphores of a pipe. *)
(*                                                                         *)
(* A memory is a function from addresses to characters.  A string that is  *)
(* only read is its text, the sequence of its characters without the NUL:  *)
(* no caller lets a source overlap with its destination.                   *)
(***************************************************************************)
EXTENDS Integers, Sequences

CONSTANT MAX_NAME_LENGTH  \* bytes of the name of a semaphore

\* The longest prefix of build_sem_names() fits.
ASSUME StringsAssumption == MAX_NAME_LENGTH \in Nat /\ MAX_NAME_LENGTH > 8

NUL == "NUL"

Prefix(t, n) == IF Len(t) <= n THEN t ELSE SubSeq(t, 1, n)

Many(c, n) == [i \in 1 .. n |-> c]

-----------------------------------------------------------------------------
(* Writing and reading.                                                    *)

\* charcpy(), and both loops of memcpy(), which differ in the word they copy.
Memcpy(mem, dest, bytes) ==
  [a \in DOMAIN mem |-> IF dest <= a /\ a < dest + Len(bytes) THEN bytes[a - dest + 1]
                        ELSE mem[a]]

Memset(mem, dest, c, length) == Memcpy(mem, dest, Many(c, length))

EndsAfter(mem, s, n) == mem[s + n] = NUL /\ \A k \in 0 .. n - 1 : mem[s + k] # NUL

Strlen(mem, s) == CHOOSE n \in {a - s : a \in DOMAIN mem} : n >= 0 /\ EndsAfter(mem, s, n)

TextAt(mem, s) == [i \in 1 .. Strlen(mem, s) |-> mem[s + i - 1]]

Strcpy(mem, dest, src) == Memcpy(mem, dest, Append(src, NUL))

\* At most n characters and, unlike the function of the C library, always a NUL.
Strncpy(mem, dest, src, n) == Memcpy(mem, dest, Append(Prefix(src, n), NUL))

Strcat(mem, dest, src) == Strcpy(mem, dest + Strlen(mem, dest), src)

Strncat(mem, dest, src, n) == Strncpy(mem, dest + Strlen(mem, dest), src, n)

\* strcmp() = 0: where the loop stops, both strings have the same character.
Strcmp(x, y) ==
  LET a == Append(x, NUL)
      b == Append(y, NUL)
      goesOn(i) == a[i] # NUL /\ a[i] = b[i]
      stop == CHOOSE i \in 1 .. Len(a) : ~goesOn(i) /\ \A j \in 1 .. i - 1 : goesOn(j)
  IN a[stop] = b[stop]

-----------------------------------------------------------------------------
(* The names of the semaphores of a pipe: three fields of struct Pipe, one *)
(* after the other, with is_in_use behind them.                            *)

LOCK == 0
ITEMS == MAX_NAME_LENGTH
SPACE == 2 * MAX_NAME_LENGTH
IN_USE == 3 * MAX_NAME_LENGTH

\* "p_lock_", "p_items_", "p_space_"
PrefixAt(field) == CASE field = LOCK  -> Many("lock", 7)
                     [] field = ITEMS -> Many("items", 8)
                     [] field = SPACE -> Many("space", 8)

BuildName(mem, field, base_name) ==
  LET m == Strncpy(mem, field, PrefixAt(field), MAX_NAME_LENGTH - 1)
  IN Strncat(m, field, base_name, MAX_NAME_LENGTH - Strlen(m, field) - 1)

BuildSemNames(mem, base_name) ==
  BuildName(BuildName(BuildName(mem, LOCK, base_name), ITEMS, base_name), SPACE, base_name)

\* The name as sem_open_init() keeps it, and whether find_sem() then finds the
\* semaphore under its name.
NameKept(name) == Prefix(name, MAX_NAME_LENGTH - 1)
FindSem(kept, name) == Strcmp(kept, name)

-----------------------------------------------------------------------------
(* What the names are for.                                                 *)

Fields == {LOCK, ITEMS, SPACE}

\* The semaphores of pipes that have these base names.
NamesOf(mem, base_name) == {TextAt(BuildSemNames(mem, base_name), f) : f \in Fields}

\* What base_name leaves room for in the shorter of the fields.
HasRoom(base_name) == Len(base_name) <= MAX_NAME_LENGTH - 9

\* Wherever the pipe lies and whatever was there, its semaphores have three
\* names; they are kept whole, so that find_sem() finds each one and no other;
\* nothing but the three fields is written (is_in_use comes next); and pipes
\* share no semaphore, unless their names are too long and begin alike.
NamesAgree(mem, base_name, other) ==
  LET built == BuildSemNames(mem, base_name)
      name(f) == TextAt(built, f)
  IN /\ \A a \in DOMAIN mem : a \notin 0 .. IN_USE - 1 => built[a] = mem[a]
     /\ \A f, g \in Fields : FindSem(NameKept(name(f)), name(g)) <=> f = g
     /\ HasRoom(base_name) /\ HasRoom(other) /\ base_name # other =>
          NamesOf(mem, base_name) \cap NamesOf(mem, other) = {}

=============================================================================
