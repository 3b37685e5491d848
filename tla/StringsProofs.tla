--------------------------- MODULE StringsProofs ---------------------------
(***************************************************************************)
(* The functions on strings do what they are for, and the semaphores of    *)
(* pipes have the names they should, whatever the names of the pipes.      *)
(***************************************************************************)
EXTENDS Strings, WellFoundedInduction, TLAPS

\* The text t stands at s, with its NUL.
Stands(mem, s, t) ==
  /\ s .. s + Len(t) \subseteq DOMAIN mem
  /\ \A i \in 1 .. Len(t) : mem[s + i - 1] = t[i]
  /\ mem[s + Len(t)] = NUL

\* Nothing is different but from first to last.
SameOutside(mem, new, first, last) ==
  /\ DOMAIN new = DOMAIN mem
  /\ \A a \in DOMAIN mem : ~(first <= a /\ a <= last) => new[a] = mem[a]

-----------------------------------------------------------------------------

\* What Strlen() chooses is the one place where the text ends.
LEMMA TextIsRead ==
  ASSUME NEW mem, DOMAIN mem \subseteq Int, NEW Char, NUL \notin Char,
         NEW s \in Int, NEW t \in Seq(Char), Stands(mem, s, t)
  PROVE  Strlen(mem, s) = Len(t) /\ TextAt(mem, s) = t
<1> DEFINE Ns == {a - s : a \in DOMAIN mem}
<1>1. Len(t) \in Ns /\ Len(t) \in Nat
  <2>1. Len(t) \in Nat /\ s + Len(t) \in s .. s + Len(t)
    OBVIOUS
  <2>2. s + Len(t) \in DOMAIN mem
    BY <2>1 DEF Stands
  <2> QED BY <2>1, <2>2
<1>2. \A k \in 0 .. Len(t) - 1 : mem[s + k] # NUL
  <2> SUFFICES ASSUME NEW k \in 0 .. Len(t) - 1 PROVE mem[s + k] # NUL
    OBVIOUS
  <2>1. k + 1 \in 1 .. Len(t) /\ s + (k + 1) - 1 = s + k
    OBVIOUS
  <2>2. mem[s + k] = t[k + 1]
    BY <2>1 DEF Stands
  <2>3. t[k + 1] \in Char
    BY <2>1
  <2> QED BY <2>2, <2>3
<1>3. EndsAfter(mem, s, Len(t))
  BY <1>2 DEF EndsAfter, Stands
<1>4. \A n \in Ns : n >= 0 /\ EndsAfter(mem, s, n) => n = Len(t)
  <2> SUFFICES ASSUME NEW n \in Ns, n >= 0, EndsAfter(mem, s, n) PROVE n = Len(t)
    OBVIOUS
  <2>1. n \in Int
    OBVIOUS
  <2>2. ~(n < Len(t))
    BY <2>1, <1>2 DEF EndsAfter
  <2>3. ~(Len(t) < n)
    BY <2>1, <1>1, <1>3 DEF EndsAfter
  <2> QED BY <2>1, <2>2, <2>3, <1>1
<1>5. Strlen(mem, s) = Len(t)
  <2>1. Strlen(mem, s) = CHOOSE n \in Ns : n >= 0 /\ EndsAfter(mem, s, n)
    BY DEF Strlen
  <2>2. Strlen(mem, s) \in Ns /\ Strlen(mem, s) >= 0 /\ EndsAfter(mem, s, Strlen(mem, s))
    BY <2>1, <1>1, <1>3
  <2> HIDE DEF Ns
  <2> QED BY <2>2, <1>4
<1>6. TextAt(mem, s) = [i \in 1 .. Len(t) |-> t[i]]
  BY <1>5 DEF TextAt, Stands
<1>7. t = [i \in 1 .. Len(t) |-> t[i]]
  OBVIOUS
<1> QED BY <1>5, <1>6, <1>7

\* The first n characters.
LEMMA PrefixIsText ==
  ASSUME NEW Char, NEW t \in Seq(Char), NEW n \in Nat
  PROVE  /\ Prefix(t, n) \in Seq(Char)
         /\ Len(Prefix(t, n)) = IF Len(t) <= n THEN Len(t) ELSE n
         /\ \A i \in 1 .. Len(Prefix(t, n)) : Prefix(t, n)[i] = t[i]
         /\ Len(t) <= n => Prefix(t, n) = t
<1>1. CASE Len(t) <= n
  BY <1>1 DEF Prefix
<1>2. CASE ~(Len(t) <= n)
  <2>1. Prefix(t, n) = SubSeq(t, 1, n)
    BY <1>2 DEF Prefix
  <2>2. Len(t) \in Nat /\ n < Len(t)
    BY <1>2
  <2> QED BY <2>1, <2>2
<1> QED BY <1>1, <1>2

\* A text that is copied stands where it is copied to, with its NUL behind it.
LEMMA TextIsWritten ==
  ASSUME NEW mem, DOMAIN mem \subseteq Int, NEW Char, NEW t \in Seq(Char), NEW d \in Int,
         d .. d + Len(t) \subseteq DOMAIN mem
  PROVE  LET new == Memcpy(mem, d, Append(t, NUL)) IN
         /\ Stands(new, d, t)
         /\ SameOutside(mem, new, d, d + Len(t))
<1> DEFINE bytes == Append(t, NUL)
           new == Memcpy(mem, d, bytes)
<1>1. /\ Len(t) \in Nat /\ Len(bytes) = Len(t) + 1
      /\ \A i \in 1 .. Len(t) : bytes[i] = t[i]
      /\ bytes[Len(t) + 1] = NUL
  OBVIOUS
<1> HIDE DEF bytes
<1>2. DOMAIN new = DOMAIN mem
  BY DEF Memcpy
<1>3. \A a \in DOMAIN mem : new[a] = IF d <= a /\ a < d + Len(bytes) THEN bytes[a - d + 1]
                                     ELSE mem[a]
  BY DEF Memcpy
<1> HIDE DEF new
<1>4. \A i \in 1 .. Len(t) : new[d + i - 1] = t[i]
  <2> SUFFICES ASSUME NEW i \in 1 .. Len(t) PROVE new[d + i - 1] = t[i]
    OBVIOUS
  <2>1. d + i - 1 \in d .. d + Len(t)
    BY <1>1
  <2>2. d + i - 1 \in DOMAIN mem
    BY <2>1
  <2>3. new[d + i - 1] = bytes[(d + i - 1) - d + 1]
    BY <2>2, <1>1, <1>3
  <2>4. (d + i - 1) - d + 1 = i
    OBVIOUS
  <2> QED BY <2>3, <2>4, <1>1
<1>5. new[d + Len(t)] = NUL
  <2>1. d + Len(t) \in DOMAIN mem
    BY <1>1
  <2>2. new[d + Len(t)] = bytes[(d + Len(t)) - d + 1]
    BY <2>1, <1>1, <1>3
  <2>3. (d + Len(t)) - d + 1 = Len(t) + 1
    BY <1>1
  <2> QED BY <2>2, <2>3, <1>1
<1>6. SameOutside(mem, new, d, d + Len(t))
  <2> SUFFICES ASSUME NEW a \in DOMAIN mem, ~(d <= a /\ a <= d + Len(t))
               PROVE  new[a] = mem[a]
    BY <1>2 DEF SameOutside
  <2>1. a \in Int
    OBVIOUS
  <2>2. ~(d <= a /\ a < d + Len(bytes))
    BY <2>1, <1>1
  <2> QED BY <2>2, <1>3
<1>7. Stands(new, d, t)
  BY <1>2, <1>4, <1>5 DEF Stands
<1> QED BY <1>6, <1>7 DEF new, bytes

\* strncpy() writes the first n characters and their NUL, and no more.
LEMMA StrncpyWrites ==
  ASSUME NEW mem, DOMAIN mem \subseteq Int, NEW Char, NEW t \in Seq(Char), NEW d \in Int,
         NEW n \in Nat, d .. d + n \subseteq DOMAIN mem
  PROVE  LET new == Strncpy(mem, d, t, n) IN
         /\ Stands(new, d, Prefix(t, n))
         /\ SameOutside(mem, new, d, d + n)
<1> DEFINE u == Prefix(t, n)
           new == Strncpy(mem, d, t, n)
<1>1. u \in Seq(Char) /\ Len(u) \in Nat /\ Len(u) <= n
  BY PrefixIsText
<1>2. new = Memcpy(mem, d, Append(u, NUL))
  BY DEF Strncpy
<1> HIDE DEF u, new
<1>3. d .. d + Len(u) \subseteq DOMAIN mem
  BY <1>1
<1>4. Stands(new, d, u) /\ SameOutside(mem, new, d, d + Len(u))
  BY <1>1, <1>2, <1>3, TextIsWritten
<1>5. SameOutside(mem, new, d, d + n)
  BY <1>1, <1>4 DEF SameOutside
<1> QED BY <1>4, <1>5 DEF u, new

\* strncat() leaves the text that stands there and adds the first n characters.
LEMMA StrncatAdds ==
  ASSUME NEW mem, DOMAIN mem \subseteq Int, NEW Char, NUL \notin Char,
         NEW d \in Int, NEW t \in Seq(Char), NEW u \in Seq(Char), NEW n \in Nat,
         d .. d + Len(t) + n \subseteq DOMAIN mem, Stands(mem, d, t)
  PROVE  LET new == Strncat(mem, d, u, n) IN
         /\ Stands(new, d, t \o Prefix(u, n))
         /\ SameOutside(mem, new, d, d + Len(t) + n)
<1> DEFINE v == Prefix(u, n)
           new == Strncat(mem, d, u, n)
<1>1. v \in Seq(Char) /\ Len(v) \in Nat /\ Len(v) <= n
  BY PrefixIsText
<1>2. Len(t) \in Nat /\ Strlen(mem, d) = Len(t)
  BY TextIsRead
<1>3. new = Strncpy(mem, d + Len(t), u, n)
  BY <1>2 DEF Strncat
<1>4. (d + Len(t)) .. (d + Len(t)) + n \subseteq DOMAIN mem
  BY <1>2
<1>5. /\ Stands(new, d + Len(t), v)
      /\ SameOutside(mem, new, d + Len(t), (d + Len(t)) + n)
  BY <1>2, <1>3, <1>4, StrncpyWrites
<1> HIDE DEF v, new
<1>6. /\ t \o v \in Seq(Char) /\ Len(t \o v) = Len(t) + Len(v)
      /\ \A i \in 1 .. Len(t) : (t \o v)[i] = t[i]
      /\ \A i \in 1 .. Len(v) : (t \o v)[Len(t) + i] = v[i]
  BY <1>1, <1>2
<1>7. \A i \in 1 .. Len(t \o v) : new[d + i - 1] = (t \o v)[i]
  <2> SUFFICES ASSUME NEW i \in 1 .. Len(t \o v) PROVE new[d + i - 1] = (t \o v)[i]
    OBVIOUS
  <2>1. CASE i <= Len(t)
    <3>1. i \in 1 .. Len(t) /\ d + i - 1 \in d .. d + Len(t) + n
      BY <2>1, <1>2, <1>6
    <3>2. d + i - 1 \in DOMAIN mem /\ ~(d + Len(t) <= d + i - 1)
      BY <3>1, <1>2
    <3>3. new[d + i - 1] = mem[d + i - 1]
      BY <3>2, <1>5 DEF SameOutside
    <3>4. mem[d + i - 1] = t[i]
      BY <3>1 DEF Stands
    <3> QED BY <3>1, <3>3, <3>4, <1>6
  <2>2. CASE Len(t) < i
    <3> DEFINE j == i - Len(t)
    <3>1. j \in 1 .. Len(v) /\ i = Len(t) + j /\ d + i - 1 = (d + Len(t)) + j - 1
      BY <2>2, <1>1, <1>2, <1>6
    <3> HIDE DEF j
    <3>2. new[(d + Len(t)) + j - 1] = v[j]
      BY <3>1, <1>5 DEF Stands
    <3> QED BY <3>1, <3>2, <1>6
  <2> QED BY <2>1, <2>2, <1>2, <1>6
<1>8. DOMAIN new = DOMAIN mem
  BY <1>5 DEF SameOutside
<1>9. new[d + Len(t \o v)] = NUL
  <2>1. d + Len(t \o v) = (d + Len(t)) + Len(v)
    BY <1>1, <1>2, <1>6
  <2> QED BY <2>1, <1>5 DEF Stands
<1>10. d .. d + Len(t \o v) \subseteq DOMAIN new
  <2>1. d + Len(t \o v) <= d + Len(t) + n
    BY <1>1, <1>2, <1>6
  <2> QED BY <2>1, <1>1, <1>2, <1>6, <1>8
<1>11. Stands(new, d, t \o v)
  BY <1>7, <1>9, <1>10 DEF Stands
<1>12. SameOutside(mem, new, d, d + Len(t) + n)
  <2> SUFFICES ASSUME NEW a \in DOMAIN mem, ~(d <= a /\ a <= d + Len(t) + n)
               PROVE  new[a] = mem[a]
    BY <1>8 DEF SameOutside
  <2>1. ~(d + Len(t) <= a /\ a <= (d + Len(t)) + n)
    BY <1>2
  <2> QED BY <2>1, <1>5 DEF SameOutside
<1> QED BY <1>11, <1>12 DEF v, new

\* A text stays where nothing is written.
LEMMA StandsStays ==
  ASSUME NEW mem, NEW new, NEW first \in Int, NEW last \in Int,
         NEW Char, NEW t \in Seq(Char), NEW s \in Int,
         Stands(mem, s, t), SameOutside(mem, new, first, last),
         s + Len(t) < first \/ last < s
  PROVE  Stands(new, s, t)
<1>1. Len(t) \in Nat
  OBVIOUS
<1>2. \A a \in s .. s + Len(t) : new[a] = mem[a]
  BY <1>1 DEF SameOutside, Stands
<1>3. \A i \in 1 .. Len(t) : s + i - 1 \in s .. s + Len(t)
  BY <1>1
<1>4. s + Len(t) \in s .. s + Len(t)
  BY <1>1
<1> QED BY <1>2, <1>3, <1>4 DEF Stands, SameOutside

-----------------------------------------------------------------------------

\* The loop of strcmp() stops, at the first place where it may.
LEMMA StrcmpCompares ==
  ASSUME NEW Char, NUL \notin Char, NEW x \in Seq(Char), NEW y \in Seq(Char)
  PROVE  Strcmp(x, y) <=> x = y
<1> DEFINE a == Append(x, NUL)
           b == Append(y, NUL)
           goesOn(i) == a[i] # NUL /\ a[i] = b[i]
           Stops(i) == ~goesOn(i) /\ \A j \in 1 .. i - 1 : goesOn(j)
           stop == CHOOSE i \in 1 .. Len(a) : Stops(i)
           Ends == {i \in Nat : i \in 1 .. Len(a) /\ ~goesOn(i)}
<1>1. /\ Len(x) \in Nat /\ Len(a) = Len(x) + 1 /\ a[Len(x) + 1] = NUL
      /\ \A i \in 1 .. Len(x) : a[i] = x[i] /\ x[i] # NUL
  OBVIOUS
<1>2. /\ Len(y) \in Nat /\ b[Len(y) + 1] = NUL
      /\ \A i \in 1 .. Len(y) : b[i] = y[i] /\ y[i] # NUL
  OBVIOUS
<1>3. Strcmp(x, y) = (a[stop] = b[stop])
  BY DEF Strcmp
<1> HIDE DEF a, b
<1>4. Len(x) + 1 \in Ends
  BY <1>1
<1>5. PICK first \in Ends : \A j \in Ends : ~(<<j, first>> \in OpToRel(<, Nat))
  <2> HIDE DEF Ends
  <2>1. Ends \subseteq Nat /\ Ends # {}
    BY <1>4 DEF Ends
  <2> QED BY <2>1, NatLessThanWellFounded, WFMin
<1>6. first \in 1 .. Len(a) /\ Stops(first)
  <2>1. \A j \in 1 .. first - 1 : goesOn(j)
    <3> SUFFICES ASSUME NEW j \in 1 .. first - 1, ~goesOn(j) PROVE FALSE
      OBVIOUS
    <3>1. j \in Nat /\ j < first /\ j \in 1 .. Len(a)
      BY <1>1
    <3>2. j \in Ends
      BY <3>1
    <3>3. <<j, first>> \in OpToRel(<, Nat)
      BY <3>1 DEF OpToRel
    <3> QED BY <3>2, <3>3, <1>5
  <2> QED BY <2>1
<1>7. stop \in 1 .. Len(a) /\ Stops(stop)
  BY <1>6
<1> HIDE DEF stop, Ends
<1>8. ASSUME x = y PROVE a[stop] = b[stop]
  BY <1>8, <1>7 DEF a, b
<1>9. ASSUME a[stop] = b[stop] PROVE x = y
  <2>1. a[stop] = NUL
    BY <1>9, <1>7
  <2>2. stop = Len(x) + 1
    BY <2>1, <1>1, <1>7
  <2>3. \A j \in 1 .. Len(x) : x[j] = b[j]
    BY <2>2, <1>1, <1>7
  <2>4. b[Len(x) + 1] = NUL
    BY <2>1, <2>2, <1>9
  <2>5. ~(Len(y) < Len(x))
    <3> SUFFICES ASSUME Len(y) < Len(x) PROVE FALSE
      OBVIOUS
    <3>1. Len(y) + 1 \in 1 .. Len(x)
      BY <1>1, <1>2
    <3> QED BY <3>1, <2>3, <1>1, <1>2
  <2>6. ~(Len(x) < Len(y))
    <3> SUFFICES ASSUME Len(x) < Len(y) PROVE FALSE
      OBVIOUS
    <3>1. Len(x) + 1 \in 1 .. Len(y)
      BY <1>1, <1>2
    <3> QED BY <3>1, <2>4, <1>2
  <2>7. Len(x) = Len(y)
    BY <2>5, <2>6, <1>1, <1>2
  <2> QED BY <2>3, <2>7, <1>2
<1> QED BY <1>3, <1>8, <1>9

-----------------------------------------------------------------------------

\* The characters that a name can have; those of the prefixes are among them.
Characters(Char) == NUL \notin Char /\ {"lock", "items", "space"} \subseteq Char

\* The name in a field: the prefix, and what there is room for of the base name.
NameIn(field, base_name) ==
  PrefixAt(field) \o Prefix(base_name, MAX_NAME_LENGTH - 1 - Len(PrefixAt(field)))

FieldEnd(field) == field + MAX_NAME_LENGTH - 1

\* The prefixes, their lengths and their characters.
LEMMA PrefixesAre ==
  ASSUME NEW Char, Characters(Char)
  PROVE  /\ PrefixAt(LOCK) = Many("lock", 7) /\ PrefixAt(ITEMS) = Many("items", 8)
         /\ PrefixAt(SPACE) = Many("space", 8)
         /\ \A f \in Fields : /\ f \in Int /\ PrefixAt(f) \in Seq(Char)
                              /\ Len(PrefixAt(f)) \in 7 .. 8
         /\ \A f, g \in Fields : f # g => PrefixAt(f)[1] # PrefixAt(g)[1]
<1>1. LOCK \in Int /\ ITEMS \in Int /\ SPACE \in Int /\ LOCK < ITEMS /\ ITEMS < SPACE
  BY StringsAssumption DEF LOCK, ITEMS, SPACE
<1>2. /\ PrefixAt(LOCK) = Many("lock", 7) /\ PrefixAt(ITEMS) = Many("items", 8)
      /\ PrefixAt(SPACE) = Many("space", 8)
  BY <1>1 DEF PrefixAt
<1>3. ASSUME NEW c \in Char, NEW n \in 7 .. 8
      PROVE  Many(c, n) \in Seq(Char) /\ Len(Many(c, n)) = n /\ Many(c, n)[1] = c
  BY DEF Many
<1>3a. "lock" \in Char /\ "items" \in Char /\ "space" \in Char /\ 7 \in 7 .. 8 /\ 8 \in 7 .. 8
  BY DEF Characters
<1>4. /\ Many("lock", 7) \in Seq(Char) /\ Len(Many("lock", 7)) = 7
      /\ Many("lock", 7)[1] = "lock"
  BY <1>3, <1>3a
<1>5. /\ Many("items", 8) \in Seq(Char) /\ Len(Many("items", 8)) = 8
      /\ Many("items", 8)[1] = "items"
  BY <1>3, <1>3a
<1>6. /\ Many("space", 8) \in Seq(Char) /\ Len(Many("space", 8)) = 8
      /\ Many("space", 8)[1] = "space"
  BY <1>3, <1>3a
<1>7. \A f \in Fields : /\ f \in Int /\ PrefixAt(f) \in Seq(Char)
                        /\ Len(PrefixAt(f)) \in 7 .. 8
  BY <1>1, <1>2, <1>4, <1>5, <1>6 DEF Fields
<1>8. \A f, g \in Fields : f # g => PrefixAt(f)[1] # PrefixAt(g)[1]
  BY <1>2, <1>4, <1>5, <1>6 DEF Fields
<1> QED BY <1>2, <1>7, <1>8

\* A field takes its name, and nothing else changes.
LEMMA FieldTakesName ==
  ASSUME NEW mem, DOMAIN mem \subseteq Int, NEW Char, Characters(Char),
         NEW f \in Fields, f .. FieldEnd(f) \subseteq DOMAIN mem, NEW base \in Seq(Char)
  PROVE  LET new == BuildName(mem, f, base) IN
         /\ Stands(new, f, NameIn(f, base))
         /\ SameOutside(mem, new, f, FieldEnd(f))
<1> DEFINE p == PrefixAt(f)
           m == Strncpy(mem, f, p, MAX_NAME_LENGTH - 1)
           room == MAX_NAME_LENGTH - Len(p) - 1
           new == BuildName(mem, f, base)
<1>1. f \in Int /\ p \in Seq(Char) /\ Len(p) \in 7 .. 8 /\ NUL \notin Char
  BY PrefixesAre DEF Characters
<1>2. MAX_NAME_LENGTH \in Nat /\ MAX_NAME_LENGTH > 8
  BY StringsAssumption
<1>3. MAX_NAME_LENGTH - 1 \in Nat /\ f + (MAX_NAME_LENGTH - 1) = FieldEnd(f)
  BY <1>1, <1>2 DEF FieldEnd
<1>4. Prefix(p, MAX_NAME_LENGTH - 1) = p
  BY <1>1, <1>2, <1>3, PrefixIsText
<1>5. Stands(m, f, p) /\ SameOutside(mem, m, f, FieldEnd(f))
  <2> HIDE DEF p
  <2>1. f .. f + (MAX_NAME_LENGTH - 1) \subseteq DOMAIN mem
    BY <1>3
  <2>2. /\ Stands(m, f, Prefix(p, MAX_NAME_LENGTH - 1))
        /\ SameOutside(mem, m, f, f + (MAX_NAME_LENGTH - 1))
    BY <2>1, <1>1, <1>3, StrncpyWrites
  <2> QED BY <2>2, <1>3, <1>4
<1> HIDE DEF m
<1>6. DOMAIN m = DOMAIN mem
  BY <1>5 DEF SameOutside
<1>7. Strlen(m, f) = Len(p)
  BY <1>1, <1>5, <1>6, TextIsRead
<1>8. new = Strncat(m, f, base, room)
  BY <1>7 DEF BuildName, m
<1> HIDE DEF new, p
<1>9. room \in Nat /\ f + Len(p) + room = FieldEnd(f) /\ room = MAX_NAME_LENGTH - 1 - Len(p)
  <2> DEFINE l == Len(p)
  <2>1. l \in 7 .. 8
    BY <1>1
  <2> HIDE DEF l
  <2>2. /\ MAX_NAME_LENGTH - l - 1 \in Nat
        /\ f + l + (MAX_NAME_LENGTH - l - 1) = f + MAX_NAME_LENGTH - 1
        /\ MAX_NAME_LENGTH - l - 1 = MAX_NAME_LENGTH - 1 - l
    BY <2>1, <1>1, <1>2
  <2> QED BY <2>2 DEF FieldEnd, l
<1> HIDE DEF room
<1>10. f .. f + Len(p) + room \subseteq DOMAIN m
  BY <1>6, <1>9
<1>11. /\ Stands(new, f, p \o Prefix(base, room))
       /\ SameOutside(m, new, f, f + Len(p) + room)
  BY <1>1, <1>5, <1>6, <1>8, <1>9, <1>10, StrncatAdds
<1>12. Stands(new, f, NameIn(f, base))
  BY <1>9, <1>11 DEF NameIn, p
<1>13. SameOutside(mem, new, f, FieldEnd(f))
  BY <1>5, <1>9, <1>11 DEF SameOutside
<1> QED BY <1>12, <1>13 DEF new

\* The name in a field fits and begins with the prefix of the field; base names
\* that fit make different names.
LEMMA NamesDiffer ==
  ASSUME NEW Char, Characters(Char), NEW base \in Seq(Char), NEW other \in Seq(Char)
  PROVE  /\ \A f \in Fields : /\ NameIn(f, base) \in Seq(Char)
                              /\ Len(NameIn(f, base)) < MAX_NAME_LENGTH
         /\ \A f, g \in Fields : f # g => NameIn(f, base) # NameIn(g, other)
         /\ HasRoom(base) /\ HasRoom(other) /\ base # other =>
              \A f \in Fields : NameIn(f, base) # NameIn(f, other)
<1>1. MAX_NAME_LENGTH \in Nat /\ MAX_NAME_LENGTH > 8
  BY StringsAssumption
<1>2. ASSUME NEW f \in Fields, NEW t \in Seq(Char)
      PROVE  LET n == MAX_NAME_LENGTH - 1 - Len(PrefixAt(f)) IN
             /\ PrefixAt(f) \in Seq(Char) /\ Len(PrefixAt(f)) \in 7 .. 8
             /\ Prefix(t, n) \in Seq(Char) /\ Len(Prefix(t, n)) <= n
             /\ Len(Prefix(t, n)) \in Nat
             /\ HasRoom(t) => Prefix(t, n) = t
  <2> DEFINE n == MAX_NAME_LENGTH - 1 - Len(PrefixAt(f))
  <2>1. PrefixAt(f) \in Seq(Char) /\ Len(PrefixAt(f)) \in 7 .. 8
    BY PrefixesAre
  <2>2. n \in Nat /\ MAX_NAME_LENGTH - 9 <= n
    <3> DEFINE l == Len(PrefixAt(f))
    <3>1. l \in 7 .. 8
      BY <2>1
    <3> HIDE DEF l
    <3>2. MAX_NAME_LENGTH - 1 - l \in Nat /\ MAX_NAME_LENGTH - 9 <= MAX_NAME_LENGTH - 1 - l
      BY <3>1, <1>1
    <3> QED BY <3>2 DEF l
  <2> HIDE DEF n
  <2>3. /\ Prefix(t, n) \in Seq(Char)
        /\ Len(Prefix(t, n)) = IF Len(t) <= n THEN Len(t) ELSE n
        /\ Len(t) <= n => Prefix(t, n) = t
    BY <2>2, PrefixIsText
  <2>4. HasRoom(t) => Len(t) <= n
    BY <2>2, <1>1 DEF HasRoom
  <2>5. Len(t) \in Nat
    OBVIOUS
  <2> QED BY <2>1, <2>2, <2>3, <2>4, <2>5 DEF n
<1>3. \A f \in Fields : NameIn(f, base) \in Seq(Char) /\ Len(NameIn(f, base)) < MAX_NAME_LENGTH
  <2> SUFFICES ASSUME NEW f \in Fields
               PROVE  NameIn(f, base) \in Seq(Char) /\ Len(NameIn(f, base)) < MAX_NAME_LENGTH
    OBVIOUS
  <2> QED BY <1>1, <1>2 DEF NameIn
<1>4. ASSUME NEW f \in Fields, NEW t \in Seq(Char) PROVE NameIn(f, t)[1] = PrefixAt(f)[1]
  BY <1>2 DEF NameIn
<1>5. \A f, g \in Fields : f # g => NameIn(f, base) # NameIn(g, other)
  BY <1>4, PrefixesAre
<1>6. ASSUME NEW f \in Fields, HasRoom(base), HasRoom(other),
             NameIn(f, base) = NameIn(f, other)
      PROVE  base = other
  <2> DEFINE p == PrefixAt(f)
  <2>1. p \in Seq(Char) /\ p \o base = p \o other
    BY <1>2, <1>6 DEF NameIn
  <2> HIDE DEF p
  <2>2. Len(p) + Len(base) = Len(p) + Len(other)
    BY <2>1
  <2>3. Len(base) = Len(other) /\ Len(p) \in Nat
    BY <2>1, <2>2
  <2>4. \A i \in 1 .. Len(base) : base[i] = other[i]
    <3> SUFFICES ASSUME NEW i \in 1 .. Len(base) PROVE base[i] = other[i]
      OBVIOUS
    <3>1. (p \o base)[Len(p) + i] = base[i] /\ (p \o other)[Len(p) + i] = other[i]
      BY <2>1, <2>3
    <3> QED BY <3>1, <2>1
  <2> QED BY <2>3, <2>4
<1> QED BY <1>3, <1>5, <1>6

\* The pipe has its three names and is otherwise as it was.
LEMMA PipeTakesNames ==
  ASSUME NEW mem, DOMAIN mem \subseteq Int, NEW Char, Characters(Char),
         0 .. IN_USE - 1 \subseteq DOMAIN mem, NEW base \in Seq(Char)
  PROVE  LET new == BuildSemNames(mem, base) IN
         /\ \A f \in Fields : TextAt(new, f) = NameIn(f, base)
         /\ SameOutside(mem, new, 0, IN_USE - 1)
<1> DEFINE m1 == BuildName(mem, LOCK, base)
           m2 == BuildName(m1, ITEMS, base)
           m3 == BuildName(m2, SPACE, base)
<1>1. /\ MAX_NAME_LENGTH \in Nat /\ MAX_NAME_LENGTH > 8
      /\ LOCK = 0 /\ ITEMS = MAX_NAME_LENGTH /\ SPACE = 2 * MAX_NAME_LENGTH
      /\ IN_USE = 3 * MAX_NAME_LENGTH
      /\ LOCK \in Fields /\ ITEMS \in Fields /\ SPACE \in Fields
  BY StringsAssumption DEF LOCK, ITEMS, SPACE, IN_USE, Fields
<1>2. /\ LOCK .. FieldEnd(LOCK) \subseteq DOMAIN mem
      /\ ITEMS .. FieldEnd(ITEMS) \subseteq DOMAIN mem
      /\ SPACE .. FieldEnd(SPACE) \subseteq DOMAIN mem
  BY <1>1 DEF FieldEnd
<1>3. Stands(m1, LOCK, NameIn(LOCK, base)) /\ SameOutside(mem, m1, LOCK, FieldEnd(LOCK))
  BY <1>1, <1>2, FieldTakesName
<1> HIDE DEF m1
<1>4. DOMAIN m1 = DOMAIN mem
  BY <1>3 DEF SameOutside
<1>5. Stands(m2, ITEMS, NameIn(ITEMS, base)) /\ SameOutside(m1, m2, ITEMS, FieldEnd(ITEMS))
  BY <1>1, <1>2, <1>4, FieldTakesName
<1> HIDE DEF m2
<1>6. DOMAIN m2 = DOMAIN mem
  BY <1>4, <1>5 DEF SameOutside
<1>7. Stands(m3, SPACE, NameIn(SPACE, base)) /\ SameOutside(m2, m3, SPACE, FieldEnd(SPACE))
  BY <1>1, <1>2, <1>6, FieldTakesName
<1>8. BuildSemNames(mem, base) = m3
  BY DEF BuildSemNames, m1, m2
<1> HIDE DEF m3
<1>9. DOMAIN m3 = DOMAIN mem
  BY <1>6, <1>7 DEF SameOutside
<1>10. \A f \in Fields : /\ NameIn(f, base) \in Seq(Char)
                         /\ Len(NameIn(f, base)) \in Nat
                         /\ Len(NameIn(f, base)) < MAX_NAME_LENGTH
  BY NamesDiffer
<1>11. Stands(m2, LOCK, NameIn(LOCK, base))
  <2>1. LOCK + Len(NameIn(LOCK, base)) < ITEMS /\ FieldEnd(ITEMS) \in Int
    BY <1>1, <1>10 DEF FieldEnd
  <2> QED BY <2>1, <1>1, <1>3, <1>5, <1>10, StandsStays
<1>12. /\ LOCK + Len(NameIn(LOCK, base)) < SPACE
       /\ ITEMS + Len(NameIn(ITEMS, base)) < SPACE /\ FieldEnd(SPACE) \in Int
  BY <1>1, <1>10 DEF FieldEnd
<1>13. Stands(m3, LOCK, NameIn(LOCK, base))
  BY <1>1, <1>7, <1>10, <1>11, <1>12, StandsStays
<1>14. Stands(m3, ITEMS, NameIn(ITEMS, base))
  BY <1>1, <1>5, <1>7, <1>10, <1>12, StandsStays
<1>15. \A f \in Fields : Stands(m3, f, NameIn(f, base)) /\ f \in Int
  BY <1>1, <1>7, <1>13, <1>14 DEF Fields
<1>16. \A f \in Fields : TextAt(m3, f) = NameIn(f, base)
  <2> SUFFICES ASSUME NEW f \in Fields PROVE TextAt(m3, f) = NameIn(f, base)
    OBVIOUS
  <2>1. NameIn(f, base) \in Seq(Char) /\ NUL \notin Char /\ DOMAIN m3 \subseteq Int
    BY <1>9, <1>10 DEF Characters
  <2> QED BY <2>1, <1>15, TextIsRead
<1>17. SameOutside(mem, m3, 0, IN_USE - 1)
  <2> SUFFICES ASSUME NEW a \in DOMAIN mem, ~(0 <= a /\ a <= IN_USE - 1)
               PROVE  m3[a] = mem[a]
    BY <1>9 DEF SameOutside
  <2>1. /\ ~(LOCK <= a /\ a <= FieldEnd(LOCK)) /\ ~(ITEMS <= a /\ a <= FieldEnd(ITEMS))
        /\ ~(SPACE <= a /\ a <= FieldEnd(SPACE))
    BY <1>1 DEF FieldEnd
  <2> QED BY <2>1, <1>3, <1>4, <1>5, <1>6, <1>7 DEF SameOutside
<1> QED BY <1>8, <1>16, <1>17

\* The semaphores of pipes have the names they should, for all base names and
\* whatever the memory was, as build_sem_names() cuts what does not fit
\* (Kernel/pipes.c:317).  The run of Session has names around the limit.
THEOREM SemNamesAgree ==
  ASSUME NEW mem, DOMAIN mem \subseteq Int, NEW Char, Characters(Char),
         0 .. IN_USE - 1 \subseteq DOMAIN mem,
         NEW base \in Seq(Char), NEW other \in Seq(Char)
  PROVE  NamesAgree(mem, base, other)
<1> DEFINE built == BuildSemNames(mem, base)
<1>1. \A f \in Fields : TextAt(built, f) = NameIn(f, base)
  BY PipeTakesNames
<1>2. \A f \in Fields : TextAt(BuildSemNames(mem, other), f) = NameIn(f, other)
  BY PipeTakesNames
<1>3. \A a \in DOMAIN mem : a \notin 0 .. IN_USE - 1 => built[a] = mem[a]
  <2>1. SameOutside(mem, built, 0, IN_USE - 1)
    BY PipeTakesNames
  <2>2. IN_USE \in Int
    BY StringsAssumption DEF IN_USE
  <2> HIDE DEF built
  <2> QED BY <2>1, <2>2 DEF SameOutside
<1> HIDE DEF built
<1>4. \A f \in Fields : NameIn(f, base) \in Seq(Char) /\ NameKept(NameIn(f, base)) = NameIn(f, base)
  <2> SUFFICES ASSUME NEW f \in Fields
               PROVE  NameIn(f, base) \in Seq(Char)
                      /\ NameKept(NameIn(f, base)) = NameIn(f, base)
    OBVIOUS
  <2>1. NameIn(f, base) \in Seq(Char) /\ Len(NameIn(f, base)) < MAX_NAME_LENGTH
    BY NamesDiffer
  <2>2. MAX_NAME_LENGTH - 1 \in Nat /\ Len(NameIn(f, base)) <= MAX_NAME_LENGTH - 1
    BY <2>1, StringsAssumption
  <2> QED BY <2>1, <2>2, PrefixIsText DEF NameKept
<1>5. \A f, g \in Fields : NameIn(f, base) = NameIn(g, base) <=> f = g
  BY NamesDiffer
<1>6. \A f, g \in Fields : FindSem(NameKept(TextAt(built, f)), TextAt(built, g)) <=> f = g
  <2> SUFFICES ASSUME NEW f \in Fields, NEW g \in Fields
               PROVE  FindSem(NameKept(NameIn(f, base)), NameIn(g, base)) <=> f = g
    BY <1>1
  <2>1. Strcmp(NameIn(f, base), NameIn(g, base)) <=> NameIn(f, base) = NameIn(g, base)
    BY <1>4, StrcmpCompares DEF Characters
  <2> QED BY <2>1, <1>4, <1>5 DEF FindSem
<1>7. HasRoom(base) /\ HasRoom(other) /\ base # other =>
        NamesOf(mem, base) \cap NamesOf(mem, other) = {}
  <2> SUFFICES ASSUME HasRoom(base), HasRoom(other), base # other,
                      NEW f \in Fields, NEW g \in Fields
               PROVE  NameIn(f, base) # NameIn(g, other)
    BY <1>1, <1>2 DEF NamesOf, built
  <2>1. CASE f = g
    BY <2>1, NamesDiffer
  <2>2. CASE f # g
    BY <2>2, NamesDiffer
  <2> QED BY <2>1, <2>2
<1> QED BY <1>3, <1>6, <1>7 DEF NamesAgree, built

=============================================================================
