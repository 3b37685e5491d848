------------------------------ MODULE Listing ------------------------------
(***************************************************************************)
(* Tables as text: the names of anonymous pipes, and what ps prints of the *)
(* process table.                                                          *)
(*                                                                         *)
(* The characters are those of the texts of Strings; a word that the code  *)
(* spells out is that many times itself.  The table is a function on the   *)
(* slots that are not NULL.                                                *)
(***************************************************************************)
EXTENDS Strings, Library, FiniteSetsExt

CONSTANTS MAX_PCS, PROCESS_NAME_MAX_LENGTH, INFO_STR_LENGTH, MAX_PIPE_NAME_LENGTH

ASSUME ListingAssumption == {MAX_PCS, PROCESS_NAME_MAX_LENGTH, INFO_STR_LENGTH,
                             MAX_PIPE_NAME_LENGTH} \subseteq Nat \ {0}

hex_chars == <<"0", "1", "2", "3", "4", "5", "6", "7", "8", "9", "A", "B", "C", "D", "E", "F">>

Characters(digits) ==
  [i \in DOMAIN digits |-> IF digits[i] = Minus THEN "-" ELSE hex_chars[digits[i] + 1]]

Itoa(n, base) ==
  LET low == LowFirst[base, IF n < 0 THEN -n ELSE n]
  IN Characters(Reverse(IF n < 0 THEN Append(low, Minus) ELSE low))

\* The name that pipe_create_anonymous() makes for a slot.
AnonName(slot) ==
  LET anon_name == [a \in 0 .. MAX_PIPE_NAME_LENGTH - 1 |-> "?"]
  IN TextAt(Strcat(Strncpy(anon_name, 0, Many("anon", 5), 5), 0, Itoa(slot, 10)), 0)

-----------------------------------------------------------------------------
(* get_proc_list()                                                         *)

StateText(state) == CASE state = "RUNNING" -> Many("RUNNING", 7)
                      [] state = "BLOCKED" -> Many("BLOCKED", 7)
                      [] state = "READY"   -> Many("READY", 5)
                      [] state = "ZOMBIE"  -> Many("ZOMBIE", 6)
                      [] OTHER             -> Many("UNKNOWN", 7)

PrioText(prio) == CASE prio \in 0 .. 4 -> Append(Many("LEVEL_", 6), hex_chars[prio + 1])
                    [] prio = 5        -> Many("LEVEL_IDLE", 10)
                    [] OTHER           -> Many("UNKNOWN", 7)

\* An empty slot has pid -1, and otherwise whatever alloc() gave.
EmptyInfo == [pid |-> -1]

ProcessInfo(p) ==
  [name |-> Prefix(p.name, PROCESS_NAME_MAX_LENGTH - 1),
   pid |-> p.PID, parent_pid |-> p.parent_pid,
   state |-> Prefix(StateText(p.state), INFO_STR_LENGTH - 1),
   rsp |-> p.rsp,
   my_prio |-> Prefix(PrioText(p.my_prio), INFO_STR_LENGTH - 1),
   child_amount |-> p.child_amount,
   fds_count |-> Cardinality({i \in DOMAIN p.file_descriptors : p.file_descriptors[i] # 0})]

GetProcList(table) ==
  [i \in 0 .. MAX_PCS - 1 |-> IF i \in DOMAIN table THEN ProcessInfo(table[i]) ELSE EmptyInfo]

-----------------------------------------------------------------------------
(* get_proc_list_dummy()                                                   *)

lengths == <<3, 14, 7, 4, 11, 10, 3, 3>>

\* The strlen() of userlib.c counts the NUL.
Field(text, field_length) == text \o Many(" ", field_length - Len(text))

\* The lower half of the stack pointer.
RspText(rsp) == <<"0", "x">> \o [j \in 1 .. lengths[5] - 3 |->
                                   hex_chars[((rsp \div 16^(8 - j)) % 16) + 1]]

\* The texts of a row.  A name that fills the array of its column has no NUL in
\* it, and what is printed after it is not known: names are shorter.
Cells(info) ==
  <<Characters(IntToChar(info.pid)), Prefix(info.name, lengths[2]), info.state,
    IF info.parent_pid = -1 THEN <<"-", "1">> ELSE Characters(IntToChar(info.parent_pid)),
    RspText(info.rsp), info.my_prio,
    Characters(IntToChar(info.child_amount)), Characters(IntToChar(info.fds_count))>>

Row(info) ==
  LET cells == Cells(info)
  IN FlattenSeq([k \in 1 .. 8 |-> Append(Field(cells[k], lengths[k]),
                                         IF k < 8 THEN "|" ELSE "nl")])

Ps(table) ==
  LET list == GetProcList(table)
      printed == SetToSortSeq({i \in 0 .. MAX_PCS - 1 : list[i].pid # -1}, <)
  IN [r \in DOMAIN printed |-> Row(list[printed[r]])]

-----------------------------------------------------------------------------
(* What they are for.                                                      *)

\* What a column of a row says: the text that stands there, without the spaces
\* behind it, and the number that the text is.
Said(row, k) ==
  LET start == FoldLeft(LAMBDA sum, l : sum + l + 1, 0, SubSeq(lengths, 1, k - 1))
      cell  == SubSeq(row, start + 1, start + lengths[k])
  IN SubSeq(cell, 1, Max({0} \cup {i \in DOMAIN cell : cell[i] # " "}))

Digit(c) == (CHOOSE i \in DOMAIN hex_chars : hex_chars[i] = c) - 1
Number(text, base) ==
  IF text[1] = "-" THEN -Value([i \in 1 .. Len(text) - 1 |-> Digit(text[i + 1])], base)
  ELSE Value([i \in DOMAIN text |-> Digit(text[i])], base)

\* The list has a row for every process, in the order of the slots and ZOMBIEs
\* too; the text of a column and its NUL fit the array they are made in; the
\* rows are as wide as the header, and each says what is in the table.
ListingAgrees(table) ==
  LET slot == SetToSortSeq(DOMAIN table, <)
      rows == Ps(table)
  IN /\ Len(rows) = Cardinality(DOMAIN table)
     /\ \A r \in DOMAIN rows :
          LET p == table[slot[r]]  row == rows[r] IN
          /\ Len(row) = FoldLeft(LAMBDA sum, l : sum + l + 1, 0, lengths)
          /\ \A k \in {1, 2, 4, 5, 7, 8} : Len(Cells(ProcessInfo(p))[k]) < lengths[k]
          /\ Number(Said(row, 1), 10) = slot[r]
          /\ Said(row, 2) = p.name
          /\ Said(row, 3) = StateText(p.state)
          /\ Number(Said(row, 4), 10) = p.parent_pid
          /\ Number(SubSeq(Said(row, 5), 3, 10), 16) = p.rsp
          /\ Said(row, 6) = PrioText(p.my_prio)
          /\ Number(Said(row, 7), 10) = p.child_amount
          /\ Number(Said(row, 8), 10) = Cardinality({i \in DOMAIN p.file_descriptors :
                                                       p.file_descriptors[i] # 0})

\* Anonymous pipes of different slots have different names, which fit; so have
\* their semaphores.
AnonNamesAgree(slots) ==
  \A i, j \in slots :
    /\ Len(AnonName(i)) < MAX_PIPE_NAME_LENGTH /\ HasRoom(AnonName(i))
    /\ Strcmp(AnonName(i), AnonName(j)) <=> i = j

=============================================================================
