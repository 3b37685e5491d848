-------------------------- MODULE CountingSemaphore --------------------------
(***************************************************************************)
(* What a semaphore promises its users, those who have it open: the tokens *)
(* it was opened with, that P takes and V gives back one by one, and, when *)
(* there are none, sleepers served in the order in which they came.  Only  *)
(* the first to open it sets its tokens, only the last to close it takes   *)
(* them away.                                                              *)
(*                                                                         *)
(* The balance counts the calls, so that each of them is a step: one that  *)
(* did nothing would lose a token or make one.                             *)
(***************************************************************************)
EXTENDS Integers, Sequences

CONSTANTS Names, People,
          Amounts  \* the tokens semaphores are opened with

VARIABLES users,   \* who has each semaphore open
          balance, \* what it was opened with and the calls of V less those of P
          tokens,  \* of every semaphore; 0 while nobody has it open
          asleep   \* the sleepers of every semaphore, in order of arrival

vars == <<users, balance, tokens, asleep>>

Init == /\ users = [n \in Names |-> {}]
        /\ balance = [n \in Names |-> 0]
        /\ tokens = [n \in Names |-> 0]
        /\ asleep = [n \in Names |-> <<>>]

Sleepers == UNION {{asleep[n][i] : i \in 1 .. Len(asleep[n])} : n \in Names}

Sets(n, v) == /\ tokens' = [tokens EXCEPT ![n] = v]
              /\ balance' = [balance EXCEPT ![n] = v]

Open(p, n, v) ==
  /\ p \notin Sleepers \cup users[n]
  /\ users' = [users EXCEPT ![n] = @ \cup {p}]
  /\ IF users[n] = {} THEN Sets(n, v) ELSE UNCHANGED <<tokens, balance>>
  /\ UNCHANGED asleep

Close(p, n) ==
  /\ p \in users[n] \ Sleepers
  /\ users' = [users EXCEPT ![n] = @ \ {p}]
  /\ IF users[n] = {p} THEN Sets(n, 0) ELSE UNCHANGED <<tokens, balance>>
  /\ UNCHANGED asleep

P(p, n) ==
  /\ p \in users[n] \ Sleepers
  /\ \/ /\ tokens[n] > 0
        /\ tokens' = [tokens EXCEPT ![n] = @ - 1]
        /\ UNCHANGED asleep
     \/ /\ tokens[n] = 0
        /\ asleep' = [asleep EXCEPT ![n] = Append(@, p)]
        /\ UNCHANGED tokens
  /\ balance' = [balance EXCEPT ![n] = @ - 1]
  /\ UNCHANGED users

V(p, n) ==
  /\ p \in users[n] \ Sleepers
  /\ \/ /\ asleep[n] = <<>>
        /\ tokens' = [tokens EXCEPT ![n] = @ + 1]
        /\ UNCHANGED asleep
     \/ /\ asleep[n] # <<>>
        /\ asleep' = [asleep EXCEPT ![n] = Tail(@)]
        /\ UNCHANGED tokens
  /\ balance' = [balance EXCEPT ![n] = @ + 1]
  /\ UNCHANGED users

Next == \E n \in Names, p \in People :
          P(p, n) \/ V(p, n) \/ Close(p, n) \/ \E v \in Amounts : Open(p, n, v)

Spec == Init /\ [][Next]_vars
=============================================================================
