------------------------------ MODULE Lifecycle ------------------------------
(***************************************************************************)
(* What the process calls promise their users, without table, scheduler or *)
(* block counts: a pid is spawned, exits once, and its slot is given away  *)
(* only after that; and a process that joins another one by wait() comes   *)
(* back only when the other has exited, its slot being what wait() frees.  *)
(***************************************************************************)
EXTENDS Integers

CONSTANT Pids

NoPid == -1

VARIABLES phase,   \* "free", "live" or "exited", of every pid
          joining  \* the pid a process waits for, or NoPid

Init == /\ phase \in [Pids -> {"free", "live"}]
        /\ joining = [p \in Pids |-> NoPid]

Joined == {joining[p] : p \in Pids} \ {NoPid}

\* The pid of a process nobody waits for may be given to a new one.
Spawn(p) == /\ phase[p] # "live"
            /\ p \notin Joined
            /\ phase' = [phase EXCEPT ![p] = "live"]
            /\ UNCHANGED joining

\* One process exits, or several with it; who exits no longer waits.
Exit(S) == /\ S \subseteq {p \in Pids : phase[p] = "live"}
           /\ phase' = [p \in Pids |-> IF p \in S THEN "exited" ELSE phase[p]]
           /\ joining' = [p \in Pids |-> IF p \in S THEN NoPid ELSE joining[p]]

Release(p) == /\ phase[p] = "exited"
              /\ p \notin Joined
              /\ phase' = [phase EXCEPT ![p] = "free"]
              /\ UNCHANGED joining

Join(p, q) == /\ phase[p] = "live" /\ phase[q] = "live"
              /\ joining[p] = NoPid
              /\ joining' = [joining EXCEPT ![p] = q]
              /\ UNCHANGED phase

JoinReturns(p) == /\ joining[p] # NoPid
                  /\ phase[joining[p]] = "exited"
                  /\ phase' = [phase EXCEPT ![joining[p]] = "free"]
                  /\ joining' = [joining EXCEPT ![p] = NoPid]

Next == \/ \E p \in Pids : Spawn(p) \/ Release(p) \/ JoinReturns(p)
        \/ \E S \in SUBSET Pids : Exit(S)
        \/ \E p, q \in Pids : Join(p, q)

Spec == Init /\ [][Next]_<<phase, joining>>
=============================================================================
