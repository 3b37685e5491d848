------------------------------- MODULE Channel -------------------------------
(***************************************************************************)
(* What a pipe promises to the writers and the reader of its two ends:     *)
(* bytes arrive once and in order, at most Capacity of them are on their   *)
(* way, and the reader is told that there are no more only when nobody can *)
(* write and nothing is left.                                              *)
(*                                                                         *)
(* FullLooksEmpty weakens the last promise the way Kernel/pipes.c does: a  *)
(* buffer that is exactly full may be taken for an empty one.              *)
(***************************************************************************)
EXTENDS Naturals, Sequences, SequencesExt

CONSTANTS Channels, Capacity, FullLooksEmpty

VARIABLES sent,     \* of every channel, the bytes written since it was made
          got,      \* of them, the bytes its reader has
          writers,  \* how many hold its write end
          eof       \* its reader has been told that there are no more

Init == /\ sent = [c \in Channels |-> <<>>]
        /\ got = [c \in Channels |-> <<>>]
        /\ writers = [c \in Channels |-> 0]
        /\ eof = [c \in Channels |-> FALSE]

OnTheirWay(c) == Len(sent[c]) - Len(got[c])

Write(c) == /\ writers[c] > 0
            /\ OnTheirWay(c) < Capacity
            /\ Len(sent'[c]) = Len(sent[c]) + 1
            /\ IsPrefix(sent[c], sent'[c])
            /\ sent' = [sent EXCEPT ![c] = sent'[c]]
            /\ UNCHANGED <<got, writers, eof>>

Read(c) == /\ OnTheirWay(c) > 0
           /\ got' = [got EXCEPT ![c] = Append(@, sent[c][Len(@) + 1])]
           /\ UNCHANGED <<sent, writers, eof>>

\* An end is opened while another one is open, or when the channel is new.
Open(c) == /\ writers[c] > 0 \/ (sent[c] = <<>> /\ ~eof[c])
           /\ writers' = [writers EXCEPT ![c] = @ + 1]
           /\ UNCHANGED <<sent, got, eof>>

\* A writer may close its end together with the last holder of another one.
Close(c) == /\ writers[c] > 0
            /\ writers' = [writers EXCEPT ![c] = @ - 1]
            /\ UNCHANGED <<sent, got, eof>>

TellEOF(c) == /\ writers[c] = 0
              /\ \/ OnTheirWay(c) = 0
                 \/ FullLooksEmpty /\ OnTheirWay(c) = Capacity
              /\ eof' = [eof EXCEPT ![c] = TRUE]
              /\ UNCHANGED <<sent, got, writers>>

Next == \E c \in Channels : Write(c) \/ Read(c) \/ Open(c) \/ Close(c) \/ TellEOF(c)

Spec == Init /\ [][Next]_<<sent, got, writers, eof>>
=============================================================================
