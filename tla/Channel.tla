------------------------------ MODULE Channel ------------------------------
(***************************************************************************)
(* What a relay owes to one direction of a connection: the bytes that one  *)
(* side writes reach the other side unchanged and in order, and the end of *)
(* the stream is passed on only after the last byte.  A relay may give up  *)
(* at any time, so nothing has to be delivered.                            *)
(*                                                                         *)
(* Byte number k of the stream is the number k.                            *)
(***************************************************************************)
EXTENDS Naturals, Sequences

VARIABLES
  sent,      \* number of bytes the writer has written
  closed,    \* the writer has closed its side
  got,       \* the bytes that were passed on, in order
  finished   \* the end of the stream was passed on

chvars == <<sent, closed, got, finished>>

Init ==
  /\ sent = 0
  /\ ~ closed
  /\ got = <<>>
  /\ ~ finished

Send ==
  /\ ~ closed
  /\ sent' = sent + 1
  /\ UNCHANGED <<closed, got, finished>>

Close ==
  /\ closed' = TRUE
  /\ UNCHANGED <<sent, got, finished>>

\* Some of the bytes that are due, and the end if nothing is due after them.
Forward ==
  /\ ~ finished
  /\ \E n \in 0 .. (sent - Len(got)) :
       got' = got \o [i \in 1 .. n |-> Len(got) + i]
  /\ finished' => closed /\ Len(got') = sent
  /\ UNCHANGED <<sent, closed>>

Next == Send \/ Close \/ Forward

Spec == Init /\ [][Next]_chvars
=============================================================================
