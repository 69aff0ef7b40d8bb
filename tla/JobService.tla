---------------------------- MODULE JobService ----------------------------
(***************************************************************************)
(* What thpool.h promises to the owner of a pool, without threads, locks   *)
(* or semaphores: submitted jobs are started in the order of submission,   *)
(* each of them once, and jobs that were not started may only be thrown    *)
(* away as a whole, by a thpool_destroy that found nobody at work.         *)
(*                                                                         *)
(* Jobs are numbered 1, 2, 3, ... in the order of their thpool_add_work.   *)
(***************************************************************************)
EXTENDS Naturals, Sequences

VARIABLES
  submitted,  \* number of jobs handed to thpool_add_work so far
  pending,    \* the jobs that wait, oldest first
  running,    \* the jobs some thread is executing
  completed   \* the jobs whose function returned

svars == <<submitted, pending, running, completed>>

Init ==
  /\ submitted = 0
  /\ pending = <<>>
  /\ running = {}
  /\ completed = {}

Submit ==
  /\ submitted' = submitted + 1
  /\ pending' = Append(pending, submitted + 1)
  /\ UNCHANGED <<running, completed>>

Start ==
  /\ pending # <<>>
  /\ pending' = Tail(pending)
  /\ running' = running \cup {Head(pending)}
  /\ UNCHANGED <<submitted, completed>>

Complete ==
  \E j \in running :
    /\ running' = running \ {j}
    /\ completed' = completed \cup {j}
    /\ UNCHANGED <<submitted, pending>>

Discard ==
  /\ running = {}
  /\ pending' = <<>>
  /\ UNCHANGED <<submitted, running, completed>>

Next == Submit \/ Start \/ Complete \/ Discard

Spec == Init /\ [][Next]_svars
===========================================================================
