------------------------------ MODULE MCRelay ------------------------------
(* The three builds of negotiate, one of which is chosen at the beginning. *)
EXTENDS RelaySelect, RelaySplice

CONSTANT Builds   \* those that a run looks at

VARIABLE build    \* the one that runs

MCInit == Init /\ build \in Builds

MCNext ==
  /\ \/ build = "poll" /\ Next
     \/ build = "select" /\ SelectNext
     \/ build = "splice" /\ SpliceNext
  /\ UNCHANGED build

MCLoop ==
  \/ build = "poll" /\ Loop
  \/ build = "select" /\ SelectLoop
  \/ build = "splice" /\ SpliceLoop

MCTransfer ==
  \/ build = "poll" /\ Transfer
  \/ build = "select" /\ SelectTransfer
  \/ build = "splice" /\ SpliceTransfer

MCSpec == MCInit /\ [][MCNext]_<<vars, build>>

\* As in Relay: the thread runs, and not every read or write is put off.
MCFairSpec ==
  /\ MCSpec
  /\ WF_<<vars, build>>(MCLoop /\ UNCHANGED build)
  /\ SF_<<vars, build>>(MCTransfer /\ UNCHANGED build)

\* Only select has no idle timeout; in the other builds silence ends the session.
SilenceEndsUnlessSelect == build # "select" => SilenceEnds
============================================================================
