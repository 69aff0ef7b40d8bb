---------------------------- MODULE RelaySelect ----------------------------
(***************************************************************************)
(* negotiate() of negotiate.c with USE_SELECT_NEGOTIATE.  The variables    *)
(* are those of Relay, and so is every step that is not stated here.       *)
(*                                                                         *)
(* What differs from the poll build: select has no timeout and reports     *)
(* only what it was asked about; an interrupted call ends the session; a   *)
(* read or write that is put off does not end the pass; and what was read  *)
(* is offered to the other side in the same pass.                          *)
(***************************************************************************)
EXTENDS Relay

select_returns ==
  /\ pc = "poll"
  /\ Ready # {}
  /\ revents' = Ready
  /\ pc' = "readclient"
  /\ UNCHANGED <<ret, buffers, flags, peers, read, got>>

\* Any error of select, EINTR included.
select_fails == poll_fails

\* EAGAIN or EWOULDBLOCK of a read or write: on to the next block.
SelectAgain ==
  /\ \E s \in Sides : AtRead(s) \/ AtWrite(s)
  /\ pc' = After(pc)
  /\ UNCHANGED <<ret, revents, buffers, flags, peers, read, got>>

\* Any other error of a read or write; EINTR, which needs no reset, is one.
SelectFails ==
  /\ \E s \in Sides : AtRead(s) \/ AtWrite(s)
  /\ Return(1)
  /\ UNCHANGED <<revents, buffers, flags, peers, read, got>>

\* A read, and FD_SET of the other side in wset.
SelectReadData(s) ==
  /\ AtRead(s)
  /\ \E n \in 1 .. (sent[s] - read[s]) : n <= BufSize - in[s] /\ Fill(s, n)
  /\ revents' = revents \cup {<<"out", Other(s)>>}
  /\ pc' = After(pc)
  /\ UNCHANGED <<ret, out, flags, peers, got>>

---------------------------------------------------------------------------
SelectTransfer ==
  \/ ClientEof \/ ProxyEof
  \/ \E s \in Sides : SelectReadData(s) \/ WriteData(s)

\* A thread that is asleep in select sleeps on until something is ready: there
\* is no idle timeout in this build.
SelectLoop == setnonblock \/ select_returns \/ Skip \/ SelectAgain \/ SelectTransfer

SelectNext == SelectLoop \/ select_fails \/ SelectFails \/ \E s \in Sides : Peer(s)

SelectSpec == Init /\ [][SelectNext]_vars
============================================================================
