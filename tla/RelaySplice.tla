---------------------------- MODULE RelaySplice ----------------------------
(***************************************************************************)
(* negotiate() of negotiate.c with USE_SPLICE_NEGOTIATE: each buffer is a  *)
(* pipe, and npipecli and npipesrv count what is in it.  The variables are *)
(* those of Relay: data[s] is what the pipe of side s holds, its oldest    *)
(* byte at place 0, in[s] is its count, and out[s] stays 0.                *)
(*                                                                         *)
(* BufSize is the capacity of a pipe here.  The code compares the counts   *)
(* with BUFSIZE, which is 2^20 and sixteen times that capacity, so that    *)
(* the test is always true and is left out.                                *)
(***************************************************************************)
EXTENDS Relay

\* pfds[].events as the head of the loop sets them.
SpliceRequested ==
  {<<"in", s>> : s \in {s \in Sides : s = "client" => ~ clienteof}}
  \cup {<<"out", Other(s)>> : s \in {s \in Sides : in[s] > 0}}

SpliceReady ==
  {e \in SpliceRequested : IF e[1] = "in" THEN Readable(e[2]) ELSE Writable(e[2])}

splice_poll_returns ==
  /\ pc = "poll"
  /\ SpliceReady # {} \/ HungUp
  /\ revents' = SpliceReady
  /\ pc' = "readclient"
  /\ UNCHANGED <<ret, buffers, flags, peers, read, got>>

splice_poll_times_out ==
  /\ pc = "poll"
  /\ SpliceReady = {} /\ ~ HungUp
  /\ Return(6)
  /\ UNCHANGED <<revents, buffers, flags, peers, read, got>>

\* splice into a pipe looks for room before it looks at the socket: without
\* any, all it returns is EAGAIN, whether data, an end or an error is there.
HasRoom(s) == in[s] < BufSize

SpliceFails ==
  /\ \E s \in Sides : reset[s] /\ ((AtRead(s) /\ HasRoom(s)) \/ AtWrite(s))
  /\ Return(1)
  /\ UNCHANGED <<revents, buffers, flags, peers, read, got>>

\* splice from a pipe to side s takes some of what is in it; the FIN of the
\* client follows its last byte.
SpliceOut(s) ==
  LET u == Other(s) IN
  /\ AtWrite(s)
  /\ ~ stalled[s]
  /\ \E n \in 1 .. in[u] :
       /\ got' = [got EXCEPT ![s] = @ \o Front(u, n)]
       /\ data' = [data EXCEPT ![u] = [i \in 0 .. BufSize - 1 |->
                     IF i + n < BufSize THEN @[i + n] ELSE 0]]
       /\ in' = [in EXCEPT ![u] = @ - n]
       /\ finSent' = (finSent \/ (n = in[u] /\ s = "proxy" /\ clienteof))
  /\ pc' = After(pc)
  /\ UNCHANGED <<ret, revents, out, clienteof, peers, read>>

---------------------------------------------------------------------------
\* What a splice does when it is not put off.
SpliceTransfer ==
  \/ SpliceFails
  \/ HasRoom("client") /\ ClientEof
  \/ HasRoom("proxy") /\ ProxyEof
  \/ \E s \in Sides : ReadData(s) \/ SpliceOut(s)

SpliceLoop ==
  \/ setnonblock \/ splice_poll_returns \/ splice_poll_times_out
  \/ Skip \/ Again \/ SpliceTransfer

SpliceNext == SpliceLoop \/ poll_fails \/ \E s \in Sides : Peer(s)

SpliceSpec == Init /\ [][SpliceNext]_vars
============================================================================
