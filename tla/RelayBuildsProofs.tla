------------------------- MODULE RelayBuildsProofs -------------------------
(***************************************************************************)
(* The select and the splice build of negotiate: the invariant of the poll *)
(* build and the two Channels, for every buffer or pipe size and every     *)
(* amount of data.                                                         *)
(***************************************************************************)
EXTENDS RelayProofs, RelaySelect, RelaySplice

\* A step that only moves pc, fills revents or returns keeps the invariant.
LEMMA QuietLoop ==
  ASSUME IInv, UNCHANGED <<buffers, flags, peers, read, got>>,
         pc' \in Places, ret' \in {0, 1, 6, Running}, revents' \subseteq {"in", "out"} \X Sides
  PROVE  IInv' /\ Moves
<1>. USE DEF buffers, flags, peers
<1>1. TypeOK'
  BY DEF IInv, TypeOK
<1>2. \A s \in Sides : sent[s] <= sent'[s] /\ (closed[s] => closed'[s] /\ sent'[s] = sent[s])
  BY DEF IInv, TypeOK
<1>. QED
  BY <1>1, <1>2, QuietStep DEF Moves

\* A read leaves the channels alone: the bytes are still to be delivered.
LEMMA ReadsMoves == ASSUME IInv, NEW s \in Sides, Reads(s) PROVE IInv' /\ Moves
BY ReadsStep DEF Reads, Moves, flags, peers

\* What the peers do, and the end of the client's stream.
LEMMA PeerMoves == ASSUME IInv, NEW s \in Sides, Peer(s) PROVE IInv' /\ Moves
<1>1. PeerResets(s) \/ PeerStalls(s) => UNCHANGED <<sent, closed, got, finSent>>
  BY DEF PeerResets, PeerStalls, flags
<1>. QED
  BY <1>1, PeerStep DEF Moves, Peer

LEMMA EofMoves == ASSUME IInv, ClientEof PROVE IInv' /\ Moves
BY EofStep DEF Moves

---------------------------------------------------------------------------
(* USE_SELECT_NEGOTIATE.                                                   *)

\* What a read sets in wset is an event of the other side.
LEMMA SelectReads == ASSUME IInv, NEW s \in Sides, SelectReadData(s) PROVE Reads(s)
<1>1. revents \cup {<<"out", Other(s)>>} \subseteq {"in", "out"} \X Sides
  BY TwoSides DEF IInv, TypeOK
<1>. QED
  BY <1>1 DEF SelectReadData, Reads

\* Every step of the select build keeps the invariant and is one of the moves
\* of the channels.
LEMMA SelectStep == IInv /\ [SelectNext]_vars => IInv' /\ Moves
<1>. SUFFICES ASSUME IInv, [SelectNext]_vars PROVE IInv' /\ Moves
  OBVIOUS
<1>1. CASE select_returns
  <2>1. Ready \subseteq {"in", "out"} \X Sides
    BY TwoSides DEF Ready, Requested
  <2>2. pc' \in Places /\ ret' \in {0, 1, 6, Running}
    BY <1>1 DEF select_returns, IInv, TypeOK, Places
  <2>. QED
    BY <1>1, <2>1, <2>2, QuietLoop DEF select_returns
<1>2. CASE SelectAgain
  <2>1. pc' \in Places
    BY <1>2, AfterType DEF SelectAgain, AtRead, AtWrite
  <2>2. ret' \in {0, 1, 6, Running} /\ revents' \subseteq {"in", "out"} \X Sides
    BY <1>2 DEF SelectAgain, IInv, TypeOK
  <2>. QED
    BY <1>2, <2>1, <2>2, QuietLoop DEF SelectAgain
<1>3. CASE SelectFails
  <2>1. pc' \in Places /\ ret' \in {0, 1, 6, Running} /\ revents' \subseteq {"in", "out"} \X Sides
    BY <1>3 DEF SelectFails, Return, Places, IInv, TypeOK
  <2>. QED
    BY <1>3, <2>1, QuietLoop DEF SelectFails
<1>4. CASE setnonblock \/ select_fails \/ Skip \/ ProxyEof \/ UNCHANGED vars
  BY <1>4, ControlStep DEF select_fails, Moves
<1>5. CASE ClientEof
  BY <1>5, EofMoves
<1>6. ASSUME NEW s \in Sides, SelectReadData(s) PROVE IInv' /\ Moves
  BY <1>6, SelectReads, ReadsMoves
<1>7. ASSUME NEW s \in Sides, WriteData(s) PROVE IInv' /\ Moves
  BY <1>7, WriteStep, WriteForwards DEF Moves
<1>8. ASSUME NEW s \in Sides, Peer(s) PROVE IInv' /\ Moves
  BY <1>8, PeerMoves
<1>. QED
  BY <1>1, <1>2, <1>3, <1>4, <1>5, <1>6, <1>7, <1>8 DEF SelectNext, SelectLoop, SelectTransfer

\* The buffers of the select build are those of the poll build.
THEOREM SelectInvariance == SelectSpec => []IInv
<1>1. Init => IInv
  BY IInvInit
<1>. QED
  BY <1>1, SelectStep, PTL DEF SelectSpec

\* In the select build a FIN is passed on as well as soon as nothing waits.
THEOREM SelectFinIsPassedOn == SelectSpec => []FinNotForgotten
BY FinFromInvariant, SelectInvariance, PTL

\* The select build loses, doubles or reorders no byte of the client's.
THEOREM SelectClientToProxy == SelectSpec => ForwardsToProxy
BY ChannelsInit, SelectStep, ToProxyStep, SelectInvariance, PTL
   DEF SelectSpec, ForwardsToProxy, ToProxy!Spec

\* Nor one of the proxy's.
THEOREM SelectProxyToClient == SelectSpec => ForwardsToClient
BY ChannelsInit, SelectStep, ToClientStep, SelectInvariance, PTL
   DEF SelectSpec, ForwardsToClient, ToClient!Spec

---------------------------------------------------------------------------
(* USE_SPLICE_NEGOTIATE.                                                   *)

\* A pipe is read from its front, there is no pointer to move.
SpliceInv == IInv /\ \A s \in Sides : out[s] = 0

\* The number of byte i of what a splice of n leaves, counted in two ways.
LEMMA Rearranged == \A l, n, i \in Int : l + 1 + (i + n) = l + n + 1 + i
OBVIOUS

\* splice takes the oldest bytes of a pipe; the rest moves to the front.
LEMMA SpliceOutShape ==
  ASSUME SpliceInv, NEW s \in Sides, SpliceOut(s)
  PROVE  \E n \in Nat \ {0} :
           LET u == Other(s) IN
           /\ n <= in[u]
           /\ got' = [got EXCEPT ![s] = got[s] \o [i \in 1 .. n |-> Len(got[s]) + i]]
           /\ in' = [in EXCEPT ![u] = in[u] - n]
           /\ data' \in [Sides -> [0 .. BufSize - 1 -> Nat]]
           /\ data'[s] = data[s]
           /\ \A i \in 0 .. (in[u] - n - 1) : data'[u][i] = Len(got[s]) + n + 1 + i
           /\ finSent' = (finSent \/ (n = in[u] /\ s = "proxy" /\ clienteof))
           /\ After(pc) \in Places /\ pc' = After(pc)
           /\ UNCHANGED <<ret, revents, out, clienteof, peers, read>>
<1>. DEFINE u == Other(s)
<1>. USE RelayAssumption DEF RelayAssumption
<1>0. u \in Sides /\ Other(u) = s /\ u # s
  BY TwoSides
<1>1. PICK n \in 1 .. in[u] :
        /\ got' = [got EXCEPT ![s] = got[s] \o Front(u, n)]
        /\ data' = [data EXCEPT ![u] = [i \in 0 .. BufSize - 1 |->
                      IF i + n < BufSize THEN data[u][i + n] ELSE 0]]
        /\ in' = [in EXCEPT ![u] = in[u] - n]
        /\ finSent' = (finSent \/ (n = in[u] /\ s = "proxy" /\ clienteof))
  BY DEF SpliceOut
<1>. DEFINE b == [i \in 0 .. BufSize - 1 |-> IF i + n < BufSize THEN data[u][i + n] ELSE 0]
<1>2. /\ in[u] \in 0 .. BufSize /\ out[u] = 0 /\ got[s] \in Seq(Nat) /\ Len(got[s]) \in Nat
      /\ data[u] \in [0 .. BufSize - 1 -> Nat]
  BY <1>0 DEF SpliceInv, IInv, TypeOK
<1>3. n \in Nat \ {0} /\ n <= in[u]
  BY <1>2
<1>4. \A i \in 0 .. (in[u] - 1) : data[u][i] = Len(got[s]) + 1 + i
  <2>1. \A i \in out[u] .. (in[u] - 1) : data[u][i] = Len(got[s]) + 1 + (i - out[u])
    BY <1>0 DEF SpliceInv, IInv, StreamOK
  <2>2. \A i \in 0 .. (in[u] - 1) : i - 0 = i
    OBVIOUS
  <2>. QED
    BY <1>2, <2>1, <2>2
<1>5. Front(u, n) = [i \in 1 .. n |-> Len(got[s]) + i]
  <2>1. ASSUME NEW i \in 1 .. n PROVE data[u][out[u] + i - 1] = Len(got[s]) + i
    <3>1. i - 1 \in 0 .. (in[u] - 1) /\ out[u] + i - 1 = i - 1
      BY <1>2, <1>3
    <3>2. data[u][i - 1] = Len(got[s]) + 1 + (i - 1)
      BY <1>4, <3>1
    <3>3. Len(got[s]) + 1 + (i - 1) = Len(got[s]) + i
      BY <1>2, <1>3
    <3>. QED
      BY <3>1, <3>2, <3>3
  <2>. QED
    BY <2>1 DEF Front
<1>6. b \in [0 .. BufSize - 1 -> Nat]
  BY <1>2, <1>3
<1>7. data' = [data EXCEPT ![u] = b]
  BY <1>1
<1>8. /\ data' \in [Sides -> [0 .. BufSize - 1 -> Nat]]
      /\ data'[u] = b /\ data'[s] = data[s]
  BY <1>0, <1>6, <1>7 DEF SpliceInv, IInv, TypeOK
<1>9. ASSUME NEW i \in 0 .. (in[u] - n - 1) PROVE b[i] = Len(got[s]) + n + 1 + i
  <2>1. i \in 0 .. BufSize - 1 /\ i + n < BufSize /\ i + n \in 0 .. (in[u] - 1)
    BY <1>2, <1>3
  <2>2. data[u][i + n] = Len(got[s]) + 1 + (i + n)
    BY <1>4, <2>1
  <2>3. i \in Int /\ n \in Int /\ Len(got[s]) \in Int
    BY <1>2, <1>3
  <2>4. Len(got[s]) + 1 + (i + n) = Len(got[s]) + n + 1 + i
    BY <2>3, Rearranged
  <2>. QED
    BY <2>1, <2>2, <2>4
<1>10. After(pc) \in Places /\ pc' = After(pc)
       /\ UNCHANGED <<ret, revents, out, clienteof, peers, read>>
  BY AfterType DEF SpliceOut, AtWrite
<1>. HIDE DEF b
<1>. QED
  BY <1>1, <1>3, <1>5, <1>8, <1>9, <1>10

\* Such a splice keeps the invariant and delivers bytes that are due.
LEMMA SpliceOutStep ==
  ASSUME SpliceInv, NEW s \in Sides, SpliceOut(s)
  PROVE  SpliceInv' /\ Delivers(s)
<1>. USE RelayAssumption DEF RelayAssumption, buffers, flags, peers
<1>. DEFINE u == Other(s)
<1>0. u \in Sides /\ Other(u) = s /\ u # s /\ (s = "proxy" <=> u = "client") /\ Sides = {s, u}
  BY TwoSides
<1>1. PICK n \in Nat \ {0} :
           /\ n <= in[u]
           /\ got' = [got EXCEPT ![s] = got[s] \o [i \in 1 .. n |-> Len(got[s]) + i]]
           /\ in' = [in EXCEPT ![u] = in[u] - n]
           /\ data' \in [Sides -> [0 .. BufSize - 1 -> Nat]]
           /\ data'[s] = data[s]
           /\ \A i \in 0 .. (in[u] - n - 1) : data'[u][i] = Len(got[s]) + n + 1 + i
           /\ finSent' = (finSent \/ (n = in[u] /\ s = "proxy" /\ clienteof))
           /\ After(pc) \in Places /\ pc' = After(pc)
           /\ UNCHANGED <<ret, revents, out, clienteof, peers, read>>
  BY SpliceOutShape
<1>. DEFINE new == [i \in 1 .. n |-> Len(got[s]) + i]
            L == Len(got[s])
<1>2. /\ read[u] \in Nat /\ sent[u] \in Nat /\ L \in Nat
      /\ in[u] \in 0 .. BufSize /\ out[u] = 0 /\ out[s] = 0 /\ got[s] \in Seq(Nat)
  BY <1>0 DEF SpliceInv, IInv, TypeOK
<1>3. new \in Seq(Nat) /\ Len(new) = n
  BY <1>2
<1>. HIDE DEF new
<1>4. got[s] \o new \in Seq(Nat) /\ Len(got[s] \o new) = L + n
  BY <1>2, <1>3, ConcatProperties
<1>5. /\ got' = [got EXCEPT ![s] = got[s] \o new]
      /\ got'[s] = got[s] \o new /\ got'[u] = got[u] /\ Len(got'[s]) = L + n
  BY <1>0, <1>1, <1>4 DEF new, SpliceInv, IInv, TypeOK
<1>6. read[u] <= sent[u] /\ read[u] = L + in[u]
  <2>1. read[u] <= sent[u] /\ read[u] = L + (in[u] - out[u])
    BY <1>0 DEF SpliceInv, IInv, StreamOK
  <2>. QED
    BY <1>2, <2>1
<1>. HIDE DEF L
<1>7. /\ in'[u] = in[u] - n /\ in'[s] = in[s] /\ out' = out
      /\ in' \in [Sides -> 0 .. BufSize]
  <2>1. in[u] - n \in 0 .. BufSize
    BY <1>1, <1>2
  <2>. QED
    BY <1>0, <1>1, <2>1 DEF SpliceInv, IInv, TypeOK
<1>8. TypeOK'
  <2>1. got' \in [Sides -> Seq(Nat)]
    BY <1>4, <1>5 DEF SpliceInv, IInv, TypeOK
  <2>2. \A w \in Sides : out'[w] <= in'[w]
    BY <1>0, <1>2, <1>7
  <2>3. finSent' \in BOOLEAN
    BY <1>1 DEF SpliceInv, IInv, TypeOK
  <2>. QED
    BY <1>1, <1>7, <2>1, <2>2, <2>3 DEF SpliceInv, IInv, TypeOK
<1>9. StreamOK(s)' /\ RewoundOK(s)'
  <2>1. StreamOK(s) /\ RewoundOK(s)
    BY DEF SpliceInv, IInv
  <2>. QED
    BY <1>0, <1>1, <1>5, <1>7, <2>1 DEF StreamOK, RewoundOK
<1>10. StreamOK(u)' /\ RewoundOK(u)'
  <2>1. read'[u] <= sent'[u] /\ read'[u] = (L + n) + (in'[u] - out'[u])
    BY <1>1, <1>2, <1>6, <1>7
  <2>2. ASSUME NEW i \in out'[u] .. (in'[u] - 1)
        PROVE  data'[u][i] = (L + n) + 1 + (i - out'[u])
    <3>1. i \in 0 .. (in[u] - n - 1) /\ out'[u] = 0
      BY <1>2, <1>7
    <3>2. data'[u][i] = L + n + 1 + i
      BY <1>1, <3>1 DEF L
    <3>3. i \in Int /\ i - 0 = i
      BY <3>1
    <3>. QED
      BY <3>1, <3>2, <3>3
  <2>3. StreamOK(u)'
    BY <1>0, <1>5, <2>1, <2>2 DEF StreamOK
  <2>. QED
    BY <1>2, <1>7, <2>3 DEF RewoundOK
<1>11. s = "proxy" => ~ finSent
  BY <1>0, <1>1, <1>2 DEF SpliceInv, IInv, EofOK
<1>12. EofOK'
  <2>1. CASE s = "client"
    <3>1. finSent' = finSent /\ in'["client"] = in["client"]
      BY <1>1, <1>7, <2>1 DEF SpliceInv, IInv, TypeOK
    <3>. QED
      BY <1>1, <1>7, <3>1 DEF SpliceInv, IInv, EofOK
  <2>2. CASE s = "proxy"
    <3>1. u = "client" /\ (n = in[u] <=> in'[u] = out'[u])
      BY <1>0, <1>1, <1>2, <1>7, <2>2
    <3>2. finSent' <=> n = in[u] /\ clienteof
      BY <1>1, <1>11, <2>2 DEF SpliceInv, IInv, TypeOK
    <3>. QED
      BY <1>1, <3>1, <3>2 DEF SpliceInv, IInv, EofOK
  <2>. QED
    BY <2>1, <2>2 DEF Sides
<1>13. SpliceInv'
  BY <1>0, <1>2, <1>7, <1>8, <1>9, <1>10, <1>12 DEF SpliceInv, IInv
<1>14. n \in 0 .. (sent[u] - L)
  BY <1>1, <1>2, <1>6
<1>15. s = "client" => finSent' = finSent
  BY <1>1 DEF SpliceInv, IInv, TypeOK
<1>. QED
  BY <1>1, <1>11, <1>13, <1>14, <1>15 DEF Delivers, L

\* Every step of the splice build keeps the invariant and is one of the moves
\* of the channels.
LEMMA SpliceStep == SpliceInv /\ [SpliceNext]_vars => SpliceInv' /\ Moves
<1>. SUFFICES ASSUME SpliceInv, [SpliceNext]_vars PROVE SpliceInv' /\ Moves
  OBVIOUS
<1>0. IInv
  BY DEF SpliceInv
<1>1. CASE splice_poll_returns
  <2>1. SpliceReady \subseteq {"in", "out"} \X Sides
    BY TwoSides DEF SpliceReady, SpliceRequested
  <2>2. pc' \in Places /\ ret' \in {0, 1, 6, Running}
    BY <1>0, <1>1 DEF splice_poll_returns, IInv, TypeOK, Places
  <2>. QED
    BY <1>0, <1>1, <2>1, <2>2, QuietLoop DEF splice_poll_returns, SpliceInv, buffers
<1>2. CASE splice_poll_times_out \/ SpliceFails
  <2>1. /\ pc' \in Places /\ ret' \in {0, 1, 6, Running} /\ revents' \subseteq {"in", "out"} \X Sides
        /\ UNCHANGED <<buffers, flags, peers, read, got>>
    BY <1>0, <1>2 DEF splice_poll_times_out, SpliceFails, Return, Places, IInv, TypeOK
  <2>. QED
    BY <1>0, <2>1, QuietLoop DEF SpliceInv, buffers
<1>3. CASE setnonblock \/ poll_fails \/ Skip \/ Again \/ ProxyEof \/ UNCHANGED vars
  <2>1. UNCHANGED out
    BY <1>3 DEF setnonblock, poll_fails, Skip, Again, ProxyEof, vars, buffers
  <2>. QED
    BY <1>0, <1>3, <2>1, ControlStep DEF SpliceInv, Moves
<1>4. CASE ClientEof
  BY <1>0, <1>4, EofMoves DEF SpliceInv, ClientEof, buffers
<1>5. ASSUME NEW s \in Sides, ReadData(s) PROVE SpliceInv' /\ Moves
  <2>1. Reads(s)
    BY <1>0, <1>5 DEF ReadData, Reads, IInv, TypeOK
  <2>. QED
    BY <1>0, <2>1, ReadsMoves DEF SpliceInv, Reads
<1>6. ASSUME NEW s \in Sides, SpliceOut(s) PROVE SpliceInv' /\ Moves
  BY <1>6, SpliceOutStep DEF Moves
<1>7. ASSUME NEW s \in Sides, Peer(s) PROVE SpliceInv' /\ Moves
  <2>1. UNCHANGED out
    BY <1>7 DEF Peer, PeerWrites, PeerCloses, PeerResets, PeerStalls, buffers
  <2>. QED
    BY <1>0, <1>7, <2>1, PeerMoves DEF SpliceInv
<1>. QED
  BY <1>1, <1>2, <1>3, <1>4, <1>5, <1>6, <1>7 DEF SpliceNext, SpliceLoop, SpliceTransfer

\* The counts of the two pipes agree with what is in them.
THEOREM SpliceInvariance == SpliceSpec => []SpliceInv
<1>1. Init => SpliceInv
  BY IInvInit DEF SpliceInv, Init
<1>. QED
  BY <1>1, SpliceStep, PTL DEF SpliceSpec

\* In the splice build a FIN is passed on as well as soon as nothing waits.
THEOREM SpliceFinIsPassedOn == SpliceSpec => []FinNotForgotten
<1>1. SpliceInv => FinNotForgotten
  BY FinFromInvariant DEF SpliceInv
<1>. QED
  BY <1>1, SpliceInvariance, PTL

\* The splice build loses, doubles or reorders no byte of the client's.
THEOREM SpliceClientToProxy == SpliceSpec => ForwardsToProxy
<1>1. SpliceInv => IInv
  BY DEF SpliceInv
<1>. QED
  BY <1>1, ChannelsInit, SpliceStep, ToProxyStep, SpliceInvariance, PTL
     DEF SpliceSpec, ForwardsToProxy, ToProxy!Spec

\* Nor one of the proxy's.
THEOREM SpliceProxyToClient == SpliceSpec => ForwardsToClient
<1>1. SpliceInv => IInv
  BY DEF SpliceInv
<1>. QED
  BY <1>1, ChannelsInit, SpliceStep, ToClientStep, SpliceInvariance, PTL
     DEF SpliceSpec, ForwardsToClient, ToClient!Spec

\* When the idle timeout strikes, both pipes are empty and both sockets read
\* out, or a side no longer reads.
THEOREM SpliceTimeoutIsIdle == SpliceSpec => TimeoutCutsNothing
<1>1. ASSUME SpliceInv, [SpliceNext]_vars, ret' = 6, ret # 6
      PROVE  \A s \in Sides : stalled[Other(s)] \/ Len(got[Other(s)]) = sent[s]
  <2>1. splice_poll_times_out
    <3>1. ASSUME NEW s \in Sides, Peer(s) \/ ReadData(s) \/ SpliceOut(s) PROVE ret' = ret
      BY <3>1 DEF Peer, PeerWrites, PeerCloses, PeerResets, PeerStalls, ReadData, Fill, SpliceOut
    <3>2. ASSUME \/ setnonblock \/ splice_poll_returns \/ poll_fails \/ Skip \/ Again
                 \/ SpliceFails \/ ClientEof \/ ProxyEof \/ UNCHANGED vars
          PROVE  ret' = ret \/ ret' \in {0, 1}
      BY <3>2 DEF setnonblock, splice_poll_returns, poll_fails, Skip, Again, SpliceFails,
         ClientEof, ProxyEof, Return, vars
    <3>. QED
      BY <1>1, <3>1, <3>2 DEF SpliceNext, SpliceLoop, SpliceTransfer
  <2>. SUFFICES ASSUME NEW s \in Sides, ~ stalled[Other(s)] PROVE Len(got[Other(s)]) = sent[s]
    OBVIOUS
  <2>2. /\ SpliceReady = {} /\ Other(s) \in Sides
        /\ in[s] \in Nat /\ out[s] = 0 /\ read[s] \in Nat /\ sent[s] \in Nat
        /\ Len(got[Other(s)]) \in Nat
    BY <1>1, <2>1, TwoSides DEF splice_poll_times_out, SpliceInv, IInv, TypeOK
  <2>3. in[s] = 0
    <3>1. SUFFICES ASSUME in[s] > 0 PROVE FALSE
      BY <2>2
    <3>2. <<"out", Other(s)>> \in SpliceRequested
      BY <3>1 DEF SpliceRequested
    <3>3. <<"out", Other(s)>> \in SpliceReady
      BY <3>2 DEF SpliceReady, Writable
    <3>. QED
      BY <2>2, <3>3
  <2>4. read[s] = sent[s]
    <3>1. SUFFICES ASSUME read[s] # sent[s] PROVE FALSE
      OBVIOUS
    <3>2. read[s] < sent[s]
      BY <1>1, <2>2, <3>1 DEF SpliceInv, IInv, StreamOK
    <3>3. ~ (s = "client" /\ clienteof)
      BY <1>1, <3>1 DEF SpliceInv, IInv, EofOK
    <3>4. <<"in", s>> \in SpliceRequested
      BY <3>3 DEF SpliceRequested
    <3>5. <<"in", s>> \in SpliceReady
      BY <3>2, <3>4 DEF SpliceReady, Readable
    <3>. QED
      BY <2>2, <3>5
  <2>5. read[s] = Len(got[Other(s)]) + (in[s] - out[s])
    BY <1>1 DEF SpliceInv, IInv, StreamOK
  <2>. QED
    BY <2>2, <2>3, <2>4, <2>5
<1>. QED
  BY <1>1, SpliceInvariance, PTL DEF SpliceSpec, TimeoutCutsNothing
============================================================================
