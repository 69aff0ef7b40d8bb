------------------------------- MODULE Relay -------------------------------
(***************************************************************************)
(* negotiate() of negotiate.c as the Makefile builds it (poll): the loop   *)
(* that copies bytes between the client and the upstream proxy through the *)
(* buffers to (client to proxy) and fr (proxy to client).                  *)
(*                                                                         *)
(* Everything is indexed by the side that bytes come from: data["client"]  *)
(* is to, in["client"] is toiptr - to and out["client"] is tooptr - to;    *)
(* "proxy" gives fr, friptr and froptr.  Byte k of a stream is number k.   *)
(*                                                                         *)
(* The bit that is set in pfds[].events after a read is not modelled: the  *)
(* next pass clears it before poll looks at it.  An EINTR of poll leaves   *)
(* everything as it was, that is, it is a stuttering step.                 *)
(***************************************************************************)
EXTENDS Naturals, Sequences

CONSTANTS
  BufSize,       \* BUFSIZE
  MaxBytes,      \* bound: bytes each side writes
  PeerMayReset   \* whether a connection can be reset

ASSUME RelayAssumption ==
  /\ BufSize \in Nat \ {0}
  /\ MaxBytes \in Nat
  /\ PeerMayReset \in BOOLEAN

VARIABLES
  pc,         \* the place in the loop
  ret,        \* the value negotiate returned, 9 while it runs
  revents,    \* pfds[].revents, pairs <<"in" or "out", side>>
  data,       \* the bytes in the buffers to and fr
  in, out,    \* where the next byte is put, and where the next is taken
  clienteof,
  finSent,    \* shutdown(proxyfd, SHUT_WR) was called
  sent,       \* bytes each side has written to its socket
  read,       \* bytes negotiate has read from each side
  closed,     \* each side has closed its direction (FIN)
  reset,      \* each side has reset its connection (RST)
  stalled,    \* each side has stopped reading for good
  got         \* the bytes negotiate has written to each side

vars == <<pc, ret, revents, data, in, out, clienteof, finSent,
          sent, read, closed, reset, stalled, got>>
buffers == <<data, in, out>>
flags == <<clienteof, finSent>>
peers == <<sent, closed, reset, stalled>>

Sides == {"client", "proxy"}
Other(s) == IF s = "client" THEN "proxy" ELSE "client"
Running == 9

ReadAt(s) == IF s = "client" THEN "readclient" ELSE "readproxy"
WriteAt(s) == IF s = "client" THEN "writeclient" ELSE "writeproxy"
Places == {"start", "poll", "readclient", "readproxy", "writeclient", "writeproxy", "done"}

\* The order of the four blocks of a pass.
After(p) ==
  CASE p = "readclient"  -> "readproxy"
    [] p = "readproxy"   -> "writeclient"
    [] p = "writeclient" -> "writeproxy"
    [] p = "writeproxy"  -> "poll"

Init ==
  /\ pc = "start"
  /\ ret = Running
  /\ revents = {}
  /\ data = [s \in Sides |-> [i \in 0 .. BufSize - 1 |-> 0]]
  /\ in = [s \in Sides |-> 0]
  /\ out = [s \in Sides |-> 0]
  /\ clienteof = FALSE
  /\ finSent = FALSE
  /\ sent = [s \in Sides |-> 0]
  /\ read = [s \in Sides |-> 0]
  /\ closed = [s \in Sides |-> FALSE]
  /\ reset = [s \in Sides |-> FALSE]
  /\ stalled = [s \in Sides |-> FALSE]
  /\ got = [s \in Sides |-> <<>>]

Return(r) == pc' = "done" /\ ret' = r

---------------------------------------------------------------------------
(* The two peers and the network.                                          *)

PeerWrites(s) ==
  /\ ~ closed[s] /\ ~ reset[s]
  /\ sent[s] < MaxBytes
  /\ sent' = [sent EXCEPT ![s] = @ + 1]
  /\ UNCHANGED <<pc, ret, revents, buffers, flags, read, closed, reset, stalled, got>>

PeerCloses(s) ==
  /\ ~ closed[s] /\ ~ reset[s]
  /\ closed' = [closed EXCEPT ![s] = TRUE]
  /\ UNCHANGED <<pc, ret, revents, buffers, flags, sent, read, reset, stalled, got>>

PeerResets(s) ==
  /\ PeerMayReset
  /\ ~ reset[s]
  /\ reset' = [reset EXCEPT ![s] = TRUE]
  /\ UNCHANGED <<pc, ret, revents, buffers, flags, sent, read, closed, stalled, got>>

PeerStalls(s) ==
  /\ ~ stalled[s]
  /\ stalled' = [stalled EXCEPT ![s] = TRUE]
  /\ UNCHANGED <<pc, ret, revents, buffers, flags, sent, read, closed, reset, got>>

Peer(s) == PeerWrites(s) \/ PeerCloses(s) \/ PeerResets(s) \/ PeerStalls(s)

---------------------------------------------------------------------------
(* poll.                                                                   *)

\* Mutant: POLLOUT is not asked for when data waits in a buffer.
RequestedInOnly ==
  {<<"in", s>> : s \in {s \in Sides : in[s] < BufSize /\ (s = "client" => ~ clienteof)}}

\* pfds[].events as the head of the loop sets them.
Requested ==
  {<<"in", s>> : s \in {s \in Sides : in[s] < BufSize /\ (s = "client" => ~ clienteof)}}
  \cup {<<"out", Other(s)>> : s \in {s \in Sides : in[s] # out[s]}}

Readable(s) == read[s] < sent[s] \/ closed[s] \/ reset[s]
Writable(s) == ~ stalled[s] \/ reset[s]

Ready == {e \in Requested : IF e[1] = "in" THEN Readable(e[2]) ELSE Writable(e[2])}

\* POLLERR and POLLHUP are reported whatever was asked for, and negotiate
\* never looks at them.
HungUp == (\E s \in Sides : reset[s]) \/ (closed["proxy"] /\ finSent)

setnonblock ==
  /\ pc = "start"
  /\ \/ pc' = "poll" /\ UNCHANGED ret
     \/ Return(1)
  /\ UNCHANGED <<revents, buffers, flags, peers, read, got>>

poll_returns ==
  /\ pc = "poll"
  /\ Ready # {} \/ HungUp
  /\ revents' = Ready
  /\ pc' = "readclient"
  /\ UNCHANGED <<ret, buffers, flags, peers, read, got>>

\* Mutant: poll waits for ever, as select does in the other build.
NoTimeout == FALSE /\ UNCHANGED vars

poll_times_out ==
  /\ pc = "poll"
  /\ Ready = {} /\ ~ HungUp
  /\ Return(6)
  /\ UNCHANGED <<revents, buffers, flags, peers, read, got>>

poll_fails ==
  /\ pc = "poll"
  /\ Return(1)
  /\ UNCHANGED <<revents, buffers, flags, peers, read, got>>

---------------------------------------------------------------------------
(* One pass over what poll returned.                                       *)

Pending(s) == in[s] - out[s]

\* A block whose condition is false.
Skip ==
  /\ \E s \in Sides :
       \/ pc = ReadAt(s) /\ <<"in", s>> \notin revents
       \/ pc = WriteAt(s) /\ ~ (<<"out", s>> \in revents /\ Pending(Other(s)) > 0)
  /\ pc' = After(pc)
  /\ UNCHANGED <<ret, revents, buffers, flags, peers, read, got>>

AtRead(s) == pc = ReadAt(s) /\ <<"in", s>> \in revents
AtWrite(s) == pc = WriteAt(s) /\ <<"out", s>> \in revents /\ Pending(Other(s)) > 0

\* EAGAIN or EINTR of a read or write: the rest of the pass is dropped.
Again ==
  /\ \E s \in Sides : AtRead(s) \/ AtWrite(s)
  /\ pc' = "poll"
  /\ UNCHANGED <<ret, revents, buffers, flags, peers, read, got>>

\* Any other error of a read or write.
Fails ==
  /\ \E s \in Sides : reset[s] /\ (AtRead(s) \/ AtWrite(s))
  /\ Return(1)
  /\ UNCHANGED <<revents, buffers, flags, peers, read, got>>

\* The next n bytes of side s go behind the ones that wait.
Fill(s, n) ==
  /\ data' = [data EXCEPT ![s] = [i \in 0 .. BufSize - 1 |->
                IF i \in in[s] .. (in[s] + n - 1) THEN read[s] + 1 + (i - in[s]) ELSE @[i]]]
  /\ in' = [in EXCEPT ![s] = @ + n]
  /\ read' = [read EXCEPT ![s] = @ + n]

\* Mutant: read() is given BUFSIZE, not the room that is left.
ReadPastEnd(s) ==
  /\ AtRead(s)
  /\ \E n \in 1 .. (sent[s] - read[s]) :
       /\ n <= BufSize
       /\ Fill(s, n)
  /\ pc' = After(pc)
  /\ UNCHANGED <<ret, revents, out, flags, peers, got>>

\* read() returns n > 0 bytes, as many as fit behind the ones that wait.
ReadData(s) ==
  /\ AtRead(s)
  /\ \E n \in 1 .. (sent[s] - read[s]) :
       /\ n <= BufSize - in[s]
       /\ Fill(s, n)
  /\ pc' = After(pc)
  /\ UNCHANGED <<ret, revents, out, flags, peers, got>>

AtEof(s) == AtRead(s) /\ closed[s] /\ read[s] = sent[s]

\* Mutant: the FIN is passed on without looking into the buffer.
EofShutsAtOnce ==
  /\ AtEof("client")
  /\ clienteof' = TRUE
  /\ finSent' = TRUE
  /\ pc' = After(pc)
  /\ UNCHANGED <<ret, revents, buffers, peers, read, got>>

\* read() of the client returns 0.
ClientEof ==
  /\ AtEof("client")
  /\ clienteof' = TRUE
  /\ finSent' = (finSent \/ Pending("client") = 0)
  /\ pc' = After(pc)
  /\ UNCHANGED <<ret, revents, buffers, peers, read, got>>

\* read() of the proxy returns 0: the session is over, now.
ProxyEof ==
  /\ AtEof("proxy")
  /\ Return(IF clienteof THEN 0 ELSE 1)
  /\ UNCHANGED <<revents, buffers, flags, peers, read, got>>

\* The first n bytes that wait in the buffer of side s.
Front(s, n) == [i \in 1 .. n |-> data[s][out[s] + i - 1]]

\* Mutant: a partial write counts as a whole one.
WritePartialAsWhole(s) ==
  /\ AtWrite(s)
  /\ ~ stalled[s]
  /\ \E n \in 1 .. Pending(Other(s)) :
       /\ got' = [got EXCEPT ![s] = @ \o Front(Other(s), n)]
       /\ in' = [in EXCEPT ![Other(s)] = 0]
       /\ out' = [out EXCEPT ![Other(s)] = 0]
       /\ finSent' = (finSent \/ (s = "proxy" /\ clienteof))
  /\ pc' = After(pc)
  /\ UNCHANGED <<ret, revents, data, clienteof, peers, read>>

\* Mutant: the pointers do not go back to the beginning of a drained buffer.
WriteWithoutRewind(s) ==
  /\ AtWrite(s)
  /\ ~ stalled[s]
  /\ \E n \in 1 .. Pending(Other(s)) :
       /\ got' = [got EXCEPT ![s] = @ \o Front(Other(s), n)]
       /\ out' = [out EXCEPT ![Other(s)] = @ + n]
       /\ finSent' = (finSent \/ (n = Pending(Other(s)) /\ s = "proxy" /\ clienteof))
  /\ pc' = After(pc)
  /\ UNCHANGED <<ret, revents, data, in, clienteof, peers, read>>

\* Mutant: the write that drains the buffer forgets a FIN that is due.
WriteForgetsFin(s) ==
  /\ AtWrite(s)
  /\ ~ stalled[s]
  /\ \E n \in 1 .. Pending(Other(s)) :
       LET drained == n = Pending(Other(s)) IN
       /\ got' = [got EXCEPT ![s] = @ \o Front(Other(s), n)]
       /\ in' = [in EXCEPT ![Other(s)] = IF drained THEN 0 ELSE @]
       /\ out' = [out EXCEPT ![Other(s)] = IF drained THEN 0 ELSE @ + n]
  /\ pc' = After(pc)
  /\ UNCHANGED <<ret, revents, data, flags, peers, read>>

\* write() to side s takes some of what waits for it; a drained buffer is
\* rewound, and the FIN of the client follows its last byte.
WriteData(s) ==
  /\ AtWrite(s)
  /\ ~ stalled[s]
  /\ \E n \in 1 .. Pending(Other(s)) :
       LET drained == n = Pending(Other(s)) IN
       /\ got' = [got EXCEPT ![s] = @ \o Front(Other(s), n)]
       /\ in' = [in EXCEPT ![Other(s)] = IF drained THEN 0 ELSE @]
       /\ out' = [out EXCEPT ![Other(s)] = IF drained THEN 0 ELSE @ + n]
       /\ finSent' = (finSent \/ (drained /\ s = "proxy" /\ clienteof))
  /\ pc' = After(pc)
  /\ UNCHANGED <<ret, revents, data, clienteof, peers, read>>

---------------------------------------------------------------------------
\* What a read or write does when it is not put off.
Transfer ==
  \/ Fails \/ ClientEof \/ ProxyEof
  \/ \E s \in Sides : ReadData(s) \/ WriteData(s)

Loop == setnonblock \/ poll_returns \/ poll_times_out \/ Skip \/ Again \/ Transfer

Next == Loop \/ poll_fails \/ \E s \in Sides : Peer(s)

Spec == Init /\ [][Next]_vars

\* The thread runs, and the reads and writes that follow poll are not all
\* put off with EAGAIN for ever.
Fairness == WF_vars(Loop) /\ SF_vars(Transfer)

FairSpec == Spec /\ Fairness
---------------------------------------------------------------------------
(* Properties.                                                             *)

\* The values every variable can take; out never passes in, in never leaves
\* the buffer.
TypeOK ==
  /\ pc \in Places
  /\ ret \in {0, 1, 6, Running}
  /\ revents \subseteq {"in", "out"} \X Sides
  /\ data \in [Sides -> [0 .. BufSize - 1 -> Nat]]
  /\ in \in [Sides -> 0 .. BufSize]
  /\ out \in [Sides -> 0 .. BufSize]
  /\ \A s \in Sides : out[s] <= in[s]
  /\ clienteof \in BOOLEAN
  /\ finSent \in BOOLEAN
  /\ sent \in [Sides -> Nat]
  /\ read \in [Sides -> Nat]
  /\ closed \in [Sides -> BOOLEAN]
  /\ reset \in [Sides -> BOOLEAN]
  /\ stalled \in [Sides -> BOOLEAN]
  /\ got \in [Sides -> Seq(Nat)]

\* Each direction is a Channel: no byte is lost, doubled or moved inside the
\* buffers, and shutdown(proxyfd, SHUT_WR) comes after the last byte of the
\* client.  Nothing but the close of the whole session ends the other way.
ToProxy == INSTANCE Channel WITH
  sent <- sent["client"], closed <- closed["client"],
  got <- got["proxy"], finished <- finSent
ToClient == INSTANCE Channel WITH
  sent <- sent["proxy"], closed <- closed["proxy"],
  got <- got["client"], finished <- FALSE

ForwardsToProxy == ToProxy!Spec
ForwardsToClient == ToClient!Spec

\* The idle timeout cuts no transfer that could go on: when it strikes, all
\* that one side sent was delivered, or the other side no longer reads.  A
\* full buffer that was drained without a rewind, or waiting data that poll is
\* not asked about, would break it.
TimeoutCutsNothing ==
  [][ret' = 6 /\ ret # 6 =>
       \A s \in Sides : stalled[Other(s)] \/ Len(got[Other(s)]) = sent[s]]_vars

\* The FIN of the client is never forgotten, whether it arrives before or
\* after the last byte was written to the proxy.
FinNotForgotten == clienteof /\ Pending("client") = 0 => finSent

\* What was sent is delivered, unless the session ends before or the
\* receiver no longer reads.
BytesArrive ==
  \A s \in Sides, k \in 1 .. MaxBytes :
    sent[s] >= k ~> Len(got[Other(s)]) >= k \/ pc = "done" \/ stalled[Other(s)]

\* When the peers fall silent negotiate returns; the only way to miss the
\* idle timeout is a hang-up that poll reports again and again while
\* negotiate waits for something else.
SilenceEnds == <>(pc = "done") \/ <>[](HungUp /\ Ready = {})

\* A session that negotiate reports as ended normally has passed on all that
\* the proxy sent (negotiate.c: "normal termination").
NormalTerminationDelivers ==
  ret = 0 => Len(got["client"]) = sent["proxy"]
============================================================================
