---------------------------- MODULE RelayProofs ----------------------------
(***************************************************************************)
(* The safety properties of Relay for every buffer size and every amount   *)
(* of data.                                                                *)
(***************************************************************************)
EXTENDS Relay, Integers, SequenceTheorems, TLAPS

\* What waits in a buffer is what was read and not yet written, in order.
StreamOK(s) ==
  /\ read[s] <= sent[s]
  /\ read[s] = Len(got[Other(s)]) + (in[s] - out[s])
  /\ \A i \in out[s] .. (in[s] - 1) : data[s][i] = Len(got[Other(s)]) + 1 + (i - out[s])

\* A drained buffer is rewound.
RewoundOK(s) == in[s] = out[s] => in[s] = 0

\* clienteof is set at the end of the client's stream, and its FIN was
\* passed on exactly if nothing waits any more.
EofOK ==
  /\ clienteof => closed["client"] /\ read["client"] = sent["client"]
  /\ finSent <=> clienteof /\ in["client"] = out["client"]

IInv ==
  /\ TypeOK
  /\ \A s \in Sides : StreamOK(s) /\ RewoundOK(s)
  /\ EofOK

\* The other side is the other one of the two.
LEMMA TwoSides ==
  /\ Sides = {"client", "proxy"} /\ "client" # "proxy"
  /\ Other("client") = "proxy" /\ Other("proxy") = "client"
  /\ \A s \in Sides : Other(s) \in Sides /\ Other(s) # s /\ Other(Other(s)) = s
BY DEF Sides, Other

\* Every block of a pass is followed by a place of the loop.
LEMMA AfterType ==
  \A s \in Sides : (pc = ReadAt(s) \/ pc = WriteAt(s)) => After(pc) \in Places
BY DEF Sides, ReadAt, WriteAt, After, Places

---------------------------------------------------------------------------
(* The two steps that move bytes, each described for the invariant.        *)

\* The number of the byte that a read puts at place i.
LEMMA NextNumberType ==
  \A r, a, i \in Nat : a <= i => r + 1 + (i - a) \in Nat
OBVIOUS

\* A read, whatever it does to revents.
Reads(s) ==
  /\ AtRead(s)
  /\ \E n \in 1 .. (sent[s] - read[s]) : n <= BufSize - in[s] /\ Fill(s, n)
  /\ revents' \subseteq {"in", "out"} \X Sides
  /\ pc' = After(pc)
  /\ UNCHANGED <<ret, out, flags, peers, got>>

\* A read puts the next bytes of a stream behind the ones that wait.
LEMMA ReadDataShape ==
  ASSUME IInv, NEW s \in Sides, Reads(s)
  PROVE  \E n \in Nat \ {0} :
           /\ read[s] + n <= sent[s] /\ in[s] + n <= BufSize
           /\ read' = [read EXCEPT ![s] = read[s] + n]
           /\ in' = [in EXCEPT ![s] = in[s] + n]
           /\ data' \in [Sides -> [0 .. BufSize - 1 -> Nat]]
           /\ \A u \in Sides \ {s} : data'[u] = data[u]
           /\ \A i \in 0 .. BufSize - 1 :
                data'[s][i] = IF i \in in[s] .. (in[s] + n - 1)
                              THEN read[s] + 1 + (i - in[s]) ELSE data[s][i]
           /\ After(pc) \in Places /\ pc' = After(pc)
           /\ revents' \subseteq {"in", "out"} \X Sides
           /\ UNCHANGED <<ret, out, flags, peers, got>>
<1>. USE RelayAssumption DEF IInv, TypeOK, RelayAssumption
<1>1. PICK n \in 1 .. (sent[s] - read[s]) :
        /\ n <= BufSize - in[s]
        /\ data' = [data EXCEPT ![s] = [i \in 0 .. BufSize - 1 |->
                      IF i \in in[s] .. (in[s] + n - 1) THEN read[s] + 1 + (i - in[s]) ELSE data[s][i]]]
        /\ in' = [in EXCEPT ![s] = in[s] + n]
        /\ read' = [read EXCEPT ![s] = read[s] + n]
  BY DEF Reads, Fill
<1>. DEFINE b == [i \in 0 .. BufSize - 1 |->
                    IF i \in in[s] .. (in[s] + n - 1) THEN read[s] + 1 + (i - in[s]) ELSE data[s][i]]
<1>2. n \in Nat \ {0} /\ in[s] \in Nat /\ read[s] \in Nat /\ sent[s] \in Nat
      /\ data[s] \in [0 .. BufSize - 1 -> Nat]
  OBVIOUS
<1>3. b \in [0 .. BufSize - 1 -> Nat]
  <2>1. ASSUME NEW i \in 0 .. BufSize - 1, i \in in[s] .. (in[s] + n - 1)
        PROVE  read[s] + 1 + (i - in[s]) \in Nat
    <3>1. i \in Nat /\ in[s] <= i
      BY <1>2, <2>1
    <3>. QED
      BY <1>2, <3>1, NextNumberType
  <2>2. ASSUME NEW i \in 0 .. BufSize - 1
        PROVE  IF i \in in[s] .. (in[s] + n - 1) THEN read[s] + 1 + (i - in[s]) \in Nat
                                                 ELSE data[s][i] \in Nat
    BY <1>2, <2>1
  <2>. QED
    BY <2>2
<1>4. data' = [data EXCEPT ![s] = b]
  BY <1>1
<1>5. /\ data' \in [Sides -> [0 .. BufSize - 1 -> Nat]]
      /\ \A u \in Sides \ {s} : data'[u] = data[u]
      /\ data'[s] = b
  BY <1>3, <1>4
<1>6. After(pc) \in Places /\ pc' = After(pc)
      /\ revents' \subseteq {"in", "out"} \X Sides
      /\ UNCHANGED <<ret, out, flags, peers, got>>
  BY AfterType DEF Reads, AtRead
<1>7. read[s] + n <= sent[s] /\ in[s] + n <= BufSize
  BY <1>1, <1>2
<1>. QED
  BY <1>1, <1>2, <1>5, <1>6, <1>7

\* A write hands on the oldest bytes that wait; the numbers they carry are
\* the ones that are due.
LEMMA WriteDataShape ==
  ASSUME IInv, NEW s \in Sides, WriteData(s)
  PROVE  \E n \in Nat \ {0} :
           LET u == Other(s)  drained == n = in[u] - out[u] IN
           /\ n <= in[u] - out[u]
           /\ got' = [got EXCEPT ![s] = got[s] \o [i \in 1 .. n |-> Len(got[s]) + i]]
           /\ in' = [in EXCEPT ![u] = IF drained THEN 0 ELSE in[u]]
           /\ out' = [out EXCEPT ![u] = IF drained THEN 0 ELSE out[u] + n]
           /\ finSent' = (finSent \/ (drained /\ s = "proxy" /\ clienteof))
           /\ After(pc) \in Places /\ pc' = After(pc)
           /\ UNCHANGED <<ret, revents, data, clienteof, peers, read>>
<1>. DEFINE u == Other(s)
<1>. USE RelayAssumption DEF RelayAssumption
<1>0. u \in Sides /\ Other(u) = s
  BY TwoSides
<1>1. PICK n \in 1 .. (in[u] - out[u]) :
        /\ got' = [got EXCEPT ![s] = got[s] \o Front(u, n)]
        /\ in' = [in EXCEPT ![u] = IF n = in[u] - out[u] THEN 0 ELSE in[u]]
        /\ out' = [out EXCEPT ![u] = IF n = in[u] - out[u] THEN 0 ELSE out[u] + n]
        /\ finSent' = (finSent \/ (n = in[u] - out[u] /\ s = "proxy" /\ clienteof))
  BY DEF WriteData, Pending
<1>2. in[u] \in 0 .. BufSize /\ out[u] \in 0 .. BufSize /\ out[u] <= in[u] /\ got[s] \in Seq(Nat)
  BY <1>0 DEF IInv, TypeOK
<1>3. n \in Nat \ {0} /\ n <= in[u] - out[u]
  BY <1>2
<1>4. \A i \in 1 .. n : data[u][out[u] + i - 1] = Len(got[s]) + i
  <2>1. \A i \in out[u] .. (in[u] - 1) : data[u][i] = Len(got[s]) + 1 + (i - out[u])
    BY <1>0 DEF IInv, StreamOK
  <2>2. ASSUME NEW i \in 1 .. n
        PROVE  /\ out[u] + i - 1 \in out[u] .. (in[u] - 1)
               /\ Len(got[s]) + 1 + ((out[u] + i - 1) - out[u]) = Len(got[s]) + i
    BY <1>2, <1>3
  <2>. QED
    BY <2>1, <2>2
<1>5. Front(u, n) = [i \in 1 .. n |-> Len(got[s]) + i]
  BY <1>4 DEF Front
<1>6. After(pc) \in Places /\ pc' = After(pc)
      /\ UNCHANGED <<ret, revents, data, clienteof, peers, read>>
  BY AfterType DEF WriteData, AtWrite
<1>. QED
  BY <1>1, <1>3, <1>5, <1>6

---------------------------------------------------------------------------
(* The invariant.                                                          *)

\* Everything starts empty.
LEMMA IInvInit == Init => IInv
<1>. SUFFICES ASSUME Init PROVE IInv
  OBVIOUS
<1>. USE RelayAssumption DEF RelayAssumption, Init
<1>1. TypeOK
  <2>1. /\ data \in [Sides -> [0 .. BufSize - 1 -> Nat]]
        /\ in \in [Sides -> 0 .. BufSize] /\ out \in [Sides -> 0 .. BufSize]
        /\ \A s \in Sides : out[s] <= in[s]
    OBVIOUS
  <2>2. /\ sent \in [Sides -> Nat] /\ read \in [Sides -> Nat]
        /\ closed \in [Sides -> BOOLEAN] /\ reset \in [Sides -> BOOLEAN]
        /\ stalled \in [Sides -> BOOLEAN]
    OBVIOUS
  <2>3. <<>> \in Seq(Nat)
    OBVIOUS
  <2>4. got \in [Sides -> Seq(Nat)]
    BY <2>3
  <2>5. /\ pc \in Places /\ ret \in {0, 1, 6, Running} /\ revents \subseteq {"in", "out"} \X Sides
        /\ clienteof \in BOOLEAN /\ finSent \in BOOLEAN
    BY DEF Places
  <2>. QED
    BY <2>1, <2>2, <2>4, <2>5 DEF TypeOK
<1>2. ASSUME NEW s \in Sides PROVE StreamOK(s) /\ RewoundOK(s)
  <2>1. Other(s) \in Sides
    BY TwoSides
  <2>2. got[Other(s)] = <<>> /\ read[s] = 0 /\ sent[s] = 0 /\ in[s] = 0 /\ out[s] = 0
    BY <2>1
  <2>. QED
    BY <2>2 DEF StreamOK, RewoundOK
<1>3. EofOK
  BY DEF EofOK
<1>. QED
  BY <1>1, <1>2, <1>3 DEF IInv

\* The steps that move no byte: the peers may write more, close or reset.
LEMMA QuietStep ==
  ASSUME IInv, TypeOK', UNCHANGED <<data, in, out, read, got, clienteof, finSent>>,
         \A s \in Sides : sent[s] <= sent'[s] /\ (closed[s] => closed'[s] /\ sent'[s] = sent[s])
  PROVE  IInv'
<1>1. ASSUME NEW s \in Sides PROVE StreamOK(s)' /\ RewoundOK(s)'
  <2>1. read[s] \in Nat /\ sent[s] \in Nat /\ sent'[s] \in Nat
    BY DEF IInv, TypeOK
  <2>2. StreamOK(s) /\ RewoundOK(s)
    BY DEF IInv
  <2>. QED
    BY <2>1, <2>2 DEF StreamOK, RewoundOK
<1>2. EofOK'
  BY TwoSides DEF IInv, EofOK
<1>. QED
  BY <1>1, <1>2 DEF IInv

\* What the two peers do.
LEMMA PeerStep == ASSUME IInv, NEW s \in Sides, Peer(s) PROVE IInv'
<1>. USE DEF buffers, flags
<1>1. CASE PeerWrites(s)
  <2>1. /\ sent' = [sent EXCEPT ![s] = sent[s] + 1] /\ ~ closed[s]
        /\ UNCHANGED <<pc, ret, revents, buffers, flags, read, closed, reset, stalled, got>>
    BY <1>1 DEF PeerWrites
  <2>2. TypeOK'
    BY <2>1 DEF IInv, TypeOK
  <2>3. \A u \in Sides : sent[u] <= sent'[u] /\ (closed[u] => closed'[u] /\ sent'[u] = sent[u])
    BY <2>1 DEF IInv, TypeOK
  <2>. QED
    BY <2>1, <2>2, <2>3, QuietStep
<1>2. CASE PeerCloses(s) \/ PeerResets(s) \/ PeerStalls(s)
  <2>1. TypeOK'
    <3>1. closed' \in [Sides -> BOOLEAN] /\ reset' \in [Sides -> BOOLEAN] /\ stalled' \in [Sides -> BOOLEAN]
      BY <1>2 DEF PeerCloses, PeerResets, PeerStalls, IInv, TypeOK
    <3>2. UNCHANGED <<pc, ret, revents, buffers, flags, sent, read, got>>
      BY <1>2 DEF PeerCloses, PeerResets, PeerStalls
    <3>. QED
      BY <3>1, <3>2 DEF IInv, TypeOK
  <2>2. \A u \in Sides : sent[u] <= sent'[u] /\ (closed[u] => closed'[u] /\ sent'[u] = sent[u])
    <3>1. sent' = sent /\ \A u \in Sides : sent[u] \in Nat
      BY <1>2 DEF PeerCloses, PeerResets, PeerStalls, IInv, TypeOK
    <3>2. ASSUME NEW u \in Sides, closed[u] PROVE closed'[u]
      <4>1. CASE PeerCloses(s)
        BY <3>2, <4>1 DEF PeerCloses
      <4>2. CASE PeerResets(s) \/ PeerStalls(s)
        BY <3>2, <4>2 DEF PeerResets, PeerStalls
      <4>. QED
        BY <1>2, <4>1, <4>2
    <3>. QED
      BY <3>1, <3>2
  <2>3. UNCHANGED <<data, in, out, read, got, clienteof, finSent>>
    BY <1>2 DEF PeerCloses, PeerResets, PeerStalls
  <2>. QED
    BY <2>1, <2>2, <2>3, QuietStep
<1>. QED
  BY <1>1, <1>2 DEF Peer

\* The steps of the loop that only move pc, fill revents or return.
LEMMA ControlStep ==
  ASSUME IInv, \/ setnonblock \/ poll_returns \/ poll_times_out \/ poll_fails
               \/ Skip \/ Again \/ Fails \/ ProxyEof \/ UNCHANGED vars
  PROVE  IInv' /\ UNCHANGED <<sent, closed, got, finSent>>
<1>. USE DEF buffers, flags, peers
<1>1. UNCHANGED <<buffers, flags, peers, read, got>>
  BY DEF setnonblock, poll_returns, poll_times_out, poll_fails, Skip, Again, Fails, ProxyEof, vars
<1>2. /\ pc' \in Places /\ ret' \in {0, 1, 6, Running}
      /\ revents' \subseteq {"in", "out"} \X Sides
  <2>1. CASE setnonblock \/ poll_times_out \/ poll_fails \/ Again \/ Fails \/ ProxyEof
    BY <2>1 DEF setnonblock, poll_times_out, poll_fails, Again, Fails, ProxyEof, Return, Places, IInv, TypeOK
  <2>2. CASE poll_returns
    <3>1. Ready \subseteq {"in", "out"} \X Sides
      BY TwoSides DEF Ready, Requested
    <3>. QED
      BY <2>2, <3>1 DEF poll_returns, IInv, TypeOK, Places
  <2>3. CASE Skip
    BY <2>3, AfterType DEF Skip, IInv, TypeOK
  <2>4. CASE UNCHANGED vars
    BY <2>4 DEF vars, IInv, TypeOK
  <2>. QED
    BY <2>1, <2>2, <2>3, <2>4
<1>3. TypeOK'
  BY <1>1, <1>2 DEF IInv, TypeOK
<1>4. \A s \in Sides : sent[s] <= sent'[s] /\ (closed[s] => closed'[s] /\ sent'[s] = sent[s])
  BY <1>1 DEF IInv, TypeOK
<1>. QED
  BY <1>1, <1>3, <1>4, QuietStep

\* The end of the client's stream.
LEMMA EofStep == ASSUME IInv, ClientEof PROVE IInv'
<1>. USE DEF buffers, flags, peers
<1>1. /\ clienteof' = TRUE /\ finSent' = (finSent \/ in["client"] - out["client"] = 0)
      /\ closed["client"] /\ read["client"] = sent["client"]
      /\ UNCHANGED <<ret, revents, buffers, peers, read, got>>
  BY DEF ClientEof, AtEof, Pending
<1>2. pc' \in Places
  BY AfterType, TwoSides DEF ClientEof, AtEof, AtRead
<1>3. TypeOK'
  BY <1>1, <1>2 DEF IInv, TypeOK
<1>4. \A s \in Sides : StreamOK(s)' /\ RewoundOK(s)'
  BY <1>1 DEF IInv, StreamOK, RewoundOK
<1>5. EofOK'
  <2>1. in["client"] \in Nat /\ out["client"] \in Nat
    BY TwoSides DEF IInv, TypeOK
  <2>2. in["client"] - out["client"] = 0 <=> in["client"] = out["client"]
    BY <2>1
  <2>3. finSent' <=> in["client"] = out["client"]
    BY <1>1, <2>2, Zenon DEF IInv, EofOK
  <2>. QED
    BY <1>1, <2>3 DEF EofOK
<1>. QED
  BY <1>3, <1>4, <1>5 DEF IInv

\* A read keeps the order of the bytes and is never made after clienteof.
LEMMA ReadsStep == ASSUME IInv, NEW s \in Sides, Reads(s) PROVE IInv'
<1>. USE RelayAssumption DEF RelayAssumption, buffers, flags, peers
<1>1. PICK n \in Nat \ {0} :
           /\ read[s] + n <= sent[s] /\ in[s] + n <= BufSize
           /\ read' = [read EXCEPT ![s] = read[s] + n]
           /\ in' = [in EXCEPT ![s] = in[s] + n]
           /\ data' \in [Sides -> [0 .. BufSize - 1 -> Nat]]
           /\ \A u \in Sides \ {s} : data'[u] = data[u]
           /\ \A i \in 0 .. BufSize - 1 :
                data'[s][i] = IF i \in in[s] .. (in[s] + n - 1)
                              THEN read[s] + 1 + (i - in[s]) ELSE data[s][i]
           /\ After(pc) \in Places /\ pc' = After(pc)
           /\ revents' \subseteq {"in", "out"} \X Sides
           /\ UNCHANGED <<ret, out, flags, peers, got>>
  BY ReadDataShape
<1>2. /\ read[s] \in Nat /\ sent[s] \in Nat
      /\ in[s] \in 0 .. BufSize /\ out[s] \in 0 .. BufSize /\ out[s] <= in[s]
  BY DEF IInv, TypeOK
<1>3. TypeOK'
  <2>1. read' \in [Sides -> Nat] /\ in' \in [Sides -> 0 .. BufSize]
    BY <1>1, <1>2 DEF IInv, TypeOK
  <2>2. \A u \in Sides : out[u] <= in'[u]
    BY <1>1, <1>2 DEF IInv, TypeOK
  <2>. QED
    BY <1>1, <2>1, <2>2 DEF IInv, TypeOK
<1>4. StreamOK(s)' /\ RewoundOK(s)'
  <2>. DEFINE L == Len(got[Other(s)])
  <2>1. L \in Nat
    BY TwoSides DEF IInv, TypeOK
  <2>2. read[s] = L + (in[s] - out[s])
    BY DEF IInv, StreamOK
  <2>. HIDE DEF L
  <2>3. in'[s] = in[s] + n /\ read'[s] = read[s] + n /\ out'[s] = out[s] /\ sent'[s] = sent[s] /\ got' = got
    BY <1>1 DEF IInv, TypeOK
  <2>4. ASSUME NEW i \in out[s] .. (in[s] + n - 1) PROVE data'[s][i] = L + 1 + (i - out[s])
    <3>1. i \in 0 .. BufSize - 1
      BY <1>1, <1>2
    <3>2. CASE i \in in[s] .. (in[s] + n - 1)
      <4>1. data'[s][i] = read[s] + 1 + (i - in[s])
        BY <1>1, <3>1, <3>2
      <4>2. i \in Int /\ in[s] \in Int /\ out[s] \in Int /\ L \in Int
        BY <1>2, <2>1
      <4>3. (L + (in[s] - out[s])) + 1 + (i - in[s]) = L + 1 + (i - out[s])
        BY <4>2
      <4>. QED
        BY <2>2, <4>1, <4>3
    <3>3. CASE i \in out[s] .. (in[s] - 1)
      <4>1. data'[s][i] = data[s][i]
        BY <1>1, <1>2, <3>1, <3>3
      <4>2. data[s][i] = L + 1 + (i - out[s])
        BY <3>3 DEF IInv, StreamOK, L
      <4>. QED
        BY <4>1, <4>2
    <3>. QED
      BY <1>2, <3>2, <3>3
  <2>5. in'[s] # out'[s] /\ read'[s] <= sent'[s] /\ read'[s] = L + (in'[s] - out'[s])
    BY <1>1, <1>2, <2>1, <2>2, <2>3
  <2>6. \A i \in out'[s] .. (in'[s] - 1) : data'[s][i] = L + 1 + (i - out'[s])
    <3>1. \A i \in out[s] .. (in[s] + n - 1) : data'[s][i] = L + 1 + (i - out[s])
      BY <2>4
    <3>2. out'[s] .. (in'[s] - 1) = out[s] .. (in[s] + n - 1)
      BY <1>2, <2>3
    <3>. QED
      BY <2>3, <3>1, <3>2, Zenon
  <2>7. read'[s] = L + (in'[s] - out'[s])
    BY <2>3, <2>5
  <2>8. StreamOK(s)'
    BY <2>3, <2>5, <2>6, <2>7 DEF StreamOK, L
  <2>. QED
    BY <2>5, <2>8 DEF RewoundOK
<1>5. \A u \in Sides \ {s} : StreamOK(u)' /\ RewoundOK(u)'
  <2>. SUFFICES ASSUME NEW u \in Sides \ {s} PROVE StreamOK(u)' /\ RewoundOK(u)'
    OBVIOUS
  <2>1. read'[u] = read[u] /\ in'[u] = in[u] /\ data'[u] = data[u]
    BY <1>1 DEF IInv, TypeOK
  <2>. QED
    BY <1>1, <2>1 DEF IInv, StreamOK, RewoundOK
<1>6. EofOK'
  <2>1. CASE s = "client"
    <3>1. ~ clienteof
      BY <1>1, <1>2, <2>1 DEF IInv, EofOK
    <3>. QED
      BY <1>1, <3>1 DEF IInv, EofOK
  <2>2. CASE s # "client"
    <3>1. read'["client"] = read["client"] /\ in'["client"] = in["client"]
      BY <1>1, <2>2, TwoSides DEF IInv, TypeOK
    <3>. QED
      BY <1>1, <3>1 DEF IInv, EofOK
  <2>. QED
    BY <2>1, <2>2
<1>. QED
  BY <1>3, <1>4, <1>5, <1>6 DEF IInv

LEMMA ReadStep == ASSUME IInv, NEW s \in Sides, ReadData(s) PROVE IInv'
<1>1. Reads(s)
  BY DEF ReadData, Reads, IInv, TypeOK
<1>. QED
  BY <1>1, ReadsStep

\* A write takes from the front, rewinds a drained buffer and sends the FIN
\* that was waiting for it.
LEMMA WriteStep == ASSUME IInv, NEW s \in Sides, WriteData(s) PROVE IInv'
<1>. USE RelayAssumption DEF RelayAssumption, buffers, flags, peers
<1>. DEFINE u == Other(s)
<1>0. u \in Sides /\ Other(u) = s /\ u # s /\ (s = "proxy" <=> u = "client") /\ Sides = {s, u}
  BY TwoSides
<1>1. PICK n \in Nat \ {0} :
           /\ n <= in[u] - out[u]
           /\ got' = [got EXCEPT ![s] = got[s] \o [i \in 1 .. n |-> Len(got[s]) + i]]
           /\ in' = [in EXCEPT ![u] = IF n = in[u] - out[u] THEN 0 ELSE in[u]]
           /\ out' = [out EXCEPT ![u] = IF n = in[u] - out[u] THEN 0 ELSE out[u] + n]
           /\ finSent' = (finSent \/ (n = in[u] - out[u] /\ s = "proxy" /\ clienteof))
           /\ After(pc) \in Places /\ pc' = After(pc)
           /\ UNCHANGED <<ret, revents, data, clienteof, peers, read>>
  BY WriteDataShape
<1>. DEFINE new == [i \in 1 .. n |-> Len(got[s]) + i]
<1>2. /\ read[u] \in Nat /\ sent[u] \in Nat
      /\ in[u] \in 0 .. BufSize /\ out[u] \in 0 .. BufSize /\ out[u] <= in[u]
      /\ got[s] \in Seq(Nat)
  BY <1>0 DEF IInv, TypeOK
<1>3. new \in Seq(Nat) /\ Len(new) = n
  <2>1. Len(got[s]) \in Nat
    BY <1>2
  <2>. QED
    BY <2>1
<1>. HIDE DEF new
<1>4. got[s] \o new \in Seq(Nat) /\ Len(got[s] \o new) = Len(got[s]) + n
  BY <1>2, <1>3, ConcatProperties
<1>5. /\ got' = [got EXCEPT ![s] = got[s] \o new]
      /\ got'[s] = got[s] \o new /\ got'[u] = got[u]
  BY <1>0, <1>1 DEF new, IInv, TypeOK
<1>6. TypeOK'
  <2>1. got' \in [Sides -> Seq(Nat)]
    BY <1>4, <1>5 DEF IInv, TypeOK
  <2>0. /\ (IF n = in[u] - out[u] THEN 0 ELSE in[u]) \in 0 .. BufSize
        /\ (IF n = in[u] - out[u] THEN 0 ELSE out[u] + n) \in 0 .. BufSize
    BY <1>1, <1>2
  <2>2. in' \in [Sides -> 0 .. BufSize] /\ out' \in [Sides -> 0 .. BufSize]
    BY <1>0, <1>1, <2>0 DEF IInv, TypeOK
  <2>3. \A w \in Sides : out'[w] <= in'[w]
    BY <1>0, <1>1, <1>2 DEF IInv, TypeOK
  <2>4. finSent' \in BOOLEAN
    BY <1>1
  <2>. QED
    BY <1>1, <2>1, <2>2, <2>3, <2>4 DEF IInv, TypeOK
<1>7. StreamOK(s)' /\ RewoundOK(s)'
  <2>1. in'[s] = in[s] /\ out'[s] = out[s]
    BY <1>0, <1>1 DEF IInv, TypeOK
  <2>2. StreamOK(s) /\ RewoundOK(s)
    BY DEF IInv
  <2>. QED
    BY <1>0, <1>1, <1>5, <2>1, <2>2 DEF StreamOK, RewoundOK
<1>. DEFINE L == Len(got[s])
<1>8. /\ read[u] <= sent[u] /\ read[u] = L + (in[u] - out[u])
      /\ \A i \in out[u] .. (in[u] - 1) : data[u][i] = L + 1 + (i - out[u])
  BY <1>0 DEF IInv, StreamOK
<1>9. L \in Nat /\ Len(got'[s]) = L + n
  BY <1>2, <1>4, <1>5
<1>. HIDE DEF L
<1>10. StreamOK(u)' /\ RewoundOK(u)'
  <2>1. CASE n = in[u] - out[u]
    <3>1. in'[u] = 0 /\ out'[u] = 0
      BY <1>0, <1>1, <2>1 DEF IInv, TypeOK
    <3>2. read'[u] = read[u] /\ sent'[u] = sent[u] /\ read[u] = (L + n) + (0 - 0)
      BY <1>1, <1>2, <1>8, <1>9, <2>1
    <3>. QED
      BY <1>0, <1>8, <1>9, <3>1, <3>2 DEF StreamOK, RewoundOK
  <2>2. CASE n # in[u] - out[u]
    <3>1. in'[u] = in[u] /\ out'[u] = out[u] + n /\ data' = data
      BY <1>0, <1>1, <2>2 DEF IInv, TypeOK
    <3>2. read'[u] = read[u] /\ sent'[u] = sent[u] /\ read[u] = (L + n) + (in[u] - (out[u] + n))
      BY <1>1, <1>2, <1>8, <1>9
    <3>3. in[u] # out[u] + n
      BY <1>1, <1>2, <2>2
    <3>4. ASSUME NEW i \in (out[u] + n) .. (in[u] - 1)
          PROVE  data[u][i] = (L + n) + 1 + (i - (out[u] + n))
      <4>1. i \in out[u] .. (in[u] - 1) /\ i \in Int /\ out[u] \in Int /\ n \in Int /\ L \in Int
        BY <1>1, <1>2, <1>9
      <4>2. data[u][i] = L + 1 + (i - out[u])
        BY <1>8, <4>1
      <4>3. L + 1 + (i - out[u]) = (L + n) + 1 + (i - (out[u] + n))
        BY <4>1
      <4>. QED
        BY <4>2, <4>3
    <3>5. RewoundOK(u)'
      BY <3>1, <3>3 DEF RewoundOK
    <3>6. StreamOK(u)'
      BY <1>0, <1>8, <1>9, <3>1, <3>2, <3>4 DEF StreamOK
    <3>. QED
      BY <3>5, <3>6
  <2>. QED
    BY <2>1, <2>2
<1>11. EofOK'
  <2>1. CASE s = "client"
    <3>1. finSent' = finSent /\ in'["client"] = in["client"] /\ out'["client"] = out["client"]
      BY <1>0, <1>1, <2>1, TwoSides DEF IInv, TypeOK
    <3>. QED
      BY <1>1, <3>1 DEF IInv, EofOK
  <2>2. CASE s = "proxy"
    <3>1. u = "client"
      BY <1>0, <2>2
    <3>2. ~ finSent
      BY <1>1, <1>2, <3>1 DEF IInv, EofOK
    <3>3. CASE n = in[u] - out[u]
      <4>1. in'[u] = out'[u]
        BY <1>0, <1>1, <3>3 DEF IInv, TypeOK
      <4>2. finSent' <=> clienteof
        BY <1>1, <2>2, <3>2, <3>3 DEF IInv, TypeOK
      <4>. QED
        BY <1>1, <3>1, <4>1, <4>2 DEF IInv, EofOK
    <3>4. CASE n # in[u] - out[u]
      <4>1. in'[u] # out'[u]
        <5>1. in'[u] = in[u] /\ out'[u] = out[u] + n
          BY <1>0, <1>1, <3>4 DEF IInv, TypeOK
        <5>. QED
          BY <1>1, <1>2, <3>4, <5>1
      <4>2. ~ finSent'
        BY <1>1, <3>2, <3>4
      <4>. QED
        BY <1>1, <3>1, <4>1, <4>2 DEF IInv, EofOK
    <3>. QED
      BY <3>3, <3>4
  <2>. QED
    BY <1>0, <2>1, <2>2 DEF Sides
<1>12. \A w \in Sides : StreamOK(w)' /\ RewoundOK(w)'
  BY <1>0, <1>7, <1>10
<1>. QED
  BY <1>6, <1>11, <1>12 DEF IInv

\* Every step preserves the invariant.
LEMMA IInvStep == IInv /\ [Next]_vars => IInv'
BY ControlStep, EofStep, ReadStep, WriteStep, PeerStep DEF Next, Loop, Transfer

---------------------------------------------------------------------------
(* The theorems.                                                           *)

\* The invariant of the two buffers holds in every behaviour.
THEOREM Invariance == Spec => []IInv
<1>1. Init => IInv
  BY IInvInit
<1>2. IInv /\ [Next]_vars => IInv'
  BY IInvStep
<1>. QED
  BY <1>1, <1>2, PTL DEF Spec

\* The variables keep their types; no pointer ever leaves its buffer.
THEOREM TypeCorrect == Spec => []TypeOK
<1>1. IInv => TypeOK
  BY DEF IInv
<1>. QED
  BY <1>1, Invariance, PTL

\* What the invariant says of the FIN.
LEMMA FinFromInvariant == IInv => FinNotForgotten
<1>. SUFFICES ASSUME IInv, clienteof, Pending("client") = 0 PROVE finSent
  BY DEF FinNotForgotten
<1>1. in["client"] \in Nat /\ out["client"] \in Nat
  BY TwoSides DEF IInv, TypeOK
<1>2. in["client"] = out["client"]
  BY <1>1 DEF Pending
<1>. QED
  BY <1>2 DEF IInv, EofOK

\* The FIN of the client is passed on as soon as nothing waits before it.
THEOREM FinIsPassedOn == Spec => []FinNotForgotten
BY FinFromInvariant, Invariance, PTL

\* When the idle timeout strikes, no direction has anything left to deliver to
\* a side that still reads.
THEOREM TimeoutIsIdle == Spec => TimeoutCutsNothing
<1>1. ASSUME IInv, [Next]_vars, ret' = 6, ret # 6
      PROVE  \A s \in Sides : stalled[Other(s)] \/ Len(got[Other(s)]) = sent[s]
  <2>1. poll_times_out
    <3>1. ASSUME NEW s \in Sides, Peer(s) \/ ReadData(s) \/ WriteData(s) PROVE ret' = ret
      BY <3>1 DEF Peer, PeerWrites, PeerCloses, PeerResets, PeerStalls, ReadData, Fill, WriteData
    <3>2. ASSUME \/ setnonblock \/ poll_returns \/ poll_fails \/ Skip \/ Again \/ Fails
                 \/ ClientEof \/ ProxyEof \/ UNCHANGED vars
          PROVE  ret' = ret \/ ret' \in {0, 1}
      BY <3>2 DEF setnonblock, poll_returns, poll_fails, Skip, Again, Fails, ClientEof,
         ProxyEof, Return, vars
    <3>. QED
      BY <1>1, <3>1, <3>2 DEF Next, Loop, Transfer
  <2>. SUFFICES ASSUME NEW s \in Sides, ~ stalled[Other(s)] PROVE Len(got[Other(s)]) = sent[s]
    OBVIOUS
  <2>2. /\ Ready = {} /\ Other(s) \in Sides
        /\ in[s] \in Nat /\ out[s] \in Nat /\ read[s] \in Nat /\ sent[s] \in Nat
        /\ Len(got[Other(s)]) \in Nat
    BY <1>1, <2>1, TwoSides DEF poll_times_out, IInv, TypeOK
  <2>3. in[s] = out[s]
    <3>1. SUFFICES ASSUME in[s] # out[s] PROVE FALSE
      OBVIOUS
    <3>2. <<"out", Other(s)>> \in Requested
      BY <3>1 DEF Requested
    <3>3. Writable(Other(s))
      BY DEF Writable
    <3>4. <<"out", Other(s)>> \in Ready
      BY <3>2, <3>3 DEF Ready
    <3>. QED
      BY <2>2, <3>4
  <2>4. read[s] = sent[s]
    <3>1. SUFFICES ASSUME read[s] # sent[s] PROVE FALSE
      OBVIOUS
    <3>2. read[s] < sent[s]
      BY <1>1, <2>2, <3>1 DEF IInv, StreamOK
    <3>3. ~ (s = "client" /\ clienteof)
      BY <1>1, <3>1 DEF IInv, EofOK
    <3>4. in[s] < BufSize
      BY <1>1, <2>2, <2>3, RelayAssumption DEF IInv, RewoundOK, RelayAssumption
    <3>5. <<"in", s>> \in Requested
      BY <3>3, <3>4 DEF Requested
    <3>6. <<"in", s>> \in Ready
      BY <3>2, <3>5 DEF Ready, Readable
    <3>. QED
      BY <2>2, <3>6
  <2>5. read[s] = Len(got[Other(s)]) + (in[s] - out[s])
    BY <1>1 DEF IInv, StreamOK
  <2>. QED
    BY <2>2, <2>3, <2>4, <2>5
<1>. QED
  BY <1>1, Invariance, PTL DEF Spec, TimeoutCutsNothing

\* Side s is given bytes that are due, the proxy while its FIN is still out.
Delivers(s) ==
  /\ \E n \in 0 .. (sent[Other(s)] - Len(got[s])) :
       got' = [got EXCEPT ![s] = got[s] \o [i \in 1 .. n |-> Len(got[s]) + i]]
  /\ UNCHANGED <<sent, closed>>
  /\ s = "client" => finSent' = finSent
  /\ s = "proxy" => ~ finSent

\* What a step of negotiate or of a peer can mean to the two channels.
Moves ==
  \/ UNCHANGED <<sent, closed, got, finSent>>
  \/ \E s \in Sides : PeerWrites(s)
  \/ \E s \in Sides : PeerCloses(s)
  \/ ClientEof
  \/ \E s \in Sides : Delivers(s)

\* What a write needs to find: the FIN has not gone before it.
LEMMA NoFinBeforeWrite == ASSUME IInv, AtWrite("proxy") PROVE ~ finSent
<1>1. in["client"] - out["client"] > 0
  BY TwoSides DEF AtWrite, Pending
<1>2. in["client"] \in Nat /\ out["client"] \in Nat
  BY TwoSides DEF IInv, TypeOK
<1>3. in["client"] # out["client"]
  BY <1>1, <1>2
<1>. QED
  BY <1>3 DEF IInv, EofOK

\* A write passes on the bytes that are due.
LEMMA WriteForwards ==
  ASSUME IInv, NEW s \in Sides, WriteData(s)
  PROVE  Delivers(s)
<1>. DEFINE u == Other(s)
<1>0. u \in Sides /\ Other(u) = s
  BY TwoSides
<1>1. PICK n \in Nat \ {0} :
        /\ n <= in[u] - out[u]
        /\ got' = [got EXCEPT ![s] = got[s] \o [i \in 1 .. n |-> Len(got[s]) + i]]
        /\ finSent' = (finSent \/ (n = in[u] - out[u] /\ s = "proxy" /\ clienteof))
        /\ UNCHANGED <<ret, revents, data, clienteof, peers, read>>
  BY WriteDataShape
<1>2. /\ in[u] \in Nat /\ out[u] \in Nat /\ sent[u] \in Nat /\ read[u] \in Nat /\ Len(got[s]) \in Nat
      /\ finSent \in BOOLEAN
  BY <1>0 DEF IInv, TypeOK
<1>3. read[u] <= sent[u] /\ read[u] = Len(got[s]) + (in[u] - out[u])
  BY <1>0 DEF IInv, StreamOK
<1>4. n \in 0 .. (sent[u] - Len(got[s]))
  BY <1>1, <1>2, <1>3
<1>5. s = "client" => finSent' = finSent
  BY <1>1, <1>2
<1>6. s = "proxy" => ~ finSent
  BY NoFinBeforeWrite DEF WriteData
<1>. QED
  BY <1>1, <1>4, <1>5, <1>6 DEF peers, Delivers

\* While the FIN was not passed on before the step, a FIN after it means
\* that everything was delivered.
LEMMA FinMeansAll ==
  ASSUME IInv, finSent
  PROVE  closed["client"] /\ Len(got["proxy"]) = sent["client"]
<1>1. in["client"] = out["client"] /\ closed["client"] /\ read["client"] = sent["client"]
  BY DEF IInv, EofOK
<1>2. read["client"] = Len(got["proxy"]) + (in["client"] - out["client"])
  BY TwoSides DEF IInv, StreamOK
<1>3. in["client"] \in Nat /\ out["client"] \in Nat /\ Len(got["proxy"]) \in Nat
  BY TwoSides DEF IInv, TypeOK
<1>. QED
  BY <1>1, <1>2, <1>3

\* The steps that are no transfer leave both channels alone, apart from what
\* the peers do.
LEMMA ChannelSteps ==
  ASSUME IInv, [Next]_vars PROVE Moves
<1>1. ASSUME NEW s \in Sides, ReadData(s) \/ PeerResets(s) \/ PeerStalls(s)
      PROVE  UNCHANGED <<sent, closed, got, finSent>>
  BY <1>1 DEF ReadData, Fill, PeerResets, PeerStalls, peers, flags
<1>. QED
  BY <1>1, ControlStep, WriteForwards DEF Moves, Next, Loop, Transfer, Peer

\* Passing on no byte changes nothing.
LEMMA NothingAppended ==
  ASSUME NEW g \in Seq(Nat)
  PROVE  g \o [i \in 1 .. 0 |-> Len(g) + i] = g
<1>1. [i \in 1 .. 0 |-> Len(g) + i] = <<>>
  OBVIOUS
<1>. QED
  BY <1>1, ConcatEmptySeq

LEMMA ChannelsInit == Init => ToProxy!Init /\ ToClient!Init
BY TwoSides DEF Init, ToProxy!Init, ToClient!Init

\* Such a step is a step of the channel to the proxy.
LEMMA ToProxyStep == IInv /\ IInv' /\ Moves => [ToProxy!Next]_(ToProxy!chvars)
<1>. SUFFICES ASSUME IInv, IInv', Moves PROVE [ToProxy!Next]_(ToProxy!chvars)
  OBVIOUS
<1>. USE DEF buffers, flags, peers
<1>1. CASE UNCHANGED <<sent, closed, got, finSent>>
  BY <1>1 DEF ToProxy!chvars
<1>2. ASSUME NEW s \in Sides, PeerWrites(s) PROVE [ToProxy!Next]_(ToProxy!chvars)
  BY <1>2, TwoSides DEF PeerWrites, IInv, TypeOK, ToProxy!Next, ToProxy!Send, ToProxy!chvars
<1>3. ASSUME NEW s \in Sides, PeerCloses(s) PROVE [ToProxy!Next]_(ToProxy!chvars)
  BY <1>3, TwoSides DEF PeerCloses, IInv, TypeOK, ToProxy!Next, ToProxy!Close, ToProxy!chvars
<1>4. CASE ClientEof
  <2>1. /\ UNCHANGED <<sent, closed, got>>
        /\ finSent' = (finSent \/ Pending("client") = 0)
    BY <1>4 DEF ClientEof
  <2>2. CASE finSent
    BY <2>1, <2>2 DEF IInv, TypeOK, ToProxy!chvars
  <2>3. CASE ~ finSent
    <3>1. finSent' => closed["client"] /\ Len(got'["proxy"]) = sent["client"]
      <4>1. finSent' => (closed["client"] /\ Len(got["proxy"]) = sent["client"])'
        BY FinMeansAll, PTL
      <4>. QED
        BY <2>1, <4>1
    <3>2. \E n \in 0 .. (sent["client"] - Len(got["proxy"])) :
            got'["proxy"] = got["proxy"] \o [i \in 1 .. n |-> Len(got["proxy"]) + i]
      <4>1. got["proxy"] \in Seq(Nat) /\ sent["client"] - Len(got["proxy"]) \in Nat
        <5>1. /\ sent["client"] \in Nat /\ Len(got["proxy"]) \in Nat /\ got["proxy"] \in Seq(Nat)
              /\ in["client"] \in Nat /\ out["client"] \in Nat /\ read["client"] \in Nat
              /\ out["client"] <= in["client"]
          BY TwoSides DEF IInv, TypeOK
        <5>2. /\ read["client"] <= sent["client"]
              /\ read["client"] = Len(got["proxy"]) + (in["client"] - out["client"])
          BY TwoSides DEF IInv, StreamOK
        <5>. QED
          BY <5>1, <5>2
      <4>2. got["proxy"] = got["proxy"] \o [i \in 1 .. 0 |-> Len(got["proxy"]) + i]
        BY <4>1, NothingAppended
      <4>. QED
        BY <2>1, <4>1, <4>2
    <3>. QED
      BY <2>1, <2>3, <3>1, <3>2 DEF ToProxy!Next, ToProxy!Forward
  <2>. QED
    BY <2>2, <2>3
<1>5. ASSUME NEW s \in Sides, Delivers(s) PROVE [ToProxy!Next]_(ToProxy!chvars)
  <2>1. CASE s = "client"
    <3>1. got'["proxy"] = got["proxy"] /\ UNCHANGED <<sent, closed, finSent>>
      BY <1>5, <2>1, TwoSides DEF Delivers, IInv, TypeOK
    <3>. QED
      BY <3>1 DEF ToProxy!chvars
  <2>2. CASE s = "proxy"
    <3>1. /\ \E n \in 0 .. (sent["client"] - Len(got["proxy"])) :
               got'["proxy"] = got["proxy"] \o [i \in 1 .. n |-> Len(got["proxy"]) + i]
          /\ UNCHANGED <<sent, closed>> /\ ~ finSent
      <4>1. /\ DOMAIN got = Sides /\ "proxy" \in Sides /\ Other("proxy") = "client"
            /\ Delivers("proxy")
        BY <1>5, <2>2, TwoSides DEF IInv, TypeOK
      <4>2. PICK n \in 0 .. (sent["client"] - Len(got["proxy"])) :
              got' = [got EXCEPT !["proxy"] =
                        got["proxy"] \o [i \in 1 .. n |-> Len(got["proxy"]) + i]]
        BY <4>1, Zenon DEF Delivers
      <4>3. got'["proxy"] = got["proxy"] \o [i \in 1 .. n |-> Len(got["proxy"]) + i]
        BY <4>1, <4>2, Zenon
      <4>. QED
        BY <4>1, <4>2, <4>3, Zenon DEF Delivers
    <3>2. finSent' => (closed["client"] /\ Len(got["proxy"]) = sent["client"])'
      BY FinMeansAll, PTL
    <3>. QED
      BY <3>1, <3>2 DEF ToProxy!Next, ToProxy!Forward
  <2>. QED
    BY <2>1, <2>2 DEF Sides
<1>. QED
  BY <1>1, <1>2, <1>3, <1>4, <1>5 DEF Moves

\* And one of the channel to the client.
LEMMA ToClientStep == IInv /\ Moves => [ToClient!Next]_(ToClient!chvars)
<1>. SUFFICES ASSUME IInv, Moves PROVE [ToClient!Next]_(ToClient!chvars)
  OBVIOUS
<1>. USE DEF buffers, flags, peers
<1>1. CASE UNCHANGED <<sent, closed, got, finSent>> \/ ClientEof
  BY <1>1 DEF ToClient!chvars, ClientEof
<1>2. ASSUME NEW s \in Sides, PeerWrites(s) PROVE [ToClient!Next]_(ToClient!chvars)
  BY <1>2, TwoSides DEF PeerWrites, IInv, TypeOK, ToClient!Next, ToClient!Send, ToClient!chvars
<1>3. ASSUME NEW s \in Sides, PeerCloses(s) PROVE [ToClient!Next]_(ToClient!chvars)
  BY <1>3, TwoSides DEF PeerCloses, IInv, TypeOK, ToClient!Next, ToClient!Close, ToClient!chvars
<1>4. ASSUME NEW s \in Sides, Delivers(s) PROVE [ToClient!Next]_(ToClient!chvars)
  <2>1. CASE s = "proxy"
    <3>1. got'["client"] = got["client"] /\ UNCHANGED <<sent, closed>>
      BY <1>4, <2>1, TwoSides DEF Delivers, IInv, TypeOK
    <3>. QED
      BY <3>1 DEF ToClient!chvars
  <2>2. CASE s = "client"
    <3>1. /\ \E n \in 0 .. (sent["proxy"] - Len(got["client"])) :
               got'["client"] = got["client"] \o [i \in 1 .. n |-> Len(got["client"]) + i]
          /\ UNCHANGED <<sent, closed>>
      <4>1. /\ DOMAIN got = Sides /\ "client" \in Sides /\ Other("client") = "proxy"
            /\ Delivers("client")
        BY <1>4, <2>2, TwoSides DEF IInv, TypeOK
      <4>2. PICK n \in 0 .. (sent["proxy"] - Len(got["client"])) :
              got' = [got EXCEPT !["client"] =
                        got["client"] \o [i \in 1 .. n |-> Len(got["client"]) + i]]
        BY <4>1, Zenon DEF Delivers
      <4>3. got'["client"] = got["client"] \o [i \in 1 .. n |-> Len(got["client"]) + i]
        BY <4>1, <4>2, Zenon
      <4>. QED
        BY <4>1, <4>2, <4>3, Zenon DEF Delivers
    <3>. QED
      BY <3>1 DEF ToClient!Next, ToClient!Forward
  <2>. QED
    BY <2>1, <2>2 DEF Sides
<1>. QED
  BY <1>1, <1>2, <1>3, <1>4 DEF Moves

\* From the client to the proxy negotiate is a Channel: no byte lost, doubled
\* or reordered, and the FIN after the last one.
THEOREM ClientToProxy == Spec => ForwardsToProxy
<1>1. IInv /\ IInv' /\ [Next]_vars => [ToProxy!Next]_(ToProxy!chvars)
  BY ChannelSteps, ToProxyStep
<1>. QED
  BY <1>1, ChannelsInit, Invariance, PTL DEF Spec, ForwardsToProxy, ToProxy!Spec

\* From the proxy to the client as well; here nothing but the end of the
\* session ends the stream.
THEOREM ProxyToClient == Spec => ForwardsToClient
<1>1. IInv /\ [Next]_vars => [ToClient!Next]_(ToClient!chvars)
  BY ChannelSteps, ToClientStep
<1>. QED
  BY <1>1, ChannelsInit, Invariance, PTL DEF Spec, ForwardsToClient, ToClient!Spec
============================================================================
