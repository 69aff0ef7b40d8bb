--------------------------- MODULE ServerProofs ---------------------------
(***************************************************************************)
(* The descriptors of the process, for any number of threads, connections  *)
(* and descriptors and for both builds of connect_nonb.                    *)
(*                                                                         *)
(* NothingLeaks is inductive given the types: what has to be seen is that  *)
(* the descriptor the system hands out is a free one, so that no session   *)
(* loses the file that it held, and that a job that leaves the queue and a *)
(* session that ends take only their own claims with them.                 *)
(***************************************************************************)
EXTENDS Server, SequenceTheorems, WellFoundedInduction, TLAPS

IInv == TypeOK /\ NothingLeaks

---------------------------------------------------------------------------
\* Every set of descriptors that is not empty has a lowest one.
LEMMA LeastNat ==
  ASSUME NEW S, S \subseteq Nat, S # {}
  PROVE  \E x \in S : \A y \in S : x <= y
<1>1. PICK x \in S : \A y \in S : ~ (<<y, x>> \in OpToRel(<, Nat))
  <2>1. IsWellFoundedOn(OpToRel(<, Nat), Nat)
    BY NatLessThanWellFounded
  <2>2. QED
    BY <2>1, WFMin
<1>2. \A y \in S : ~ (y < x)
  BY <1>1 DEF OpToRel
<1>3. QED
  BY <1>2

\* accept and socket return a descriptor that is free.
LEMMA LowestIsFree ==
  ASSUME FreeFds # {}
  PROVE  Min(FreeFds) \in FreeFds
<1>1. FreeFds \subseteq Nat
  BY DEF FreeFds, Fds
<1>2. \E x \in FreeFds : \A y \in FreeFds : x <= y
  BY <1>1, LeastNat
<1>3. QED
  BY <1>2 DEF Min

\* What waits in the queue.
LEMMA QueueAppend ==
  ASSUME queue \in Seq(Fds), NEW fd \in Fds, queue' = Append(queue, fd)
  PROVE  /\ queue' \in Seq(Fds)
         /\ Contains(queue', fd)
         /\ \A g \in Fds : Contains(queue, g) => Contains(queue', g)
<1>1. /\ queue' \in Seq(Fds) /\ Len(queue') = Len(queue) + 1 /\ queue'[Len(queue) + 1] = fd
      /\ \A i \in 1 .. Len(queue) : queue'[i] = queue[i]
  BY AppendProperties
<1>2. Len(queue) \in Nat
  BY LenProperties
<1>3. QED
  BY <1>1, <1>2 DEF Contains

LEMMA QueueTail ==
  ASSUME queue \in Seq(Fds), queue # <<>>, queue' = Tail(queue)
  PROVE  /\ queue' \in Seq(Fds) /\ Head(queue) \in Fds
         /\ \A g \in Fds : Contains(queue, g) => g = Head(queue) \/ Contains(queue', g)
<1>1. /\ queue' \in Seq(Fds) /\ Head(queue) \in Fds /\ Len(queue') = Len(queue) - 1
      /\ \A i \in 1 .. Len(queue') : queue'[i] = queue[i + 1]
  BY HeadTailProperties
<1>2. Len(queue) \in Nat
  BY LenProperties
<1>3. SUFFICES ASSUME NEW g \in Fds, NEW i \in 1 .. Len(queue), queue[i] = g, i # 1
               PROVE  \E j \in 1 .. Len(queue') : queue'[j] = g
  BY <1>1 DEF Contains
<1>4. i - 1 \in 1 .. Len(queue') /\ queue'[i - 1] = queue[(i - 1) + 1]
  BY <1>1, <1>2, <1>3
<1>5. QED
  BY <1>3, <1>4

---------------------------------------------------------------------------
\* A step that closes descriptors at most, and whose thread and queue keep every
\* claim but those on what it closed, leaks nothing.
LEMMA KeepsClaims ==
  ASSUME NothingLeaks, lost \subseteq lost',
         \A fd \in Fds : open'[fd] = open[fd] \/ open'[fd] = Free,
         \A fd \in Fds : Held(fd) => Held(fd)' \/ open'[fd] = Free
  PROVE  NothingLeaks'
<1>1. Free \notin (Conns \ lost') \cup Threads
  BY ServerAssumption DEF Files
<1>2. QED
  BY <1>1 DEF NothingLeaks, Fds

\* close frees one descriptor or none.
LEMMA CloseFrees ==
  ASSUME TypeOK, NEW fd, Close(fd)
  PROVE  /\ open' \in [Fds -> Files \cup {Free}]
         /\ \A g \in Fds : open'[g] = open[g] \/ open'[g] = Free
         /\ fd \in Fds => open'[fd] = Free
BY DEF TypeOK, Close

LEMMA Accept ==
  ASSUME IInv, NEW c \in Conns, main(c)
  PROVE  IInv'
<1> DEFINE fd == Min(FreeFds)
<1>1. fd \in Fds /\ open[fd] = Free
  BY LowestIsFree DEF main, FreeFds
<1> HIDE DEF fd
<1>2. open' = [open EXCEPT ![fd] = c] /\ c \notin arrived /\ arrived' = arrived \cup {c}
  BY DEF main, fd
<1>3. TypeOK'
  <2>1. open' \in [Fds -> Files \cup {Free}]
    BY <1>1, <1>2 DEF IInv, TypeOK, Files
  <2>2. queue' \in Seq(Fds) /\ lost' \subseteq arrived'
    BY <1>1, <1>2, QueueAppend DEF IInv, TypeOK, main, thpool_add_work, fd
  <2>3. QED
    BY <2>1, <2>2 DEF IInv, TypeOK, main
<1>4. NothingLeaks'
  <2> SUFFICES ASSUME NEW g \in Fds, open'[g] \in (Conns \ lost') \cup Threads
               PROVE  Held(g)'
    BY DEF NothingLeaks, Fds
  <2>1. CASE g = fd
    <3>1. open'[g] = c
      BY <1>1, <1>2, <2>1 DEF IInv, TypeOK
    <3>2. c \notin Threads
      BY ServerAssumption
    <3>3. thpool_add_work(fd)
      BY <3>1, <3>2 DEF main, fd
    <3>4. Contains(queue', g)
      BY <3>3, <1>1, <2>1, QueueAppend DEF IInv, TypeOK, thpool_add_work
    <3>5. QED
      BY <3>4 DEF Held
  <2>2. CASE g # fd
    <3>1. open'[g] = open[g] /\ lost \subseteq lost'
      BY <1>1, <1>2, <2>2 DEF IInv, TypeOK, main
    <3>2. Held(g)
      BY <3>1 DEF IInv, NothingLeaks
    <3>3. Contains(queue, g) => Contains(queue', g)
      BY <1>1, QueueAppend DEF IInv, TypeOK, main, thpool_add_work, fd
    <3>4. QED
      BY <3>2, <3>3 DEF Held, Running, main
  <2>3. QED
    BY <2>1, <2>2
<1>5. QED
  BY <1>3, <1>4 DEF IInv

\* A job moves from the queue to its session.
LEMMA Starts ==
  ASSUME IInv, NEW t \in Threads, socks5_run(t)
  PROVE  IInv'
<1>1. /\ queue \in Seq(Fds) /\ queue # <<>> /\ queue' = Tail(queue)
      /\ pc \in [Threads -> {"idle", "handshake", "connect", "relay", "done", "close"}]
      /\ clientfd \in [Threads -> Fds] /\ proxyfd \in [Threads -> Fds \cup {-1}]
      /\ pc[t] = "idle" /\ pc' = [pc EXCEPT ![t] = "handshake"]
      /\ clientfd' = [clientfd EXCEPT ![t] = Head(queue)]
      /\ proxyfd' = [proxyfd EXCEPT ![t] = 0]
      /\ UNCHANGED <<open, arrived, lost>>
  BY DEF IInv, TypeOK, socks5_run, Goto, Cleared
<1>2. /\ queue' \in Seq(Fds) /\ Head(queue) \in Fds
      /\ \A g \in Fds : Contains(queue, g) => g = Head(queue) \/ Contains(queue', g)
  BY <1>1, QueueTail
<1>3. TypeOK'
  <2>1. 0 \in Fds
    BY ServerAssumption DEF Fds
  <2>2. clientfd' \in [Threads -> Fds] /\ proxyfd' \in [Threads -> Fds \cup {-1}]
    BY <1>1, <1>2, <2>1
  <2>3. QED
    BY <1>1, <1>2, <2>2 DEF IInv, TypeOK
<1>4. \A fd \in Fds : Held(fd) => Held(fd)'
  <2> SUFFICES ASSUME NEW fd \in Fds, Held(fd) PROVE Held(fd)'
    OBVIOUS
  <2>1. CASE Contains(queue, fd)
    <3>1. fd = Head(queue) => pc'[t] = "handshake" /\ clientfd'[t] = fd
      BY <1>1
    <3>2. QED
      BY <1>2, <2>1, <3>1 DEF Held, Running
  <2>2. CASE ~ Contains(queue, fd)
    <3>1. PICK u \in Threads : \/ (Running(u) \/ pc[u] = "done") /\ clientfd[u] = fd
                               \/ pc[u] \in {"connect", "relay", "done", "close"} /\ proxyfd[u] = fd
      BY <2>2 DEF Held
    <3>2. u # t
      BY <1>1, <3>1 DEF Running
    <3>3. pc'[u] = pc[u] /\ clientfd'[u] = clientfd[u] /\ proxyfd'[u] = proxyfd[u]
      BY <1>1, <3>2
    <3>4. QED
      BY <3>1, <3>3 DEF Held, Running
  <2>3. QED
    BY <2>1, <2>2
<1>5. QED
  BY <1>1, <1>3, <1>4, KeepsClaims DEF IInv

\* The other steps of a session leave the queue and the claims of the others
\* alone; the session gives up a claim only with the descriptor.
SessionMoves(t) ==
  /\ pc' \in [Threads -> {"idle", "handshake", "connect", "relay", "done", "close"}]
  /\ proxyfd' \in [Threads -> Fds \cup {-1}]
  /\ \A u \in Threads \ {t} : pc'[u] = pc[u] /\ proxyfd'[u] = proxyfd[u]
  /\ UNCHANGED <<queue, clientfd, arrived, lost>>

\* What the session still closes after the step, or has just closed.
KeepsOwn(t) ==
  /\ Running(t) \/ pc[t] = "done" =>
       \/ pc'[t] \in {"handshake", "connect", "relay", "done"}
       \/ open'[clientfd[t]] = Free
  /\ pc[t] \in {"connect", "relay", "done", "close"} =>
       \/ pc'[t] \in {"connect", "relay", "done", "close"} /\ proxyfd'[t] = proxyfd[t]
       \/ proxyfd[t] \in Fds => open'[proxyfd[t]] = Free

LEMMA OthersHold ==
  ASSUME NEW t \in Threads, SessionMoves(t), KeepsOwn(t), NEW fd \in Fds, Held(fd)
  PROVE  Held(fd)' \/ open'[fd] = Free
<1>1. CASE Contains(queue, fd)
  BY <1>1 DEF Held, SessionMoves
<1>2. CASE ~ Contains(queue, fd)
  <2>1. PICK u \in Threads : \/ (Running(u) \/ pc[u] = "done") /\ clientfd[u] = fd
                             \/ pc[u] \in {"connect", "relay", "done", "close"} /\ proxyfd[u] = fd
    BY <1>2 DEF Held
  <2>2. CASE u = t
    BY <2>1, <2>2 DEF SessionMoves, KeepsOwn, Held, Running
  <2>3. CASE u # t
    BY <2>1, <2>3 DEF SessionMoves, Held, Running
  <2>4. QED
    BY <2>2, <2>3
<1>3. QED
  BY <1>1, <1>2

\* A step of a session that opens nothing.
LEMMA Closes ==
  ASSUME IInv, NEW t \in Threads, SessionMoves(t), KeepsOwn(t),
         open' \in [Fds -> Files \cup {Free}],
         \A g \in Fds : open'[g] = open[g] \/ open'[g] = Free
  PROVE  IInv'
<1>1. TypeOK'
  BY DEF IInv, TypeOK, SessionMoves
<1>2. NothingLeaks'
  BY OthersHold, KeepsClaims DEF IInv, SessionMoves
<1>3. QED
  BY <1>1, <1>2 DEF IInv

\* The socket for the proxy is claimed by the session that made it.
LEMMA Opens ==
  ASSUME IInv, NEW t \in Threads, SessionMoves(t), KeepsOwn(t),
         NEW fd \in Fds, open' = [open EXCEPT ![fd] = t],
         pc'[t] = "connect", proxyfd'[t] = fd
  PROVE  IInv'
<1>1. open' \in [Fds -> Files \cup {Free}]
  BY DEF IInv, TypeOK, Files
<1>2. TypeOK'
  BY <1>1 DEF IInv, TypeOK, SessionMoves
<1>3. NothingLeaks'
  <2> SUFFICES ASSUME NEW g \in Fds, open'[g] \in (Conns \ lost) \cup Threads
               PROVE  Held(g)'
    BY DEF NothingLeaks, SessionMoves, Fds
  <2>1. CASE g = fd
    BY <2>1 DEF Held
  <2>2. CASE g # fd
    <3>1. open'[g] = open[g]
      BY <2>2 DEF IInv, TypeOK
    <3>2. open'[g] # Free /\ Held(g)
      BY <3>1, ServerAssumption DEF IInv, NothingLeaks, Files
    <3>3. QED
      BY <3>2, OthersHold
  <2>3. QED
    BY <2>1, <2>2
<1>4. QED
  BY <1>2, <1>3 DEF IInv

LEMMA SessionStep ==
  ASSUME IInv, NEW t \in Threads, Session(t) \/ negotiate_returns(t)
  PROVE  IInv'
<1>0. /\ pc \in [Threads -> {"idle", "handshake", "connect", "relay", "done", "close"}]
      /\ clientfd \in [Threads -> Fds] /\ proxyfd \in [Threads -> Fds \cup {-1}]
      /\ open \in [Fds -> Files \cup {Free}]
  BY DEF IInv, TypeOK
<1>1. CASE socks5_run(t)
  BY <1>1, Starts
<1>2. CASE handshake_fails(t)
  <2>1. SessionMoves(t) /\ KeepsOwn(t) /\ UNCHANGED open
    BY <1>0, <1>2 DEF handshake_fails, Goto, SessionMoves, KeepsOwn, Running
  <2>2. QED
    BY <1>0, <2>1, Closes
<1>3. CASE socks5_connectproxy(t)
  <2>1. CASE FreeFds # {}
    <3> DEFINE fd == Min(FreeFds)
    <3>1. fd \in Fds
      BY <2>1, LowestIsFree DEF FreeFds
    <3>2. /\ pc[t] = "handshake" /\ pc' = [pc EXCEPT ![t] = "connect"]
          /\ proxyfd' = [proxyfd EXCEPT ![t] = fd] /\ open' = [open EXCEPT ![fd] = t]
          /\ UNCHANGED <<queue, clientfd, arrived, lost>>
      BY <1>3, <2>1 DEF socks5_connectproxy, Goto
    <3> HIDE DEF fd
    <3>3. SessionMoves(t) /\ KeepsOwn(t) /\ pc'[t] = "connect" /\ proxyfd'[t] = fd
      BY <1>0, <3>1, <3>2 DEF SessionMoves, KeepsOwn, Running
    <3>4. QED
      BY <3>1, <3>2, <3>3, Opens
  <2>2. CASE FreeFds = {}
    <3>1. SessionMoves(t) /\ KeepsOwn(t) /\ UNCHANGED open
      BY <1>0, <1>3, <2>2 DEF socks5_connectproxy, Goto, SessionMoves, KeepsOwn, Running
    <3>2. QED
      BY <1>0, <3>1, Closes
  <2>3. QED
    BY <2>1, <2>2
<1>4. CASE connect_nonb(t)
  <2>1. SessionMoves(t) /\ KeepsOwn(t)
    BY <1>0, <1>4 DEF connect_nonb, Goto, SessionMoves, KeepsOwn, Running
  <2>2. UNCHANGED open \/ Close(proxyfd[t])
    BY <1>4 DEF connect_nonb
  <2>3. QED
    BY <1>0, <2>1, <2>2, CloseFrees, Closes DEF IInv
<1>5. CASE negotiate_returns(t)
  <2>1. SessionMoves(t) /\ KeepsOwn(t) /\ UNCHANGED open
    BY <1>0, <1>5 DEF negotiate_returns, Goto, SessionMoves, KeepsOwn, Running
  <2>2. QED
    BY <1>0, <2>1, Closes
<1>6. CASE close_client(t)
  <2>1. Close(clientfd[t]) /\ clientfd[t] \in Fds
    BY <1>0, <1>6 DEF close_client
  <2>2. open'[clientfd[t]] = Free
    BY <2>1, CloseFrees DEF IInv
  <2>3. SessionMoves(t) /\ KeepsOwn(t)
    BY <1>0, <1>6, <2>2 DEF close_client, Goto, SessionMoves, KeepsOwn, Running
  <2>4. QED
    BY <2>1, <2>3, CloseFrees, Closes DEF IInv
<1>7. CASE close_proxy(t)
  <2>1. Close(proxyfd[t])
    BY <1>7 DEF close_proxy
  <2>2. proxyfd[t] \in Fds => open'[proxyfd[t]] = Free
    BY <2>1, CloseFrees DEF IInv
  <2>3. SessionMoves(t) /\ KeepsOwn(t)
    BY <1>0, <1>7, <2>2 DEF close_proxy, Goto, SessionMoves, KeepsOwn, Running
  <2>4. QED
    BY <2>1, <2>3, CloseFrees, Closes DEF IInv
<1>8. QED
  BY <1>1, <1>2, <1>3, <1>4, <1>5, <1>6, <1>7 DEF Session

---------------------------------------------------------------------------
\* The invariant holds in every state of the process.
THEOREM Invariance == Spec => []IInv
<1>1. Init => IInv
  <2> SUFFICES ASSUME Init PROVE IInv
    OBVIOUS
  <2>1. TypeOK
    BY ServerAssumption DEF Init, TypeOK, Files, Fds
  <2>2. \A fd \in Fds : open[fd] \in {Stdin, Free}
    BY DEF Init
  <2>3. Stdin \notin Conns \cup Threads /\ Free \notin Conns \cup Threads
    BY ServerAssumption DEF Files
  <2>4. NothingLeaks
    BY <2>2, <2>3 DEF NothingLeaks
  <2>5. QED
    BY <2>1, <2>4 DEF IInv
<1>2. IInv /\ [Next]_vars => IInv'
  <2> SUFFICES ASSUME IInv, [Next]_vars PROVE IInv'
    OBVIOUS
  <2>1. CASE \E c \in Conns : main(c)
    BY <2>1, Accept
  <2>2. CASE \E t \in Threads : Session(t) \/ negotiate_returns(t)
    BY <2>2, SessionStep
  <2>3. CASE UNCHANGED vars
    BY <2>3 DEF vars, IInv, TypeOK, NothingLeaks, Held, Running
  <2>4. QED
    BY <2>1, <2>2, <2>3 DEF Next
<1>3. QED
  BY <1>1, <1>2, PTL DEF Spec

\* Every variable stays in its type: client.clientfd is always a descriptor, and
\* client.proxyfd is one or -1, as socket left it.
THEOREM TypeCorrect == Spec => []TypeOK
<1>1. IInv => TypeOK
  BY DEF IInv
<1>2. QED
  BY Invariance, <1>1, PTL

\* The close calls at the label done and the queue account for every connection
\* and every proxy socket, however many sessions there are and although they
\* close each other's descriptors.
THEOREM EveryDescriptorIsHeld == Spec => []NothingLeaks
<1>1. IInv => NothingLeaks
  BY DEF IInv
<1>2. QED
  BY Invariance, <1>1, PTL
===========================================================================
