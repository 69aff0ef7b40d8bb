------------------------------ MODULE Server ------------------------------
(***************************************************************************)
(* The descriptors of the process: the accept loop of main.c, the job it   *)
(* queues for every connection, and the sessions that open and close       *)
(* descriptors in socks5_run.  What a session says is in SocksSession,     *)
(* what it relays in Relay, how jobs reach threads in ThreadPool; here the *)
(* pool is a queue and a session is the life of its two descriptors.       *)
(*                                                                         *)
(* The system hands out the lowest descriptor that is free.  0 is standard *)
(* input at first; standard output and error and the listening socket,     *)
(* which nobody closes, are left out.                                      *)
(***************************************************************************)
EXTENDS Integers, Sequences, SequencesExt, FiniteSetsExt

CONSTANTS
  Threads,  \* NR_THREADS of them; also the name of the proxy socket of each
  Conns,    \* the connections of clients
  Stdin,    \* what descriptor 0 is at first
  Free,     \* a descriptor that is not open
  SelectConnect,  \* whether connect_nonb is the select build
  MaxFd     \* bound: the limit on open descriptors

Files == Threads \cup Conns \cup {Stdin}

ASSUME ServerAssumption ==
  /\ Threads \cap Conns = {} /\ Stdin \notin Threads \cup Conns
  /\ Free \notin Files
  /\ SelectConnect \in BOOLEAN
  /\ MaxFd \in Nat

VARIABLES
  open,      \* the file of each descriptor
  queue,     \* the arguments of the jobs that wait
  pc,        \* where each thread is
  clientfd,  \* client.clientfd of its session
  proxyfd,   \* client.proxyfd
  arrived,   \* the connections accepted so far
  lost       \* those for which no job could be allocated

vars == <<open, queue, pc, clientfd, proxyfd, arrived, lost>>

Fds == 0 .. MaxFd
FreeFds == {fd \in Fds : open[fd] = Free}

Init ==
  /\ open = [fd \in Fds |-> IF fd = 0 THEN Stdin ELSE Free]
  /\ queue = <<>>
  /\ pc = [t \in Threads |-> "idle"]
  /\ clientfd = [t \in Threads |-> 0] /\ proxyfd = [t \in Threads |-> 0]
  /\ arrived = {} /\ lost = {}

Goto(t, p) == pc' = [pc EXCEPT ![t] = p]

thpool_add_work(fd) == queue' = Append(queue, fd)

\* accept, and thpool_add_work, whose result is not looked at.
main(c) ==
  /\ c \notin arrived /\ FreeFds # {}
  /\ arrived' = arrived \cup {c}
  /\ open' = [open EXCEPT ![Min(FreeFds)] = c]
  /\ \/ thpool_add_work(Min(FreeFds)) /\ UNCHANGED lost
     \/ lost' = lost \cup {c} /\ UNCHANGED queue
  /\ UNCHANGED <<pc, clientfd, proxyfd>>

\* Mutant: the structure is not cleared, and its place on the stack was in use.
StackValue == MaxFd + 1

\* proxyfd after memset.
Cleared == 0

\* A thread takes a job: proxy_start and the first lines of socks5_run.
socks5_run(t) ==
  /\ pc[t] = "idle" /\ queue # <<>>
  /\ queue' = Tail(queue)
  /\ clientfd' = [clientfd EXCEPT ![t] = Head(queue)]
  /\ proxyfd' = [proxyfd EXCEPT ![t] = Cleared]
  /\ Goto(t, "handshake")
  /\ UNCHANGED <<open, arrived, lost>>

\* Mutant: a failure returns instead of going to done.
ReturnsAtOnce(t) ==
  /\ pc[t] = "handshake"
  /\ Goto(t, "idle")
  /\ UNCHANGED <<open, queue, clientfd, proxyfd, arrived, lost>>

\* Any goto done before there is a proxy socket.
handshake_fails(t) ==
  /\ pc[t] = "handshake"
  /\ Goto(t, "done")
  /\ UNCHANGED <<open, queue, clientfd, proxyfd, arrived, lost>>

\* socket of socks5_connectproxy returns a descriptor, or -1 when there is none.
socks5_connectproxy(t) ==
  /\ pc[t] = "handshake"
  /\ IF FreeFds # {}
     THEN /\ proxyfd' = [proxyfd EXCEPT ![t] = Min(FreeFds)]
          /\ open' = [open EXCEPT ![Min(FreeFds)] = t]
          /\ Goto(t, "connect")
     ELSE /\ proxyfd' = [proxyfd EXCEPT ![t] = -1]
          /\ Goto(t, "done")
          /\ UNCHANGED open
  /\ UNCHANGED <<queue, clientfd, arrived, lost>>

Close(fd) == open' = IF fd \in Fds THEN [open EXCEPT ![fd] = Free] ELSE open

\* The select build closes the socket when the connection fails or takes too
\* long; its caller goes to done and closes the same number again.  The poll
\* build, and either one when fcntl or connect refuses at once, leaves it.
connect_nonb(t) ==
  /\ pc[t] = "connect"
  /\ \/ Goto(t, "relay") /\ UNCHANGED open
     \/ Goto(t, "done") /\ UNCHANGED open
     \/ SelectConnect /\ Goto(t, "done") /\ Close(proxyfd[t])
  /\ UNCHANGED <<queue, clientfd, proxyfd, arrived, lost>>

\* The dialogue fails or the relay ends.
negotiate_returns(t) ==
  /\ pc[t] = "relay"
  /\ Goto(t, "done")
  /\ UNCHANGED <<open, queue, clientfd, proxyfd, arrived, lost>>

\* The two calls of close at the label done.
close_client(t) ==
  /\ pc[t] = "done"
  /\ Close(clientfd[t])
  /\ Goto(t, "close")
  /\ UNCHANGED <<queue, clientfd, proxyfd, arrived, lost>>

\* Mutant: the client's descriptor is closed twice, the proxy's never.
ClosesClientTwice(t) ==
  /\ pc[t] = "close"
  /\ Close(clientfd[t])
  /\ Goto(t, "idle")
  /\ UNCHANGED <<queue, clientfd, proxyfd, arrived, lost>>

close_proxy(t) ==
  /\ pc[t] = "close"
  /\ Close(proxyfd[t])
  /\ Goto(t, "idle")
  /\ UNCHANGED <<queue, clientfd, proxyfd, arrived, lost>>

---------------------------------------------------------------------------
Session(t) ==
  \/ socks5_run(t) \/ handshake_fails(t) \/ socks5_connectproxy(t) \/ connect_nonb(t)
  \/ close_client(t) \/ close_proxy(t)

Next ==
  \/ \E c \in Conns : main(c)
  \/ \E t \in Threads : Session(t) \/ negotiate_returns(t)

Spec == Init /\ [][Next]_vars

\* Every thread runs, and a handshake ends (module SocksSession); a relay, which
\* goes on as long as its peers keep it going, ends by assumption.
EndingSpec ==
  Spec /\ \A t \in Threads : WF_vars(Session(t)) /\ WF_vars(negotiate_returns(t))

---------------------------------------------------------------------------
(* Properties.                                                             *)

\* The values every variable can take.
TypeOK ==
  /\ open \in [Fds -> Files \cup {Free}]
  /\ queue \in Seq(Fds)
  /\ pc \in [Threads -> {"idle", "handshake", "connect", "relay", "done", "close"}]
  /\ clientfd \in [Threads -> Fds]
  /\ proxyfd \in [Threads -> Fds \cup {-1}]
  /\ arrived \subseteq Conns /\ lost \subseteq arrived

Running(t) == pc[t] \in {"handshake", "connect", "relay"}

\* Who is going to close a descriptor: a job, or a session.
Held(fd) ==
  \/ Contains(queue, fd)
  \/ \E t \in Threads : \/ (Running(t) \/ pc[t] = "done") /\ clientfd[t] = fd
                        \/ pc[t] \in {"connect", "relay", "done", "close"} /\ proxyfd[t] = fd

\* No descriptor leaks, on any path through the sessions and although they close
\* each other's descriptors: every connection and every proxy socket that is open
\* has a job or a session that will close it, but for the connections for which
\* no job could be allocated.
NothingLeaks ==
  \A fd \in Fds : open[fd] \in (Conns \ lost) \cup Threads => Held(fd)

\* A connection that was queued is closed in the end, if the relays that run end:
\* the queue is first in, first out and every thread comes back to it.
ConnectionsEnd ==
  \A c \in Conns : c \in arrived \ lost ~> \A fd \in Fds : open[fd] # c

---------------------------------------------------------------------------
(* What the README says and the code does not do.                          *)

\* README:10 "thread per connection policy": two threads do not serve one
\* connection.
OneThreadPerConnection ==
  \A t, u \in Threads :
    Running(t) /\ Running(u) /\ open[clientfd[t]] \in Conns /\ clientfd[t] = clientfd[u] => t = u
===========================================================================
