--------------------------- MODULE SocksSession ---------------------------
(***************************************************************************)
(* One SOCKS5 session: socks5_run of socks.c with the functions it calls,  *)
(* up to and including the call of negotiate (module Relay).               *)
(*                                                                         *)
(* Every read and write has a timeout and can fail; what the client, the   *)
(* proxy, the resolver and the data base answer is chosen by \E.  A        *)
(* message is one element of sent (to the client) or told (to the proxy).  *)
(* The lookups that doauth, connectproxy and readrequest make are answers  *)
(* of the modules CredCache and DnsTable; here they succeed or fail.       *)
(***************************************************************************)
EXTENDS Naturals, Sequences, SequencesExt

CONSTANTS
  NEEDAUTH,   \* the macro of common.h
  Users,      \* the users of the application
  Passwords,  \* what can be a password
  AppPasswd,  \* the password the table app has for a user, or NoRow
  NoRow,
  IPs,        \* IPv4 addresses of proxies
  PortTexts,  \* the numbers, of at most five digits, a login gives as a port
  Replies,    \* |VER|REP| of what a proxy replies
  Malformed,  \* a login that is not user-ip-port
  Nothing     \* before a login is read, an address known, a reply had

Octets == {n \in Nat : n < 256}
Ports == {n \in Nat : n < 65536}

ASSUME SocksSessionAssumption ==
  /\ NEEDAUTH \in BOOLEAN
  /\ NoRow \notin Passwords
  /\ AppPasswd \in [Users -> Passwords \cup {NoRow}]
  /\ PortTexts \subseteq {n \in Nat : n < 100000}
  /\ Replies \subseteq [ver : Octets, rep : Octets]
  /\ Malformed \notin [user : Users, ip : IPs, port : PortTexts]
  /\ Nothing \notin [user : Users, ip : IPs, port : PortTexts] \cup {Malformed}
  /\ Nothing \notin [ip : IPs, port : Ports] \cup [ver : Octets, rep : Octets]
  /\ Nothing \notin Passwords

VARIABLES
  pc,       \* the function that runs next
  method,   \* the method socks5_choosemethod chose
  login,    \* client.user, as it was read
  passwd,   \* client.passwd
  srvpeer,  \* client.srvpeer
  cmd,      \* client.cmd
  sock,     \* the socket in client.proxyfd
  said,     \* |VER|REP| of the proxy's reply
  sent,     \* the messages written to the client
  told,     \* the messages written to the proxy
  status    \* what socks5_run will return

vars == <<pc, method, login, passwd, srvpeer, cmd, sock, said, sent, told, status>>
client == <<method, login, passwd, srvpeer, cmd>>
proxy == <<sock, said, told>>

Logins == [user : Users, ip : IPs, port : PortTexts] \cup {Malformed}
Peers == [ip : IPs, port : Ports]
Places == {"start", "choosemethod", "readauth", "strip", "doauth", "readrequest", "connect", "poll",
           "greet", "method", "creds", "auth", "writerequest", "readreply",
           "writereply", "refuse", "negotiate", "done", "closed"}
\* none: no socket yet.  failed: socket returned -1.  open: not connected, or
\* the connection was refused.  up: connected.
Sockets == {"none", "failed", "open", "up"}

\* memset.
Init ==
  /\ pc = "start"
  /\ method = 0 /\ login = Nothing /\ passwd = Nothing /\ srvpeer = Nothing /\ cmd = 0
  /\ sock = "none" /\ said = Nothing /\ told = <<>>
  /\ sent = <<>> /\ status = 0

Goto(p) == pc' = p /\ UNCHANGED status
Done(s) == pc' = "done" /\ status' = s
Write(kind, s) == sent' = Append(sent, [kind |-> kind, status |-> s])
Tell(kind) == told' = Append(told, kind)

---------------------------------------------------------------------------
(* The client introduces itself.                                           *)

\* getpeername.  When the client is gone, socks5_run returns a status that was
\* never assigned.
socks5_run ==
  /\ pc = "start"
  /\ Goto("choosemethod") \/ \E s \in {0, 1} : Done(s)
  /\ UNCHANGED <<client, sent, proxy>>

\* 2 is USERNAME/PASSWORD, 255 NO ACCEPTABLE METHODS.
Method(offered) == IF ~ NEEDAUTH THEN 0 ELSE IF 2 \in offered THEN 2 ELSE 255

\* Any of the reads or the write fails, or a method is chosen and sent; the
\* session goes on without authentication when none is acceptable.
socks5_choosemethod ==
  /\ pc = "choosemethod"
  /\ \/ /\ Done(1)
        /\ UNCHANGED <<client, sent>>
     \/ \E offered \in SUBSET {0, 1, 2} :
          /\ method' = Method(offered)
          /\ Write("method", method')
          /\ Goto(IF method' = 2 THEN "readauth" ELSE "readrequest")
          /\ UNCHANGED <<login, passwd, srvpeer, cmd>>
  /\ UNCHANGED proxy

\* Login and password are read, and success is reported.
socks5_readauth ==
  /\ pc = "readauth"
  /\ \/ Done(1) /\ UNCHANGED <<login, passwd, sent>>
     \/ \E l \in Logins, p \in Passwords :
          /\ login' = l /\ passwd' = p
          /\ \/ Done(1) /\ UNCHANGED sent
             \/ Goto("strip") /\ Write("auth", 0)
  /\ UNCHANGED <<method, srvpeer, cmd, proxy>>

\* Mutant: the port is kept as it was read.
Untruncated(n) == n

\* sin_port has 16 bits.
Htons(n) == n % 65536

\* The proxy's address is taken out of the login.
strip_redirectaddr ==
  /\ pc = "strip"
  /\ IF login = Malformed
     THEN Done(1) /\ UNCHANGED srvpeer
     ELSE Goto("doauth") /\ srvpeer' = [ip |-> login.ip, port |-> Htons(login.port)]
  /\ UNCHANGED <<method, login, passwd, cmd, sent, proxy>>

\* Mutant: any password will do for a user who has one.
HasPassword == AppPasswd[login.user] # NoRow

\* The strcmp of socks5_doauth, with the password of the cache or the data base.
PasswordMatches == AppPasswd[login.user] # NoRow /\ AppPasswd[login.user] = passwd

\* The data base may be out of reach.
socks5_doauth ==
  /\ pc = "doauth"
  /\ \/ Done(5)
     \/ PasswordMatches /\ Goto("readrequest")
  /\ UNCHANGED <<client, sent, proxy>>

\* A read that fails, a command or an address type that is unknown, a name that
\* cannot be resolved; else the request is known and the command decides.
socks5_readrequest ==
  /\ pc = "readrequest"
  /\ \/ \E s \in {1, 7} : Done(s) /\ UNCHANGED cmd
     \/ \E c \in 1 .. 3 :
          /\ cmd' = c
          /\ \/ \E s \in {1, 4, 8} : Done(s)
             \/ IF c = 1 THEN Goto("connect") ELSE Done(7)
  /\ UNCHANGED <<method, login, passwd, srvpeer, sent, proxy>>

---------------------------------------------------------------------------
(* socks5_connectproxy.  When it returns a status, the client is told.     *)

\* Mutant: the statement goto done after the refusal is missing.
FailAndGoOn(s) == pc' = "writereply" /\ status' = s

Fail(s) == pc' = "refuse" /\ status' = s

\* socket, and connect of connect_nonb.  connect with the address of a login is
\* in progress or fails; with an address that is all zeroes it returns 0.
socks5_connectproxy ==
  /\ pc = "connect"
  /\ \/ Fail(1) /\ sock' = "failed"
     \/ Fail(4) /\ sock' = "open"
     \/ Goto("poll") /\ sock' = "open"
  /\ UNCHANGED <<client, said, told, sent>>

\* The socket is writable: connected, or in error.  SO_ERROR is not looked at.
connect_nonb ==
  /\ pc = "poll"
  /\ Goto("greet")
  /\ \/ srvpeer # Nothing /\ sock' = "up"
     \/ UNCHANGED sock
  /\ UNCHANGED <<client, said, told, sent>>

\* Mutant: poll is called again when it times out.
RetryForever == UNCHANGED vars

connect_nonb_times_out ==
  /\ pc = "poll"
  /\ Fail(4)
  /\ UNCHANGED <<client, proxy, sent>>

\* Writing to the proxy: only a connection takes a message.
TellProxy(here, kind, next) ==
  /\ pc = here
  /\ \/ Fail(4) /\ UNCHANGED told
     \/ sock = "up" /\ Tell(kind) /\ Goto(next)
  /\ UNCHANGED <<client, sock, said, sent>>

socks5_greet == TellProxy("greet", "greeting", "method")

\* The proxy accepts USERNAME/PASSWORD, or not.
socks5_proxymethod ==
  /\ pc = "method"
  /\ Fail(4) \/ Goto("creds")
  /\ UNCHANGED <<client, sent, proxy>>

\* The user and password for the proxy are found and written, or not.
socks5_proxycreds == TellProxy("creds", "creds", "auth")

socks5_proxyauth ==
  /\ pc = "auth"
  /\ Fail(4) \/ Fail(5) \/ Goto("writerequest")
  /\ UNCHANGED <<client, sent, proxy>>

socks5_writerequest == TellProxy("writerequest", "request", "readreply")

\* Mutant: the reply's REP is not returned.
ReturnsZero(reply) == 0

\* What socks5_readreply returns when |VER| or |REP| is not what it should be.
Refusal(reply) == reply.rep

\* The reply fails to arrive, or is refused, or its address fails to arrive or
\* has an unknown type, or all is well.
socks5_readreply ==
  /\ pc = "readreply"
  /\ \/ Fail(4) /\ UNCHANGED said
     \/ \E reply \in Replies :
          /\ said' = reply
          /\ IF reply.ver # 5 \/ reply.rep # 0
             THEN IF Refusal(reply) # 0 THEN Fail(Refusal(reply)) ELSE Goto("writereply")
             ELSE Fail(2) \/ Fail(8) \/ Goto("writereply")
  /\ UNCHANGED <<client, sock, told, sent>>

---------------------------------------------------------------------------
(* The reply to the client, the relay and the end.                         *)

\* After a failure; what socks5_writereply returns is not looked at.  It sends
\* nothing when there is no socket to ask for its name.
socks5_writereply_fails ==
  /\ pc = "refuse"
  /\ \/ sock # "failed" /\ Write("reply", status)
     \/ UNCHANGED sent
  /\ Done(status)
  /\ UNCHANGED <<client, proxy>>

socks5_writereply ==
  /\ pc = "writereply"
  /\ \/ Write("reply", status) /\ Goto("negotiate")
     \/ UNCHANGED sent /\ Done(1)
  /\ UNCHANGED <<client, proxy>>

negotiate ==
  /\ pc = "negotiate"
  /\ \E s \in {0, 1, 6} : Done(s)
  /\ UNCHANGED <<client, sent, proxy>>

socks5_close ==
  /\ pc = "done"
  /\ Goto("closed")
  /\ UNCHANGED <<client, sent, proxy>>

---------------------------------------------------------------------------
connectproxy ==
  \/ socks5_connectproxy \/ connect_nonb \/ connect_nonb_times_out
  \/ socks5_greet \/ socks5_proxymethod \/ socks5_proxycreds \/ socks5_proxyauth
  \/ socks5_writerequest \/ socks5_readreply

\* The steps of the session whose end the code sees to, by a timeout or otherwise.
\* How poll answers a connect, and when the peers end a relay, is theirs.
Timed ==
  \/ socks5_run \/ socks5_choosemethod \/ socks5_readauth \/ strip_redirectaddr \/ socks5_doauth
  \/ socks5_readrequest \/ socks5_connectproxy \/ connect_nonb_times_out
  \/ socks5_greet \/ socks5_proxymethod \/ socks5_proxycreds \/ socks5_proxyauth
  \/ socks5_writerequest \/ socks5_readreply
  \/ socks5_writereply_fails \/ socks5_writereply \/ socks5_close

Next ==
  \/ socks5_run \/ socks5_choosemethod \/ socks5_readauth \/ strip_redirectaddr \/ socks5_doauth
  \/ socks5_readrequest \/ connectproxy \/ socks5_writereply_fails \/ socks5_writereply
  \/ negotiate \/ socks5_close

Spec == Init /\ [][Next]_vars

FairSpec == Spec /\ WF_vars(Timed)

---------------------------------------------------------------------------
(* Properties.                                                             *)

Message == [kind : {"method", "auth", "reply"}, status : Octets]

\* The values every variable can take.
TypeOK ==
  /\ pc \in Places
  /\ method \in {0, 2, 255}
  /\ login \in Logins \cup {Nothing}
  /\ passwd \in Passwords \cup {Nothing}
  /\ srvpeer \in Peers \cup {Nothing}
  /\ cmd \in 0 .. 3
  /\ sock \in Sockets
  /\ said \in [ver : Octets, rep : Octets] \cup {Nothing}
  /\ sent \in Seq(Message) /\ told \in Seq({"greeting", "creds", "request"})
  /\ status \in Octets

Authorised == login \in Logins \ {Malformed} /\ PasswordMatches

\* Nothing is said to a proxy, its credentials least of all, and nothing is
\* relayed, for a client that has not proved to be the user it claims to be:
\* a session that goes on after NO ACCEPTABLE METHODS gets no further than a
\* socket without a peer.
ProxyOnlyForAuthorised ==
  told # <<>> \/ sock = "up" \/ pc = "negotiate" =>
    /\ AppPasswd[login.user] = passwd /\ passwd \in Passwords
    /\ srvpeer = [ip |-> login.ip, port |-> login.port % 65536]

Kinds(s) == [i \in DOMAIN s |-> s[i].kind]

\* The client sees the phases of the protocol in order and none twice: the
\* method, the outcome of the authentication, the reply.  A refusal is the last
\* thing it sees, and a relay runs under a success that it was told of.
ProtocolOrder ==
  /\ \/ IsPrefix(Kinds(sent), <<"method", "auth", "reply">>)
     \/ Kinds(sent) = <<"method", "reply">> /\ Last(sent).status # 0
  /\ pc = "negotiate" => Last(sent) = [kind |-> "reply", status |-> 0]

\* When the proxy refuses the request, the client is told the proxy's reason,
\* if it is told anything, and nothing is relayed.
RefusalIsPassedOn ==
  said # Nothing /\ said.rep # 0 =>
    /\ pc # "negotiate"
    /\ \A i \in DOMAIN sent : sent[i].kind = "reply" => sent[i].status = said.rep

\* Whatever the client and the proxy do or fail to do, the session closes or
\* reaches the relay: no read, write or connect of the dialogue waits for ever.
SessionSettles == <>(pc \in {"negotiate", "closed"})
===========================================================================
