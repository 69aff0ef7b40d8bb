------------------------ MODULE SocksSessionProofs ------------------------
(***************************************************************************)
(* The safety of a session, for all users, passwords, proxies and replies. *)
(*                                                                         *)
(* TypeOK, ProxyOnlyForAuthorised, RefusalIsPassedOn and ProtocolOrder are *)
(* not inductive: each says what holds at the end of a path, and the       *)
(* invariant has to say what holds at every place on it.                   *)
(***************************************************************************)
EXTENDS SocksSession, Integers, SequenceTheorems, TLAPS

Early == {"start", "choosemethod", "readauth", "strip", "doauth"}
Talking == {"method", "creds", "auth", "writerequest", "readreply", "writereply", "negotiate"}
Replied == {"writereply", "refuse", "negotiate", "done", "closed"}

\* Before the login is taken apart there is no proxy; then the proxy is the one
\* that the login names.
PeerOK ==
  /\ pc \in {"start", "choosemethod", "readauth", "strip"} => srvpeer = Nothing
  /\ pc \in {"strip", "doauth"} => login # Nothing /\ passwd # Nothing
  /\ pc = "doauth" => srvpeer # Nothing
  /\ srvpeer # Nothing =>
       /\ login \in Logins \ {Malformed}
       /\ passwd \in Passwords
       /\ srvpeer = [ip |-> login.ip, port |-> login.port % 65536]

\* There is no socket until the request is read; it is connected, and written to,
\* only when there is a proxy and the password was right.
SockOK ==
  /\ pc \in Early \cup {"readrequest", "connect"} => sock = "none" /\ told = <<>>
  /\ pc = "poll" => sock = "open" /\ told = <<>>
  /\ pc \in Talking => sock = "up"
  /\ told # <<>> => sock = "up"
  /\ sock = "up" => srvpeer # Nothing /\ PasswordMatches

\* Past doauth, a session with a proxy has the right password.
AuthOK == pc \notin Early \cup {"done", "closed"} /\ srvpeer # Nothing => PasswordMatches

\* The proxy's reply is known from readreply on, and no reply to the client comes
\* before it; after a refusal the status is the proxy's reason.
ReplyOK ==
  /\ pc \notin {"negotiate", "done", "closed"} => \A i \in DOMAIN sent : sent[i].kind # "reply"
  /\ said # Nothing => pc \in Replied
  /\ said # Nothing /\ said.rep # 0 =>
       /\ pc \in {"refuse", "done", "closed"}
       /\ pc = "refuse" => status = said.rep
       /\ \A i \in DOMAIN sent : sent[i].kind = "reply" => sent[i].status = said.rep

\* What the client was told at each place; the outcome of the authentication is
\* missing only where there is no proxy.  The status is 0 until something fails.
OrderOK ==
  /\ pc \in {"start", "choosemethod"} => Kinds(sent) = <<>>
  /\ pc = "readauth" => Kinds(sent) = <<"method">>
  /\ pc \in {"strip", "doauth"} => Kinds(sent) = <<"method", "auth">>
  /\ pc \notin Early \cup {"negotiate", "done", "closed"} =>
       \/ Kinds(sent) = <<"method", "auth">>
       \/ Kinds(sent) = <<"method">> /\ srvpeer = Nothing
  /\ pc \notin {"refuse", "done", "closed"} => status = 0
  /\ pc = "refuse" => status # 0

IInv == TypeOK /\ PeerOK /\ SockOK /\ AuthOK /\ ReplyOK /\ OrderOK /\ ProtocolOrder

---------------------------------------------------------------------------
\* sin_port holds 16 bits.
LEMMA HtonsType == ASSUME NEW n \in Nat PROVE Htons(n) \in Ports
  BY DEF Htons, Ports

\* What is written to the client is a message.
LEMMA WriteType ==
  ASSUME sent \in Seq(Message), NEW k \in {"method", "auth", "reply"}, NEW s \in Octets,
         Write(k, s)
  PROVE  sent' \in Seq(Message)
<1>1. [kind |-> k, status |-> s] \in Message
  BY DEF Message
<1>2. QED
  BY <1>1 DEF Write

\* What is written to the proxy is one of three messages.
LEMMA TellType ==
  ASSUME told \in Seq({"greeting", "creds", "request"}),
         NEW k \in {"greeting", "creds", "request"}, Tell(k)
  PROVE  told' \in Seq({"greeting", "creds", "request"})
  BY DEF Tell

\* The proxy that a login names has an address.
LEMMA PeerType ==
  ASSUME NEW l \in Logins \ {Malformed}
  PROVE  /\ [ip |-> l.ip, port |-> Htons(l.port)] \in Peers
         /\ [ip |-> l.ip, port |-> Htons(l.port)] # Nothing
<1>1. l \in [user : Users, ip : IPs, port : PortTexts]
  BY DEF Logins
<1>2. \A n \in PortTexts : n \in Nat
  BY SocksSessionAssumption
<1>3. l.ip \in IPs /\ l.port \in Nat
  BY <1>1, <1>2
<1>4. Htons(l.port) \in Ports
  BY <1>3, HtonsType
<1>5. QED
  BY <1>3, <1>4, SocksSessionAssumption DEF Peers

\* Every step keeps every variable in its type.
LEMMA TypeStep ==
  ASSUME TypeOK, PeerOK, Next
  PROVE  TypeOK'
<1>1. CASE socks5_run
  BY <1>1 DEF TypeOK, Places, socks5_run, Goto, Done, client, proxy, Octets
<1>2. CASE socks5_choosemethod
  <2>1. CASE Done(1) /\ UNCHANGED <<client, sent>>
    BY <1>2, <2>1 DEF socks5_choosemethod, TypeOK, Places, Octets, Done, client, proxy
  <2>2. CASE \E offered \in SUBSET {0, 1, 2} :
               /\ method' = Method(offered)
               /\ Write("method", method')
               /\ Goto(IF method' = 2 THEN "readauth" ELSE "readrequest")
               /\ UNCHANGED <<login, passwd, srvpeer, cmd>>
    <3>1. method' \in {0, 2, 255} /\ Write("method", method')
      BY <2>2 DEF Method
    <3>2. method' \in Octets
      BY <3>1 DEF Octets
    <3>3. sent' \in Seq(Message)
      BY <3>1, <3>2, WriteType DEF TypeOK
    <3>4. QED
      BY <1>2, <2>2, <3>1, <3>3 DEF socks5_choosemethod, TypeOK, Places, Goto, proxy
  <2>3. QED
    BY <1>2, <2>1, <2>2 DEF socks5_choosemethod
<1>3. CASE socks5_readauth
  <2>1. sent' = sent \/ Write("auth", 0)
    BY <1>3 DEF socks5_readauth
  <2>2. sent' \in Seq(Message)
    BY <2>1, WriteType DEF TypeOK, Octets
  <2>3. QED
    BY <1>3, <2>2 DEF socks5_readauth, TypeOK, Places, Octets, Goto, Done, proxy
<1>4. CASE strip_redirectaddr
  <2>1. login = Malformed \/ login \in Logins \ {Malformed}
    BY <1>4 DEF strip_redirectaddr, TypeOK, PeerOK
  <2>2. CASE login = Malformed
    BY <1>4, <2>2 DEF strip_redirectaddr, TypeOK, Places, Octets, Done, proxy
  <2>3. CASE login \in Logins \ {Malformed}
    BY <1>4, <2>3, PeerType DEF strip_redirectaddr, TypeOK, Places, Goto, proxy
  <2>4. QED
    BY <2>1, <2>2, <2>3
<1>5. CASE socks5_doauth
  BY <1>5 DEF TypeOK, Places, socks5_doauth, Goto, Done, client, proxy, Octets
<1>6. CASE socks5_readrequest
  BY <1>6 DEF TypeOK, Places, socks5_readrequest, Goto, Done, proxy, Octets
<1>7. CASE socks5_connectproxy
  BY <1>7 DEF TypeOK, Places, socks5_connectproxy, Goto, Fail, client, Octets, Sockets
<1>8. CASE connect_nonb
  BY <1>8 DEF TypeOK, Places, connect_nonb, Goto, client, Sockets
<1>9. CASE connect_nonb_times_out
  BY <1>9 DEF TypeOK, Places, connect_nonb_times_out, Fail, client, proxy, Octets
<1>10. CASE socks5_greet
  <2>1. told' = told \/ Tell("greeting")
    BY <1>10 DEF socks5_greet, TellProxy
  <2>2. told' \in Seq({"greeting", "creds", "request"})
    BY <2>1, TellType DEF TypeOK
  <2>3. QED
    BY <1>10, <2>2 DEF socks5_greet, TellProxy, TypeOK, Places, Octets, Goto, Fail, client
<1>11. CASE socks5_proxymethod
  BY <1>11 DEF TypeOK, Places, socks5_proxymethod, Goto, Fail, client, proxy, Octets
<1>12. CASE socks5_proxycreds
  <2>1. told' = told \/ Tell("creds")
    BY <1>12 DEF socks5_proxycreds, TellProxy
  <2>2. told' \in Seq({"greeting", "creds", "request"})
    BY <2>1, TellType DEF TypeOK
  <2>3. QED
    BY <1>12, <2>2 DEF socks5_proxycreds, TellProxy, TypeOK, Places, Octets, Goto, Fail, client
<1>13. CASE socks5_proxyauth
  BY <1>13 DEF TypeOK, Places, socks5_proxyauth, Goto, Fail, client, proxy, Octets
<1>14. CASE socks5_writerequest
  <2>1. told' = told \/ Tell("request")
    BY <1>14 DEF socks5_writerequest, TellProxy
  <2>2. told' \in Seq({"greeting", "creds", "request"})
    BY <2>1, TellType DEF TypeOK
  <2>3. QED
    BY <1>14, <2>2 DEF socks5_writerequest, TellProxy, TypeOK, Places, Octets, Goto, Fail, client
<1>15. CASE socks5_readreply
  BY <1>15, SocksSessionAssumption DEF TypeOK, Places, socks5_readreply, Goto, Fail,
       client, Octets, Sockets, Refusal
<1>16. CASE socks5_writereply_fails
  <2>1. sent' = sent \/ Write("reply", status)
    BY <1>16 DEF socks5_writereply_fails
  <2>2. sent' \in Seq(Message)
    BY <2>1, WriteType DEF TypeOK, Octets
  <2>3. QED
    BY <1>16, <2>2 DEF socks5_writereply_fails, TypeOK, Places, Octets, Done, client, proxy
<1>17. CASE socks5_writereply
  <2>1. sent' = sent \/ Write("reply", status)
    BY <1>17 DEF socks5_writereply
  <2>2. sent' \in Seq(Message)
    BY <2>1, WriteType DEF TypeOK, Octets
  <2>3. QED
    BY <1>17, <2>2 DEF socks5_writereply, TypeOK, Places, Octets, Goto, Done, client, proxy
<1>18. CASE negotiate
  BY <1>18 DEF TypeOK, Places, negotiate, Done, client, proxy, Octets
<1>19. CASE socks5_close
  BY <1>19 DEF TypeOK, Places, socks5_close, Goto, client, proxy
<1>20. QED
  BY <1>1, <1>2, <1>3, <1>4, <1>5, <1>6, <1>7, <1>8, <1>9, <1>10, <1>11, <1>12, <1>13, <1>14, <1>15, <1>16, <1>17, <1>18, <1>19
    DEF Next, connectproxy

\* Every step keeps the login, the password and the proxy together.
LEMMA PeerStep ==
  ASSUME TypeOK, PeerOK, Next
  PROVE  PeerOK'
<1>1. CASE socks5_run
  BY <1>1 DEF TypeOK, PeerOK, socks5_run, Goto, Done, client, proxy
<1>2. CASE socks5_choosemethod
  BY <1>2 DEF TypeOK, PeerOK, socks5_choosemethod, Goto, Done, client, proxy
<1>3. CASE socks5_readauth
  <2>1. Nothing \notin Logins /\ Nothing \notin Passwords
    BY SocksSessionAssumption DEF Logins
  <2>2. QED
    BY <1>3, <2>1 DEF socks5_readauth, TypeOK, PeerOK, Goto, Done, proxy
<1>4. CASE strip_redirectaddr
  <2>1. login = Malformed \/ login \in Logins \ {Malformed}
    BY <1>4 DEF strip_redirectaddr, TypeOK, PeerOK
  <2>2. CASE login = Malformed
    BY <1>4, <2>2 DEF strip_redirectaddr, PeerOK, Done, proxy
  <2>3. CASE login \in Logins \ {Malformed}
    BY <1>4, <2>3, PeerType DEF strip_redirectaddr, TypeOK, PeerOK, Goto, Htons, proxy
  <2>4. QED
    BY <2>1, <2>2, <2>3
<1>5. CASE socks5_doauth
  BY <1>5 DEF TypeOK, PeerOK, socks5_doauth, Goto, Done, client, proxy
<1>6. CASE socks5_readrequest
  BY <1>6 DEF TypeOK, PeerOK, socks5_readrequest, Goto, Done, proxy
<1>7. CASE socks5_connectproxy
  BY <1>7 DEF TypeOK, PeerOK, socks5_connectproxy, Goto, Fail, client
<1>8. CASE connect_nonb
  BY <1>8 DEF TypeOK, PeerOK, connect_nonb, Goto, client
<1>9. CASE connect_nonb_times_out
  BY <1>9 DEF TypeOK, PeerOK, connect_nonb_times_out, Fail, client, proxy
<1>10. CASE socks5_greet
  BY <1>10 DEF TypeOK, PeerOK, socks5_greet, TellProxy, Goto, Fail, client
<1>11. CASE socks5_proxymethod
  BY <1>11 DEF TypeOK, PeerOK, socks5_proxymethod, Goto, Fail, client, proxy
<1>12. CASE socks5_proxycreds
  BY <1>12 DEF TypeOK, PeerOK, socks5_proxycreds, TellProxy, Goto, Fail, client
<1>13. CASE socks5_proxyauth
  BY <1>13 DEF TypeOK, PeerOK, socks5_proxyauth, Goto, Fail, client, proxy
<1>14. CASE socks5_writerequest
  BY <1>14 DEF TypeOK, PeerOK, socks5_writerequest, TellProxy, Goto, Fail, client
<1>15. CASE socks5_readreply
  BY <1>15 DEF TypeOK, PeerOK, socks5_readreply, Goto, Fail, client
<1>16. CASE socks5_writereply_fails
  BY <1>16 DEF TypeOK, PeerOK, socks5_writereply_fails, Done, client, proxy
<1>17. CASE socks5_writereply
  BY <1>17 DEF TypeOK, PeerOK, socks5_writereply, Goto, Done, client, proxy
<1>18. CASE negotiate
  BY <1>18 DEF TypeOK, PeerOK, negotiate, Done, client, proxy
<1>19. CASE socks5_close
  BY <1>19 DEF TypeOK, PeerOK, socks5_close, Goto, client, proxy
<1>20. QED
  BY <1>1, <1>2, <1>3, <1>4, <1>5, <1>6, <1>7, <1>8, <1>9, <1>10, <1>11, <1>12, <1>13, <1>14, <1>15, <1>16, <1>17, <1>18, <1>19
    DEF Next, connectproxy

\* Every step keeps the socket and the password together.
LEMMA SockStep ==
  ASSUME TypeOK, PeerOK, SockOK, AuthOK, Next
  PROVE  SockOK'
<1>1. CASE socks5_run
  BY <1>1 DEF TypeOK, PeerOK, SockOK, AuthOK, Early, Talking, PasswordMatches,
       socks5_run, Goto, Done, client, proxy
<1>2. CASE socks5_choosemethod
  BY <1>2 DEF TypeOK, PeerOK, SockOK, AuthOK, Early, Talking, PasswordMatches,
       socks5_choosemethod, Goto, Done, client, proxy
<1>3. CASE socks5_readauth
  BY <1>3 DEF TypeOK, PeerOK, SockOK, AuthOK, Early, Talking, PasswordMatches,
       socks5_readauth, Goto, Done, proxy
<1>4. CASE strip_redirectaddr
  BY <1>4 DEF TypeOK, PeerOK, SockOK, AuthOK, Early, Talking, PasswordMatches,
       strip_redirectaddr, Goto, Done, proxy
<1>5. CASE socks5_doauth
  BY <1>5 DEF TypeOK, PeerOK, SockOK, AuthOK, Early, Talking, PasswordMatches,
       socks5_doauth, Goto, Done, client, proxy
<1>6. CASE socks5_readrequest
  BY <1>6 DEF TypeOK, PeerOK, SockOK, AuthOK, Early, Talking, PasswordMatches,
       socks5_readrequest, Goto, Done, proxy
<1>7. CASE socks5_connectproxy
  BY <1>7 DEF TypeOK, PeerOK, SockOK, AuthOK, Early, Talking, PasswordMatches,
       socks5_connectproxy, Goto, Fail, client
<1>8. CASE connect_nonb
  BY <1>8 DEF TypeOK, PeerOK, SockOK, AuthOK, Early, Talking, PasswordMatches,
       connect_nonb, Goto, client
<1>9. CASE connect_nonb_times_out
  BY <1>9 DEF TypeOK, PeerOK, SockOK, AuthOK, Early, Talking, PasswordMatches,
       connect_nonb_times_out, Fail, client, proxy
<1>10. CASE socks5_greet
  BY <1>10 DEF TypeOK, PeerOK, SockOK, AuthOK, Early, Talking, PasswordMatches,
       socks5_greet, TellProxy, Goto, Fail, client, Tell
<1>11. CASE socks5_proxymethod
  BY <1>11 DEF TypeOK, PeerOK, SockOK, AuthOK, Early, Talking, PasswordMatches,
       socks5_proxymethod, Goto, Fail, client, proxy
<1>12. CASE socks5_proxycreds
  BY <1>12 DEF TypeOK, PeerOK, SockOK, AuthOK, Early, Talking, PasswordMatches,
       socks5_proxycreds, TellProxy, Goto, Fail, client, Tell
<1>13. CASE socks5_proxyauth
  BY <1>13 DEF TypeOK, PeerOK, SockOK, AuthOK, Early, Talking, PasswordMatches,
       socks5_proxyauth, Goto, Fail, client, proxy
<1>14. CASE socks5_writerequest
  BY <1>14 DEF TypeOK, PeerOK, SockOK, AuthOK, Early, Talking, PasswordMatches,
       socks5_writerequest, TellProxy, Goto, Fail, client, Tell
<1>15. CASE socks5_readreply
  BY <1>15 DEF TypeOK, PeerOK, SockOK, AuthOK, Early, Talking, PasswordMatches,
       socks5_readreply, Goto, Fail, client
<1>16. CASE socks5_writereply_fails
  BY <1>16 DEF TypeOK, PeerOK, SockOK, AuthOK, Early, Talking, PasswordMatches,
       socks5_writereply_fails, Done, client, proxy
<1>17. CASE socks5_writereply
  BY <1>17 DEF TypeOK, PeerOK, SockOK, AuthOK, Early, Talking, PasswordMatches,
       socks5_writereply, Goto, Done, client, proxy
<1>18. CASE negotiate
  BY <1>18 DEF TypeOK, PeerOK, SockOK, AuthOK, Early, Talking, PasswordMatches,
       negotiate, Done, client, proxy
<1>19. CASE socks5_close
  BY <1>19 DEF TypeOK, PeerOK, SockOK, AuthOK, Early, Talking, PasswordMatches,
       socks5_close, Goto, client, proxy
<1>20. QED
  BY <1>1, <1>2, <1>3, <1>4, <1>5, <1>6, <1>7, <1>8, <1>9, <1>10, <1>11, <1>12, <1>13, <1>14, <1>15, <1>16, <1>17, <1>18, <1>19
    DEF Next, connectproxy

\* Only doauth lets a session with a proxy past.
LEMMA AuthStep ==
  ASSUME TypeOK, PeerOK, AuthOK, Next
  PROVE  AuthOK'
<1>1. CASE socks5_run
  BY <1>1 DEF TypeOK, PeerOK, AuthOK, Early, PasswordMatches, socks5_run, Goto, Done,
       client, proxy
<1>2. CASE socks5_choosemethod
  BY <1>2 DEF TypeOK, PeerOK, AuthOK, Early, PasswordMatches, socks5_choosemethod, Goto,
       Done, client, proxy
<1>3. CASE socks5_readauth
  BY <1>3 DEF TypeOK, PeerOK, AuthOK, Early, PasswordMatches, socks5_readauth, Goto,
       Done, proxy
<1>4. CASE strip_redirectaddr
  BY <1>4 DEF TypeOK, PeerOK, AuthOK, Early, PasswordMatches, strip_redirectaddr, Goto,
       Done, proxy
<1>5. CASE socks5_doauth
  BY <1>5 DEF TypeOK, PeerOK, AuthOK, Early, PasswordMatches, socks5_doauth, Goto, Done,
       client, proxy
<1>6. CASE socks5_readrequest
  BY <1>6 DEF TypeOK, PeerOK, AuthOK, Early, PasswordMatches, socks5_readrequest, Goto,
       Done, proxy
<1>7. CASE socks5_connectproxy
  BY <1>7 DEF TypeOK, PeerOK, AuthOK, Early, PasswordMatches, socks5_connectproxy, Goto,
       Fail, client
<1>8. CASE connect_nonb
  BY <1>8 DEF TypeOK, PeerOK, AuthOK, Early, PasswordMatches, connect_nonb, Goto, client
<1>9. CASE connect_nonb_times_out
  BY <1>9 DEF TypeOK, PeerOK, AuthOK, Early, PasswordMatches, connect_nonb_times_out,
       Fail, client, proxy
<1>10. CASE socks5_greet
  BY <1>10 DEF TypeOK, PeerOK, AuthOK, Early, PasswordMatches, socks5_greet, TellProxy,
       Goto, Fail, client
<1>11. CASE socks5_proxymethod
  BY <1>11 DEF TypeOK, PeerOK, AuthOK, Early, PasswordMatches, socks5_proxymethod, Goto,
       Fail, client, proxy
<1>12. CASE socks5_proxycreds
  BY <1>12 DEF TypeOK, PeerOK, AuthOK, Early, PasswordMatches, socks5_proxycreds,
       TellProxy, Goto, Fail, client
<1>13. CASE socks5_proxyauth
  BY <1>13 DEF TypeOK, PeerOK, AuthOK, Early, PasswordMatches, socks5_proxyauth, Goto,
       Fail, client, proxy
<1>14. CASE socks5_writerequest
  BY <1>14 DEF TypeOK, PeerOK, AuthOK, Early, PasswordMatches, socks5_writerequest,
       TellProxy, Goto, Fail, client
<1>15. CASE socks5_readreply
  BY <1>15 DEF TypeOK, PeerOK, AuthOK, Early, PasswordMatches, socks5_readreply, Goto,
       Fail, client
<1>16. CASE socks5_writereply_fails
  BY <1>16 DEF TypeOK, PeerOK, AuthOK, Early, PasswordMatches, socks5_writereply_fails,
       Done, client, proxy
<1>17. CASE socks5_writereply
  BY <1>17 DEF TypeOK, PeerOK, AuthOK, Early, PasswordMatches, socks5_writereply, Goto,
       Done, client, proxy
<1>18. CASE negotiate
  BY <1>18 DEF TypeOK, PeerOK, AuthOK, Early, PasswordMatches, negotiate, Done, client,
       proxy
<1>19. CASE socks5_close
  BY <1>19 DEF TypeOK, PeerOK, AuthOK, Early, PasswordMatches, socks5_close, Goto,
       client, proxy
<1>20. QED
  BY <1>1, <1>2, <1>3, <1>4, <1>5, <1>6, <1>7, <1>8, <1>9, <1>10, <1>11, <1>12, <1>13, <1>14, <1>15, <1>16, <1>17, <1>18, <1>19
    DEF Next, connectproxy

\* Every step keeps the reply of the proxy and the one to the client together.
LEMMA ReplyStep ==
  ASSUME TypeOK, ReplyOK, Next
  PROVE  ReplyOK'
<1>1. CASE socks5_run
  BY <1>1 DEF TypeOK, ReplyOK, Replied, socks5_run, Goto, Done, client, proxy
<1>2. CASE socks5_choosemethod
  BY <1>2 DEF TypeOK, ReplyOK, Replied, socks5_choosemethod, Goto, Done, client, proxy,
       Write
<1>3. CASE socks5_readauth
  BY <1>3 DEF TypeOK, ReplyOK, Replied, socks5_readauth, Goto, Done, proxy, Write
<1>4. CASE strip_redirectaddr
  BY <1>4 DEF TypeOK, ReplyOK, Replied, strip_redirectaddr, Goto, Done, proxy
<1>5. CASE socks5_doauth
  BY <1>5 DEF TypeOK, ReplyOK, Replied, socks5_doauth, Goto, Done, client, proxy
<1>6. CASE socks5_readrequest
  BY <1>6 DEF TypeOK, ReplyOK, Replied, socks5_readrequest, Goto, Done, proxy
<1>7. CASE socks5_connectproxy
  BY <1>7 DEF TypeOK, ReplyOK, Replied, socks5_connectproxy, Goto, Fail, client
<1>8. CASE connect_nonb
  BY <1>8 DEF TypeOK, ReplyOK, Replied, connect_nonb, Goto, client
<1>9. CASE connect_nonb_times_out
  BY <1>9 DEF TypeOK, ReplyOK, Replied, connect_nonb_times_out, Fail, client, proxy
<1>10. CASE socks5_greet
  BY <1>10 DEF TypeOK, ReplyOK, Replied, socks5_greet, TellProxy, Goto, Fail, client
<1>11. CASE socks5_proxymethod
  BY <1>11 DEF TypeOK, ReplyOK, Replied, socks5_proxymethod, Goto, Fail, client, proxy
<1>12. CASE socks5_proxycreds
  BY <1>12 DEF TypeOK, ReplyOK, Replied, socks5_proxycreds, TellProxy, Goto, Fail,
       client
<1>13. CASE socks5_proxyauth
  BY <1>13 DEF TypeOK, ReplyOK, Replied, socks5_proxyauth, Goto, Fail, client, proxy
<1>14. CASE socks5_writerequest
  BY <1>14 DEF TypeOK, ReplyOK, Replied, socks5_writerequest, TellProxy, Goto, Fail,
       client
<1>15. CASE socks5_readreply
  BY <1>15 DEF TypeOK, ReplyOK, Replied, socks5_readreply, Goto, Fail, client, Refusal
<1>16. CASE socks5_writereply_fails
  <2>1. CASE UNCHANGED sent
    BY <1>16, <2>1 DEF socks5_writereply_fails, ReplyOK, Replied, Done, proxy
  <2>2. CASE Write("reply", status)
    <3>1. \A i \in DOMAIN sent' : sent'[i].kind = "reply" => sent'[i].status = status
      BY <1>16, <2>2 DEF socks5_writereply_fails, TypeOK, ReplyOK, Write
    <3>2. QED
      BY <1>16, <3>1 DEF socks5_writereply_fails, ReplyOK, Replied, Done, proxy
  <2>3. QED
    BY <1>16, <2>1, <2>2 DEF socks5_writereply_fails
<1>17. CASE socks5_writereply
  BY <1>17 DEF TypeOK, ReplyOK, Replied, socks5_writereply, Goto, Done, client, proxy,
       Write
<1>18. CASE negotiate
  BY <1>18 DEF TypeOK, ReplyOK, Replied, negotiate, Done, client, proxy
<1>19. CASE socks5_close
  BY <1>19 DEF TypeOK, ReplyOK, Replied, socks5_close, Goto, client, proxy
<1>20. QED
  BY <1>1, <1>2, <1>3, <1>4, <1>5, <1>6, <1>7, <1>8, <1>9, <1>10, <1>11, <1>12, <1>13, <1>14, <1>15, <1>16, <1>17, <1>18, <1>19
    DEF Next, connectproxy

---------------------------------------------------------------------------
\* Every beginning of the dialogue is in order.
LEMMA InOrder ==
  ASSUME NEW ks \in {<<>>, <<"method">>, <<"method", "auth">>, <<"method", "auth", "reply">>}
  PROVE  IsPrefix(ks, <<"method", "auth", "reply">>)
<1> DEFINE all == <<"method", "auth", "reply">>
<1>1. /\ ks \in Seq({"method", "auth", "reply"}) /\ all \in Seq({"method", "auth", "reply"})
      /\ Len(ks) \in 0 .. 3 /\ Len(all) = 3
      /\ \A i \in 1 .. Len(ks) : ks[i] = all[i]
  <2>1. CASE ks = <<>>
    BY <2>1
  <2>2. CASE ks = <<"method">>
    BY <2>2
  <2>3. CASE ks = <<"method", "auth">>
    BY <2>3
  <2>4. CASE ks = all
    BY <2>4
  <2>5. QED
    BY <2>1, <2>2, <2>3, <2>4
<1> HIDE DEF all
<1>2. SubSeq(ks, 1, Len(ks)) = ks
  BY <1>1, SubSeqFull
<1>3. /\ SubSeq(all, 1, Len(ks)) \in Seq({"method", "auth", "reply"})
      /\ Len(SubSeq(all, 1, Len(ks))) = Len(ks)
      /\ \A i \in 1 .. Len(ks) : SubSeq(all, 1, Len(ks))[i] = all[i]
  <2>1. \A i \in 1 .. Len(ks) : all[i] \in {"method", "auth", "reply"}
    BY <1>1
  <2>2. QED
    BY <1>1, <2>1, SubSeqProperties
<1>4. SubSeq(all, 1, Len(ks)) = ks
  BY <1>1, <1>3, SeqEqual
<1>5. QED
  BY <1>1, <1>2, <1>4 DEF IsPrefix, all

\* A message is told after those before it, and is the last.
LEMMA WriteKinds ==
  ASSUME sent \in Seq(Message), NEW k, NEW s, Write(k, s)
  PROVE  /\ Kinds(sent') = Append(Kinds(sent), k)
         /\ Last(sent') = [kind |-> k, status |-> s]
<1> DEFINE m == [kind |-> k, status |-> s]
<1>1. /\ Len(sent) \in Nat /\ DOMAIN sent = 1 .. Len(sent)
      /\ sent' = Append(sent, m)
  BY DEF Write
<1>2. /\ Len(sent') = Len(sent) + 1 /\ DOMAIN sent' = 1 .. (Len(sent) + 1)
      /\ \A i \in 1 .. Len(sent) : sent'[i] = sent[i]
      /\ sent'[Len(sent) + 1] = m
  BY <1>1
<1>3. Last(sent') = m
  BY <1>2 DEF Last
<1>4. Kinds(sent') = Append(Kinds(sent), k)
  BY <1>1, <1>2 DEF Kinds
<1>5. QED
  BY <1>3, <1>4

\* A step that tells the client nothing keeps the order.
LEMMA Silent ==
  ASSUME ProtocolOrder, UNCHANGED sent, pc' # "negotiate"
  PROVE  ProtocolOrder' /\ Kinds(sent') = Kinds(sent)
BY DEF ProtocolOrder

\* What the beginnings of the dialogue grow to.
LEMMA AppendTuples ==
  /\ Append(<<>>, "method") = <<"method">>
  /\ Append(<<"method">>, "auth") = <<"method", "auth">>
  /\ Append(<<"method">>, "reply") = <<"method", "reply">>
  /\ Append(<<"method", "auth">>, "reply") = <<"method", "auth", "reply">>
<1> DEFINE K == {"method", "auth", "reply"}
<1>1. Append(<<>>, "method") = <<"method">>
  OBVIOUS
<1>2. ASSUME NEW a \in K, NEW b \in K PROVE Append(<<a>>, b) = <<a, b>>
  <2>1. <<a>> \in Seq(K) /\ <<a, b>> \in Seq(K) /\ Len(<<a>>) = 1 /\ Len(<<a, b>>) = 2
    OBVIOUS
  <2>2. /\ Append(<<a>>, b) \in Seq(K) /\ Len(Append(<<a>>, b)) = 2
        /\ Append(<<a>>, b)[1] = a /\ Append(<<a>>, b)[2] = b
    BY <2>1, AppendProperties
  <2>3. \A i \in 1 .. 2 : Append(<<a>>, b)[i] = <<a, b>>[i]
    BY <2>2
  <2>4. QED
    BY <2>1, <2>2, <2>3, SeqEqual
<1>3. ASSUME NEW a \in K, NEW b \in K, NEW c \in K PROVE Append(<<a, b>>, c) = <<a, b, c>>
  <2>1. /\ <<a, b>> \in Seq(K) /\ <<a, b, c>> \in Seq(K)
        /\ Len(<<a, b>>) = 2 /\ Len(<<a, b, c>>) = 3
    OBVIOUS
  <2>2. /\ Append(<<a, b>>, c) \in Seq(K) /\ Len(Append(<<a, b>>, c)) = 3
        /\ Append(<<a, b>>, c)[1] = a /\ Append(<<a, b>>, c)[2] = b
        /\ Append(<<a, b>>, c)[3] = c
    BY <2>1, AppendProperties
  <2>3. \A i \in 1 .. 3 : Append(<<a, b>>, c)[i] = <<a, b, c>>[i]
    BY <2>2
  <2>4. QED
    BY <2>1, <2>2, <2>3, SeqEqual
<1>4. QED
  BY <1>1, <1>2, <1>3

\* The steps of socks5_run that write to the client.
LEMMA OrderSpeaks ==
  ASSUME TypeOK, PeerOK, SockOK, OrderOK, ProtocolOrder,
         NEW k \in {"method", "auth", "reply"}, NEW s \in Octets, Write(k, s),
         \/ socks5_choosemethod /\ k = "method"
         \/ socks5_readauth /\ k = "auth"
         \/ (socks5_writereply_fails \/ socks5_writereply) /\ k = "reply" /\ s = status
  PROVE  OrderOK' /\ ProtocolOrder'
<1>1. Kinds(sent') = Append(Kinds(sent), k) /\ Last(sent') = [kind |-> k, status |-> s]
  BY WriteKinds DEF TypeOK
<1>2. sent' # sent
  <2>1. sent \in Seq(Message) /\ sent' = Append(sent, [kind |-> k, status |-> s])
    BY DEF TypeOK, Write
  <2>2. Len(sent') = Len(sent) + 1 /\ Len(sent) \in Nat
    BY <2>1
  <2>3. QED
    BY <2>2
<1>3. /\ Append(<<>>, "method") = <<"method">>
      /\ Append(<<"method">>, "auth") = <<"method", "auth">>
      /\ Append(<<"method">>, "reply") = <<"method", "reply">>
      /\ Append(<<"method", "auth">>, "reply") = <<"method", "auth", "reply">>
  BY AppendTuples
<1>4. CASE socks5_choosemethod /\ k = "method"
  <2>1. /\ pc = "choosemethod" /\ pc' \in {"readauth", "readrequest"} /\ srvpeer' = srvpeer
        /\ status' = status
    BY <1>2, <1>4 DEF socks5_choosemethod, client, Goto
  <2>2. Kinds(sent') = <<"method">> /\ srvpeer' = Nothing /\ status' = 0
    BY <1>1, <1>3, <1>4, <2>1 DEF OrderOK, PeerOK
  <2>3. ProtocolOrder'
    BY <2>1, <2>2, InOrder DEF ProtocolOrder
  <2>4. QED
    BY <2>1, <2>2, <2>3 DEF OrderOK, Early
<1>5. CASE socks5_readauth /\ k = "auth"
  <2>1. pc = "readauth" /\ pc' = "strip" /\ status' = status
    BY <1>2, <1>5 DEF socks5_readauth, Goto
  <2>2. Kinds(sent') = <<"method", "auth">> /\ status' = 0
    BY <1>1, <1>3, <1>5, <2>1 DEF OrderOK
  <2>3. ProtocolOrder'
    BY <2>1, <2>2, InOrder DEF ProtocolOrder
  <2>4. QED
    BY <2>1, <2>2, <2>3 DEF OrderOK, Early
<1>6. CASE socks5_writereply_fails /\ k = "reply" /\ s = status
  <2>1. pc = "refuse" /\ pc' = "done" /\ Last(sent').status # 0
    BY <1>1, <1>6 DEF socks5_writereply_fails, Done, OrderOK
  <2>2. Kinds(sent') \in {<<"method", "auth", "reply">>, <<"method", "reply">>}
    BY <1>1, <1>3, <1>6, <2>1 DEF OrderOK, Early
  <2>3. ProtocolOrder'
    BY <2>1, <2>2, InOrder DEF ProtocolOrder
  <2>4. QED
    BY <2>1, <2>3 DEF OrderOK, Early
<1>7. CASE socks5_writereply /\ k = "reply" /\ s = status
  <2>1. pc = "writereply" /\ pc' = "negotiate" /\ status' = status
    BY <1>2, <1>7 DEF socks5_writereply, Goto
  <2>2. srvpeer # Nothing
    BY <2>1 DEF SockOK, Talking
  <2>3. Kinds(sent') = <<"method", "auth", "reply">> /\ s = 0 /\ status' = 0
    BY <1>1, <1>3, <1>7, <2>1, <2>2 DEF OrderOK, Early
  <2>4. ProtocolOrder'
    BY <1>1, <1>7, <2>3, InOrder DEF ProtocolOrder
  <2>5. QED
    BY <2>1, <2>3, <2>4 DEF OrderOK, Early
<1>8. QED
  BY <1>4, <1>5, <1>6, <1>7

\* The steps from a request to the reply: what the client was told does not change,
\* and only a failure has a status.
Between == {"readrequest", "connect", "poll", "greet", "method", "creds", "auth", "writerequest",
            "readreply", "writereply", "refuse"}

LEMMA OrderBetween ==
  ASSUME OrderOK, ProtocolOrder, UNCHANGED <<sent, srvpeer>>,
         pc \in Between \ {"refuse"}, pc' \in Between \cup {"done"},
         pc' = "refuse" => status' # 0,
         pc' \notin {"refuse", "done"} => status' = status
  PROVE  OrderOK' /\ ProtocolOrder'
<1>1. ProtocolOrder' /\ Kinds(sent') = Kinds(sent)
  BY Silent DEF Between
<1>2. status = 0 /\ (Kinds(sent) = <<"method", "auth">> \/ (Kinds(sent) = <<"method">> /\ srvpeer = Nothing))
  <2>1. pc \notin Early \cup {"negotiate", "done", "closed"} /\ pc \notin {"refuse", "done", "closed"}
    BY DEF Between, Early
  <2>2. status = 0
    BY <2>1 DEF OrderOK
  <2>3. Kinds(sent) = <<"method", "auth">> \/ (Kinds(sent) = <<"method">> /\ srvpeer = Nothing)
    BY <2>1 DEF OrderOK
  <2>4. QED
    BY <2>2, <2>3
<1>3. QED
  BY <1>1, <1>2 DEF OrderOK, Between, Early

LEMMA OrderStep ==
  ASSUME TypeOK, PeerOK, SockOK, OrderOK, ProtocolOrder, Next
  PROVE  OrderOK' /\ ProtocolOrder'
<1>1. CASE socks5_run
  <2>1. pc = "start" /\ pc' \in {"choosemethod", "done"} /\ UNCHANGED sent
        /\ (pc' = "choosemethod" => status' = status)
    BY <1>1 DEF socks5_run, Goto, Done
  <2>2. QED
    BY <2>1, Silent DEF OrderOK, Early
<1>2. CASE socks5_choosemethod
  <2>1. CASE UNCHANGED sent /\ pc' = "done"
    BY <2>1, Silent DEF OrderOK, Early
  <2>2. CASE Write("method", method')
    <3>1. method' \in Octets
      BY <1>2, TypeStep DEF TypeOK, Next, Octets
    <3>2. QED
      BY <1>2, <2>2, <3>1, OrderSpeaks
  <2>3. QED
    BY <1>2, <2>1, <2>2 DEF socks5_choosemethod, Done
<1>3. CASE socks5_readauth
  <2>1. CASE UNCHANGED sent /\ pc' = "done"
    BY <2>1, Silent DEF OrderOK, Early
  <2>2. CASE Write("auth", 0)
    BY <1>3, <2>2, OrderSpeaks DEF Octets
  <2>3. QED
    BY <1>3, <2>1, <2>2 DEF socks5_readauth, Done
<1>4. CASE strip_redirectaddr
  <2>1. pc = "strip" /\ pc' \in {"doauth", "done"} /\ UNCHANGED sent
        /\ (pc' = "doauth" => status' = status)
    BY <1>4 DEF strip_redirectaddr, Goto, Done
  <2>2. QED
    BY <2>1, Silent DEF OrderOK, Early
<1>5. CASE socks5_doauth
  <2>1. pc = "doauth" /\ pc' \in {"readrequest", "done"} /\ UNCHANGED sent
        /\ (pc' = "readrequest" => status' = status)
    BY <1>5 DEF socks5_doauth, Goto, Done
  <2>2. QED
    BY <2>1, Silent DEF OrderOK, Early
<1>6. CASE socks5_readrequest
  BY <1>6, OrderBetween DEF socks5_readrequest, Goto, Done, Between
<1>7. CASE socks5_connectproxy \/ connect_nonb \/ connect_nonb_times_out
  BY <1>7, OrderBetween DEF socks5_connectproxy, connect_nonb, connect_nonb_times_out, Goto, Fail,
     client, Between
<1>8. CASE socks5_greet \/ socks5_proxycreds \/ socks5_writerequest
  BY <1>8, OrderBetween DEF socks5_greet, socks5_proxycreds, socks5_writerequest, TellProxy, Goto,
     Fail, client, Between
<1>9. CASE socks5_proxymethod \/ socks5_proxyauth \/ socks5_readreply
  BY <1>9, OrderBetween DEF socks5_proxymethod, socks5_proxyauth, socks5_readreply, Goto, Fail,
     client, Between
<1>10. CASE socks5_writereply_fails
  <2>1. CASE UNCHANGED sent
    BY <1>10, <2>1, Silent DEF socks5_writereply_fails, Done, OrderOK, Early
  <2>2. CASE Write("reply", status)
    BY <1>10, <2>2, OrderSpeaks DEF TypeOK
  <2>3. QED
    BY <1>10, <2>1, <2>2 DEF socks5_writereply_fails
<1>11. CASE socks5_writereply
  <2>1. CASE UNCHANGED sent /\ pc' = "done"
    BY <2>1, Silent DEF OrderOK, Early
  <2>2. CASE Write("reply", status)
    BY <1>11, <2>2, OrderSpeaks DEF TypeOK
  <2>3. QED
    BY <1>11, <2>1, <2>2 DEF socks5_writereply, Done
<1>12. CASE negotiate \/ socks5_close
  <2>1. UNCHANGED sent /\ pc' \in {"done", "closed"}
    BY <1>12 DEF negotiate, socks5_close, Goto, Done
  <2>2. QED
    BY <2>1, Silent DEF OrderOK, Early
<1>13. QED
  BY <1>1, <1>2, <1>3, <1>4, <1>5, <1>6, <1>7, <1>8, <1>9, <1>10, <1>11, <1>12 DEF Next, connectproxy

---------------------------------------------------------------------------
\* The invariant holds in every state of a session.
THEOREM Invariance == Spec => []IInv
<1>1. Init => IInv
  <2> SUFFICES ASSUME Init PROVE IInv
    OBVIOUS
  <2>1. TypeOK /\ PeerOK /\ SockOK /\ AuthOK /\ ReplyOK
    BY SocksSessionAssumption DEF Octets, Init, TypeOK, PeerOK, SockOK, AuthOK, ReplyOK, Places,
         Sockets, Early, Talking, Replied
  <2>2. Kinds(sent) = <<>>
    BY DEF Init, Kinds
  <2>3. OrderOK /\ ProtocolOrder
    BY <2>2, InOrder DEF Init, OrderOK, ProtocolOrder, Early
  <2>4. QED
    BY <2>1, <2>3 DEF IInv
<1>2. IInv /\ [Next]_vars => IInv'
  <2> SUFFICES ASSUME IInv, [Next]_vars PROVE IInv'
    OBVIOUS
  <2>1. CASE Next
    BY <2>1, TypeStep, PeerStep, SockStep, AuthStep, ReplyStep, OrderStep DEF IInv
  <2>2. CASE UNCHANGED vars
    BY <2>2 DEF IInv, vars, TypeOK, PeerOK, SockOK, AuthOK, ReplyOK, PasswordMatches, OrderOK,
         ProtocolOrder, Kinds, Last
  <2>3. QED
    BY <2>1, <2>2
<1>3. QED
  BY <1>1, <1>2, PTL DEF Spec

\* Every variable stays in its type; the port of a proxy fits in 16 bits.
THEOREM TypeCorrect == Spec => []TypeOK
<1>1. IInv => TypeOK
  BY DEF IInv
<1>2. QED
  BY Invariance, <1>1, PTL

\* No proxy is spoken to for a client that has not given the password of the user
\* it claims to be, whatever the method, the logins and the answers are.
THEOREM OnlyForAuthorised == Spec => []ProxyOnlyForAuthorised
<1>1. IInv => ProxyOnlyForAuthorised
  BY DEF IInv, PeerOK, SockOK, Talking, PasswordMatches, ProxyOnlyForAuthorised
<1>2. QED
  BY Invariance, <1>1, PTL

\* A proxy's refusal reaches the client with its reason and is never followed by
\* a relay, whatever replies proxies send.
THEOREM RefusalPassedOn == Spec => []RefusalIsPassedOn
<1>1. IInv => RefusalIsPassedOn
  BY DEF IInv, ReplyOK, RefusalIsPassedOn
<1>2. QED
  BY Invariance, <1>1, PTL

\* The client is told the method, the outcome of the authentication and the reply
\* in this order, each once, and nothing after a refusal; a relay runs only under
\* a reply of success.
THEOREM ToldInOrder == Spec => []ProtocolOrder
<1>1. IInv => ProtocolOrder
  BY DEF IInv
<1>2. QED
  BY Invariance, <1>1, PTL
===========================================================================
