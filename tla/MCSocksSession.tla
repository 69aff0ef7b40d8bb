-------------------------- MODULE MCSocksSession --------------------------
(* Instances of SocksSession for TLC: a user with a password and one       *)
(* without, one address, a port of 16 bits and one of 17.                  *)
EXTENDS SocksSession

\* A reply of SOCKS5 and one that is not.
MCReplies == [ver : {4, 5}, rep : 0 .. 2]

MCAppPasswd == [u \in Users |-> IF u = "alice" THEN "right" ELSE NoRow]
===========================================================================
