---------------------------- MODULE MCDnsTable ----------------------------
(* Instances of DnsTable for TLC: "a" and "b" share a bucket of a table of *)
(* two entries, "b" and "d" share the hash.                                *)
EXTENDS DnsTable

MCHash == [n \in Names |-> CASE n = "a" -> 0 [] n = "b" -> 2 [] n = "d" -> 2]
===========================================================================
