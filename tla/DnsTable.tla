----------------------------- MODULE DnsTable -----------------------------
(***************************************************************************)
(* The DNS cache of hashtbl.c and its use by socks5_readrequest: look the  *)
(* name up, resolve it on a miss, put the answer in for TTL seconds.       *)
(*                                                                         *)
(* The entries are a fixed array; each is on the free list empty_entry or  *)
(* in the chain of one bucket.  Lists are sequences, front first.  The     *)
(* table knows a name by its hash alone.  The address a name had at a time *)
(* is the record of that name and that time.                               *)
(*                                                                         *)
(* hashtbl_put holds hmutex over two steps, because it reads the clock     *)
(* twice; hashtbl_get reads the clock before it takes hmutex.              *)
(***************************************************************************)
EXTENDS Naturals, Sequences, FiniteSets, SequencesExt

CONSTANTS
  Threads,   \* the sessions that look names up
  NoThread,  \* "hmutex is free"
  Names,     \* host names
  Hash,      \* hashStr of each name
  Size,      \* hashtbl->size: entries, and buckets
  TTL,       \* DNS_TTL
  MaxTime    \* bound: where the clock stops

ASSUME DnsTableAssumption ==
  /\ NoThread \notin Threads
  /\ Names # {}
  /\ Hash \in [Names -> Nat]
  /\ Size \in Nat \ {0} /\ TTL \in Nat /\ MaxTime \in Nat

VARIABLES
  now,      \* time(NULL)
  pc,       \* where each session is in its lookup
  name,     \* the name each session looks up
  clock,    \* the local variable now of hashtbl_get, 0 outside of it
  addr,     \* the address each session has, if any
  lock,     \* the owner of hmutex
  free,     \* the list empty_entry
  chain,    \* the lists table[idx]
  entry     \* the fields hash, expires and value of each entry

vars == <<now, pc, name, clock, addr, lock, free, chain, entry>>
table == <<free, chain, entry>>

Entries == 1 .. Size
Buckets == 0 .. Size - 1
Addresses == [host : Names, at : 0 .. MaxTime]
NoAddress == [host |-> CHOOSE n \in Names : TRUE, at |-> 0]
Bucket(n) == Hash[n] % Size
Places == {"idle", "clock", "get", "resolve", "put", "insert", "unlock", "found", "failed"}

Init ==
  /\ now = 0
  /\ pc = [t \in Threads |-> "idle"]
  /\ name = [t \in Threads |-> NoAddress.host]
  /\ clock = [t \in Threads |-> 0]
  /\ addr = [t \in Threads |-> NoAddress]
  /\ lock = NoThread
  /\ free = [i \in 1 .. Size |-> i]
  /\ chain = [b \in Buckets |-> <<>>]
  /\ entry = [e \in Entries |-> [hash |-> 0, expires |-> 0, value |-> NoAddress]]

Goto(t, p) == pc' = [pc EXCEPT ![t] = p]

Tick ==
  /\ now < MaxTime
  /\ now' = now + 1
  /\ UNCHANGED <<pc, name, clock, addr, lock, table>>

---------------------------------------------------------------------------
(* The loops over a chain, and the entries that go back to the free list,  *)
(* the first one first.                                                    *)

\* The elements of s at the positions in P, in the order of s.
Sublist(s, P) ==
  [i \in 1 .. Cardinality(P) |-> s[CHOOSE p \in P : Cardinality({q \in P : q <= p}) = i]]

\* Mutant: an expired entry is taken out of its chain and forgotten.
DropEntries(gone) == UNCHANGED free

Release(gone) == free' = Reverse(gone) \o free

\* A free entry has no expiry date.
Cleared(gone) ==
  [e \in Entries |-> IF Contains(gone, e) THEN [entry[e] EXCEPT !.expires = 0] ELSE entry[e]]

---------------------------------------------------------------------------
(* A session.                                                              *)

Lookup(t) ==
  /\ pc[t] = "idle"
  /\ \E n \in Names : name' = [name EXCEPT ![t] = n]
  /\ Goto(t, "clock")
  /\ UNCHANGED <<now, clock, addr, lock, table>>

\* The clock is read before the lock is taken.
hashtbl_get_now(t) ==
  /\ pc[t] = "clock"
  /\ clock' = [clock EXCEPT ![t] = now]
  /\ Goto(t, "get")
  /\ UNCHANGED <<now, name, addr, lock, table>>

\* Mutant: a hit does not look at the expiry date.
HitWhatever(t) ==
  {i \in DOMAIN chain[Bucket(name[t])] : entry[chain[Bucket(name[t])][i]].hash = Hash[name[t]]}

\* The positions in the chain of an entry that answers the question.
Hits(t) ==
  LET c == chain[Bucket(name[t])] IN
  {i \in DOMAIN c : entry[c[i]].hash = Hash[name[t]] /\ entry[c[i]].expires >= clock[t]}

\* The chain is walked up to the first hit; what has expired on the way is freed.
\* The local variable now ends with the function.
hashtbl_get(t) ==
  /\ pc[t] = "get"
  /\ lock = NoThread
  /\ LET b == Bucket(name[t])
         c == chain[b]
         stop == IF Hits(t) = {} THEN Len(c) + 1 ELSE CHOOSE i \in Hits(t) : \A j \in Hits(t) : i <= j
         out == {i \in DOMAIN c : i < stop /\ entry[c[i]].expires < clock[t]}
         gone == Sublist(c, out)
     IN  /\ chain' = [chain EXCEPT ![b] = Sublist(c, DOMAIN c \ out)]
         /\ Release(gone)
         /\ entry' = Cleared(gone)
         /\ IF stop <= Len(c)
            THEN addr' = [addr EXCEPT ![t] = entry[c[stop]].value] /\ Goto(t, "found")
            ELSE UNCHANGED addr /\ Goto(t, "resolve")
  /\ clock' = [clock EXCEPT ![t] = 0]
  /\ UNCHANGED <<now, name, lock>>

\* host_serv, and the expiry date that is computed for hashtbl_put.
host_serv(t) ==
  /\ pc[t] = "resolve"
  /\ \/ /\ addr' = [addr EXCEPT ![t] = [host |-> name[t], at |-> now]]
        /\ Goto(t, "put")
     \/ UNCHANGED addr /\ Goto(t, "failed")
  /\ UNCHANGED <<now, name, clock, lock, table>>

\* Mutant: the comparison with the clock is the wrong way round.
CheckFindsExpired(n) ==
  \E i \in DOMAIN chain[Bucket(n)] :
    LET e == entry[chain[Bucket(n)][i]] IN e.hash = Hash[n] /\ e.expires < now

\* hashtbl_check, which frees nothing.
hashtbl_check(n) ==
  \E i \in DOMAIN chain[Bucket(n)] :
    LET e == entry[chain[Bucket(n)][i]] IN e.hash = Hash[n] /\ e.expires > now

\* The first half of hashtbl_put: lock, look for a free entry, check.
hashtbl_put(t) ==
  /\ pc[t] = "put"
  /\ lock = NoThread
  /\ lock' = t
  /\ Goto(t, IF free = <<>> \/ hashtbl_check(name[t]) THEN "unlock" ELSE "insert")
  /\ UNCHANGED <<now, name, clock, addr, table>>

\* Mutant: the early return on a full table keeps the lock.
FullKeepsLock(t) ==
  /\ pc[t] = "unlock"
  /\ lock' = IF free = <<>> THEN lock ELSE NoThread
  /\ Goto(t, "found")
  /\ UNCHANGED <<now, name, clock, addr, table>>

\* The two early returns, with the lock given back.
hashtbl_put_returns(t) ==
  /\ pc[t] = "unlock"
  /\ lock' = NoThread
  /\ Goto(t, "found")
  /\ UNCHANGED <<now, name, clock, addr, table>>

\* Mutant: only expired entries leave the chain.
PurgeExpiredOnly(t, e) == entry[e].expires < now

\* What hashtbl_put takes out of the chain before it links the new entry in.
Purged(t, e) == entry[e].hash = Hash[name[t]] \/ entry[e].expires < now

\* Mutant: the time to live is added twice.
ExpiresLate(t) == addr[t].at + TTL + TTL + 1

Expiry(t) == addr[t].at + TTL

\* The second half of hashtbl_put.
hashtbl_put_insert(t) ==
  /\ pc[t] = "insert"
  /\ LET b == Bucket(name[t])
         c == chain[b]
         new == Head(free)
         out == {i \in DOMAIN c : Purged(t, c[i])}
         gone == Sublist(c, out)
     IN  /\ chain' = [chain EXCEPT ![b] = <<new>> \o Sublist(c, DOMAIN c \ out)]
         /\ free' = Reverse(gone) \o Tail(free)
         /\ entry' = [Cleared(gone) EXCEPT ![new] =
              [hash |-> Hash[name[t]], expires |-> Expiry(t), value |-> addr[t]]]
  /\ lock' = NoThread
  /\ Goto(t, "found")
  /\ UNCHANGED <<now, name, clock, addr>>

\* The request goes on with the address, or fails, and the variables of
\* socks5_readrequest end with it; another lookup may follow.
Done(t) ==
  /\ pc[t] \in {"found", "failed"}
  /\ Goto(t, "idle")
  /\ name' = [name EXCEPT ![t] = NoAddress.host]
  /\ addr' = [addr EXCEPT ![t] = NoAddress]
  /\ UNCHANGED <<now, clock, lock, table>>

---------------------------------------------------------------------------
Step(t) ==
  \/ hashtbl_get_now(t) \/ hashtbl_get(t) \/ host_serv(t) \/ hashtbl_put(t)
  \/ hashtbl_put_returns(t) \/ hashtbl_put_insert(t) \/ Done(t)

Next == Tick \/ \E t \in Threads : Lookup(t) \/ Step(t)

Spec == Init /\ [][Next]_vars

\* Every session runs; hmutex is handed over fairly.
Fairness ==
  \A t \in Threads :
    /\ WF_vars(Step(t))
    /\ SF_vars(hashtbl_get(t)) /\ SF_vars(hashtbl_put(t))

FairSpec == Spec /\ Fairness
---------------------------------------------------------------------------
(* Properties.                                                             *)

\* The values every variable can take.
TypeOK ==
  /\ now \in 0 .. MaxTime
  /\ pc \in [Threads -> Places]
  /\ name \in [Threads -> Names]
  /\ clock \in [Threads -> 0 .. MaxTime]
  /\ addr \in [Threads -> Addresses]
  /\ lock \in Threads \cup {NoThread}
  /\ free \in Seq(Entries)
  /\ chain \in [Buckets -> Seq(Entries)]
  /\ entry \in [Entries -> [hash : Nat, expires : 0 .. MaxTime + TTL, value : Addresses]]

\* No entry is lost or in two lists: empty_entry and the chains share out the
\* array, through every purge of hashtbl_get and hashtbl_put.
EntriesPartitioned ==
  /\ IsInjective(free) /\ \A b \in Buckets : IsInjective(chain[b])
  /\ \A e \in Entries :
       \/ Contains(free, e) /\ \A b \in Buckets : ~ Contains(chain[b], e)
       \/ ~ Contains(free, e) /\ \E b \in Buckets : \A d \in Buckets : Contains(chain[d], e) <=> d = b

\* A hash is in the table at most once, and in its own bucket, although two
\* sessions may miss and put the same name one after the other.
OneEntryPerHash ==
  \A b \in Buckets : \A i, j \in DOMAIN chain[b] :
    /\ entry[chain[b][i]].hash % Size = b
    /\ entry[chain[b][i]].hash = entry[chain[b][j]].hash => i = j

\* A hit is an answer for a name of that hash that was at most TTL old when
\* the session looked at the clock.
HitIsFresh ==
  [][\A t \in Threads : pc[t] = "get" /\ pc'[t] = "found" =>
       /\ Hash[addr'[t].host] = Hash[name[t]]
       /\ addr'[t].at + TTL >= clock[t]]_vars

\* An answer that is still good is not pushed out by another one: a put that
\* finds a live entry of its hash leaves it there.
LiveEntryStays ==
  [][\A e \in Entries :
       entry[e].expires > now /\ ~ Contains(free, e) => entry'[e] = entry[e]]_vars

\* Every lookup ends.
LookupEnds == \A t \in Threads : pc[t] = "clock" ~> pc[t] \in {"found", "failed"}
===========================================================================
