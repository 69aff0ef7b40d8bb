----------------------------- MODULE CredCache ----------------------------
(***************************************************************************)
(* The credential caches of cache.c and the sessions that read the data    *)
(* base through them.  cacheip (struct cache_ip, used by                   *)
(* socks5_connectproxy) and cacheapp (struct cache_ap, used by              *)
(* socks5_doauth) are the same table twice: open addressing, linear        *)
(* probing, the key 0 for a slot that is empty, and twice the slots when   *)
(* half of them are taken.  They differ in what a session asks and in what *)
(* of the question is the key: (ip, port) and ip in one, the user and the  *)
(* djb2 hash of its name in the other.                                     *)
(*                                                                         *)
(* Each function holds mux from its first line to its last, and is one     *)
(* step.  A value is the record of the question it answers and of the      *)
(* version of the data base it was read from.                              *)
(***************************************************************************)
EXTENDS Naturals, FiniteSets, FiniteSetsExt

CONSTANTS
  Threads,     \* the sessions
  Questions,   \* what a session asks: (ip, port), or a user's name
  Key,         \* the key of each question
  Hash,        \* the slot hash of each key: hash32, or the key itself
  InitSize,    \* the slots at the start: CACHEIP_INITSZ, CACHEAP_INITSZ
  MaxVersion,  \* bound: how often the data base changes
  MaxSize      \* bound: a larger table cannot be allocated

Keys == {Key[q] : q \in Questions}

ASSUME CredCacheAssumption ==
  /\ Questions # {}
  /\ Key \in [Questions -> Nat]
  /\ Hash \in [Keys -> Nat]
  /\ InitSize \in Nat \ {0}
  /\ MaxVersion \in Nat /\ MaxSize \in Nat

VARIABLES
  map,      \* the slots, from 0
  elements, \* how many of them are counted as taken
  version,  \* the version of the data base
  pc,       \* where each session is
  asks,     \* what each session asks
  value     \* the answer it has

vars == <<map, elements, version, pc, asks, value>>
cache == <<map, elements>>

Values == [of : Questions, version : 0 .. MaxVersion]
NoValue == [of |-> CHOOSE q \in Questions : TRUE, version |-> 0]
Empty == [key |-> 0, value |-> NoValue]
Size(m) == Cardinality(DOMAIN m)
Slots(n) == [i \in 0 .. n - 1 |-> Empty]

Init ==
  /\ map = Slots(InitSize)
  /\ elements = 0
  /\ version = 0
  /\ pc = [t \in Threads |-> "idle"]
  /\ asks = [t \in Threads |-> CHOOSE q \in Questions : TRUE]
  /\ value = [t \in Threads |-> NoValue]

Goto(t, p) == pc' = [pc EXCEPT ![t] = p]

---------------------------------------------------------------------------
(* Probing.                                                                *)

\* The i-th slot that is looked at for a key.
Slot(m, k, i) == (Hash[k] + i) % Size(m)

\* Mutant: the key of a slot is not compared.
StopsAnywhere(m, k) == 0 .. Size(m) - 1

\* Where the probe for a key may stop; it loops for ever if it may not.
Stops(m, k) == {i \in 0 .. Size(m) - 1 : m[Slot(m, k, i)].key \in {0, k}}

Probe(m, k) == Slot(m, k, Min(Stops(m, k)))

\* Mutant: a new slot is not counted.
CountsNothing(c, k, v) ==
  [c EXCEPT !.map[Probe(c.map, k)] = [key |-> k, value |-> v]]

\* The rest of cache_putip too: a slot that was empty is counted; a slot with the
\* key 0 goes on being empty.
cache_putapp_hash(c, k, v) ==
  LET id == Probe(c.map, k)
  IN  [map |-> [c.map EXCEPT ![id] = [key |-> k, value |-> v]],
       elements |-> IF c.map[id].key # 0 THEN c.elements ELSE c.elements + 1]

\* Mutant: the slots are copied to where they were, without a new probe.
ResizeInPlace(m) ==
  LET n == Size(m)
  IN  [map |-> [i \in 0 .. 2 * n - 1 |-> IF i < n THEN m[i] ELSE Empty],
       elements |-> Cardinality({i \in DOMAIN m : m[i].key # 0})]

\* The loop over the slots: temp after the first i of them, of which those that
\* are taken are put into a table of twice the size.
Resizing(m) ==
  LET temp[i \in 0 .. Size(m)] ==
        IF i = 0 THEN [map |-> Slots(2 * Size(m)), elements |-> 0]
        ELSE IF m[i - 1].key = 0 THEN temp[i - 1]
        ELSE cache_putapp_hash(temp[i - 1], m[i - 1].key, m[i - 1].value)
  IN  temp

\* Mutant: the loop over the slots ends one too early.
ResizeDropsLast(m) == Resizing(m)[Size(m) - 1]

cache_resize(m) == Resizing(m)[Size(m)]

\* Mutant: the table grows only when it is full.
Full == elements >= Size(map)

\* Half of the slots are taken.
HalfFull == elements >= Size(map) \div 2

---------------------------------------------------------------------------
(* The sessions and the data base.                                         *)

\* cache_getip, cache_getapp: the session is served, or goes to the data base.
cache_get(t) ==
  /\ pc[t] = "idle"
  /\ \E q \in Questions :
       LET k == Key[q] IN
       /\ Stops(map, k) # {}
       /\ asks' = [asks EXCEPT ![t] = q]
       /\ IF map[Probe(map, k)].key # 0
          THEN value' = [value EXCEPT ![t] = map[Probe(map, k)].value] /\ Goto(t, "served")
          ELSE UNCHANGED value /\ Goto(t, "query")
  /\ UNCHANGED <<cache, version>>

\* sqlget_proxycreds, sqlget_apppasswd: the row is there, or the session fails.
sqlget(t) ==
  /\ pc[t] = "query"
  /\ \/ value' = [value EXCEPT ![t] = [of |-> asks[t], version |-> version]] /\ Goto(t, "put")
     \/ UNCHANGED value /\ Goto(t, "failed")
  /\ UNCHANGED <<cache, version, asks>>

\* cache_putip, cache_putapp.  When the larger table cannot be allocated nothing
\* is put.
cache_put(t) ==
  /\ pc[t] = "put"
  /\ LET k == Key[asks[t]] IN
     \/ LET grown == IF HalfFull THEN cache_resize(map) ELSE [map |-> map, elements |-> elements]
            c == cache_putapp_hash(grown, k, value[t])
        IN  /\ Size(grown.map) <= MaxSize
            /\ Stops(grown.map, k) # {}
            /\ map' = c.map /\ elements' = c.elements
     \/ HalfFull /\ UNCHANGED cache
  /\ Goto(t, "served")
  /\ UNCHANGED <<version, asks, value>>

\* The session ends, its locals with it; its thread takes another one.
Finish(t) ==
  /\ pc[t] \in {"served", "failed"}
  /\ Goto(t, "idle")
  /\ asks' = [asks EXCEPT ![t] = CHOOSE q \in Questions : TRUE]
  /\ value' = [value EXCEPT ![t] = NoValue]
  /\ UNCHANGED <<cache, version>>

\* The rows change: the daemon of README:9.
DbChanges ==
  /\ version < MaxVersion
  /\ version' = version + 1
  /\ UNCHANGED <<cache, pc, asks, value>>

Next ==
  \/ \E t \in Threads : cache_get(t) \/ sqlget(t) \/ cache_put(t) \/ Finish(t)
  \/ DbChanges

Spec == Init /\ [][Next]_vars

---------------------------------------------------------------------------
(* Properties.                                                             *)

\* The values every variable can take.
TypeOK ==
  /\ map \in [0 .. Size(map) - 1 -> [key : Nat, value : Values]]
  /\ elements \in 0 .. Size(map) \div 2
  /\ version \in 0 .. MaxVersion
  /\ pc \in [Threads -> {"idle", "query", "put", "served", "failed"}]
  /\ asks \in [Threads -> Questions]
  /\ value \in [Threads -> Values]

Taken(m) == {i \in DOMAIN m : m[i].key # 0}

\* What a lookup of a key finds in a table: nothing, or one value.
Found(m, k) ==
  IF Stops(m, k) = {} \/ m[Probe(m, k)].key = 0 THEN {} ELSE {m[Probe(m, k)].value}

\* The count is never behind the slots that are taken, and one slot is always
\* left: no probe of any key, however the keys collide and however often the
\* key 0 is put or an allocation fails, goes round for ever with mux held.
ProbesEnd ==
  /\ Cardinality(Taken(map)) <= elements
  /\ \A k \in Keys : Stops(map, k) # {}

\* Every key that is in the table is found where the probe looks for it, and is
\* there once, also after the slots have moved to a larger table.
KeysAreFound ==
  \A i \in Taken(map) :
    /\ Found(map, map[i].key) = {map[i].value}
    /\ \A j \in Taken(map) : map[i].key = map[j].key => i = j

\* A session that is served, by the cache or by the data base, has an answer to a
\* question with the key of its own.
AnswerHasKey ==
  \A t \in Threads : pc[t] = "served" => Key[value[t].of] = Key[asks[t]]

\* The cache is a CredStore: an answer that was put is what every later lookup of
\* its key finds, until another one is put under that key, although puts of other
\* keys may move every slot; lookups of other keys do not find it.
Store == INSTANCE CredStore WITH
  known <- [k \in Keys |-> Found(map, k)]

ImplementsStore == Store!Spec

---------------------------------------------------------------------------
(* What a comment says and the code does not do.                           *)

\* db.c:155 "get user/passwd for the given (ip, port)": the credentials a session
\* is served with are those of the ip and port it asked for.
CredsAreForAddress ==
  \A t \in Threads : pc[t] = "served" => value[t].of = asks[t]
===========================================================================
