-------------------------- MODULE CredCacheProofs --------------------------
(***************************************************************************)
(* The credential caches, for any number of sessions, any questions, keys  *)
(* and hashes, any size at the start and any limit of memory.              *)
(*                                                                         *)
(* A key is found because its probe stops at the slot that has it          *)
(* (Settled); a probe stops because a slot is left (ProbeStops), and one   *)
(* is, because the count is never behind the slots that are taken and is   *)
(* at most half of them (TableInv).  cache_putapp_hash preserves this and  *)
(* replaces what has its key; cache_resize is a loop of it into a blank    *)
(* table, so that what the table has stays what it was (Resized).          *)
(***************************************************************************)
EXTENDS CredCache, FiniteSetTheorems, WellFoundedInduction, TLAPS

---------------------------------------------------------------------------
(* Numbers.                                                                *)

\* Every set of numbers that is not empty has a least one, which Min is.
LEMMA LeastNat ==
  ASSUME NEW S, S \subseteq Nat, S # {}
  PROVE  \E x \in S : \A y \in S : x <= y
<1>1. PICK x \in S : \A y \in S : ~ (<<y, x>> \in OpToRel(<, Nat))
  <2>1. IsWellFoundedOn(OpToRel(<, Nat), Nat)
    BY NatLessThanWellFounded
  <2>2. QED
    BY <2>1, WFMin
<1>2. \A y \in S : ~ (y < x)
  BY <1>1 DEF OpToRel
<1>3. QED
  BY <1>2

LEMMA MinProps ==
  ASSUME NEW S, S \subseteq Nat, S # {}
  PROVE  Min(S) \in S /\ \A y \in S : Min(S) <= y
BY LeastNat DEF Min

\* Taking others away leaves the least one the least.
LEMMA MinOfSubset ==
  ASSUME NEW S, S \subseteq Nat, NEW T, T \subseteq S, S # {}, Min(S) \in T
  PROVE  T # {} /\ Min(T) = Min(S)
<1>1. Min(S) \in S /\ \A y \in S : Min(S) <= y
  BY MinProps
<1>2. T # {} /\ T \subseteq Nat
  OBVIOUS
<1>3. Min(T) \in T /\ \A y \in T : Min(T) <= y
  BY <1>2, MinProps
<1>4. Min(T) <= Min(S) /\ Min(S) <= Min(T) /\ Min(T) \in Nat /\ Min(S) \in Nat
  BY <1>1, <1>3
<1>5. QED
  BY <1>2, <1>4

\* A remainder is the only one.
LEMMA Remainder ==
  ASSUME NEW n \in Nat \ {0}, NEW a \in Nat, NEW q \in Nat, NEW r \in 0 .. n - 1, a = n * q + r
  PROVE  a % n = r
<1> DEFINE p == a \div n
           s == a % n
<1>1. p \in Nat /\ s \in 0 .. n - 1 /\ a = n * p + s
  OBVIOUS
<1>2. n * (p - q) = r - s
  BY <1>1
<1> HIDE DEF p, s
<1>3. CASE p - q >= 1
  <2>1. n * (p - q) >= n
    BY <1>1, <1>3
  <2>2. QED
    BY <1>1, <1>2, <2>1
<1>4. CASE p - q <= -1
  <2>1. n * (p - q) <= -n
    BY <1>1, <1>4
  <2>2. QED
    BY <1>1, <1>2, <2>1
<1>5. CASE p = q
  BY <1>1, <1>2, <1>5 DEF s
<1>6. QED
  BY <1>1, <1>3, <1>4, <1>5

\* A probe comes to every slot.
LEMMA ProbeIsRound ==
  ASSUME NEW n \in Nat \ {0}, NEW h \in Nat, NEW j \in 0 .. n - 1
  PROVE  \E i \in 0 .. n - 1 : (h + i) % n = j
<1> DEFINE q == h \div n
           r == h % n
<1>1. q \in Nat /\ r \in 0 .. n - 1 /\ h = n * q + r
  OBVIOUS
<1> HIDE DEF q, r
<1>2. CASE j >= r
  <2>1. j - r \in 0 .. n - 1 /\ h + (j - r) = n * q + j /\ h + (j - r) \in Nat
    BY <1>1, <1>2
  <2>2. (h + (j - r)) % n = j
    BY <1>1, <2>1, Remainder
  <2>3. QED
    BY <2>1, <2>2
<1>3. CASE j < r
  <2>1. j + n - r \in 0 .. n - 1 /\ h + (j + n - r) = n * (q + 1) + j /\ h + (j + n - r) \in Nat
    BY <1>1, <1>3
  <2>2. (h + (j + n - r)) % n = j
    BY <1>1, <2>1, Remainder
  <2>3. QED
    BY <2>1, <2>2
<1>4. QED
  BY <1>1, <1>2, <1>3

---------------------------------------------------------------------------
(* A table: c is a record of the fields map and elements.                  *)

Slotted == [key : Keys \cup {0}, value : Values]

\* Every key that is in the table is where its probe stops.
Settled(m) == \A i \in Taken(m) : Stops(m, m[i].key) # {} /\ Probe(m, m[i].key) = i

\* A table of n slots whose count is not behind.
TableOK(c, n) ==
  /\ c.map \in [0 .. n - 1 -> Slotted]
  /\ c.elements \in Nat
  /\ Cardinality(Taken(c.map)) <= c.elements
  /\ Settled(c.map)

\* What is in a table.
Content(m) == {m[i] : i \in Taken(m)}

LEMMA SizeOf ==
  ASSUME NEW n \in Nat, NEW m, DOMAIN m = 0 .. n - 1
  PROVE  Size(m) = n /\ IsFiniteSet(Taken(m)) /\ Cardinality(Taken(m)) \in Nat
<1>1. IsFiniteSet(0 .. n - 1) /\ Cardinality(0 .. n - 1) = n
  BY FS_Interval
<1>2. Taken(m) \subseteq 0 .. n - 1
  BY DEF Taken
<1>3. QED
  BY <1>1, <1>2, FS_Subset, FS_CardinalityType DEF Size

LEMMA KeysAreNumbers == Keys \subseteq Nat
BY CredCacheAssumption DEF CredCacheAssumption, Keys

LEMMA SlotsAre ==
  ASSUME NEW n \in Nat \ {0}, NEW m, m \in [0 .. n - 1 -> Slotted], NEW k \in Keys
  PROVE  /\ Size(m) = n
         /\ Stops(m, k) \subseteq 0 .. n - 1
         /\ \A i \in Nat : Slot(m, k, i) \in 0 .. n - 1
<1>1. Size(m) = n
  BY SizeOf
<1>2. Hash[k] \in Nat
  BY CredCacheAssumption DEF CredCacheAssumption
<1>3. \A i \in Nat : (Hash[k] + i) % n \in 0 .. n - 1
  BY <1>2
<1>4. QED
  BY <1>1, <1>3 DEF Slot, Stops

\* A probe stops when a slot is left, and it stops at an empty slot or at its key.
LEMMA ProbeStops ==
  ASSUME NEW n \in Nat \ {0}, NEW m, m \in [0 .. n - 1 -> Slotted], NEW k \in Keys,
         Cardinality(Taken(m)) < n
  PROVE  Stops(m, k) # {}
<1>1. Taken(m) # 0 .. n - 1
  BY FS_Interval
<1>2. PICK j \in 0 .. n - 1 : m[j].key = 0
  BY <1>1 DEF Taken
<1>3. Hash[k] \in Nat
  BY CredCacheAssumption DEF CredCacheAssumption
<1>4. PICK i \in 0 .. n - 1 : (Hash[k] + i) % n = j
  BY <1>3, ProbeIsRound
<1>5. Size(m) = n
  BY SlotsAre
<1>6. i \in Stops(m, k)
  BY <1>2, <1>4, <1>5 DEF Stops, Slot
<1>7. QED
  BY <1>6

LEMMA ProbeAt ==
  ASSUME NEW n \in Nat \ {0}, NEW m, m \in [0 .. n - 1 -> Slotted], NEW k \in Keys,
         Stops(m, k) # {}
  PROVE  /\ Min(Stops(m, k)) \in Stops(m, k)
         /\ Probe(m, k) \in 0 .. n - 1
         /\ m[Probe(m, k)].key \in {0, k}
<1>1. Stops(m, k) \subseteq Nat
  BY SlotsAre
<1>2. Min(Stops(m, k)) \in Stops(m, k)
  BY <1>1, MinProps
<1>3. Min(Stops(m, k)) \in Nat
  BY <1>1, <1>2
<1>4. QED
  BY <1>2, <1>3, SlotsAre DEF Probe, Stops

\* What a lookup finds is what is in the table with that key.
LEMMA FoundIsContent ==
  ASSUME NEW n \in Nat \ {0}, NEW m, m \in [0 .. n - 1 -> Slotted], Settled(m),
         NEW k \in Keys \ {0}
  PROVE  /\ \A s \in Content(m) : s.key = k => Found(m, k) = {s.value}
         /\ (\A s \in Content(m) : s.key # k) => Found(m, k) = {}
<1>0. DOMAIN m = 0 .. n - 1
  OBVIOUS
<1>1. ASSUME NEW i \in Taken(m), m[i].key = k PROVE Found(m, k) = {m[i].value}
  <2>1. Stops(m, k) # {} /\ Probe(m, k) = i /\ m[i].key # 0
    BY <1>1 DEF Settled, Taken
  <2>2. QED
    BY <2>1 DEF Found
<1>2. ASSUME \A i \in Taken(m) : m[i].key # k, Stops(m, k) # {} PROVE m[Probe(m, k)].key = 0
  <2>1. Probe(m, k) \in 0 .. n - 1 /\ m[Probe(m, k)].key \in {0, k}
    BY <1>2, ProbeAt
  <2>2. QED
    BY <1>0, <1>2, <2>1 DEF Taken
<1>3. QED
  BY <1>1, <1>2 DEF Content, Found

---------------------------------------------------------------------------
(* cache_putapp_hash.                                                      *)

\* A slot that is filled.
Filled(k, v) == [key |-> k, value |-> v]

LEMMA FilledProps ==
  ASSUME NEW k \in Keys, NEW v \in Values
  PROVE  Filled(k, v) \in Slotted /\ Filled(k, v).key = k /\ Filled(k, v).value = v
BY DEF Filled, Slotted

\* Only the slot where the probe stops changes.
LEMMA PutShape ==
  ASSUME NEW n \in Nat \ {0}, NEW c, c.map \in [0 .. n - 1 -> Slotted],
         NEW k \in Keys, NEW v \in Values, Stops(c.map, k) # {}
  PROVE  /\ Probe(c.map, k) \in 0 .. n - 1 /\ c.map[Probe(c.map, k)].key \in {0, k}
         /\ cache_putapp_hash(c, k, v).map \in [0 .. n - 1 -> Slotted]
<1> DEFINE d == cache_putapp_hash(c, k, v)
           id == Probe(c.map, k)
<1>1. id \in 0 .. n - 1 /\ c.map[id].key \in {0, k}
  BY ProbeAt
<1>2. Filled(k, v) \in Slotted
  BY FilledProps
<1>3. d.map = [c.map EXCEPT ![id] = Filled(k, v)]
  BY DEF cache_putapp_hash, Filled
<1> HIDE DEF d, id
<1>4. d.map \in [0 .. n - 1 -> Slotted]
  BY <1>1, <1>2, <1>3
<1>5. QED
  BY <1>1, <1>4 DEF d, id

\* No other key's probe stops earlier, and none that has its slot stops later.
LEMMA PutStops ==
  ASSUME NEW n \in Nat \ {0}, NEW c, c.map \in [0 .. n - 1 -> Slotted],
         NEW k \in Keys, NEW v \in Values, Stops(c.map, k) # {},
         NEW x \in Keys
  PROVE  /\ Stops(cache_putapp_hash(c, k, v).map, x) \subseteq Stops(c.map, x)
         /\ \A i \in Stops(c.map, x) :
              i \in Stops(cache_putapp_hash(c, k, v).map, x) \/ (Slot(c.map, x, i) = Probe(c.map, k) /\ x # k)
         /\ Size(cache_putapp_hash(c, k, v).map) = Size(c.map)
<1> DEFINE m == c.map
           id == Probe(m, k)
           d == cache_putapp_hash(c, k, v).map
<1>a. m \in [0 .. n - 1 -> Slotted] /\ d \in [0 .. n - 1 -> Slotted]
      /\ id \in 0 .. n - 1 /\ m[id].key \in {0, k}
  BY PutShape
<1>b. d = [m EXCEPT ![id] = Filled(k, v)]
  BY DEF cache_putapp_hash, Filled
<1> HIDE DEF m, id, d
<1>0. d[id].key = k /\ \A j \in 0 .. n - 1 : j # id => d[j].key = m[j].key
  BY <1>a, <1>b, FilledProps
<1>1. Size(d) = n /\ Size(m) = n
  BY <1>a, SlotsAre
<1>2. \A i \in Nat : Slot(d, x, i) = Slot(m, x, i) /\ Slot(m, x, i) \in 0 .. n - 1
  BY <1>1, <1>a, SlotsAre DEF Slot
<1>3. \A i \in 0 .. n - 1 : i \in Nat
  OBVIOUS
<1>4. Stops(d, x) = {i \in 0 .. n - 1 : d[Slot(m, x, i)].key \in {0, x}}
  BY <1>1, <1>2, <1>3 DEF Stops
<1>5. Stops(m, x) = {i \in 0 .. n - 1 : m[Slot(m, x, i)].key \in {0, x}}
  BY <1>1 DEF Stops
<1>6. ASSUME NEW i \in 0 .. n - 1
      PROVE  /\ i \in Stops(d, x) => i \in Stops(m, x)
             /\ i \in Stops(m, x) /\ i \notin Stops(d, x) => Slot(m, x, i) = id /\ x # k
  <2> DEFINE j == Slot(m, x, i)
  <2>1. j \in 0 .. n - 1
    BY <1>2, <1>3
  <2> HIDE DEF j
  <2>2. d[j].key = IF j = id THEN k ELSE m[j].key
    BY <1>0, <2>1
  <2>3. i \in Stops(d, x) <=> d[j].key \in {0, x}
    BY <1>4 DEF j
  <2>4. i \in Stops(m, x) <=> m[j].key \in {0, x}
    BY <1>5 DEF j
  <2>5. QED
    BY <1>a, <2>2, <2>3, <2>4 DEF j
<1>7. /\ Stops(d, x) \subseteq Stops(m, x)
      /\ \A i \in Stops(m, x) : i \in Stops(d, x) \/ (Slot(m, x, i) = id /\ x # k)
  BY <1>4, <1>5, <1>6
<1>8. QED
  BY <1>1, <1>7 DEF m, id, d

LEMMA PutSettles ==
  ASSUME NEW n \in Nat \ {0}, NEW c, TableOK(c, n), NEW k \in Keys, NEW v \in Values,
         Stops(c.map, k) # {}
  PROVE  Settled(cache_putapp_hash(c, k, v).map)
<1> DEFINE m == c.map
           id == Probe(m, k)
           d == cache_putapp_hash(c, k, v).map
<1>1. m \in [0 .. n - 1 -> Slotted] /\ Settled(m)
  BY DEF TableOK
<1>2. d \in [0 .. n - 1 -> Slotted] /\ id \in 0 .. n - 1 /\ m[id].key \in {0, k}
  BY <1>1, PutShape
<1>3. d = [m EXCEPT ![id] = Filled(k, v)]
  BY DEF cache_putapp_hash, Filled
<1>5. Stops(m, k) # {}
  OBVIOUS
<1> HIDE DEF m, id, d
<1>4. d[id].key = k /\ \A j \in 0 .. n - 1 : j # id => d[j].key = m[j].key
  BY <1>1, <1>2, <1>3, FilledProps
<1>6. SUFFICES ASSUME NEW i \in Taken(d) PROVE Stops(d, d[i].key) # {} /\ Probe(d, d[i].key) = i
  BY DEF Settled, d
<1> DEFINE x == d[i].key
           f == Min(Stops(m, x))
<1>7. i \in 0 .. n - 1 /\ x # 0 /\ x \in Keys
  <2>1. i \in 0 .. n - 1 /\ x # 0
    BY <1>2 DEF Taken
  <2>2. d[i] \in Slotted
    BY <1>2, <2>1
  <2>3. QED
    BY <2>1, <2>2 DEF Slotted
<1>8. Stops(m, x) # {} /\ Probe(m, x) = i /\ (i = id => x = k)
  <2>1. CASE i = id
    <3>1. x = k
      BY <1>4, <1>7, <2>1
    <3>2. QED
      BY <1>5, <2>1, <3>1 DEF id
  <2>2. CASE i # id
    <3>1. m[i].key = x
      BY <1>4, <1>7, <2>2
    <3>2. DOMAIN m = 0 .. n - 1
      BY <1>1
    <3>3. i \in Taken(m)
      BY <1>7, <3>1, <3>2 DEF Taken
    <3>4. Stops(m, x) # {} /\ Probe(m, x) = i
      BY <1>1, <3>1, <3>3 DEF Settled
    <3>5. QED
      BY <2>2, <3>4
  <2>3. QED
    BY <2>1, <2>2
<1> HIDE DEF x
<1>9. Stops(m, x) \subseteq Nat
  <2>1. Stops(m, x) \subseteq 0 .. n - 1
    BY <1>1, <1>7, SlotsAre
  <2>2. QED
    BY <2>1
<1>10. f \in Stops(m, x) /\ f \in Nat
  BY <1>8, <1>9, MinProps
<1>11. /\ Stops(d, x) \subseteq Stops(m, x)
       /\ \A j \in Stops(m, x) : j \in Stops(d, x) \/ (Slot(m, x, j) = id /\ x # k)
       /\ Size(d) = Size(m)
  BY <1>1, <1>5, <1>7, PutStops, Zenon DEF m, id, d
<1>12. Slot(m, x, f) = i
  BY <1>8 DEF Probe
<1>13. f \in Stops(d, x)
  BY <1>8, <1>10, <1>11, <1>12
<1>14. Stops(d, x) # {} /\ Min(Stops(d, x)) = f
  BY <1>8, <1>9, <1>11, <1>13, MinOfSubset
<1>15. Probe(d, x) = i
  BY <1>10, <1>11, <1>12, <1>14 DEF Probe, Slot
<1>16. QED
  BY <1>14, <1>15 DEF x

\* The slots S, with one for the key k; a slot with the key 0 is none.
Replaced(S, k, v) == IF k = 0 THEN S ELSE {s \in S : s.key # k} \cup {Filled(k, v)}

\* A put replaces what is there with its key, and nothing else.
LEMMA PutContent ==
  ASSUME NEW n \in Nat \ {0}, NEW c, TableOK(c, n), NEW k \in Keys, NEW v \in Values,
         Stops(c.map, k) # {}
  PROVE  Content(cache_putapp_hash(c, k, v).map) = Replaced(Content(c.map), k, v)
<1> DEFINE m == c.map
           id == Probe(m, k)
           d == cache_putapp_hash(c, k, v).map
           new == Filled(k, v)
<1>0. m \in [0 .. n - 1 -> Slotted]
  BY DEF TableOK
<1>1. d \in [0 .. n - 1 -> Slotted] /\ id \in 0 .. n - 1 /\ m[id].key \in {0, k}
  BY <1>0, PutShape
<1>a. d = [m EXCEPT ![id] = new]
  BY DEF cache_putapp_hash, Filled
<1>2. \A i \in Taken(m) : m[i].key = k => i = id
  BY DEF TableOK, Settled
<1>3. new.key = k
  BY FilledProps
<1> HIDE DEF m, id, d, new
<1>4. d[id] = new /\ \A i \in 0 .. n - 1 : i # id => d[i] = m[i]
  BY <1>0, <1>1, <1>a
<1>b. DOMAIN m = 0 .. n - 1 /\ DOMAIN d = 0 .. n - 1
  BY <1>0, <1>1
<1>c. \A i \in 0 .. n - 1 : i \in Taken(m) <=> m[i].key # 0
  BY <1>b DEF Taken
<1>d. \A i \in 0 .. n - 1 : i \in Taken(d) <=> d[i].key # 0
  BY <1>b DEF Taken
<1>e. Taken(m) \subseteq 0 .. n - 1 /\ Taken(d) \subseteq 0 .. n - 1
  BY <1>b DEF Taken
<1>5. CASE k = 0
  <2>1. Taken(d) = Taken(m) /\ \A i \in Taken(d) : d[i] = m[i]
    BY <1>1, <1>3, <1>4, <1>5, <1>c, <1>d, <1>e
  <2>2. QED
    BY <1>5, <2>1 DEF Content, Replaced, d, m
<1>6. CASE k # 0
  <2>1. Taken(d) = Taken(m) \cup {id}
    BY <1>1, <1>3, <1>4, <1>6, <1>c, <1>d, <1>e
  <2>2. \A i \in Taken(m) \ {id} : i \in 0 .. n - 1 /\ d[i] = m[i] /\ m[i].key # k
    BY <1>1, <1>2, <1>4, <1>e
  <2>3. d[id] = new /\ (id \in Taken(m) => m[id].key = k)
    BY <1>1, <1>4 DEF Taken
  <2>4. Content(d) = {s \in Content(m) : s.key # k} \cup {new}
    BY <2>1, <2>2, <2>3 DEF Content
  <2>5. QED
    BY <1>6, <2>4 DEF d, m, new, Replaced
<1>7. QED
  BY <1>5, <1>6

LEMMA PutTable ==
  ASSUME NEW n \in Nat \ {0}, NEW c, TableOK(c, n), NEW k \in Keys, NEW v \in Values,
         Stops(c.map, k) # {}
  PROVE  LET d == cache_putapp_hash(c, k, v)
         IN  TableOK(d, n) /\ d.elements \in {c.elements, c.elements + 1}
<1> DEFINE m == c.map
           id == Probe(m, k)
           d == cache_putapp_hash(c, k, v)
<1>0. m \in [0 .. n - 1 -> Slotted]
  BY DEF TableOK
<1>1. d.map \in [0 .. n - 1 -> Slotted] /\ id \in 0 .. n - 1
  BY <1>0, PutShape
<1>a. d.map = [m EXCEPT ![id] = Filled(k, v)]
  BY DEF cache_putapp_hash, Filled
<1>b. d.elements = IF m[id].key # 0 THEN c.elements ELSE c.elements + 1
  BY DEF cache_putapp_hash
<1>c. DOMAIN m = 0 .. n - 1 /\ DOMAIN d.map = 0 .. n - 1
  BY <1>0, <1>1
<1>2. c.elements \in Nat /\ Cardinality(Taken(m)) <= c.elements
  BY DEF TableOK
<1>3. Settled(d.map)
  BY PutSettles
<1> HIDE DEF m, id, d
<1>4. IsFiniteSet(Taken(m)) /\ Cardinality(Taken(m)) \in Nat
  BY <1>c, SizeOf
<1>5. Cardinality(Taken(d.map)) <= d.elements
  <2>1. CASE m[id].key # 0
    <3>1. id \in Taken(m)
      BY <1>1, <1>c, <2>1 DEF Taken
    <3>2. Taken(d.map) \subseteq Taken(m)
      BY <1>a, <1>c, <3>1 DEF Taken
    <3>3. Cardinality(Taken(d.map)) <= Cardinality(Taken(m)) /\ Cardinality(Taken(d.map)) \in Nat
      BY <1>4, <3>2, FS_Subset, FS_CardinalityType
    <3>4. QED
      BY <1>b, <1>2, <1>4, <2>1, <3>3
  <2>2. CASE m[id].key = 0
    <3>1. Taken(d.map) \subseteq Taken(m) \cup {id}
      BY <1>a, <1>c DEF Taken
    <3>2. /\ IsFiniteSet(Taken(m) \cup {id})
          /\ Cardinality(Taken(m) \cup {id}) \in {Cardinality(Taken(m)), Cardinality(Taken(m)) + 1}
      BY <1>4, FS_AddElement
    <3>3. /\ Cardinality(Taken(d.map)) <= Cardinality(Taken(m) \cup {id})
          /\ Cardinality(Taken(d.map)) \in Nat
      BY <3>1, <3>2, FS_Subset, FS_CardinalityType
    <3>4. QED
      BY <1>b, <1>2, <1>4, <2>2, <3>2, <3>3
  <2>3. QED
    BY <2>1, <2>2
<1>6. QED
  BY <1>1, <1>b, <1>2, <1>3, <1>5 DEF TableOK, d, m

---------------------------------------------------------------------------
(* cache_resize.                                                           *)

\* What the loop does with a slot.
After(c, s) == IF s.key = 0 THEN c ELSE cache_putapp_hash(c, s.key, s.value)

\* The loop up to its k-th slot, from a table of 2 * n slots.
Loop(f, m, n, k) ==
  f = [i \in 0 .. k |-> IF i = 0 THEN [map |-> Slots(2 * n), elements |-> 0]
                        ELSE After(f[i - 1], m[i - 1])]

\* The loop ends, wherever it is to end: were there a first k that it does not
\* come to, it would come to k - 1 and take one step more.
LEMMA LoopEnds ==
  ASSUME NEW m, NEW n, NEW k \in Nat
  PROVE  \E f : Loop(f, m, n, k)
<1> DEFINE Bad == {l \in Nat : ~ \E f : Loop(f, m, n, l)}
<1>1. SUFFICES ASSUME Bad # {} PROVE FALSE
  OBVIOUS
<1>2. PICK l \in Bad : \A b \in Bad : l <= b
  <2>1. Bad \subseteq Nat
    OBVIOUS
  <2>2. QED
    BY <1>1, <2>1, LeastNat
<1>3. CASE l = 0
  <2> DEFINE f == [i \in 0 .. 0 |-> [map |-> Slots(2 * n), elements |-> 0]]
  <2>1. Loop(f, m, n, 0)
    BY DEF Loop
  <2>2. QED
    BY <1>2, <1>3, <2>1
<1>4. CASE l # 0
  <2>1. l - 1 \in Nat /\ l - 1 \notin Bad
    BY <1>2, <1>4
  <2>2. PICK f : Loop(f, m, n, l - 1)
    BY <2>1
  <2> DEFINE g == [i \in 0 .. l |-> IF i = l THEN After(f[l - 1], m[l - 1]) ELSE f[i]]
  <2>3. ASSUME NEW i \in 0 .. l
        PROVE  g[i] = IF i = 0 THEN [map |-> Slots(2 * n), elements |-> 0]
                      ELSE After(g[i - 1], m[i - 1])
    <3>1. CASE i = l
      <4>1. g[i] = After(f[l - 1], m[l - 1]) /\ g[l - 1] = f[l - 1]
        BY <1>2, <1>4, <3>1
      <4>2. QED
        BY <1>4, <3>1, <4>1
    <3>2. CASE i # l /\ i # 0
      <4>1. i \in 0 .. l - 1 /\ i - 1 \in 0 .. l /\ i - 1 # l
        BY <1>2, <3>2
      <4>2. f[i] = After(f[i - 1], m[i - 1])
        BY <2>2, <3>2, <4>1 DEF Loop
      <4>3. QED
        BY <3>2, <4>1, <4>2
    <3>3. CASE i # l /\ i = 0
      <4>1. 0 \in 0 .. l - 1
        BY <1>2, <3>3
      <4>2. f[0] = [map |-> Slots(2 * n), elements |-> 0]
        BY <2>2, <4>1 DEF Loop
      <4>3. QED
        BY <3>3, <4>2
    <3>4. QED
      BY <3>1, <3>2, <3>3
  <2>4. g = [i \in 0 .. l |-> g[i]]
    OBVIOUS
  <2>5. Loop(g, m, n, l)
    BY <2>3, <2>4 DEF Loop
  <2>6. QED
    BY <1>2, <2>5
<1>5. QED
  BY <1>3, <1>4

Temp(m, i) == Resizing(m)[i]

LEMMA ResizingIsLoop ==
  ASSUME NEW m, NEW n \in Nat, Size(m) = n
  PROVE  /\ cache_resize(m) = Temp(m, n)
         /\ Temp(m, 0) = [map |-> Slots(2 * n), elements |-> 0]
         /\ \A i \in 1 .. n : Temp(m, i) = After(Temp(m, i - 1), m[i - 1])
<1> DEFINE g == Resizing(m)
<1>1. g = CHOOSE f : Loop(f, m, n, n)
  BY DEF Resizing, Loop, After
<1>2. Loop(g, m, n, n)
  BY <1>1, LoopEnds
<1> HIDE DEF g
<1>3. \A i \in 0 .. n : g[i] = IF i = 0 THEN [map |-> Slots(2 * n), elements |-> 0]
                               ELSE After(g[i - 1], m[i - 1])
  BY <1>2 DEF Loop
<1>4. g[0] = [map |-> Slots(2 * n), elements |-> 0]
  BY <1>3
<1>5. ASSUME NEW i \in 1 .. n PROVE g[i] = After(g[i - 1], m[i - 1])
  <2>1. i \in 0 .. n /\ i # 0
    OBVIOUS
  <2>2. QED
    BY <1>3, <2>1
<1>6. QED
  BY <1>4, <1>5 DEF Temp, cache_resize, g

\* The first i slots that are taken.
Before(m, i) == {j \in Taken(m) : j < i}

\* The new table has what the first i slots have, and counts no more.
Moved(m, n, c, i) ==
  /\ TableOK(c, 2 * n)
  /\ c.elements <= Cardinality(Before(m, i))
  /\ Content(c.map) = {m[j] : j \in Before(m, i)}

LEMMA BlankTable ==
  ASSUME NEW n \in Nat, NEW c, c = [map |-> Slots(n), elements |-> 0]
  PROVE  TableOK(c, n) /\ Taken(c.map) = {} /\ Content(c.map) = {}
<1>1. c.map = [i \in 0 .. n - 1 |-> Empty] /\ c.elements = 0
  BY DEF Slots
<1>2. Empty \in Slotted /\ Empty.key = 0
  <2>1. (CHOOSE q \in Questions : TRUE) \in Questions /\ 0 \in 0 .. MaxVersion
    BY CredCacheAssumption DEF CredCacheAssumption
  <2>2. QED
    BY <2>1 DEF Empty, Slotted, NoValue, Values
<1>3. Taken(c.map) = {}
  BY <1>1, <1>2 DEF Taken
<1>4. c.map \in [0 .. n - 1 -> Slotted]
  BY <1>1, <1>2
<1>5. QED
  BY <1>1, <1>3, <1>4, FS_EmptySet DEF TableOK, Settled, Content

LEMMA MoveOne ==
  ASSUME NEW n \in Nat \ {0}, NEW m \in [0 .. n - 1 -> Slotted], Settled(m),
         NEW i \in 1 .. n, NEW c, Moved(m, n, c, i - 1)
  PROVE  Moved(m, n, After(c, m[i - 1]), i)
<1> DEFINE j == i - 1
           k == m[j].key
           v == m[j].value
           d == cache_putapp_hash(c, k, v)
<1>1. j \in 0 .. n - 1 /\ j \in Nat
  OBVIOUS
<1>2. DOMAIN m = 0 .. n - 1 /\ m[j] \in Slotted
  BY <1>1
<1>3. k \in Keys \cup {0} /\ v \in Values /\ m[j] = Filled(k, v)
  BY <1>2 DEF Slotted, Filled
<1>4. Taken(m) \subseteq 0 .. n - 1 /\ IsFiniteSet(Taken(m)) /\ (j \in Taken(m) <=> k # 0)
  BY <1>1, <1>2, SizeOf DEF Taken
<1>5. \A l \in Taken(m) : l < i <=> l < j \/ l = j
  BY <1>1, <1>4
<1>6. TableOK(c, 2 * n) /\ c.elements <= Cardinality(Before(m, j))
      /\ Content(c.map) = {m[l] : l \in Before(m, j)}
  BY DEF Moved
<1>7. Before(m, j) \subseteq Taken(m) /\ IsFiniteSet(Before(m, j)) /\ Cardinality(Before(m, j)) \in Nat
  BY <1>4, FS_Subset, FS_CardinalityType DEF Before
<1>8. Cardinality(Before(m, j)) <= n
  <2>1. IsFiniteSet(0 .. n - 1) /\ Cardinality(0 .. n - 1) = n
    BY FS_Interval
  <2>2. Before(m, j) \subseteq 0 .. n - 1
    BY <1>4, <1>7
  <2>3. QED
    BY <2>1, <2>2, FS_Subset
<1>9. CASE k = 0
  <2>1. Before(m, i) = Before(m, j)
    BY <1>4, <1>5, <1>9 DEF Before
  <2>2. After(c, m[j]) = c
    BY <1>9 DEF After
  <2>3. QED
    BY <1>6, <2>1, <2>2 DEF Moved
<1>10. CASE k # 0
  <2>1. Before(m, i) = Before(m, j) \cup {j}
    BY <1>1, <1>4, <1>5, <1>10 DEF Before
  <2>2. j \notin Before(m, j)
    BY <1>1 DEF Before
  <2>3. Cardinality(Before(m, i)) = Cardinality(Before(m, j)) + 1
    BY <1>7, <2>1, <2>2, FS_AddElement
  <2>4. After(c, m[j]) = d
    BY <1>10 DEF After
  <2>5. k \in Keys /\ 2 * n \in Nat \ {0}
    BY <1>3, <1>10
  <2>6. c.map \in [0 .. 2 * n - 1 -> Slotted] /\ c.elements \in Nat /\ Cardinality(Taken(c.map)) <= c.elements
    BY <1>6 DEF TableOK
  <2>7. Cardinality(Taken(c.map)) \in Nat
    <3>1. DOMAIN c.map = 0 .. 2 * n - 1
      BY <2>6
    <3>2. QED
      BY <2>5, <3>1, SizeOf
  <2>8. Cardinality(Taken(c.map)) < 2 * n
    BY <1>6, <1>7, <1>8, <2>6, <2>7
  <2>9. Stops(c.map, k) # {}
    BY <2>5, <2>6, <2>8, ProbeStops
  <2> HIDE DEF j, k, v
  <2>10. TableOK(d, 2 * n) /\ d.elements \in {c.elements, c.elements + 1}
    BY <1>3, <1>6, <2>5, <2>9, PutTable
  <2>11. Content(d.map) = Replaced(Content(c.map), k, v)
    BY <1>3, <1>6, <2>5, <2>9, PutContent
  <2>12. \A l \in Before(m, j) : m[l].key # k
    <3>1. SUFFICES ASSUME NEW l \in Before(m, j), m[l].key = k PROVE FALSE
      OBVIOUS
    <3>2. l \in Taken(m) /\ j \in Taken(m) /\ m[j].key = k
      BY <1>4, <1>7, <1>10 DEF k
    <3>3. l = j
      BY <3>1, <3>2 DEF Settled
    <3>4. QED
      BY <2>2, <3>3
  <2>13. Content(d.map) = {m[l] : l \in Before(m, i)}
    BY <1>3, <1>6, <1>10, <2>1, <2>11, <2>12 DEF Replaced
  <2>14. d.elements <= Cardinality(Before(m, i))
    BY <1>6, <1>7, <2>3, <2>6, <2>10
  <2>15. QED
    BY <2>4, <2>10, <2>13, <2>14 DEF Moved, j
<1>11. QED
  BY <1>9, <1>10

\* A table that has been resized has what it had, in twice the slots.
LEMMA Resized ==
  ASSUME NEW n \in Nat \ {0}, NEW m \in [0 .. n - 1 -> Slotted], Settled(m)
  PROVE  /\ TableOK(cache_resize(m), 2 * n)
         /\ cache_resize(m).elements <= Cardinality(Taken(m))
         /\ Content(cache_resize(m).map) = Content(m)
<1>1. Size(m) = n
  BY SizeOf
<1>2. /\ cache_resize(m) = Temp(m, n)
      /\ Temp(m, 0) = [map |-> Slots(2 * n), elements |-> 0]
      /\ \A i \in 1 .. n : Temp(m, i) = After(Temp(m, i - 1), m[i - 1])
  BY <1>1, ResizingIsLoop
<1>3. Moved(m, n, Temp(m, 0), 0)
  <2>1. Before(m, 0) = {}
    BY DEF Before, Taken
  <2>2. 2 * n \in Nat
    OBVIOUS
  <2>3. TableOK(Temp(m, 0), 2 * n) /\ Content(Temp(m, 0).map) = {}
    BY <1>2, <2>2, BlankTable
  <2>4. Temp(m, 0).elements = 0
    BY <1>2
  <2>5. Cardinality(Before(m, 0)) = 0
    BY <2>1, FS_EmptySet
  <2>6. QED
    BY <2>1, <2>3, <2>4, <2>5 DEF Moved
<1> DEFINE Bad == {i \in 0 .. n : ~ Moved(m, n, Temp(m, i), i)}
<1>4. Bad = {}
  <2>1. SUFFICES ASSUME Bad # {} PROVE FALSE
    OBVIOUS
  <2>2. PICK i \in Bad : \A b \in Bad : i <= b
    <3>1. Bad \subseteq Nat
      OBVIOUS
    <3>2. QED
      BY <2>1, <3>1, LeastNat
  <2>3. i \in 1 .. n
    BY <1>3, <2>2
  <2>4. i - 1 \in 0 .. n /\ i - 1 \notin Bad
    BY <2>2, <2>3
  <2>5. Moved(m, n, Temp(m, i - 1), i - 1)
    BY <2>4
  <2>6. Moved(m, n, Temp(m, i), i)
    BY <1>2, <2>3, <2>5, MoveOne
  <2>7. QED
    BY <2>2, <2>6
<1>5. Moved(m, n, Temp(m, n), n)
  BY <1>4
<1>6. Before(m, n) = Taken(m)
  BY DEF Before, Taken
<1>7. QED
  BY <1>2, <1>5, <1>6 DEF Moved, Content

---------------------------------------------------------------------------
(* The inductive invariant.                                                *)

Cache == [map |-> map, elements |-> elements]

\* The table of the cache is one that every probe ends in.
TableInv ==
  /\ Size(map) \in Nat \ {0}
  /\ TableOK(Cache, Size(map))
  /\ elements <= Size(map) \div 2

\* A value is in the slot of the key of the question that it answers.
ValuesInv == \A s \in Content(map) : Key[s.value.of] = s.key

\* A session puts what it asked for.
SessionsInv == \A t \in Threads : pc[t] = "put" => value[t].of = asks[t]

IInv == TypeOK /\ TableInv /\ ValuesInv /\ SessionsInv /\ AnswerHasKey

LEMMA Defaults ==
  /\ (CHOOSE q \in Questions : TRUE) \in Questions
  /\ NoValue \in Values
  /\ \A q \in Questions : Key[q] \in Keys /\ Key[q] \in Nat
<1>1. (CHOOSE q \in Questions : TRUE) \in Questions /\ 0 \in 0 .. MaxVersion
  BY CredCacheAssumption DEF CredCacheAssumption
<1>2. NoValue \in Values
  BY <1>1 DEF NoValue, Values
<1>3. \A q \in Questions : Key[q] \in Keys /\ Key[q] \in Nat
  BY CredCacheAssumption DEF CredCacheAssumption, Keys
<1>4. QED
  BY <1>1, <1>2, <1>3

\* A table that every probe ends in has the types of the map.
LEMMA MapType ==
  ASSUME TableInv
  PROVE  /\ map \in [0 .. Size(map) - 1 -> Slotted]
         /\ map \in [0 .. Size(map) - 1 -> [key : Nat, value : Values]]
         /\ elements \in 0 .. Size(map) \div 2
         /\ Cardinality(Taken(map)) \in Nat /\ Cardinality(Taken(map)) <= elements
         /\ Cardinality(Taken(map)) < Size(map)
         /\ Settled(map)
<1> DEFINE n == Size(map)
<1>1. n \in Nat \ {0} /\ elements <= n \div 2
  BY DEF TableInv
<1>2. Cache.map = map /\ Cache.elements = elements
  BY DEF Cache
<1>3. map \in [0 .. n - 1 -> Slotted] /\ elements \in Nat /\ Settled(map)
      /\ Cardinality(Taken(map)) <= elements
  BY <1>2 DEF TableInv, TableOK
<1> HIDE DEF n
<1>4. DOMAIN map = 0 .. n - 1
  BY <1>3
<1>5. Cardinality(Taken(map)) \in Nat
  BY <1>1, <1>4, SizeOf
<1>6. Cardinality(Taken(map)) < n /\ elements \in 0 .. n \div 2
  BY <1>1, <1>3, <1>5
<1>7. Slotted \subseteq [key : Nat, value : Values]
  <2>1. Keys \cup {0} \subseteq Nat
    BY KeysAreNumbers
  <2>2. QED
    BY <2>1, Zenon DEF Slotted
<1>8. map \in [0 .. n - 1 -> [key : Nat, value : Values]]
  BY <1>3, <1>7
<1>9. QED
  BY <1>3, <1>5, <1>6, <1>8 DEF n

\* What the table says of the types of the variables.
Typed ==
  /\ map \in [0 .. Size(map) - 1 -> [key : Nat, value : Values]]
  /\ elements \in 0 .. Size(map) \div 2

LEMMA TableTyped == TableInv => Typed
BY MapType DEF Typed

LEMMA EveryProbeEnds ==
  ASSUME TableInv, NEW k \in Keys
  PROVE  Stops(map, k) # {}
<1>1. Size(map) \in Nat \ {0}
  BY DEF TableInv
<1>2. QED
  BY <1>1, MapType, ProbeStops

LEMMA InitIInv == Init => IInv
<1>. SUFFICES ASSUME Init PROVE IInv
  OBVIOUS
<1>1. InitSize \in Nat \ {0} /\ 0 \in 0 .. MaxVersion
  BY CredCacheAssumption DEF CredCacheAssumption
<1>2. TableOK(Cache, InitSize) /\ Taken(map) = {} /\ Content(map) = {}
  <2>1. Cache = [map |-> Slots(InitSize), elements |-> 0]
    BY DEF Init, Cache
  <2>2. Cache.map = map
    BY DEF Cache
  <2>3. QED
    BY <1>1, <2>1, <2>2, BlankTable
<1>3. Size(map) = InitSize
  <2>1. DOMAIN map = 0 .. InitSize - 1
    BY DEF Init, Slots
  <2>2. QED
    BY <1>1, <2>1, SizeOf
<1>4. TableInv
  <2>1. elements = 0 /\ 0 <= InitSize \div 2
    BY <1>1 DEF Init
  <2>2. QED
    BY <1>1, <1>2, <1>3, <2>1 DEF TableInv
<1>5. ValuesInv
  BY <1>2 DEF ValuesInv
<1>6. TypeOK /\ SessionsInv /\ AnswerHasKey
  BY <1>1, <1>4, MapType, Defaults DEF Init, TypeOK, SessionsInv, AnswerHasKey
<1>7. QED
  BY <1>4, <1>5, <1>6 DEF IInv

---------------------------------------------------------------------------
(* The steps.                                                              *)

\* The table that a put goes into.
Grown == IF HalfFull THEN cache_resize(map) ELSE Cache
Room == IF HalfFull THEN 2 * Size(map) ELSE Size(map)

LEMMA GrownTable ==
  ASSUME TableInv
  PROVE  /\ Room \in Nat \ {0}
         /\ TableOK(Grown, Room)
         /\ Grown.elements \in Nat /\ Grown.elements + 1 <= Room \div 2
         /\ Content(Grown.map) = Content(map)
<1> DEFINE n == Size(map)
<1>1. n \in Nat \ {0}
  BY DEF TableInv
<1>2. /\ map \in [0 .. n - 1 -> Slotted] /\ Settled(map)
      /\ elements \in Nat /\ elements <= n \div 2
      /\ Cardinality(Taken(map)) \in Nat /\ Cardinality(Taken(map)) <= elements
  BY <1>1, MapType
<1> HIDE DEF n
<1>3. CASE HalfFull
  <2>1. Grown = cache_resize(map) /\ Room = 2 * n
    BY <1>3 DEF Grown, Room, n
  <2>2. /\ TableOK(Grown, 2 * n)
        /\ Grown.elements <= Cardinality(Taken(map))
        /\ Content(Grown.map) = Content(map)
    BY <1>1, <1>2, <2>1, Resized
  <2>3. Grown.elements \in Nat
    BY <2>2 DEF TableOK
  <2>4. Grown.elements + 1 <= (2 * n) \div 2
    BY <1>1, <1>2, <2>2, <2>3
  <2>5. QED
    BY <1>1, <2>1, <2>2, <2>3, <2>4
<1>4. CASE ~ HalfFull
  <2>1. Grown = Cache /\ Room = n
    BY <1>4 DEF Grown, Room, n
  <2>2. Cache.map = map /\ Cache.elements = elements
    BY DEF Cache
  <2>3. elements + 1 <= n \div 2
    BY <1>1, <1>2, <1>4 DEF HalfFull, n
  <2>4. TableOK(Cache, n)
    BY DEF TableInv, n
  <2>5. QED
    BY <1>1, <1>2, <2>1, <2>2, <2>3, <2>4
<1>5. QED
  BY <1>3, <1>4

\* What a put does, when there was memory for it.
LEMMA PutTableInv ==
  ASSUME TableInv, NEW k \in Keys, NEW v \in Values,
         map' = cache_putapp_hash(Grown, k, v).map,
         elements' = cache_putapp_hash(Grown, k, v).elements
  PROVE  /\ TableInv'
         /\ Content(map') = Replaced(Content(map), k, v)
<1> DEFINE d == cache_putapp_hash(Grown, k, v)
           g == Grown
           n == Room
<1>1. /\ n \in Nat \ {0} /\ TableOK(g, n)
      /\ g.elements \in Nat /\ g.elements + 1 <= n \div 2
      /\ Content(g.map) = Content(map)
  BY GrownTable
<1> HIDE DEF g, n
<1>2. g.map \in [0 .. n - 1 -> Slotted] /\ Cardinality(Taken(g.map)) <= g.elements
  BY <1>1 DEF TableOK
<1>3. Cardinality(Taken(g.map)) \in Nat
  <2>1. DOMAIN g.map = 0 .. n - 1
    BY <1>2
  <2>2. QED
    BY <1>1, <2>1, SizeOf
<1>4. Cardinality(Taken(g.map)) < n
  BY <1>1, <1>2, <1>3
<1>5. Stops(g.map, k) # {}
  BY <1>1, <1>2, <1>4, ProbeStops
<1>6. TableOK(d, n) /\ d.elements \in {g.elements, g.elements + 1}
  BY <1>1, <1>5, PutTable DEF g
<1>7. Content(d.map) = Replaced(Content(g.map), k, v)
  BY <1>1, <1>5, PutContent DEF g
<1> HIDE DEF d
<1>8. Cache'.map = map' /\ Cache'.elements = elements' /\ map' = d.map /\ elements' = d.elements
  BY DEF Cache, d
<1>9. TableOK(Cache', n)
  BY <1>6, <1>8 DEF TableOK
<1>10. Size(map') = n
  <2>1. DOMAIN map' = 0 .. n - 1
    BY <1>6, <1>8 DEF TableOK
  <2>2. QED
    BY <1>1, <2>1, SizeOf
<1>11. elements' <= n \div 2
  BY <1>1, <1>6, <1>8
<1>12. TableInv'
  BY <1>1, <1>9, <1>10, <1>11 DEF TableInv
<1>13. QED
  BY <1>1, <1>7, <1>8, <1>12

\* A step that leaves the cache alone leaves what is said of it alone.
LEMMA CacheStays ==
  ASSUME TableInv, ValuesInv, UNCHANGED cache
  PROVE  TableInv' /\ ValuesInv'
<1>1. map' = map /\ elements' = elements
  BY DEF cache
<1>2. Cache' = Cache
  BY <1>1 DEF Cache
<1>3. QED
  BY <1>1, <1>2 DEF TableInv, ValuesInv

\* What is read from the cache answers a question of the key.
LEMMA ServedHasKey ==
  ASSUME TableInv, ValuesInv, NEW k \in Keys, map[Probe(map, k)].key # 0
  PROVE  map[Probe(map, k)].value \in Values /\ Key[map[Probe(map, k)].value.of] = k
<1> DEFINE n == Size(map)
           id == Probe(map, k)
<1>1. n \in Nat \ {0} /\ map \in [0 .. n - 1 -> Slotted]
  BY MapType DEF TableInv
<1>2. Stops(map, k) # {}
  BY EveryProbeEnds
<1>3. id \in 0 .. n - 1 /\ map[id].key \in {0, k}
  BY <1>1, <1>2, ProbeAt
<1>4. map[id] \in Slotted /\ DOMAIN map = 0 .. n - 1
  BY <1>1, <1>3
<1>5. map[id].key = k /\ map[id].value \in Values
  BY <1>3, <1>4 DEF Slotted
<1>6. id \in Taken(map)
  BY <1>3, <1>4 DEF Taken
<1>7. map[id] \in Content(map)
  BY <1>6 DEF Content
<1>8. QED
  BY <1>5, <1>7 DEF ValuesInv

LEMMA GetStep ==
  ASSUME IInv, NEW t \in Threads, cache_get(t)
  PROVE  IInv'
<1>1. PICK q \in Questions :
        /\ asks' = [asks EXCEPT ![t] = q]
        /\ \/ /\ map[Probe(map, Key[q])].key # 0
              /\ value' = [value EXCEPT ![t] = map[Probe(map, Key[q])].value]
              /\ Goto(t, "served")
           \/ UNCHANGED value /\ Goto(t, "query")
  BY DEF cache_get
<1> DEFINE k == Key[q]
           v == map[Probe(map, k)].value
<1>2. UNCHANGED cache /\ UNCHANGED version
  BY DEF cache_get
<1>3. k \in Keys
  BY Defaults
<1>4. TableInv' /\ ValuesInv'
  BY <1>2, CacheStays DEF IInv
<1>5. CASE /\ map[Probe(map, k)].key # 0
           /\ value' = [value EXCEPT ![t] = v]
           /\ Goto(t, "served")
  <2>1. v \in Values /\ Key[v.of] = k
    BY <1>3, <1>5, ServedHasKey DEF IInv
  <2> HIDE DEF v, k
  <2>2. /\ value' \in [Threads -> Values] /\ asks' \in [Threads -> Questions]
        /\ pc' \in [Threads -> {"idle", "query", "put", "served", "failed"}]
    BY <1>1, <1>5, <2>1 DEF IInv, TypeOK, Goto
  <2>3. AnswerHasKey'
    BY <1>1, <1>5, <2>1 DEF IInv, TypeOK, AnswerHasKey, Goto, k
  <2>4. SessionsInv'
    BY <1>1, <1>5 DEF IInv, TypeOK, SessionsInv, Goto
  <2>5. TypeOK'
    BY <1>2, <2>2 DEF IInv, TypeOK, cache
  <2>6. QED
    BY <1>4, <2>3, <2>4, <2>5 DEF IInv
<1>6. CASE UNCHANGED value /\ Goto(t, "query")
  <2>1. /\ value' \in [Threads -> Values] /\ asks' \in [Threads -> Questions]
        /\ pc' \in [Threads -> {"idle", "query", "put", "served", "failed"}]
    BY <1>1, <1>6 DEF IInv, TypeOK, Goto
  <2>2. AnswerHasKey' /\ SessionsInv'
    BY <1>1, <1>6 DEF IInv, TypeOK, AnswerHasKey, SessionsInv, Goto
  <2>3. TypeOK'
    BY <1>2, <2>1 DEF IInv, TypeOK, cache
  <2>4. QED
    BY <1>4, <2>2, <2>3 DEF IInv
<1>7. QED
  BY <1>1, <1>5, <1>6

LEMMA QueryStep ==
  ASSUME IInv, NEW t \in Threads, sqlget(t)
  PROVE  IInv'
<1>1. UNCHANGED <<cache, version, asks>> /\ pc[t] = "query"
  BY DEF sqlget
<1>2. TableInv' /\ ValuesInv'
  BY <1>1, CacheStays DEF IInv
<1>3. CASE value' = [value EXCEPT ![t] = [of |-> asks[t], version |-> version]] /\ Goto(t, "put")
  <2> DEFINE v == [of |-> asks[t], version |-> version]
  <2>1. v \in Values /\ v.of = asks[t]
    BY DEF IInv, TypeOK, Values
  <2> HIDE DEF v
  <2>2. /\ value' \in [Threads -> Values]
        /\ pc' \in [Threads -> {"idle", "query", "put", "served", "failed"}]
    BY <1>3, <2>1 DEF IInv, TypeOK, Goto, v
  <2>3. AnswerHasKey' /\ SessionsInv'
    BY <1>1, <1>3, <2>1 DEF IInv, TypeOK, AnswerHasKey, SessionsInv, Goto, v
  <2>4. TypeOK'
    BY <1>1, <2>2 DEF IInv, TypeOK, cache
  <2>5. QED
    BY <1>2, <2>3, <2>4 DEF IInv
<1>4. CASE UNCHANGED value /\ Goto(t, "failed")
  <2>1. TypeOK'
    BY <1>1, <1>4 DEF IInv, TypeOK, cache, Goto
  <2>2. AnswerHasKey' /\ SessionsInv'
    BY <1>1, <1>4 DEF IInv, TypeOK, AnswerHasKey, SessionsInv, Goto
  <2>3. QED
    BY <1>2, <2>1, <2>2 DEF IInv
<1>5. QED
  BY <1>3, <1>4 DEF sqlget

\* A put that fails for want of memory changes nothing; any other puts the answer
\* of the session into the table that has room.
LEMMA PutCases ==
  ASSUME NEW t \in Threads, cache_put(t)
  PROVE  \/ UNCHANGED cache
         \/ /\ map' = cache_putapp_hash(Grown, Key[asks[t]], value[t]).map
            /\ elements' = cache_putapp_hash(Grown, Key[asks[t]], value[t]).elements
BY DEF cache_put, Grown, Cache

LEMMA PutStep ==
  ASSUME IInv, NEW t \in Threads, cache_put(t)
  PROVE  IInv'
<1> DEFINE k == Key[asks[t]]
           v == value[t]
<1>1. pc[t] = "put" /\ Goto(t, "served") /\ UNCHANGED <<version, asks, value>>
  BY DEF cache_put
<1>2. v \in Values /\ v.of = asks[t] /\ k \in Keys /\ Key[v.of] = k
  BY <1>1, Defaults DEF IInv, TypeOK, SessionsInv
<1>3. TableInv' /\ ValuesInv'
  <2>1. CASE UNCHANGED cache
    BY <2>1, CacheStays DEF IInv
  <2>2. CASE /\ map' = cache_putapp_hash(Grown, k, v).map
             /\ elements' = cache_putapp_hash(Grown, k, v).elements
    <3> HIDE DEF k, v
    <3>1. TableInv' /\ Content(map') = Replaced(Content(map), k, v)
      BY <1>2, <2>2, PutTableInv DEF IInv
    <3>2. ValuesInv'
      <4>1. SUFFICES ASSUME NEW s \in Content(map') PROVE Key[s.value.of] = s.key
        BY DEF ValuesInv
      <4>2. s \in Content(map) \/ s = Filled(k, v)
        BY <3>1 DEF Replaced
      <4>3. Filled(k, v).key = k /\ Filled(k, v).value = v
        BY DEF Filled
      <4>4. QED
        BY <1>2, <4>2, <4>3 DEF IInv, ValuesInv
    <3>3. QED
      BY <3>1, <3>2
  <2>3. QED
    BY <2>1, <2>2, PutCases
<1>4. pc' \in [Threads -> {"idle", "query", "put", "served", "failed"}]
  BY <1>1 DEF IInv, TypeOK, Goto
<1>5. SessionsInv' /\ AnswerHasKey'
  BY <1>1, <1>2 DEF IInv, TypeOK, SessionsInv, AnswerHasKey, Goto
<1>6. TableInv' => Typed'
  BY TableTyped, PTL
<1>7. TypeOK'
  BY <1>1, <1>3, <1>4, <1>6 DEF IInv, TypeOK, Typed
<1>8. QED
  BY <1>3, <1>5, <1>7 DEF IInv

LEMMA FinishStep ==
  ASSUME IInv, NEW t \in Threads, Finish(t)
  PROVE  IInv'
<1>1. UNCHANGED cache /\ UNCHANGED version /\ Goto(t, "idle")
  BY DEF Finish
<1>2. TableInv' /\ ValuesInv'
  BY <1>1, CacheStays DEF IInv
<1>3. TypeOK'
  <2>1. /\ asks' \in [Threads -> Questions] /\ value' \in [Threads -> Values]
        /\ pc' \in [Threads -> {"idle", "query", "put", "served", "failed"}]
    BY <1>1, Defaults DEF Finish, IInv, TypeOK, Goto
  <2>2. QED
    BY <1>1, <2>1 DEF IInv, TypeOK, cache
<1>4. AnswerHasKey' /\ SessionsInv'
  BY <1>1 DEF Finish, IInv, TypeOK, AnswerHasKey, SessionsInv, Goto
<1>5. QED
  BY <1>2, <1>3, <1>4 DEF IInv

LEMMA OtherStep ==
  ASSUME IInv, DbChanges \/ UNCHANGED vars
  PROVE  IInv'
<1>1. UNCHANGED <<cache, pc, asks, value>> /\ version' \in 0 .. MaxVersion
  BY CredCacheAssumption DEF CredCacheAssumption, DbChanges, vars, cache, IInv, TypeOK
<1>2. TableInv' /\ ValuesInv'
  BY <1>1, CacheStays DEF IInv
<1>3. TypeOK' /\ AnswerHasKey' /\ SessionsInv'
  BY <1>1 DEF IInv, TypeOK, AnswerHasKey, SessionsInv, cache
<1>4. QED
  BY <1>2, <1>3 DEF IInv

\* What the caches rely on holds in every reachable state: cache_put*, cache_resize*,
\* cache_get* and the sessions between them preserve it.
THEOREM Invariance == Spec => []IInv
<1>1. IInv /\ [Next]_vars => IInv'
  <2>1. SUFFICES ASSUME IInv, [Next]_vars PROVE IInv'
    OBVIOUS
  <2>2. ASSUME NEW t \in Threads, cache_get(t) \/ sqlget(t) \/ cache_put(t) \/ Finish(t)
        PROVE  IInv'
    BY <2>1, <2>2, GetStep, QueryStep, PutStep, FinishStep
  <2>3. CASE DbChanges \/ UNCHANGED vars
    BY <2>1, <2>3, OtherStep
  <2>4. QED
    BY <2>1, <2>2, <2>3 DEF Next
<1>2. QED
  BY <1>1, InitIInv, PTL DEF Spec

---------------------------------------------------------------------------
(* The theorems.                                                           *)

\* Every variable stays in its type; in particular the count of cache_putip and
\* cache_putapp is at most half of the size.
THEOREM TypeCorrect == Spec => []TypeOK
BY Invariance, PTL DEF IInv

\* The loops of cache_getip, cache_getapp, cache_putip and cache_putapp_hash end
\* for every key, however the keys collide.
THEOREM NoProbeGoesRound == Spec => []ProbesEnd
<1>1. IInv => ProbesEnd
  BY MapType, EveryProbeEnds DEF IInv, ProbesEnd
<1>2. QED
  BY <1>1, Invariance, PTL

\* What has been put is found where the loops look for it, and is there once, after
\* any number of cache_resizeip and cache_resizeapp.
THEOREM NoKeyIsLost == Spec => []KeysAreFound
<1>1. TableInv => KeysAreFound
  <2>1. SUFFICES ASSUME TableInv, NEW i \in Taken(map)
                 PROVE  /\ Found(map, map[i].key) = {map[i].value}
                        /\ \A j \in Taken(map) : map[i].key = map[j].key => i = j
    BY DEF KeysAreFound
  <2>2. Settled(map)
    BY <2>1, MapType
  <2>3. Stops(map, map[i].key) # {} /\ Probe(map, map[i].key) = i /\ map[i].key # 0
    BY <2>2 DEF Settled, Taken
  <2>4. Found(map, map[i].key) = {map[i].value}
    BY <2>3 DEF Found
  <2>5. \A j \in Taken(map) : map[i].key = map[j].key => i = j
    BY <2>2 DEF Settled
  <2>6. QED
    BY <2>4, <2>5
<1>2. QED
  BY <1>1, Invariance, PTL DEF IInv

\* A session is served by cache_getip or cache_getapp with an answer to a question
\* that has the key of its own.
THEOREM ServedWithOwnKey == Spec => []AnswerHasKey
BY Invariance, PTL DEF IInv

\* What is found under a key depends on what is in the table with that key.
LEMMA FoundAfter ==
  ASSUME TableInv, TableInv', NEW k \in Keys, NEW v \in Values,
         Content(map') = Replaced(Content(map), k, v), NEW x \in Keys \ {0}
  PROVE  IF x = k THEN Found(map', x) = {v} ELSE Found(map', x) = Found(map, x)
<1> DEFINE n == Size(map)
           o == Size(map')
<1>1. n \in Nat \ {0} /\ map \in [0 .. n - 1 -> Slotted] /\ Settled(map)
  BY MapType DEF TableInv
<1>2. o \in Nat \ {0} /\ map' \in [0 .. o - 1 -> Slotted] /\ Settled(map')
  <2>1. TableOK(Cache', o) /\ Cache'.map = map' /\ o \in Nat \ {0}
    BY DEF TableInv, Cache
  <2>2. QED
    BY <2>1 DEF TableOK
<1>3. /\ \A s \in Content(map) : s.key = x => Found(map, x) = {s.value}
      /\ (\A s \in Content(map) : s.key # x) => Found(map, x) = {}
  BY <1>1, FoundIsContent
<1>4. /\ \A s \in Content(map') : s.key = x => Found(map', x) = {s.value}
      /\ (\A s \in Content(map') : s.key # x) => Found(map', x) = {}
  BY <1>2, FoundIsContent
<1>5. Filled(k, v).key = k /\ Filled(k, v).value = v
  BY DEF Filled
<1>6. CASE x = k
  <2>1. Filled(k, v) \in Content(map')
    BY <1>6 DEF Replaced
  <2>2. QED
    BY <1>4, <1>5, <1>6, <2>1
<1>7. CASE x # k
  <2>1. \A s : s.key = x => (s \in Content(map') <=> s \in Content(map))
    BY <1>5, <1>7 DEF Replaced
  <2>2. QED
    BY <1>3, <1>4, <1>7, <2>1
<1>8. QED
  BY <1>6, <1>7

\* Under the key 0 nothing is found.
LEMMA NothingUnderZero == TableInv => (0 \in Keys => Found(map, 0) = {})
<1>1. SUFFICES ASSUME TableInv, 0 \in Keys PROVE Found(map, 0) = {}
  OBVIOUS
<1>2. Size(map) \in Nat \ {0} /\ Stops(map, 0) # {}
  BY <1>1, EveryProbeEnds DEF TableInv
<1>3. map[Probe(map, 0)].key = 0
  BY <1>1, <1>2, MapType, ProbeAt
<1>4. QED
  BY <1>3 DEF Found

LEMMA GetRefines ==
  ASSUME IInv, NEW t \in Threads, cache_get(t)
  PROVE  Store!Get(t)
<1>1. PICK q \in Questions :
        /\ asks' = [asks EXCEPT ![t] = q]
        /\ \/ /\ map[Probe(map, Key[q])].key # 0
              /\ value' = [value EXCEPT ![t] = map[Probe(map, Key[q])].value]
              /\ Goto(t, "served")
           \/ map[Probe(map, Key[q])].key = 0 /\ UNCHANGED value /\ Goto(t, "query")
  BY DEF cache_get
<1> DEFINE k == Key[q]
           known == [x \in Keys |-> Found(map, x)]
<1>2. k \in Keys /\ Stops(map, k) # {}
  BY Defaults, EveryProbeEnds DEF IInv
<1>3. known[k] = Found(map, k)
  BY <1>2
<1>4. map' = map /\ pc[t] = "idle"
  BY DEF cache_get, cache
<1>5. known' = known
  BY <1>4
<1> HIDE DEF known
<1>6. CASE map[Probe(map, k)].key # 0
  <2>1. known[k] = {map[Probe(map, k)].value}
    BY <1>2, <1>3, <1>6 DEF Found
  <2>2. value' = [value EXCEPT ![t] = map[Probe(map, k)].value] /\ Goto(t, "served")
    BY <1>1, <1>6
  <2>3. QED
    BY <1>1, <1>4, <1>5, <2>1, <2>2 DEF Store!Get, Store!Goto, Goto, known
<1>7. CASE map[Probe(map, k)].key = 0
  <2>1. known[k] = {}
    BY <1>3, <1>7 DEF Found
  <2>2. UNCHANGED value /\ Goto(t, "query")
    BY <1>1, <1>7
  <2>3. QED
    BY <1>1, <1>4, <1>5, <2>1, <2>2 DEF Store!Get, Store!Goto, Goto, known
<1>8. QED
  BY <1>6, <1>7

LEMMA PutRefines ==
  ASSUME IInv, IInv', NEW t \in Threads, cache_put(t)
  PROVE  Store!Put(t)
<1> DEFINE k == Key[asks[t]]
           v == value[t]
           known == [x \in Keys |-> Found(map, x)]
<1>1. pc[t] = "put" /\ Goto(t, "served") /\ UNCHANGED <<asks, value>>
  BY DEF cache_put
<1>2. v \in Values /\ k \in Keys
  BY Defaults DEF IInv, TypeOK
<1>3. known' = [x \in Keys |-> Found(map', x)]
  OBVIOUS
<1>4. CASE UNCHANGED cache
  <2>1. known' = known
    BY <1>4 DEF cache
  <2>2. QED
    BY <1>1, <2>1 DEF Store!Put, Store!Goto, Goto
<1>5. CASE /\ map' = cache_putapp_hash(Grown, k, v).map
           /\ elements' = cache_putapp_hash(Grown, k, v).elements
  <2> HIDE DEF k, v
  <2>1. TableInv /\ TableInv'
    BY DEF IInv
  <2>2. Content(map') = Replaced(Content(map), k, v)
    BY <1>2, <1>5, <2>1, PutTableInv
  <2>3. \A x \in Keys \ {0} : IF x = k THEN Found(map', x) = {v} ELSE Found(map', x) = Found(map, x)
    BY <1>2, <2>1, <2>2, FoundAfter
  <2>4. 0 \in Keys => Found(map, 0) = {} /\ Found(map', 0) = {}
    <3>1. TableInv' => (0 \in Keys => Found(map, 0) = {})'
      BY NothingUnderZero, PTL
    <3>2. QED
      BY <2>1, <3>1, NothingUnderZero
  <2>5. CASE k = 0
    <3>1. \A x \in Keys : Found(map', x) = Found(map, x)
      BY <2>3, <2>4, <2>5
    <3>2. known' = known
      BY <3>1
    <3>3. QED
      BY <1>1, <3>2 DEF Store!Put, Store!Goto, Goto
  <2>6. CASE k # 0
    <3>1. \A x \in Keys : Found(map', x) = IF x = k THEN {v} ELSE Found(map, x)
      BY <2>3, <2>4, <2>6
    <3>2. known' = [known EXCEPT ![k] = {v}]
      BY <1>2, <1>3, <3>1
    <3>3. QED
      BY <1>1, <2>6, <3>2 DEF Store!Put, Store!Goto, Goto, k, v
  <2>7. QED
    BY <2>5, <2>6
<1>6. QED
  BY <1>4, <1>5, PutCases

LEMMA OthersRefine ==
  ASSUME IInv, NEW t \in Threads
  PROVE  /\ sqlget(t) => Store!Query(t)
         /\ Finish(t) => Store!Finish(t)
         /\ DbChanges \/ UNCHANGED vars => UNCHANGED Store!svars
<1>1. ASSUME sqlget(t) PROVE Store!Query(t)
  <2> DEFINE v == [of |-> asks[t], version |-> version]
  <2>1. v \in Values /\ v.of = asks[t]
    BY DEF IInv, TypeOK, Values
  <2> HIDE DEF v
  <2>2. UNCHANGED <<cache, asks>> /\ pc[t] = "query"
        /\ (\/ value' = [value EXCEPT ![t] = v] /\ Goto(t, "put")
            \/ UNCHANGED value /\ Goto(t, "failed"))
    BY <1>1 DEF sqlget, v
  <2>3. QED
    BY <2>1, <2>2 DEF Store!Query, Store!Goto, Goto, cache
<1>2. ASSUME Finish(t) PROVE Store!Finish(t)
  BY <1>2, Defaults DEF Finish, Store!Finish, Store!Goto, Goto, cache
<1>3. ASSUME DbChanges \/ UNCHANGED vars PROVE UNCHANGED Store!svars
  BY <1>3 DEF DbChanges, vars, cache, Store!svars
<1>4. QED
  BY <1>1, <1>2, <1>3

\* The caches are stores: cache_getip and cache_getapp find the last answer that was
\* put under the key, whatever cache_putip, cache_putapp and cache_resize* do for
\* other keys.
THEOREM Refinement == Spec => ImplementsStore
<1>1. Init => Store!Init
  <2>1. SUFFICES ASSUME Init PROVE Store!Init
    OBVIOUS
  <2>2. IInv /\ Taken(map) = {}
    <3>1. map = Slots(InitSize)
      BY <2>1 DEF Init
    <3>2. Empty.key = 0
      BY DEF Empty
    <3>3. QED
      BY <2>1, <3>1, <3>2, InitIInv DEF Taken, Slots
  <2>3. ASSUME NEW k \in Keys PROVE Found(map, k) = {}
    <3>1. Size(map) \in Nat \ {0} /\ Stops(map, k) # {}
      BY <2>2, EveryProbeEnds DEF IInv, TableInv
    <3>2. Probe(map, k) \in 0 .. Size(map) - 1 /\ DOMAIN map = 0 .. Size(map) - 1
      BY <2>2, <3>1, MapType, ProbeAt DEF IInv
    <3>3. map[Probe(map, k)].key = 0
      BY <2>2, <3>2 DEF Taken
    <3>4. QED
      BY <3>3 DEF Found
  <2>4. [k \in Keys |-> Found(map, k)] = [k \in Keys |-> {}]
    BY <2>3
  <2>5. asks \in [Threads -> Questions] /\ value \in [Threads -> Values]
    BY <2>2 DEF IInv, TypeOK
  <2>6. QED
    BY <2>1, <2>4, <2>5 DEF Init, Store!Init, Store!Keys, Keys
<1>2. IInv /\ IInv' /\ [Next]_vars => [Store!Next]_(Store!svars)
  <2>1. SUFFICES ASSUME IInv, IInv', [Next]_vars PROVE [Store!Next]_(Store!svars)
    OBVIOUS
  <2>2. ASSUME NEW t \in Threads, cache_get(t) \/ sqlget(t) \/ cache_put(t) \/ Finish(t)
        PROVE  Store!Next
    BY <2>1, <2>2, GetRefines, PutRefines, OthersRefine DEF Store!Next
  <2>3. CASE DbChanges \/ UNCHANGED vars
    BY <2>3 DEF DbChanges, vars, cache, Store!svars
  <2>4. QED
    BY <2>1, <2>2, <2>3 DEF Next
<1>3. QED
  BY <1>1, <1>2, Invariance, PTL DEF Spec, ImplementsStore, Store!Spec
===========================================================================
