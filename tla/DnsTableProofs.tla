-------------------------- MODULE DnsTableProofs --------------------------
(***************************************************************************)
(* The DNS cache, for any number of sessions, names and entries, any hash, *)
(* time to live and length of a run.                                       *)
(*                                                                         *)
(* EntriesPartitioned is inductive once hmutex is known to keep the free   *)
(* entry between the two halves of hashtbl_put.  The others need more:     *)
(* OneEntryPerHash, that a hash is never put where another entry of it     *)
(* stays; HitIsFresh, what the fields of a linked entry have to do with    *)
(* each other; LiveEntryStays, that hashtbl_check still holds at the       *)
(* insertion, although the clock has gone on.                              *)
(***************************************************************************)
EXTENDS DnsTable, Integers, FiniteSetTheorems, SequenceTheorems, WellFoundedInduction, TLAPS

\* Where hmutex is between two steps, and what its owner saw is still so.
LockOK ==
  \A t \in Threads :
    /\ pc[t] \in {"insert", "unlock"} => lock = t
    /\ pc[t] = "insert" => free # <<>> /\ ~ hashtbl_check(name[t])

\* The local variables of a lookup: the clock that was read, and the answer of
\* the resolver, belong to the name that is looked up and to the past.
LookupOK ==
  \A t \in Threads :
    /\ clock[t] <= now
    /\ pc[t] \in {"put", "insert"} => addr[t].host = name[t] /\ addr[t].at <= now

\* A linked entry is in the bucket of its hash, with the address of a name of that
\* hash and the expiry date that goes with it.
ChainsOK ==
  \A b \in Buckets : \A e \in Entries : Contains(chain[b], e) =>
    /\ entry[e].hash % Size = b
    /\ Hash[entry[e].value.host] = entry[e].hash
    /\ entry[e].expires = entry[e].value.at + TTL

IInv == TypeOK /\ LockOK /\ LookupOK /\ ChainsOK /\ EntriesPartitioned /\ OneEntryPerHash

---------------------------------------------------------------------------
(* Lists.                                                                  *)

\* Every set of positions that is not empty has a first one.
LEMMA LeastNat ==
  ASSUME NEW S, S \subseteq Nat, S # {}
  PROVE  \E x \in S : \A y \in S : x <= y
<1>1. PICK x \in S : \A y \in S : ~ (<<y, x>> \in OpToRel(<, Nat))
  <2>1. IsWellFoundedOn(OpToRel(<, Nat), Nat)
    BY NatLessThanWellFounded
  <2>2. QED
    BY <2>1, WFMin
<1>2. \A y \in S : ~ (y < x)
  BY <1>1 DEF OpToRel
<1>3. QED
  BY <1>2

\* The positions in a set are numbered in their order, without a gap.
LEMMA Ranks ==
  ASSUME NEW n \in Nat, NEW P, P \subseteq 1 .. n
  PROVE  LET Rank(p) == Cardinality({q \in P : q <= p})
         IN  /\ Cardinality(P) \in Nat
             /\ \A p \in P : Rank(p) \in 1 .. Cardinality(P)
             /\ \A p, r \in P : Rank(p) = Rank(r) => p = r
             /\ \A i \in 1 .. Cardinality(P) : \E p \in P : Rank(p) = i
<1> DEFINE Below(p) == {q \in P : q <= p}
           rank == [p \in P |-> Cardinality(Below(p))]
           k == Cardinality(P)
<1>1. IsFiniteSet(P) /\ k \in Nat
  <2>1. IsFiniteSet(1 .. n)
    BY FS_Interval
  <2>2. IsFiniteSet(P)
    BY <2>1, FS_Subset
  <2>3. QED
    BY <2>2, FS_CardinalityType
<1>2. \A p \in P : p \in Nat
  OBVIOUS
<1>3. ASSUME NEW p \in P
      PROVE  IsFiniteSet(Below(p)) /\ rank[p] \in 1 .. k
  <2>1. IsFiniteSet(Below(p)) /\ Cardinality(Below(p)) <= k
    BY <1>1, FS_Subset
  <2>2. Cardinality(Below(p)) \in Nat /\ Cardinality(Below(p)) # 0
    <3>1. p \in Below(p)
      BY <1>2
    <3>2. QED
      BY <2>1, <3>1, FS_CardinalityType, FS_EmptySet
  <2>3. QED
    BY <1>1, <2>1, <2>2
<1>4. ASSUME NEW p \in P, NEW r \in P, p < r
      PROVE  rank[p] # rank[r]
  <2>1. Below(p) \subseteq Below(r) /\ r \in Below(r) /\ r \notin Below(p)
    <3>1. p \in Nat /\ r \in Nat /\ ~ (r <= p) /\ r <= r
      BY <1>2, <1>4
    <3>2. ASSUME NEW q \in P, q <= p PROVE q <= r
      BY <1>2, <1>4, <3>1, <3>2
    <3>3. QED
      BY <3>1, <3>2
  <2>2. IsFiniteSet(Below(r))
    BY <1>3
  <2>3. Cardinality(Below(r)) = Cardinality(Below(p)) => Below(r) = Below(p)
    BY <2>1, <2>2, FS_Subset
  <2>4. QED
    BY <2>1, <2>3
<1>5. \A p, r \in P : rank[p] = rank[r] => p = r
  <2>1. \A p, r \in P : p < r \/ r < p \/ p = r
    BY <1>2
  <2>2. QED
    BY <1>4, <2>1
<1>6. rank \in Surjection(P, 1 .. k)
  <2>1. rank \in [P -> 1 .. k]
    BY <1>3
  <2>2. rank \in Injection(P, 1 .. k)
    BY <1>5, <2>1 DEF Injection, IsInjective
  <2>3. IsFiniteSet(1 .. k) /\ Cardinality(1 .. k) = k
    BY <1>1, FS_Interval
  <2>4. QED
    BY <2>2, <2>3, FS_Injection
<1>7. \A i \in 1 .. k : \E p \in P : rank[p] = i
  BY <1>6 DEF Surjection
<1>8. \A p \in P : rank[p] = Cardinality({q \in P : q <= p})
  OBVIOUS
<1> HIDE DEF rank, k
<1>9. QED
  BY <1>1, <1>3, <1>5, <1>7, <1>8 DEF k

\* A sublist has the elements at the chosen positions, each as often as there.
LEMMA SublistProps ==
  ASSUME NEW S, NEW s \in Seq(S), NEW P, P \subseteq DOMAIN s
  PROVE  /\ Sublist(s, P) \in Seq(S)
         /\ \A x : Contains(Sublist(s, P), x) <=> \E p \in P : s[p] = x
         /\ IsInjective(s) => IsInjective(Sublist(s, P))
<1> DEFINE Rank(p) == Cardinality({q \in P : q <= p})
           k == Cardinality(P)
           At(i) == CHOOSE p \in P : Rank(p) = i
           l == [i \in 1 .. k |-> s[At(i)]]
<1>1. Len(s) \in Nat /\ DOMAIN s = 1 .. Len(s) /\ \A i \in 1 .. Len(s) : s[i] \in S
  BY LenProperties, ElementOfSeq
<1>2. /\ k \in Nat
      /\ \A p \in P : Rank(p) \in 1 .. k
      /\ \A p, r \in P : Rank(p) = Rank(r) => p = r
      /\ \A i \in 1 .. k : \E p \in P : Rank(p) = i
  BY <1>1, Ranks
<1>3. l = Sublist(s, P)
  BY DEF Sublist
<1> HIDE DEF Rank, k
<1>4. \A i \in 1 .. k : At(i) \in P /\ Rank(At(i)) = i
  BY <1>2
<1>5. \A p \in P : At(Rank(p)) = p
  BY <1>2, <1>4
<1> HIDE DEF At
<1>6. \A i \in 1 .. k : l[i] = s[At(i)] /\ l[i] \in S
  BY <1>1, <1>4
<1>7. l \in Seq(S) /\ Len(l) = k /\ DOMAIN l = 1 .. k
  <2>1. l \in [1 .. k -> S]
    BY <1>6
  <2>2. QED
    BY <1>2, <2>1
<1> HIDE DEF l
<1>8. ASSUME NEW x PROVE Contains(l, x) <=> \E p \in P : s[p] = x
  <2>1. ASSUME NEW i \in 1 .. k, l[i] = x PROVE \E p \in P : s[p] = x
    BY <1>4, <1>6, <2>1
  <2>2. ASSUME NEW p \in P, s[p] = x PROVE \E i \in 1 .. k : l[i] = x
    BY <1>2, <1>5, <1>6, <2>2
  <2>3. QED
    BY <1>7, <2>1, <2>2 DEF Contains
<1>9. ASSUME IsInjective(s) PROVE IsInjective(l)
  <2> SUFFICES ASSUME NEW i \in 1 .. k, NEW j \in 1 .. k, l[i] = l[j] PROVE i = j
    BY <1>7 DEF IsInjective
  <2>1. At(i) = At(j)
    BY <1>4, <1>6, <1>9 DEF IsInjective
  <2>2. QED
    BY <1>4, <2>1
<1>10. QED
  BY <1>3, <1>7, <1>8, <1>9

\* A list turned round.
LEMMA ReverseProps ==
  ASSUME NEW S, NEW s \in Seq(S)
  PROVE  /\ Reverse(s) \in Seq(S)
         /\ \A x : Contains(Reverse(s), x) <=> Contains(s, x)
         /\ IsInjective(s) => IsInjective(Reverse(s))
<1> DEFINE n == Len(s)
           r == Reverse(s)
<1>1. n \in Nat /\ DOMAIN s = 1 .. n /\ \A i \in 1 .. n : s[i] \in S
  BY LenProperties, ElementOfSeq
<1>2. r = [i \in 1 .. n |-> s[(n - i) + 1]]
  BY DEF Reverse
<1> HIDE DEF r, n
<1>3. \A i \in 1 .. n : (n - i) + 1 \in 1 .. n /\ (n - ((n - i) + 1)) + 1 = i
  BY <1>1
<1>4. \A i \in 1 .. n : r[i] = s[(n - i) + 1] /\ r[i] \in S
  BY <1>1, <1>2, <1>3
<1>5. r \in Seq(S) /\ Len(r) = n /\ DOMAIN r = 1 .. n
  <2>1. r \in [1 .. n -> S]
    BY <1>2, <1>4
  <2>2. QED
    BY <1>1, <2>1
<1>6. ASSUME NEW x PROVE Contains(r, x) <=> Contains(s, x)
  BY <1>3, <1>4, <1>5 DEF Contains, n
<1>7. ASSUME IsInjective(s) PROVE IsInjective(r)
  <2> SUFFICES ASSUME NEW i \in 1 .. n, NEW j \in 1 .. n, r[i] = r[j] PROVE i = j
    BY <1>5 DEF IsInjective
  <2>1. (n - i) + 1 = (n - j) + 1
    BY <1>1, <1>3, <1>4, <1>7 DEF IsInjective
  <2>2. QED
    BY <1>3, <2>1
<1>8. QED
  BY <1>5, <1>6, <1>7 DEF r

\* One list behind another.
LEMMA ConcatProps ==
  ASSUME NEW S, NEW s \in Seq(S), NEW t \in Seq(S)
  PROVE  /\ s \o t \in Seq(S)
         /\ \A x : Contains(s \o t, x) <=> Contains(s, x) \/ Contains(t, x)
         /\ IsInjective(s) /\ IsInjective(t) /\ (\A x : ~ (Contains(s, x) /\ Contains(t, x)))
              => IsInjective(s \o t)
<1> DEFINE m == Len(s)
           n == Len(t)
           l == s \o t
<1>1. m \in Nat /\ n \in Nat /\ DOMAIN s = 1 .. m /\ DOMAIN t = 1 .. n
  BY LenProperties
<1>2. /\ l \in Seq(S) /\ Len(l) = m + n /\ DOMAIN l = 1 .. m + n
      /\ \A i \in 1 .. m + n : l[i] = IF i <= m THEN s[i] ELSE t[i - m]
  BY ConcatProperties, LenProperties
<1> HIDE DEF m, n, l
<1>3. \A i \in 1 .. m : i \in 1 .. m + n /\ l[i] = s[i]
  BY <1>1, <1>2
<1>4. \A i \in 1 .. n : m + i \in 1 .. m + n /\ l[m + i] = t[i]
  BY <1>1, <1>2
<1>5. \A i \in 1 .. m + n : i \in 1 .. m \/ (i - m \in 1 .. n /\ l[i] = t[i - m])
  BY <1>1, <1>2
<1>6. ASSUME NEW x PROVE Contains(l, x) <=> Contains(s, x) \/ Contains(t, x)
  BY <1>2, <1>3, <1>4, <1>5 DEF Contains, m, n
<1>7. ASSUME IsInjective(s), IsInjective(t), \A x : ~ (Contains(s, x) /\ Contains(t, x))
      PROVE  IsInjective(l)
  <2> SUFFICES ASSUME NEW i \in 1 .. m + n, NEW j \in 1 .. m + n, l[i] = l[j] PROVE i = j
    BY <1>2 DEF IsInjective
  <2>1. \A a \in 1 .. m, b \in 1 .. n : s[a] # t[b]
    BY <1>7 DEF Contains, m, n
  <2>2. CASE i \in 1 .. m
    BY <1>1, <1>3, <1>5, <1>7, <2>1, <2>2 DEF IsInjective
  <2>3. CASE i \notin 1 .. m
    <3>1. i - m \in 1 .. n /\ l[i] = t[i - m]
      BY <1>5, <2>3
    <3>2. j - m \in 1 .. n /\ l[j] = t[j - m]
      BY <1>3, <1>5, <2>1, <3>1
    <3>3. i - m = j - m
      BY <1>1, <1>7, <3>1, <3>2 DEF IsInjective
    <3>4. QED
      BY <1>1, <3>3
  <2>4. QED
    BY <2>2, <2>3
<1>8. QED
  BY <1>2, <1>6, <1>7 DEF l

---------------------------------------------------------------------------
(* The lists of the table.                                                 *)

\* A name has a bucket.
LEMMA BucketType ==
  ASSUME NEW n \in Names
  PROVE  Hash[n] \in Nat /\ Bucket(n) \in Buckets /\ Bucket(n) = Hash[n] % Size
<1>1. Hash[n] \in Nat /\ Size \in Nat /\ Size > 0
  BY DnsTableAssumption
<1>2. Hash[n] % Size \in 0 .. Size - 1
  BY <1>1
<1>3. QED
  BY <1>1, <1>2 DEF Bucket, Buckets

\* What a loop takes out of a chain and what it leaves there.
Gone(b, out) == Sublist(chain[b], out)
Left(b, out) == Sublist(chain[b], DOMAIN chain[b] \ out)

LEMMA Split ==
  ASSUME TypeOK, EntriesPartitioned, NEW b \in Buckets, NEW out, out \subseteq DOMAIN chain[b]
  PROVE  /\ Gone(b, out) \in Seq(Entries) /\ IsInjective(Gone(b, out))
         /\ Left(b, out) \in Seq(Entries) /\ IsInjective(Left(b, out))
         /\ \A x : Contains(chain[b], x) <=> Contains(Gone(b, out), x) \/ Contains(Left(b, out), x)
         /\ \A x : ~ (Contains(Gone(b, out), x) /\ Contains(Left(b, out), x))
         /\ \A x : Contains(Gone(b, out), x) <=> \E i \in out : chain[b][i] = x
<1>1. chain[b] \in Seq(Entries) /\ IsInjective(chain[b])
  BY DEF TypeOK, EntriesPartitioned
<1>2. DOMAIN chain[b] = 1 .. Len(chain[b])
  BY <1>1, LenProperties
<1>3. /\ Gone(b, out) \in Seq(Entries) /\ IsInjective(Gone(b, out))
      /\ \A x : Contains(Gone(b, out), x) <=> \E i \in out : chain[b][i] = x
  BY <1>1, SublistProps DEF Gone
<1>4. /\ Left(b, out) \in Seq(Entries) /\ IsInjective(Left(b, out))
      /\ \A x : Contains(Left(b, out), x) <=> \E i \in DOMAIN chain[b] \ out : chain[b][i] = x
  BY <1>1, SublistProps DEF Left
<1>5. \A x : Contains(chain[b], x) <=> \E i \in DOMAIN chain[b] : chain[b][i] = x
  BY <1>2 DEF Contains
<1>6. \A x : ~ (Contains(Gone(b, out), x) /\ Contains(Left(b, out), x))
  BY <1>1, <1>3, <1>4 DEF IsInjective
<1>7. QED
  BY <1>3, <1>4, <1>5, <1>6

\* The lists share out the entries: in terms of what they contain.
LEMMA Shares ==
  ASSUME EntriesPartitioned
  PROVE  /\ \A e \in Entries, b \in Buckets : ~ (Contains(free, e) /\ Contains(chain[b], e))
         /\ \A e \in Entries, b, d \in Buckets : Contains(chain[b], e) /\ Contains(chain[d], e) => b = d
         /\ \A e \in Entries : Contains(free, e) \/ \E b \in Buckets : Contains(chain[b], e)
BY DEF EntriesPartitioned

\* A list contains members of its type.
LEMMA Contained ==
  ASSUME NEW S, NEW s \in Seq(S), NEW x, Contains(s, x)
  PROVE  x \in S
BY ElementOfSeq DEF Contains

\* The first element of a list, and the others.
LEMMA HeadProps ==
  ASSUME NEW S, NEW s \in Seq(S), s # <<>>, IsInjective(s)
  PROVE  /\ Head(s) \in S /\ Tail(s) \in Seq(S) /\ IsInjective(Tail(s))
         /\ \A x : Contains(s, x) <=> x = Head(s) \/ Contains(Tail(s), x)
         /\ ~ Contains(Tail(s), Head(s))
<1>1. /\ Len(s) \in Nat \ {0} /\ DOMAIN s = 1 .. Len(s)
      /\ Head(s) \in S /\ Tail(s) \in Seq(S) /\ Len(Tail(s)) = Len(s) - 1
      /\ \A i \in 1 .. Len(Tail(s)) : Tail(s)[i] = s[i + 1]
  BY EmptySeq, LenProperties, HeadTailProperties
<1>2. Head(s) = s[1] /\ DOMAIN Tail(s) = 1 .. Len(s) - 1
  BY <1>1, LenProperties
<1> DEFINE n == Len(s)
           r == Tail(s)
<1>3. /\ n \in Nat \ {0} /\ DOMAIN s = 1 .. n /\ Head(s) = s[1]
      /\ Len(r) = n - 1 /\ DOMAIN r = 1 .. n - 1 /\ \A i \in 1 .. n - 1 : r[i] = s[i + 1]
  BY <1>1, <1>2
<1> HIDE DEF n, r
<1>4. \A i \in 1 .. n - 1 : i + 1 \in 1 .. n /\ i + 1 # 1
  BY <1>3
<1>5. \A i \in 1 .. n : i = 1 \/ (i - 1 \in 1 .. n - 1 /\ (i - 1) + 1 = i)
  BY <1>3
<1>6. IsInjective(r)
  <2> SUFFICES ASSUME NEW i \in 1 .. n - 1, NEW j \in 1 .. n - 1, r[i] = r[j] PROVE i = j
    BY <1>3 DEF IsInjective
  <2>1. i + 1 = j + 1
    BY <1>3, <1>4 DEF IsInjective
  <2>2. QED
    BY <1>3, <2>1
<1>7. ASSUME NEW x PROVE Contains(s, x) <=> x = s[1] \/ Contains(r, x)
  <2>1. ASSUME NEW i \in 1 .. n, s[i] = x PROVE x = s[1] \/ \E j \in 1 .. n - 1 : r[j] = x
    BY <1>3, <1>5, <2>1
  <2>2. ASSUME NEW j \in 1 .. n - 1, r[j] = x PROVE \E i \in 1 .. n : s[i] = x
    BY <1>3, <1>4, <2>2
  <2>3. 1 \in 1 .. n
    BY <1>3
  <2>4. QED
    BY <1>3, <2>1, <2>2, <2>3 DEF Contains, n
<1>8. ~ Contains(r, s[1])
  BY <1>3, <1>4 DEF Contains, IsInjective
<1>9. QED
  BY <1>1, <1>3, <1>6, <1>7, <1>8 DEF r

\* What hashtbl_get does to the lists.
LEMMA GetLists ==
  ASSUME TypeOK, EntriesPartitioned, NEW b \in Buckets, NEW out, out \subseteq DOMAIN chain[b],
         free' = Reverse(Gone(b, out)) \o free,
         chain' = [chain EXCEPT ![b] = Left(b, out)]
  PROVE  /\ EntriesPartitioned'
         /\ free' \in Seq(Entries) /\ chain' \in [Buckets -> Seq(Entries)]
         /\ \A d \in Buckets, e \in Entries :
              Contains(chain'[d], e) <=> Contains(chain[d], e) /\ ~ Contains(Gone(b, out), e)
<1> DEFINE G == Gone(b, out)
           L == Left(b, out)
<1>1. /\ G \in Seq(Entries) /\ IsInjective(G) /\ L \in Seq(Entries) /\ IsInjective(L)
      /\ \A x : Contains(chain[b], x) <=> Contains(G, x) \/ Contains(L, x)
      /\ \A x : ~ (Contains(G, x) /\ Contains(L, x))
  BY Split
<1> HIDE DEF G, L
<1>2. /\ free \in Seq(Entries) /\ chain \in [Buckets -> Seq(Entries)] /\ IsInjective(free)
      /\ \A d \in Buckets : IsInjective(chain[d])
  BY DEF TypeOK, EntriesPartitioned
<1>3. free' = Reverse(G) \o free /\ chain' = [chain EXCEPT ![b] = L]
  BY DEF G, L
<1>4. /\ \A e \in Entries, d \in Buckets : ~ (Contains(free, e) /\ Contains(chain[d], e))
      /\ \A e \in Entries, c, d \in Buckets : Contains(chain[c], e) /\ Contains(chain[d], e) => c = d
      /\ \A e \in Entries : Contains(free, e) \/ \E d \in Buckets : Contains(chain[d], e)
  BY Shares
<1>5. /\ Reverse(G) \in Seq(Entries) /\ IsInjective(Reverse(G))
      /\ \A x : Contains(Reverse(G), x) <=> Contains(G, x)
  BY <1>1, ReverseProps
<1>6. /\ free' \in Seq(Entries) /\ IsInjective(free')
      /\ \A x : Contains(free', x) <=> Contains(G, x) \/ Contains(free, x)
  <2>1. \A x : ~ (Contains(Reverse(G), x) /\ Contains(free, x))
    BY <1>1, <1>4, <1>5, Contained
  <2>2. QED
    BY <1>2, <1>3, <1>5, <2>1, ConcatProps
<1>7. /\ chain' \in [Buckets -> Seq(Entries)]
      /\ \A d \in Buckets : chain'[d] = IF d = b THEN L ELSE chain[d]
  BY <1>1, <1>2, <1>3
<1>8. \A d \in Buckets, e \in Entries :
        Contains(chain'[d], e) <=> Contains(chain[d], e) /\ ~ Contains(G, e)
  BY <1>1, <1>4, <1>7
<1>9. \A d \in Buckets : IsInjective(chain'[d])
  BY <1>1, <1>2, <1>7
<1>10. /\ \A e \in Entries, d \in Buckets : ~ (Contains(free', e) /\ Contains(chain'[d], e))
       /\ \A e \in Entries, c, d \in Buckets : Contains(chain'[c], e) /\ Contains(chain'[d], e) => c = d
       /\ \A e \in Entries : Contains(free', e) \/ \E d \in Buckets : Contains(chain'[d], e)
  BY <1>4, <1>6, <1>8
<1>11. EntriesPartitioned'
  BY <1>6, <1>9, <1>10 DEF EntriesPartitioned, Entries, Buckets
<1>12. QED
  BY <1>6, <1>7, <1>8, <1>11 DEF G

\* What the second half of hashtbl_put does to the lists.
LEMMA PutLists ==
  ASSUME TypeOK, EntriesPartitioned, NEW b \in Buckets, NEW out, out \subseteq DOMAIN chain[b],
         free # <<>>,
         free' = Reverse(Gone(b, out)) \o Tail(free),
         chain' = [chain EXCEPT ![b] = <<Head(free)>> \o Left(b, out)]
  PROVE  /\ EntriesPartitioned'
         /\ free' \in Seq(Entries) /\ chain' \in [Buckets -> Seq(Entries)]
         /\ Head(free) \in Entries /\ Contains(free, Head(free))
         /\ \A d \in Buckets : ~ Contains(chain[d], Head(free))
         /\ \A d \in Buckets, e \in Entries :
              Contains(chain'[d], e) <=>
                \/ d = b /\ e = Head(free)
                \/ Contains(chain[d], e) /\ ~ Contains(Gone(b, out), e)
<1> DEFINE G == Gone(b, out)
           L == Left(b, out)
           new == Head(free)
           rest == Tail(free)
<1>1. /\ G \in Seq(Entries) /\ IsInjective(G) /\ L \in Seq(Entries) /\ IsInjective(L)
      /\ \A x : Contains(chain[b], x) <=> Contains(G, x) \/ Contains(L, x)
      /\ \A x : ~ (Contains(G, x) /\ Contains(L, x))
  BY Split
<1> HIDE DEF G, L
<1>2. /\ free \in Seq(Entries) /\ chain \in [Buckets -> Seq(Entries)] /\ IsInjective(free)
      /\ \A d \in Buckets : IsInjective(chain[d])
  BY DEF TypeOK, EntriesPartitioned
<1>3. /\ new \in Entries /\ rest \in Seq(Entries) /\ IsInjective(rest)
      /\ \A x : Contains(free, x) <=> x = new \/ Contains(rest, x)
      /\ ~ Contains(rest, new)
  BY <1>2, HeadProps
<1>4. free' = Reverse(G) \o rest /\ chain' = [chain EXCEPT ![b] = <<new>> \o L]
  BY DEF G, L
<1> HIDE DEF new, rest
<1>5. /\ \A e \in Entries, d \in Buckets : ~ (Contains(free, e) /\ Contains(chain[d], e))
      /\ \A e \in Entries, c, d \in Buckets : Contains(chain[c], e) /\ Contains(chain[d], e) => c = d
      /\ \A e \in Entries : Contains(free, e) \/ \E d \in Buckets : Contains(chain[d], e)
  BY Shares
<1>6. /\ Reverse(G) \in Seq(Entries) /\ IsInjective(Reverse(G))
      /\ \A x : Contains(Reverse(G), x) <=> Contains(G, x)
  BY <1>1, ReverseProps
<1>7. /\ free' \in Seq(Entries) /\ IsInjective(free')
      /\ \A x : Contains(free', x) <=> Contains(G, x) \/ Contains(rest, x)
  <2>1. \A x : ~ (Contains(Reverse(G), x) /\ Contains(rest, x))
    BY <1>1, <1>3, <1>5, <1>6, Contained
  <2> DEFINE back == Reverse(G)
  <2>2. back \in Seq(Entries) /\ IsInjective(back) /\ \A x : ~ (Contains(back, x) /\ Contains(rest, x))
    BY <1>6, <2>1
  <2> HIDE DEF back
  <2>3. /\ back \o rest \in Seq(Entries) /\ IsInjective(back \o rest)
        /\ \A x : Contains(back \o rest, x) <=> Contains(back, x) \/ Contains(rest, x)
    BY <1>3, <2>2, ConcatProps
  <2>4. QED
    BY <1>4, <1>6, <2>3 DEF back
<1>8. \A d \in Buckets : ~ Contains(chain[d], new)
  BY <1>3, <1>5
<1>9. /\ <<new>> \o L \in Seq(Entries) /\ IsInjective(<<new>> \o L)
      /\ \A x : Contains(<<new>> \o L, x) <=> x = new \/ Contains(L, x)
  <2>1. <<new>> \in Seq(Entries) /\ Len(<<new>>) = 1 /\ <<new>>[1] = new
    BY <1>3
  <2>2. IsInjective(<<new>>)
    BY DEF IsInjective
  <2>3. \A x : Contains(<<new>>, x) <=> x = new
    BY <2>1 DEF Contains
  <2>4. ~ Contains(L, new)
    BY <1>1, <1>8
  <2> DEFINE one == <<new>>
  <2>5. one \in Seq(Entries) /\ IsInjective(one) /\ \A x : ~ (Contains(one, x) /\ Contains(L, x))
    BY <2>1, <2>2, <2>3, <2>4
  <2> HIDE DEF one
  <2>6. /\ one \o L \in Seq(Entries) /\ IsInjective(one \o L)
        /\ \A x : Contains(one \o L, x) <=> Contains(one, x) \/ Contains(L, x)
    BY <1>1, <2>5, ConcatProps
  <2>7. QED
    BY <2>3, <2>6 DEF one
<1>10. /\ chain' \in [Buckets -> Seq(Entries)]
       /\ \A d \in Buckets : chain'[d] = IF d = b THEN <<new>> \o L ELSE chain[d]
  BY <1>2, <1>4, <1>9
<1>11. \A d \in Buckets, e \in Entries :
         Contains(chain'[d], e) <=>
           \/ d = b /\ e = new
           \/ Contains(chain[d], e) /\ ~ Contains(G, e)
  BY <1>1, <1>5, <1>9, <1>10
<1>12. \A d \in Buckets : IsInjective(chain'[d])
  BY <1>2, <1>9, <1>10
<1>13. /\ \A e \in Entries, d \in Buckets : ~ (Contains(free', e) /\ Contains(chain'[d], e))
       /\ \A e \in Entries, c, d \in Buckets : Contains(chain'[c], e) /\ Contains(chain'[d], e) => c = d
       /\ \A e \in Entries : Contains(free', e) \/ \E d \in Buckets : Contains(chain'[d], e)
  <2>1. \A d \in Buckets : ~ Contains(free', new) /\ (Contains(chain'[d], new) <=> d = b)
    BY <1>1, <1>3, <1>7, <1>8, <1>11
  <2>2. ASSUME NEW e \in Entries, e # new
        PROVE  /\ Contains(free', e) <=> Contains(G, e) \/ Contains(free, e)
               /\ \A d \in Buckets : Contains(chain'[d], e) <=> Contains(chain[d], e) /\ ~ Contains(G, e)
    BY <1>3, <1>7, <1>11, <2>2
  <2>3. \A e \in Entries : Contains(G, e) => Contains(chain[b], e)
    BY <1>1
  <2>4. QED
    BY <1>5, <2>1, <2>2, <2>3
<1>14. EntriesPartitioned'
  BY <1>7, <1>12, <1>13 DEF EntriesPartitioned, Entries, Buckets
<1>15. QED
  BY <1>3, <1>7, <1>8, <1>10, <1>11, <1>14 DEF G, new

---------------------------------------------------------------------------
(* The steps.                                                              *)

\* Two entries of one hash are not linked.
HashOnce(ch, en) ==
  \A b \in Buckets : \A e, f \in Entries :
    Contains(ch[b], e) /\ Contains(ch[b], f) /\ en[e].hash = en[f].hash => e = f

HashOK == HashOnce(chain, entry)

\* OneEntryPerHash, of a table.
OncePerHash(ch, en) ==
  \A b \in Buckets : \A i, j \in DOMAIN ch[b] :
    /\ en[ch[b][i]].hash % Size = b
    /\ en[ch[b][i]].hash = en[ch[b][j]].hash => i = j

\* OneEntryPerHash in terms of what the chains contain.
LEMMA HashPerEntry ==
  ASSUME NEW ch \in [Buckets -> Seq(Entries)], NEW en,
         \A b \in Buckets : IsInjective(ch[b]),
         \A b \in Buckets : \A e \in Entries : Contains(ch[b], e) => en[e].hash % Size = b
  PROVE  HashOnce(ch, en) <=> OncePerHash(ch, en)
<1>1. ASSUME NEW b \in Buckets
      PROVE  /\ DOMAIN ch[b] = 1 .. Len(ch[b])
             /\ \A i \in DOMAIN ch[b] : ch[b][i] \in Entries /\ Contains(ch[b], ch[b][i])
  <2>1. DOMAIN ch[b] = 1 .. Len(ch[b])
    BY LenProperties
  <2>2. QED
    BY <2>1, ElementOfSeq DEF Contains
<1>2. ASSUME HashOnce(ch, en), NEW b \in Buckets, NEW i \in DOMAIN ch[b], NEW j \in DOMAIN ch[b]
      PROVE  /\ en[ch[b][i]].hash % Size = b
             /\ en[ch[b][i]].hash = en[ch[b][j]].hash => i = j
  <2>1. /\ ch[b][i] \in Entries /\ Contains(ch[b], ch[b][i])
        /\ ch[b][j] \in Entries /\ Contains(ch[b], ch[b][j])
    BY <1>1
  <2>2. en[ch[b][i]].hash = en[ch[b][j]].hash => ch[b][i] = ch[b][j]
    BY <1>2, <2>1 DEF HashOnce
  <2>3. QED
    BY <2>1, <2>2 DEF IsInjective
<1>3. ASSUME \A b \in Buckets : \A i, j \in DOMAIN ch[b] : en[ch[b][i]].hash = en[ch[b][j]].hash => i = j,
             NEW b \in Buckets, NEW e \in Entries, NEW f \in Entries,
             Contains(ch[b], e), Contains(ch[b], f), en[e].hash = en[f].hash
      PROVE  e = f
  <2>1. PICK i \in DOMAIN ch[b], j \in DOMAIN ch[b] : ch[b][i] = e /\ ch[b][j] = f
    BY <1>1, <1>3 DEF Contains
  <2>2. i = j
    BY <1>3, <2>1
  <2>3. QED
    BY <2>1, <2>2
<1>4. QED
  BY <1>2, <1>3 DEF HashOnce, OncePerHash

LEMMA HashBefore ==
  ASSUME TypeOK, EntriesPartitioned, ChainsOK
  PROVE  OneEntryPerHash <=> HashOK
<1>1. chain \in [Buckets -> Seq(Entries)]
  BY DEF TypeOK, Buckets, Entries
<1>2. \A b \in Buckets : IsInjective(chain[b])
  BY DEF EntriesPartitioned, Buckets
<1>3. \A b \in Buckets : \A e \in Entries : Contains(chain[b], e) => entry[e].hash % Size = b
  BY DEF ChainsOK, Buckets, Entries
<1>4. HashOnce(chain, entry) <=> OncePerHash(chain, entry)
  BY <1>1, <1>2, <1>3, HashPerEntry
<1>5. QED
  BY <1>4 DEF OneEntryPerHash, HashOK, HashOnce, OncePerHash, Buckets, Entries

\* The same after a step.
LEMMA HashAfter ==
  ASSUME TypeOK', EntriesPartitioned', ChainsOK'
  PROVE  OneEntryPerHash' <=> HashOK'
<1>1. chain' \in [Buckets -> Seq(Entries)]
  BY DEF TypeOK, Buckets, Entries
<1>2. \A b \in Buckets : IsInjective(chain'[b])
  BY DEF EntriesPartitioned, Buckets
<1>3. \A b \in Buckets : \A e \in Entries : Contains(chain'[b], e) => entry'[e].hash % Size = b
  BY DEF ChainsOK, Buckets, Entries
<1>4. HashOnce(chain', entry') <=> OncePerHash(chain', entry')
  BY <1>1, <1>2, <1>3, HashPerEntry
<1>5. QED
  BY <1>4 DEF OneEntryPerHash, HashOK, HashOnce, OncePerHash, Buckets, Entries

\* An entry that is freed loses its expiry date, the others nothing.
LEMMA ClearedProps ==
  ASSUME TypeOK, NEW gone
  PROVE  /\ Cleared(gone) \in [Entries -> [hash : Nat, expires : 0 .. MaxTime + TTL, value : Addresses]]
         /\ \A e \in Entries : ~ Contains(gone, e) => Cleared(gone)[e] = entry[e]
<1>1. 0 \in 0 .. MaxTime + TTL
  BY DnsTableAssumption
<1>2. ASSUME NEW e \in Entries
      PROVE  [entry[e] EXCEPT !.expires = 0] \in [hash : Nat, expires : 0 .. MaxTime + TTL, value : Addresses]
  BY <1>1 DEF TypeOK
<1>3. QED
  BY <1>2 DEF Cleared, TypeOK

\* A walk up to the first hit, or to the end.
LEMMA GetShape ==
  ASSUME IInv, NEW t \in Threads, hashtbl_get(t)
  PROVE  LET b == Bucket(name[t]) IN
         \E out \in SUBSET DOMAIN chain[b] :
           /\ \A i \in out : entry[chain[b][i]].expires < clock[t]
           /\ chain' = [chain EXCEPT ![b] = Left(b, out)]
           /\ free' = Reverse(Gone(b, out)) \o free
           /\ entry' = Cleared(Gone(b, out))
           /\ \/ \E i \in Hits(t) : /\ addr' = [addr EXCEPT ![t] = entry[chain[b][i]].value]
                                  /\ pc' = [pc EXCEPT ![t] = "found"]
              \/ addr' = addr /\ pc' = [pc EXCEPT ![t] = "resolve"]
<1> DEFINE b == Bucket(name[t])
           c == chain[b]
           stop == IF Hits(t) = {} THEN Len(c) + 1 ELSE CHOOSE i \in Hits(t) : \A j \in Hits(t) : i <= j
           out == {i \in DOMAIN c : i < stop /\ entry[c[i]].expires < clock[t]}
<1>1. /\ chain' = [chain EXCEPT ![b] = Sublist(c, DOMAIN c \ out)]
      /\ free' = Reverse(Sublist(c, out)) \o free
      /\ entry' = Cleared(Sublist(c, out))
      /\ IF stop <= Len(c)
         THEN addr' = [addr EXCEPT ![t] = entry[c[stop]].value] /\ pc' = [pc EXCEPT ![t] = "found"]
         ELSE addr' = addr /\ pc' = [pc EXCEPT ![t] = "resolve"]
  BY DEF hashtbl_get, Release, Goto
<1>2. stop <= Len(c) => stop \in Hits(t)
  <2>1. name[t] \in Names
    BY DEF IInv, TypeOK
  <2>2. c \in Seq(Entries)
    BY <2>1, BucketType DEF IInv, TypeOK
  <2>3. Len(c) \in Nat /\ DOMAIN c = 1 .. Len(c)
    BY <2>2, LenProperties
  <2>4. CASE Hits(t) = {}
    BY <2>3, <2>4
  <2>5. CASE Hits(t) # {}
    <3>1. Hits(t) \subseteq Nat
      BY <2>3 DEF Hits
    <3>2. \E i \in Hits(t) : \A j \in Hits(t) : i <= j
      BY <2>5, <3>1, LeastNat
    <3>3. QED
      BY <2>5, <3>2
  <2>6. QED
    BY <2>4, <2>5
<1>3. out \in SUBSET DOMAIN chain[b] /\ \A i \in out : entry[chain[b][i]].expires < clock[t]
  OBVIOUS
<1> HIDE DEF stop, out
<1>4. QED
  BY <1>1, <1>2, <1>3 DEF Gone, Left

\* Entries that stay linked, as they were, stay in order.
LEMMA LinksStay ==
  ASSUME ChainsOK, HashOK,
         \A d \in Buckets, e \in Entries :
           Contains(chain'[d], e) => Contains(chain[d], e) /\ entry'[e] = entry[e]
  PROVE  ChainsOK' /\ HashOK'
BY DEF ChainsOK, HashOK, HashOnce, Buckets, Entries

LEMMA GetStep ==
  ASSUME IInv, NEW t \in Threads, hashtbl_get(t)
  PROVE  IInv'
<1> DEFINE b == Bucket(name[t])
<1>1. /\ pc[t] = "get" /\ lock = NoThread /\ clock' = [clock EXCEPT ![t] = 0]
      /\ UNCHANGED <<now, name, lock>>
  BY DEF hashtbl_get
<1>2. PICK out \in SUBSET DOMAIN chain[b] :
        /\ \A i \in out : entry[chain[b][i]].expires < clock[t]
        /\ chain' = [chain EXCEPT ![b] = Left(b, out)]
        /\ free' = Reverse(Gone(b, out)) \o free
        /\ entry' = Cleared(Gone(b, out))
        /\ \/ \E i \in Hits(t) : /\ addr' = [addr EXCEPT ![t] = entry[chain[b][i]].value]
                               /\ pc' = [pc EXCEPT ![t] = "found"]
           \/ addr' = addr /\ pc' = [pc EXCEPT ![t] = "resolve"]
  BY GetShape
<1>3. b \in Buckets
  BY BucketType DEF IInv, TypeOK
<1> HIDE DEF b
<1>4. TypeOK /\ EntriesPartitioned /\ ChainsOK /\ HashOK
  BY HashBefore DEF IInv
<1>5. /\ EntriesPartitioned' /\ free' \in Seq(Entries) /\ chain' \in [Buckets -> Seq(Entries)]
      /\ \A d \in Buckets, e \in Entries :
           Contains(chain'[d], e) <=> Contains(chain[d], e) /\ ~ Contains(Gone(b, out), e)
  BY <1>2, <1>3, <1>4, GetLists
<1>6. /\ entry' \in [Entries -> [hash : Nat, expires : 0 .. MaxTime + TTL, value : Addresses]]
      /\ \A e \in Entries : ~ Contains(Gone(b, out), e) => entry'[e] = entry[e]
  BY <1>2, <1>4, ClearedProps
<1>7. TypeOK'
  <2>1. \A i \in Hits(t) : entry[chain[b][i]].value \in Addresses
    <3>1. Hits(t) \subseteq DOMAIN chain[b]
      BY DEF Hits, b
    <3>2. \A i \in DOMAIN chain[b] : chain[b][i] \in Entries
      BY <1>3, <1>4, LenProperties, ElementOfSeq DEF TypeOK
    <3>3. QED
      BY <1>4, <3>1, <3>2 DEF TypeOK
  <2>2. addr' \in [Threads -> Addresses]
    BY <1>2, <1>4, <2>1 DEF TypeOK
  <2>3. pc' \in [Threads -> Places]
    BY <1>2, <1>4 DEF TypeOK, Places
  <2>4. clock' \in [Threads -> 0 .. MaxTime]
    BY <1>1, <1>4, DnsTableAssumption DEF TypeOK
  <2>5. QED
    BY <1>1, <1>4, <1>5, <1>6, <2>2, <2>3, <2>4 DEF TypeOK, Entries, Buckets, Addresses
<1>8. LockOK'
  <2>1. \A u \in Threads : pc[u] \notin {"insert", "unlock"}
    BY <1>1, DnsTableAssumption DEF IInv, LockOK
  <2>2. \A u \in Threads : pc'[u] \notin {"insert", "unlock"}
    BY <1>2, <1>4, <2>1 DEF TypeOK
  <2>3. QED
    BY <2>2 DEF LockOK
<1>9. LookupOK'
  <2>1. \A u \in Threads : u # t => pc'[u] = pc[u] /\ addr'[u] = addr[u] /\ clock'[u] = clock[u]
    BY <1>1, <1>2, <1>4 DEF TypeOK
  <2>2. pc'[t] \in {"found", "resolve"} /\ clock'[t] = 0
    BY <1>1, <1>2, <1>4 DEF TypeOK
  <2>3. 0 <= now
    BY <1>4, DnsTableAssumption DEF TypeOK
  <2>4. QED
    BY <1>1, <2>1, <2>2, <2>3 DEF IInv, LookupOK
<1>10. ChainsOK' /\ HashOK'
  BY <1>4, <1>5, <1>6, LinksStay
<1>11. OneEntryPerHash'
  BY <1>5, <1>7, <1>10, HashAfter
<1>12. QED
  BY <1>5, <1>7, <1>8, <1>9, <1>10, <1>11 DEF IInv

\* Only what hashtbl_check did not stop, and another entry of the hash or one that
\* has expired, makes room for the new entry.
LEMMA InsertStep ==
  ASSUME IInv, NEW t \in Threads, hashtbl_put_insert(t)
  PROVE  IInv'
<1> DEFINE b == Bucket(name[t])
           c == chain[b]
           new == Head(free)
           out == {i \in DOMAIN c : Purged(t, c[i])}
           fresh == [hash |-> Hash[name[t]], expires |-> Expiry(t), value |-> addr[t]]
<1>1. /\ pc[t] = "insert" /\ lock' = NoThread /\ pc' = [pc EXCEPT ![t] = "found"]
      /\ chain' = [chain EXCEPT ![b] = <<new>> \o Left(b, out)]
      /\ free' = Reverse(Gone(b, out)) \o Tail(free)
      /\ entry' = [Cleared(Gone(b, out)) EXCEPT ![new] = fresh]
      /\ UNCHANGED <<now, name, clock, addr>>
  BY DEF hashtbl_put_insert, Goto, Left, Gone
<1>2. TypeOK /\ EntriesPartitioned /\ ChainsOK /\ HashOK /\ LockOK /\ LookupOK
  BY HashBefore DEF IInv
<1>3. name[t] \in Names /\ b \in Buckets /\ b = Hash[name[t]] % Size /\ Hash[name[t]] \in Nat
  BY <1>2, BucketType DEF TypeOK
<1>4. free # <<>> /\ lock = t /\ addr[t].host = name[t] /\ addr[t].at <= now
  BY <1>1, <1>2 DEF LockOK, LookupOK
<1>5. out \subseteq DOMAIN chain[b] /\ \A i \in DOMAIN chain[b] : i \in out <=> Purged(t, chain[b][i])
  OBVIOUS
<1> HIDE DEF b, out, new
<1>6. /\ EntriesPartitioned' /\ free' \in Seq(Entries) /\ chain' \in [Buckets -> Seq(Entries)]
      /\ new \in Entries /\ \A d \in Buckets : ~ Contains(chain[d], new)
      /\ \A d \in Buckets, e \in Entries :
           Contains(chain'[d], e) <=>
             \/ d = b /\ e = new
             \/ Contains(chain[d], e) /\ ~ Contains(Gone(b, out), e)
  BY <1>1, <1>2, <1>3, <1>4, <1>5, PutLists DEF new
<1>7. fresh \in [hash : Nat, expires : 0 .. MaxTime + TTL, value : Addresses]
  <2>1. addr[t] \in Addresses
    BY <1>2 DEF TypeOK
  <2>2. addr[t].at \in 0 .. MaxTime
    BY <2>1 DEF Addresses
  <2>3. Expiry(t) \in 0 .. MaxTime + TTL
    BY <2>2, DnsTableAssumption DEF Expiry
  <2>4. QED
    BY <1>3, <2>1, <2>3
<1>8. fresh.hash = Hash[name[t]] /\ fresh.expires = fresh.value.at + TTL /\ fresh.value.host = name[t]
  BY <1>4 DEF Expiry
<1> HIDE DEF fresh
<1>9. /\ entry' \in [Entries -> [hash : Nat, expires : 0 .. MaxTime + TTL, value : Addresses]]
      /\ entry'[new] = fresh
      /\ \A e \in Entries : e # new /\ ~ Contains(Gone(b, out), e) => entry'[e] = entry[e]
  <2>1. /\ Cleared(Gone(b, out)) \in [Entries -> [hash : Nat, expires : 0 .. MaxTime + TTL, value : Addresses]]
        /\ \A e \in Entries : ~ Contains(Gone(b, out), e) => Cleared(Gone(b, out))[e] = entry[e]
    BY <1>2, ClearedProps
  <2>2. QED
    BY <1>1, <1>6, <1>7, <2>1
<1>10. TypeOK'
  <2>1. pc' \in [Threads -> Places]
    BY <1>1, <1>2 DEF TypeOK, Places
  <2>2. QED
    BY <1>1, <1>2, <1>6, <1>9, <2>1 DEF TypeOK, Entries, Buckets, Addresses
<1>11. LockOK'
  <2>1. \A u \in Threads : u # t => pc[u] \notin {"insert", "unlock"}
    BY <1>2, <1>4 DEF LockOK
  <2>2. \A u \in Threads : pc'[u] \notin {"insert", "unlock"}
    BY <1>1, <1>2, <2>1 DEF TypeOK
  <2>3. QED
    BY <2>2 DEF LockOK
<1>12. LookupOK'
  BY <1>1, <1>2 DEF LookupOK, TypeOK
<1>13. \A d \in Buckets, e \in Entries : Contains(chain'[d], e) =>
         \/ d = b /\ e = new /\ entry'[e] = fresh
         \/ Contains(chain[d], e) /\ entry'[e] = entry[e] /\ (d = b => entry[e].hash # Hash[name[t]])
  <2> SUFFICES ASSUME NEW d \in Buckets, NEW e \in Entries, Contains(chain'[d], e), ~ (d = b /\ e = new)
               PROVE  Contains(chain[d], e) /\ entry'[e] = entry[e] /\ (d = b => entry[e].hash # Hash[name[t]])
    BY <1>9
  <2>1. Contains(chain[d], e) /\ ~ Contains(Gone(b, out), e)
    BY <1>6
  <2>2. entry'[e] = entry[e]
    BY <1>6, <1>9, <2>1
  <2>3. ASSUME d = b PROVE entry[e].hash # Hash[name[t]]
    <3>1. chain[b] \in Seq(Entries) /\ DOMAIN chain[b] = 1 .. Len(chain[b])
      BY <1>2, <1>3, LenProperties DEF TypeOK
    <3>2. PICK i \in DOMAIN chain[b] : chain[b][i] = e
      BY <2>1, <2>3, <3>1 DEF Contains
    <3>3. i \notin out
      BY <1>2, <1>3, <1>5, <2>1, <3>2, Split
    <3>4. QED
      BY <1>5, <3>2, <3>3 DEF Purged
  <2>4. QED
    BY <2>1, <2>2, <2>3
<1>14. ChainsOK'
  <2> SUFFICES ASSUME NEW d \in Buckets, NEW e \in Entries, Contains(chain'[d], e)
               PROVE  /\ entry'[e].hash % Size = d
                      /\ Hash[entry'[e].value.host] = entry'[e].hash
                      /\ entry'[e].expires = entry'[e].value.at + TTL
    BY DEF ChainsOK, Buckets, Entries
  <2>1. CASE d = b /\ e = new /\ entry'[e] = fresh
    BY <1>3, <1>8, <2>1
  <2>2. CASE Contains(chain[d], e) /\ entry'[e] = entry[e]
    BY <1>2, <2>2 DEF ChainsOK
  <2>3. QED
    BY <1>13, <2>1, <2>2
<1>15. HashOK'
  <2> SUFFICES ASSUME NEW d \in Buckets, NEW e \in Entries, NEW f \in Entries,
                      Contains(chain'[d], e), Contains(chain'[d], f), entry'[e].hash = entry'[f].hash
               PROVE  e = f
    BY DEF HashOK, HashOnce, Buckets, Entries
  <2>1. CASE e = new \/ f = new
    BY <1>6, <1>8, <1>13, <2>1
  <2>2. CASE e # new /\ f # new
    BY <1>2, <1>13, <2>2 DEF HashOK, HashOnce
  <2>3. QED
    BY <2>1, <2>2
<1>16. OneEntryPerHash'
  BY <1>6, <1>10, <1>14, <1>15, HashAfter
<1>17. QED
  BY <1>6, <1>10, <1>11, <1>12, <1>14, <1>16 DEF IInv

\* A step that leaves the table alone.
LEMMA TableStays ==
  ASSUME ChainsOK, EntriesPartitioned, OneEntryPerHash, UNCHANGED table
  PROVE  ChainsOK' /\ EntriesPartitioned' /\ OneEntryPerHash'
BY DEF table, ChainsOK, EntriesPartitioned, OneEntryPerHash, Buckets, Entries

\* The steps of a lookup outside of hmutex.
LEMMA FreeStep ==
  ASSUME IInv, NEW t \in Threads,
         Lookup(t) \/ hashtbl_get_now(t) \/ host_serv(t) \/ Done(t)
  PROVE  IInv'
<1>1. /\ TypeOK /\ LockOK /\ LookupOK /\ UNCHANGED <<now, lock, table>> /\ UNCHANGED table
      /\ pc[t] \in {"idle", "clock", "resolve", "found", "failed"}
  BY DEF IInv, Lookup, hashtbl_get_now, host_serv, Done
<1>2. \E p \in {"clock", "get", "put", "failed", "idle"} : pc' = [pc EXCEPT ![t] = p]
  BY DEF Lookup, hashtbl_get_now, host_serv, Done, Goto
<1>3. /\ name' \in [Threads -> Names] /\ clock' \in [Threads -> 0 .. MaxTime]
      /\ addr' \in [Threads -> Addresses]
      /\ \A u \in Threads \ {t} : name'[u] = name[u] /\ clock'[u] = clock[u] /\ addr'[u] = addr[u]
      /\ clock'[t] \in {clock[t], now}
      /\ pc'[t] = "put" => addr'[t].host = name'[t] /\ addr'[t].at <= now
  <2>1. NoAddress.host \in Names /\ NoAddress \in Addresses
    BY DnsTableAssumption DEF NoAddress, Addresses
  <2>2. CASE Lookup(t)
    BY <1>1, <2>2 DEF Lookup, Goto, TypeOK
  <2>3. CASE hashtbl_get_now(t)
    BY <1>1, <2>3 DEF hashtbl_get_now, Goto, TypeOK
  <2>4. CASE host_serv(t)
    <3>1. [host |-> name[t], at |-> now] \in Addresses /\ now <= now
      BY <1>1, DnsTableAssumption DEF TypeOK, Addresses
    <3>2. /\ name' = name /\ clock' = clock /\ addr \in [Threads -> Addresses]
          /\ name \in [Threads -> Names] /\ clock \in [Threads -> 0 .. MaxTime]
          /\ pc \in [Threads -> Places]
      BY <1>1, <2>4 DEF host_serv, TypeOK
    <3>3. CASE addr' = [addr EXCEPT ![t] = [host |-> name[t], at |-> now]]
      BY <3>1, <3>2, <3>3
    <3>4. CASE addr' = addr /\ pc' = [pc EXCEPT ![t] = "failed"]
      BY <3>2, <3>4
    <3>5. QED
      BY <2>4, <3>3, <3>4 DEF host_serv, Goto
  <2>5. CASE Done(t)
    BY <1>1, <2>1, <2>5 DEF Done, Goto, TypeOK
  <2>6. QED
    BY <2>2, <2>3, <2>4, <2>5
<1>4. TypeOK'
  BY <1>1, <1>2, <1>3 DEF TypeOK, Places, table, Entries, Buckets, Addresses
<1>5. LockOK'
  <2> SUFFICES ASSUME NEW u \in Threads, pc'[u] \in {"insert", "unlock"}
               PROVE  lock' = u /\ (pc'[u] = "insert" => free' # <<>> /\ ~ hashtbl_check(name[u])')
    BY <1>3 DEF LockOK
  <2>1. u # t /\ pc[u] = pc'[u]
    BY <1>1, <1>2 DEF TypeOK
  <2>2. name'[u] = name[u] /\ UNCHANGED <<now, lock, free, chain, entry>>
    BY <1>1, <1>3, <2>1 DEF table
  <2>3. QED
    BY <1>1, <2>1, <2>2 DEF LockOK, hashtbl_check, Bucket
<1>6. LookupOK'
  <2> SUFFICES ASSUME NEW u \in Threads
               PROVE  /\ clock'[u] <= now
                      /\ pc'[u] \in {"put", "insert"} => addr'[u].host = name'[u] /\ addr'[u].at <= now
    BY <1>1 DEF LookupOK
  <2>1. CASE u = t
    <3>1. now <= now
      BY <1>1, DnsTableAssumption DEF TypeOK
    <3>2. QED
      BY <1>1, <1>2, <1>3, <2>1, <3>1 DEF LookupOK, TypeOK
  <2>2. CASE u # t
    BY <1>1, <1>2, <1>3, <2>2 DEF LookupOK, TypeOK
  <2>3. QED
    BY <2>1, <2>2
<1>7. QED
  BY <1>1, <1>4, <1>5, <1>6, TableStays DEF IInv

\* The first half of hashtbl_put takes hmutex; its early returns give it back.
LEMMA PutStep ==
  ASSUME IInv, NEW t \in Threads, hashtbl_put(t) \/ hashtbl_put_returns(t)
  PROVE  IInv'
<1>1. /\ TypeOK /\ LockOK /\ LookupOK
      /\ UNCHANGED <<now, name, clock, addr, free, chain, entry>> /\ UNCHANGED table
  BY DEF IInv, hashtbl_put, hashtbl_put_returns, table
<1>2. \/ /\ pc[t] = "put" /\ lock = NoThread /\ lock' = t
         /\ pc' = [pc EXCEPT ![t] = IF free = <<>> \/ hashtbl_check(name[t]) THEN "unlock" ELSE "insert"]
      \/ pc[t] = "unlock" /\ lock' = NoThread /\ pc' = [pc EXCEPT ![t] = "found"]
  BY DEF hashtbl_put, hashtbl_put_returns, Goto
<1>3. TypeOK'
  BY <1>1, <1>2 DEF TypeOK, Places, Entries, Buckets, Addresses
<1>4. LockOK'
  <2> SUFFICES ASSUME NEW u \in Threads, pc'[u] \in {"insert", "unlock"}
               PROVE  lock' = u /\ (pc'[u] = "insert" => free' # <<>> /\ ~ hashtbl_check(name[u])')
    BY <1>1 DEF LockOK
  <2>1. u = t
    BY <1>1, <1>2, DnsTableAssumption DEF LockOK, TypeOK
  <2>2. lock' = t /\ (pc'[t] = "insert" => free # <<>> /\ ~ hashtbl_check(name[t]))
    BY <1>1, <1>2, <2>1 DEF TypeOK
  <2>3. hashtbl_check(name[t])' <=> hashtbl_check(name[t])
    BY <1>1 DEF hashtbl_check, Bucket
  <2>4. QED
    BY <1>1, <2>1, <2>2, <2>3
<1>5. LookupOK'
  BY <1>1, <1>2 DEF LookupOK, TypeOK
<1>6. QED
  BY <1>1, <1>3, <1>4, <1>5, TableStays DEF IInv

\* The clock goes on; what has expired stays so.
LEMMA TickStep == ASSUME IInv, Tick PROVE IInv'
<1>1. /\ TypeOK /\ LockOK /\ LookupOK /\ now < MaxTime /\ now' = now + 1
      /\ UNCHANGED <<pc, name, clock, addr, lock, free, chain, entry>> /\ UNCHANGED table
  BY DEF IInv, Tick, table
<1>2. now \in Nat /\ MaxTime \in Nat
  BY <1>1, DnsTableAssumption DEF TypeOK
<1>3. TypeOK'
  BY <1>1, <1>2 DEF TypeOK, Entries, Buckets, Addresses
<1>4. LockOK'
  <2>1. ASSUME NEW u \in Threads, hashtbl_check(name[u])' PROVE hashtbl_check(name[u])
    <3>1. name[u] \in Names /\ Bucket(name[u]) \in Buckets
      BY <1>1, BucketType DEF TypeOK
    <3>2. \A i \in DOMAIN chain[Bucket(name[u])] : entry[chain[Bucket(name[u])][i]].expires \in Nat
      <4>1. chain[Bucket(name[u])] \in Seq(Entries)
        BY <1>1, <3>1 DEF TypeOK
      <4>2. \A i \in DOMAIN chain[Bucket(name[u])] : chain[Bucket(name[u])][i] \in Entries
        BY <4>1, LenProperties, ElementOfSeq
      <4>3. \A e \in Entries : entry[e].expires \in 0 .. MaxTime + TTL
        BY <1>1 DEF TypeOK
      <4>4. QED
        BY <4>2, <4>3
    <3>3. \E i \in DOMAIN chain[Bucket(name[u])] :
            /\ entry[chain[Bucket(name[u])][i]].hash = Hash[name[u]]
            /\ entry[chain[Bucket(name[u])][i]].expires > now + 1
      BY <1>1, <2>1 DEF hashtbl_check, Bucket
    <3>4. QED
      BY <1>2, <3>2, <3>3 DEF hashtbl_check
  <2>2. QED
    BY <1>1, <2>1 DEF LockOK
<1>5. LookupOK'
  <2>1. \A u \in Threads : clock[u] \in Nat /\ addr[u].at \in Nat
    BY <1>1 DEF TypeOK, Addresses
  <2>2. QED
    BY <1>1, <1>2, <2>1 DEF LookupOK
<1>6. QED
  BY <1>1, <1>3, <1>4, <1>5, TableStays DEF IInv

---------------------------------------------------------------------------
\* At first every entry is free.
LEMMA InitOK == Init => IInv
<1> SUFFICES ASSUME Init PROVE IInv
  OBVIOUS
<1>1. Size \in Nat \ {0} /\ TTL \in Nat /\ MaxTime \in Nat
  BY DnsTableAssumption
<1>2. NoAddress \in Addresses /\ NoAddress.host \in Names
  BY DnsTableAssumption DEF NoAddress, Addresses
<1>3. /\ free \in Seq(Entries) /\ Len(free) = Size /\ DOMAIN free = 1 .. Size
      /\ \A i \in 1 .. Size : free[i] = i
  <2>1. free \in [1 .. Size -> Entries] /\ \A i \in 1 .. Size : free[i] = i
    BY DEF Init, Entries
  <2>2. QED
    BY <1>1, <2>1
<1>4. \A b \in Buckets : chain[b] = <<>> /\ DOMAIN chain[b] = {} /\ \A e \in Entries : ~ Contains(chain[b], e)
  <2>1. Len(<<>>) = 0 /\ DOMAIN <<>> = {}
    OBVIOUS
  <2>2. QED
    BY <2>1 DEF Init, Contains
<1>5. TypeOK
  <2>1. chain \in [Buckets -> Seq(Entries)]
    BY DEF Init
  <2>2. entry \in [Entries -> [hash : Nat, expires : 0 .. MaxTime + TTL, value : Addresses]]
    BY <1>1, <1>2 DEF Init
  <2>3. QED
    BY <1>1, <1>2, <1>3, <2>1, <2>2 DEF Init, TypeOK, Places
<1>6. LockOK /\ LookupOK
  BY <1>1 DEF Init, LockOK, LookupOK
<1>7. ChainsOK /\ OneEntryPerHash
  BY <1>4 DEF ChainsOK, OneEntryPerHash
<1>8. EntriesPartitioned
  <2>1. IsInjective(free) /\ \A e \in Entries : Contains(free, e)
    BY <1>3 DEF IsInjective, Contains, Entries
  <2>2. \A b \in Buckets : IsInjective(chain[b])
    BY <1>4 DEF IsInjective
  <2>3. QED
    BY <1>4, <2>1, <2>2 DEF EntriesPartitioned
<1>9. QED
  BY <1>5, <1>6, <1>7, <1>8 DEF IInv

\* The invariant holds in every state of the cache.
THEOREM Invariance == Spec => []IInv
<1>1. IInv /\ [Next]_vars => IInv'
  <2> SUFFICES ASSUME IInv, [Next]_vars PROVE IInv'
    OBVIOUS
  <2>1. CASE Tick
    BY <2>1, TickStep
  <2>2. CASE \E t \in Threads : Lookup(t) \/ Step(t)
    BY <2>2, FreeStep, GetStep, PutStep, InsertStep DEF Step
  <2>3. CASE UNCHANGED vars
    BY <2>3 DEF vars, table, IInv, TypeOK, LockOK, LookupOK, ChainsOK, EntriesPartitioned, OneEntryPerHash,
       hashtbl_check, Bucket, Entries, Buckets, Addresses
  <2>4. QED
    BY <2>1, <2>2, <2>3 DEF Next
<1>2. QED
  BY InitOK, <1>1, PTL DEF Spec

\* Every variable stays in its type; no expiry date passes the end of the run by
\* more than the time to live.
THEOREM TypeCorrect == Spec => []TypeOK
<1>1. IInv => TypeOK
  BY DEF IInv
<1>2. QED
  BY Invariance, <1>1, PTL

\* The loops of hashtbl_get and hashtbl_put lose no entry and link none twice,
\* whatever hashes collide and whatever expires on the way.
THEOREM NoEntryLost == Spec => []EntriesPartitioned
<1>1. IInv => EntriesPartitioned
  BY DEF IInv
<1>2. QED
  BY Invariance, <1>1, PTL

\* Sessions that miss the same name at the same time leave one entry for it.
THEOREM HashOnlyOnce == Spec => []OneEntryPerHash
<1>1. IInv => OneEntryPerHash
  BY DEF IInv
<1>2. QED
  BY Invariance, <1>1, PTL

\* A hit of hashtbl_get is an address of a name of that hash, not older than
\* DNS_TTL on the clock that the session read.
THEOREM HitsAreFresh == Spec => HitIsFresh
<1> DEFINE Fresh(t) == pc[t] = "get" /\ pc'[t] = "found" =>
                         /\ Hash[addr'[t].host] = Hash[name[t]]
                         /\ addr'[t].at + TTL >= clock[t]
<1>1. ASSUME IInv, NEW t \in Threads, hashtbl_get(t), pc'[t] = "found"
      PROVE  Hash[addr'[t].host] = Hash[name[t]] /\ addr'[t].at + TTL >= clock[t]
  <2> DEFINE b == Bucket(name[t])
  <2>1. TypeOK /\ ChainsOK
    BY <1>1 DEF IInv
  <2>2. \/ \E i \in Hits(t) : addr' = [addr EXCEPT ![t] = entry[chain[b][i]].value]
        \/ pc' = [pc EXCEPT ![t] = "resolve"]
    BY <1>1, GetShape
  <2>3. PICK i \in Hits(t) : addr' = [addr EXCEPT ![t] = entry[chain[b][i]].value]
    BY <1>1, <2>1, <2>2 DEF TypeOK
  <2>4. b \in Buckets
    BY <2>1, BucketType DEF TypeOK
  <2>5. /\ i \in DOMAIN chain[b] /\ entry[chain[b][i]].hash = Hash[name[t]]
        /\ entry[chain[b][i]].expires >= clock[t]
    BY DEF Hits
  <2>6. chain[b][i] \in Entries /\ Contains(chain[b], chain[b][i])
    <3>1. chain[b] \in Seq(Entries)
      BY <2>1, <2>4 DEF TypeOK
    <3>2. DOMAIN chain[b] = 1 .. Len(chain[b])
      BY <3>1, LenProperties
    <3>3. QED
      BY <2>5, <3>1, <3>2, ElementOfSeq DEF Contains
  <2>7. addr'[t] = entry[chain[b][i]].value
    BY <2>1, <2>3 DEF TypeOK
  <2>8. QED
    BY <2>4, <2>5, <2>6, <2>7, <2>1 DEF ChainsOK
<1>2. ASSUME IInv, [Next]_vars, NEW t \in Threads, pc[t] = "get", pc'[t] = "found"
      PROVE  hashtbl_get(t)
  <2>1. pc' # pc
    BY <1>2
  <2>2. PICK u \in Threads : Lookup(u) \/ Step(u)
    BY <1>2, <2>1 DEF Next, Tick, vars
  <2>3. \E p : pc' = [pc EXCEPT ![u] = p]
    BY <2>2 DEF Lookup, Step, hashtbl_get_now, host_serv, hashtbl_put, hashtbl_put_returns,
       hashtbl_put_insert, hashtbl_get, Done, Goto
  <2>4. u = t
    BY <1>2, <2>3 DEF IInv, TypeOK
  <2>5. QED
    BY <1>2, <2>2, <2>4 DEF Lookup, Step, hashtbl_get_now, host_serv, hashtbl_put, hashtbl_put_returns,
       hashtbl_put_insert, Done
<1>3. IInv /\ [Next]_vars => \A t \in Threads : Fresh(t)
  BY <1>1, <1>2
<1>4. IInv /\ [Next]_vars => [\A t \in Threads : Fresh(t)]_vars
  BY <1>3
<1>5. QED
  BY Invariance, <1>4, PTL DEF Spec, HitIsFresh

\* hashtbl_put does not push out an answer that is still good, although the clock
\* may go on between hashtbl_check and the purge.
THEOREM LiveEntriesStay == Spec => LiveEntryStays
<1> DEFINE Stays(e) == entry[e].expires > now /\ ~ Contains(free, e) => entry'[e] = entry[e]
<1>1. ASSUME IInv, NEW t \in Threads, hashtbl_get(t), NEW e \in Entries, entry[e].expires > now
      PROVE  entry'[e] = entry[e]
  <2> DEFINE b == Bucket(name[t])
  <2>1. TypeOK /\ EntriesPartitioned /\ clock[t] <= now
    BY <1>1 DEF IInv, LookupOK
  <2>2. PICK out \in SUBSET DOMAIN chain[b] :
          /\ \A i \in out : entry[chain[b][i]].expires < clock[t]
          /\ entry' = Cleared(Gone(b, out))
    BY <1>1, GetShape
  <2>3. b \in Buckets
    BY <2>1, BucketType DEF TypeOK
  <2>4. now \in Nat /\ clock[t] \in Nat /\ entry[e].expires \in Nat
    BY <2>1, DnsTableAssumption DEF TypeOK
  <2>5. ~ Contains(Gone(b, out), e)
    <3>1. ~ \E i \in out : chain[b][i] = e
      BY <1>1, <2>1, <2>2, <2>4
    <3>2. QED
      BY <2>1, <2>3, <3>1, Split
  <2>6. QED
    BY <2>1, <2>2, <2>5, ClearedProps
<1>2. ASSUME IInv, NEW t \in Threads, hashtbl_put_insert(t), NEW e \in Entries,
             entry[e].expires > now, ~ Contains(free, e)
      PROVE  entry'[e] = entry[e]
  <2> DEFINE b == Bucket(name[t])
             new == Head(free)
             out == {i \in DOMAIN chain[b] : Purged(t, chain[b][i])}
  <2>1. /\ TypeOK /\ EntriesPartitioned /\ pc[t] = "insert" /\ free # <<>>
        /\ ~ hashtbl_check(name[t])
    BY <1>2 DEF IInv, LockOK, hashtbl_put_insert
  <2>2. \E r : entry' = [Cleared(Gone(b, out)) EXCEPT ![new] = r]
    BY <1>2 DEF hashtbl_put_insert, Gone
  <2>3. b \in Buckets /\ chain[b] \in Seq(Entries)
    BY <2>1, BucketType DEF TypeOK
  <2>4. now \in Nat /\ entry[e].expires \in Nat
    BY <2>1, DnsTableAssumption DEF TypeOK
  <2>5. \A i \in DOMAIN chain[b] : chain[b][i] = e => ~ Purged(t, e)
    BY <1>2, <2>1, <2>4 DEF hashtbl_check, Purged
  <2>6. ~ Contains(Gone(b, out), e)
    <3>1. ~ \E i \in out : chain[b][i] = e
      BY <2>5
    <3>2. out \subseteq DOMAIN chain[b]
      OBVIOUS
    <3> HIDE DEF out
    <3>3. QED
      BY <2>1, <2>3, <3>1, <3>2, Split
  <2>7. e # new
    BY <1>2, <2>1, HeadProps DEF TypeOK, EntriesPartitioned
  <2>8. Cleared(Gone(b, out))[e] = entry[e]
    BY <2>1, <2>6, ClearedProps
  <2>9. QED
    BY <2>2, <2>7, <2>8 DEF Cleared
<1>3. ASSUME IInv, [Next]_vars, NEW e \in Entries, entry[e].expires > now, ~ Contains(free, e)
      PROVE  entry'[e] = entry[e]
  <2>1. CASE UNCHANGED entry
    BY <2>1
  <2>2. CASE \E t \in Threads : hashtbl_get(t)
    BY <1>1, <1>3, <2>2
  <2>3. CASE \E t \in Threads : hashtbl_put_insert(t)
    BY <1>2, <1>3, <2>3
  <2>4. QED
    BY <1>3, <2>1, <2>2, <2>3 DEF Next, Tick, Lookup, Step, hashtbl_get_now, host_serv, hashtbl_put,
       hashtbl_put_returns, Done, vars, table
<1>4. IInv /\ [Next]_vars => [\A e \in Entries : Stays(e)]_vars
  BY <1>3
<1>5. QED
  BY Invariance, <1>4, PTL DEF Spec, LiveEntryStays
===========================================================================
