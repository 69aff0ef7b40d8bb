------------------------- MODULE LoadClientProofs -------------------------
(***************************************************************************)
(* The count U and the transfers of curl_multi_fire, for every max_conn,   *)
(* queue limit and page.                                                   *)
(*                                                                         *)
(* AtMostMaxConn and EndsDrained are not inductive: U means the transfers  *)
(* that run only between curl_multi_perform and the refill, and a refill   *)
(* raises it whether or not there was a URL.  What the invariant adds is   *)
(* that U is ahead of the transfers only when the queue is empty, and that *)
(* a URL is never given to two transfers.                                  *)
(***************************************************************************)
EXTENDS LoadClient, FiniteSetTheorems, SequenceTheorems, TLAPS

\* The queue holds the last URLs that were put, in order; those before them were
\* taken out, and only those can run.
QueueOK ==
  /\ Len(queue) <= put
  /\ \A i \in 1 .. Len(queue) : queue[i] = (put - Len(queue)) + i
  /\ running \subseteq 1 .. (put - Len(queue))

\* Where the loop is, U against the transfers that run and the queue.
CountOK ==
  /\ pc = "start" => running = {} /\ queue # <<>>
  /\ pc = "perform" => (running = {} => queue = <<>>)
  /\ pc = "select" => U = Cardinality(running)
  /\ pc \in {"select", "read"} => (running = {} /\ messages = {} => queue = <<>>)
  /\ pc \in {"read", "refill"} =>
       /\ Cardinality(running) <= U
       /\ Cardinality(running) # U => queue = <<>>

IInv == TypeOK /\ QueueOK /\ CountOK /\ AtMostMaxConn /\ EndsDrained

---------------------------------------------------------------------------
\* The transfers that run can be counted.
LEMMA Countable ==
  ASSUME NEW n \in Nat, NEW S, S \subseteq 1 .. n
  PROVE  /\ IsFiniteSet(S) /\ Cardinality(S) \in Nat
         /\ Cardinality(S) = 0 <=> S = {}
         /\ \A T \in SUBSET S : IsFiniteSet(T) /\ Cardinality(T) <= Cardinality(S)
<1>1. IsFiniteSet(1 .. n)
  BY FS_Interval
<1>2. IsFiniteSet(S)
  BY <1>1, FS_Subset
<1>3. \A T \in SUBSET S : IsFiniteSet(T) /\ Cardinality(T) <= Cardinality(S)
  BY <1>2, FS_Subset
<1>4. QED
  BY <1>2, <1>3, FS_CardinalityType, FS_EmptySet

\* The limit of TypeOK on the length of the queue.
LEMMA LongestQueue ==
  /\ Max({1, QBacklog - 1 + MaxLinks}) \in Int
  /\ Max({1, QBacklog - 1 + MaxLinks}) >= 1
  /\ Max({1, QBacklog - 1 + MaxLinks}) >= QBacklog - 1 + MaxLinks
<1> DEFINE a == QBacklog - 1 + MaxLinks
<1>1. a \in Int
  BY LoadAssumption
<1> HIDE DEF a
<1>2. \E x \in {1, a} : \A y \in {1, a} : x >= y
  BY <1>1
<1>3. Max({1, a}) \in {1, a} /\ \A y \in {1, a} : Max({1, a}) >= y
  BY <1>2 DEF Max
<1>4. Max({1, a}) \in Int /\ Max({1, a}) >= 1 /\ Max({1, a}) >= a
  BY <1>1, <1>3
<1>5. QED
  BY <1>4 DEF a

\* A URL that is taken out of the queue does not run yet.
LEMMA Fetch ==
  ASSUME TypeOK, QueueOK, queue # <<>>, init
  PROVE  /\ put' = put /\ over' = over /\ messages' = messages
         /\ queue' \in Seq(1 .. put) /\ Len(queue') <= Len(queue)
         /\ running \subseteq running' /\ running' \subseteq 1 .. put /\ running' # {}
         /\ Cardinality(running') = Cardinality(running) + 1
         /\ QueueOK'
<1> DEFINE u == Head(queue)
<1>1. /\ queue \in Seq(1 .. put) /\ put \in Nat /\ put \in 1 .. MaxUrls
      /\ queue' = Tail(queue) /\ running' = running \cup {u}
      /\ put' = put /\ over' = over /\ messages' = messages
  BY LoadAssumption DEF TypeOK, init, URLQget
<1>2. /\ Len(queue) \in Nat \ {0} /\ u = queue[1] /\ u \in 1 .. put
      /\ queue' \in Seq(1 .. put) /\ Len(queue') = Len(queue) - 1
      /\ \A i \in 1 .. Len(queue') : queue'[i] = queue[i + 1]
  BY <1>1, EmptySeq, HeadTailProperties
<1> HIDE DEF u
<1>3. /\ Len(queue) <= put /\ u = (put - Len(queue)) + 1
      /\ \A i \in 1 .. Len(queue) : queue[i] = (put - Len(queue)) + i
      /\ running \subseteq 1 .. (put - Len(queue))
  BY <1>2 DEF QueueOK
<1>4. u \notin running
  BY <1>1, <1>2, <1>3
<1>5. IsFiniteSet(running)
  BY <1>1, Countable DEF TypeOK
<1>6. Cardinality(running') = Cardinality(running) + 1
  BY <1>1, <1>4, <1>5, FS_AddElement
<1>7. QueueOK'
  <2>1. \A i \in 1 .. Len(queue') : queue'[i] = (put - Len(queue')) + i
    BY <1>1, <1>2, <1>3
  <2>2. u \in 1 .. (put - Len(queue')) /\ 1 .. (put - Len(queue)) \subseteq 1 .. (put - Len(queue'))
    BY <1>1, <1>2, <1>3
  <2>3. running' \subseteq 1 .. (put - Len(queue'))
    BY <1>1, <1>3, <2>2
  <2>4. QED
    BY <1>1, <1>2, <1>3, <2>1, <2>2, <2>3 DEF QueueOK
<1>8. running' \subseteq 1 .. put
  BY <1>1, <1>2 DEF TypeOK
<1>9. QED
  BY <1>1, <1>2, <1>6, <1>7, <1>8

\* The links of a piece of a page go behind the URLs that wait.
LEMMA Puts ==
  ASSUME TypeOK, QueueOK, UNCHANGED running,
         NEW n \in 1 .. MaxLinks, put + n <= MaxUrls, URLQput(n)
  PROVE  /\ put' \in 1 .. MaxUrls /\ put <= put'
         /\ queue' \in Seq(1 .. put') /\ Len(queue') = Len(queue) + n
         /\ QueueOK'
<1> DEFINE new == [k \in 1 .. n |-> put + k]
<1>1. /\ put \in 1 .. MaxUrls /\ MaxUrls \in Nat /\ n \in Nat \ {0}
      /\ put' = put + n /\ queue' = queue \o new
  BY LoadAssumption DEF TypeOK, URLQput
<1>2. put' \in 1 .. MaxUrls /\ put <= put'
  BY <1>1
<1>3. queue \in Seq(1 .. put') /\ Len(queue) \in Nat
  <2>1. 1 .. put \subseteq 1 .. put'
    BY <1>1, <1>2
  <2>2. queue \in Seq(1 .. put)
    BY DEF TypeOK
  <2>3. QED
    BY <2>1, <2>2, SeqMonotonic, LenProperties
<1>4. new \in Seq(1 .. put') /\ Len(new) = n /\ \A k \in 1 .. n : new[k] = put + k
  <2>1. \A k \in 1 .. n : put + k \in 1 .. put'
    BY <1>1
  <2>2. QED
    BY <1>1, <2>1
<1> HIDE DEF new
<1>5. /\ queue' \in Seq(1 .. put') /\ Len(queue') = Len(queue) + n
      /\ \A i \in 1 .. Len(queue) + n :
           queue'[i] = IF i <= Len(queue) THEN queue[i] ELSE new[i - Len(queue)]
  BY <1>1, <1>3, <1>4, ConcatProperties
<1>6. put' - Len(queue') = put - Len(queue)
  BY <1>1, <1>3, <1>5
<1>7. \A i \in 1 .. Len(queue') : queue'[i] = (put' - Len(queue')) + i
  <2> SUFFICES ASSUME NEW i \in 1 .. Len(queue) + n PROVE queue'[i] = (put - Len(queue)) + i
    BY <1>5, <1>6
  <2>1. CASE i <= Len(queue)
    BY <1>3, <1>5, <2>1 DEF QueueOK
  <2>2. CASE ~ (i <= Len(queue))
    <3>1. i - Len(queue) \in 1 .. n
      BY <1>1, <1>3, <2>2
    <3>2. queue'[i] = put + (i - Len(queue))
      BY <1>4, <1>5, <2>2, <3>1
    <3>3. QED
      BY <1>1, <1>3, <3>2
  <2>3. QED
    BY <2>1, <2>2
<1>8. Len(queue') <= put'
  BY <1>1, <1>3, <1>5 DEF QueueOK
<1>9. QueueOK'
  BY <1>6, <1>7, <1>8 DEF QueueOK
<1>10. QED
  BY <1>2, <1>5, <1>9

---------------------------------------------------------------------------
\* fire_starts: the start page is the first transfer.
LEMMA StartStep == ASSUME IInv, fire_starts PROVE IInv'
<1>1. /\ TypeOK /\ QueueOK /\ queue # <<>> /\ init /\ running = {}
      /\ pc' = "perform" /\ U' = U
  BY DEF IInv, CountOK, fire_starts
<1>2. /\ put' = put /\ over' = over /\ messages' = messages
      /\ queue' \in Seq(1 .. put) /\ Len(queue') <= Len(queue)
      /\ running \subseteq running' /\ running' \subseteq 1 .. put /\ running' # {}
      /\ Cardinality(running') = Cardinality(running) + 1 /\ QueueOK'
  BY <1>1, Fetch
<1>3. TypeOK'
  <2>1. Len(queue) \in Nat /\ Len(queue') \in Nat
    BY <1>2, LenProperties DEF TypeOK, IInv
  <2>2. Len(queue') <= Max({1, QBacklog - 1 + MaxLinks})
    BY <1>1, <1>2, <2>1, LongestQueue DEF TypeOK
  <2>3. QED
    BY <1>1, <1>2, <2>2 DEF TypeOK, Places
<1>4. AtMostMaxConn'
  BY <1>1, <1>2, FS_EmptySet, LoadAssumption DEF AtMostMaxConn
<1>5. QED
  BY <1>1, <1>2, <1>3, <1>4 DEF IInv, CountOK, EndsDrained

\* cb: a piece of a page, while a transfer runs.
LEMMA CbStep == ASSUME IInv, cb PROVE IInv'
<1>1. PICK n \in 1 .. MaxLinks : put + n <= MaxUrls /\ URLQput(n)
  BY DEF cb
<1>2. /\ TypeOK /\ QueueOK /\ pc = "perform" /\ running # {} /\ Len(queue) < QBacklog
      /\ UNCHANGED <<pc, U, running, over, messages>>
  BY DEF IInv, cb, curl
<1>3. /\ put' \in 1 .. MaxUrls /\ put <= put' /\ queue' \in Seq(1 .. put')
      /\ Len(queue') = Len(queue) + n /\ QueueOK'
  BY <1>1, <1>2, Puts
<1>4. TypeOK'
  <2>1. Len(queue) \in Nat /\ put \in Nat /\ put' \in Nat
    BY <1>2, <1>3, LoadAssumption, LenProperties DEF TypeOK
  <2>2. Len(queue') <= Max({1, QBacklog - 1 + MaxLinks})
    BY <1>2, <1>3, <2>1, LoadAssumption, LongestQueue
  <2>3. 1 .. put \subseteq 1 .. put'
    BY <1>3, <2>1
  <2>4. QED
    BY <1>2, <1>3, <2>2, <2>3 DEF TypeOK
<1>5. QED
  BY <1>2, <1>3, <1>4 DEF IInv, CountOK, AtMostMaxConn, EndsDrained

\* curl_multi_perform returns: what is over stops running and U counts the rest.
LEMMA PerformStep == ASSUME IInv, perform_returns PROVE IInv'
<1>1. /\ TypeOK /\ QueueOK /\ CountOK /\ AtMostMaxConn /\ pc = "perform" /\ pc' = "select"
      /\ running' = running \ over /\ messages' = messages \cup over /\ over' = {}
      /\ U' = Cardinality(running') /\ UNCHANGED <<queue, put>>
  BY DEF IInv, perform_returns, urls
<1>2. put \in Nat /\ running \subseteq 1 .. put /\ over \subseteq running /\ messages \subseteq 1 .. put
  BY <1>1, LoadAssumption DEF TypeOK
<1>3. Cardinality(running') \in Nat /\ Cardinality(running') <= Cardinality(running)
  BY <1>1, <1>2, Countable
<1>4. Cardinality(running) \in Nat
  BY <1>2, Countable
<1>5. AtMostMaxConn'
  BY <1>1, <1>3, <1>4, LoadAssumption DEF AtMostMaxConn
<1>6. TypeOK'
  <2>1. U' \in -1 .. MaxConn
    BY <1>1, <1>3, <1>5, LoadAssumption DEF AtMostMaxConn
  <2>2. QED
    BY <1>1, <1>2, <2>1 DEF TypeOK, Places
<1>7. QueueOK'
  BY <1>1 DEF QueueOK
<1>8. CountOK'
  <2>1. running' = {} /\ messages' = {} => running = {}
    BY <1>1
  <2>2. QED
    BY <1>1, <2>1 DEF CountOK
<1>9. QED
  BY <1>1, <1>5, <1>6, <1>7, <1>8 DEF IInv, EndsDrained

\* select returns, or a call before it fails.
LEMMA SelectStep == ASSUME IInv, select_returns \/ select_fails PROVE IInv'
<1>1. /\ pc = "select" /\ pc' \in {"read", "failed"}
      /\ UNCHANGED <<U, queue, put, running, over, messages>>
  BY DEF select_returns, select_fails, urls, curl
<1>2. Cardinality(running) = U /\ U \in Int
  BY <1>1, LoadAssumption DEF IInv, CountOK, TypeOK
<1>3. QED
  BY <1>1, <1>2 DEF IInv, TypeOK, Places, QueueOK, CountOK, AtMostMaxConn, EndsDrained

\* curl_multi_info_read finds a message.
LEMMA ReadStep == ASSUME IInv, curl_multi_info_read PROVE IInv'
<1>1. /\ pc = "read" /\ pc' = "refill" /\ messages' \subseteq messages
      /\ UNCHANGED <<U, queue, put, running, over>>
  BY DEF curl_multi_info_read, urls
<1>2. QED
  BY <1>1 DEF IInv, TypeOK, Places, QueueOK, CountOK, AtMostMaxConn, EndsDrained

\* One turn of the refill: a URL more runs, or the queue is empty.
LEMMA RefillStep == ASSUME IInv, refill PROVE IInv'
<1>1. /\ TypeOK /\ QueueOK /\ CountOK /\ AtMostMaxConn /\ pc = "refill" /\ pc' = pc
      /\ U < MaxConn /\ U' = U + 1 /\ init
  BY DEF IInv, refill
<1>2. /\ U \in Int /\ -1 <= U /\ put \in Nat /\ Cardinality(running) \in Nat
      /\ Cardinality(running) <= U
      /\ Cardinality(running) # U => queue = <<>>
  <2>1. put \in Nat /\ running \subseteq 1 .. put /\ U \in Int /\ -1 <= U
    BY <1>1, LoadAssumption DEF TypeOK
  <2>2. Cardinality(running) \in Nat
    BY <2>1, Countable
  <2>3. QED
    BY <1>1, <2>1, <2>2 DEF CountOK
<1>3. U' \in -1 .. MaxConn
  BY <1>1, <1>2, LoadAssumption
<1>4. CASE queue = <<>>
  <2>1. UNCHANGED <<queue, put, running, over, messages>>
    BY <1>1, <1>4 DEF init, urls, curl
  <2>2. CountOK'
    BY <1>1, <1>2, <1>4, <2>1 DEF CountOK
  <2>3. QED
    BY <1>1, <1>3, <2>1, <2>2 DEF IInv, TypeOK, QueueOK, AtMostMaxConn, EndsDrained
<1>5. CASE queue # <<>>
  <2>1. /\ put' = put /\ over' = over /\ messages' = messages
        /\ queue' \in Seq(1 .. put) /\ Len(queue') <= Len(queue)
        /\ running \subseteq running' /\ running' \subseteq 1 .. put /\ running' # {}
        /\ Cardinality(running') = Cardinality(running) + 1 /\ QueueOK'
    BY <1>1, <1>5, Fetch
  <2>2. Cardinality(running') = U'
    BY <1>1, <1>2, <1>5, <2>1
  <2>3. AtMostMaxConn'
    BY <1>3, <2>2, LoadAssumption DEF AtMostMaxConn
  <2>4. Len(queue') <= Max({1, QBacklog - 1 + MaxLinks})
    <3>1. Len(queue) \in Nat /\ Len(queue') \in Nat
      BY <1>1, <2>1, LenProperties DEF TypeOK
    <3>2. QED
      BY <1>1, <2>1, <3>1, LongestQueue DEF TypeOK
  <2>5. TypeOK'
    BY <1>1, <1>3, <2>1, <2>4 DEF TypeOK
  <2>6. CountOK'
    BY <1>1, <1>3, <2>2, LoadAssumption DEF CountOK
  <2>7. QED
    BY <1>1, <2>1, <2>3, <2>5, <2>6 DEF IInv, EndsDrained
<1>6. QED
  BY <1>4, <1>5

\* The refill is over; a count without a transfer is max_conn, not 0.
LEMMA RefillEndsStep == ASSUME IInv, refill_ends PROVE IInv'
<1>1. /\ pc = "refill" /\ pc' = "read" /\ U >= MaxConn
      /\ UNCHANGED <<U, queue, put, running, over, messages>>
  BY DEF refill_ends, urls, curl
<1>2. running = {} => queue = <<>>
  BY <1>1, FS_EmptySet, LoadAssumption DEF IInv, CountOK, TypeOK
<1>3. QED
  BY <1>1, <1>2 DEF IInv, TypeOK, Places, QueueOK, CountOK, AtMostMaxConn, EndsDrained

\* No message is left: the loop ends, or makes another pass.
LEMMA NoMessageStep == ASSUME IInv, no_message PROVE IInv'
<1>1. /\ pc = "read" /\ messages = {} /\ pc' = IF U = 0 THEN "end" ELSE "perform"
      /\ UNCHANGED <<U, queue, put, running, over, messages>>
      /\ TypeOK /\ QueueOK /\ CountOK /\ AtMostMaxConn
  BY DEF IInv, no_message, urls, curl
<1>2. running = {} => queue = <<>>
  BY <1>1 DEF CountOK
<1>3. U = 0 => running = {}
  <2>1. put \in Nat /\ running \subseteq 1 .. put
    BY <1>1, LoadAssumption DEF TypeOK
  <2>2. Cardinality(running) \in Nat /\ (Cardinality(running) = 0 <=> running = {})
    BY <2>1, Countable
  <2>3. U = 0 => Cardinality(running) = 0
    BY <1>1, <2>2 DEF CountOK
  <2>4. QED
    BY <2>2, <2>3
<1>4. QED
  BY <1>1, <1>2, <1>3 DEF IInv, TypeOK, Places, QueueOK, CountOK, AtMostMaxConn, EndsDrained

\* A peer ends a transfer.
LEMMA TransferStep == ASSUME IInv, NEW u \in 1 .. MaxUrls, TransferEnds(u) PROVE IInv'
<1>1. /\ over' \subseteq running
      /\ UNCHANGED <<pc, U, queue, put, running, messages>>
  BY DEF IInv, TypeOK, TransferEnds, urls
<1>2. QED
  BY <1>1 DEF IInv, TypeOK, QueueOK, CountOK, AtMostMaxConn, EndsDrained

---------------------------------------------------------------------------
\* The invariant holds in every state of a thread of the load generator.
THEOREM Invariance == Spec => []IInv
<1>1. Init => IInv
  <2> SUFFICES ASSUME Init PROVE IInv
    OBVIOUS
  <2>1. /\ pc = "start" /\ U = -1 /\ queue = <<1>> /\ put = 1
        /\ running = {} /\ over = {} /\ messages = {}
    BY DEF Init
  <2>2. <<1>> \in Seq(1 .. 1) /\ Len(<<1>>) = 1 /\ <<1>>[1] = 1 /\ <<1>> # <<>>
    OBVIOUS
  <2>3. Cardinality(running) = 0
    BY <2>1, FS_EmptySet
  <2>4. TypeOK
    BY <2>1, <2>2, LongestQueue, LoadAssumption DEF TypeOK, Places
  <2>5. QueueOK
    BY <2>1, <2>2 DEF QueueOK
  <2>6. CountOK /\ AtMostMaxConn /\ EndsDrained
    BY <2>1, <2>2, <2>3, LoadAssumption DEF CountOK, AtMostMaxConn, EndsDrained
  <2>7. QED
    BY <2>4, <2>5, <2>6 DEF IInv
<1>2. IInv /\ [Next]_vars => IInv'
  <2> SUFFICES ASSUME IInv, [Next]_vars PROVE IInv'
    OBVIOUS
  <2>1. CASE curl_multi_fire
    BY <2>1, StartStep, CbStep, PerformStep, SelectStep, ReadStep, RefillStep, RefillEndsStep,
       NoMessageStep DEF curl_multi_fire, Fire
  <2>2. CASE \E u \in 1 .. MaxUrls : TransferEnds(u)
    BY <2>2, TransferStep
  <2>3. CASE UNCHANGED vars
    BY <2>3 DEF vars, IInv, TypeOK, QueueOK, CountOK, AtMostMaxConn, EndsDrained
  <2>4. QED
    BY <2>1, <2>2, <2>3 DEF Next
<1>3. QED
  BY <1>1, <1>2, PTL DEF Spec

\* Every variable stays in its type; the queue never passes QBACKLOG by more than
\* the links of one piece of a page.
THEOREM TypeCorrect == Spec => []TypeOK
<1>1. IInv => TypeOK
  BY DEF IInv
<1>2. QED
  BY Invariance, <1>1, PTL

\* The loop while (U < max_conn) never starts more transfers than max_conn.
THEOREM LoadIsBounded == Spec => []AtMostMaxConn
<1>1. IInv => AtMostMaxConn
  BY DEF IInv
<1>2. QED
  BY Invariance, <1>1, PTL

\* while(U) ends only when nothing runs, waits or is unread, though U counts the
\* turns of the refill and not the transfers.
THEOREM NothingLeftAtTheEnd == Spec => []EndsDrained
<1>1. IInv => EndsDrained
  BY DEF IInv
<1>2. QED
  BY Invariance, <1>1, PTL
===========================================================================
