----------------------------- MODULE LoadClient -----------------------------
(***************************************************************************)
(* The load generator of socksload: one thread in curl_multi_fire, its     *)
(* queue of URLs, and the transfers that libcurl runs for it.  A URL is    *)
(* known by its number in the order of URLQput; its text, and the links in *)
(* the pages, are left out.                                                *)
(*                                                                         *)
(* The threads of socksload share nothing but a counter that picks the     *)
(* next proxy, so one of them is modelled.                                 *)
(***************************************************************************)
EXTENDS Integers, Sequences, FiniteSets, FiniteSetsExt

CONSTANTS
  MaxConn,    \* max_conn
  QBacklog,   \* QBACKLOG
  MaxLinks,   \* the most links in the piece of a page that cb is given
  MaxUrls     \* bound: URLs ever put into the queue

ASSUME LoadAssumption ==
  /\ MaxConn \in Nat \ {0}
  /\ QBacklog \in Nat /\ MaxLinks \in Nat
  /\ MaxUrls \in Nat \ {0}

VARIABLES
  pc,        \* the place in curl_multi_fire
  U,         \* U: the transfers that run, or what the refill makes of it
  queue,     \* Queue, front first
  put,       \* URLs put so far
  running,   \* the transfers that libcurl runs
  over,      \* those of them whose peer is done
  messages   \* what curl_multi_info_read will return

vars == <<pc, U, queue, put, running, over, messages>>
curl == <<running, over, messages>>
urls == <<queue, put>>

Places == {"start", "perform", "select", "read", "refill", "end", "failed"}

Init ==
  /\ pc = "start"
  /\ U = -1
  /\ queue = <<1>> /\ put = 1
  /\ running = {} /\ over = {} /\ messages = {}

---------------------------------------------------------------------------
\* Mutant: the last node stays at the head of the list.
GetKeepsLast == queue' = IF Len(queue) > 1 THEN Tail(queue) ELSE queue

URLQget == queue' = Tail(queue)

\* n calls of URLQput.
URLQput(n) ==
  /\ queue' = queue \o [k \in 1 .. n |-> put + k]
  /\ put' = put + n

\* A handle is made; without a URL for it it is not added (and never freed).
init ==
  \/ /\ queue = <<>>
     /\ UNCHANGED <<urls, curl>>
  \/ /\ queue # <<>>
     /\ URLQget
     /\ running' = running \cup {Head(queue)}
     /\ UNCHANGED <<put, over, messages>>

\* init for the start page.
fire_starts ==
  /\ pc = "start"
  /\ init
  /\ pc' = "perform"
  /\ UNCHANGED U

---------------------------------------------------------------------------
(* curl_multi_perform.                                                     *)

\* Mutant: the size of the queue is not looked at.
CbUnlimited ==
  /\ pc = "perform"
  /\ running # {}
  /\ \E n \in 1 .. MaxLinks : put + n <= MaxUrls /\ URLQput(n)
  /\ UNCHANGED <<pc, U, curl>>

\* A piece of a page arrives.  The size is looked at once, before all links of
\* the piece are put.
cb ==
  /\ pc = "perform"
  /\ running # {}
  /\ Len(queue) < QBacklog
  /\ \E n \in 1 .. MaxLinks : put + n <= MaxUrls /\ URLQput(n)
  /\ UNCHANGED <<pc, U, curl>>

\* The peer ends a transfer, or breaks it.
TransferEnds(u) ==
  /\ u \in running \ over
  /\ over' = over \cup {u}
  /\ UNCHANGED <<pc, U, urls, running, messages>>

perform_returns ==
  /\ pc = "perform"
  /\ running' = running \ over
  /\ messages' = messages \cup over
  /\ over' = {}
  /\ U' = Cardinality(running \ over)
  /\ pc' = "select"
  /\ UNCHANGED urls

---------------------------------------------------------------------------
(* The rest of a pass.                                                     *)

\* Nothing runs, or select returns.
select_returns ==
  /\ pc = "select"
  /\ pc' = "read"
  /\ UNCHANGED <<U, urls, curl>>

\* curl_multi_fdset, curl_multi_timeout or select fails: the thread returns.
select_fails ==
  /\ pc = "select" /\ U # 0
  /\ pc' = "failed"
  /\ UNCHANGED <<U, urls, curl>>

\* A message, and the handle it is about is removed.
curl_multi_info_read ==
  /\ pc = "read"
  /\ \E u \in messages : messages' = messages \ {u}
  /\ pc' = "refill"
  /\ UNCHANGED <<U, urls, running, over>>

\* Mutant: the refill counts the URLs it finds, not the turns it makes.
RefillCounts ==
  /\ pc = "refill" /\ U < MaxConn
  /\ init
  /\ U' = IF queue = <<>> THEN MaxConn ELSE U
  /\ UNCHANGED pc

\* One turn of while (U < max_conn).
refill ==
  /\ pc = "refill" /\ U < MaxConn
  /\ init
  /\ U' = U + 1
  /\ UNCHANGED pc

refill_ends ==
  /\ pc = "refill" /\ U >= MaxConn
  /\ pc' = "read"
  /\ UNCHANGED <<U, urls, curl>>

\* Mutant: the loop goes by the transfers that ran before the refill.
EndsWithUnread ==
  /\ pc = "read"
  /\ pc' = IF U = 0 THEN "end" ELSE "perform"
  /\ UNCHANGED <<U, urls, curl>>

\* No message is left: while(U).
no_message ==
  /\ pc = "read" /\ messages = {}
  /\ pc' = IF U = 0 THEN "end" ELSE "perform"
  /\ UNCHANGED <<U, urls, curl>>

---------------------------------------------------------------------------
Fire ==
  \/ fire_starts \/ perform_returns \/ select_returns
  \/ curl_multi_info_read \/ refill \/ refill_ends \/ no_message

curl_multi_fire == Fire \/ cb \/ select_fails

Next == curl_multi_fire \/ \E u \in 1 .. MaxUrls : TransferEnds(u)

Spec == Init /\ [][Next]_vars

\* The thread runs, and every transfer ends: that is up to its peer, as
\* socksload sets no limit of time.
FairSpec ==
  Spec /\ WF_vars(Fire) /\ \A u \in 1 .. MaxUrls : WF_vars(TransferEnds(u))

---------------------------------------------------------------------------
(* Properties.                                                             *)

\* The values every variable can take; the queue passes the limit by the links
\* of one piece at most.
TypeOK ==
  /\ pc \in Places
  /\ U \in -1 .. MaxConn
  /\ put \in 1 .. MaxUrls
  /\ queue \in Seq(1 .. put)
  /\ Len(queue) <= Max({1, QBacklog - 1 + MaxLinks})
  /\ running \subseteq 1 .. put
  /\ over \subseteq running
  /\ messages \subseteq 1 .. put

\* The load stays what was asked for, whatever the count U is raised to while
\* the queue is empty: there are never more transfers than max_conn.
AtMostMaxConn == Cardinality(running) <= MaxConn

\* The loop ends only when there is nothing left to fetch and nothing under
\* way.  U is no measure of that: it is 0 while messages wait, and max_conn
\* after a refill that found nothing.
EndsDrained == pc = "end" => queue = <<>> /\ running = {} /\ messages = {}

\* Every URL that is put is fetched in its turn and its transfer comes to an end,
\* unless the thread fails.
EveryUrlEnds ==
  \A u \in 1 .. MaxUrls :
    put >= u ~> \/ pc = "failed"
                \/ u \notin running /\ \A k \in 1 .. Len(queue) : queue[k] # u
============================================================================
