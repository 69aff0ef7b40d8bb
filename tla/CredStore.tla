----------------------------- MODULE CredStore ----------------------------
(***************************************************************************)
(* What a credential cache promises to the sessions, without slots, hashes *)
(* or sizes: it keeps for each key nothing or the last answer that was put *)
(* under it, and a session that finds one is served with it and does not   *)
(* go to the data base.  An answer may fail to be put, and an answer under *)
(* the key 0 is never kept; what is kept is never lost.                    *)
(***************************************************************************)
EXTENDS Naturals

CONSTANTS
  Threads, Questions, Key,  \* as in CredCache
  Values                    \* the answers; the field of is the question

VARIABLES
  known,  \* for each key nothing or one answer
  pc,     \* where each session is
  asks,   \* what each session asks
  value   \* the answer it has

svars == <<known, pc, asks, value>>

Keys == {Key[q] : q \in Questions}

Init ==
  /\ known = [k \in Keys |-> {}]
  /\ pc = [t \in Threads |-> "idle"]
  /\ asks \in [Threads -> Questions]
  /\ value \in [Threads -> Values]

Goto(t, p) == pc' = [pc EXCEPT ![t] = p]

Get(t) ==
  /\ pc[t] = "idle"
  /\ \E q \in Questions :
       /\ asks' = [asks EXCEPT ![t] = q]
       /\ \/ \E v \in known[Key[q]] : value' = [value EXCEPT ![t] = v] /\ Goto(t, "served")
          \/ known[Key[q]] = {} /\ UNCHANGED value /\ Goto(t, "query")
  /\ UNCHANGED known

Query(t) ==
  /\ pc[t] = "query"
  /\ \/ /\ \E v \in Values : v.of = asks[t] /\ value' = [value EXCEPT ![t] = v]
        /\ Goto(t, "put")
     \/ UNCHANGED value /\ Goto(t, "failed")
  /\ UNCHANGED <<known, asks>>

Put(t) ==
  /\ pc[t] = "put"
  /\ \/ /\ Key[asks[t]] # 0
        /\ known' = [known EXCEPT ![Key[asks[t]]] = {value[t]}]
     \/ UNCHANGED known
  /\ Goto(t, "served")
  /\ UNCHANGED <<asks, value>>

Finish(t) ==
  /\ pc[t] \in {"served", "failed"}
  /\ Goto(t, "idle")
  /\ \E q \in Questions, v \in Values :
       asks' = [asks EXCEPT ![t] = q] /\ value' = [value EXCEPT ![t] = v]
  /\ UNCHANGED known

Next == \E t \in Threads : Get(t) \/ Query(t) \/ Put(t) \/ Finish(t)

Spec == Init /\ [][Next]_svars
===========================================================================
