---------------------------- MODULE MCCredCache ---------------------------
(* Instances of CredCache for TLC: the question <<ip, port>> has the key   *)
(* ip; the keys 1 and 2 collide in every table, 3 joins them in the tables *)
(* of one and two slots, and 0 is the key of an empty slot.                *)
EXTENDS CredCache, TLC

MCQuestions == {<<0, 80>>, <<1, 80>>, <<2, 80>>, <<3, 80>>}
MCTwoPorts == {<<1, 80>>, <<1, 81>>, <<2, 80>>}

MCKey == [q \in Questions |-> q[1]]
MCHash == [k \in Keys |-> CASE k = 0 -> 3 [] k = 1 -> 7 [] k = 2 -> 7 [] k = 3 -> 5]

\* Sessions are interchangeable; no run checks liveness.
SessionSymmetry == Permutations(Threads)
===========================================================================
