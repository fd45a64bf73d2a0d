----------------------------- MODULE MCTopology -----------------------------
(* Small instances of Topology for TLC: two connections with a channel that is
   called each, one of them with a second one that is closed first; one queue,
   up to two exchanges. *)
EXTENDS Topology, TLC

CONSTANTS e1, e2, q1, q2, k, t1, t2, cA, cB, c1, c2, c3

Plain == [exclusive |-> FALSE, autoDelete |-> FALSE, expires |-> FALSE]
AutoDelete == [Plain EXCEPT !.autoDelete = TRUE]
Expiring == [Plain EXCEPT !.expires = TRUE]
Exclusive == [Plain EXCEPT !.exclusive = TRUE]
ExclusiveExpiring == [Exclusive EXCEPT !.expires = TRUE]

AutoDeleteExpiring == [AutoDelete EXCEPT !.expires = TRUE]

LifecycleOptions == {AutoDeleteExpiring, ExclusiveExpiring}
ExpiringOption == {Expiring}
AutoDeleteOption == {AutoDelete}

ConnectionEach == [c \in Channels |-> IF c = c2 THEN cB ELSE cA]
OwnId == [conn \in Connections |-> conn]
OwnNumber == [c \in Channels |-> CASE c = c3 -> 1 [] c = c1 -> 2 [] c = c2 -> 3]

(* Tags, and the exchanges the clients declare, are only compared. *)
Symmetry == Permutations(Tags) \cup Permutations(Exchanges \ Predeclared)
=============================================================================
