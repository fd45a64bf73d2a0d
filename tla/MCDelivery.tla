----------------------------- MODULE MCDelivery -----------------------------
(* Small instances of Delivery for TLC: two channels of one connection, two or
   three consumer tags, two or three messages. *)
EXTENDS Delivery

CONSTANTS q1, q2, c1, c2, t1, t2, t3, A

AckOnly == [noAck |-> FALSE, exclusive |-> FALSE, priority |-> 0]
Urgent == [AckOnly EXCEPT !.priority = 1]
AutoAck == [AckOnly EXCEPT !.noAck = TRUE]
Exclusive == [AckOnly EXCEPT !.exclusive = TRUE]

PlainOption == {AckOnly}
AckOptions == {AckOnly, AutoAck}
RegistryOptions == {AckOnly, Urgent, Exclusive}

OneConnection == [c \in Channels |-> A]
OwnNumber == [c \in Channels |-> IF c = c1 THEN 1 ELSE 2]

(* Tags are interchangeable, and so are channels of one connection: their
   numbers are only compared. *)
Symmetry == Permutations(Tags) \cup Permutations(Channels)
=============================================================================
