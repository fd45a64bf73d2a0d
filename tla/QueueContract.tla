---------------------------- MODULE QueueContract ----------------------------
(***************************************************************************)
(* What the queues of the broker promise, whoever consumes them and however *)
(* their deliveries are answered.  There are no arrays, tags, consumers,    *)
(* prefetch limits or calls here: a message is ready in one queue, or       *)
(* outstanding on one channel, or over, and it may move in six ways.        *)
(*                                                                         *)
(* A queue hands out what came back before what was never delivered, and   *)
(* never-delivered messages in the order they were published.  A message   *)
(* that is over stays over, and one that comes back comes back to the      *)
(* queue it was taken from.  Module Delivery implements this contract.     *)
(***************************************************************************)
EXTENDS Naturals

CONSTANTS
  Queues,
  Channels,
  Perishable,    \* ids of the messages that may expire
  MaxMessages    \* bound: messages published

VARIABLES
  ready,         \* queue -> ids of the messages it may hand out
  outstanding,   \* channel -> the messages handed out on it and not answered
  fresh,         \* ids of the messages never handed out
  published,     \* number of messages published
  over           \* ids of the messages acked, discarded or expired

vars == <<ready, outstanding, fresh, published, over>>

Init ==
  /\ ready = [q \in Queues |-> {}]
  /\ outstanding = [c \in Channels |-> {}]
  /\ fresh = {}
  /\ published = 0
  /\ over = {}

Publish(q) ==
  /\ published < MaxMessages
  /\ published' = published + 1
  /\ ready' = [ready EXCEPT ![q] = @ \cup {published + 1}]
  /\ fresh' = fresh \cup {published + 1}
  /\ UNCHANGED <<outstanding, over>>

(* Whether id is one of the messages q may part with next. *)
InTurn(q, id) ==
  /\ id \in ready[q]
  /\ id \in fresh => \A other \in ready[q] : other \in fresh /\ id <= other

Leaves(q, id) ==
  /\ InTurn(q, id)
  /\ ready' = [ready EXCEPT ![q] = @ \ {id}]

(* Handed out on c, to be answered. *)
Deliver(q, id, c) ==
  /\ Leaves(q, id)
  /\ outstanding' = [outstanding EXCEPT ![c] = @ \cup {[id |-> id, queue |-> q]}]
  /\ fresh' = fresh \ {id}
  /\ UNCHANGED <<published, over>>

(* Handed out to a client that does not answer. *)
DeliverNoAck(q, id) ==
  /\ Leaves(q, id)
  /\ fresh' = fresh \ {id}
  /\ over' = over \cup {id}
  /\ UNCHANGED <<outstanding, published>>

Expire(q, id) ==
  /\ id \in Perishable
  /\ Leaves(q, id)
  /\ over' = over \cup {id}
  /\ UNCHANGED <<outstanding, fresh, published>>

(* Answered for good. *)
Settle(c, delivery) ==
  /\ outstanding' = [outstanding EXCEPT ![c] = @ \ {delivery}]
  /\ over' = over \cup {delivery.id}
  /\ UNCHANGED <<ready, fresh, published>>

(* Requeued, or given back by a channel that recovers or closes. *)
Return(c, delivery) ==
  /\ outstanding' = [outstanding EXCEPT ![c] = @ \ {delivery}]
  /\ ready' = [ready EXCEPT ![delivery.queue] = @ \cup {delivery.id}]
  /\ UNCHANGED <<fresh, published, over>>

Next ==
  \/ \E q \in Queues : Publish(q)
  \/ \E q \in Queues : \E id \in ready[q] :
       \/ \E c \in Channels : Deliver(q, id, c)
       \/ DeliverNoAck(q, id)
       \/ Expire(q, id)
  \/ \E c \in Channels : \E delivery \in outstanding[c] :
       Settle(c, delivery) \/ Return(c, delivery)

Spec == Init /\ [][Next]_vars
=============================================================================
