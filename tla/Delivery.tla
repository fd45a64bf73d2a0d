------------------------------ MODULE Delivery ------------------------------
(***************************************************************************)
(* Delivery of messages in rabbitbox: message stores, the consumer         *)
(* registry, channels with their unacknowledged deliveries, the dispatcher *)
(* and the acknowledgement operations (message-store.ts, channel.ts,       *)
(* consumer-registry.ts, dispatcher.ts, acknowledgment.ts and the client   *)
(* operations of api/channel.ts and api/connection.ts that use them).      *)
(*                                                                         *)
(* JavaScript runs an operation to completion.  An operation of a client   *)
(* is an action enabled while no call is in progress; the loops it runs    *)
(* (settling several deliveries, draining expired messages, dispatching a  *)
(* queue) are the frames it pushes on `call`, executed one iteration per   *)
(* step before anything else may happen.  Consumer callbacks are scheduled *)
(* as microtasks and run when the call stack is empty.                     *)
(***************************************************************************)
EXTENDS Naturals, Integers, FiniteSets, SequencesExt

CONSTANTS
  Queues,          \* names of the declared queues
  SacQueues,       \* those declared with x-single-active-consumer
  Channels,        \* channels, all open at the start
  ConnOf,          \* the connection a channel belongs to
  Number,          \* the number of a channel in its connection
  Tags,            \* consumer tags
  ConsumeOptions,  \* option records of basic.consume the clients use
  PrefetchCounts,  \* counts the clients pass to basic.qos
  Perishable,      \* ids of the messages published with a TTL
  ClientOps,       \* operations the clients use, by name
  MaxMessages,     \* bound: messages published
  MaxRequeues,     \* bound: times the clients requeue one message
  NoConsumer       \* the consumer of a delivery made by basic.get

Ids == 1 .. MaxMessages
Connections == {ConnOf[c] : c \in Channels}
Priorities == {o.priority : o \in ConsumeOptions}

ASSUME DeliveryAssumption ==
  /\ IsFiniteSet(Queues)
  /\ SacQueues \subseteq Queues
  /\ DOMAIN ConnOf = Channels
  /\ Number \in [Channels -> Nat]
  /\ \A c, d \in Channels :
        ConnOf[c] = ConnOf[d] /\ Number[c] = Number[d] => c = d
  /\ ConsumeOptions \subseteq [noAck : BOOLEAN, exclusive : BOOLEAN, priority : Nat]
  /\ PrefetchCounts \subseteq Nat
  /\ MaxMessages \in Nat
  /\ NoConsumer \notin Tags

VARIABLES
  store,             \* MessageStore.messages of every queue
  byTag,             \* ConsumerRegistry.byTag
  byQueue,           \* ConsumerRegistry.byQueue
  rrIndex,           \* Dispatcher.rrIndex
  priorityRrIndex,   \* Dispatcher.priorityRrIndex
  channel,           \* the fields of every Channel
  unacked,           \* Channel._unacked
  call,              \* frames of the synchronous call in progress
  microtasks,        \* callbacks scheduled with queueMicrotask
  expired,           \* messages whose expiresAt lies in the past
  held,              \* clients: deliveries received and not answered
  published,         \* history: number of messages published
  done,              \* history: messages acked, discarded or expired
  delivered,         \* history: messages delivered at least once
  used               \* history: consumer tags ever registered

brokerVars == <<store, byTag, byQueue, rrIndex, priorityRrIndex, channel, unacked>>
clientVars == <<microtasks, held>>
historyVars == <<published, done, delivered, used>>
vars == <<brokerVars, call, clientVars, expired, historyVars>>

-----------------------------------------------------------------------------
(* Types *)

Message == [id : Ids, deliveryCount : Nat]

Entry == [queue : Queues, channel : Channels, noAck : BOOLEAN,
          exclusive : BOOLEAN, priority : Priorities, unackedCount : Nat]

ASSUME EntryAssumption == NoConsumer \notin Entry

Delivered == [tag : Nat, consumer : Tags \cup {NoConsumer}, id : Ids]

Unacked == [tag : Nat, message : Message, queue : Queues,
            consumer : Tags \cup {NoConsumer}]

Channel == [open : BOOLEAN, mapped : BOOLEAN, flow : BOOLEAN,
            consumerPrefetch : Nat, channelPrefetch : Nat, tagSeq : Nat]

SettleKinds == {"ack", "discard", "requeue", "return"}

Frame ==
  [do : {"drain", "dispatch"}, queue : Queues, conn : Connections]
    \cup [do : {"get"}, queue : Queues, channel : Channels, noAck : BOOLEAN]
    \cup [do : SettleKinds, channel : Channels, tags : SUBSET Nat]
    \cup [do : {"cancel"}, channel : Channels, queues : SUBSET Queues]

TypeOK ==
  /\ store \in [Queues -> Seq(Message)]
  /\ byTag \in [Tags -> Entry \cup {NoConsumer}]
  /\ byQueue \in [Queues -> Seq(Tags)]
  /\ rrIndex \in [Queues -> Nat]
  /\ priorityRrIndex \in [Queues -> [Priorities -> Nat]]
  /\ channel \in [Channels -> Channel]
  /\ unacked \in [Channels -> SUBSET Unacked]
  /\ call \in Seq(Frame)
  /\ microtasks \in Seq([channel : Channels, noAck : BOOLEAN, message : Delivered])
  /\ expired \subseteq Ids
  /\ held \in [Channels -> SUBSET Delivered]
  /\ published \in 0 .. MaxMessages
  /\ done \subseteq Ids
  /\ delivered \subseteq Ids
  /\ used \subseteq Tags

-----------------------------------------------------------------------------
(* Lookups *)

Registered(t) == byTag[t] # NoConsumer
Consumers(q) == byQueue[q]
TagsOf(c) == {u.tag : u \in unacked[c]}

(* ApiConnection.getInternalChannel: the consumer registry keeps a channel
   NUMBER, resolved in the channels map of the connection that dispatches. *)
GetChannel(conn, number) ==
  {c \in Channels : ConnOf[c] = conn /\ Number[c] = number /\ channel[c].mapped}

(* A prefetch limit of 0 is no limit. *)
BelowOffByOne(limit, n) == limit = 0 \/ n <= limit
Below(limit, n) == limit = 0 \/ n < limit

(* The channel a delivery to consumer t would go through, if t may be served. *)
EligibleOn(conn, t) ==
  {c \in GetChannel(conn, Number[byTag[t].channel]) :
     /\ channel[c].flow
     /\ \/ byTag[t].noAck
        \/ /\ Below(channel[c].consumerPrefetch, byTag[t].unackedCount)
           /\ Below(channel[c].channelPrefetch, Cardinality(unacked[c]))}

Eligible(conn, t) == EligibleOn(conn, t) # {}

-----------------------------------------------------------------------------
(* Choosing the consumer to serve *)

PriorityAt(q, k) == byTag[Consumers(q)[k]].priority

MixedPriorities(q) == PriorityAt(q, 1) # PriorityAt(q, Len(Consumers(q)))

(* Positions of the consumers that share the priority of position k:
   contiguous, because byQueue is sorted by priority. *)
Group(q, k) == {j \in DOMAIN Consumers(q) : PriorityAt(q, j) = PriorityAt(q, k)}

Offset(q, k) == k - Min(Group(q, k))

RotationStart(q, k) ==
  IF MixedPriorities(q) THEN priorityRrIndex[q][PriorityAt(q, k)] ELSE rrIndex[q]

(* How many consumers of its group findEligibleRoundRobin inspects before k. *)
Distance(q, k) ==
  (Offset(q, k) - RotationStart(q, k)) % Cardinality(Group(q, k))

(* Position k of byQueue[q] is the one a dispatch by conn serves next:
   the first of a single-active-consumer queue, otherwise the next eligible
   one in rotation among those of the highest priority that has one. *)
ServedNext(conn, q, k) ==
  /\ Eligible(conn, Consumers(q)[k])
  /\ IF q \in SacQueues
     THEN k = 1
     ELSE \A j \in DOMAIN Consumers(q) :
            Eligible(conn, Consumers(q)[j]) =>
              /\ PriorityAt(q, j) <= PriorityAt(q, k)
              /\ j \in Group(q, k) => Distance(q, k) <= Distance(q, j)

NextIndex(q, k) == (Offset(q, k) + 1) % Cardinality(Group(q, k))

(* The rotation moves past k, in the index the kind of dispatch uses. *)
Rotate(q, k) ==
  IF q \in SacQueues THEN UNCHANGED <<rrIndex, priorityRrIndex>>
  ELSE IF MixedPriorities(q)
  THEN /\ priorityRrIndex' = [priorityRrIndex EXCEPT ![q][PriorityAt(q, k)] = NextIndex(q, k)]
       /\ UNCHANGED rrIndex
  ELSE /\ rrIndex' = [rrIndex EXCEPT ![q] = NextIndex(q, k)]
       /\ UNCHANGED priorityRrIndex

-----------------------------------------------------------------------------
(* Frames *)

Drain(conn, q) == [do |-> "drain", queue |-> q, conn |-> conn]
Settle(how, c, T) == [do |-> how, channel |-> c, tags |-> T]

(* Dispatcher.dispatch for each queue of S; the order in which messageStores
   or a Set enumerates the names is any order. *)
DispatchOrders(conn, S) ==
  {[i \in DOMAIN s |-> Drain(conn, s[i])] : s \in SetToSeqs(S)}

Idle == call = <<>>
Top == call[1]
Pop == call' = Tail(call)

Init ==
  /\ store = [q \in Queues |-> <<>>]
  /\ byTag = [t \in Tags |-> NoConsumer]
  /\ byQueue = [q \in Queues |-> <<>>]
  /\ rrIndex = [q \in Queues |-> 0]
  /\ priorityRrIndex = [q \in Queues |-> [p \in Priorities |-> 0]]
  /\ channel = [c \in Channels |-> [open |-> TRUE, mapped |-> TRUE, flow |-> TRUE,
                  consumerPrefetch |-> 0, channelPrefetch |-> 0, tagSeq |-> 0]]
  /\ unacked = [c \in Channels |-> {}]
  /\ call = <<>>
  /\ microtasks = <<>>
  /\ expired = {}
  /\ held = [c \in Channels |-> {}]
  /\ published = 0
  /\ done = {}
  /\ delivered = {}
  /\ used = {}

-----------------------------------------------------------------------------
(* Steps of the call in progress *)

(* MessageStore.drainExpired drops expired messages from the head; the queue
   has no dead-letter exchange here. *)
HeadExpired(q) == store[q] # <<>> /\ Head(store[q]).id \in expired

DropExpired ==
  /\ ~Idle /\ Top.do \in {"drain", "get"}
  /\ HeadExpired(Top.queue)
  /\ store' = [store EXCEPT ![Top.queue] = Tail(@)]
  /\ done' = done \cup {Head(store[Top.queue]).id}
  /\ UNCHANGED <<byTag, byQueue, rrIndex, priorityRrIndex, channel, unacked, call,
                 clientVars, expired, published, delivered, used>>

DrainEnd ==
  /\ ~Idle /\ Top.do = "drain"
  /\ ~HeadExpired(Top.queue)
  /\ call' = [call EXCEPT ![1].do = "dispatch"]
  /\ UNCHANGED <<brokerVars, clientVars, expired, historyVars>>

(* Channel.nextDeliveryTag *)
NextTagFromSize(c) == Cardinality(unacked[c]) + 1
NextTag(c) == channel[c].tagSeq + 1

(* Dispatcher.deliver: the head of q goes to consumer t through channel c,
   the callback of the channel that registered t is scheduled. *)
Deliver(q, t, c) ==
  LET m == Head(store[q])
      tag == NextTag(c)
  IN  /\ store' = [store EXCEPT ![q] = Tail(@)]
      /\ channel' = [channel EXCEPT ![c].tagSeq = tag]
      /\ \/ /\ byTag[t].noAck
            /\ done' = done \cup {m.id}
            /\ UNCHANGED <<unacked, byTag>>
         \/ /\ ~byTag[t].noAck
            /\ unacked' = [unacked EXCEPT ![c] = @ \cup
                 {[tag |-> tag, message |-> m, queue |-> q, consumer |-> t]}]
            /\ byTag' = [byTag EXCEPT ![t].unackedCount = @ + 1]
            /\ UNCHANGED done
      /\ delivered' = delivered \cup {m.id}
      /\ microtasks' = Append(microtasks,
           [channel |-> byTag[t].channel, noAck |-> byTag[t].noAck,
            message |-> [tag |-> tag, consumer |-> t, id |-> m.id]])

CanServe(conn, q) ==
  store[q] # <<>> /\ \E k \in DOMAIN Consumers(q) : ServedNext(conn, q, k)

DispatchStep ==
  /\ ~Idle /\ Top.do = "dispatch"
  /\ \E k \in DOMAIN Consumers(Top.queue) :
       /\ store[Top.queue] # <<>>
       /\ ServedNext(Top.conn, Top.queue, k)
       /\ Rotate(Top.queue, k)
       /\ LET t == Consumers(Top.queue)[k]
          IN  \E c \in EligibleOn(Top.conn, t) : Deliver(Top.queue, t, c)
  /\ UNCHANGED <<byQueue, call, expired, held, published, used>>

DispatchEnd ==
  /\ ~Idle /\ Top.do = "dispatch"
  /\ ~CanServe(Top.conn, Top.queue)
  /\ Pop
  /\ UNCHANGED <<brokerVars, clientVars, expired, historyVars>>

(* onDequeue of basic.get: after the drain the caller gets the head. *)
GetTake ==
  /\ ~Idle /\ Top.do = "get"
  /\ ~HeadExpired(Top.queue)
  /\ store[Top.queue] # <<>>
  /\ LET c == Top.channel
         m == Head(store[Top.queue])
         tag == NextTag(c)
     IN  /\ store' = [store EXCEPT ![Top.queue] = Tail(@)]
         /\ channel' = [channel EXCEPT ![c].tagSeq = tag]
         /\ delivered' = delivered \cup {m.id}
         /\ \/ /\ Top.noAck
               /\ done' = done \cup {m.id}
               /\ UNCHANGED <<unacked, held>>
            \/ /\ ~Top.noAck
               /\ unacked' = [unacked EXCEPT ![c] = @ \cup
                    {[tag |-> tag, message |-> m, queue |-> Top.queue, consumer |-> NoConsumer]}]
               /\ held' = [held EXCEPT ![c] = @ \cup
                    {[tag |-> tag, consumer |-> NoConsumer, id |-> m.id]}]
               /\ UNCHANGED done
  /\ Pop
  /\ UNCHANGED <<byTag, byQueue, rrIndex, priorityRrIndex, microtasks, expired, published, used>>

GetEmpty ==
  /\ ~Idle /\ Top.do = "get"
  /\ store[Top.queue] = <<>>
  /\ Pop
  /\ UNCHANGED <<brokerVars, clientVars, expired, historyVars>>

(* Channel.removeUnacked and removeUnackedUpTo. *)
NotRemoved(c, u) == unacked
Removed(c, u) == [unacked EXCEPT ![c] = @ \ {u}]

(* MessageStore.requeue of requeuedMessage: at the HEAD, deliveryCount + 1. *)
Recounted(m) == [m EXCEPT !.deliveryCount = @ + 1]
RequeuedFresh(u) == [store EXCEPT ![u.queue] = <<u.message>> \o @]
RequeuedAtTail(u) == [store EXCEPT ![u.queue] = Append(@, Recounted(u.message))]
NotRequeued(u) == store
Requeued(u) == [store EXCEPT ![u.queue] = <<Recounted(u.message)>> \o @]

(* The loop goes on with the remaining tags; dispatchQueues runs once for each
   queue touched, after the loop.  recover and close ("return") collect none. *)
Remaining(u) == [call EXCEPT ![1].tags = @ \ {u.tag}]
SettledWithoutDispatch(u) == Remaining(u)
SettledWithoutProgress(u) == call
Settled(u) ==
  LET frame == Drain(ConnOf[Top.channel], u.queue)
  IN  IF Top.do = "return" \/ frame \in ToSet(call)
      THEN Remaining(u) ELSE Append(Remaining(u), frame)

(* One iteration over the deliveries being settled, in tag order.  ack and
   discard (nack or reject with requeue=false on a queue that has no
   dead-letter exchange) end the message; requeue and return put it back. *)
SettleStep ==
  /\ ~Idle /\ Top.do \in SettleKinds
  /\ \E u \in unacked[Top.channel] :
       /\ u.tag \in Top.tags
       /\ \A n \in Top.tags : u.tag <= n
       /\ unacked' = Removed(Top.channel, u)
       /\ \/ /\ Top.do \in {"ack", "discard"}
             /\ done' = done \cup {u.message.id}
             /\ UNCHANGED store
          \/ /\ Top.do \in {"requeue", "return"}
             /\ store' = Requeued(u)
             /\ UNCHANGED done
       /\ call' = Settled(u)
  /\ UNCHANGED <<byTag, byQueue, rrIndex, priorityRrIndex, channel,
                 clientVars, expired, published, delivered, used>>

SettleEnd ==
  /\ ~Idle /\ Top.do \in SettleKinds /\ Top.tags = {}
  /\ Pop
  /\ UNCHANGED <<brokerVars, clientVars, expired, historyVars>>

Unregister(t) ==
  LET q == byTag[t].queue
  IN  /\ byTag' = [byTag EXCEPT ![t] = NoConsumer]
      /\ \E i \in DOMAIN byQueue[q] :
           /\ byQueue[q][i] = t
           /\ byQueue' = [byQueue EXCEPT ![q] = RemoveAt(@, i)]

(* ConsumerRegistry.cancelByChannel compares channel NUMBERS.  It walks byTag;
   a walk of the byQueue arrays it splices would skip consumers. *)
OnNumberSkipping(c) ==
  {t \in Tags : /\ Registered(t) /\ Number[byTag[t].channel] = Number[c]
                /\ byTag[t].queue \notin Top.queues}
OnNumber(c) ==
  {t \in Tags : Registered(t) /\ Number[byTag[t].channel] = Number[c]}

CancelStep ==
  /\ ~Idle /\ Top.do = "cancel"
  /\ \E t \in OnNumber(Top.channel) :
       /\ Unregister(t)
       /\ call' = [call EXCEPT ![1].queues = @ \cup {byTag[t].queue}]
  /\ UNCHANGED <<store, rrIndex, priorityRrIndex, channel, unacked, clientVars,
                 expired, historyVars>>

(* A single-active-consumer queue that lost its consumer but has others is
   dispatched; only then Channel.close requeues, without a dispatch. *)
CancelEnd ==
  /\ ~Idle /\ Top.do = "cancel"
  /\ OnNumber(Top.channel) = {}
  /\ LET c == Top.channel
         failover == {q \in Top.queues \cap SacQueues : byQueue[q] # <<>>}
     IN  \E dispatches \in DispatchOrders(ConnOf[c], failover) :
           call' = dispatches \o <<Settle("return", c, TagsOf(c))>> \o Tail(call)
  /\ channel' = [channel EXCEPT ![Top.channel].mapped = FALSE]
  /\ UNCHANGED <<store, byTag, byQueue, rrIndex, priorityRrIndex, unacked,
                 clientVars, expired, historyVars>>

RunCall ==
  \/ DropExpired \/ DrainEnd \/ DispatchStep \/ DispatchEnd
  \/ GetTake \/ GetEmpty
  \/ SettleStep \/ SettleEnd
  \/ CancelStep \/ CancelEnd

-----------------------------------------------------------------------------
(* Operations of the clients *)

May(op) == op \in ClientOps
Calls(c) == Idle /\ channel[c].open

Publish(c, q) ==
  /\ Calls(c)
  /\ published < MaxMessages
  /\ published' = published + 1
  /\ store' = [store EXCEPT ![q] = Append(@, [id |-> published + 1, deliveryCount |-> 0])]
  /\ call' = <<Drain(ConnOf[c], q)>>
  /\ UNCHANGED <<byTag, byQueue, rrIndex, priorityRrIndex, channel, unacked,
                 clientVars, expired, done, delivered, used>>

InsertAtEnd(q, p) == Len(byQueue[q]) + 1
InsertByPriority(q, p) ==
  LET lower == {i \in DOMAIN byQueue[q] : PriorityAt(q, i) < p}
  IN  IF lower = {} THEN Len(byQueue[q]) + 1 ELSE Min(lower)

(* Where register puts a consumer of priority p: at the end, or before the
   first one of a lower priority unless q is single-active-consumer. *)
InsertPosition(q, p) ==
  LET lower == {i \in DOMAIN byQueue[q] : PriorityAt(q, i) < p}
  IN  IF q \in SacQueues \/ lower = {} THEN Len(byQueue[q]) + 1 ELSE Min(lower)

(* A tag in use, and exclusive access that cannot be granted, are refused. *)
Consume(c, q, t, o) ==
  /\ Calls(c)
  /\ ~Registered(t)
  /\ t \in used => May("reuseTag")
  /\ o.exclusive => q \notin SacQueues /\ byQueue[q] = <<>>
  /\ \A i \in DOMAIN byQueue[q] : ~byTag[byQueue[q][i]].exclusive
  /\ byTag' = [byTag EXCEPT ![t] =
       [queue |-> q, channel |-> c, noAck |-> o.noAck, exclusive |-> o.exclusive,
        priority |-> o.priority, unackedCount |-> 0]]
  /\ byQueue' = [byQueue EXCEPT ![q] = InsertAt(@, InsertPosition(q, o.priority), t)]
  /\ used' = used \cup {t}
  /\ call' = <<Drain(ConnOf[c], q)>>
  /\ UNCHANGED <<store, rrIndex, priorityRrIndex, channel, unacked, clientVars,
                 expired, published, done, delivered>>

(* basic.cancel; the deliveries of the consumer stay unacknowledged. *)
Cancel(c, t) ==
  /\ May("cancel") /\ Calls(c)
  /\ Registered(t)
  /\ Unregister(t)
  /\ LET q == byTag[t].queue
     IN  call' = IF q \in SacQueues /\ byQueue'[q] # <<>>
                 THEN <<Drain(ConnOf[c], q)>> ELSE <<>>
  /\ UNCHANGED <<store, rrIndex, priorityRrIndex, channel, unacked, clientVars,
                 expired, historyVars>>

Get(c, q, noAck) ==
  /\ May("get") /\ Calls(c)
  /\ call' = <<[do |-> "get", queue |-> q, channel |-> c, noAck |-> noAck]>>
  /\ UNCHANGED <<brokerVars, clientVars, expired, historyVars>>

(* updateConsumerUnacked: once per call, before the tag is looked up. *)
NotDecremented(t) == byTag
DecrementedBelowZero(t) ==
  IF t # NoConsumer /\ Registered(t)
  THEN [byTag EXCEPT ![t].unackedCount = @ - 1] ELSE byTag
Decremented(t) ==
  IF t # NoConsumer /\ Registered(t) /\ byTag[t].unackedCount > 0
  THEN [byTag EXCEPT ![t].unackedCount = @ - 1] ELSE byTag

Covered(c, d, multiple) ==
  {n \in TagsOf(c) : IF multiple THEN n <= d.tag ELSE n = d.tag}

(* A client remembers a delivery until it has answered it, or for ever if it
   may answer twice. *)
Answered(c, d, multiple) ==
  IF May("repeat") THEN held
  ELSE [held EXCEPT ![c] = {e \in @ : IF multiple THEN e.tag > d.tag ELSE e.tag # d.tag}]

(* A call whose tag is unknown throws: only the decrement has happened. *)
Answer(c, d, multiple, how) ==
  /\ Calls(c)
  /\ multiple => May("multiple")
  /\ byTag' = Decremented(d.consumer)
  /\ held' = Answered(c, d, multiple)
  /\ LET T == Covered(c, d, multiple)
     IN  call' = IF T = {} THEN <<>> ELSE <<Settle(how, c, T)>>
  /\ UNCHANGED <<store, byQueue, rrIndex, priorityRrIndex, channel, unacked,
                 microtasks, expired, historyVars>>

Requeueable(c, T) ==
  \A u \in unacked[c] : u.tag \in T => u.message.deliveryCount < MaxRequeues

Ack(c, d, multiple) == Answer(c, d, multiple, "ack")

(* basic.nack; basic.reject is the case multiple = FALSE. *)
Nack(c, d, multiple, requeue) ==
  /\ May("nack")
  /\ requeue => Requeueable(c, Covered(c, d, multiple))
  /\ Answer(c, d, multiple, IF requeue THEN "requeue" ELSE "discard")

(* ackAll, nackAll and recover settle everything outstanding on the channel
   and decrement no consumer. *)
SettleAll(c, how, after) ==
  /\ Calls(c)
  /\ held' = IF May("repeat") THEN held ELSE [held EXCEPT ![c] = {}]
  /\ call' = <<Settle(how, c, TagsOf(c))>> \o after
  /\ UNCHANGED <<brokerVars, microtasks, expired, historyVars>>

AckAll(c) == May("all") /\ SettleAll(c, "ack", <<>>)

NackAll(c, requeue) ==
  /\ May("all")
  /\ requeue => Requeueable(c, TagsOf(c))
  /\ SettleAll(c, IF requeue THEN "requeue" ELSE "discard", <<>>)

Recover(c) ==
  /\ May("recover")
  /\ Requeueable(c, TagsOf(c))
  /\ \E all \in DispatchOrders(ConnOf[c], Queues) : SettleAll(c, "return", all)

Prefetch(c, count, global) ==
  /\ May("prefetch") /\ Calls(c)
  /\ (\E t \in Tags : Registered(t) /\ byTag[t].channel = c) => May("prefetchLater")
  /\ channel' = IF global THEN [channel EXCEPT ![c].channelPrefetch = count]
                ELSE [channel EXCEPT ![c].consumerPrefetch = count]
  /\ UNCHANGED <<store, byTag, byQueue, rrIndex, priorityRrIndex, unacked, call,
                 clientVars, expired, historyVars>>

Flow(c, active) ==
  /\ May("flow") /\ Calls(c)
  /\ channel' = [channel EXCEPT ![c].flow = active]
  /\ \E all \in DispatchOrders(ConnOf[c], Queues) : call' = IF active THEN all ELSE <<>>
  /\ UNCHANGED <<store, byTag, byQueue, rrIndex, priorityRrIndex, unacked,
                 clientVars, expired, historyVars>>

(* ApiChannel.close, called by the client or by its closing connection. *)
Close(c) ==
  /\ May("close") \/ ~channel[c].mapped
  /\ Calls(c)
  /\ channel' = [channel EXCEPT ![c].open = FALSE]
  /\ held' = [held EXCEPT ![c] = {}]
  /\ call' = <<[do |-> "cancel", channel |-> c, queues |-> {}]>>
  /\ UNCHANGED <<store, byTag, byQueue, rrIndex, priorityRrIndex, unacked,
                 microtasks, expired, historyVars>>

(* ApiConnection.close forgets its channels at once and then awaits their
   close one by one, so that other calls run in between. *)
CloseConnection(conn) ==
  /\ May("closeConnection") /\ Idle
  /\ \E c \in Channels : ConnOf[c] = conn /\ channel[c].mapped
  /\ channel' = [c \in Channels |-> IF ConnOf[c] = conn
                   THEN [channel[c] EXCEPT !.mapped = FALSE] ELSE channel[c]]
  /\ UNCHANGED <<store, byTag, byQueue, rrIndex, priorityRrIndex, unacked, call,
                 clientVars, expired, historyVars>>

(* The event loop runs a scheduled callback: the client has the message. *)
RunMicrotask ==
  /\ Idle /\ microtasks # <<>>
  /\ LET task == Head(microtasks)
         keep == channel[task.channel].open /\ (task.noAck => May("repeat"))
     IN  held' = [held EXCEPT ![task.channel] = IF keep THEN @ \cup {task.message} ELSE @]
  /\ microtasks' = Tail(microtasks)
  /\ UNCHANGED <<brokerVars, call, expired, historyVars>>

(* The clock passes the expiresAt of a message. *)
Expire(id) ==
  /\ Idle /\ id \in 1 .. published
  /\ expired' = expired \cup {id}
  /\ UNCHANGED <<brokerVars, call, clientVars, historyVars>>

AnswerNext(c) ==
  \/ \E d \in held[c], multiple \in BOOLEAN :
       \/ Ack(c, d, multiple)
       \/ \E requeue \in BOOLEAN : Nack(c, d, multiple, requeue)
  \/ AckAll(c)
  \/ \E requeue \in BOOLEAN : NackAll(c, requeue)

ClientNext(c) ==
  \/ \E q \in Queues : Publish(c, q)
  \/ \E q \in Queues, t \in Tags, o \in ConsumeOptions : Consume(c, q, t, o)
  \/ \E t \in Tags : Cancel(c, t)
  \/ \E q \in Queues, noAck \in BOOLEAN : Get(c, q, noAck)
  \/ AnswerNext(c)
  \/ Recover(c)
  \/ \E count \in PrefetchCounts, global \in BOOLEAN : Prefetch(c, count, global)
  \/ \E active \in BOOLEAN : Flow(c, active)
  \/ Close(c)

Next ==
  \/ RunCall
  \/ RunMicrotask
  \/ \E c \in Channels : ClientNext(c)
  \/ \E conn \in Connections : CloseConnection(conn)
  \/ \E id \in Perishable : Expire(id)

Spec == Init /\ [][Next]_vars

(* What JavaScript guarantees: a call in progress runs on, scheduled callbacks
   run once the stack is empty, and an awaited channel close continues. *)
BrokerFairness ==
  /\ WF_vars(RunCall)
  /\ WF_vars(RunMicrotask)
  /\ \A c \in Channels : WF_vars(~channel[c].mapped /\ Close(c))

(* Clients that keep every queue consumed and ack what they were given. *)
ClientFairness ==
  /\ \A q \in Queues : WF_vars(/\ byQueue[q] = <<>>
                               /\ \E c \in Channels, t \in Tags, o \in ConsumeOptions :
                                    Consume(c, q, t, o))
  /\ \A c \in Channels : WF_vars(\E d \in held[c] : Ack(c, d, FALSE))

LiveSpec == Spec /\ BrokerFairness /\ ClientFairness

-----------------------------------------------------------------------------
(* Properties *)

StoredIds(q) == {store[q][i].id : i \in DOMAIN store[q]}
UnackedIds(c) == {u.message.id : u \in unacked[c]}

(* No message is lost and none is duplicated: whatever the clients do, every
   published message is exactly once in a store, or unacknowledged on exactly
   one channel, or done with.  The code moves messages by value between arrays
   and maps in six places (enqueue, dequeue, track, remove, requeue, drain). *)
AtMostOnce ==
  /\ \A q \in Queues : \A i, j \in DOMAIN store[q] :
        store[q][i].id = store[q][j].id => i = j
  /\ \A q, r \in Queues : q # r => StoredIds(q) \cap StoredIds(r) = {}
  /\ \A c, d \in Channels : \A u \in unacked[c], v \in unacked[d] :
        u.message.id = v.message.id => c = d /\ u = v
  /\ \A q \in Queues, c \in Channels : StoredIds(q) \cap UnackedIds(c) = {}
  /\ \A q \in Queues : StoredIds(q) \cap done = {}
  /\ \A c \in Channels : UnackedIds(c) \cap done = {}

NothingLost ==
  1 .. published = done \cup (UNION {StoredIds(q) : q \in Queues})
                        \cup (UNION {UnackedIds(c) : c \in Channels})

(* A stored message carries redelivered=true (deliveryCount > 0) exactly if it
   has been handed out before: get, nack, reject, recover and close all count. *)
RedeliveredIffDelivered ==
  \A q \in Queues : \A i \in DOMAIN store[q] :
    store[q][i].deliveryCount > 0 <=> store[q][i].id \in delivered

(* Messages never delivered leave a queue in the order they were published,
   after every redelivered one: requeueing, at the head, never lets a fresh
   message be overtaken by a later one. *)
FreshInOrder ==
  \A q \in Queues : \A i, j \in DOMAIN store[q] :
    i < j /\ store[q][i].deliveryCount = 0 =>
      store[q][j].deliveryCount = 0 /\ store[q][i].id < store[q][j].id

(* The tag a client answers with settles the message it was delivered with,
   however late the callback ran and whatever was settled in between. *)
AnswersNameTheirMessage ==
  \A c \in Channels : \A u \in unacked[c] :
    /\ \A d \in held[c] : d.tag = u.tag => d.id = u.message.id
    /\ \A i \in DOMAIN microtasks :
         microtasks[i].channel = c /\ microtasks[i].message.tag = u.tag =>
           microtasks[i].message.id = u.message.id

(* The registry's two indexes agree, keep a queue's consumers in priority
   order, and never let an exclusive consumer share its queue, whatever
   sequence of consume, cancel and close led here. *)
RegistryConsistent ==
  /\ \A q \in Queues : IsInjective(byQueue[q])
  /\ \A t \in Tags, q \in Queues :
       t \in ToSet(byQueue[q]) <=> Registered(t) /\ byTag[t].queue = q
  /\ \A q \in Queues \ SacQueues : \A i, j \in DOMAIN byQueue[q] :
       i < j => PriorityAt(q, i) >= PriorityAt(q, j)
  /\ \A q \in Queues : \A i \in DOMAIN byQueue[q] :
       byTag[byQueue[q][i]].exclusive => Len(byQueue[q]) = 1

(* A closed channel holds nothing once the call that closed it has returned:
   its deliveries went back to their queues and its consumers are gone. *)
ClosedChannelHoldsNothing ==
  \A c \in Channels : Idle /\ ~channel[c].open =>
    /\ unacked[c] = {}
    /\ \A t \in Tags : Registered(t) => byTag[t].channel # c

Room(limit, deliveries) == limit = 0 \/ Cardinality(deliveries) < limit

OutstandingOf(t) ==
  {u \in UNION {unacked[c] : c \in Channels} : u.consumer = t}

(* The counter that prefetch is enforced with is the number of deliveries of
   the consumer that are unacknowledged: true for clients that answer each
   delivery once and one at a time. *)
CountsOutstanding ==
  Idle => \A t \in Tags : Registered(t) =>
    byTag[t].unackedCount = Cardinality(OutstandingOf(t))

(* No delivery takes a consumer past its channel's per-consumer limit or the
   channel past its shared limit, measured by what is really outstanding. *)
PrefetchRespected ==
  [][\A c \in Channels : \A u \in unacked'[c] \ unacked[c] :
       u.consumer # NoConsumer =>
         /\ Room(channel[c].consumerPrefetch, OutstandingOf(u.consumer))
         /\ Room(channel[c].channelPrefetch, unacked[c])]_vars

(* Work conservation: between calls no queue holds back a message while one of
   its consumers has an open, flowing channel and room for a delivery
   (dispatcher.ts: "Holds messages in the queue when all consumers are at
   their limits"). *)
HasRoom(t) ==
  LET c == byTag[t].channel
  IN  /\ channel[c].mapped /\ channel[c].flow
      /\ \/ byTag[t].noAck
         \/ /\ Room(channel[c].consumerPrefetch, OutstandingOf(t))
            /\ Room(channel[c].channelPrefetch, unacked[c])

NothingHeldBack ==
  Idle => \A q \in Queues : store[q] # <<>> =>
    \A i \in DOMAIN byQueue[q] : (q \in SacQueues => i = 1) => ~HasRoom(byQueue[q][i])

(* A single-active-consumer queue serves one consumer, and goes on serving it
   for as long as it stays registered, whoever else registers. *)
SingleActive ==
  [][\A q \in SacQueues : byQueue[q] # <<>> =>
       LET active == byQueue[q][1]
       IN  /\ byTag'[active] # NoConsumer => byQueue'[q][1] = active
           /\ \A c \in Channels : \A u \in unacked'[c] \ unacked[c] :
                u.queue = q => u.consumer \in {active, NoConsumer}]_vars

(* Run to completion terminates: no dispatch, drain or settle loop spins. *)
CallsReturn == ~Idle ~> Idle

(* With clients that consume and ack, every message published is eventually
   done with. *)
EveryMessageSettled == \A id \in Ids : id \in 1 .. published ~> id \in done

(* The contract of the queues, told in the broker's data structures: what is in
   the arrays of the stores is ready, what is in the channels' maps is
   outstanding, and what was never in a delivery is fresh.  Whatever the
   operations do between themselves - dispatch loops, multiple acks, requeues
   at the head, closing channels - each of their steps is a legal move of one
   message, or moves none. *)
Contract ==
  INSTANCE QueueContract WITH
    ready <- [q \in Queues |-> StoredIds(q)],
    outstanding <- [c \in Channels |->
                      {[id |-> u.message.id, queue |-> u.queue] : u \in unacked[c]}],
    fresh <- (1 .. published) \ delivered,
    over <- done

KeepsContract == Contract!Spec
=============================================================================
