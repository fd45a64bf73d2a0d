----------------------------- MODULE Publishing -----------------------------
(***************************************************************************)
(* Publishing in rabbitbox: routing to queues, length limits, priorities,  *)
(* expiry, dead lettering and publisher confirms (publish.ts, overflow.ts, *)
(* dead-letter.ts, message-store.ts, priority-message-store.ts, and publish *)
(* and waitForConfirms of api/channel.ts).                                 *)
(*                                                                         *)
(* One channel, whose consumers have no prefetch limit: whom a dispatch    *)
(* serves is the subject of module Delivery.  Queues and bindings are      *)
(* fixed, exchanges may be deleted: what else happens to them is the       *)
(* subject of module Topology.  A binding matches its own key; module      *)
(* Routing has the other kinds of exchange.                                *)
(*                                                                         *)
(* A publish runs to completion with all that it causes: dead letters of   *)
(* the messages it displaces are published within it, and so on.  The      *)
(* nested calls are frames of `call`, as in module Delivery.               *)
(***************************************************************************)
EXTENDS Naturals, FiniteSets, SequencesExt

CONSTANTS
  Exchanges,         \* declared at the start
  Default,           \* the default exchange
  Internal,          \* those declared internal
  Alternate,         \* exchange -> its alternate exchange, where it has one
  Queues,
  Keys,              \* routing keys; the names of queues are among them
  QueueBindings,     \* [exchange, key, queue]
  ExchangeBindings,  \* [source, key, destination]
  MaxLength,         \* queue -> x-max-length, where it has one
  MaxLengthBytes,    \* queue -> x-max-length-bytes, where it has one
  Overflow,          \* queue -> x-overflow
  DeadLetterExchange,    \* queue -> x-dead-letter-exchange, where it has one
  DeadLetterRoutingKey,  \* queue -> x-dead-letter-routing-key, likewise
  MessageTtl,        \* queues declared with x-message-ttl
  MaxPriority,       \* queue -> x-max-priority, 0 for a plain queue
  Publications,      \* what the clients publish
  ClientOps,         \* operations the clients use, by name
  Consumable,        \* bound: queues the clients consume
  Gettable,          \* bound: queues the clients get from
  Deletable,         \* bound: exchanges the clients delete
  MaxPublished,      \* bound: messages published
  MaxDeaths          \* bound: deaths of a message the clients and the clock cause

Ids == 1 .. MaxPublished
Overflows == {"drop-head", "reject-publish", "reject-publish-dlx"}
Reasons == {"rejected", "expired", "maxlen"}

Publication == [exchange : Exchanges, key : Keys, cc : SUBSET Keys, bcc : SUBSET Keys,
                mandatory : BOOLEAN, priority : Nat, expiration : BOOLEAN, size : Nat]

ASSUME PublishingAssumption ==
  /\ IsFiniteSet(Exchanges) /\ IsFiniteSet(Queues)
  /\ Default \in Exchanges \ Internal
  /\ DOMAIN Alternate \subseteq Exchanges
  /\ Queues \subseteq Keys
  /\ QueueBindings \subseteq [exchange : Exchanges, key : Keys, queue : Queues]
  /\ ExchangeBindings \subseteq [source : Exchanges, key : Keys, destination : Exchanges]
  /\ \A q \in DOMAIN MaxLength : MaxLength[q] \in Nat
  /\ \A q \in DOMAIN MaxLengthBytes : MaxLengthBytes[q] \in Nat
  /\ Overflow \in [Queues -> Overflows]
  /\ \A q \in DOMAIN DeadLetterExchange : DeadLetterExchange[q] \in Exchanges
  /\ \A q \in DOMAIN DeadLetterRoutingKey : DeadLetterRoutingKey[q] \in Keys
  /\ MaxPriority \in [Queues -> Nat]
  /\ Publications \subseteq Publication
  /\ Consumable \subseteq Queues /\ Gettable \subseteq Queues
  /\ Deletable \subseteq Exchanges \ {Default}
  /\ MaxPublished \in Nat
  /\ MaxDeaths \in Nat

VARIABLES
  exists,       \* ExchangeRegistry.exchanges
  store,        \* the message store of every queue, in dequeue order
  unacked,      \* deliveries not answered, in the order of their tags
  consumed,     \* queues that have a consumer
  confirmMode,  \* Channel._confirmMode
  tagSeq,       \* Channel.publisherDeliveryTagSeq
  pending,      \* ApiChannel.pendingConfirms
  waiters,      \* length of ApiChannel.confirmWaiters
  call,         \* frames of the synchronous call in progress
  published,    \* history: number of messages published
  events,       \* history: 'return', 'ack' and 'nack' events of the channel
  refused       \* history: messages a queue refused when they were published

brokerVars == <<exists, store, unacked, consumed>>
confirmVars == <<confirmMode, tagSeq, pending, waiters>>
historyVars == <<published, events, refused>>
vars == <<brokerVars, confirmVars, call, historyVars>>

-----------------------------------------------------------------------------
(* Types *)

Death == [queue : Queues, reason : Reasons]
DeathEntry == [queue : Queues, reason : Reasons, count : Nat]

(* expiration: the message has a time-to-live of its own; expiresAt: whether it
   expires in the queue it is in, and whether that moment has passed.  trail is
   history: the message's deaths, in order. *)
Message == [id : Ids, key : Keys, cc : SUBSET Keys, priority : Nat, size : Nat,
            expiration : BOOLEAN, expiresAt : {"never", "later", "past"},
            xDeath : Seq(DeathEntry), trail : Seq(Death)]

Delivery == [queue : Queues, message : Message]

Event == [type : {"return", "ack", "nack"}, id : Ids]

Frame ==
  [do : {"enqueue"}, message : Message, todo : SUBSET Queues, stored : SUBSET Queues,
   live : BOOLEAN]
    \cup [do : {"dispatch"}, queues : SUBSET Queues, live : BOOLEAN]
    \cup [do : {"deliver"}, queue : Queues, live : BOOLEAN]
    \cup [do : {"dead"}, message : Message, queue : Queues, reason : Reasons, live : BOOLEAN]
    \cup [do : {"get"}, queue : Queues]
    \cup [do : {"return"}, id : Ids]
    \cup [do : {"confirm"}, id : Ids, tag : Nat, ok : BOOLEAN]
    \cup [do : {"try", "listener", "drained"}]

TypeOK ==
  /\ exists \subseteq Exchanges
  /\ store \in [Queues -> Seq(Message)]
  /\ unacked \in Seq(Delivery)
  /\ consumed \subseteq Queues
  /\ confirmMode \in BOOLEAN
  /\ tagSeq \in Nat
  /\ pending \subseteq 1 .. tagSeq
  /\ waiters \in Nat
  /\ call \in Seq(Frame)
  /\ \A i \in DOMAIN call : call[i].do = "enqueue" => call[i].todo \cap call[i].stored = {}
  /\ published \in 0 .. MaxPublished
  /\ events \in Seq(Event)
  /\ refused \subseteq Ids

May(op) == op \in ClientOps
Idle == call = <<>>
Top == call[1]
Pop == call' = Tail(call)

-----------------------------------------------------------------------------
(* Routing *)

Matched(E, K) == {b.queue : b \in {b \in QueueBindings : b.exchange \in E /\ b.key \in K}}

Forwarded(E, K) ==
  {b.destination : b \in {b \in ExchangeBindings : b.source \in E /\ b.key \in K}} \cap exists

(* The exchanges routeThroughExchange visits from e, each once. *)
Visited(e, K) ==
  LET within[n \in Nat] == IF n = 0 THEN {e}
                           ELSE within[n - 1] \cup Forwarded(within[n - 1], K)
  IN  within[Cardinality(Exchanges)]

(* The alternates tried after e: up to one that is gone, or visited before. *)
Chain(e, K) ==
  LET extended(s) ==
        IF /\ Last(s) \in DOMAIN Alternate
           /\ Alternate[Last(s)] \in exists \ (Visited(e, K) \cup ToSet(s))
        THEN Append(s, Alternate[Last(s)]) ELSE s
      chain[n \in Nat] == IF n = 0 THEN <<e>> ELSE extended(chain[n - 1])
  IN  chain[Cardinality(Exchanges)]

Route(e, K) ==
  IF e = Default THEN K \cap Queues
  ELSE LET found == {i \in DOMAIN Chain(e, K) : Matched(Visited(Chain(e, K)[i], K), K) # {}}
       IN  IF found = {} THEN {} ELSE Matched(Visited(Chain(e, K)[Min(found)], K), K)

-----------------------------------------------------------------------------
(* Stores: the priority buckets of a store one after the other *)

Level(q, m) == Min({m.priority, MaxPriority[q]})

(* enqueue: last of its priority; requeue: first of its priority. *)
Enqueued(q, m) ==
  LET lower == {i \in DOMAIN store[q] : Level(q, store[q][i]) < Level(q, m)}
  IN  InsertAt(store[q], IF lower = {} THEN Len(store[q]) + 1 ELSE Min(lower), m)
Requeued(q, m) ==
  LET notHigher == {i \in DOMAIN store[q] : Level(q, store[q][i]) <= Level(q, m)}
  IN  InsertAt(store[q], IF notHigher = {} THEN Len(store[q]) + 1 ELSE Min(notHigher), m)

(* computeExpiresAt *)
Stamped(q, m) ==
  [m EXCEPT !.expiresAt = IF m.expiration \/ q \in MessageTtl THEN "later" ELSE "never"]

(* drainExpired: what expired ahead of everything live of its priority. *)
Drained(q) ==
  {store[q][i] : i \in {i \in DOMAIN store[q] :
     \A j \in 1 .. i : Level(q, store[q][j]) = Level(q, store[q][i]) =>
       store[q][j].expiresAt = "past"}}

Only(s, S) ==
  LET kept[i \in 0 .. Len(s)] ==
        IF i = 0 THEN <<>>
        ELSE IF s[i] \in S THEN Append(kept[i - 1], s[i]) ELSE kept[i - 1]
  IN  kept[Len(s)]

ByteSize(s) ==
  LET upTo[i \in 0 .. Len(s)] == IF i = 0 THEN 0 ELSE upTo[i - 1] + s[i].size
  IN  upTo[Len(s)]

IsAtLimit(q, s) ==
  \/ q \in DOMAIN MaxLength /\ Len(s) >= MaxLength[q]
  \/ q \in DOMAIN MaxLengthBytes /\ ByteSize(s) >= MaxLengthBytes[q]

IsOverByCount(q, s) == q \in DOMAIN MaxLength /\ Len(s) > MaxLength[q]
IsOverLimit(q, s) ==
  \/ q \in DOMAIN MaxLength /\ Len(s) > MaxLength[q]
  \/ q \in DOMAIN MaxLengthBytes /\ ByteSize(s) > MaxLengthBytes[q]

(* How many messages drop-head drops from s, after m was enqueued. *)
Excess(q, s) ==
  IF Overflow[q] # "drop-head" THEN 0
  ELSE Min({n \in 0 .. Len(s) : ~IsOverLimit(q, SubSeq(s, n + 1, Len(s)))})

-----------------------------------------------------------------------------
(* Dead letters *)

DiedHereLast(m, q) ==
  /\ m.xDeath # <<>> /\ m.xDeath[1].queue = q
  /\ \A i \in DOMAIN m.xDeath : m.xDeath[i].reason # "rejected"

(* isDeadLetterCycle: m died in q before, and no client ever rejected it. *)
IsDeadLetterCycle(m, q) ==
  /\ \E i \in DOMAIN m.xDeath : m.xDeath[i].queue = q
  /\ \A i \in DOMAIN m.xDeath : m.xDeath[i].reason # "rejected"

UpdateInPlace(x, q, reason) ==
  LET same == {i \in DOMAIN x : x[i].queue = q /\ x[i].reason = reason}
  IN  IF same = {}
      THEN <<[queue |-> q, reason |-> reason, count |-> 1]>> \o x
      ELSE [x EXCEPT ![Min(same)].count = @ + 1]

(* updateXDeath: one entry for each queue and reason, the latest first. *)
UpdateXDeath(x, q, reason) ==
  LET same == {i \in DOMAIN x : x[i].queue = q /\ x[i].reason = reason}
  IN  IF same = {}
      THEN <<[queue |-> q, reason |-> reason, count |-> 1]>> \o x
      ELSE LET i == Min(same)
           IN  <<[x[i] EXCEPT !.count = @ + 1]>> \o RemoveAt(x, i)

Mortal(m) == Len(m.trail) < MaxDeaths

(* prepareDeadLetter: the message as it is published again, from which its own
   time-to-live is removed. *)
PrepareDeadLetter(m, q, reason) ==
  [m EXCEPT !.key = IF q \in DOMAIN DeadLetterRoutingKey THEN DeadLetterRoutingKey[q] ELSE @,
            !.expiration = FALSE,
            !.xDeath = UpdateXDeath(@, q, reason),
            !.trail = Append(@, [queue |-> q, reason |-> reason])]

Dead(m, q, reason, live) ==
  [do |-> "dead", message |-> m, queue |-> q, reason |-> reason, live |-> live]

(* The name of the default exchange is the empty string, which publish takes for
   no dead-letter exchange at all. *)
DeadLetters(q, reason) ==
  /\ q \in DOMAIN DeadLetterExchange
  /\ reason = "maxlen" => DeadLetterExchange[q] # Default

(* The messages of s die in q, if q has a dead-letter exchange. *)
Deaths(s, q, reason, live) ==
  IF DeadLetters(q, reason) THEN [i \in DOMAIN s |-> Dead(s[i], q, reason, live)] ELSE <<>>

Doomed(s) == Only(s, {d \in ToSet(s) : DeadLetters(d.queue, "rejected")})
RejectionsUnserved(s) ==
  [i \in DOMAIN Doomed(s) |-> Dead(Doomed(s)[i].message, Doomed(s)[i].queue, "rejected", FALSE)]

(* The deliveries of s are rejected, one after the other. *)
Rejections(s) ==
  [i \in DOMAIN Doomed(s) |-> Dead(Doomed(s)[i].message, Doomed(s)[i].queue, "rejected", TRUE)]

EnqueueListedFirst(m, targets, live) ==
  [do |-> "enqueue", message |-> m, todo |-> targets, stored |-> targets, live |-> live]

(* The pipeline of one publish: what it stores is dispatched at the end, to no
   one unless live. *)
Enqueue(m, targets, live) ==
  [do |-> "enqueue", message |-> m, todo |-> targets, stored |-> {}, live |-> live]

Dispatch(queues, live) == [do |-> "dispatch", queues |-> queues, live |-> live]

(* An exception ends the calls up to the publish that dead-lettered for want of
   room, which ignores it, or the client's publish, which is nacked. *)
Thrown ==
  LET catching == {i \in DOMAIN call : call[i].do \in {"try", "confirm"}}
  IN  IF catching = {} THEN <<>>
      ELSE LET i == Min(catching)
               rest == SubSeq(call, i + 1, Len(call))
           IN  IF call[i].do = "try" THEN rest ELSE <<[call[i] EXCEPT !.ok = FALSE]>> \o rest

Init ==
  /\ exists = Exchanges
  /\ store = [q \in Queues |-> <<>>]
  /\ unacked = <<>>
  /\ consumed = {}
  /\ confirmMode = FALSE
  /\ tagSeq = 0
  /\ pending = {}
  /\ waiters = 0
  /\ call = <<>>
  /\ published = 0
  /\ events = <<>>
  /\ refused = {}

-----------------------------------------------------------------------------
(* Steps of the call in progress *)

(* enqueueWithOverflow for one more target (in any order: that of the
   bindings), then dead-lettering of what it displaced or refused. *)
Refuses(q) == Overflow[q] # "drop-head" /\ IsAtLimit(q, store[q])

Refuse(frame, q, rest) ==
  /\ refused' = IF frame.message.trail = <<>> THEN refused \cup {frame.message.id}
                ELSE refused
  /\ call' = (IF Overflow[q] = "reject-publish-dlx"
              THEN Deaths(<<frame.message>>, q, "maxlen", frame.live) ELSE <<>>) \o rest
  /\ UNCHANGED store

Accept(frame, q, rest) ==
  LET s == Enqueued(q, Stamped(q, frame.message))
      n == Excess(q, s)
  IN  /\ store' = [store EXCEPT ![q] = SubSeq(s, n + 1, Len(s))]
      /\ call' = Deaths(SubSeq(s, 1, n), q, "maxlen", frame.live)
                   \o <<[Head(rest) EXCEPT !.stored = @ \cup {q}]>> \o Tail(rest)
      /\ UNCHANGED refused

EnqueueStep ==
  /\ ~Idle /\ Top.do = "enqueue"
  /\ \E q \in Top.todo :
       LET rest == [call EXCEPT ![1].todo = @ \ {q}]
       IN  \/ Refuses(q) /\ Refuse(Top, q, rest)
           \/ ~Refuses(q) /\ Accept(Top, q, rest)
  /\ UNCHANGED <<exists, unacked, consumed, confirmVars, published, events>>

EnqueueEnd ==
  /\ ~Idle /\ Top.do = "enqueue" /\ Top.todo = {}
  /\ call' = <<Dispatch(Top.stored, Top.live)>> \o Tail(call)
  /\ UNCHANGED <<brokerVars, confirmVars, historyVars>>

(* Dispatcher.dispatch, and onDequeue of basic.get, first remove what has
   expired; then the consumer of q, if it can be found, takes everything, or
   the caller of get the head. *)
Drain(q, rest) ==
  /\ store' = [store EXCEPT ![q] = Only(@, ToSet(@) \ Drained(q))]
  /\ call' = Deaths(Only(store[q], Drained(q)), q, "expired", FALSE) \o rest

DispatchStep ==
  /\ ~Idle /\ Top.do = "dispatch"
  /\ \E q \in Top.queues :
       Drain(q, <<[do |-> "deliver", queue |-> q, live |-> Top.live]>>
                  \o [call EXCEPT ![1].queues = @ \ {q}])
  /\ UNCHANGED <<exists, unacked, consumed, confirmVars, historyVars>>

DispatchEnd ==
  /\ ~Idle /\ Top.do = "dispatch" /\ Top.queues = {}
  /\ Pop
  /\ UNCHANGED <<brokerVars, confirmVars, historyVars>>

(* The first n messages of q are delivered. *)
Take(q, n) ==
  /\ store' = [store EXCEPT ![q] = SubSeq(@, n + 1, Len(@))]
  /\ unacked' = unacked \o [i \in 1 .. n |-> [queue |-> q, message |-> store[q][i]]]

DeliverStep ==
  /\ ~Idle /\ Top.do = "deliver"
  /\ Take(Top.queue, IF Top.live /\ Top.queue \in consumed THEN Len(store[Top.queue]) ELSE 0)
  /\ Pop
  /\ UNCHANGED <<exists, consumed, confirmVars, historyVars>>

GetStep ==
  /\ ~Idle /\ Top.do = "get"
  /\ Take(Top.queue, Min({1, Len(store[Top.queue])}))
  /\ Pop
  /\ UNCHANGED <<exists, consumed, confirmVars, historyVars>>

(* deadLetter and deadLetterPublish: publish again through the dead-letter
   exchange, or drop. *)
DeadStep ==
  /\ ~Idle /\ Top.do = "dead"
  /\ LET q == Top.queue
         m == Top.message
         x == DeadLetterExchange[q]
         again == PrepareDeadLetter(m, q, Top.reason)
         publish == Enqueue(again, Route(x, {again.key} \cup again.cc), Top.live)
     IN  \/ /\ \/ x \notin exists
               \/ Top.reason # "rejected" /\ IsDeadLetterCycle(m, q)
            /\ Pop
         \/ /\ x \in exists
            /\ Top.reason = "rejected" \/ ~IsDeadLetterCycle(m, q)
            /\ call' = IF x \notin Internal
                       THEN (IF Top.reason = "maxlen" THEN <<publish, [do |-> "try"]>>
                             ELSE <<publish>>) \o Tail(call)
                       ELSE IF Top.reason = "maxlen" THEN Tail(call) ELSE Thrown
  /\ UNCHANGED <<brokerVars, confirmVars, historyVars>>

TryEnd ==
  /\ ~Idle /\ Top.do = "try"
  /\ Pop
  /\ UNCHANGED <<brokerVars, confirmVars, historyVars>>

Listener == [do |-> "listener"]

(* basic.return of an unroutable mandatory message; the listener is called. *)
ReturnStep ==
  /\ ~Idle /\ Top.do = "return"
  /\ events' = Append(events, [type |-> "return", id |-> Top.id])
  /\ call' = <<Listener>> \o Tail(call)
  /\ UNCHANGED <<brokerVars, confirmVars, published, refused>>

StillPending(tag) == pending
Unconfirmed(tag) == pending \ {tag}

(* The end of a client's publish: in confirm mode the tag is acked, or nacked
   if the publish threw, and then waitForConfirms may resolve. *)
ConfirmStep ==
  /\ ~Idle /\ Top.do = "confirm"
  /\ \/ /\ Top.tag = 0
        /\ Pop
        /\ UNCHANGED <<pending, events>>
     \/ /\ Top.tag > 0
        /\ pending' = Unconfirmed(Top.tag)
        /\ events' = Append(events, [type |-> IF Top.ok THEN "ack" ELSE "nack", id |-> Top.id])
        /\ call' = <<Listener, [do |-> "drained"]>> \o Tail(call)
  /\ UNCHANGED <<brokerVars, confirmMode, tagSeq, waiters, published, refused>>

(* drainConfirmWaiters *)
DrainedStep ==
  /\ ~Idle /\ Top.do = "drained"
  /\ waiters' = IF pending = {} THEN 0 ELSE waiters
  /\ Pop
  /\ UNCHANGED <<brokerVars, confirmMode, tagSeq, pending, historyVars>>

ListenerEnd ==
  /\ ~Idle /\ Top.do = "listener"
  /\ Pop
  /\ UNCHANGED <<brokerVars, confirmVars, historyVars>>

RunCall ==
  \/ EnqueueStep \/ EnqueueEnd
  \/ DispatchStep \/ DispatchEnd \/ DeliverStep \/ GetStep
  \/ DeadStep \/ TryEnd
  \/ ReturnStep \/ ConfirmStep \/ DrainedStep \/ ListenerEnd

-----------------------------------------------------------------------------
(* Operations of the clients; a listener may publish, or wait, again *)

Calls == IF Idle THEN TRUE ELSE Top.do = "listener"

NewMessage(p) ==
  [id |-> published + 1, key |-> p.key, cc |-> p.cc, priority |-> p.priority,
   size |-> p.size, expiration |-> p.expiration, expiresAt |-> "never",
   xDeath |-> <<>>, trail |-> <<>>]

(* An exchange that does not exist, or is internal, makes publish throw. *)
Publish(p) ==
  /\ Calls
  /\ published < MaxPublished
  /\ published' = published + 1
  /\ LET tag == IF confirmMode THEN tagSeq + 1 ELSE 0
         ok == p.exchange \in exists \ Internal
         targets == Route(p.exchange, {p.key} \cup p.cc \cup p.bcc)
         id == published + 1
         pipeline == IF ~ok THEN <<>>
                     ELSE IF targets = {} /\ p.mandatory THEN <<[do |-> "return", id |-> id]>>
                     ELSE <<Enqueue(NewMessage(p), targets, TRUE)>>
     IN  /\ tagSeq' = IF confirmMode THEN tag ELSE tagSeq
         /\ pending' = IF confirmMode THEN pending \cup {tag} ELSE pending
         /\ call' = pipeline \o <<[do |-> "confirm", id |-> id, tag |-> tag, ok |-> ok]>> \o call
  /\ UNCHANGED <<brokerVars, confirmMode, waiters, events, refused>>

ConfirmSelect ==
  /\ Idle
  /\ confirmMode' = TRUE
  /\ UNCHANGED <<brokerVars, tagSeq, pending, waiters, call, historyVars>>

(* It resolves at once unless a listener calls it in the middle of a publish;
   one promise stands for all that wait. *)
WaitForConfirms ==
  /\ Calls
  /\ pending # {} /\ waiters = 0
  /\ waiters' = waiters + 1
  /\ UNCHANGED <<brokerVars, confirmMode, tagSeq, pending, call, historyVars>>

Consume(q) ==
  /\ Idle /\ q \in Consumable
  /\ consumed' = consumed \cup {q}
  /\ call' = <<Dispatch({q}, TRUE)>>
  /\ UNCHANGED <<exists, store, unacked, confirmVars, historyVars>>

Cancel(q) ==
  /\ Idle
  /\ consumed' = consumed \ {q}
  /\ UNCHANGED <<exists, store, unacked, confirmVars, call, historyVars>>

Get(q) ==
  /\ Idle /\ q \in Gettable
  /\ Drain(q, <<[do |-> "get", queue |-> q]>>)
  /\ UNCHANGED <<exists, unacked, consumed, confirmVars, historyVars>>

(* The deliveries an answer to the i-th covers, and those it leaves. *)
Covered(i, multiple) == IF multiple THEN SubSeq(unacked, 1, i) ELSE <<unacked[i]>>
UncoveredFrom(i, multiple) ==
  IF multiple THEN SubSeq(unacked, i, Len(unacked)) ELSE RemoveAt(unacked, i)
Uncovered(i, multiple) ==
  IF multiple THEN SubSeq(unacked, i + 1, Len(unacked)) ELSE RemoveAt(unacked, i)

QueuesOf(s) == {s[j].queue : j \in DOMAIN s}

Ack(i, multiple) ==
  /\ Idle /\ May("ack") /\ (multiple => May("multiple"))
  /\ unacked' = Uncovered(i, multiple)
  /\ call' = <<Dispatch(QueuesOf(Covered(i, multiple)), TRUE)>>
  /\ UNCHANGED <<exists, store, consumed, confirmVars, historyVars>>

(* nack and reject without requeue: one death after the other, then a dispatch
   of their queues. *)
Reject(i, multiple) ==
  /\ Idle /\ May("reject") /\ (multiple => May("multiple"))
  /\ unacked' = Uncovered(i, multiple)
  /\ \A d \in ToSet(Covered(i, multiple)) : Mortal(d.message)
  /\ LET s == Covered(i, multiple)
     IN  call' = Rejections(s) \o <<Dispatch(QueuesOf(s), TRUE)>>
  /\ UNCHANGED <<exists, store, consumed, confirmVars, historyVars>>

(* nack and reject with requeue, of one delivery: those of many are the subject
   of module Delivery. *)
Requeue(i) ==
  /\ Idle /\ May("requeue")
  /\ unacked' = RemoveAt(unacked, i)
  /\ LET q == unacked[i].queue
     IN  /\ store' = [store EXCEPT ![q] = Requeued(q, unacked[i].message)]
         /\ call' = <<Dispatch({q}, TRUE)>>
  /\ UNCHANGED <<exists, consumed, confirmVars, historyVars>>

DeleteExchange(e) ==
  /\ Idle /\ e \in Deletable
  /\ exists' = exists \ {e}
  /\ UNCHANGED <<store, unacked, consumed, confirmVars, call, historyVars>>

(* The clock passes the expiresAt of a message, stored or not. *)
Expire(q, i) ==
  /\ Idle
  /\ store[q][i].expiresAt = "later" /\ Mortal(store[q][i])
  /\ store' = [store EXCEPT ![q][i].expiresAt = "past"]
  /\ UNCHANGED <<exists, unacked, consumed, confirmVars, call, historyVars>>

ExpireUnacked(i) ==
  /\ Idle
  /\ unacked[i].message.expiresAt = "later" /\ Mortal(unacked[i].message)
  /\ unacked' = [unacked EXCEPT ![i].message.expiresAt = "past"]
  /\ UNCHANGED <<exists, store, consumed, confirmVars, call, historyVars>>

ClientNext ==
  \/ \E p \in Publications : Publish(p)
  \/ ConfirmSelect \/ WaitForConfirms
  \/ \E q \in Queues : Consume(q) \/ Cancel(q) \/ Get(q)
  \/ \E i \in DOMAIN unacked, multiple \in BOOLEAN : Ack(i, multiple) \/ Reject(i, multiple)
  \/ \E i \in DOMAIN unacked : Requeue(i)
  \/ \E e \in Exchanges : DeleteExchange(e)

Next ==
  \/ RunCall
  \/ ClientNext
  \/ \E q \in Queues : \E i \in DOMAIN store[q] : Expire(q, i)
  \/ \E i \in DOMAIN unacked : ExpireUnacked(i)

Spec == Init /\ [][Next]_vars

-----------------------------------------------------------------------------
(* Properties *)

(* Every message the broker has, wherever it is: stored, unacknowledged or on
   its way in a call. *)
Stored == UNION {ToSet(store[q]) : q \in Queues}
Delivered == {d.message : d \in ToSet(unacked)}
Moving == {f.message : f \in {f \in ToSet(call) : f.do \in {"enqueue", "dead"}}}
Messages == Stored \cup Delivered \cup Moving

(* A length limit holds whatever a publish sets off: no queue within its limit
   leaves it, but for messages a client requeues, which are never refused, and
   for the size of the last message a queue that refuses takes. *)
Exceeds(q, s) ==
  \/ q \in DOMAIN MaxLength /\ Len(s) > MaxLength[q]
  \/ q \in DOMAIN MaxLengthBytes /\ Overflow[q] = "drop-head" /\ ByteSize(s) > MaxLengthBytes[q]

LimitsHold ==
  [][\A q \in Queues :
       Exceeds(q, store'[q]) /\ ~Exceeds(q, store[q]) => Len(unacked') < Len(unacked)]_vars

(* A message no client rejected dies in a queue once at most, so that the
   publishes a displaced or expired message sets off come to an end however the
   dead-letter exchanges are wired ("prevent infinite dead-letter loops"). *)
AutomaticDeathsOnce ==
  \A m \in Messages :
    (\A i \in DOMAIN m.xDeath : m.xDeath[i].reason # "rejected") =>
      \A i \in DOMAIN m.xDeath :
        /\ m.xDeath[i].count = 1
        /\ \A j \in DOMAIN m.xDeath : m.xDeath[i].queue = m.xDeath[j].queue => i = j

(* x-death tells what happened to a message: an entry for each queue and reason
   it died of, with how often, the latest death first, whichever of the two
   implementations (deadLetter, updateXDeath) wrote it. *)
XDeathTruthful ==
  \A m \in Messages :
    LET times(e) == {k \in DOMAIN m.trail :
                       m.trail[k].queue = e.queue /\ m.trail[k].reason = e.reason}
    IN  /\ {[queue |-> e.queue, reason |-> e.reason] : e \in ToSet(m.xDeath)} = ToSet(m.trail)
        /\ \A i \in DOMAIN m.xDeath : m.xDeath[i].count = Cardinality(times(m.xDeath[i]))
        /\ \A i, j \in DOMAIN m.xDeath :
             i < j => Max(times(m.xDeath[i])) > Max(times(m.xDeath[j]))

(* Between calls no message a client published or rejected waits in a queue
   that has a consumer.  Dead letters of expired messages may: they are
   dispatched without a channel. *)
ConsumersServed ==
  Idle => \A q \in consumed : \A i \in DOMAIN store[q] :
    LET trail == store[q][i].trail
    IN  trail # <<>> /\ Last(trail).reason # "rejected"

(* A copy of a message that died in a queue is no longer in that queue or with
   its consumers, and no copy is held twice: dead-lettering moves a message,
   through two publishes and an unwinding loop, without duplicating it. *)
Held ==
  (UNION {{[at |-> <<i, q>>, queue |-> q, message |-> store[q][i]] : i \in DOMAIN store[q]} :
            q \in Queues})
    \cup {[at |-> <<i>>, queue |-> unacked[i].queue, message |-> unacked[i].message] :
            i \in DOMAIN unacked}

DeadLetteredIsGone ==
  \A g, h \in Held :
    LET n == Len(g.message.trail)
    IN  g # h /\ g.message.id = h.message.id /\ IsPrefix(g.message.trail, h.message.trail)
          => IF Len(h.message.trail) = n THEN g.queue # h.queue
             ELSE h.message.trail[n + 1].queue # g.queue

(* In confirm mode every publish is confirmed once, after its return if it is
   returned, even if listeners publish in the middle of it; when the call is
   over nothing is pending and no waitForConfirms is left waiting. *)
Confirms(id) == {i \in DOMAIN events : events[i].id = id /\ events[i].type # "return"}

ConfirmsComplete ==
  /\ \A id \in Ids : Cardinality(Confirms(id)) <= 1
  /\ \A i \in DOMAIN events : events[i].type = "return" =>
       \A j \in Confirms(events[i].id) : i < j
  /\ Idle => /\ pending = {} /\ waiters = 0
             /\ Cardinality(UNION {Confirms(id) : id \in Ids}) = tagSeq

(* An ack means that every queue the message was routed to took it ("Routable
   messages: confirmed after message accepted by all target queues"). *)
AckedMeansAccepted ==
  \A i \in DOMAIN events : events[i].type = "ack" => events[i].id \notin refused
=============================================================================
