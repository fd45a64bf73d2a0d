------------------------------ MODULE Topology ------------------------------
(***************************************************************************)
(* The topology of a rabbitbox broker: exchanges, queues, bindings, their  *)
(* automatic deletion, queue expiry timers, exclusive queues and the       *)
(* closing of channels and connections (queue-registry.ts,                 *)
(* exchange-registry.ts, binding-store.ts, queue-expiry.ts, the lifecycle  *)
(* code of api/rabbit-box.ts, api/channel.ts and api/connection.ts).       *)
(*                                                                         *)
(* A Map of the code is a function whose domain is the set of its keys.    *)
(* Of the messages only two facts are kept: which stores are not empty and *)
(* which channels hold deliveries of which queue; what a dispatch hands    *)
(* out is decided by module Delivery and any outcome here.  The queues are *)
(* not single-active-consumer.                                             *)
(*                                                                         *)
(* Deleting a queue tells its consumers one by one, in the middle of the   *)
(* deletion: a client's 'cancel' listener that restores its subscription   *)
(* there declares the queue while the rest of the deletion is to come.     *)
(***************************************************************************)
EXTENDS Naturals, FiniteSets, SequencesExt

CONSTANTS
  Exchanges,      \* exchange names
  Predeclared,    \* those the broker declares itself (amq.*)
  ExchangeOptions, \* values of autoDelete exchanges are declared with
  Queues,         \* queue names
  QueueOptions,   \* option records queues are declared with
  Keys,           \* routing key and arguments of a binding
  Tags,           \* consumer tags
  Connections,
  Channels,       \* channels, all open at the start
  Callers,        \* those the clients call; the others are only closed
  ConnOf,         \* the connection a channel belongs to
  IdOf,           \* the id of a connection: two made in the same ms share it
  Number,         \* the number of a channel in its connection
  ClientOps       \* operations the clients use, by name

ASSUME TopologyAssumption ==
  /\ IsFiniteSet(Exchanges) /\ IsFiniteSet(Queues) /\ IsFiniteSet(Tags)
  /\ Predeclared \subseteq Exchanges
  /\ ExchangeOptions \subseteq BOOLEAN
  /\ QueueOptions \subseteq [exclusive : BOOLEAN, autoDelete : BOOLEAN, expires : BOOLEAN]
  /\ ConnOf \in [Channels -> Connections]
  /\ DOMAIN IdOf = Connections
  /\ Number \in [Channels -> Nat]

VARIABLES
  exchange,        \* ExchangeRegistry.exchanges: name -> autoDelete
  hasHadBindings,  \* ExchangeRegistry.hasHadBindings
  queue,           \* QueueRegistry.queues: name -> entry
  bindings,        \* BindingStore.byExchange
  e2e,             \* BindingStore.e2eBySource
  consumer,        \* ConsumerRegistry.byTag
  timers,          \* QueueExpiry.entries: queues with a running timer
  owned,           \* ApiConnection.exclusiveQueues of every connection
  open,            \* channels that are open
  closing,         \* connections whose close has begun
  closed,          \* connections whose close has returned
  stocked,         \* queue names whose message store is not empty
  outstanding,     \* <<channel, queue>>: deliveries not acknowledged
  call,            \* frames of the synchronous call in progress
  unchecked,       \* history: exchanges that lost their last binding unnoticed
  untimed,         \* history: queues whose timer the deletion of a namesake took
  miscounted       \* history: queues it took a consumer of

registryVars == <<exchange, hasHadBindings, bindings, e2e, unchecked>>
queueVars == <<queue, timers, owned, untimed, miscounted>>
connectionVars == <<open, closing, closed>>
messageVars == <<stocked, outstanding>>
vars == <<registryVars, queueVars, consumer, connectionVars, messageVars, call>>

-----------------------------------------------------------------------------
(* Types and lookups *)

Entry == [options : QueueOptions, owner : {IdOf[conn] : conn \in Connections},
          consumerCount : Nat, hasHadConsumers : BOOLEAN]
Binding == [exchange : Exchanges, queue : Queues, key : Keys]
ExchangeBinding == [source : Exchanges, destination : Exchanges, key : Keys]
Consumer == [queue : Queues, channel : Channels]

Frame == [do : {"exchange"}, name : Exchanges] \cup [do : {"queue"}, name : Queues]
           \cup [do : {"close", "requeue", "listener"}, name : Channels]
           \cup [do : {"cancel"}, name : Tags]
           \cup [do : {"discard", "discardStore"}, name : Queues]

TypeOK ==
  /\ DOMAIN exchange \subseteq Exchanges /\ exchange \in [DOMAIN exchange -> BOOLEAN]
  /\ hasHadBindings \subseteq Exchanges
  /\ DOMAIN queue \subseteq Queues /\ queue \in [DOMAIN queue -> Entry]
  /\ bindings \subseteq Binding
  /\ e2e \subseteq ExchangeBinding
  /\ DOMAIN consumer \subseteq Tags /\ consumer \in [DOMAIN consumer -> Consumer]
  /\ timers \subseteq Queues
  /\ owned \in [Connections -> SUBSET Queues]
  /\ open \subseteq Channels
  /\ closing \subseteq Connections /\ closed \subseteq Connections
  /\ stocked \subseteq Queues
  /\ outstanding \subseteq Channels \X Queues
  /\ call \in Seq(Frame)
  /\ unchecked \subseteq Exchanges
  /\ untimed \subseteq Queues /\ miscounted \subseteq Queues

With(f, x, v) == [y \in DOMAIN f \cup {x} |-> IF y = x THEN v ELSE f[y]]
Without(f, S) == [y \in DOMAIN f \ S |-> f[y]]

ConsumersOf(q) == {t \in DOMAIN consumer : consumer[t].queue = q}

(* An exclusive queue is closed to every caller but its owner, known by the id
   of the connection, and to a caller that names no connection at all. *)
LockedFor(q, ids) == queue[q].options.exclusive /\ queue[q].owner \notin ids

Id(c) == IdOf[ConnOf[c]]

BindingsOf(q) == {b \in bindings : b.queue = q}

(* BindingStore.bindingCount is not 0. *)
Bound(e, B, X) == (\E b \in B : b.exchange = e) \/ (\E x \in X : x.source = e)

(* Exchanges that lose their last binding if B and X are what is left. *)
Bereft(B, X) == {e \in Exchanges : Bound(e, bindings, e2e) /\ ~Bound(e, B, X)}

May(op) == op \in ClientOps
Idle == call = <<>>
Top == call[1]
Pop == call' = Tail(call)
Calls(c) == Idle /\ c \in open /\ c \in Callers

(* What the 'cancel' listener of a channel does in the middle of a deletion is
   what restores a subscription: declare, bind, consume. *)
Listener(c) == [do |-> "listener", name |-> c]
Restores(c) == c \in open /\ c \in Callers /\ (~Idle => Top = Listener(c))

Check(e) == [do |-> "exchange", name |-> e]

(* The elements of S one after the other, in any order. *)
Orders(S) == Surjection(1 .. Cardinality(S), S)
Checks(S) == {[i \in DOMAIN s |-> Check(s[i])] : s \in Orders(S)}

Init ==
  /\ exchange = [e \in Predeclared |-> FALSE]
  /\ hasHadBindings = {}
  /\ queue = [q \in {} |-> {}]
  /\ bindings = {}
  /\ e2e = {}
  /\ consumer = [t \in {} |-> {}]
  /\ timers = {}
  /\ owned = [conn \in Connections |-> {}]
  /\ open = Channels
  /\ closing = {}
  /\ closed = {}
  /\ stocked = {}
  /\ outstanding = {}
  /\ call = <<>>
  /\ unchecked = {}
  /\ untimed = {}
  /\ miscounted = {}

-----------------------------------------------------------------------------
(* Exchanges *)

(* A second declaration must agree with the first and changes nothing. *)
DeclareExchange(c, e, autoDelete) ==
  /\ Calls(c)
  /\ e \notin DOMAIN exchange
  /\ exchange' = With(exchange, e, autoDelete)
  /\ UNCHANGED <<hasHadBindings, bindings, e2e, unchecked, queueVars, consumer,
                 connectionVars, messageVars, call>>

(* deleteExchange and removeBindingsForExchange: the bindings from e, those of
   other exchanges to e, and e's mark go with it. *)
RemovedDestinationKept(e) == {x \in e2e : x.source # e}
RemovedExchangeBindings(e) == {x \in e2e : x.source # e /\ x.destination # e}

RemoveExchange(e) ==
  LET B == {b \in bindings : b.exchange # e}
      X == RemovedExchangeBindings(e)
  IN  /\ exchange' = Without(exchange, {e})
      /\ hasHadBindings' = hasHadBindings \ {e}
      /\ bindings' = B
      /\ e2e' = X
      /\ unchecked' = (unchecked \cup Bereft(B, X)) \ {e}

DeleteExchange(c, e, ifUnused) ==
  /\ Calls(c)
  /\ e \in DOMAIN exchange \ Predeclared
  /\ ifUnused => ~Bound(e, bindings, e2e)
  /\ RemoveExchange(e)
  /\ UNCHANGED <<queueVars, consumer, connectionVars, messageVars, call>>

(* ExchangeRegistry.isAutoDeleteReady *)
IsAutoDeleteReady(e) ==
  /\ e \in DOMAIN exchange
  /\ exchange[e]
  /\ e \in hasHadBindings
  /\ ~Bound(e, bindings, e2e)

(* checkExchangeAutoDelete, run for each exchange that lost a binding. *)
CheckExchange ==
  /\ ~Idle /\ Top.do = "exchange"
  /\ IF IsAutoDeleteReady(Top.name)
     THEN RemoveExchange(Top.name)
     ELSE UNCHANGED registryVars
  /\ Pop
  /\ UNCHANGED <<queueVars, consumer, connectionVars, messageVars>>

-----------------------------------------------------------------------------
(* Bindings *)

BindQueue(c, q, e, k) ==
  /\ Restores(c)
  /\ e \in DOMAIN exchange /\ q \in DOMAIN queue
  /\ bindings' = bindings \cup {[exchange |-> e, queue |-> q, key |-> k]}
  /\ hasHadBindings' = hasHadBindings \cup {e}
  /\ unchecked' = unchecked \ {e}
  /\ UNCHANGED <<exchange, e2e, queueVars, consumer, connectionVars, messageVars, call>>

UnbindQueue(c, q, e, k) ==
  /\ Calls(c)
  /\ e \in DOMAIN exchange /\ q \in DOMAIN queue
  /\ bindings' = bindings \ {[exchange |-> e, queue |-> q, key |-> k]}
  /\ call' = <<Check(e)>>
  /\ UNCHANGED <<exchange, hasHadBindings, e2e, unchecked, queueVars, consumer,
                 connectionVars, messageVars>>

BindExchange(c, source, destination, k) ==
  /\ Calls(c)
  /\ source \in DOMAIN exchange /\ destination \in DOMAIN exchange
  /\ e2e' = e2e \cup {[source |-> source, destination |-> destination, key |-> k]}
  /\ hasHadBindings' = hasHadBindings \cup {source}
  /\ unchecked' = unchecked \ {source}
  /\ UNCHANGED <<exchange, bindings, queueVars, consumer, connectionVars, messageVars, call>>

UnbindExchange(c, source, destination, k) ==
  /\ Calls(c)
  /\ source \in DOMAIN exchange /\ destination \in DOMAIN exchange
  /\ e2e' = e2e \ {[source |-> source, destination |-> destination, key |-> k]}
  /\ call' = <<Check(source)>>
  /\ UNCHANGED <<exchange, hasHadBindings, bindings, unchecked, queueVars, consumer,
                 connectionVars, messageVars>>

-----------------------------------------------------------------------------
(* Queues *)

(* A queue that exists is declared again with the same options, an exclusive
   one only by its owner: the timer restarts. *)
DeclareQueue(c, q, o) ==
  /\ Restores(c)
  /\ q \in DOMAIN queue => /\ queue[q].options = o
                           /\ ~LockedFor(q, {Id(c)})
  /\ queue' = IF q \in DOMAIN queue THEN queue
              ELSE With(queue, q, [options |-> o, owner |-> Id(c),
                                   consumerCount |-> 0, hasHadConsumers |-> FALSE])
  /\ untimed' = untimed \ {q}
  /\ UNCHANGED miscounted
  /\ owned' = IF o.exclusive THEN [owned EXCEPT ![ConnOf[c]] = @ \cup {q}] ELSE owned
  /\ timers' = IF o.expires THEN timers \cup {q} ELSE timers
  /\ UNCHANGED <<registryVars, consumer, connectionVars, messageVars, call>>

(* What every deletion does: the entry and the bindings go, the consumers are
   cancelled one by one, then the messages and (`end`) the timer go and the
   exchanges that were bound to the queue are checked, in the order of their
   bindings (any order). *)
BoundToNothing(q) == {}
BoundQueues(q) == {b.queue : b \in BindingsOf(q)}
BoundExchanges(q) == {b.exchange : b \in BindingsOf(q)}

ServerCancel(t) == [do |-> "cancel", name |-> t]
Cancels(S) == {[i \in DOMAIN s |-> ServerCancel(s[i])] : s \in Orders(S)}

DropQueue(q, end, rest) ==
  /\ queue' = Without(queue, {q})
  /\ bindings' = bindings \ BindingsOf(q)
  /\ untimed' = untimed \ {q}
  /\ miscounted' = miscounted \ {q}
  /\ \E cancels \in Cancels(ConsumersOf(q)), checks \in Checks(BoundExchanges(q)) :
       call' = cancels \o <<[do |-> end, name |-> q]>> \o checks \o rest
  /\ UNCHANGED <<exchange, hasHadBindings, e2e, unchecked, owned, consumer,
                 connectionVars, messageVars>>

(* ConsumerRegistry.serverCancel and the 'cancel' event on the channel. *)
CancelConsumer ==
  /\ ~Idle /\ Top.do = "cancel"
  /\ consumer' = Without(consumer, {Top.name})
  /\ IF Top.name \in DOMAIN consumer
     THEN LET t == consumer[Top.name]
          IN  /\ miscounted' = miscounted \cup ({t.queue} \cap DOMAIN queue)
              /\ call' = IF May("listen") THEN <<Listener(t.channel)>> \o Tail(call) ELSE Tail(call)
     ELSE Pop /\ UNCHANGED miscounted
  /\ UNCHANGED <<registryVars, queue, timers, owned, untimed, connectionVars, messageVars>>

ListenerReturns ==
  /\ ~Idle /\ Top.do = "listener"
  /\ Pop
  /\ UNCHANGED <<registryVars, queueVars, consumer, connectionVars, messageVars>>

(* The store and the timer go by name, whoever has the name by now; an expiry
   took the timer before it began. *)
TimersKept(q) == timers
TimersWithout(q) == timers \ {q}

Discard ==
  /\ ~Idle /\ Top.do \in {"discard", "discardStore"}
  /\ stocked' = stocked \ {Top.name}
  /\ timers' = IF Top.do = "discard" THEN TimersWithout(Top.name) ELSE timers
  /\ untimed' = untimed \cup (DOMAIN queue \cap (timers \ timers'))
  /\ Pop
  /\ UNCHANGED <<registryVars, queue, owned, miscounted, consumer, connectionVars, outstanding>>

(* The connection's list of exclusive queues keeps the name. *)
DeleteQueue(c, q, ifUnused, ifEmpty) ==
  /\ Calls(c)
  /\ q \in DOMAIN queue
  /\ ~LockedFor(q, {Id(c)})
  /\ May("delete")
  /\ queue[q].options.exclusive => May("deleteExclusive")
  /\ ifUnused => queue[q].consumerCount = 0
  /\ ifEmpty => q \notin stocked
  /\ DropQueue(q, "discard", <<>>)
  /\ UNCHANGED timers

PurgeQueue(c, q) ==
  /\ Calls(c)
  /\ q \in DOMAIN queue
  /\ ~LockedFor(q, {Id(c)})
  /\ stocked' = stocked \ {q}
  /\ UNCHANGED <<registryVars, queueVars, consumer, connectionVars, outstanding, call>>

(* The timer fires: deleteQueue is called without a connection, so that an
   exclusive queue stays, and stays without a timer. *)
ExpireQueue(q) ==
  /\ Idle /\ q \in timers
  /\ timers' = timers \ {q}
  /\ \/ /\ q \in DOMAIN queue /\ ~LockedFor(q, {})
        /\ DropQueue(q, "discardStore", <<>>)
     \/ /\ q \in DOMAIN queue => LockedFor(q, {})
        /\ UNCHANGED <<registryVars, queue, owned, untimed, miscounted, consumer,
                       connectionVars, messageVars, call>>

-----------------------------------------------------------------------------
(* Messages *)

(* Dispatcher.dispatch of q to the consumers in C, from the stores `before`,
   with `held` outstanding: some of their channels get deliveries and messages
   may be left over. *)
Dispatch(q, C, before, held) ==
  LET able == {t \in DOMAIN C : C[t].queue = q}
  IN  \E served \in SUBSET {C[t].channel : t \in able} :
        /\ served # {} => q \in before
        /\ outstanding' = held \cup (served \X {q})
        /\ stocked' \in IF able = {} THEN {before} ELSE {before, before \ {q}}

(* sendToQueue: by the default exchange, to a queue that exists. *)
Publish(c, q) ==
  /\ Calls(c)
  /\ q \in DOMAIN queue
  /\ Dispatch(q, consumer, stocked \cup {q}, outstanding)
  /\ UNCHANGED <<registryVars, queueVars, consumer, connectionVars, call>>

(* basic.get takes one message of possibly several from the store of that
   name; it does not ask whether there is such a queue. *)
Get(c, q, noAck) ==
  /\ Calls(c)
  /\ q \in stocked
  /\ stocked' \in {stocked, stocked \ {q}}
  /\ outstanding' = IF noAck THEN outstanding ELSE outstanding \cup {<<c, q>>}
  /\ UNCHANGED <<registryVars, queueVars, consumer, connectionVars, call>>

(* ack, nack and reject of one or all of the deliveries c holds of q: what is
   requeued enters the store of that name, made anew if there is none. *)
Answer(c, q, requeue) ==
  /\ Calls(c)
  /\ <<c, q>> \in outstanding
  /\ \E held \in {outstanding, outstanding \ {<<c, q>>}} :
       Dispatch(q, consumer, IF requeue THEN stocked \cup {q} ELSE stocked, held)
  /\ UNCHANGED <<registryVars, queueVars, consumer, connectionVars, call>>

-----------------------------------------------------------------------------
(* Consumers *)

Counted(q, C) == Cardinality({t \in DOMAIN C : C[t].queue = q})

(* QueueRegistry.setConsumerCount *)
CountKept(q, n) == queue
CountSet(q, n) ==
  IF q \notin DOMAIN queue THEN queue
  ELSE [queue EXCEPT ![q].consumerCount = n,
                     ![q].hasHadConsumers = @ \/ n > 0]

(* Nothing keeps another connection from consuming an exclusive queue. *)
Consume(c, q, t) ==
  /\ Restores(c)
  /\ q \in DOMAIN queue
  /\ LockedFor(q, {Id(c)}) => May("consumeExclusive")
  /\ t \notin DOMAIN consumer
  /\ LET C == With(consumer, t, [queue |-> q, channel |-> c])
     IN  /\ consumer' = C
         /\ queue' = CountSet(q, Counted(q, C))
         /\ miscounted' = miscounted \ {q}
         /\ Dispatch(q, C, stocked, outstanding)
  /\ UNCHANGED <<registryVars, timers, owned, untimed, connectionVars, call>>

Recount(q) == [do |-> "queue", name |-> q]

(* Any channel may cancel any tag. *)
Cancel(c, t) ==
  /\ Calls(c)
  /\ t \in DOMAIN consumer
  /\ consumer' = Without(consumer, {t})
  /\ call' = <<Recount(consumer[t].queue)>>
  /\ UNCHANGED <<registryVars, queueVars, connectionVars, messageVars>>

(* QueueRegistry.isAutoDeleteReady, once q is known to have n consumers. *)
ReadyByOldCount(q, n) ==
  /\ q \in DOMAIN queue /\ queue[q].options.autoDelete
  /\ queue[q].hasHadConsumers
  /\ queue[q].consumerCount = 0
QueueReady(q, n) ==
  /\ q \in DOMAIN queue /\ queue[q].options.autoDelete
  /\ queue[q].hasHadConsumers
  /\ n = 0

(* After a queue lost consumers: its count is brought up to date and, if it was
   the last one of an auto-delete queue, the queue is deleted, unless it is
   exclusive, for then the deletion is refused and the error swallowed. *)
CheckQueue ==
  /\ ~Idle /\ Top.do = "queue"
  /\ LET q == Top.name
         n == Counted(q, consumer)
     IN  \/ /\ QueueReady(q, n) /\ ~LockedFor(q, {})
            /\ DropQueue(q, "discard", Tail(call))
            /\ UNCHANGED timers
         \/ /\ QueueReady(q, n) => LockedFor(q, {})
            /\ queue' = CountSet(q, n)
            /\ miscounted' = miscounted \ {q}
            /\ Pop
            /\ UNCHANGED <<registryVars, timers, owned, untimed, consumer, connectionVars,
                           messageVars>>

-----------------------------------------------------------------------------
(* Channels and connections *)

OnNumber(c) == {t \in DOMAIN consumer : Number[consumer[t].channel] = Number[c]}

CloseFrame(c) == [do |-> "close", name |-> c]

Close(c) ==
  /\ Calls(c)
  /\ call' = <<CloseFrame(c)>>
  /\ UNCHANGED <<registryVars, queueVars, consumer, connectionVars, messageVars>>

(* ApiChannel.close: the consumers of that channel number are cancelled, every
   queue they consumed is checked, then Channel.close requeues. *)
CloseChannel ==
  /\ ~Idle /\ Top.do = "close"
  /\ LET c == Top.name
         lost == {consumer[t].queue : t \in OnNumber(c)}
     IN  /\ open' = open \ {c}
         /\ consumer' = Without(consumer, OnNumber(c))
         /\ \E s \in Orders(lost) :
              call' = [i \in DOMAIN s |-> Recount(s[i])]
                        \o <<[do |-> "requeue", name |-> c]>> \o Tail(call)
  /\ UNCHANGED <<registryVars, queueVars, closing, closed, messageVars>>

RequeueUnacked ==
  /\ ~Idle /\ Top.do = "requeue"
  /\ LET mine == {d \in outstanding : d[1] = Top.name}
     IN  /\ stocked' = stocked \cup {d[2] : d \in mine}
         /\ outstanding' = outstanding \ mine
  /\ Pop
  /\ UNCHANGED <<registryVars, queueVars, consumer, connectionVars>>

(* ApiConnection.close awaits the close of one channel after the other. *)
NextToClose(conn) ==
  {c \in open : ConnOf[c] = conn /\ \A d \in open : ConnOf[d] = conn => Number[c] <= Number[d]}

CloseConnection(conn) ==
  /\ Idle /\ conn \notin closing
  /\ closing' = closing \cup {conn}
  /\ call' \in IF NextToClose(conn) = {} THEN {<<>>}
               ELSE {<<CloseFrame(c)>> : c \in NextToClose(conn)}
  /\ UNCHANGED <<registryVars, queueVars, consumer, open, closed, messageVars>>

AwaitedClose(conn) ==
  /\ Idle /\ conn \in closing
  /\ \E c \in NextToClose(conn) : call' = <<CloseFrame(c)>>
  /\ UNCHANGED <<registryVars, queueVars, consumer, connectionVars, messageVars>>

(* Then the queues on its list are deleted, those another connection now holds
   exclusively excepted: entry, bindings and timer go, but not the consumers
   nor the messages, and no exchange is checked. *)
DeletedAnonymously(conn) ==
  {q \in owned[conn] \cap DOMAIN queue : ~LockedFor(q, {})}
DeletedOnClose(conn) ==
  {q \in owned[conn] \cap DOMAIN queue : ~LockedFor(q, {IdOf[conn]})}

DeleteExclusiveQueues(conn) ==
  /\ Idle /\ conn \in closing \ closed
  /\ \A c \in open : ConnOf[c] # conn
  /\ LET D == DeletedOnClose(conn)
         B == {b \in bindings : b.queue \notin D}
     IN  /\ queue' = Without(queue, D)
         /\ bindings' = B
         /\ unchecked' = unchecked \cup Bereft(B, e2e)
         /\ untimed' = untimed \ D
         /\ miscounted' = miscounted \ D
  /\ timers' = timers \ owned[conn]
  /\ owned' = [owned EXCEPT ![conn] = {}]
  /\ closed' = closed \cup {conn}
  /\ UNCHANGED <<exchange, hasHadBindings, e2e, consumer, open, closing, messageVars, call>>

-----------------------------------------------------------------------------

RunCall ==
  \/ CheckExchange \/ CheckQueue \/ CloseChannel \/ RequeueUnacked
  \/ CancelConsumer \/ ListenerReturns \/ Discard

ExchangeNext(c) ==
  \/ \E e \in Exchanges, autoDelete \in ExchangeOptions : DeclareExchange(c, e, autoDelete)
  \/ \E e \in Exchanges, ifUnused \in BOOLEAN : DeleteExchange(c, e, ifUnused)
  \/ \E q \in Queues, e \in Exchanges, k \in Keys : BindQueue(c, q, e, k)
  \/ \E q \in Queues, e \in Exchanges, k \in Keys : UnbindQueue(c, q, e, k)
  \/ \E s, d \in Exchanges, k \in Keys : BindExchange(c, s, d, k)
  \/ \E s, d \in Exchanges, k \in Keys : UnbindExchange(c, s, d, k)

QueueNext(c) ==
  \/ \E q \in Queues, o \in QueueOptions : DeclareQueue(c, q, o)
  \/ \E q \in Queues, ifUnused, ifEmpty \in BOOLEAN : DeleteQueue(c, q, ifUnused, ifEmpty)
  \/ \E q \in Queues : PurgeQueue(c, q)
  \/ \E q \in Queues : Publish(c, q)
  \/ \E q \in Queues, noAck \in BOOLEAN : Get(c, q, noAck)
  \/ \E q \in Queues, requeue \in BOOLEAN : Answer(c, q, requeue)
  \/ \E q \in Queues, t \in Tags : Consume(c, q, t)
  \/ \E t \in Tags : Cancel(c, t)

Next ==
  \/ RunCall
  \/ \E c \in Channels : ExchangeNext(c) \/ QueueNext(c) \/ Close(c)
  \/ \E q \in Queues : ExpireQueue(q)
  \/ \E conn \in Connections :
       CloseConnection(conn) \/ AwaitedClose(conn) \/ DeleteExclusiveQueues(conn)

Spec == Init /\ [][Next]_vars

-----------------------------------------------------------------------------
(* Properties *)

(* Every binding joins an exchange and a queue (or exchange) that exist: no
   sequence of deletions, automatic deletions, expiries and closes leaves one
   behind for routing to trip over or for a later namesake to inherit. *)
NoDanglingBindings ==
  /\ \A b \in bindings : b.exchange \in DOMAIN exchange /\ b.queue \in DOMAIN queue
  /\ \A x \in e2e : x.source \in DOMAIN exchange /\ x.destination \in DOMAIN exchange

(* An auto-delete exchange that lost its last binding is gone when the call
   returns, but for the bindings nobody checks: those to an exchange that is
   deleted, and those of a closing connection's exclusive queues. *)
ExchangesAutoDeleted ==
  Idle => \A e \in (DOMAIN exchange \cap hasHadBindings) \ unchecked :
    exchange[e] => Bound(e, bindings, e2e)

(* An auto-delete queue does not outlive its last consumer, however that
   consumer went, unless it is exclusive; and one that never had a consumer,
   or still has one, does. *)
QueuesAutoDeleted ==
  Idle => \A q \in DOMAIN queue :
    queue[q].options.autoDelete /\ queue[q].hasHadConsumers /\ ~queue[q].options.exclusive
      => ConsumersOf(q) # {}

(* The registry's consumer count, which ifUnused and automatic deletion rely
   on, is the number of consumers, and no consumer is left on a deleted queue:
   true for clients that leave each other's exclusive queues alone and do not
   delete their own, and but for a queue declared while its namesake is being
   deleted, from which the deletion goes on taking consumers. *)
ConsumersCounted ==
  Idle => /\ \A q \in DOMAIN queue \ miscounted : queue[q].consumerCount = Cardinality(ConsumersOf(q))
          /\ \A t \in DOMAIN consumer : consumer[t].queue \in DOMAIN queue

(* A running timer belongs to a queue declared with x-expires, so it never
   deletes a later queue of that name, and every such queue has one unless it
   is exclusive, or declared while its namesake is being deleted, when the
   deletion takes the timer it was given. *)
TimersMatchQueues ==
  Idle => /\ \A q \in timers : q \in DOMAIN queue /\ queue[q].options.expires
          /\ \A q \in DOMAIN queue \ untimed :
               queue[q].options.expires /\ ~queue[q].options.exclusive => q \in timers

(* An exclusive queue is on the list of a connection with its owner's id whose
   close is not over: no exclusive queue outlives its connection. *)
ExclusiveQueuesOwned ==
  \A q \in DOMAIN queue : queue[q].options.exclusive =>
    \E conn \in Connections \ closed : IdOf[conn] = queue[q].owner /\ q \in owned[conn]

(* A queue with consumers does not expire ("Queue deleted after N ms with no
   consumers AND no basic.get calls AND no re-declarations"); for clients that
   delete no queue, so that a timer only ends by firing. *)
ExpiresOnlyUnconsumed ==
  [][\A q \in timers \ timers' : ConsumersOf(q) = {}]_vars

(* A queue just declared is empty: what a deleted namesake held was discarded
   with it ("On delete: remove all bindings, discard messages"). *)
NewQueueIsEmpty ==
  [][\A q \in DOMAIN queue' \ DOMAIN queue : q \notin stocked]_vars

=============================================================================
