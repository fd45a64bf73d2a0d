# A verification project for rabbitbox

rabbitbox (`packages/rabbit-box`) is an in-memory emulation of RabbitMQ in
TypeScript: a broker engine of synchronous classes, wrapped by an asynchronous
API of connections and channels, with an adapter for amqplib
(`packages/rabbit-amqplib`) and hooks for test doubles (`packages/rabbit-sbi`).
Nothing is persisted and nothing runs in parallel: JavaScript runs each
operation to completion (ADR 01), and what interleaves are the calls of the
clients, the consumer callbacks scheduled as microtasks, the expiry timers and
the continuations of `await`.

Source paths below are relative to `src/packages/rabbit-box/src/`.

## The system

| component | state it keeps | operations | what makes it correct |
|---|---|---|---|
| message store (`message-store.ts`, `priority-message-store.ts`) | an array of messages per queue (one per priority) | enqueue, dequeue, drainExpired, requeue, purge | order; nothing lost; a redelivered message is marked |
| overflow (`overflow.ts`) | none | enqueueWithOverflow | limits hold after each publish; what is dropped is dead-lettered |
| channel (`channel.ts`) | state, delivery-tag counter, `_unacked`, prefetch limits, flow | get, recover, removeUnacked(UpTo), setPrefetch, setFlow, close | a tag names one delivery; a closed channel holds nothing |
| acknowledgements (`acknowledgment.ts`) | none; channels and stores are passed in | ack, nack, reject, ackAll, nackAll | every delivery settled exactly once |
| consumer registry (`consumer-registry.ts`) | `byTag`, `byQueue`, unacked counters, `sacQueues` | register, cancel, cancelByChannel, serverCancel | indexes agree; exclusiveness; priority order |
| dispatcher (`dispatcher.ts`) | `rrIndex`, `priorityRrIndex` | dispatch: round robin, by priority, single active consumer | prefetch respected; no message held back; loops end |
| queue registry (`queue-registry.ts`) | queues, consumer counts, owners | declare, delete, check, purge, setConsumerCount, isAutoDeleteReady | exclusive queues die with their connection; auto-delete exactly when due |
| exchange registry (`exchange-registry.ts`) | exchanges, `hasHadBindings` | declare, delete, check, isAutoDeleteReady | auto-delete exactly when due |
| binding store (`binding-store.ts`) | `byExchange`, `e2eBySource` | add, remove, remove by queue or exchange | no dangling binding |
| queue expiry (`queue-expiry.ts`) | a timer per queue | register, unregister, resetActivity | a timer belongs to the queue it was set for |
| routing (`routing.ts`) | none | direct, fanout, topic, headers | agrees with AMQP's definition |
| publishing (`publish.ts`) | none | publish, deadLetterPublish | each bound queue gets one copy; returns and confirms tell the truth |
| dead lettering (`dead-letter.ts`) | `x-death` headers | deadLetter, deadLetterExpired | cycles end; counts right |
| API channel (`api/channel.ts`) | closed flag, confirm sequence and waiters | the client's operations | the pieces above are called in the right order |
| API connection (`api/connection.ts`) | channels map, exclusive queue names | createChannel, close | everything of a closed connection is gone |
| broker (`api/rabbit-box.ts`) | stores by name, wiring | autoDeleteQueue, checkExchangeAutoDelete, expiry and dead-letter callbacks | see queue and exchange registry |
| event emitter (`api/event-emitter.ts`) | listeners | on, once, off, emit | listeners run inside the operation that emits |
| amqplib adapter (`rabbit-amqplib/src/channel.ts`) | `confirmSeq`, `confirmCallbacks`, `hasNacked`, `closed` | publish with a callback, waitForConfirms, close | each callback hears of its own message; waits tell the truth and end |
| hooks, OBI, errors | none of the broker's | | |

How they interact.  A client calls an API channel, which calls a registry or
store and then, in the same synchronous run, whatever must follow: a count to
bring up to date, a queue or exchange to delete, a queue to dispatch.
`publish` and every answer end in `Dispatcher.dispatch`, which takes messages
from the store, tracks them in a channel and schedules the consumer's callback
with `queueMicrotask`.  The registries share no transactions; they agree only
because each call site updates all of them.  That is the hard part: five ways
to delete a queue, six ways to move a message, one consumer registry shared by
connections whose channel numbers coincide, messages settled while the loop
that settles them dispatches others, callbacks that run after what they
announce is already undone, listeners of clients that run in the middle of a
publish or of a deletion and call the broker again, a second count of publishes
kept by the adapter, and a connection close that awaits its channels one by one
while clients go on calling.

## Modules

| module | models | lines of code |
|---|---|---|
| `Delivery` | stores, channels, consumer registry, dispatcher, acknowledgements and the API operations that use them | `channel.ts`, `consumer-registry.ts`, `dispatcher.ts`, `acknowledgment.ts`, `message-store.ts`, parts of `api/` |
| `QueueContract` | what a queue promises its clients, abstractly; `Delivery` implements it (`KeepsContract`) | what `Delivery` models |
| `MCDelivery` | instances of `Delivery` | |
| `DeliveryProofs` | proofs of type correctness and the registry, of no message lost or duplicated, of the order of queues and the redelivered flag, and of the refinement | |
| `DeliverySettlement` | proofs of what answers settle, what closing leaves, what the counters count and so of prefetch, single active consumers, that no queue holds back a message | |
| `Topology` | exchanges, queues, bindings, automatic deletion, expiry, exclusive queues, closing | `queue-registry.ts`, `exchange-registry.ts`, `binding-store.ts`, `queue-expiry.ts`, parts of `api/` |
| `MCTopology` | instances of it | |
| `TopologyProofs` | proofs of type correctness, bindings, timers, exclusive queues, automatic deletion, consumer counts | |
| `Publishing` | publish, overflow, priorities, expiry, dead lettering, confirms | `publish.ts`, `overflow.ts`, `dead-letter.ts`, `message-store.ts`, `priority-message-store.ts`, parts of `api/channel.ts` |
| `MCPublishing` | instances of it | |
| `PublishingProofs` | proofs of type correctness, limits, `x-death`, confirms, served consumers | |
| `PublishingCopies` | proof that dead lettering moves a message | |
| `ConfirmChannel` | a confirm channel of the adapter over an API channel: callbacks, waits, closes, client code that throws | `rabbit-amqplib/src/channel.ts`, `connection.ts`, the confirm part of `api/channel.ts` |
| `MCConfirmChannel` | an instance of it | |
| `ConfirmProofs` | types, callbacks and waits | |
| `Routing` | the four ways to match, over the bindings of one exchange | `routing.ts`, parts of `binding-store.ts` |
| `MCRouting` | an instance of it | |
| `RoutingProofs` | proofs of type correctness, of what topic patterns match, of the laws of headers exchanges | |
| `SequenceLemmas` | lemmas about the operators on sequences that the models use | |

### How a synchronous call is modelled

An operation of a client is an action enabled only while no call is in
progress (`Idle`).  What the operation does at once is its effect; the loops
and the nested calls it runs are *frames* on the stack `call`, executed one
iteration per step (`RunCall`) before anything else may happen.  Where the code
calls a listener of the client in the middle of an operation, a "listener" frame
is on top, and the client's operations are enabled in it as between calls.  So a run of
the code is a run of the model, intermediate states of the loops included, and
an invariant that holds only between calls says `Idle => ...`.  Callbacks
scheduled with `queueMicrotask` are the sequence `microtasks`, run when the
stack is empty, in any order relative to the clients' calls.  Timers and the
clock are actions that may happen whenever the stack is empty.  A call that
throws before changing anything is no step; one that throws after a change is
modelled with its change (an answer to an unknown tag decrements the
consumer's counter and then throws).

### Delivery

State: `store[q]` is `MessageStore.messages`; `byTag`, `byQueue`, `rrIndex`,
`priorityRrIndex` are the maps of those names; `channel[c]` the fields of a
`Channel`, `unacked[c]` its `_unacked`.  `held[c]` is what the client of `c`
was given and may still answer (for ever, if `"repeat"` is among its
operations).  `published`, `done`, `delivered` and `used` are history.

A message is its number and its `deliveryCount`; a time-to-live is membership
in `Perishable`, and `Expire` is the clock passing its `expiresAt`.  A channel
is known to the registry by number only, as in the code, and `GetChannel`
resolves it in the dispatching connection.  `Deliver` is `Dispatcher.deliver`;
`ServedNext` says which consumer the three dispatch strategies pick, by
rotation and priority, without their loops.  `SettleStep` is one iteration of
any loop of `acknowledgment.ts`, `Channel.recover` or `Channel.close`.

`QueueContract` forgets arrays, tags, consumers and calls: a message is ready in
one queue, outstanding on one channel, or over.  `Delivery` maps to it through
`Contract` (its `ready` is the set of ids in a store, its `fresh` the messages
never in a delivery), and `KeepsContract` says that each step of the code is one
of six legal moves of one message, or none: a message comes back only to the
queue it was taken from, nothing leaves a queue out of turn, and what is over
stays over.

`ClientOps` selects which operations the clients of a run use.  It narrows the
clients, never the broker: properties that hold only for some clients say so in
their comment.

### Topology

Maps are functions whose domain is their set of keys.  `exchange`,
`hasHadBindings`, `queue`, `bindings`, `e2e`, `consumer`, `timers` and `owned`
are the maps of the registries; `stocked` says which stores are not empty and
`outstanding` which channels hold deliveries of which queue: enough to see
where messages of a deleted queue go.  `Check`, `Recount`, `CloseFrame` and
"requeue" frames are the calls that follow a deletion, a cancel and a close.
`DropQueue` is what all deletions of a queue share: the entry and the bindings
go, then a "cancel" frame per consumer (`ConsumerRegistry.serverCancel`), a
"discard" frame for store and timer ("discardStore" for an expiry, which took
its timer before) and the checks of exchanges.  A cancel calls the channel's
'cancel' listener in the middle of that: under "listen" among `ClientOps` a
"listener" frame follows in which the client restores its subscription
(`DeclareQueue`, `BindQueue`, `Consume`).  A connection's id is `IdOf`, as two
made in the same millisecond share one.  The timers carry no durations: a
running timer may fire at any time.  History: `unchecked`, the exchanges that
lost their last binding in one of the two ways after which the code does not
look, and `untimed` and `miscounted`, the queues declared while a namesake was
being deleted from which that deletion took the timer or a consumer (see below).

### Publishing

State: `store[q]` is the store of a queue with its priority buckets laid out one
after the other in dequeue order; `unacked` the deliveries of one channel, whose
consumers have no prefetch limit (which consumer a dispatch serves is in
`Delivery`); `confirmMode`, `tagSeq`, `pending` and `waiters` the confirm state
of the channel.  A message has its routing keys, priority, size, its `x-death`
entries and, as history, its `trail` of deaths.  Whether a message has a
time-to-live is data, when it passes is an action (`Expire`, `ExpireUnacked`).

An "enqueue" frame is the loop of `publish` over the target queues and a
"dispatch" frame the loop after it; `Deaths` puts the messages a queue displaced,
refused or drained on the stack as "dead" frames, each of which becomes the
"enqueue" frame of a nested publish, with a "try" frame below it where the code
has a `try`.  `Thrown` unwinds to the nearest frame that catches.  `live` says
whether dispatches within a publish can find channels: those set off by an
expiry cannot.  "listener" frames are callbacks of the client in the middle of a
publish; in them it may publish and wait for confirms again.

`MaxPublished` bounds the publishes, `MaxDeaths` the deaths the clients and the
clock cause to a message (displacements are not bounded: `AutomaticDeathsOnce`
says why they end), `Consumable`, `Gettable` and `Deletable` what the clients
touch.

### ConfirmChannel

State: `tagSeq`, `pendingConfirms`, `confirmWaiters` and `innerOpen` of the
wrapped channel; `confirmSeq`, `confirmCallbacks`, `hasNacked` and `closed` of
the adapter, which predicts with its own count the tag the wrapped channel will
give.  The stack has a frame for each publish under way ("pipeline", "returned"
after its message came back, "acked" or "nacked" while its confirm is emitted)
and one for each listener or callback of the client, in which it may publish,
wait, close, or throw, if `Throwers` says so for the event.  What it throws goes
where the code's `try` sends it: `ListenerThrow` into the catch of publish,
`ListenerThrowNacked` out of that catch.  `resumed` are waits whose promise is
resolved and whose continuation is to run.  History: `taken` (publishes the
broker took), `told` (what each callback heard), `nacked`, `owed` (tags a wait
answers for), `reported` (nacks a wait has reported), `answer`, and `stranded`
(waits a throwing callback left behind).  `MaxPublishes`, `MaxNesting` and
`Concurrent` are bounds.

### Routing

Keys are sequences of words, which the code splits at dots; `Words` is that
split, with its special case: the empty string has no words.  `TopicMatchWords`
is the recursion of `topicMatchWords` as a recursive function over the places of
the pattern, which gives for each the places of the key from which on the two
match.  `Met` and `ModeHolds` are the loop of `headersMatch`: which of the
compared arguments the message meets, and what the mode makes of it.

## Runs

Every run checks safety over all interleavings of its instance; "bounds" says
what limits the instance.

| run | properties | bounds |
|---|---|---|
| `answers` | `TypeOK`, `AtMostOnce`, `NothingLost`, `RedeliveredIffDelivered`, `FreshInOrder`, `AnswersNameTheirMessage`, `KeepsContract` | 1 queue, 2 channels, 2 tags, 2 messages, each requeued once by a client (close and recover requeue too); answers may be repeated, multiple, late |
| `registry` | `RegistryConsistent`, `ClosedChannelHoldsNothing`, `SingleActive` | 2 queues, one single-active-consumer; 3 tags, priorities 0 and 1, exclusive consumers, reuse of tags, channel and connection close; 1 message, which may expire |
| `prefetch` | `CountsOutstanding`, `NothingHeldBack`, `PrefetchRespected` | 2 consumers, limits 0 or 1, per consumer and per channel, 2 messages, flow, get, nack |
| `live` | `CallsReturn`, `EveryMessageSettled` | 3 messages, 2 consumers, prefetch 1, under `LiveSpec` |
| `lifecycle` | `TypeOK`, `NoDanglingBindings`, `ExchangesAutoDeleted`, `QueuesAutoDeleted`, `ConsumersCounted`, `TimersMatchQueues`, `ExclusiveQueuesOwned` | 1 queue name, 2 exchanges, 2 tags, 2 connections with a channel each that clients call, and on one of them a second channel, closed first; exchanges are auto-delete, the queue is auto-delete and expiring, or exclusive and expiring; 'cancel' listeners restore subscriptions |
| `publishing` | `TypeOK`, `LimitsHold`, `AutomaticDeathsOnce`, `XDeathTruthful`, `ConsumersServed`, `DeadLetteredIsGone`, `ConfirmsComplete` | 3 queues in a ring of dead-letter exchanges (one limited in bytes with two priorities, one that refuses and dead-letters to an internal exchange, one with a time-to-live), an alternate exchange that may be deleted; 2 publishes of 4 kinds, 2 deaths caused by clients or the clock |
| `confirm_channel` | `TypeOK`, `CallbacksTruthful`, `CallbacksAnswered`, `WaitsForAll`, `ResolvedMeansAcked`, `WaitsEnd` | 3 publishes, client code inside client code inside a publish, throws from all three kinds of it, 2 waits one after the other |
| `routing` | `TypeOK`, `TopicsDealt`, `ModesOrdered`, `HeadersMonotone` | keys of up to 3 words of {a, b, empty}, patterns of up to 3 words of {a, empty, *, #} or 4 of {a, *, #}; 2 header names with 2 values and undefined, 2 bindings |
| `ack_all` | `NothingHeldBack` (violated) | 1 consumer |
| `expiry` | `ExpiresOnlyUnconsumed` (violated) | 1 queue |
| `discarded` | `NewQueueIsEmpty` (violated) | 1 queue, 1 consumer |
| `reject_confirmed` | `AckedMeansAccepted` (violated) | 1 queue of length 1 |

Why these bounds are enough: the code treats queues, tags and channels
uniformly and compares them only for equality, so two or three of each give
every pattern of sharing the properties speak of (two channels on one queue,
two consumers of a tag's queue, a consumer before and one after the current
one, a name used twice).  Two messages give every order of a settle and a
dispatch; with three, `EveryMessageSettled` has one waiting behind a full
prefetch window.  In the ring of `publishing` two messages suffice to displace
each other, and one message displaced, expired or rejected goes round far enough
to die where it died before.  The patterns of `routing` hold two `#` with a word
or a `*` between and beside them.  In `confirm_channel` three publishes give one
before, one around and one inside a callback, which is what it takes to shift a
count against the other.  Deadlock is not checked: a program whose clients stop calling
is at rest.

Fairness, in `live` and `confirm_channel`.  `RunCall` is weakly fair because JavaScript runs a
call to completion, `RunMicrotask` because the event loop drains its microtask
queue, and the continuations of an awaited close and of `waitForConfirms`
(`Resume`) because promises that are resolved run them.  In `confirm_channel` the
client code called by a publish returns or throws, which is an assumption about
it; no client need do anything else.  In `live` the clients' fairness is an
assumption about clients, stated as such: each queue keeps a consumer, and what
is delivered is acked.

### What the violated runs show

1. `ack_all`: `ackAll`, `nackAll` and `recover` (`api/channel.ts:499-536`) do
   not decrement the unacked counters of the consumers, so a consumer with
   nothing outstanding counts as full.
2. `expiry`: a queue expires under its active consumers; consuming only restarts
   the timer (`api/rabbit-box.ts:149-174`).
3. `discarded`: deliveries outstanding when their queue is deleted come back, on
   nack or close, into a store made anew for the name, and a later queue of that
   name starts with them (`api/rabbit-box.ts:93-112`).
4. `reject_confirmed`: a message that a `reject-publish` queue refuses is
   acked in confirm mode: `ApiChannel.publish` ignores the `rejected` that
   `publish` returns (`api/channel.ts:353`, `publish.ts:326`).

### What the properties exempt, because the code behaves so

- An exclusive auto-delete queue is never auto-deleted, and an exclusive queue
  with `x-expires` never expires: the internal calls of `deleteQueue` pass no
  connection, the exclusive check refuses them and the error is swallowed
  (`api/rabbit-box.ts:155,185`).
- A dispatch resolves channel numbers in the channels map of the connection that
  triggered it (`api/connection.ts:174`), so consumers of other connections are
  passed over or, when numbers coincide, served through a channel that is not
  theirs.  `NothingHeldBack`, and the other runs about dispatch, have one
  connection.
- Under `prefetch(n, true)` an ack frees room for every consumer of the channel,
  but `dispatchQueues` dispatches only the queue of the delivery answered
  (`acknowledgment.ts:45`): with consumers of two queues on the channel, the
  other queue's message waits until something else dispatches its queue.
  `NothingHeldBack` is false there (`MCDelivery` with two queues, a tag each and
  a shared limit of 1 shows it in 20 steps); `prefetch` has one queue, and
  `NothingIsHeldBack` assumes one where clients set limits.
- A closing channel puts its deliveries back and dispatches none of their queues
  (`channel.ts:498-505`): consumers on other channels wait for the next publish,
  answer or consume.  `NothingIsHeldBack` is about clients that close no channel.
- A 'cancel' listener that declares the queue being deleted gets one from which
  the rest of the deletion takes the timer and the store, both known by name
  (`api/channel.ts:211-212`); consumers it registers there are cancelled if they
  reuse a tag still to be cancelled, and nobody counts them off (`untimed`,
  `miscounted`).  A listener that throws there ends the deletion half way, which
  is not modelled.
- Connections made from one parent in the same millisecond share an id
  (`api/connection.ts:65`) and therefore each other's exclusive queues.  The id
  is a parameter; `ExclusiveQueuesDie` is proved for any.
- A callback told of an ack that throws is caught by the `catch` of publish, which
  emits a nack for the tag just acked; the callback is gone by then, but the next
  wait of the adapter rejects though the message was taken
  (`api/channel.ts:353-368`).  `ResolvedMeansAcked` only promises that a wait that
  resolves is right.  A callback told of a nack that throws leaves
  `drainConfirmWaiters` out, and a wait may hang (`stranded`, exempted in
  `WaitsEnd`).
- Of two waits under way on one adapter channel only the first to go on rejects:
  `hasNacked` is one flag that it resets (`rabbit-amqplib/src/channel.ts:325-332`).
  `ResolvedMeansAcked` is therefore about clients that wait once at a time.
- The callback of a publish that throws because the connection closed the wrapped
  channel stays in the adapter's map for ever (`CallbacksAnswered` exempts it).
- An alternate exchange's own alternate is not tried once the chain meets an
  exchange that an exchange binding has already visited (`publish.ts:232`).
- An expired message behind a live one is removed only when it comes to the head
  (`dispatcher.ts:123`).
- An auto-delete exchange stays when its last binding was one to an exchange
  that is deleted, or went with a closing connection's exclusive queue: nobody
  checks it (`unchecked`).
- The list of exclusive queues of a connection keeps the name of a queue it
  deleted; if another connection then declares a queue of that name, not
  exclusive, the first connection's close deletes it, and leaves its consumers
  (`api/connection.ts:152-163`).  `ConsumersCounted` therefore assumes clients
  that do not delete their exclusive queues or consume those of others.
- Dead letters of expired messages are not dispatched to the consumers of the
  queues they reach until something else dispatches there: the callback looks
  up no channel (`api/rabbit-box.ts:136`).  `ConsumersServed` exempts them.
- `x-dead-letter-exchange: ''` names the default exchange for rejected and
  expired messages and no exchange for displaced ones (`publish.ts:300` tests
  for an empty string).
- An internal dead-letter exchange makes a nack or a drain throw: the rest of the
  messages being nacked or drained are lost, and the queues that the same call had
  still to dispatch are not.  A publish routed to a consumed queue and to one with
  an expired message that dies into an internal exchange leaves its message waiting
  for the consumer.  In the instance of `publishing` no such queues are bound
  together; `ConsumersAreServed` assumes `NoInternalDeadLetters`.
- An invalid `x-match` is accepted by `bindQueue` and makes every publish through
  the exchange throw (`routing.ts:108`).
- A message that a client rejected once may go round a ring of dead-letter
  exchanges for ever; `AutomaticDeathsOnce` speaks of the others.
- Requeued messages are never refused by a length limit (`LimitsHold`), and a
  queue that refuses may exceed its limit in bytes by its last message.
- Requeued messages go to the head one by one, so that several requeued
  together come back in reverse order; `FreshInOrder` speaks of messages never
  delivered.

## Proofs

All are checked by TLAPS for every value of the constants that satisfies the
modules' assumptions (finite sets of names, a numbering of channels injective
within a connection, options drawn from their record type).

- `TypeCorrect`: `TypeOK` of `Delivery` is inductive but for the lookup of a
  consumer at the head of `byQueue`, which must be registered; it is proved
  together with `RegistryConsistent`, which needs the types in turn.
  `Registry == TypeOK /\ RegistryConsistent` is the inductive invariant and
  `RegistryCorrect` its other half.  The lemmas `Unregistering` and
  `Registering` say what removal and `InsertPosition` do to the two indexes.
- `NoDuplicates` and `NoLoss`: the invariant `Places` says of each message that
  it is in exactly one place; `PlacesMean` shows it equivalent to `AtMostOnce /\
  NothingLost`.  Each action moves one message from one place to another, and a
  lemma for each kind of move (`HeadToDone`, `HeadToChannel`, `ChannelToDone`,
  `ChannelToStore`, `NewToStore`) carries it.
- `TopologyTypes`: `TypeOK` of `Topology`.
- `BindingsCorrect`: `NoDanglingBindings` is inductive with `TypeOK`: exactly
  because every path that removes a queue or an exchange removes its bindings in
  the same step.
- `TimersCorrect`: `TimersMatchQueues` speaks of the time between calls, so
  `TimersInv` says of the time within one that a timer without its queue has a
  pending "discard" frame to stop it (`Pending`); `PendingKept` says that a frame
  on the stack stays until it is run, whatever listeners do meanwhile.
- `FreshKeepOrder`, `RedeliveredTruthful`: with `Places`, the invariant `Sorted`
  says that in each store what was delivered before stands before what was not,
  and the latter in the order of publishing.  From the same invariant
  `ImplementsContract` shows every step of `Delivery` to be a step of
  `QueueContract` or a stutter.
- `TagsNameMessages`: no tag is issued twice on a channel (`TagsIssued`: what is
  outstanding has different tags, all at most the channel's counter), and what a
  client holds, or a scheduled callback will give it, agrees with what the channel
  has on record under that tag, if anything (`ClientsKnow`).  It assumes
  `NumbersDiffer`: with channels of the same number in two connections the code
  tracks a delivery on one channel and calls back the other (see above).
- `ClosedChannelsAreEmpty`: a closed channel is empty only when its close is over,
  so `ClosedInv` names the frame that still has to act: while consumers of a
  closed channel are registered its "cancel" frame is on the stack (`Closing`),
  while it has deliveries a "return" frame lists their tags (`Returning`) or the
  "cancel" frame is still to make that.  No dispatch in between, the failover of a
  single-active-consumer queue included, may deliver to the channel: `NoConsumerOn`
  and the unmapped number see to it.
- `CountersAreTrue`, `PrefetchIsRespected`: a counter is decremented when an answer
  is called and the delivery removed in a later step, so the invariant counts what
  is outstanding less what the answer on top of the stack is about to settle
  (`Owed`, `CountInv`).  That every decrement has its delivery needs that whatever
  a client holds, or will hold, is outstanding (the second half of `Accounted`) and
  that no two of these have one tag (`TagsDiffer`); that a new consumer starts
  with nothing, that tags are not reused (`UsedTags`); that a closing channel takes
  no delivery from a consumer that still counts it, `ReturnsUnconsumed`.  Both
  assume `AnswerEachOnce`: no multiple or repeated answers, no `ackAll`, `nackAll`,
  `recover`, no reuse of tags, different channel numbers.  Each of the operations
  excluded makes the counters wrong in the code (`ack_all` shows one).
- `NothingIsHeldBack`: `WorkInv` says that every queue is served, or a drain or
  dispatch of it is on the stack (`Dispatching`).  A step that gives a queue a
  message, a consumer, or a consumer room pushes its dispatch in the same step
  (`MessageIsOffered`, `ConsumerIsOffered`, `RoomIsOffered`: room comes from the
  answer to a delivery of that very queue, which `OwnQueue` says, or from flow
  resumed, which dispatches all); every other step is `Tight`.  A dispatch ends
  where nobody is eligible: who has room by what is really outstanding is eligible
  by the counters, which are true (`RoomIsSeen`), and among the eligible there is
  always one the rotation picks, wherever its index stands (`RotationFinds`).
  Assumed is `ServedAlone`: `AnswerEachOnce`; one connection, whose channels stay
  open; limits set before consuming, and with one queue only.  The exemptions above
  say what the code does otherwise.
- `OneActive`: registration puts a consumer behind the others of a
  single-active-consumer queue (`ActiveStays`), dispatch takes position 1
  (`ActiveServed`).
- `ConfirmTypes`, `CallbacksTold`, `NoCallbackLeft`: the invariant `IInv` joins
  `Sync` (the adapter's count equals the wrapped channel's tag counter as long as
  that is open), `Stack` (the shape of the frames: tags of publishes under way are
  distinct, and one that is not yet confirmed is pending) and `CallbacksOK` (a
  callback waits under its own publish's tag, and that publish is on the stack or
  was refused).  `WaitsComplete` follows with what each wait owes; `ResolvesTruly`
  needs in addition that a nack not yet reported is remembered (`RInv`), and
  assumes `Concurrent <= 1`.
- `ExclusiveQueuesDie`: `ExclusiveQueuesOwned` needs `ClosedIsQuiet`, that no
  channel of a closed connection is open, so that none can declare a queue.
- `QueuesGoWithConsumers`, `ExchangesGoWithBindings`, `ConsumersAreCounted`
  (`TopologyProofs`): `QueuesAutoDeleted`, `ExchangesAutoDeleted` and
  `ConsumersCounted` also hold only between calls, so each has an invariant that
  names the frame which makes good what is not yet right: `QueuesInv` the recount
  of a queue that lost its last consumer, `ExchangesInv` the check of an exchange
  that lost its last binding, `CountsInv` the recount or the cancellation.  The
  recount of a channel's close comes after every consumer of the channel is gone,
  but a deletion cancels one consumer at a time and calls its listener in
  between; `CancelsInv` keeps the two apart (no queue is counted while consumers
  are to be cancelled) and says that a consumer to be cancelled is registered and
  cancelled once, so that the deletion never takes the consumer a listener has
  just made.  `OwnersInv` says where each consumer's queue is: it exists and, if
  exclusive, belongs to the consumer's connection, which is why the queues a
  closing connection deletes have no consumers left.  `ConsumersAreCounted`
  assumes `WellBehaved`: no client consumes another connection's exclusive queue
  or deletes its own, and connection ids differ; without the first two the
  property is false (`api/connection.ts:155`).
- `RoutingTypes`; `TopicsAreDealt`: `topicMatchWords` tries a `#` with every number
  of words, `Dealt` says what a pattern means, that its places can be dealt out
  over the words of the key.  `DealtIsRecursive` shows that the places of a key
  from which on it can be dealt satisfy the recursion of `topicMatchWords`,
  `RecursiveUnique` that the recursion has one solution, from the end of the
  pattern on.
- `ModesAreOrdered` and `HeadersAreMonotone`, from the invariant `Current` (what
  was matched is what `route` returns for the present bindings) and the two
  lemmas `Lenient` and `MoreHeaders` about `HeadersMatch`.
- `PublishingTypes`: `TypeOK` of `Publishing` holds with `ProperCall`, which says
  that a publish never has stored a copy in a queue it is still to try.  It rests
  on what `SelectSeq` and `FlattenSeq` return for any sequence (`SequenceLemmas`)
  and on what the helpers of the store do: where a message is inserted, what
  `Overflow` leaves and drops.
- `LimitsAreKept`: each way a publish may leave a queue that has a limit is within
  it (`AcceptLimits` for the two policies); everything else only shortens a store
  or puts back what a client had.
- `DeathsAreOnce`, `XDeathIsTruthful`: `Recorded` speaks of one message, that its
  `x-death` has an entry for each pair of a queue and a reason in its trail, with
  the right count and in the order of the last death of each, the latest first
  (`Truthful`), and that no queue has two unless a client rejected the message
  (`Once`).  It is an invariant of
  all messages there are, those in the frames of the call included (`AllRecorded`):
  each step derives every message from one there was, unchanged or by the one
  death the frame on top is about (`Descends`).
- `ConfirmsAreComplete`: that nothing is told twice or in vain holds only between
  calls.  Within one, tags are owed by the frames of the publishes under way, so
  `ConfirmInv` says that the "confirm" frames are of different publishes and
  tags, a "return" frame above that of its publish (`Ordered`), that of a publish
  on the stack no event has told but its return, and of any other one at most
  after that (`Told`), and that the pending tags are those of the frames, the
  confirms emitted and these together as many as the tags given, and that someone
  waits only while a tag is pending or the waiters are about to be drained
  (`Awaited`).  Listeners publish and wait in between, and an error unwinds the
  stack to a frame that catches it, the "confirm" frames among them.
- `ConsumersAreServed`: within a call a message may wait for a consumer as long as
  a frame still serves its queue: the "enqueue" frame that has stored it there, the
  "dispatch" frame this becomes, or the "deliver" frame of that queue, each with
  channels to dispatch to (`live`); what is published without them is the dead
  letter of an expired or displaced message (`Candid`), which the property exempts.
  It assumes `NoInternalDeadLetters` (see above).
- `DeadLettersAreMoved` (`PublishingCopies`): what queues and clients hold says too
  little, because a message is for a while only in the frames of the call.  A *copy*
  is a message in a store, with a client, or in a "dead" or "enqueue" frame and
  bound for a queue, with the way it has come: the queues it died in, then the one
  it is in.  `CopyInv` says that no copy's way leads on from where another copy of
  the same message is (`Apart`): the copies of a message are the leaves of a tree,
  in which a publish to several queues forks and a death goes on to the next.  Each
  step maps the copies after it to those before (`Moves`), injectively but where
  the frame on top forks (`Follows`).  Places in the call are counted from the
  bottom, so that a frame is the same copy whatever is called above it.

What the code computes by a loop over a list is a recursive function in the
models, and what such a function returns for every list is proved by comparing it
with a function known to exist, or by going along the finite set of its places
(`KeptExists`, `RecursiveUnique`): the library's induction theorems, which take
an operator as a parameter, are out of the prover's reach.

Only model-checked: liveness (`WaitsEnd`, `EveryMessageSettled`, `CallsReturn`),
which is out of the prover's reach.

## Plan

Done in order of importance: delivery, topology, publishing, routing, the
contract of the queues and its refinement, the confirm channel of the adapter,
listeners in the middle of a deletion, the proofs for publishing and topics, and
that no queue holds back a message.  What follows:

1. The abstract view of a publisher, implemented by `Publishing`.
2. 'cancel' listeners that throw.

## Not modelled, and why

Hooks: only some of them are wired by `RabbitBox.create`, and they are test
doubles that may refuse an operation before it changes anything, or replace the
registry's call while the API's own follow-up runs; without hooks they are no
step.  Error texts and codes (a refused operation changes nothing), validation
of arguments and of `user-id`, times and quick-access headers of `x-death`,
generated names, the lists of the event emitter (`on`, `once`, `off`), the
adapter's other methods, each of which renames one call of the API channel, and
`url.ts`, which parses; `createChannel`, which happens before the models start;
transactions (`tx.select` is refused once confirms are on and does nothing
else), and passive declarations, which only read.
