--------------------------- MODULE TopologyProofs ---------------------------
(***************************************************************************)
(* Proofs about Topology, for any number of exchanges, queues, bindings,   *)
(* consumers, channels and connections: types, bindings that never dangle, *)
(* timers, exclusive queues, automatic deletion and consumer counts.       *)
(*                                                                         *)
(* That automatic deletion happens when it is due, and that counts and     *)
(* owners are right, is said of the time between calls.  Within a call,    *)
(* what is not yet right has a frame on the stack that will make it so: an *)
(* exchange that lost its last binding its check (ExchangesInv), a queue   *)
(* that lost its last consumer its recount (QueuesInv, CountsInv), a       *)
(* consumer whose queue is gone its cancellation (OwnersInv).  Listeners   *)
(* run in between, which is why it matters that a consumer to be cancelled *)
(* is still registered and is to be cancelled once (CancelsInv): else the  *)
(* deletion of a queue could cancel a consumer that a listener has just    *)
(* registered.                                                             *)
(***************************************************************************)
EXTENDS Topology, FiniteSetTheorems, SequenceTheorems, TLAPS

-----------------------------------------------------------------------------
(* Sequences of frames *)

(* The frames of a set of finitely many names: a sequence in which each name
   of the set has its frame. *)
LEMMA OrdersOK ==
  ASSUME NEW S, IsFiniteSet(S), NEW s \in Orders(S)
  PROVE  /\ s \in Seq(S) /\ DOMAIN s = 1 .. Len(s)
         /\ \A x \in S : \E i \in DOMAIN s : s[i] = x
<1>1. Cardinality(S) \in Nat
  BY FS_CardinalityType
<1>2. s \in [1 .. Cardinality(S) -> S] /\ \A x \in S : \E i \in 1 .. Cardinality(S) : s[i] = x
  BY DEF Orders, Surjection
<1> QED BY <1>1, <1>2

LEMMA ChecksOK ==
  ASSUME NEW S \in SUBSET Exchanges, NEW checks \in Checks(S)
  PROVE  /\ checks \in Seq(Frame)
         /\ \A e \in S : \E i \in DOMAIN checks : checks[i] = Check(e)
<1>1. IsFiniteSet(S)
  BY FS_Subset, TopologyAssumption
<1>2. PICK s \in Orders(S) : checks = [i \in DOMAIN s |-> Check(s[i])]
  BY DEF Checks
<1>3. /\ s \in Seq(S) /\ DOMAIN s = 1 .. Len(s)
      /\ \A x \in S : \E i \in DOMAIN s : s[i] = x
  BY <1>1, OrdersOK
<1>4. \A x \in S : Check(x) \in Frame
  BY DEF Check, Frame
<1>5. checks \in Seq(Frame)
  BY <1>2, <1>3, <1>4
<1>6. \A e \in S : \E i \in DOMAIN checks : checks[i] = Check(e)
  BY <1>2, <1>3
<1> QED BY <1>5, <1>6

LEMMA RecountsOK ==
  ASSUME NEW S \in SUBSET Queues, NEW s \in Orders(S),
         NEW frames, frames = [i \in DOMAIN s |-> Recount(s[i])]
  PROVE  /\ frames \in Seq(Frame)
         /\ \A q \in S : \E i \in DOMAIN frames : frames[i] = Recount(q)
<1>1. IsFiniteSet(S)
  BY FS_Subset, TopologyAssumption
<1>2. /\ s \in Seq(S) /\ DOMAIN s = 1 .. Len(s)
      /\ \A x \in S : \E i \in DOMAIN s : s[i] = x
  BY <1>1, OrdersOK
<1>3. \A x \in S : Recount(x) \in Frame
  BY DEF Recount, Frame
<1> QED BY <1>2, <1>3

LEMMA CancelsOK ==
  ASSUME NEW S \in SUBSET Tags, NEW cancels \in Cancels(S)
  PROVE  /\ cancels \in Seq(Frame)
         /\ \A t \in S : \E i \in DOMAIN cancels : cancels[i] = ServerCancel(t)
<1>1. IsFiniteSet(S)
  BY FS_Subset, TopologyAssumption
<1>2. PICK s \in Orders(S) : cancels = [i \in DOMAIN s |-> ServerCancel(s[i])]
  BY DEF Cancels
<1>3. /\ s \in Seq(S) /\ DOMAIN s = 1 .. Len(s)
      /\ \A x \in S : \E i \in DOMAIN s : s[i] = x
  BY <1>1, OrdersOK
<1>4. \A x \in S : ServerCancel(x) \in Frame
  BY DEF ServerCancel, Frame
<1>5. cancels \in Seq(Frame)
  BY <1>2, <1>3, <1>4
<1>6. \A t \in S : \E i \in DOMAIN cancels : cancels[i] = ServerCancel(t)
  BY <1>2, <1>3
<1> QED BY <1>5, <1>6

Appears(f, s) == \E i \in DOMAIN s : s[i] = f

(* What a step that ends the frame on top leaves pending. *)
LEMMA TailKeeps ==
  ASSUME NEW s \in Seq(Frame), s # <<>>
  PROVE  /\ Tail(s) \in Seq(Frame) /\ s[1] \in Frame
         /\ \A f : Appears(f, s) => f = s[1] \/ Appears(f, Tail(s))
<1>1. \A i \in DOMAIN s : i # 1 => i - 1 \in DOMAIN Tail(s) /\ Tail(s)[i - 1] = s[i]
  BY HeadTailProperties
<1>2. ASSUME NEW f, Appears(f, s), f # s[1]
      PROVE  Appears(f, Tail(s))
  BY <1>1, <1>2 DEF Appears
<1> QED BY <1>2, HeadTailProperties

LEMMA ConcatKeeps ==
  ASSUME NEW s \in Seq(Frame), NEW r \in Seq(Frame)
  PROVE  /\ s \o r \in Seq(Frame)
         /\ \A f : Appears(f, s) \/ Appears(f, r) => Appears(f, s \o r)
<1>1. /\ s \o r \in Seq(Frame) /\ Len(s \o r) = Len(s) + Len(r)
      /\ \A i \in 1 .. Len(s) : (s \o r)[i] = s[i]
      /\ \A i \in 1 .. Len(r) : (s \o r)[Len(s) + i] = r[i]
  BY ConcatProperties
<1>2. \A i \in DOMAIN s : i \in DOMAIN (s \o r) /\ (s \o r)[i] = s[i]
  BY <1>1
<1>3. \A i \in DOMAIN r : Len(s) + i \in DOMAIN (s \o r) /\ (s \o r)[Len(s) + i] = r[i]
  BY <1>1
<1>4. ASSUME NEW f, Appears(f, s)
      PROVE  Appears(f, s \o r)
  BY <1>2, <1>4 DEF Appears
<1>5. ASSUME NEW f, Appears(f, r)
      PROVE  Appears(f, s \o r)
  BY <1>3, <1>5 DEF Appears
<1> QED BY <1>1, <1>4, <1>5

-----------------------------------------------------------------------------
(* Types *)

LEMMA WithOK ==
  ASSUME NEW S, NEW f, f \in [DOMAIN f -> S], NEW x, NEW v \in S
  PROVE  /\ With(f, x, v) \in [DOMAIN With(f, x, v) -> S]
         /\ DOMAIN With(f, x, v) = DOMAIN f \cup {x}
         /\ \A y \in DOMAIN With(f, x, v) : With(f, x, v)[y] = IF y = x THEN v ELSE f[y]
BY DEF With

LEMMA WithoutOK ==
  ASSUME NEW S, NEW f, f \in [DOMAIN f -> S], NEW D
  PROVE  /\ Without(f, D) \in [DOMAIN Without(f, D) -> S]
         /\ DOMAIN Without(f, D) = DOMAIN f \ D
         /\ \A y \in DOMAIN Without(f, D) : Without(f, D)[y] = f[y]
BY DEF Without

(* TypeOK in three parts, by who disturbs them. *)
RegistryTypes ==
  /\ DOMAIN exchange \subseteq Exchanges /\ exchange \in [DOMAIN exchange -> BOOLEAN]
  /\ hasHadBindings \subseteq Exchanges
  /\ bindings \subseteq Binding
  /\ e2e \subseteq ExchangeBinding
  /\ unchecked \subseteq Exchanges

QueueTypes ==
  /\ DOMAIN queue \subseteq Queues /\ queue \in [DOMAIN queue -> Entry]
  /\ DOMAIN consumer \subseteq Tags /\ consumer \in [DOMAIN consumer -> Consumer]
  /\ timers \subseteq Queues
  /\ owned \in [Connections -> SUBSET Queues]
  /\ untimed \subseteq Queues /\ miscounted \subseteq Queues

RestTypes ==
  /\ open \subseteq Channels
  /\ closing \subseteq Connections /\ closed \subseteq Connections
  /\ stocked \subseteq Queues
  /\ outstanding \subseteq Channels \X Queues
  /\ call \in Seq(Frame)

LEMMA TypeParts == TypeOK <=> RegistryTypes /\ QueueTypes /\ RestTypes
BY DEF TypeOK, RegistryTypes, QueueTypes, RestTypes

LEMMA RemoveExchangeTypes ==
  ASSUME RegistryTypes, NEW e \in Exchanges, RemoveExchange(e)
  PROVE  RegistryTypes'
<1>1. exchange' = Without(exchange, {e})
  BY DEF RemoveExchange
<1>2. DOMAIN exchange' \subseteq Exchanges /\ exchange' \in [DOMAIN exchange' -> BOOLEAN]
  BY <1>1 DEF RegistryTypes, Without
<1> QED
  BY <1>2 DEF RegistryTypes, RemoveExchange, RemovedExchangeBindings, Bereft

(* The frames a deletion leaves behind it. *)
LEMMA DropQueueFrames ==
  ASSUME TypeOK, NEW q \in Queues, NEW end \in {"discard", "discardStore"},
         NEW rest \in Seq(Frame), DropQueue(q, end, rest)
  PROVE  \E cancels \in Cancels(ConsumersOf(q)), checks \in Checks(BoundExchanges(q)),
            new \in Seq(Frame) :
           /\ new = cancels \o <<[do |-> end, name |-> q]>> \o checks
           /\ call' = new \o rest /\ call' \in Seq(Frame)
           /\ \A f : Appears(f, cancels) \/ Appears(f, checks) \/ Appears(f, rest)
                     => Appears(f, call')
           /\ Appears([do |-> end, name |-> q], call')
<1>1. PICK cancels \in Cancels(ConsumersOf(q)), checks \in Checks(BoundExchanges(q)) :
        call' = cancels \o <<[do |-> end, name |-> q]>> \o checks \o rest
  BY DEF DropQueue
<1>2. BoundExchanges(q) \subseteq Exchanges /\ ConsumersOf(q) \subseteq Tags
  BY DEF BoundExchanges, BindingsOf, Binding, ConsumersOf, TypeOK
<1>3. cancels \in Seq(Frame) /\ checks \in Seq(Frame)
  BY <1>2, ChecksOK, CancelsOK
<1> DEFINE last == <<[do |-> end, name |-> q]>>
           first == cancels \o last
           new == first \o checks
<1>4. last \in Seq(Frame) /\ Appears([do |-> end, name |-> q], last)
  BY DEF Frame, Appears
<1>5. call' = new \o rest /\ new = cancels \o <<[do |-> end, name |-> q]>> \o checks
  BY <1>1
<1>6. /\ first \in Seq(Frame)
      /\ \A f : Appears(f, cancels) \/ Appears(f, last) => Appears(f, first)
  <2> HIDE DEF last
  <2> QED BY <1>3, <1>4, ConcatKeeps
<1>7. /\ new \in Seq(Frame)
      /\ \A f : Appears(f, first) \/ Appears(f, checks) => Appears(f, new)
  <2> HIDE DEF first
  <2> QED BY <1>3, <1>6, ConcatKeeps
<1> HIDE DEF last, first, new
<1>8. /\ new \o rest \in Seq(Frame)
      /\ \A f : Appears(f, new) \/ Appears(f, rest) => Appears(f, new \o rest)
  BY <1>7, ConcatKeeps
<1>9. ASSUME NEW f, Appears(f, cancels) \/ Appears(f, checks) \/ Appears(f, rest)
      PROVE  Appears(f, call')
  BY <1>5, <1>6, <1>7, <1>8, <1>9
<1>10. Appears([do |-> end, name |-> q], call')
  BY <1>4, <1>5, <1>6, <1>7, <1>8
<1> QED BY <1>5, <1>7, <1>8, <1>9, <1>10

LEMMA DropQueueTypes ==
  ASSUME TypeOK, NEW q \in Queues, NEW end \in {"discard", "discardStore"},
         NEW rest \in Seq(Frame), DropQueue(q, end, rest), timers' \subseteq Queues
  PROVE  TypeOK'
<1> USE DEF TypeOK
<1>1. queue' = Without(queue, {q})
  BY DEF DropQueue
<1>2. DOMAIN queue' \subseteq Queues /\ queue' \in [DOMAIN queue' -> Entry]
  BY <1>1 DEF Without
<1>3. call' \in Seq(Frame)
  BY DropQueueFrames
<1>4. /\ bindings' \subseteq Binding /\ untimed' \subseteq Queues /\ miscounted' \subseteq Queues
      /\ UNCHANGED <<exchange, hasHadBindings, e2e, unchecked, owned, consumer, open, closing,
                     closed, stocked, outstanding>>
  BY DEF DropQueue, connectionVars, messageVars
<1> QED BY <1>2, <1>3, <1>4

LEMMA DispatchTypes ==
  ASSUME NEW q \in Queues, NEW C, C \in [DOMAIN C -> Consumer],
         NEW before \in SUBSET Queues, NEW held \in SUBSET (Channels \X Queues),
         Dispatch(q, C, before, held)
  PROVE  stocked' \subseteq Queues /\ outstanding' \subseteq Channels \X Queues
<1>1. {C[t].channel : t \in {u \in DOMAIN C : C[u].queue = q}} \subseteq Channels
  BY DEF Consumer
<1>2. PICK served \in SUBSET Channels : outstanding' = held \cup (served \X {q})
  BY <1>1 DEF Dispatch
<1>3. stocked' \in {before, before \ {q}}
  BY DEF Dispatch
<1> QED BY <1>2, <1>3

LEMMA CountSetTypes ==
  ASSUME TypeOK, NEW q \in Queues, NEW n \in Nat
  PROVE  /\ DOMAIN CountSet(q, n) = DOMAIN queue
         /\ CountSet(q, n) \in [DOMAIN queue -> Entry]
<1>1. queue \in [DOMAIN queue -> Entry]
  BY DEF TypeOK
<1>2. CASE q \notin DOMAIN queue
  BY <1>1, <1>2 DEF CountSet
<1>3. CASE q \in DOMAIN queue
  <2>1. queue[q] \in Entry
    BY <1>1, <1>3
  <2>2. CountSet(q, n) = [queue EXCEPT ![q] =
           [[queue[q] EXCEPT !.consumerCount = n] EXCEPT
              !.hasHadConsumers = queue[q].hasHadConsumers \/ n > 0]]
    BY <1>1, <1>3, <2>1 DEF CountSet, Entry
  <2>3. (queue[q].hasHadConsumers \/ n > 0) \in BOOLEAN
    OBVIOUS
  <2>4. [[queue[q] EXCEPT !.consumerCount = n] EXCEPT
              !.hasHadConsumers = queue[q].hasHadConsumers \/ n > 0] \in Entry
    BY <2>1, <2>3 DEF Entry
  <2> QED BY <1>1, <1>3, <2>2, <2>4
<1> QED BY <1>2, <1>3

LEMMA CountedIsNat ==
  ASSUME TypeOK, NEW q, NEW C, DOMAIN C \subseteq Tags
  PROVE  Counted(q, C) \in Nat
<1>1. IsFiniteSet({t \in DOMAIN C : C[t].queue = q})
  BY FS_Subset, TopologyAssumption
<1> QED BY <1>1, FS_CardinalityType DEF Counted

LEMMA CheckIsCall == \A e \in Exchanges : <<Check(e)>> \in Seq(Frame)
BY DEF Check, Frame

LEMMA CloseIsCall == <<>> \in Seq(Frame) /\ \A c \in Channels : <<CloseFrame(c)>> \in Seq(Frame)
BY DEF CloseFrame, Frame

LEMMA TypeInit == Init => TypeOK
<1> SUFFICES ASSUME Init PROVE TypeOK
  OBVIOUS
<1>1. call \in Seq(Frame)
  BY DEF Init
<1>2. exchange \in [DOMAIN exchange -> BOOLEAN] /\ DOMAIN exchange \subseteq Exchanges
  BY TopologyAssumption DEF Init
<1> QED BY <1>1, <1>2 DEF Init, TypeOK

(* Every action keeps the types. *)
LEMMA TypeStep == TypeOK /\ [Next]_vars => TypeOK'
<1> SUFFICES ASSUME TypeOK, [Next]_vars PROVE TypeOK'
  OBVIOUS
<1> USE DEF TypeOK
<1>0. CASE UNCHANGED vars
  BY <1>0 DEF vars, registryVars, queueVars, connectionVars, messageVars
<1> USE DEF registryVars, queueVars, connectionVars, messageVars
<1>1. CASE CheckExchange
  <2>1. call # <<>> /\ call[1] \in Frame /\ Tail(call) \in Seq(Frame)
    BY <1>1, TailKeeps DEF CheckExchange, Idle
  <2>2. Top.name \in Exchanges
    BY <1>1, <2>1 DEF CheckExchange, Top, Frame
  <2>3. RegistryTypes'
    BY <1>1, <2>2, TypeParts, RemoveExchangeTypes DEF CheckExchange, RegistryTypes
  <2>4. QueueTypes' /\ RestTypes'
    BY <1>1, <2>1, TypeParts DEF CheckExchange, QueueTypes, RestTypes, Pop
  <2> QED BY <2>3, <2>4, TypeParts DEF RegistryTypes, QueueTypes, RestTypes
<1>2. CASE CheckQueue
  <2>1. call # <<>> /\ call[1] \in Frame /\ Tail(call) \in Seq(Frame)
    BY <1>2, TailKeeps DEF CheckQueue, Idle
  <2> DEFINE q == Top.name
             n == Counted(q, consumer)
  <2>2. q \in Queues
    BY <1>2, <2>1 DEF CheckQueue, Top, Frame
  <2>3. CASE DropQueue(q, "discard", Tail(call)) /\ timers' = timers
    BY <2>1, <2>2, <2>3, DropQueueTypes
  <2>4. CASE queue' = CountSet(q, n) /\ Pop /\ miscounted' = miscounted \ {q}
              /\ UNCHANGED <<registryVars, timers, owned, untimed, consumer, connectionVars,
                             messageVars>>
    <3>1. DOMAIN queue' \subseteq Queues /\ queue' \in [DOMAIN queue' -> Entry]
      BY <2>2, <2>4, CountedIsNat, CountSetTypes
    <3> QED BY <2>1, <2>4, <3>1 DEF Pop
  <2> QED BY <1>2, <2>3, <2>4 DEF CheckQueue
<1>3. CASE CloseChannel
  <2>1. call # <<>> /\ call[1] \in Frame /\ Tail(call) \in Seq(Frame)
    BY <1>3, TailKeeps DEF CloseChannel, Idle
  <2> DEFINE c == Top.name
             lost == {consumer[t].queue : t \in OnNumber(c)}
  <2>2. c \in Channels
    BY <1>3, <2>1 DEF CloseChannel, Top, Frame
  <2>3. lost \subseteq Queues
    BY DEF OnNumber, Consumer
  <2>4. PICK s \in Orders(lost) :
          call' = [i \in DOMAIN s |-> Recount(s[i])]
                    \o <<[do |-> "requeue", name |-> c]>> \o Tail(call)
    BY <1>3 DEF CloseChannel
  <2>5. [i \in DOMAIN s |-> Recount(s[i])] \in Seq(Frame)
    BY <2>3, RecountsOK
  <2>6. <<[do |-> "requeue", name |-> c]>> \in Seq(Frame)
    BY <2>2 DEF Frame
  <2>7. call' \in Seq(Frame)
    BY <2>1, <2>4, <2>5, <2>6, ConcatKeeps
  <2>8. DOMAIN consumer' \subseteq Tags /\ consumer' \in [DOMAIN consumer' -> Consumer]
    BY <1>3 DEF CloseChannel, Without
  <2> QED BY <1>3, <2>7, <2>8 DEF CloseChannel
<1>4. CASE RequeueUnacked
  <2>1. call # <<>> /\ Tail(call) \in Seq(Frame)
    BY <1>4, TailKeeps DEF RequeueUnacked, Idle
  <2>2. stocked' \subseteq Queues /\ outstanding' \subseteq Channels \X Queues
    BY <1>4 DEF RequeueUnacked
  <2> QED BY <1>4, <2>1, <2>2 DEF RequeueUnacked, Pop
<1>12. CASE CancelConsumer
  <2>1. call # <<>> /\ Tail(call) \in Seq(Frame)
    BY <1>12, TailKeeps DEF CancelConsumer, Idle
  <2>2. DOMAIN consumer' \subseteq Tags /\ consumer' \in [DOMAIN consumer' -> Consumer]
    BY <1>12 DEF CancelConsumer, Without
  <2>3. \A c \in Channels : <<Listener(c)>> \in Seq(Frame)
    BY DEF Listener, Frame
  <2>4. \A t \in DOMAIN consumer : consumer[t].channel \in Channels
    BY DEF Consumer
  <2>5. call' \in Seq(Frame)
    <3>1. CASE call' = Tail(call)
      BY <2>1, <3>1
    <3>2. CASE Top.name \in DOMAIN consumer
               /\ call' = <<Listener(consumer[Top.name].channel)>> \o Tail(call)
      BY <2>1, <2>3, <2>4, <3>2, ConcatKeeps
    <3> QED BY <1>12, <3>1, <3>2 DEF CancelConsumer, Pop
  <2>6. miscounted' \subseteq Queues
    BY <1>12 DEF CancelConsumer
  <2> QED BY <1>12, <2>2, <2>5, <2>6 DEF CancelConsumer
<1>13. CASE ListenerReturns
  BY <1>13, TailKeeps DEF ListenerReturns, Idle, Pop
<1>14. CASE Discard
  <2>1. call # <<>> /\ Tail(call) \in Seq(Frame)
    BY <1>14, TailKeeps DEF Discard, Idle
  <2> QED BY <1>14, <2>1 DEF Discard, Pop, TimersWithout
<1>5. ASSUME NEW c \in Channels, ExchangeNext(c)
      PROVE  TypeOK'
  <2>1. ASSUME NEW e \in Exchanges, NEW autoDelete \in ExchangeOptions, DeclareExchange(c, e, autoDelete)
        PROVE  TypeOK'
    <3>1. DOMAIN exchange' \subseteq Exchanges /\ exchange' \in [DOMAIN exchange' -> BOOLEAN]
      BY <2>1, TopologyAssumption DEF DeclareExchange, With
    <3> QED BY <2>1, <3>1 DEF DeclareExchange
  <2>2. ASSUME NEW e \in Exchanges, NEW ifUnused \in BOOLEAN, DeleteExchange(c, e, ifUnused)
        PROVE  TypeOK'
    <3>1. RegistryTypes'
      BY <2>2, TypeParts, RemoveExchangeTypes DEF DeleteExchange
    <3> QED BY <2>2, <3>1 DEF DeleteExchange, RegistryTypes
  <2>3. ASSUME NEW q \in Queues, NEW e \in Exchanges, NEW k \in Keys, BindQueue(c, q, e, k)
        PROVE  TypeOK'
    BY <2>3 DEF BindQueue, Binding
  <2>4. ASSUME NEW q \in Queues, NEW e \in Exchanges, NEW k \in Keys, UnbindQueue(c, q, e, k)
        PROVE  TypeOK'
    BY <2>4, CheckIsCall DEF UnbindQueue
  <2>5. ASSUME NEW s \in Exchanges, NEW d \in Exchanges, NEW k \in Keys, BindExchange(c, s, d, k)
        PROVE  TypeOK'
    BY <2>5 DEF BindExchange, ExchangeBinding
  <2>6. ASSUME NEW s \in Exchanges, NEW d \in Exchanges, NEW k \in Keys, UnbindExchange(c, s, d, k)
        PROVE  TypeOK'
    BY <2>6, CheckIsCall DEF UnbindExchange
  <2> QED BY <1>5, <2>1, <2>2, <2>3, <2>4, <2>5, <2>6 DEF ExchangeNext
<1>6. ASSUME NEW c \in Channels, QueueNext(c)
      PROVE  TypeOK'
  <2>1. ASSUME NEW q \in Queues, NEW o \in QueueOptions, DeclareQueue(c, q, o)
        PROVE  TypeOK'
    <3>1. ConnOf[c] \in Connections
      BY TopologyAssumption
    <3>2. [options |-> o, owner |-> Id(c), consumerCount |-> 0, hasHadConsumers |-> FALSE] \in Entry
      BY <3>1 DEF Entry, Id
    <3>3. DOMAIN queue' \subseteq Queues /\ queue' \in [DOMAIN queue' -> Entry]
      BY <2>1, <3>2 DEF DeclareQueue, With
    <3>4. owned' \in [Connections -> SUBSET Queues]
      BY <2>1, <3>1 DEF DeclareQueue
    <3> QED BY <2>1, <3>3, <3>4 DEF DeclareQueue
  <2>2. ASSUME NEW q \in Queues, NEW ifUnused \in BOOLEAN, NEW ifEmpty \in BOOLEAN,
               DeleteQueue(c, q, ifUnused, ifEmpty)
        PROVE  TypeOK'
    BY <2>2, CloseIsCall, DropQueueTypes DEF DeleteQueue
  <2>3. ASSUME NEW q \in Queues, PurgeQueue(c, q)
        PROVE  TypeOK'
    BY <2>3 DEF PurgeQueue
  <2>4. ASSUME NEW q \in Queues, Publish(c, q)
        PROVE  TypeOK'
    <3>1. stocked' \subseteq Queues /\ outstanding' \subseteq Channels \X Queues
      BY <2>4, DispatchTypes DEF Publish
    <3> QED BY <2>4, <3>1 DEF Publish
  <2>5. ASSUME NEW q \in Queues, NEW noAck \in BOOLEAN, Get(c, q, noAck)
        PROVE  TypeOK'
    BY <2>5 DEF Get
  <2>6. ASSUME NEW q \in Queues, NEW requeue \in BOOLEAN, Answer(c, q, requeue)
        PROVE  TypeOK'
    <3>1. PICK held \in {outstanding, outstanding \ {<<c, q>>}} :
            Dispatch(q, consumer, IF requeue THEN stocked \cup {q} ELSE stocked, held)
      BY <2>6 DEF Answer
    <3>2. held \in SUBSET (Channels \X Queues)
      BY <3>1
    <3>3. (IF requeue THEN stocked \cup {q} ELSE stocked) \in SUBSET Queues
      OBVIOUS
    <3>4. stocked' \subseteq Queues /\ outstanding' \subseteq Channels \X Queues
      BY <3>1, <3>2, <3>3, DispatchTypes
    <3> QED BY <2>6, <3>4 DEF Answer
  <2>7. ASSUME NEW q \in Queues, NEW t \in Tags, Consume(c, q, t)
        PROVE  TypeOK'
    <3> DEFINE C == With(consumer, t, [queue |-> q, channel |-> c])
    <3>1. DOMAIN C \subseteq Tags /\ C \in [DOMAIN C -> Consumer]
      BY DEF With, Consumer
    <3>2. queue' = CountSet(q, Counted(q, C)) /\ Dispatch(q, C, stocked, outstanding) /\ consumer' = C
      BY <2>7 DEF Consume
    <3>3. DOMAIN queue' \subseteq Queues /\ queue' \in [DOMAIN queue' -> Entry]
      BY <3>1, <3>2, CountedIsNat, CountSetTypes
    <3>4. stocked' \subseteq Queues /\ outstanding' \subseteq Channels \X Queues
      BY <3>1, <3>2, DispatchTypes
    <3> QED BY <2>7, <3>1, <3>2, <3>3, <3>4 DEF Consume
  <2>8. ASSUME NEW t \in Tags, Cancel(c, t)
        PROVE  TypeOK'
    <3>1. DOMAIN consumer' \subseteq Tags /\ consumer' \in [DOMAIN consumer' -> Consumer]
      BY <2>8 DEF Cancel, Without
    <3>2. Recount(consumer[t].queue) \in Frame
      BY <2>8 DEF Cancel, Consumer, Recount, Frame
    <3>3. call' \in Seq(Frame)
      BY <2>8, <3>2 DEF Cancel
    <3> QED BY <2>8, <3>1, <3>3 DEF Cancel
  <2> QED BY <1>6, <2>1, <2>2, <2>3, <2>4, <2>5, <2>6, <2>7, <2>8 DEF QueueNext
<1>7. ASSUME NEW c \in Channels, Close(c)
      PROVE  TypeOK'
  BY <1>7, CloseIsCall DEF Close
<1>8. ASSUME NEW q \in Queues, ExpireQueue(q)
      PROVE  TypeOK'
  <2>0. timers' = timers \ {q}
    BY <1>8 DEF ExpireQueue
  <2>1. CASE DropQueue(q, "discardStore", <<>>)
    BY <2>0, <2>1, CloseIsCall, DropQueueTypes
  <2>2. CASE UNCHANGED <<registryVars, queue, owned, untimed, miscounted, consumer,
                         connectionVars, messageVars, call>>
    BY <2>0, <2>2
  <2> QED BY <1>8, <2>1, <2>2 DEF ExpireQueue
<1>9. ASSUME NEW conn \in Connections, CloseConnection(conn)
      PROVE  TypeOK'
  <2>1. call' \in Seq(Frame)
    BY <1>9, CloseIsCall DEF CloseConnection, NextToClose
  <2> QED BY <1>9, <2>1 DEF CloseConnection
<1>10. ASSUME NEW conn \in Connections, AwaitedClose(conn)
       PROVE  TypeOK'
  <2>1. call' \in Seq(Frame)
    BY <1>10, CloseIsCall DEF AwaitedClose, NextToClose
  <2> QED BY <1>10, <2>1 DEF AwaitedClose
<1>11. ASSUME NEW conn \in Connections, DeleteExclusiveQueues(conn)
       PROVE  TypeOK'
  <2>1. DOMAIN queue' \subseteq Queues /\ queue' \in [DOMAIN queue' -> Entry]
    BY <1>11 DEF DeleteExclusiveQueues, Without
  <2>2. owned' \in [Connections -> SUBSET Queues]
    BY <1>11 DEF DeleteExclusiveQueues
  <2> QED BY <1>11, <2>1, <2>2 DEF DeleteExclusiveQueues, Bereft
<1> QED
  BY <1>0, <1>1, <1>2, <1>3, <1>4, <1>5, <1>6, <1>7, <1>8, <1>9, <1>10, <1>11,
     <1>12, <1>13, <1>14 DEF Next, RunCall

(* Every reachable state of the topology is well typed. *)
THEOREM TopologyTypes == Spec => []TypeOK
BY TypeInit, TypeStep, PTL DEF Spec

-----------------------------------------------------------------------------
(* The steps that matter to a set of variables.  Every other action leaves
   them alone. *)

(* Setting a consumer count changes no options, owner or name. *)
LEMMA CountSetKeeps ==
  ASSUME TypeOK, NEW q \in Queues, NEW n \in Nat
  PROVE  /\ DOMAIN CountSet(q, n) = DOMAIN queue
         /\ \A r \in DOMAIN queue : /\ CountSet(q, n)[r].options = queue[r].options
                                    /\ CountSet(q, n)[r].owner = queue[r].owner
         /\ \A r \in DOMAIN queue : r # q => CountSet(q, n)[r] = queue[r]
         /\ q \in DOMAIN queue => CountSet(q, n)[q].consumerCount = n
<1>1. queue \in [DOMAIN queue -> Entry]
  BY DEF TypeOK
<1>2. CASE q \notin DOMAIN queue
  BY <1>1, <1>2 DEF CountSet
<1>3. CASE q \in DOMAIN queue
  <2>1. queue[q] \in Entry
    BY <1>1, <1>3
  <2> DEFINE counted == [queue[q] EXCEPT !.consumerCount = n]
             marked == [counted EXCEPT !.hasHadConsumers = queue[q].hasHadConsumers \/ n > 0]
  <2>2. CountSet(q, n) = [queue EXCEPT ![q] = marked]
    BY <1>1, <1>3, <2>1 DEF CountSet, Entry
  <2>3. counted \in Entry /\ counted.options = queue[q].options /\ counted.owner = queue[q].owner
        /\ counted.consumerCount = n
    BY <2>1 DEF Entry
  <2>4. marked.options = counted.options /\ marked.owner = counted.owner
        /\ marked.consumerCount = counted.consumerCount
    BY <2>3 DEF Entry
  <2> QED BY <1>1, <1>3, <2>2, <2>3, <2>4
<1> QED BY <1>2, <1>3

(* A queue is checked, or deleted if it is ready. *)
LEMMA CheckQueueCases ==
  ASSUME TypeOK, CheckQueue
  PROVE  \E q \in Queues :
           /\ call # <<>> /\ call[1] = Recount(q) /\ Tail(call) \in Seq(Frame)
           /\ \A f : Appears(f, call) => f = call[1] \/ Appears(f, Tail(call))
           /\ Counted(q, consumer) \in Nat
           /\ \/ /\ q \in DOMAIN queue /\ ~LockedFor(q, {})
                 /\ DropQueue(q, "discard", Tail(call)) /\ timers' = timers
              \/ /\ QueueReady(q, Counted(q, consumer)) => LockedFor(q, {})
                 /\ queue' = CountSet(q, Counted(q, consumer))
                 /\ call' = Tail(call) /\ miscounted' = miscounted \ {q}
                 /\ UNCHANGED <<registryVars, timers, owned, untimed, consumer, connectionVars,
                                messageVars>>
<1>1. /\ call # <<>> /\ call[1] \in Frame /\ Tail(call) \in Seq(Frame)
      /\ \A f : Appears(f, call) => f = call[1] \/ Appears(f, Tail(call))
  BY TailKeeps DEF CheckQueue, Idle, TypeOK
<1>2. Top.name \in Queues /\ call[1] = Recount(Top.name)
  BY <1>1 DEF CheckQueue, Top, Frame, Recount
<1>3. Counted(Top.name, consumer) \in Nat
  BY CountedIsNat DEF TypeOK
<1>4. \/ /\ Top.name \in DOMAIN queue /\ ~LockedFor(Top.name, {})
         /\ DropQueue(Top.name, "discard", Tail(call)) /\ timers' = timers
      \/ /\ QueueReady(Top.name, Counted(Top.name, consumer)) => LockedFor(Top.name, {})
         /\ queue' = CountSet(Top.name, Counted(Top.name, consumer))
         /\ call' = Tail(call) /\ miscounted' = miscounted \ {Top.name}
         /\ UNCHANGED <<registryVars, timers, owned, untimed, consumer, connectionVars,
                        messageVars>>
  BY DEF CheckQueue, QueueReady, Pop
<1> QED BY <1>1, <1>2, <1>3, <1>4

(* What is left of the call in progress. *)

Pending(f) == Appears(f, call)

LEMMA TailPending ==
  ASSUME TypeOK, call # <<>>, NEW new \in Seq(Frame), call' = new \o Tail(call)
  PROVE  /\ call[1] \in Frame
         /\ \A f : Pending(f) => f = call[1] \/ Pending(f)'
         /\ \A f : Appears(f, new) => Pending(f)'
<1>1. /\ call[1] \in Frame /\ Tail(call) \in Seq(Frame)
      /\ \A f : Appears(f, call) => f = call[1] \/ Appears(f, Tail(call))
  BY TailKeeps DEF TypeOK
<1>2. \A f : Appears(f, new) \/ Appears(f, Tail(call)) => Appears(f, call')
  BY <1>1, ConcatKeeps
<1> QED BY <1>1, <1>2 DEF Pending

LEMMA PopPending ==
  ASSUME TypeOK, call # <<>>, call' = Tail(call)
  PROVE  /\ call[1] \in Frame
         /\ \A f : Pending(f) => f = call[1] \/ Pending(f)'
         /\ \E new \in Seq(Frame) : call' = new \o Tail(call)
<1>1. call[1] \in Frame /\ call' \in Seq(Frame)
  BY TailKeeps DEF TypeOK
<1>2. \A f : Pending(f) => f = call[1] \/ Pending(f)'
  BY TailKeeps DEF TypeOK, Pending
<1>3. <<>> \in Seq(Frame) /\ call' = <<>> \o Tail(call)
  BY <1>1, EmptySeq, ConcatEmptySeq
<1> QED BY <1>1, <1>2, <1>3

(* The frame on top ends, and what it calls comes before the rest. *)
LEMMA RunCallShape ==
  ASSUME TypeOK, RunCall
  PROVE  /\ call # <<>>
         /\ \E new \in Seq(Frame) : call' = new \o Tail(call)
<1>1. CASE CheckExchange \/ RequeueUnacked \/ ListenerReturns \/ Discard
  <2>1. call # <<>> /\ call' = Tail(call)
    BY <1>1 DEF CheckExchange, RequeueUnacked, ListenerReturns, Discard, Idle, Pop
  <2> QED BY <2>1, PopPending
<1>2. CASE CheckQueue
  <2>1. PICK q \in Queues :
          /\ call # <<>> /\ Tail(call) \in Seq(Frame)
          /\ DropQueue(q, "discard", Tail(call)) \/ call' = Tail(call)
    BY <1>2, CheckQueueCases
  <2>2. CASE call' = Tail(call)
    BY <2>1, <2>2, PopPending
  <2>3. CASE DropQueue(q, "discard", Tail(call))
    BY <2>1, <2>3, DropQueueFrames
  <2> QED BY <2>1, <2>2, <2>3
<1>3. CASE CloseChannel
  <2> DEFINE c == Top.name
             lost == {consumer[t].queue : t \in OnNumber(c)}
  <2>1. call # <<>> /\ call[1] \in Frame /\ Tail(call) \in Seq(Frame)
    BY <1>3, TailKeeps DEF CloseChannel, Idle, TypeOK
  <2>2. c \in Channels
    BY <1>3, <2>1 DEF CloseChannel, Top, Frame
  <2>3. lost \subseteq Queues
    BY DEF OnNumber, Consumer, TypeOK
  <2>4. PICK s \in Orders(lost) :
          call' = [i \in DOMAIN s |-> Recount(s[i])]
                    \o <<[do |-> "requeue", name |-> c]>> \o Tail(call)
    BY <1>3 DEF CloseChannel
  <2> DEFINE counts == [i \in DOMAIN s |-> Recount(s[i])]
             last == <<[do |-> "requeue", name |-> c]>>
  <2>5. counts \in Seq(Frame) /\ last \in Seq(Frame)
    BY <2>2, <2>3, RecountsOK DEF Frame
  <2> HIDE DEF counts, last
  <2>6. counts \o last \in Seq(Frame)
    BY <2>5, ConcatKeeps
  <2>7. call' = (counts \o last) \o Tail(call)
    BY <2>4 DEF counts, last
  <2> QED BY <2>1, <2>6, <2>7
<1>4. CASE CancelConsumer
  <2>1. call # <<>> /\ Tail(call) \in Seq(Frame)
    BY <1>4, TailKeeps DEF CancelConsumer, Idle, TypeOK
  <2>2. CASE call' = Tail(call)
    BY <2>1, <2>2, PopPending
  <2>3. CASE Top.name \in DOMAIN consumer
             /\ call' = <<Listener(consumer[Top.name].channel)>> \o Tail(call)
    <3>1. consumer[Top.name].channel \in Channels
      BY <2>3 DEF TypeOK, Consumer
    <3>2. <<Listener(consumer[Top.name].channel)>> \in Seq(Frame)
      BY <3>1 DEF Listener, Frame
    <3> QED BY <2>1, <2>3, <3>2
  <2> QED BY <1>4, <2>2, <2>3 DEF CancelConsumer, Pop
<1> QED BY <1>1, <1>2, <1>3, <1>4 DEF RunCall

(* Every other step starts a call, or is taken by a listener within one. *)
LEMMA CallStarts ==
  ASSUME TypeOK, [Next]_vars, ~RunCall
  PROVE  call = <<>> \/ call' = call
<1>1. CASE UNCHANGED vars
  BY <1>1 DEF vars
<1>2. ASSUME NEW c \in Channels, ExchangeNext(c) \/ QueueNext(c) \/ Close(c)
      PROVE  call = <<>> \/ call' = call
  BY <1>2 DEF ExchangeNext, Close, DeclareExchange, DeleteExchange, BindQueue, UnbindQueue,
              BindExchange, UnbindExchange, QueueNext, DeclareQueue, DeleteQueue,
              PurgeQueue, Publish, Get, Answer, Consume, Cancel, Calls, Idle
<1>3. ASSUME NEW q \in Queues, ExpireQueue(q)
      PROVE  call = <<>>
  BY <1>3 DEF ExpireQueue, Idle
<1>4. ASSUME NEW conn \in Connections,
             CloseConnection(conn) \/ AwaitedClose(conn) \/ DeleteExclusiveQueues(conn)
      PROVE  call = <<>>
  BY <1>4 DEF CloseConnection, AwaitedClose, DeleteExclusiveQueues, Idle
<1> QED BY <1>1, <1>2, <1>3, <1>4 DEF Next

(* A frame that is pending stays so until it is on top and run. *)
LEMMA PendingKept ==
  ASSUME TypeOK, [Next]_vars, NEW f, Pending(f)
  PROVE  Pending(f)' \/ (RunCall /\ call # <<>> /\ f = call[1])
<1>1. CASE RunCall
  <2>1. call # <<>> /\ \E new \in Seq(Frame) : call' = new \o Tail(call)
    BY <1>1, RunCallShape
  <2>2. Pending(f) => f = call[1] \/ Pending(f)'
    BY <2>1, TailPending
  <2> QED BY <1>1, <2>1, <2>2
<1>2. CASE ~RunCall
  <2>1. call # <<>>
    BY DEF Pending, Appears
  <2>2. call' = call
    BY <1>2, <2>1, CallStarts
  <2> QED BY <2>2 DEF Pending
<1> QED BY <1>1, <1>2

(* An action that changes the queues or their timers. *)
LEMMA QueueSteps ==
  ASSUME TypeOK, [Next]_vars
  PROVE  \/ UNCHANGED <<queue, timers, owned, closed, untimed>>
         \/ \E c \in open, q \in Queues, o \in QueueOptions : DeclareQueue(c, q, o)
         \/ \E q \in Queues, end \in {"discard", "discardStore"}, rest \in Seq(Frame) :
              /\ q \in DOMAIN queue /\ (queue[q].options.exclusive => May("deleteExclusive"))
              /\ DropQueue(q, end, rest)
              /\ timers' = IF end = "discard" THEN timers ELSE timers \ {q}
         \/ \E q \in Queues : /\ q \in DOMAIN queue => LockedFor(q, {})
                              /\ timers' = timers \ {q}
                              /\ UNCHANGED <<queue, owned, closed, bindings, exchange, untimed>>
         \/ \E q \in Queues, n \in Nat :
              /\ queue' = CountSet(q, n)
              /\ UNCHANGED <<timers, owned, closed, bindings, exchange, untimed>>
         \/ \E conn \in Connections : DeleteExclusiveQueues(conn)
         \/ Discard
<1> USE DEF registryVars, queueVars, connectionVars, messageVars
<1>0. CASE UNCHANGED vars
  BY <1>0 DEF vars
<1>1. CASE CheckExchange \/ CloseChannel \/ RequeueUnacked \/ CancelConsumer \/ ListenerReturns
  BY <1>1 DEF CheckExchange, CloseChannel, RequeueUnacked, CancelConsumer, ListenerReturns
<1>2. CASE CheckQueue
  BY <1>2, CheckQueueCases DEF LockedFor
<1>3. ASSUME NEW c \in Channels, ExchangeNext(c) \/ Close(c)
      PROVE  UNCHANGED <<queue, timers, owned, closed, untimed>>
  BY <1>3 DEF ExchangeNext, Close, DeclareExchange, DeleteExchange, BindQueue, UnbindQueue,
              BindExchange, UnbindExchange
<1>4. ASSUME NEW c \in Channels, NEW q \in Queues, NEW o \in QueueOptions, DeclareQueue(c, q, o)
      PROVE  c \in open
  BY <1>4 DEF DeclareQueue, Restores
<1>5. ASSUME NEW c \in Channels, NEW q \in Queues, NEW ifUnused \in BOOLEAN, NEW ifEmpty \in BOOLEAN,
             DeleteQueue(c, q, ifUnused, ifEmpty)
      PROVE  /\ q \in DOMAIN queue /\ (queue[q].options.exclusive => May("deleteExclusive"))
             /\ DropQueue(q, "discard", <<>>) /\ <<>> \in Seq(Frame) /\ timers' = timers
  BY <1>5 DEF DeleteQueue
<1>6. ASSUME NEW c \in Channels, NEW q \in Queues, NEW t \in Tags, Consume(c, q, t)
      PROVE  \E n \in Nat : /\ queue' = CountSet(q, n)
                            /\ UNCHANGED <<timers, owned, closed, bindings, exchange, untimed>>
  <2> DEFINE C == With(consumer, t, [queue |-> q, channel |-> c])
  <2>1. DOMAIN C \subseteq Tags
    BY DEF With, TypeOK
  <2>2. /\ queue' = CountSet(q, Counted(q, C))
        /\ UNCHANGED <<timers, owned, closed, bindings, exchange, untimed>>
    BY <1>6 DEF Consume
  <2>3. Counted(q, C) \in Nat
    BY <2>1, CountedIsNat
  <2> QED BY <2>2, <2>3
<1>7. ASSUME NEW c \in Channels, QueueNext(c),
             ~ \E q \in Queues, o \in QueueOptions : DeclareQueue(c, q, o),
             ~ \E q \in Queues, ifUnused, ifEmpty \in BOOLEAN : DeleteQueue(c, q, ifUnused, ifEmpty),
             ~ \E q \in Queues, t \in Tags : Consume(c, q, t)
      PROVE  UNCHANGED <<queue, timers, owned, closed, untimed>>
  BY <1>7 DEF QueueNext, PurgeQueue, Publish, Get, Answer, Cancel
<1>8. ASSUME NEW q \in Queues, ExpireQueue(q)
      PROVE  \/ /\ q \in DOMAIN queue /\ ~queue[q].options.exclusive
                /\ DropQueue(q, "discardStore", <<>>) /\ <<>> \in Seq(Frame)
                /\ timers' = timers \ {q}
             \/ /\ q \in DOMAIN queue => LockedFor(q, {})
                /\ timers' = timers \ {q}
                /\ UNCHANGED <<queue, owned, closed, bindings, exchange, untimed>>
  BY <1>8 DEF ExpireQueue, LockedFor
<1>9. ASSUME NEW conn \in Connections, CloseConnection(conn) \/ AwaitedClose(conn)
      PROVE  UNCHANGED <<queue, timers, owned, closed, untimed>>
  BY <1>9 DEF CloseConnection, AwaitedClose
<1>10. \/ \E c \in Channels : QueueNext(c) \/ ExchangeNext(c) \/ Close(c)
       \/ UNCHANGED vars \/ CheckExchange \/ CloseChannel \/ RequeueUnacked \/ CheckQueue
       \/ CancelConsumer \/ ListenerReturns \/ Discard
       \/ \E q \in Queues : ExpireQueue(q)
       \/ \E conn \in Connections :
            CloseConnection(conn) \/ AwaitedClose(conn) \/ DeleteExclusiveQueues(conn)
  BY DEF Next, RunCall
<1> QED
  BY <1>0, <1>1, <1>2, <1>3, <1>4, <1>5, <1>6, <1>7, <1>8, <1>9, <1>10

-----------------------------------------------------------------------------
(* Timers *)

(* A deletion that will stop the timer of q is under way. *)
StopsTimer(q) == [do |-> "discard", name |-> q]

(* Between calls TimersMatchQueues; within one, a timer may also wait for the
   deletion to stop it. *)
TimersInv ==
  /\ \A q \in timers : (q \in DOMAIN queue /\ queue[q].options.expires) \/ Pending(StopsTimer(q))
  /\ \A q \in DOMAIN queue \ untimed :
       queue[q].options.expires /\ ~queue[q].options.exclusive => q \in timers

LEMMA StopsKept ==
  ASSUME TypeOK, [Next]_vars, ~Discard, NEW q, Pending(StopsTimer(q))
  PROVE  Pending(StopsTimer(q))'
<1>1. ASSUME RunCall, call # <<>>, call[1] = StopsTimer(q)
      PROVE  FALSE
  <2>1. Top.do = "discard"
    BY <1>1 DEF Top, StopsTimer
  <2> QED BY <1>1, <2>1 DEF RunCall, CheckExchange, CheckQueue, CloseChannel, RequeueUnacked,
                            CancelConsumer, ListenerReturns
<1> QED BY <1>1, PendingKept

LEMMA TimersStep == TypeOK /\ TimersInv /\ [Next]_vars => TimersInv'
<1> SUFFICES ASSUME TypeOK, TimersInv, [Next]_vars PROVE TimersInv'
  OBVIOUS
<1>0. CASE Discard
  <2>1. /\ call # <<>> /\ call' = Tail(call)
        /\ UNCHANGED queue
        /\ timers' = timers \/ (Top.do = "discard" /\ timers' = timers \ {Top.name})
        /\ untimed' = untimed \cup (DOMAIN queue \cap (timers \ timers'))
    BY <1>0 DEF Discard, Idle, Pop, TimersWithout
  <2>2. \A f : Pending(f) => f = call[1] \/ Pending(f)'
    BY <2>1, PopPending
  <2>3. Top.do = "discard" => timers' = timers \ {Top.name}
    BY <1>0 DEF Discard, TimersWithout
  <2>4. ASSUME NEW q \in timers', Pending(StopsTimer(q))
        PROVE  Pending(StopsTimer(q))'
    <3>1. StopsTimer(q) # call[1]
      BY <2>3, <2>4 DEF StopsTimer, Top
    <3> QED BY <2>2, <2>4, <3>1
  <2> QED BY <2>1, <2>4 DEF TimersInv
<1>10. CASE ~Discard
  <2>0. \A q : Pending(StopsTimer(q)) => Pending(StopsTimer(q))'
    BY <1>10, StopsKept
  <2>1. CASE UNCHANGED <<queue, timers, owned, closed, untimed>>
    BY <2>0, <2>1 DEF TimersInv
  <2>2. ASSUME NEW c \in open, NEW q \in Queues, NEW o \in QueueOptions, DeclareQueue(c, q, o)
        PROVE  TimersInv'
    <3>1. /\ DOMAIN queue' = DOMAIN queue \cup {q}
          /\ \A r \in DOMAIN queue : queue'[r] = queue[r]
          /\ queue'[q].options = o
      BY <2>2 DEF DeclareQueue, With
    <3>2. /\ timers' = IF o.expires THEN timers \cup {q} ELSE timers
          /\ untimed' = untimed \ {q}
      BY <2>2 DEF DeclareQueue
    <3> QED BY <2>0, <3>1, <3>2 DEF TimersInv
  <2>3. ASSUME NEW q \in Queues, NEW end \in {"discard", "discardStore"}, NEW rest \in Seq(Frame),
               q \in DOMAIN queue, DropQueue(q, end, rest),
               timers' = IF end = "discard" THEN timers ELSE timers \ {q}
        PROVE  TimersInv'
    <3>1. end = "discard" => Pending(StopsTimer(q))'
      <4>1. Appears([do |-> end, name |-> q], call')
        BY <2>3, DropQueueFrames
      <4>2. end = "discard" => StopsTimer(q) = [do |-> end, name |-> q]
        BY DEF StopsTimer
      <4>3. end = "discard" => Appears(StopsTimer(q), call')
        BY <4>1, <4>2
      <4> QED BY <4>3 DEF Pending, Appears
    <3>2. queue' = Without(queue, {q}) /\ untimed' = untimed \ {q}
      BY <2>3 DEF DropQueue
    <3> QED BY <2>0, <2>3, <3>1, <3>2 DEF TimersInv, Without
  <2>4. ASSUME NEW q \in Queues, q \in DOMAIN queue => LockedFor(q, {}), timers' = timers \ {q},
               UNCHANGED <<queue, owned, closed, bindings, exchange, untimed>>
        PROVE  TimersInv'
    BY <2>0, <2>4 DEF TimersInv, LockedFor
  <2>5. ASSUME NEW q \in Queues, NEW n \in Nat, queue' = CountSet(q, n),
               UNCHANGED <<timers, owned, closed, bindings, exchange, untimed>>
        PROVE  TimersInv'
    BY <2>0, <2>5, CountSetKeeps DEF TimersInv
  <2>6. ASSUME NEW conn \in Connections, DeleteExclusiveQueues(conn)
        PROVE  TimersInv'
    <3>1. /\ DOMAIN queue' = DOMAIN queue \ DeletedOnClose(conn)
          /\ \A q \in DOMAIN queue' : queue'[q] = queue[q]
          /\ timers' = timers \ owned[conn]
          /\ untimed' = untimed \ DeletedOnClose(conn)
      BY <2>6 DEF DeleteExclusiveQueues, Without
    <3>2. DeletedOnClose(conn) \subseteq owned[conn]
      BY DEF DeletedOnClose
    <3>3. \A q \in owned[conn] \cap DOMAIN queue :
             ~queue[q].options.exclusive => q \in DeletedOnClose(conn)
      BY DEF DeletedOnClose, LockedFor
    <3> QED BY <2>0, <3>1, <3>2, <3>3 DEF TimersInv
  <2> QED BY <1>10, <2>1, <2>2, <2>3, <2>4, <2>5, <2>6, QueueSteps
<1> QED BY <1>0, <1>10

(* Between calls a running timer belongs to a queue with x-expires, and every
   such queue that is not exclusive, nor declared in the middle of the deletion
   of its namesake, has one: no stale timer ever deletes a later namesake. *)
THEOREM TimersCorrect == Spec => []TimersMatchQueues
<1>1. Init => TimersInv
  BY DEF Init, TimersInv
<1>2. TimersInv => TimersMatchQueues
  BY DEF TimersInv, TimersMatchQueues, Idle, Pending, Appears
<1> QED BY <1>1, <1>2, TimersStep, TopologyTypes, PTL DEF Spec

-----------------------------------------------------------------------------
(* Exclusive queues *)

(* A connection that is closed has no open channel to declare anything with. *)
ClosedIsQuiet == \A conn \in closed, c \in open : ConnOf[c] # conn

LEMMA ClosedStep == TypeOK /\ ClosedIsQuiet /\ [Next]_vars => ClosedIsQuiet'
<1> SUFFICES ASSUME TypeOK, ClosedIsQuiet, [Next]_vars PROVE ClosedIsQuiet'
  OBVIOUS
<1> USE DEF connectionVars
<1>1. CASE UNCHANGED <<open, closed>>
  BY <1>1 DEF ClosedIsQuiet
<1>2. CASE CloseChannel
  BY <1>2 DEF ClosedIsQuiet, CloseChannel
<1>3. ASSUME NEW conn \in Connections, DeleteExclusiveQueues(conn)
      PROVE  ClosedIsQuiet'
  BY <1>3 DEF ClosedIsQuiet, DeleteExclusiveQueues
<1>4. CASE UNCHANGED vars \/ CheckExchange \/ CheckQueue \/ RequeueUnacked
  BY <1>1, <1>4 DEF vars, CheckExchange, CheckQueue, RequeueUnacked, DropQueue
<1>8. CASE CancelConsumer \/ ListenerReturns \/ Discard
  BY <1>1, <1>8 DEF CancelConsumer, ListenerReturns, Discard
<1>5. ASSUME NEW c \in Channels, ExchangeNext(c) \/ QueueNext(c) \/ Close(c)
      PROVE  UNCHANGED <<open, closed>>
  BY <1>5 DEF ExchangeNext, Close, DeclareExchange, DeleteExchange, BindQueue, UnbindQueue,
              BindExchange, UnbindExchange, QueueNext, DeclareQueue, DeleteQueue, DropQueue,
              PurgeQueue, Publish, Get, Answer, Consume, Cancel
<1>6. ASSUME NEW q \in Queues, ExpireQueue(q)
      PROVE  UNCHANGED <<open, closed>>
  BY <1>6 DEF ExpireQueue, DropQueue
<1>7. ASSUME NEW conn \in Connections, CloseConnection(conn) \/ AwaitedClose(conn)
      PROVE  UNCHANGED <<open, closed>>
  BY <1>7 DEF CloseConnection, AwaitedClose
<1> QED BY <1>1, <1>2, <1>3, <1>4, <1>5, <1>6, <1>7, <1>8 DEF Next, RunCall

LEMMA OwnedStep ==
  TypeOK /\ ClosedIsQuiet /\ ExclusiveQueuesOwned /\ [Next]_vars => ExclusiveQueuesOwned'
<1> SUFFICES ASSUME TypeOK, ClosedIsQuiet, ExclusiveQueuesOwned, [Next]_vars
             PROVE  ExclusiveQueuesOwned'
  OBVIOUS
<1>0. owned \in [Connections -> SUBSET Queues] /\ queue \in [DOMAIN queue -> Entry]
  BY DEF TypeOK
<1>1. CASE UNCHANGED <<queue, timers, owned, closed, untimed>>
  BY <1>1 DEF ExclusiveQueuesOwned
<1>2. ASSUME NEW c \in open, NEW q \in Queues, NEW o \in QueueOptions, DeclareQueue(c, q, o)
      PROVE  ExclusiveQueuesOwned'
  <2>1. ConnOf[c] \in Connections /\ ConnOf[c] \notin closed /\ closed' = closed
    BY <1>2, TopologyAssumption DEF ClosedIsQuiet, TypeOK, DeclareQueue, connectionVars
  <2>2. \A conn \in Connections : owned[conn] \subseteq owned'[conn]
    BY <1>0, <1>2, <2>1 DEF DeclareQueue
  <2>3. ASSUME NEW r \in DOMAIN queue', queue'[r].options.exclusive
        PROVE  \E conn \in Connections \ closed' : IdOf[conn] = queue'[r].owner /\ r \in owned'[conn]
    <3>1. CASE r \in DOMAIN queue
      <4>1. queue'[r] = queue[r]
        BY <1>0, <1>2, <3>1 DEF DeclareQueue, With
      <4>2. PICK conn \in Connections \ closed : IdOf[conn] = queue[r].owner /\ r \in owned[conn]
        BY <2>3, <3>1, <4>1 DEF ExclusiveQueuesOwned
      <4> QED BY <2>1, <2>2, <4>1, <4>2
    <3>2. CASE r \notin DOMAIN queue
      <4>1. r = q /\ queue'[r].owner = IdOf[ConnOf[c]] /\ queue'[r].options = o
        BY <1>2, <3>2 DEF DeclareQueue, With, Id
      <4>2. q \in owned'[ConnOf[c]]
        BY <1>0, <1>2, <2>1, <2>3, <4>1 DEF DeclareQueue
      <4> QED BY <2>1, <4>1, <4>2
    <3> QED BY <3>1, <3>2
  <2> QED BY <2>3 DEF ExclusiveQueuesOwned
<1>3. ASSUME NEW q \in Queues, NEW end, NEW rest, DropQueue(q, end, rest)
      PROVE  ExclusiveQueuesOwned'
  BY <1>3 DEF ExclusiveQueuesOwned, DropQueue, Without, connectionVars
<1>4. CASE UNCHANGED <<queue, owned, closed>>
  BY <1>4 DEF ExclusiveQueuesOwned
<1>5. ASSUME NEW q \in Queues, NEW n \in Nat, queue' = CountSet(q, n),
             UNCHANGED <<timers, owned, closed, bindings, exchange, untimed>>
      PROVE  ExclusiveQueuesOwned'
  BY <1>5, CountSetKeeps DEF ExclusiveQueuesOwned
<1>6. ASSUME NEW conn \in Connections, DeleteExclusiveQueues(conn)
      PROVE  ExclusiveQueuesOwned'
  <2>1. /\ DOMAIN queue' = DOMAIN queue \ DeletedOnClose(conn)
        /\ \A q \in DOMAIN queue' : queue'[q] = queue[q]
        /\ owned' = [owned EXCEPT ![conn] = {}]
        /\ closed' = closed \cup {conn}
    BY <1>6 DEF DeleteExclusiveQueues, Without
  <2>2. ASSUME NEW r \in DOMAIN queue', queue'[r].options.exclusive
        PROVE  \E k \in Connections \ closed' : IdOf[k] = queue'[r].owner /\ r \in owned'[k]
    <3>1. r \in DOMAIN queue /\ queue'[r] = queue[r]
      BY <2>1
    <3>2. PICK k \in Connections \ closed : IdOf[k] = queue[r].owner /\ r \in owned[k]
      BY <2>2, <3>1 DEF ExclusiveQueuesOwned
    <3>3. k # conn
      BY <2>1, <3>1, <3>2 DEF DeletedOnClose, LockedFor
    <3> QED BY <1>0, <2>1, <3>1, <3>2, <3>3
  <2> QED BY <2>2 DEF ExclusiveQueuesOwned
<1>7. CASE Discard
  BY <1>7, <1>4 DEF Discard, connectionVars
<1> QED BY <1>1, <1>2, <1>3, <1>4, <1>5, <1>6, <1>7, QueueSteps

(* An exclusive queue is on the list of a connection with its owner's id that
   is not closed: none outlives its connection, whatever happened to its name
   meanwhile. *)
THEOREM ExclusiveQueuesDie == Spec => []ExclusiveQueuesOwned
<1>1. Init => ClosedIsQuiet /\ ExclusiveQueuesOwned
  BY DEF Init, ClosedIsQuiet, ExclusiveQueuesOwned
<1> QED BY <1>1, ClosedStep, OwnedStep, TopologyTypes, PTL DEF Spec

-----------------------------------------------------------------------------
(* Bindings *)

LEMMA RemoveExchangeBindings ==
  ASSUME NoDanglingBindings, NEW e, RemoveExchange(e), UNCHANGED queue
  PROVE  NoDanglingBindings'
BY DEF NoDanglingBindings, RemoveExchange, RemovedExchangeBindings, Without

LEMMA DropQueueBindings ==
  ASSUME NoDanglingBindings, NEW q, NEW end, NEW rest, DropQueue(q, end, rest)
  PROVE  NoDanglingBindings'
BY DEF NoDanglingBindings, DropQueue, BindingsOf, Without

LEMMA BindingsStep == TypeOK /\ NoDanglingBindings /\ [Next]_vars => NoDanglingBindings'
<1> SUFFICES ASSUME TypeOK, NoDanglingBindings, [Next]_vars PROVE NoDanglingBindings'
  OBVIOUS
<1> USE DEF registryVars, queueVars
<1>1. CASE UNCHANGED <<exchange, queue, bindings, e2e>>
  BY <1>1 DEF NoDanglingBindings
<1>2. CASE CheckExchange
  BY <1>2, <1>1, RemoveExchangeBindings DEF CheckExchange
<1>3. CASE CheckQueue
  BY <1>3, CheckQueueCases, CountSetKeeps, DropQueueBindings DEF NoDanglingBindings
<1>4. ASSUME NEW c \in Channels, ExchangeNext(c)
      PROVE  NoDanglingBindings'
  <2>1. ASSUME NEW e \in Exchanges, NEW autoDelete \in ExchangeOptions, DeclareExchange(c, e, autoDelete)
        PROVE  NoDanglingBindings'
    BY <2>1 DEF DeclareExchange, With, NoDanglingBindings
  <2>2. ASSUME NEW e \in Exchanges, NEW ifUnused \in BOOLEAN, DeleteExchange(c, e, ifUnused)
        PROVE  NoDanglingBindings'
    BY <2>2, RemoveExchangeBindings DEF DeleteExchange
  <2>3. ASSUME NEW q \in Queues, NEW e \in Exchanges, NEW k \in Keys,
               BindQueue(c, q, e, k) \/ UnbindQueue(c, q, e, k)
        PROVE  NoDanglingBindings'
    BY <2>3 DEF BindQueue, UnbindQueue, NoDanglingBindings
  <2>4. ASSUME NEW s \in Exchanges, NEW d \in Exchanges, NEW k \in Keys,
               BindExchange(c, s, d, k) \/ UnbindExchange(c, s, d, k)
        PROVE  NoDanglingBindings'
    BY <2>4 DEF BindExchange, UnbindExchange, NoDanglingBindings
  <2> QED BY <1>4, <2>1, <2>2, <2>3, <2>4 DEF ExchangeNext
<1>5. ASSUME NEW c \in Channels, QueueNext(c)
      PROVE  NoDanglingBindings'
  <2>1. ASSUME NEW q \in Queues, NEW o \in QueueOptions, DeclareQueue(c, q, o)
        PROVE  NoDanglingBindings'
    BY <2>1 DEF DeclareQueue, With, NoDanglingBindings
  <2>2. ASSUME NEW q \in Queues, NEW ifUnused \in BOOLEAN, NEW ifEmpty \in BOOLEAN,
               DeleteQueue(c, q, ifUnused, ifEmpty)
        PROVE  NoDanglingBindings'
    BY <2>2, DropQueueBindings DEF DeleteQueue
  <2>3. ASSUME NEW q \in Queues, NEW t \in Tags, Consume(c, q, t)
        PROVE  NoDanglingBindings'
    <3>1. /\ UNCHANGED <<exchange, bindings, e2e>>
          /\ queue' = CountSet(q, Counted(q, With(consumer, t, [queue |-> q, channel |-> c])))
      BY <2>3 DEF Consume
    <3>2. queue \in [DOMAIN queue -> Entry]
      BY DEF TypeOK
    <3>3. DOMAIN queue' = DOMAIN queue
      BY <3>1, <3>2 DEF CountSet
    <3> QED BY <3>1, <3>3 DEF NoDanglingBindings
  <2>4. ASSUME NEW q \in Queues,
               \/ PurgeQueue(c, q) \/ Publish(c, q)
               \/ \E noAck \in BOOLEAN : Get(c, q, noAck)
               \/ \E requeue \in BOOLEAN : Answer(c, q, requeue)
        PROVE  NoDanglingBindings'
    BY <1>1, <2>4 DEF PurgeQueue, Publish, Get, Answer
  <2>5. ASSUME NEW t \in Tags, Cancel(c, t)
        PROVE  NoDanglingBindings'
    BY <1>1, <2>5 DEF Cancel
  <2> QED BY <1>5, <2>1, <2>2, <2>3, <2>4, <2>5 DEF QueueNext
<1>6. ASSUME NEW q \in Queues, ExpireQueue(q)
      PROVE  NoDanglingBindings'
  BY <1>1, <1>6, DropQueueBindings DEF ExpireQueue
<1>7. ASSUME NEW conn \in Connections, DeleteExclusiveQueues(conn)
      PROVE  NoDanglingBindings'
  BY <1>7 DEF DeleteExclusiveQueues, Without, NoDanglingBindings
<1>8. CASE UNCHANGED vars \/ CloseChannel \/ RequeueUnacked
  BY <1>1, <1>8 DEF vars, CloseChannel, RequeueUnacked
<1>11. CASE CancelConsumer \/ ListenerReturns \/ Discard
  BY <1>1, <1>11 DEF CancelConsumer, ListenerReturns, Discard
<1>9. ASSUME NEW c \in Channels, Close(c)
      PROVE  NoDanglingBindings'
  BY <1>1, <1>9 DEF Close
<1>10. ASSUME NEW conn \in Connections, CloseConnection(conn) \/ AwaitedClose(conn)
       PROVE  NoDanglingBindings'
  BY <1>1, <1>10 DEF CloseConnection, AwaitedClose
<1> QED
  BY <1>2, <1>3, <1>4, <1>5, <1>6, <1>7, <1>8, <1>9, <1>10, <1>11 DEF Next, RunCall

(* Every binding joins things that exist, in every reachable state. *)
THEOREM BindingsCorrect == Spec => []NoDanglingBindings
<1>1. Init => NoDanglingBindings
  BY DEF Init, NoDanglingBindings
<1> QED BY <1>1, BindingsStep, TopologyTypes, PTL DEF Spec

-----------------------------------------------------------------------------
(* Frames *)

Kinds(s) == {s[i].do : i \in DOMAIN s}

(* No consumer is to be cancelled twice. *)
Once(s) == \A i, j \in DOMAIN s : s[i].do = "cancel" /\ s[i] = s[j] => i = j

LEMMA TailOnly ==
  ASSUME NEW s \in Seq(Frame), s # <<>>
  PROVE  /\ Kinds(Tail(s)) \subseteq Kinds(s)
         /\ \A f : Appears(f, Tail(s)) => Appears(f, s)
         /\ Once(s) => Once(Tail(s)) /\ (s[1].do = "cancel" => ~Appears(s[1], Tail(s)))
<1>1. \A i \in DOMAIN Tail(s) :
        i \in Nat /\ i + 1 \in DOMAIN s /\ i + 1 # 1 /\ 1 \in DOMAIN s /\ Tail(s)[i] = s[i + 1]
  BY HeadTailProperties
<1>2. Kinds(Tail(s)) \subseteq Kinds(s)
  BY <1>1 DEF Kinds
<1>3. ASSUME NEW f, Appears(f, Tail(s))
      PROVE  Appears(f, s)
  BY <1>1, <1>3 DEF Appears
<1>4. ASSUME Once(s), NEW i \in DOMAIN Tail(s), NEW j \in DOMAIN Tail(s),
             Tail(s)[i].do = "cancel", Tail(s)[i] = Tail(s)[j]
      PROVE  i = j
  <2>1. i + 1 = j + 1
    BY <1>1, <1>4 DEF Once
  <2> QED BY <1>1, <2>1
<1>5. ASSUME Once(s), s[1].do = "cancel", Appears(s[1], Tail(s))
      PROVE  FALSE
  <2>1. PICK i \in DOMAIN Tail(s) : Tail(s)[i] = s[1]
    BY <1>5 DEF Appears
  <2> QED BY <1>1, <1>5, <2>1 DEF Once
<1> QED BY <1>2, <1>3, <1>4, <1>5 DEF Once

LEMMA ConcatOnly ==
  ASSUME NEW s \in Seq(Frame), NEW r \in Seq(Frame)
  PROVE  /\ s \o r \in Seq(Frame)
         /\ Kinds(s \o r) = Kinds(s) \cup Kinds(r)
         /\ \A f : Appears(f, s \o r) => Appears(f, s) \/ Appears(f, r)
         /\ Once(s) /\ "cancel" \notin Kinds(r) => Once(s \o r)
         /\ Once(r) /\ "cancel" \notin Kinds(s) => Once(s \o r)
<1>1. /\ s \o r \in Seq(Frame) /\ Len(s \o r) = Len(s) + Len(r)
      /\ \A i \in 1 .. Len(s) : (s \o r)[i] = s[i]
      /\ \A i \in 1 .. Len(r) : (s \o r)[Len(s) + i] = r[i]
  BY ConcatProperties
<1>2. \A i \in DOMAIN s : i \in DOMAIN (s \o r) /\ (s \o r)[i] = s[i]
  BY <1>1
<1>3. \A i \in DOMAIN r : Len(s) + i \in DOMAIN (s \o r) /\ (s \o r)[Len(s) + i] = r[i]
  BY <1>1
<1>4. \A i \in DOMAIN (s \o r) :
        \/ i \in DOMAIN s /\ (s \o r)[i] = s[i]
        \/ \E j \in DOMAIN r : i = Len(s) + j /\ (s \o r)[i] = r[j]
  <2> SUFFICES ASSUME NEW i \in DOMAIN (s \o r), i \notin DOMAIN s
               PROVE  \E j \in DOMAIN r : i = Len(s) + j /\ (s \o r)[i] = r[j]
    BY <1>2
  <2>1. i - Len(s) \in 1 .. Len(r) /\ i = Len(s) + (i - Len(s))
    BY <1>1
  <2> QED BY <1>1, <2>1
<1>5. Kinds(s \o r) = Kinds(s) \cup Kinds(r)
  <2>1. ASSUME NEW i \in DOMAIN (s \o r)
        PROVE  (s \o r)[i].do \in Kinds(s) \cup Kinds(r)
    BY <1>4 DEF Kinds
  <2>2. ASSUME NEW i \in DOMAIN s
        PROVE  s[i].do \in Kinds(s \o r)
    BY <1>2 DEF Kinds
  <2>3. ASSUME NEW i \in DOMAIN r
        PROVE  r[i].do \in Kinds(s \o r)
    BY <1>3 DEF Kinds
  <2> QED BY <2>1, <2>2, <2>3 DEF Kinds
<1>6. ASSUME NEW f, Appears(f, s \o r)
      PROVE  Appears(f, s) \/ Appears(f, r)
  BY <1>4, <1>6 DEF Appears
<1>7. ASSUME Once(s), "cancel" \notin Kinds(r)
      PROVE  Once(s \o r)
  BY <1>4, <1>7 DEF Once, Kinds
<1>8. ASSUME Once(r), "cancel" \notin Kinds(s)
      PROVE  Once(s \o r)
  BY <1>4, <1>8 DEF Once, Kinds
<1> QED BY <1>1, <1>5, <1>6, <1>7, <1>8

LEMMA KindsOfAppearing ==
  ASSUME NEW f, NEW s, Appears(f, s)
  PROVE  f.do \in Kinds(s)
BY DEF Appears, Kinds

LEMMA NoCancels ==
  ASSUME NEW s, "cancel" \notin Kinds(s)
  PROVE  Once(s) /\ \A t : ~Appears(ServerCancel(t), s)
BY KindsOfAppearing DEF Once, Kinds, ServerCancel

(* The cancellations of a set of consumers: theirs, and each once. *)
LEMMA CancelsOnly ==
  ASSUME NEW S \in SUBSET Tags, NEW cancels \in Cancels(S)
  PROVE  /\ Kinds(cancels) \subseteq {"cancel"} /\ Once(cancels)
         /\ \A t : Appears(ServerCancel(t), cancels) => t \in S
         /\ S = {} => cancels = <<>>
<1>1. IsFiniteSet(S)
  BY FS_Subset, TopologyAssumption
<1>2. PICK s \in Orders(S) : cancels = [i \in DOMAIN s |-> ServerCancel(s[i])]
  BY DEF Cancels
<1>3. Cardinality(S) \in Nat /\ s \in Surjection(1 .. Cardinality(S), S)
  BY <1>1, <1>2, FS_CardinalityType DEF Orders
<1>4. IsFiniteSet(1 .. Cardinality(S)) /\ Cardinality(1 .. Cardinality(S)) = Cardinality(S)
  BY <1>3, FS_Interval
<1>5. s \in Injection(1 .. Cardinality(S), S)
  BY <1>3, <1>4, FS_SurjSameCardinalityImpliesInj
<1>6. /\ DOMAIN s = 1 .. Cardinality(S) /\ \A i \in DOMAIN s : s[i] \in S
      /\ \A i, j \in DOMAIN s : s[i] = s[j] => i = j
  BY <1>5 DEF Injection, IsInjective
<1>7. /\ DOMAIN cancels = DOMAIN s
      /\ \A i \in DOMAIN s : cancels[i].do = "cancel" /\ cancels[i].name = s[i]
  BY <1>2 DEF ServerCancel
<1>8. Kinds(cancels) \subseteq {"cancel"}
  BY <1>7 DEF Kinds
<1>9. Once(cancels)
  BY <1>6, <1>7 DEF Once
<1>10. ASSUME NEW t, Appears(ServerCancel(t), cancels)
       PROVE  t \in S
  <2>1. ServerCancel(t).name = t
    BY DEF ServerCancel
  <2> QED BY <1>6, <1>7, <1>10, <2>1 DEF Appears
<1>11. ASSUME S = {}
       PROVE  cancels = <<>>
  <2>1. cancels \in Seq(Frame) /\ DOMAIN cancels = 1 .. 0
    BY <1>6, <1>7, <1>11, CancelsOK, FS_EmptySet
  <2> QED BY <2>1
<1> QED BY <1>8, <1>9, <1>10, <1>11

LEMMA ChecksOnly ==
  ASSUME NEW S \in SUBSET Exchanges, NEW checks \in Checks(S)
  PROVE  Kinds(checks) \subseteq {"exchange"}
BY DEF Checks, Kinds, Check

LEMMA SingleKind ==
  ASSUME NEW f \in Frame
  PROVE  <<f>> \in Seq(Frame) /\ Kinds(<<f>>) = {f.do}
BY DEF Kinds

-----------------------------------------------------------------------------
(* The steps that touch queues, consumers or what is to be done about them *)

(* The rest only ends a frame, or begins a call that cancels nobody. *)
Bystander ==
  /\ UNCHANGED <<queue, consumer, owned, open, miscounted>>
  /\ \/ call' = call
     \/ /\ call # <<>> /\ call' = Tail(call)
        /\ call[1].do \in {"exchange", "requeue", "listener", "discard", "discardStore"}
     \/ call = <<>> /\ call' \in Seq(Frame) /\ "cancel" \notin Kinds(call')

(* A client deletes a queue, or its timer does. *)
Deleted(q) ==
  /\ call = <<>> /\ q \in DOMAIN queue
  /\ queue[q].options.exclusive => May("deleteExclusive")
  /\ \E end \in {"discard", "discardStore"} : DropQueue(q, end, <<>>)

LEMMA LifecycleSteps ==
  ASSUME TypeOK, [Next]_vars
  PROVE  \/ Bystander
         \/ \E c \in Channels, q \in Queues, o \in QueueOptions : DeclareQueue(c, q, o)
         \/ \E c \in Channels, q \in Queues, t \in Tags : Consume(c, q, t)
         \/ \E c \in Channels, t \in Tags : Cancel(c, t)
         \/ CancelConsumer \/ CheckQueue \/ CloseChannel
         \/ \E q \in Queues : Deleted(q)
         \/ \E conn \in Connections : DeleteExclusiveQueues(conn)
<1> USE DEF registryVars, queueVars, connectionVars, messageVars
<1>0. call \in Seq(Frame)
  BY DEF TypeOK
<1>1. CASE UNCHANGED vars
  BY <1>1 DEF vars, Bystander
<1>2. CASE CheckExchange \/ RequeueUnacked \/ ListenerReturns \/ Discard
  BY <1>2 DEF CheckExchange, RequeueUnacked, ListenerReturns, Discard, Bystander, Idle, Top, Pop
<1>3. ASSUME NEW f \in Frame, f.do # "cancel", call = <<>>, call' = <<f>>,
             UNCHANGED <<queue, consumer, owned, open, miscounted>>
      PROVE  Bystander
  <2>1. call' \in Seq(Frame) /\ Kinds(call') = {f.do}
    BY <1>3, SingleKind
  <2> QED BY <1>3, <2>1 DEF Bystander
<1>4. ASSUME NEW c \in Channels, ExchangeNext(c)
      PROVE  Bystander
  <2>1. \A e \in Exchanges : Check(e) \in Frame /\ Check(e).do = "exchange"
    BY DEF Check, Frame
  <2>2. ASSUME NEW q \in Queues, NEW e \in Exchanges, NEW k \in Keys, UnbindQueue(c, q, e, k)
        PROVE  Bystander
    BY <1>3, <2>1, <2>2 DEF UnbindQueue, Calls, Idle
  <2>3. ASSUME NEW s \in Exchanges, NEW d \in Exchanges, NEW k \in Keys, UnbindExchange(c, s, d, k)
        PROVE  Bystander
    BY <1>3, <2>1, <2>3 DEF UnbindExchange, Calls, Idle
  <2>4. ASSUME \/ \E e \in Exchanges, autoDelete \in ExchangeOptions : DeclareExchange(c, e, autoDelete)
               \/ \E e \in Exchanges, ifUnused \in BOOLEAN : DeleteExchange(c, e, ifUnused)
               \/ \E q \in Queues, e \in Exchanges, k \in Keys : BindQueue(c, q, e, k)
               \/ \E s, d \in Exchanges, k \in Keys : BindExchange(c, s, d, k)
        PROVE  Bystander
    BY <2>4 DEF DeclareExchange, DeleteExchange, BindQueue, BindExchange, Bystander
  <2> QED BY <1>4, <2>2, <2>3, <2>4 DEF ExchangeNext
<1>5. \A c \in Channels : CloseFrame(c) \in Frame /\ CloseFrame(c).do = "close"
  BY DEF CloseFrame, Frame
<1>6. ASSUME NEW c \in Channels, Close(c)
      PROVE  Bystander
  BY <1>3, <1>5, <1>6 DEF Close, Calls, Idle
<1>7. ASSUME NEW conn \in Connections, CloseConnection(conn) \/ AwaitedClose(conn)
      PROVE  Bystander
  <2>1. NextToClose(conn) \subseteq Channels
    BY DEF NextToClose, TypeOK
  <2>2. /\ call = <<>> /\ UNCHANGED <<queue, consumer, owned, open, miscounted>>
        /\ call' = <<>> \/ \E c \in Channels : call' = <<CloseFrame(c)>>
    BY <1>7, <2>1 DEF CloseConnection, AwaitedClose, Idle
  <2>3. CASE call' = <<>>
    BY <2>2, <2>3 DEF Bystander
  <2> QED BY <1>3, <1>5, <2>2, <2>3
<1>8. ASSUME NEW c \in Channels, NEW q \in Queues,
             \/ \E ifUnused, ifEmpty \in BOOLEAN : DeleteQueue(c, q, ifUnused, ifEmpty)
      PROVE  Deleted(q)
  BY <1>8 DEF DeleteQueue, Deleted, Calls, Idle
<1>9. ASSUME NEW c \in Channels, NEW q \in Queues,
             \/ PurgeQueue(c, q) \/ Publish(c, q)
             \/ \E noAck \in BOOLEAN : Get(c, q, noAck)
             \/ \E requeue \in BOOLEAN : Answer(c, q, requeue)
      PROVE  Bystander
  BY <1>9 DEF PurgeQueue, Publish, Get, Answer, Bystander
<1>10. ASSUME NEW q \in Queues, ExpireQueue(q)
       PROVE  Deleted(q) \/ Bystander
  BY <1>10 DEF ExpireQueue, Deleted, Bystander, Idle, LockedFor
<1>11. ASSUME NEW c \in Channels, QueueNext(c)
       PROVE  \/ Bystander
              \/ \E q \in Queues, o \in QueueOptions : DeclareQueue(c, q, o)
              \/ \E q \in Queues, t \in Tags : Consume(c, q, t)
              \/ \E t \in Tags : Cancel(c, t)
              \/ \E q \in Queues : Deleted(q)
  BY <1>8, <1>9, <1>11 DEF QueueNext
<1> QED
  BY <1>1, <1>2, <1>4, <1>6, <1>7, <1>10, <1>11 DEF Next, RunCall

(* What a deletion puts on the stack, and nothing else. *)
LEMMA DropQueueOnly ==
  ASSUME TypeOK, NEW q \in Queues, NEW end \in {"discard", "discardStore"},
         NEW rest \in Seq(Frame), DropQueue(q, end, rest), "cancel" \notin Kinds(rest)
  PROVE  /\ Kinds(call') \subseteq {"cancel", end, "exchange"} \cup Kinds(rest)
         /\ Once(call')
         /\ \A t : Appears(ServerCancel(t), call') => t \in ConsumersOf(q)
         /\ ConsumersOf(q) = {} => "cancel" \notin Kinds(call')
<1>1. PICK cancels \in Cancels(ConsumersOf(q)), checks \in Checks(BoundExchanges(q)) :
        call' = cancels \o <<[do |-> end, name |-> q]>> \o checks \o rest
  BY DEF DropQueue
<1>2. BoundExchanges(q) \subseteq Exchanges /\ ConsumersOf(q) \subseteq Tags
  BY DEF BoundExchanges, BindingsOf, Binding, ConsumersOf, TypeOK
<1>3. cancels \in Seq(Frame) /\ checks \in Seq(Frame)
  BY <1>2, ChecksOK, CancelsOK
<1>4. /\ Kinds(cancels) \subseteq {"cancel"} /\ Once(cancels)
      /\ \A t : Appears(ServerCancel(t), cancels) => t \in ConsumersOf(q)
      /\ ConsumersOf(q) = {} => cancels = <<>>
  BY <1>2, CancelsOnly
<1>5. Kinds(checks) \subseteq {"exchange"}
  BY <1>2, ChecksOnly
<1> DEFINE last == <<[do |-> end, name |-> q]>>
           after == checks \o rest
           tail == last \o after
<1>6. last \in Seq(Frame) /\ Kinds(last) = {end}
  <2>1. [do |-> end, name |-> q] \in Frame
    BY DEF Frame
  <2> QED BY <2>1, SingleKind
<1>7. after \in Seq(Frame) /\ Kinds(after) = Kinds(checks) \cup Kinds(rest)
  BY <1>3, ConcatOnly
<1>8. tail \in Seq(Frame) /\ Kinds(tail) = Kinds(last) \cup Kinds(after)
  <2> HIDE DEF last, after
  <2> QED BY <1>6, <1>7, ConcatOnly
<1>9. call' = cancels \o tail
  BY <1>1, <1>3
<1> HIDE DEF last, after, tail
<1>10. "cancel" \notin Kinds(tail) /\ Kinds(tail) \subseteq {end, "exchange"} \cup Kinds(rest)
  BY <1>5, <1>6, <1>7, <1>8
<1>11. /\ Kinds(call') = Kinds(cancels) \cup Kinds(tail) /\ Once(call')
       /\ \A f : Appears(f, call') => Appears(f, cancels) \/ Appears(f, tail)
  BY <1>3, <1>4, <1>8, <1>9, <1>10, ConcatOnly
<1>12. ASSUME NEW t, Appears(ServerCancel(t), call')
       PROVE  t \in ConsumersOf(q)
  BY <1>4, <1>10, <1>11, <1>12, NoCancels
<1>13. ConsumersOf(q) = {} => Kinds(cancels) = {}
  BY <1>4 DEF Kinds
<1> QED BY <1>4, <1>10, <1>11, <1>12, <1>13

(* What the close of a channel puts on the stack. *)
LEMMA CloseChannelFrames ==
  ASSUME TypeOK, CloseChannel
  PROVE  LET c == Top.name
         IN  /\ call # <<>> /\ call[1] = CloseFrame(c) /\ c \in Channels
             /\ open' = open \ {c}
             /\ consumer' = Without(consumer, OnNumber(c))
             /\ UNCHANGED <<queue, owned, miscounted>>
             /\ "cancel" \notin Kinds(Tail(call)) => "cancel" \notin Kinds(call')
             /\ \A f : Appears(f, Tail(call)) => Appears(f, call')
             /\ \A t \in OnNumber(c) : Appears(Recount(consumer[t].queue), call')
<1> DEFINE c == Top.name
           lost == {consumer[t].queue : t \in OnNumber(c)}
<1>1. /\ call # <<>> /\ call[1] \in Frame /\ Top.do = "close" /\ Tail(call) \in Seq(Frame)
  BY TailKeeps DEF CloseChannel, Idle, TypeOK
<1>2. c \in Channels /\ call[1] = CloseFrame(c)
  BY <1>1 DEF Top, Frame, CloseFrame
<1>3. lost \subseteq Queues
  BY DEF OnNumber, Consumer, TypeOK
<1>4. PICK s \in Orders(lost) :
        call' = [i \in DOMAIN s |-> Recount(s[i])]
                  \o <<[do |-> "requeue", name |-> c]>> \o Tail(call)
  BY DEF CloseChannel
<1> DEFINE counts == [i \in DOMAIN s |-> Recount(s[i])]
           last == <<[do |-> "requeue", name |-> c]>>
           tail == last \o Tail(call)
<1>5. /\ counts \in Seq(Frame) /\ Kinds(counts) \subseteq {"queue"}
      /\ \A q \in lost : Appears(Recount(q), counts)
  <2>1. Kinds(counts) \subseteq {"queue"}
    BY DEF Kinds, Recount
  <2>2. /\ counts \in Seq(Frame)
        /\ \A q \in lost : \E i \in DOMAIN counts : counts[i] = Recount(q)
    BY <1>3, RecountsOK
  <2> QED BY <2>1, <2>2 DEF Appears
<1>6. last \in Seq(Frame) /\ Kinds(last) = {"requeue"}
  <2>1. [do |-> "requeue", name |-> c] \in Frame
    BY <1>2 DEF Frame
  <2>2. [do |-> "requeue", name |-> c].do = "requeue"
    OBVIOUS
  <2> QED BY <2>1, <2>2, SingleKind
<1>7. call' = counts \o tail
  <2>1. call' = counts \o last \o Tail(call)
    BY <1>4
  <2> HIDE DEF counts, last
  <2>2. /\ counts \in Seq(Frame) /\ last \in Seq(Frame) /\ Tail(call) \in Seq(Frame)
    BY <1>1, <1>5, <1>6
  <2>3. (counts \o last) \o Tail(call) = counts \o (last \o Tail(call))
    BY <2>2
  <2> QED BY <2>1, <2>3
<1>8. /\ tail \in Seq(Frame) /\ Kinds(tail) = {"requeue"} \cup Kinds(Tail(call))
      /\ \A f : Appears(f, Tail(call)) => Appears(f, tail)
  <2> HIDE DEF last
  <2> QED BY <1>1, <1>6, ConcatOnly, ConcatKeeps
<1> HIDE DEF counts, last, tail
<1>9. /\ Kinds(call') = Kinds(counts) \cup Kinds(tail)
      /\ \A f : Appears(f, counts) \/ Appears(f, tail) => Appears(f, call')
  BY <1>5, <1>7, <1>8, ConcatOnly, ConcatKeeps
<1>10. "cancel" \notin Kinds(Tail(call)) => "cancel" \notin Kinds(call')
  BY <1>5, <1>8, <1>9
<1>11. \A t \in OnNumber(c) : Appears(Recount(consumer[t].queue), call')
  BY <1>5, <1>9
<1>12. \A f : Appears(f, Tail(call)) => Appears(f, call')
  BY <1>8, <1>9
<1>13. /\ open' = open \ {c} /\ consumer' = Without(consumer, OnNumber(c))
       /\ UNCHANGED <<queue, owned, miscounted>>
  BY DEF CloseChannel, queueVars
<1> HIDE DEF c
<1> QED BY <1>1, <1>2, <1>10, <1>11, <1>12, <1>13 DEF c

(* What the cancellation of a consumer leaves on the stack. *)
LEMMA CancelConsumerFrames ==
  ASSUME TypeOK, CancelConsumer
  PROVE  LET t == Top.name
         IN  /\ call # <<>> /\ call[1] = ServerCancel(t)
             /\ consumer' = Without(consumer, {t})
             /\ UNCHANGED <<queue, owned, open>>
             /\ t \in DOMAIN consumer =>
                  miscounted' = miscounted \cup ({consumer[t].queue} \cap DOMAIN queue)
             /\ t \notin DOMAIN consumer => UNCHANGED miscounted
             /\ Kinds(call') \subseteq {"listener"} \cup Kinds(Tail(call))
             /\ Once(Tail(call)) => Once(call')
             /\ \A u : Appears(ServerCancel(u), call') => Appears(ServerCancel(u), Tail(call))
<1> DEFINE t == Top.name
<1>1. /\ call # <<>> /\ call[1] \in Frame /\ Top.do = "cancel" /\ Tail(call) \in Seq(Frame)
  BY TailKeeps DEF CancelConsumer, Idle, TypeOK
<1>2. call[1] = ServerCancel(t)
  BY <1>1 DEF Top, Frame, ServerCancel
<1>3. /\ consumer' = Without(consumer, {t}) /\ UNCHANGED <<queue, owned, open>>
      /\ t \in DOMAIN consumer =>
           miscounted' = miscounted \cup ({consumer[t].queue} \cap DOMAIN queue)
      /\ t \notin DOMAIN consumer => UNCHANGED miscounted
  BY DEF CancelConsumer, connectionVars
<1>4. \/ call' = Tail(call)
      \/ t \in DOMAIN consumer /\ call' = <<Listener(consumer[t].channel)>> \o Tail(call)
  BY DEF CancelConsumer, Pop
<1>5. /\ Kinds(call') \subseteq {"listener"} \cup Kinds(Tail(call))
      /\ Once(Tail(call)) => Once(call')
      /\ \A u : Appears(ServerCancel(u), call') => Appears(ServerCancel(u), Tail(call))
  <2>1. CASE t \in DOMAIN consumer /\ call' = <<Listener(consumer[t].channel)>> \o Tail(call)
    <3>1. Listener(consumer[t].channel) \in Frame /\ Listener(consumer[t].channel).do = "listener"
      BY <2>1 DEF Listener, Frame, TypeOK, Consumer
    <3> DEFINE first == <<Listener(consumer[t].channel)>>
    <3>2. first \in Seq(Frame) /\ Kinds(first) = {"listener"}
      BY <3>1, SingleKind
    <3> HIDE DEF first
    <3>3. call' = first \o Tail(call)
      BY <2>1 DEF first
    <3> QED BY <1>1, <3>2, <3>3, ConcatOnly, NoCancels
  <2> QED BY <1>4, <2>1
<1> HIDE DEF t
<1> QED BY <1>1, <1>2, <1>3, <1>5 DEF t

(* A queue that is checked is deleted only if it has no consumers. *)
LEMMA CheckedQueue ==
  ASSUME TypeOK, CheckQueue
  PROVE  \E q \in Queues :
           /\ call # <<>> /\ call[1] = Recount(q) /\ Tail(call) \in Seq(Frame)
           /\ Counted(q, consumer) \in Nat
           /\ \A f : Appears(f, call) => f = Recount(q) \/ Appears(f, Tail(call))
           /\ \/ /\ q \in DOMAIN queue /\ ~queue[q].options.exclusive
                 /\ DropQueue(q, "discard", Tail(call)) /\ ConsumersOf(q) = {}
              \/ /\ QueueReady(q, Counted(q, consumer)) => queue[q].options.exclusive
                 /\ queue' = CountSet(q, Counted(q, consumer))
                 /\ call' = Tail(call) /\ miscounted' = miscounted \ {q}
                 /\ UNCHANGED <<consumer, owned, open>>
<1>1. /\ call # <<>> /\ call[1] \in Frame /\ Tail(call) \in Seq(Frame)
      /\ \A f : Appears(f, call) => f = call[1] \/ Appears(f, Tail(call))
  BY TailKeeps DEF CheckQueue, Idle, TypeOK
<1>2. Top.name \in Queues /\ call[1] = Recount(Top.name)
  BY <1>1 DEF CheckQueue, Top, Frame, Recount
<1> DEFINE q == Top.name
<1>3. Counted(q, consumer) \in Nat /\ (Counted(q, consumer) = 0 => ConsumersOf(q) = {})
  <2>1. IsFiniteSet(ConsumersOf(q))
    BY FS_Subset, TopologyAssumption DEF ConsumersOf, TypeOK
  <2>2. Counted(q, consumer) = Cardinality(ConsumersOf(q))
    BY DEF Counted, ConsumersOf
  <2> QED BY <2>1, <2>2, FS_CardinalityType, FS_EmptySet
<1>4. CASE QueueReady(q, Counted(q, consumer)) /\ ~LockedFor(q, {})
           /\ DropQueue(q, "discard", Tail(call))
  BY <1>1, <1>2, <1>3, <1>4 DEF QueueReady, LockedFor
<1>5. CASE /\ QueueReady(q, Counted(q, consumer)) => LockedFor(q, {})
           /\ queue' = CountSet(q, Counted(q, consumer))
           /\ miscounted' = miscounted \ {q} /\ Pop
           /\ UNCHANGED <<consumer, owned, open>>
  BY <1>1, <1>2, <1>3, <1>5 DEF LockedFor, Pop
<1> QED BY <1>4, <1>5 DEF CheckQueue, connectionVars

-----------------------------------------------------------------------------
(* Consumers to be cancelled *)

(* A consumer that is to be cancelled is registered and is cancelled once, and
   nothing is cancelled while queues are counted or a channel closes. *)
CancelsInv ==
  /\ Once(call)
  /\ "cancel" \in Kinds(call) => Kinds(call) \cap {"queue", "close"} = {}
  /\ \A t : Pending(ServerCancel(t)) => t \in DOMAIN consumer

LEMMA NoneToCancel ==
  ASSUME "cancel" \notin Kinds(call)
  PROVE  CancelsInv /\ \A t : ~Pending(ServerCancel(t))
BY NoCancels DEF CancelsInv, Pending

LEMMA TopKind ==
  ASSUME TypeOK, call # <<>>
  PROVE  call[1].do \in Kinds(call)
<1>1. 1 \in DOMAIN call
  BY DEF TypeOK
<1> QED BY <1>1 DEF Kinds

LEMMA EmptyCall ==
  ASSUME call = <<>>
  PROVE  Kinds(call) = {} /\ \A f : ~Pending(f)
BY DEF Kinds, Pending, Appears

(* No step of the call itself cancels a consumer but the one made for it. *)
LEMMA CancelsKept ==
  ASSUME TypeOK, CancelsInv, Bystander
  PROVE  /\ CancelsInv'
         /\ \A t : Pending(ServerCancel(t))' => Pending(ServerCancel(t))
<1>1. CASE call' = call
  BY <1>1 DEF CancelsInv, Bystander, Pending
<1>2. CASE call # <<>> /\ call' = Tail(call)
  <2>1. /\ Kinds(call') \subseteq Kinds(call) /\ Once(call')
        /\ \A f : Appears(f, call') => Appears(f, call)
    BY <1>2, TailOnly DEF CancelsInv, TypeOK
  <2> QED BY <2>1 DEF CancelsInv, Bystander, Pending
<1>3. CASE "cancel" \notin Kinds(call')
  <2>1. Once(call') /\ \A t : ~Appears(ServerCancel(t), call')
    BY <1>3, NoCancels
  <2> QED BY <1>3, <2>1 DEF CancelsInv, Pending
<1> QED BY <1>1, <1>2, <1>3 DEF Bystander

LEMMA CancelsStep == TypeOK /\ CancelsInv /\ [Next]_vars => CancelsInv'
<1> SUFFICES ASSUME TypeOK, CancelsInv, [Next]_vars PROVE CancelsInv'
  OBVIOUS
<1>0. ASSUME "cancel" \notin Kinds(call')
      PROVE  CancelsInv'
  <2>1. Once(call') /\ \A t : ~Appears(ServerCancel(t), call')
    BY <1>0, NoCancels
  <2> QED BY <1>0, <2>1 DEF CancelsInv, Pending
<1>1. CASE Bystander
  BY <1>1, CancelsKept
<1>2. ASSUME UNCHANGED call, DOMAIN consumer \subseteq DOMAIN consumer'
      PROVE  CancelsInv'
  BY <1>2 DEF CancelsInv, Pending
<1>3. ASSUME NEW c \in Channels, NEW q \in Queues, NEW o \in QueueOptions, DeclareQueue(c, q, o)
      PROVE  CancelsInv'
  BY <1>2, <1>3 DEF DeclareQueue
<1>4. ASSUME NEW c \in Channels, NEW q \in Queues, NEW t \in Tags, Consume(c, q, t)
      PROVE  CancelsInv'
  BY <1>2, <1>4 DEF Consume, With
<1>5. ASSUME NEW c \in Channels, NEW t \in Tags, Cancel(c, t)
      PROVE  CancelsInv'
  BY <1>0, <1>5 DEF Cancel, Kinds, Recount
<1>6. CASE CancelConsumer
  <2> DEFINE t == Top.name
  <2>1. /\ call # <<>> /\ call[1] = ServerCancel(t) /\ DOMAIN consumer' = DOMAIN consumer \ {t}
        /\ Kinds(call') \subseteq {"listener"} \cup Kinds(Tail(call))
        /\ Once(Tail(call)) => Once(call')
        /\ \A u : Appears(ServerCancel(u), call') => Appears(ServerCancel(u), Tail(call))
    BY <1>6, CancelConsumerFrames DEF Without
  <2>2. ServerCancel(t).do = "cancel"
    BY DEF ServerCancel
  <2>3. /\ Kinds(Tail(call)) \subseteq Kinds(call)
        /\ Once(Tail(call)) /\ ~Appears(ServerCancel(t), Tail(call))
        /\ \A f : Appears(f, Tail(call)) => Appears(f, call)
    BY <2>1, <2>2, TailOnly DEF CancelsInv, TypeOK
  <2> HIDE DEF t
  <2>4. ASSUME NEW u, Appears(ServerCancel(u), call')
        PROVE  u \in DOMAIN consumer'
    <3>1. u # t /\ Appears(ServerCancel(u), call)
      BY <2>1, <2>3, <2>4
    <3> QED BY <2>1, <3>1 DEF CancelsInv, Pending
  <2> QED BY <2>1, <2>3, <2>4 DEF CancelsInv, Pending
<1>7. CASE CheckQueue
  <2>1. PICK q \in Queues :
          /\ call # <<>> /\ call[1] = Recount(q) /\ Tail(call) \in Seq(Frame)
          /\ \/ q \in DOMAIN queue /\ DropQueue(q, "discard", Tail(call)) /\ ConsumersOf(q) = {}
             \/ call' = Tail(call)
    BY <1>7, CheckedQueue
  <2>2. "cancel" \notin Kinds(Tail(call))
    <3>1. "queue" \in Kinds(call)
      BY <2>1, TopKind DEF Recount
    <3> QED BY <2>1, <3>1, TailOnly DEF CancelsInv, TypeOK
  <2> QED BY <1>0, <2>1, <2>2, DropQueueOnly
<1>8. CASE CloseChannel
  <2>1. /\ call # <<>> /\ call[1].do = "close"
        /\ "cancel" \notin Kinds(Tail(call)) => "cancel" \notin Kinds(call')
    BY <1>8, CloseChannelFrames DEF CloseFrame
  <2>2. "cancel" \notin Kinds(Tail(call))
    BY <2>1, TopKind, TailOnly DEF CancelsInv, TypeOK
  <2> QED BY <1>0, <2>1, <2>2
<1>9. ASSUME NEW q \in Queues, Deleted(q)
      PROVE  CancelsInv'
  <2>1. PICK end \in {"discard", "discardStore"} : DropQueue(q, end, <<>>)
    BY <1>9 DEF Deleted
  <2>2. <<>> \in Seq(Frame) /\ Kinds(<<>>) = {}
    BY DEF Kinds
  <2>3. /\ Kinds(call') \subseteq {"cancel", end, "exchange"} /\ Once(call')
        /\ \A t : Appears(ServerCancel(t), call') => t \in ConsumersOf(q)
    BY <2>1, <2>2, DropQueueOnly
  <2>4. ConsumersOf(q) \subseteq DOMAIN consumer /\ consumer' = consumer
    BY <2>1 DEF ConsumersOf, DropQueue
  <2> QED BY <2>3, <2>4 DEF CancelsInv, Pending
<1>10. ASSUME NEW conn \in Connections, DeleteExclusiveQueues(conn)
       PROVE  CancelsInv'
  BY <1>2, <1>10 DEF DeleteExclusiveQueues
<1> QED
  BY <1>1, <1>3, <1>4, <1>5, <1>6, <1>7, <1>8, <1>9, <1>10, LifecycleSteps

-----------------------------------------------------------------------------
(* Automatic deletion of queues *)

MustGo(q) ==
  queue[q].options.autoDelete /\ queue[q].hasHadConsumers /\ ~queue[q].options.exclusive

Lasting(q) == \E t \in ConsumersOf(q) : ~Pending(ServerCancel(t))

(* A queue that goes with its last consumer has one that is to stay, or will be
   looked at. *)
QueuesInv == \A q \in DOMAIN queue : MustGo(q) => Lasting(q) \/ Pending(Recount(q))

LEMMA RecountKept ==
  ASSUME TypeOK, Bystander, NEW q, Pending(Recount(q))
  PROVE  Pending(Recount(q))'
<1>1. call # <<>>
  BY DEF Pending, Appears
<1>2. CASE call' = call
  BY <1>2 DEF Pending
<1>3. CASE /\ call' = Tail(call)
           /\ call[1].do \in {"exchange", "requeue", "listener", "discard", "discardStore"}
  <2>1. Recount(q) # call[1]
    BY <1>3 DEF Recount
  <2> QED BY <1>1, <1>3, <2>1, TailKeeps DEF Pending, TypeOK
<1> QED BY <1>1, <1>2, <1>3 DEF Bystander

LEMMA CountedReady ==
  ASSUME TypeOK, NEW q \in DOMAIN queue, NEW n \in Nat,
         queue' = CountSet(q, n), QueueReady(q, n) => queue[q].options.exclusive, MustGo(q)'
  PROVE  n # 0
<1>1. queue[q] \in Entry /\ queue \in [DOMAIN queue -> Entry]
  BY DEF TypeOK
<1> DEFINE counted == [queue[q] EXCEPT !.consumerCount = n]
           marked == [counted EXCEPT !.hasHadConsumers = queue[q].hasHadConsumers \/ n > 0]
<1>3. CountSet(q, n) = [queue EXCEPT ![q] = marked]
  BY <1>1 DEF CountSet, Entry
<1>4. queue'[q] = marked /\ marked.hasHadConsumers = (queue[q].hasHadConsumers \/ n > 0)
  BY <1>1, <1>3 DEF Entry
<1>2. queue'[q].options = queue[q].options
  BY <1>1, <1>4 DEF Entry
<1> HIDE DEF marked
<1>5. queue[q].hasHadConsumers \/ n > 0
  BY <1>4 DEF MustGo
<1> QED BY <1>2, <1>5 DEF MustGo, QueueReady

LEMMA OnlyCall ==
  ASSUME NEW f, call' = <<f>>
  PROVE  Pending(f)' /\ Kinds(call') = {f.do}
<1>1. DOMAIN <<f>> = {1} /\ <<f>>[1] = f
  OBVIOUS
<1> QED BY <1>1 DEF Pending, Appears, Kinds

(* Between calls nothing is pending. *)
LEMMA AtRest ==
  ASSUME call = <<>>, QueuesInv, NEW q \in DOMAIN queue, MustGo(q)
  PROVE  ConsumersOf(q) # {}
BY EmptyCall DEF QueuesInv, Lasting

LEMMA QueuesStep == TypeOK /\ CancelsInv /\ QueuesInv /\ [Next]_vars => QueuesInv'
<1> SUFFICES ASSUME TypeOK, CancelsInv, QueuesInv, [Next]_vars PROVE QueuesInv'
  OBVIOUS
<1>0. queue \in [DOMAIN queue -> Entry] /\ DOMAIN queue \subseteq Queues
  BY DEF TypeOK
<1>1. CASE Bystander
  <2>1. UNCHANGED <<queue, consumer>> /\ \A t : Pending(ServerCancel(t))' => Pending(ServerCancel(t))
    BY <1>1, CancelsKept DEF Bystander
  <2>2. \A q : Pending(Recount(q)) => Pending(Recount(q))'
    BY <1>1, RecountKept
  <2> QED BY <2>1, <2>2 DEF QueuesInv, MustGo, Lasting, ConsumersOf
<1>2. ASSUME NEW c \in Channels, NEW q \in Queues, NEW o \in QueueOptions, DeclareQueue(c, q, o)
      PROVE  QueuesInv'
  <2>1. UNCHANGED <<call, consumer>> /\ DOMAIN queue' = DOMAIN queue \cup {q}
    BY <1>2 DEF DeclareQueue, With
  <2>2. \A r \in DOMAIN queue : queue'[r] = queue[r]
    BY <1>2 DEF DeclareQueue, With
  <2>3. q \notin DOMAIN queue => ~queue'[q].hasHadConsumers
    BY <1>2 DEF DeclareQueue, With
  <2> QED BY <2>1, <2>2, <2>3 DEF QueuesInv, MustGo, Lasting, ConsumersOf, Pending
<1>3. ASSUME NEW c \in Channels, NEW q \in Queues, NEW t \in Tags, Consume(c, q, t)
      PROVE  QueuesInv'
  <2> DEFINE C == With(consumer, t, [queue |-> q, channel |-> c])
  <2>1. consumer' = C /\ queue' = CountSet(q, Counted(q, C)) /\ UNCHANGED call /\ t \notin DOMAIN consumer
    BY <1>3 DEF Consume
  <2>2. /\ DOMAIN consumer' = DOMAIN consumer \cup {t}
        /\ \A u \in DOMAIN consumer : consumer'[u] = consumer[u]
        /\ consumer'[t].queue = q
    BY <2>1 DEF With
  <2>3. Counted(q, C) \in Nat
    BY CountedIsNat DEF With, TypeOK
  <2> HIDE DEF C
  <2>4. /\ DOMAIN queue' = DOMAIN queue
        /\ \A r \in DOMAIN queue : r # q => queue'[r] = queue[r]
    BY <2>1, <2>3, CountSetKeeps
  <2>5. t \in ConsumersOf(q)' /\ ~Pending(ServerCancel(t))'
    BY <2>1, <2>2 DEF CancelsInv, ConsumersOf, Pending
  <2>6. ASSUME NEW r \in DOMAIN queue, r # q, MustGo(r)'
        PROVE  Lasting(r)' \/ Pending(Recount(r))'
    <3>1. MustGo(r)
      BY <2>4, <2>6 DEF MustGo
    <3>2. Lasting(r) => Lasting(r)'
      BY <2>1, <2>2 DEF Lasting, ConsumersOf, Pending
    <3> QED BY <2>1, <3>1, <3>2 DEF QueuesInv, Pending
  <2> QED BY <2>4, <2>5, <2>6 DEF QueuesInv, Lasting
<1>4. ASSUME NEW c \in Channels, NEW t \in Tags, Cancel(c, t)
      PROVE  QueuesInv'
  <2>0. PICK q : q = consumer[t].queue
    OBVIOUS
  <2>1. /\ call = <<>> /\ call' = <<Recount(q)>> /\ UNCHANGED queue
        /\ DOMAIN consumer' = DOMAIN consumer \ {t} /\ t \in DOMAIN consumer
        /\ \A u \in DOMAIN consumer' : consumer'[u] = consumer[u]
    BY <1>4, <2>0 DEF Cancel, Calls, Idle, Without, queueVars
  <2>2. Pending(Recount(q))' /\ "cancel" \notin Kinds(call')
    <3>1. call' = <<Recount(q)>> /\ Recount(q).do = "queue"
      BY <2>1 DEF Recount
    <3>2. Pending(Recount(q))' /\ Kinds(call') = {Recount(q).do}
      BY <3>1, OnlyCall
    <3> QED BY <3>1, <3>2
  <2>3. ASSUME NEW r \in DOMAIN queue, r # q, MustGo(r)
        PROVE  Lasting(r)'
    <3>1. PICK u \in ConsumersOf(r) : TRUE
      BY <2>1, <2>3, AtRest
    <3>2. u # t
      BY <2>0, <2>3, <3>1 DEF ConsumersOf
    <3>3. u \in ConsumersOf(r)'
      BY <2>1, <3>1, <3>2 DEF ConsumersOf
    <3>4. ~Pending(ServerCancel(u))'
      BY <2>2, NoCancels DEF Pending
    <3> QED BY <3>3, <3>4 DEF Lasting
  <2>4. ASSUME NEW r \in DOMAIN queue', MustGo(r)'
        PROVE  Lasting(r)' \/ Pending(Recount(r))'
    <3>1. r \in DOMAIN queue /\ MustGo(r)
      BY <2>1, <2>4 DEF MustGo
    <3>2. CASE r = q
      BY <2>2, <3>2
    <3>3. CASE r # q
      BY <2>3, <3>1, <3>3
    <3> QED BY <3>2, <3>3
  <2> QED BY <2>4 DEF QueuesInv
<1>5. CASE CancelConsumer
  <2> DEFINE t == Top.name
  <2>1. /\ call # <<>> /\ call[1] = ServerCancel(t) /\ UNCHANGED queue
        /\ DOMAIN consumer' = DOMAIN consumer \ {t}
        /\ \A u \in DOMAIN consumer' : consumer'[u] = consumer[u]
        /\ \A u : Appears(ServerCancel(u), call') => Appears(ServerCancel(u), Tail(call))
    BY <1>5, CancelConsumerFrames DEF Without
  <2>2. \A f : Appears(f, Tail(call)) => Appears(f, call)
    BY <2>1, TailOnly DEF TypeOK
  <2>3. Pending(ServerCancel(t)) /\ "cancel" \in Kinds(call)
    <3>1. 1 \in DOMAIN call
      BY <2>1 DEF TypeOK
    <3> QED BY <2>1, <3>1 DEF Pending, Appears, Kinds, ServerCancel
  <2>4. \A q : ~Pending(Recount(q))
    BY <2>3, KindsOfAppearing DEF CancelsInv, Pending, Recount
  <2> HIDE DEF t
  <2>5. ASSUME NEW q \in DOMAIN queue, MustGo(q)
        PROVE  Lasting(q)'
    <3>1. PICK u \in ConsumersOf(q) : ~Pending(ServerCancel(u))
      BY <2>4, <2>5 DEF QueuesInv, Lasting
    <3>2. u # t /\ ~Pending(ServerCancel(u))'
      BY <2>1, <2>2, <2>3, <3>1 DEF Pending
    <3> QED BY <2>1, <3>1, <3>2 DEF Lasting, ConsumersOf
  <2> QED BY <2>1, <2>5 DEF QueuesInv, MustGo
<1>6. CASE CheckQueue
  <2>1. PICK q \in Queues :
          /\ call # <<>> /\ call[1] = Recount(q) /\ Tail(call) \in Seq(Frame)
          /\ Counted(q, consumer) \in Nat
          /\ \A f : Appears(f, call) => f = Recount(q) \/ Appears(f, Tail(call))
          /\ \/ /\ q \in DOMAIN queue /\ ~queue[q].options.exclusive
                /\ DropQueue(q, "discard", Tail(call)) /\ ConsumersOf(q) = {}
             \/ /\ QueueReady(q, Counted(q, consumer)) => queue[q].options.exclusive
                /\ queue' = CountSet(q, Counted(q, consumer))
                /\ call' = Tail(call) /\ miscounted' = miscounted \ {q}
                /\ UNCHANGED <<consumer, owned, open>>
    BY <1>6, CheckedQueue
  <2>2. "cancel" \notin Kinds(Tail(call))
    <3>1. "queue" \in Kinds(call)
      BY <2>1, TopKind DEF Recount
    <3> QED BY <2>1, <3>1, TailOnly DEF CancelsInv, TypeOK
  <2>3. \A r : Pending(Recount(r)) => r = q \/ Appears(Recount(r), Tail(call))
    BY <2>1 DEF Pending, Recount
  <2>4. CASE q \in DOMAIN queue /\ DropQueue(q, "discard", Tail(call)) /\ ConsumersOf(q) = {}
    <3>1. UNCHANGED consumer /\ queue' = Without(queue, {q})
      BY <2>4 DEF DropQueue
    <3>2. "cancel" \notin Kinds(call')
      BY <2>1, <2>2, <2>4, DropQueueOnly
    <3>3. \A f : Appears(f, Tail(call)) => Appears(f, call')
      BY <2>1, <2>4, DropQueueFrames
    <3>4. \A t : ~Pending(ServerCancel(t))'
      BY <3>2, NoCancels DEF Pending
    <3>5. ASSUME NEW r \in DOMAIN queue', MustGo(r)'
          PROVE  Lasting(r)' \/ Pending(Recount(r))'
      <4>1. r \in DOMAIN queue /\ r # q /\ MustGo(r)
        BY <3>1, <3>5 DEF Without, MustGo
      <4>2. Lasting(r) => Lasting(r)'
        BY <3>1, <3>4 DEF Lasting, ConsumersOf
      <4>3. Pending(Recount(r)) => Pending(Recount(r))'
        BY <2>3, <3>3, <4>1 DEF Pending
      <4> QED BY <4>1, <4>2, <4>3 DEF QueuesInv
    <3> QED BY <3>5 DEF QueuesInv
  <2>5. CASE /\ QueueReady(q, Counted(q, consumer)) => queue[q].options.exclusive
             /\ queue' = CountSet(q, Counted(q, consumer))
             /\ call' = Tail(call) /\ UNCHANGED consumer
    <3>1. \A t : ~Pending(ServerCancel(t))'
      BY <2>2, <2>5, NoCancels DEF Pending
    <3>2. /\ DOMAIN queue' = DOMAIN queue
          /\ \A r \in DOMAIN queue : r # q => queue'[r] = queue[r]
      BY <2>1, <2>5, CountSetKeeps
    <3>3. ASSUME q \in DOMAIN queue, MustGo(q)'
          PROVE  Lasting(q)'
      <4>1. Counted(q, consumer) # 0
        BY <2>1, <2>5, <3>3, CountedReady
      <4>2. ConsumersOf(q) # {}
        BY <4>1, FS_EmptySet DEF Counted, ConsumersOf
      <4> QED BY <2>5, <3>1, <4>2 DEF Lasting, ConsumersOf
    <3>4. ASSUME NEW r \in DOMAIN queue, r # q, MustGo(r)'
          PROVE  Lasting(r)' \/ Pending(Recount(r))'
      <4>1. MustGo(r)
        BY <3>2, <3>4 DEF MustGo
      <4>2. Lasting(r) => Lasting(r)'
        BY <2>5, <3>1 DEF Lasting, ConsumersOf
      <4>3. Pending(Recount(r)) => Pending(Recount(r))'
        BY <2>3, <2>5, <3>4 DEF Pending
      <4> QED BY <4>1, <4>2, <4>3 DEF QueuesInv
    <3> QED BY <3>2, <3>3, <3>4 DEF QueuesInv
  <2> QED BY <2>1, <2>4, <2>5
<1>7. CASE CloseChannel
  <2> DEFINE c == Top.name
  <2>1. /\ call # <<>> /\ call[1] = CloseFrame(c)
        /\ DOMAIN consumer' = DOMAIN consumer \ OnNumber(c)
        /\ \A t \in DOMAIN consumer' : consumer'[t] = consumer[t]
        /\ UNCHANGED queue
        /\ "cancel" \notin Kinds(Tail(call)) => "cancel" \notin Kinds(call')
        /\ \A f : Appears(f, Tail(call)) => Appears(f, call')
        /\ \A t \in OnNumber(c) : Appears(Recount(consumer[t].queue), call')
    BY <1>7, CloseChannelFrames DEF Without
  <2>2. "cancel" \notin Kinds(Tail(call))
    <3>1. "close" \in Kinds(call)
      BY <2>1, TopKind DEF CloseFrame
    <3> QED BY <2>1, <3>1, TailOnly DEF CancelsInv, TypeOK
  <2>3. \A t : ~Pending(ServerCancel(t))'
    BY <2>1, <2>2, NoCancels DEF Pending
  <2>4. \A q : Pending(Recount(q)) => Pending(Recount(q))'
    <3>1. \A q : Recount(q) # call[1]
      BY <2>1 DEF Recount, CloseFrame
    <3> QED BY <2>1, <3>1, TailKeeps DEF Pending, TypeOK
  <2> HIDE DEF c
  <2>5. ASSUME NEW q \in DOMAIN queue, Lasting(q)
        PROVE  Lasting(q)' \/ Pending(Recount(q))'
    <3>1. PICK t \in ConsumersOf(q) : TRUE
      BY <2>5 DEF Lasting
    <3>2. CASE t \in OnNumber(c)
      BY <2>1, <3>1, <3>2 DEF ConsumersOf, Pending
    <3>3. CASE t \notin OnNumber(c)
      BY <2>1, <2>3, <3>1, <3>3 DEF ConsumersOf, Lasting
    <3> QED BY <3>2, <3>3
  <2> QED BY <2>1, <2>4, <2>5 DEF QueuesInv, MustGo
<1>8. ASSUME NEW q \in Queues, Deleted(q)
      PROVE  QueuesInv'
  <2>1. PICK end \in {"discard", "discardStore"} : DropQueue(q, end, <<>>)
    BY <1>8 DEF Deleted
  <2>2. <<>> \in Seq(Frame) /\ "cancel" \notin Kinds(<<>>)
    BY DEF Kinds
  <2>3. \A t : Pending(ServerCancel(t))' => t \in ConsumersOf(q)
    BY <2>1, <2>2, DropQueueOnly DEF Pending
  <2>4. UNCHANGED consumer /\ queue' = Without(queue, {q})
    BY <2>1 DEF DropQueue
  <2>5. ASSUME NEW r \in DOMAIN queue', MustGo(r)'
        PROVE  Lasting(r)'
    <3>1. r \in DOMAIN queue /\ r # q /\ MustGo(r)
      BY <2>4, <2>5 DEF Without, MustGo
    <3>2. PICK t \in ConsumersOf(r) : TRUE
      BY <1>8, <3>1, AtRest DEF Deleted
    <3>3. ~Pending(ServerCancel(t))'
      BY <2>3, <3>1, <3>2 DEF ConsumersOf
    <3> QED BY <2>4, <3>2, <3>3 DEF Lasting, ConsumersOf
  <2> QED BY <2>5 DEF QueuesInv
<1>9. ASSUME NEW conn \in Connections, DeleteExclusiveQueues(conn)
      PROVE  QueuesInv'
  <2>1. /\ UNCHANGED <<call, consumer>> /\ DOMAIN queue' \subseteq DOMAIN queue
        /\ \A q \in DOMAIN queue' : queue'[q] = queue[q]
    BY <1>9 DEF DeleteExclusiveQueues, Without
  <2> QED BY <2>1 DEF QueuesInv, MustGo, Lasting, ConsumersOf, Pending
<1> QED
  BY <1>1, <1>2, <1>3, <1>4, <1>5, <1>6, <1>7, <1>8, <1>9, LifecycleSteps

(* An auto-delete queue that has had consumers and is not exclusive has one,
   between any two calls, whatever cancels, closes, deletions and listeners came
   before. *)
THEOREM QueuesGoWithConsumers == Spec => []QueuesAutoDeleted
<1>1. Init => CancelsInv /\ QueuesInv
  BY EmptyCall, NoneToCancel DEF Init, QueuesInv
<1>2. QueuesInv => QueuesAutoDeleted
  BY AtRest DEF QueuesAutoDeleted, Idle, MustGo
<1> QED BY <1>1, <1>2, CancelsStep, QueuesStep, TopologyTypes, PTL DEF Spec

-----------------------------------------------------------------------------
(* Automatic deletion of exchanges *)

(* The steps that touch exchanges and bindings.  An unbinding leaves the
   bindings of other exchanges alone and starts the check of its own. *)
Unbinding(e) ==
  /\ call = <<>> /\ call' = <<Check(e)>>
  /\ UNCHANGED <<exchange, hasHadBindings, unchecked>>
  /\ \A x : x # e /\ Bound(x, bindings, e2e) => Bound(x, bindings, e2e)'

LEMMA RegistrySteps ==
  ASSUME TypeOK, [Next]_vars
  PROVE  \/ UNCHANGED registryVars
         \/ CheckExchange
         \/ \E c \in Channels, e \in Exchanges, autoDelete \in ExchangeOptions :
              DeclareExchange(c, e, autoDelete)
         \/ \E e \in Exchanges : RemoveExchange(e) /\ UNCHANGED call
         \/ \E c \in Channels, q \in Queues, e \in Exchanges, k \in Keys : BindQueue(c, q, e, k)
         \/ \E c \in Channels, s, d \in Exchanges, k \in Keys : BindExchange(c, s, d, k)
         \/ \E e \in Exchanges : Unbinding(e)
         \/ \E q \in Queues, end \in {"discard", "discardStore"}, rest \in Seq(Frame) :
              DropQueue(q, end, rest)
         \/ \E conn \in Connections : DeleteExclusiveQueues(conn)
<1>1. CASE UNCHANGED vars
  BY <1>1 DEF vars
<1>2. CASE RunCall
  <2>1. CASE CheckQueue
    BY <2>1, CheckQueueCases DEF CheckQueue
  <2> QED BY <1>2, <2>1 DEF RunCall, CloseChannel, RequeueUnacked, CancelConsumer,
                           ListenerReturns, Discard
<1>3. ASSUME NEW c \in Channels, ExchangeNext(c)
      PROVE  \/ \E e \in Exchanges, autoDelete \in ExchangeOptions : DeclareExchange(c, e, autoDelete)
             \/ \E e \in Exchanges : RemoveExchange(e) /\ UNCHANGED call
             \/ \E q \in Queues, e \in Exchanges, k \in Keys : BindQueue(c, q, e, k)
             \/ \E s, d \in Exchanges, k \in Keys : BindExchange(c, s, d, k)
             \/ \E e \in Exchanges : Unbinding(e)
  <2>1. ASSUME NEW e \in Exchanges, NEW ifUnused \in BOOLEAN, DeleteExchange(c, e, ifUnused)
        PROVE  RemoveExchange(e) /\ UNCHANGED call
    BY <2>1 DEF DeleteExchange
  <2>2. ASSUME NEW q \in Queues, NEW e \in Exchanges, NEW k \in Keys, UnbindQueue(c, q, e, k)
        PROVE  Unbinding(e)
    BY <2>2 DEF UnbindQueue, Unbinding, Calls, Idle, Bound
  <2>3. ASSUME NEW s \in Exchanges, NEW d \in Exchanges, NEW k \in Keys, UnbindExchange(c, s, d, k)
        PROVE  Unbinding(s)
    BY <2>3 DEF UnbindExchange, Unbinding, Calls, Idle, Bound
  <2> QED BY <1>3, <2>1, <2>2, <2>3 DEF ExchangeNext
<1>4. ASSUME NEW c \in Channels, QueueNext(c)
      PROVE  \/ UNCHANGED registryVars
             \/ \E q \in Queues : DropQueue(q, "discard", <<>>)
  BY <1>4 DEF QueueNext, DeclareQueue, DeleteQueue, PurgeQueue, Publish, Get, Answer, Consume, Cancel
<1>5. <<>> \in Seq(Frame)
  OBVIOUS
<1>6. ASSUME NEW q \in Queues, ExpireQueue(q)
      PROVE  UNCHANGED registryVars \/ DropQueue(q, "discardStore", <<>>)
  BY <1>6 DEF ExpireQueue
<1>7. ASSUME NEW c \in Channels, Close(c)
      PROVE  UNCHANGED registryVars
  BY <1>7 DEF Close
<1>8. ASSUME NEW conn \in Connections, CloseConnection(conn) \/ AwaitedClose(conn)
      PROVE  UNCHANGED registryVars
  BY <1>8 DEF CloseConnection, AwaitedClose
<1> QED BY <1>1, <1>2, <1>3, <1>4, <1>5, <1>6, <1>7, <1>8 DEF Next

(* An auto-delete exchange that has had bindings has one, or will be looked at,
   or is one of those nobody looks at.  The mark goes with the exchange. *)
Due(e) == exchange[e] /\ ~Bound(e, bindings, e2e)

ExchangesInv ==
  /\ hasHadBindings \subseteq DOMAIN exchange
  /\ \A e \in hasHadBindings \ unchecked : Due(e) => Pending(Check(e))

LEMMA ChecksKept ==
  ASSUME TypeOK, [Next]_vars, ~CheckExchange, NEW e, Pending(Check(e))
  PROVE  Pending(Check(e))'
<1>1. ASSUME RunCall, call # <<>>, call[1] = Check(e)
      PROVE  FALSE
  <2>1. Top.do = "exchange"
    BY <1>1 DEF Top, Check
  <2> QED BY <1>1, <2>1 DEF RunCall, CheckExchange, CheckQueue, CloseChannel, RequeueUnacked,
                           CancelConsumer, ListenerReturns, Discard
<1> QED BY <1>1, PendingKept

(* What a removed exchange was bound to is not checked. *)
LEMMA RemovedExchange ==
  ASSUME TypeOK, ExchangesInv, NEW e \in Exchanges, RemoveExchange(e)
  PROVE  /\ hasHadBindings' \subseteq DOMAIN exchange'
         /\ \A x \in (hasHadBindings \ unchecked)' : x # e /\ (Due(x)' => Pending(Check(x)))
<1>1. /\ DOMAIN exchange' = DOMAIN exchange \ {e} /\ hasHadBindings' = hasHadBindings \ {e}
      /\ \A x \in DOMAIN exchange' : exchange'[x] = exchange[x]
      /\ unchecked' = (unchecked \cup Bereft(bindings', e2e')) \ {e}
  BY DEF RemoveExchange, Without
<1>2. ASSUME NEW x \in (hasHadBindings \ unchecked)', Due(x)'
      PROVE  Pending(Check(x))
  <2>1. x \in hasHadBindings \ unchecked /\ x # e /\ x \in Exchanges /\ exchange[x]
    BY <1>1, <1>2 DEF ExchangesInv, TypeOK, Due
  <2>2. x \notin Bereft(bindings', e2e') /\ ~Bound(x, bindings', e2e')
    BY <1>1, <1>2, <2>1 DEF Due
  <2>3. ~Bound(x, bindings, e2e)
    BY <2>1, <2>2 DEF Bereft
  <2> QED BY <2>1, <2>3 DEF ExchangesInv, Due
<1> QED BY <1>1, <1>2 DEF ExchangesInv

LEMMA ExchangesStep == TypeOK /\ ExchangesInv /\ [Next]_vars => ExchangesInv'
<1> SUFFICES ASSUME TypeOK, ExchangesInv, [Next]_vars PROVE ExchangesInv'
  OBVIOUS
<1>1. CASE CheckExchange
  <2> DEFINE e == Top.name
  <2>1. /\ call # <<>> /\ call[1] \in Frame /\ Top.do = "exchange" /\ call' = Tail(call)
        /\ \A f : Pending(f) => f = call[1] \/ Pending(f)'
    BY <1>1, PopPending DEF CheckExchange, Idle, Pop
  <2>2. call[1] = Check(e) /\ e \in Exchanges
    BY <2>1 DEF Top, Frame, Check
  <2>3. \A x : x # e /\ Pending(Check(x)) => Pending(Check(x))'
    BY <2>1, <2>2 DEF Check
  <2>4. CASE RemoveExchange(e)
    BY <2>2, <2>3, <2>4, RemovedExchange DEF ExchangesInv
  <2>5. CASE ~IsAutoDeleteReady(e) /\ UNCHANGED registryVars
    BY <2>3, <2>5 DEF ExchangesInv, IsAutoDeleteReady, registryVars, Due
  <2> QED BY <1>1, <2>4, <2>5 DEF CheckExchange
<1>2. ASSUME ~CheckExchange, UNCHANGED registryVars
      PROVE  ExchangesInv'
  BY <1>2, ChecksKept DEF ExchangesInv, registryVars, Due
<1>3. ASSUME NEW c \in Channels, NEW e \in Exchanges, NEW autoDelete \in ExchangeOptions,
             DeclareExchange(c, e, autoDelete)
      PROVE  ExchangesInv'
  BY <1>3 DEF DeclareExchange, With, ExchangesInv, Due, Pending
<1>4. ASSUME NEW e \in Exchanges, RemoveExchange(e), UNCHANGED call
      PROVE  ExchangesInv'
  BY <1>4, RemovedExchange DEF ExchangesInv, Pending
<1>5. ASSUME NEW c \in Channels, NEW q \in Queues, NEW e \in Exchanges, NEW k \in Keys,
             BindQueue(c, q, e, k)
      PROVE  ExchangesInv'
  <2>1. /\ UNCHANGED <<exchange, call, e2e>> /\ hasHadBindings' = hasHadBindings \cup {e}
        /\ unchecked' = unchecked \ {e} /\ e \in DOMAIN exchange
        /\ bindings' = bindings \cup {[exchange |-> e, queue |-> q, key |-> k]}
    BY <1>5 DEF BindQueue
  <2>2. Bound(e, bindings', e2e')
    <3>1. [exchange |-> e, queue |-> q, key |-> k] \in bindings'
      BY <2>1
    <3>2. [exchange |-> e, queue |-> q, key |-> k].exchange = e
      OBVIOUS
    <3> QED BY <3>1, <3>2 DEF Bound
  <2>3. \A x : Bound(x, bindings, e2e) => Bound(x, bindings', e2e')
    BY <2>1 DEF Bound
  <2> QED BY <2>1, <2>2, <2>3 DEF ExchangesInv, Due, Pending
<1>6. ASSUME NEW c \in Channels, NEW e \in Exchanges, NEW d \in Exchanges, NEW k \in Keys,
             BindExchange(c, e, d, k)
      PROVE  ExchangesInv'
  <2>1. /\ UNCHANGED <<exchange, call, bindings>> /\ hasHadBindings' = hasHadBindings \cup {e}
        /\ unchecked' = unchecked \ {e} /\ e \in DOMAIN exchange
        /\ e2e' = e2e \cup {[source |-> e, destination |-> d, key |-> k]}
    BY <1>6 DEF BindExchange
  <2>2. Bound(e, bindings', e2e')
    <3>1. [source |-> e, destination |-> d, key |-> k] \in e2e'
      BY <2>1
    <3>2. [source |-> e, destination |-> d, key |-> k].source = e
      OBVIOUS
    <3> QED BY <3>1, <3>2 DEF Bound
  <2>3. \A x : Bound(x, bindings, e2e) => Bound(x, bindings', e2e')
    BY <2>1 DEF Bound
  <2> QED BY <2>1, <2>2, <2>3 DEF ExchangesInv, Due, Pending
<1>7. ASSUME NEW e \in Exchanges, Unbinding(e)
      PROVE  ExchangesInv'
  <2>1. Pending(Check(e))'
    BY <1>7, OnlyCall DEF Unbinding
  <2>2. \A f : ~Pending(f)
    BY <1>7, EmptyCall DEF Unbinding
  <2>3. ASSUME NEW x \in (hasHadBindings \ unchecked)', Due(x)', x # e
        PROVE  FALSE
    BY <1>7, <2>2, <2>3 DEF Unbinding, ExchangesInv, Due
  <2>4. hasHadBindings' \subseteq DOMAIN exchange'
    BY <1>7 DEF Unbinding, ExchangesInv
  <2> QED BY <2>1, <2>3, <2>4 DEF ExchangesInv
<1>8. ASSUME ~CheckExchange, NEW q \in Queues, NEW end \in {"discard", "discardStore"},
             NEW rest \in Seq(Frame), DropQueue(q, end, rest)
      PROVE  ExchangesInv'
  <2>1. /\ UNCHANGED <<exchange, hasHadBindings, unchecked, e2e>>
        /\ bindings' = bindings \ BindingsOf(q)
    BY <1>8 DEF DropQueue
  <2>2. BoundExchanges(q) \subseteq Exchanges
    BY DEF BoundExchanges, BindingsOf, Binding, TypeOK
  <2>3. \A e \in BoundExchanges(q) : Pending(Check(e))'
    <3>1. PICK cancels \in Cancels(ConsumersOf(q)), checks \in Checks(BoundExchanges(q)),
               new \in Seq(Frame) :
            /\ new = cancels \o <<[do |-> end, name |-> q]>> \o checks
            /\ call' = new \o rest /\ call' \in Seq(Frame)
            /\ \A f : Appears(f, cancels) \/ Appears(f, checks) \/ Appears(f, rest)
                      => Appears(f, call')
            /\ Appears([do |-> end, name |-> q], call')
      BY <1>8, DropQueueFrames, Zenon
    <3>2. \A e \in BoundExchanges(q) : Appears(Check(e), checks)
      BY <2>2, ChecksOK DEF Appears
    <3> QED BY <3>1, <3>2 DEF Pending
  <2>4. ASSUME NEW e \in hasHadBindings \ unchecked, Due(e)'
        PROVE  Pending(Check(e))'
    <3>1. CASE e \in BoundExchanges(q)
      BY <2>3, <3>1
    <3>2. CASE e \notin BoundExchanges(q)
      <4>1. Due(e)
        BY <2>1, <2>4, <3>2 DEF Due, Bound, BoundExchanges, BindingsOf
      <4> QED BY <1>8, <2>4, <4>1, ChecksKept DEF ExchangesInv
    <3> QED BY <3>1, <3>2
  <2> QED BY <2>1, <2>4 DEF ExchangesInv
<1>9. ASSUME NEW conn \in Connections, DeleteExclusiveQueues(conn)
      PROVE  ExchangesInv'
  <2>1. /\ UNCHANGED <<exchange, hasHadBindings, e2e, call>>
        /\ unchecked' = unchecked \cup Bereft(bindings', e2e)
    BY <1>9 DEF DeleteExclusiveQueues
  <2>2. ASSUME NEW e \in hasHadBindings' \ unchecked', Due(e)'
        PROVE  Due(e)
    BY <2>1, <2>2 DEF Due, Bereft, TypeOK
  <2> QED BY <2>1, <2>2 DEF ExchangesInv, Pending
<1> QED BY <1>1, <1>2, <1>3, <1>4, <1>5, <1>6, <1>7, <1>8, <1>9, RegistrySteps

(* An auto-delete exchange that has had bindings has one, between any two
   calls, but for the bindings nobody checks. *)
THEOREM ExchangesGoWithBindings == Spec => []ExchangesAutoDeleted
<1>1. Init => ExchangesInv
  BY DEF Init, ExchangesInv
<1>2. ExchangesInv => ExchangesAutoDeleted
  BY EmptyCall DEF ExchangesInv, ExchangesAutoDeleted, Idle, Due
<1> QED BY <1>1, <1>2, ExchangesStep, TopologyTypes, PTL DEF Spec

-----------------------------------------------------------------------------
(* Owners *)

(* Clients that leave each other's exclusive queues alone and do not delete
   their own, on connections with different ids. *)
WellBehaved ==
  /\ ~May("consumeExclusive") /\ ~May("deleteExclusive")
  /\ \A a, b \in Connections : IdOf[a] = IdOf[b] => a = b

(* The queue of a consumer exists and, if exclusive, is that of its connection;
   or the consumer is to be cancelled. *)
Placed(t) ==
  \/ Pending(ServerCancel(t))
  \/ LET q == consumer[t].queue
     IN  /\ q \in DOMAIN queue
         /\ queue[q].options.exclusive => queue[q].owner = Id(consumer[t].channel)

OwnersInv ==
  /\ \A t \in DOMAIN consumer : consumer[t].channel \in open
  /\ \A conn \in Connections : \A q \in owned[conn] :
       q \in DOMAIN queue /\ queue[q].options.exclusive /\ queue[q].owner = IdOf[conn]
  /\ \A t \in DOMAIN consumer : Placed(t)

LEMMA CancelStays ==
  ASSUME TypeOK, [Next]_vars, NEW t, Pending(ServerCancel(t)), CancelConsumer => t # Top.name
  PROVE  Pending(ServerCancel(t))'
<1>1. ASSUME RunCall, call # <<>>, call[1] = ServerCancel(t)
      PROVE  FALSE
  <2>1. Top.do = "cancel" /\ Top.name = t
    BY <1>1 DEF Top, ServerCancel
  <2> QED BY <1>1, <2>1 DEF RunCall, CheckExchange, CheckQueue, CloseChannel, RequeueUnacked,
                           CancelConsumer, ListenerReturns, Discard
<1> QED BY <1>1, PendingKept

LEMMA RecountStays ==
  ASSUME TypeOK, [Next]_vars, NEW q, Pending(Recount(q)), CheckQueue => q # Top.name
  PROVE  Pending(Recount(q))'
<1>1. ASSUME RunCall, call # <<>>, call[1] = Recount(q)
      PROVE  FALSE
  <2>1. Top.do = "queue" /\ Top.name = q
    BY <1>1 DEF Top, Recount
  <2> QED BY <1>1, <2>1 DEF RunCall, CheckExchange, CheckQueue, CloseChannel, RequeueUnacked,
                           CancelConsumer, ListenerReturns, Discard
<1> QED BY <1>1, PendingKept

LEMMA CancelsRegistered ==
  ASSUME TypeOK, CancelsInv, CancelConsumer
  PROVE  Top.name \in DOMAIN consumer /\ consumer' # consumer
<1> DEFINE t == Top.name
<1>1. call # <<>> /\ call[1] = ServerCancel(t) /\ consumer' = Without(consumer, {t})
  BY CancelConsumerFrames
<1>2. 1 \in DOMAIN call
  BY <1>1 DEF TypeOK
<1>3. t \in DOMAIN consumer
  BY <1>1, <1>2 DEF CancelsInv, Pending, Appears
<1>4. t \notin DOMAIN consumer'
  BY <1>1 DEF Without
<1> QED BY <1>3, <1>4

(* The consumers of a deleted queue are to be cancelled. *)
LEMMA DropQueueCancels ==
  ASSUME TypeOK, NEW q \in Queues, NEW end \in {"discard", "discardStore"},
         NEW rest \in Seq(Frame), DropQueue(q, end, rest)
  PROVE  \A t \in ConsumersOf(q) : Pending(ServerCancel(t))'
<1>1. ConsumersOf(q) \in SUBSET Tags
  BY DEF ConsumersOf, TypeOK
<1>2. PICK cancels \in Cancels(ConsumersOf(q)), checks \in Checks(BoundExchanges(q)),
           new \in Seq(Frame) :
        /\ new = cancels \o <<[do |-> end, name |-> q]>> \o checks
        /\ call' = new \o rest /\ call' \in Seq(Frame)
        /\ \A f : Appears(f, cancels) \/ Appears(f, checks) \/ Appears(f, rest)
                  => Appears(f, call')
        /\ Appears([do |-> end, name |-> q], call')
  BY DropQueueFrames, Zenon
<1>3. \A t \in ConsumersOf(q) : Appears(ServerCancel(t), cancels)
  BY <1>1, CancelsOK DEF Appears
<1> QED BY <1>2, <1>3 DEF Pending

LEMMA DropQueueOwners ==
  ASSUME TypeOK, OwnersInv, NEW q \in Queues, NEW end \in {"discard", "discardStore"},
         NEW rest \in Seq(Frame), DropQueue(q, end, rest), ~queue[q].options.exclusive,
         \A t : Pending(ServerCancel(t)) => Pending(ServerCancel(t))'
  PROVE  OwnersInv'
<1>1. /\ DOMAIN queue' = DOMAIN queue \ {q} /\ \A r \in DOMAIN queue' : queue'[r] = queue[r]
      /\ UNCHANGED <<consumer, owned, open>>
  BY DEF DropQueue, Without, connectionVars
<1>2. ASSUME NEW conn \in Connections, NEW r \in owned[conn]
      PROVE  r \in DOMAIN queue' /\ queue'[r].options.exclusive /\ queue'[r].owner = IdOf[conn]
  BY <1>1, <1>2 DEF OwnersInv
<1>3. ASSUME NEW t \in DOMAIN consumer
      PROVE  Placed(t)'
  <2>1. CASE t \in ConsumersOf(q)
    BY <2>1, DropQueueCancels DEF Placed
  <2>2. CASE t \notin ConsumersOf(q)
    BY <1>1, <2>2 DEF OwnersInv, Placed, ConsumersOf
  <2> QED BY <2>1, <2>2
<1> QED BY <1>1, <1>2, <1>3 DEF OwnersInv

LEMMA OwnersStep == WellBehaved /\ TypeOK /\ CancelsInv /\ OwnersInv /\ [Next]_vars => OwnersInv'
<1> SUFFICES ASSUME WellBehaved, TypeOK, CancelsInv, OwnersInv, [Next]_vars PROVE OwnersInv'
  OBVIOUS
<1>0. /\ owned \in [Connections -> SUBSET Queues] /\ \A c \in Channels : ConnOf[c] \in Connections
      /\ \A t \in DOMAIN consumer : consumer[t] \in Consumer
  BY TopologyAssumption DEF TypeOK
<1>1. CASE Bystander
  <2>1. ~CancelConsumer
    BY <1>1, CancelsRegistered DEF Bystander
  <2>2. \A t : Pending(ServerCancel(t)) => Pending(ServerCancel(t))'
    BY <2>1, CancelStays
  <2> QED BY <1>1, <2>2 DEF Bystander, OwnersInv, Placed
<1>2. ASSUME NEW c \in Channels, NEW q \in Queues, NEW o \in QueueOptions, DeclareQueue(c, q, o)
      PROVE  OwnersInv'
  <2>1. /\ UNCHANGED <<call, consumer, open>> /\ DOMAIN queue' = DOMAIN queue \cup {q}
        /\ \A r \in DOMAIN queue : queue'[r] = queue[r]
    BY <1>2 DEF DeclareQueue, With, connectionVars
  <2>2. o.exclusive => queue'[q].options.exclusive /\ queue'[q].owner = Id(c)
    BY <1>2 DEF DeclareQueue, With, LockedFor
  <2>3. ASSUME NEW conn \in Connections, NEW r \in owned'[conn]
        PROVE  r \in owned[conn] \/ (r = q /\ IdOf[conn] = Id(c) /\ o.exclusive)
    BY <1>0, <1>2, <2>3 DEF DeclareQueue, Id
  <2>4. \A t \in DOMAIN consumer : Placed(t) => Placed(t)'
    BY <2>1 DEF Placed, Pending
  <2> QED BY <2>1, <2>2, <2>3, <2>4 DEF OwnersInv
<1>3. ASSUME NEW c \in Channels, NEW q \in Queues, NEW t \in Tags, Consume(c, q, t)
      PROVE  OwnersInv'
  <2> DEFINE C == With(consumer, t, [queue |-> q, channel |-> c])
  <2>1. /\ consumer' = C /\ queue' = CountSet(q, Counted(q, C)) /\ UNCHANGED <<call, open, owned>>
        /\ t \notin DOMAIN consumer /\ q \in DOMAIN queue /\ c \in open
        /\ LockedFor(q, {Id(c)}) => May("consumeExclusive")
    BY <1>3 DEF Consume, Restores, connectionVars
  <2>2. /\ DOMAIN consumer' = DOMAIN consumer \cup {t}
        /\ \A u \in DOMAIN consumer : consumer'[u] = consumer[u]
        /\ consumer'[t].queue = q /\ consumer'[t].channel = c
    BY <2>1 DEF With
  <2>3. Counted(q, C) \in Nat
    BY CountedIsNat DEF With, TypeOK
  <2> HIDE DEF C
  <2>4. /\ DOMAIN queue' = DOMAIN queue
        /\ \A r \in DOMAIN queue : /\ queue'[r].options = queue[r].options
                                   /\ queue'[r].owner = queue[r].owner
    BY <2>1, <2>3, CountSetKeeps
  <2>5. Placed(t)'
    BY <2>1, <2>2, <2>4 DEF Placed, LockedFor, WellBehaved
  <2>6. \A u \in DOMAIN consumer : Placed(u) => Placed(u)'
    BY <2>1, <2>2, <2>4 DEF Placed, Pending
  <2> QED BY <2>1, <2>2, <2>4, <2>5, <2>6 DEF OwnersInv
<1>4. ASSUME NEW c \in Channels, NEW t \in Tags, Cancel(c, t)
      PROVE  OwnersInv'
  <2>1. /\ call = <<>> /\ UNCHANGED <<queue, owned, open>>
        /\ DOMAIN consumer' \subseteq DOMAIN consumer
        /\ \A u \in DOMAIN consumer' : consumer'[u] = consumer[u]
    BY <1>4 DEF Cancel, Calls, Idle, Without, queueVars, connectionVars
  <2>2. \A u \in DOMAIN consumer' : Placed(u) => Placed(u)'
    BY <2>1, EmptyCall DEF Placed
  <2> QED BY <2>1, <2>2 DEF OwnersInv
<1>5. CASE CancelConsumer
  <2> DEFINE t == Top.name
  <2>1. /\ UNCHANGED <<queue, owned, open>> /\ DOMAIN consumer' = DOMAIN consumer \ {t}
        /\ \A u \in DOMAIN consumer' : consumer'[u] = consumer[u]
    BY <1>5, CancelConsumerFrames DEF Without
  <2>2. \A u : u # t /\ Pending(ServerCancel(u)) => Pending(ServerCancel(u))'
    BY CancelStays
  <2> HIDE DEF t
  <2>3. \A u \in DOMAIN consumer' : Placed(u) => Placed(u)'
    BY <2>1, <2>2 DEF Placed
  <2> QED BY <2>1, <2>3 DEF OwnersInv
<1>6. CASE CheckQueue
  <2>1. PICK q \in Queues :
          /\ call # <<>> /\ call[1] = Recount(q) /\ Tail(call) \in Seq(Frame)
          /\ Counted(q, consumer) \in Nat
          /\ \A f : Appears(f, call) => f = Recount(q) \/ Appears(f, Tail(call))
          /\ \/ /\ q \in DOMAIN queue /\ ~queue[q].options.exclusive
                /\ DropQueue(q, "discard", Tail(call)) /\ ConsumersOf(q) = {}
             \/ /\ QueueReady(q, Counted(q, consumer)) => queue[q].options.exclusive
                /\ queue' = CountSet(q, Counted(q, consumer))
                /\ call' = Tail(call) /\ miscounted' = miscounted \ {q}
                /\ UNCHANGED <<consumer, owned, open>>
    BY <1>6, CheckedQueue
  <2>2. ~CancelConsumer
    BY <1>6 DEF CheckQueue, CancelConsumer
  <2>3. \A t : Pending(ServerCancel(t)) => Pending(ServerCancel(t))'
    BY <2>2, CancelStays
  <2>4. CASE ~queue[q].options.exclusive /\ DropQueue(q, "discard", Tail(call))
    BY <2>1, <2>3, <2>4, DropQueueOwners
  <2>5. CASE queue' = CountSet(q, Counted(q, consumer)) /\ UNCHANGED <<consumer, owned, open>>
    <3>1. /\ DOMAIN queue' = DOMAIN queue
          /\ \A r \in DOMAIN queue : /\ queue'[r].options = queue[r].options
                                     /\ queue'[r].owner = queue[r].owner
      BY <2>1, <2>5, CountSetKeeps
    <3>2. \A t \in DOMAIN consumer : Placed(t) => Placed(t)'
      BY <2>3, <2>5, <3>1 DEF Placed
    <3> QED BY <2>5, <3>1, <3>2 DEF OwnersInv
  <2> QED BY <2>1, <2>4, <2>5
<1>7. CASE CloseChannel
  <2> DEFINE c == Top.name
  <2>1. /\ open' = open \ {c} /\ UNCHANGED <<queue, owned>>
        /\ DOMAIN consumer' = DOMAIN consumer \ OnNumber(c)
        /\ \A t \in DOMAIN consumer' : consumer'[t] = consumer[t]
    BY <1>7, CloseChannelFrames DEF Without
  <2>2. ~CancelConsumer
    BY <1>7 DEF CloseChannel, CancelConsumer
  <2>3. \A t : Pending(ServerCancel(t)) => Pending(ServerCancel(t))'
    BY <2>2, CancelStays
  <2> HIDE DEF c
  <2>4. \A t \in DOMAIN consumer' : Placed(t) => Placed(t)'
    BY <2>1, <2>3 DEF Placed
  <2>5. \A t \in DOMAIN consumer' : consumer'[t].channel # c
    BY <2>1 DEF OnNumber
  <2> QED BY <2>1, <2>4, <2>5 DEF OwnersInv
<1>8. ASSUME NEW q \in Queues, Deleted(q)
      PROVE  OwnersInv'
  <2>1. PICK end \in {"discard", "discardStore"} : DropQueue(q, end, <<>>)
    BY <1>8 DEF Deleted
  <2>2. <<>> \in Seq(Frame) /\ ~queue[q].options.exclusive /\ \A t : ~Pending(ServerCancel(t))
    BY <1>8, EmptyCall DEF Deleted, WellBehaved
  <2> QED BY <2>1, <2>2, DropQueueOwners
<1>9. ASSUME NEW conn \in Connections, DeleteExclusiveQueues(conn)
      PROVE  OwnersInv'
  <2> DEFINE D == DeletedOnClose(conn)
  <2>1. /\ call = <<>> /\ UNCHANGED <<call, consumer, open>> /\ \A c \in open : ConnOf[c] # conn
        /\ DOMAIN queue' = DOMAIN queue \ D /\ \A q \in DOMAIN queue' : queue'[q] = queue[q]
        /\ owned' = [owned EXCEPT ![conn] = {}]
    BY <1>9 DEF DeleteExclusiveQueues, Idle, Without
  <2>2. D \subseteq owned[conn]
    BY DEF DeletedOnClose
  <2> HIDE DEF D
  <2>3. ASSUME NEW other \in Connections, NEW q \in owned'[other]
        PROVE  /\ q \in DOMAIN queue' /\ queue'[q].options.exclusive
               /\ queue'[q].owner = IdOf[other]
    <3>1. other # conn /\ q \in owned[other]
      BY <1>0, <2>1, <2>3
    <3>2. q \notin D
      BY <2>2, <3>1 DEF OwnersInv, WellBehaved
    <3> QED BY <2>1, <3>1, <3>2 DEF OwnersInv
  <2>4. ASSUME NEW t \in DOMAIN consumer
        PROVE  Placed(t)'
    <3>1. /\ consumer[t].queue \in DOMAIN queue /\ consumer[t].channel \in open
          /\ queue[consumer[t].queue].options.exclusive =>
               queue[consumer[t].queue].owner = Id(consumer[t].channel)
      BY <2>1, EmptyCall DEF OwnersInv, Placed
    <3>2. consumer[t].channel \in Channels
      BY <1>0 DEF Consumer
    <3>3. consumer[t].queue \notin D
      BY <1>0, <2>1, <2>2, <3>1, <3>2 DEF OwnersInv, WellBehaved, Id
    <3> QED BY <2>1, <3>1, <3>3 DEF Placed
  <2> QED BY <2>1, <2>3, <2>4 DEF OwnersInv
<1> QED
  BY <1>1, <1>2, <1>3, <1>4, <1>5, <1>6, <1>7, <1>8, <1>9, LifecycleSteps

-----------------------------------------------------------------------------
(* Consumer counts *)

(* The count of a queue is right, or will be set, or is that of consumers one
   of which is to be cancelled: the cancellation marks the queue. *)
Accounted(q) ==
  \/ queue[q].consumerCount = Cardinality(ConsumersOf(q))
  \/ Pending(Recount(q))
  \/ \E t \in ConsumersOf(q) : Pending(ServerCancel(t))

CountsInv == \A q \in DOMAIN queue \ miscounted : Accounted(q)

LEMMA CountedConsumers == \A q : Counted(q, consumer) = Cardinality(ConsumersOf(q))
BY DEF Counted, ConsumersOf

LEMMA CountsStep ==
  TypeOK /\ CancelsInv /\ OwnersInv /\ CountsInv /\ [Next]_vars => CountsInv'
<1> SUFFICES ASSUME TypeOK, CancelsInv, OwnersInv, CountsInv, [Next]_vars PROVE CountsInv'
  OBVIOUS
<1>0. ASSUME NEW q \in DOMAIN queue \ miscounted, ConsumersOf(q)' = ConsumersOf(q),
             queue'[q].consumerCount = queue[q].consumerCount,
             Pending(Recount(q)) => Pending(Recount(q))',
             \A t \in ConsumersOf(q) : Pending(ServerCancel(t)) => Pending(ServerCancel(t))'
      PROVE  Accounted(q)'
  BY <1>0 DEF CountsInv, Accounted
<1>1. CASE Bystander
  <2>1. ~CancelConsumer
    BY <1>1, CancelsRegistered DEF Bystander
  <2>2. /\ \A t : Pending(ServerCancel(t)) => Pending(ServerCancel(t))'
        /\ \A q : Pending(Recount(q)) => Pending(Recount(q))'
    BY <1>1, <2>1, CancelStays, RecountKept
  <2>3. \A q : ConsumersOf(q)' = ConsumersOf(q)
    BY <1>1 DEF Bystander, ConsumersOf
  <2> QED BY <1>0, <1>1, <2>2, <2>3 DEF Bystander, CountsInv
<1>2. ASSUME NEW c \in Channels, NEW q \in Queues, NEW o \in QueueOptions, DeclareQueue(c, q, o)
      PROVE  CountsInv'
  <2>1. /\ UNCHANGED <<call, consumer, miscounted>> /\ DOMAIN queue' = DOMAIN queue \cup {q}
        /\ \A r \in DOMAIN queue : queue'[r] = queue[r]
        /\ q \notin DOMAIN queue => queue'[q].consumerCount = 0
    BY <1>2 DEF DeclareQueue, With
  <2>2. \A r : ConsumersOf(r)' = ConsumersOf(r)
    BY <2>1 DEF ConsumersOf
  <2>3. \A f : Pending(f)' = Pending(f)
    BY <2>1 DEF Pending
  <2>4. ASSUME q \notin DOMAIN queue
        PROVE  Accounted(q)'
    <3>1. CASE ConsumersOf(q) = {}
      BY <2>1, <2>2, <2>4, <3>1, FS_EmptySet DEF Accounted
    <3>2. CASE ConsumersOf(q) # {}
      <4>1. PICK t \in ConsumersOf(q) : TRUE
        BY <3>2
      <4>2. Pending(ServerCancel(t))
        BY <2>4, <4>1 DEF OwnersInv, Placed, ConsumersOf
      <4> QED BY <2>2, <2>3, <4>1, <4>2 DEF Accounted
    <3> QED BY <3>1, <3>2
  <2> QED BY <1>0, <2>1, <2>2, <2>3, <2>4 DEF CountsInv
<1>3. ASSUME NEW c \in Channels, NEW q \in Queues, NEW t \in Tags, Consume(c, q, t)
      PROVE  CountsInv'
  <2> DEFINE C == With(consumer, t, [queue |-> q, channel |-> c])
  <2>1. /\ consumer' = C /\ queue' = CountSet(q, Counted(q, C)) /\ UNCHANGED call
        /\ t \notin DOMAIN consumer /\ q \in DOMAIN queue /\ miscounted' = miscounted \ {q}
    BY <1>3 DEF Consume
  <2>2. /\ DOMAIN consumer' = DOMAIN consumer \cup {t}
        /\ \A u \in DOMAIN consumer : consumer'[u] = consumer[u]
        /\ consumer'[t].queue = q
    BY <2>1 DEF With
  <2>3. Counted(q, C) \in Nat
    BY CountedIsNat DEF With, TypeOK
  <2>4. Counted(q, C) = Cardinality(ConsumersOf(q)')
    BY <2>1 DEF Counted, ConsumersOf
  <2> HIDE DEF C
  <2>5. /\ DOMAIN queue' = DOMAIN queue /\ queue'[q].consumerCount = Counted(q, C)
        /\ \A r \in DOMAIN queue : r # q => queue'[r] = queue[r]
    BY <2>1, <2>3, CountSetKeeps
  <2>6. \A r : r # q => ConsumersOf(r)' = ConsumersOf(r)
    BY <2>1, <2>2 DEF ConsumersOf
  <2>7. \A f : Pending(f)' = Pending(f)
    BY <2>1 DEF Pending
  <2>8. Accounted(q)'
    BY <2>4, <2>5 DEF Accounted
  <2> QED BY <1>0, <2>1, <2>5, <2>6, <2>7, <2>8 DEF CountsInv
<1>4. ASSUME NEW c \in Channels, NEW t \in Tags, Cancel(c, t)
      PROVE  CountsInv'
  <2>0. PICK q : q = consumer[t].queue
    OBVIOUS
  <2>1. /\ call = <<>> /\ call' = <<Recount(q)>> /\ UNCHANGED <<queue, miscounted>>
        /\ DOMAIN consumer' = DOMAIN consumer \ {t} /\ t \in DOMAIN consumer
        /\ \A u \in DOMAIN consumer' : consumer'[u] = consumer[u]
    BY <1>4, <2>0 DEF Cancel, Calls, Idle, Without, queueVars
  <2>2. Pending(Recount(q))'
    BY <2>1, OnlyCall
  <2>3. \A f : ~Pending(f)
    BY <2>1, EmptyCall
  <2>4. \A r : r # q => ConsumersOf(r)' = ConsumersOf(r)
    BY <2>0, <2>1 DEF ConsumersOf
  <2>5. Accounted(q)'
    BY <2>2 DEF Accounted
  <2> QED BY <1>0, <2>1, <2>3, <2>4, <2>5 DEF CountsInv
<1>5. CASE CancelConsumer
  <2>0. PICK t : t = Top.name
    OBVIOUS
  <2>1. /\ t \in DOMAIN consumer /\ UNCHANGED queue /\ DOMAIN consumer' = DOMAIN consumer \ {t}
        /\ \A u \in DOMAIN consumer' : consumer'[u] = consumer[u]
        /\ miscounted' = miscounted \cup ({consumer[t].queue} \cap DOMAIN queue)
    BY <1>5, <2>0, CancelConsumerFrames, CancelsRegistered DEF Without
  <2>2. /\ \A u : u # t /\ Pending(ServerCancel(u)) => Pending(ServerCancel(u))'
        /\ \A q : Pending(Recount(q)) => Pending(Recount(q))'
    <3>1. ~CheckQueue
      BY <1>5 DEF CheckQueue, CancelConsumer
    <3> QED BY <2>0, <3>1, CancelStays, RecountStays
  <2>3. ASSUME NEW q \in DOMAIN queue \ miscounted'
        PROVE  Accounted(q)'
    <3>1. q \in DOMAIN queue \ miscounted /\ q # consumer[t].queue
      BY <2>1, <2>3
    <3>2. ConsumersOf(q)' = ConsumersOf(q) /\ t \notin ConsumersOf(q)
      BY <2>1, <3>1 DEF ConsumersOf
    <3> QED BY <1>0, <2>1, <2>2, <3>1, <3>2
  <2> QED BY <2>1, <2>3 DEF CountsInv
<1>6. CASE CheckQueue
  <2>1. PICK q \in Queues :
          /\ call # <<>> /\ call[1] = Recount(q) /\ Tail(call) \in Seq(Frame)
          /\ Counted(q, consumer) \in Nat
          /\ \A f : Appears(f, call) => f = Recount(q) \/ Appears(f, Tail(call))
          /\ \/ /\ q \in DOMAIN queue /\ ~queue[q].options.exclusive
                /\ DropQueue(q, "discard", Tail(call)) /\ ConsumersOf(q) = {}
             \/ /\ QueueReady(q, Counted(q, consumer)) => queue[q].options.exclusive
                /\ queue' = CountSet(q, Counted(q, consumer))
                /\ call' = Tail(call) /\ miscounted' = miscounted \ {q}
                /\ UNCHANGED <<consumer, owned, open>>
    BY <1>6, CheckedQueue
  <2>2. /\ \A t : Pending(ServerCancel(t)) => Pending(ServerCancel(t))'
        /\ \A r : r # q /\ Pending(Recount(r)) => Pending(Recount(r))'
    <3>1. ~CancelConsumer /\ Top.name = q
      BY <1>6, <2>1 DEF CheckQueue, CancelConsumer, Top, Recount
    <3> QED BY <3>1, CancelStays, RecountStays
  <2>3. UNCHANGED consumer /\ miscounted' = miscounted \ {q}
    BY <2>1 DEF DropQueue
  <2>4. \A r : ConsumersOf(r)' = ConsumersOf(r)
    BY <2>3 DEF ConsumersOf
  <2>5. /\ DOMAIN queue' \subseteq DOMAIN queue
        /\ \A r \in DOMAIN queue' : r # q => queue'[r] = queue[r]
    BY <2>1, CountSetKeeps DEF DropQueue, Without
  <2>6. q \in DOMAIN queue' => Accounted(q)'
    <3>1. CASE DropQueue(q, "discard", Tail(call))
      BY <3>1 DEF DropQueue, Without
    <3>2. CASE queue' = CountSet(q, Counted(q, consumer))
      BY <2>1, <2>4, <2>5, <3>2, CountSetKeeps, CountedConsumers DEF Accounted
    <3> QED BY <2>1, <3>1, <3>2
  <2> QED BY <1>0, <2>2, <2>3, <2>4, <2>5, <2>6 DEF CountsInv
<1>7. CASE CloseChannel
  <2>0. PICK c : c = Top.name
    OBVIOUS
  <2>1. /\ UNCHANGED <<queue, miscounted>>
        /\ DOMAIN consumer' = DOMAIN consumer \ OnNumber(c)
        /\ \A t \in DOMAIN consumer' : consumer'[t] = consumer[t]
        /\ \A t \in OnNumber(c) : Appears(Recount(consumer[t].queue), call')
    BY <1>7, <2>0, CloseChannelFrames DEF Without
  <2>2. /\ \A t : Pending(ServerCancel(t)) => Pending(ServerCancel(t))'
        /\ \A q : Pending(Recount(q)) => Pending(Recount(q))'
    <3>1. ~CheckQueue /\ ~CancelConsumer
      BY <1>7 DEF CheckQueue, CancelConsumer, CloseChannel
    <3> QED BY <3>1, CancelStays, RecountStays
  <2>3. ASSUME NEW q \in DOMAIN queue \ miscounted
        PROVE  Accounted(q)'
    <3>1. CASE \E t \in OnNumber(c) : consumer[t].queue = q
      BY <2>1, <3>1 DEF Accounted, Pending
    <3>2. CASE \A t \in OnNumber(c) : consumer[t].queue # q
      <4>1. ConsumersOf(q)' = ConsumersOf(q)
        BY <2>1, <3>2 DEF ConsumersOf, OnNumber
      <4> QED BY <1>0, <2>1, <2>2, <4>1
    <3> QED BY <3>1, <3>2
  <2> QED BY <2>1, <2>3 DEF CountsInv
<1>8. ASSUME NEW q \in Queues, Deleted(q)
      PROVE  CountsInv'
  <2>1. /\ UNCHANGED consumer /\ miscounted' = miscounted \ {q} /\ \A f : ~Pending(f)
        /\ DOMAIN queue' = DOMAIN queue \ {q} /\ \A r \in DOMAIN queue' : queue'[r] = queue[r]
    BY <1>8, EmptyCall DEF Deleted, DropQueue, Without
  <2>2. \A r : ConsumersOf(r)' = ConsumersOf(r)
    BY <2>1 DEF ConsumersOf
  <2> QED BY <1>0, <2>1, <2>2 DEF CountsInv
<1>9. ASSUME NEW conn \in Connections, DeleteExclusiveQueues(conn)
      PROVE  CountsInv'
  <2> DEFINE D == DeletedOnClose(conn)
  <2>1. /\ UNCHANGED <<call, consumer>> /\ miscounted' = miscounted \ D
        /\ DOMAIN queue' = DOMAIN queue \ D /\ \A q \in DOMAIN queue' : queue'[q] = queue[q]
    BY <1>9 DEF DeleteExclusiveQueues, Without
  <2> HIDE DEF D
  <2>2. /\ \A r : ConsumersOf(r)' = ConsumersOf(r)
        /\ \A f : Pending(f)' = Pending(f)
    BY <2>1 DEF ConsumersOf, Pending
  <2> QED BY <1>0, <2>1, <2>2 DEF CountsInv
<1> QED
  BY <1>1, <1>2, <1>3, <1>4, <1>5, <1>6, <1>7, <1>8, <1>9, LifecycleSteps

(* For well-behaved clients, the consumer count of every queue is right between
   any two calls, but for the queues a deletion took a consumer of, and every
   consumer has its queue. *)
THEOREM ConsumersAreCounted == ASSUME WellBehaved PROVE Spec => []ConsumersCounted
<1>1. Init => CancelsInv /\ OwnersInv /\ CountsInv
  BY EmptyCall, NoneToCancel DEF Init, OwnersInv, CountsInv
<1>2. CancelsInv /\ OwnersInv /\ CountsInv => ConsumersCounted
  BY EmptyCall DEF ConsumersCounted, Idle, OwnersInv, CountsInv, Placed, Accounted
<1>3. TypeOK /\ CancelsInv /\ OwnersInv /\ CountsInv /\ [Next]_vars => OwnersInv' /\ CountsInv'
  BY OwnersStep, CountsStep
<1> QED BY <1>1, <1>2, <1>3, CancelsStep, TopologyTypes, PTL DEF Spec
=============================================================================
