--------------------------- MODULE DeliveryProofs ---------------------------
(***************************************************************************)
(* Proofs about Delivery.                                                  *)
(*                                                                         *)
(* Type correctness and the consistency of the consumer registry, which    *)
(* are inductive only together.                                            *)
(*                                                                         *)
(* Then, that Delivery neither loses nor duplicates a message.  A message  *)
(* is at one place at a time: in the array of one store, in the map of one *)
(* channel, or done with.  Every step leaves it there or moves it from one *)
(* place to another, so the proof has a lemma for each way a message can   *)
(* move, and the steps of the specification are instances of these.        *)
(*                                                                         *)
(* Last, that Delivery keeps the order of fresh messages, marks exactly    *)
(* the redelivered ones, and implements QueueContract.  Both rest on the   *)
(* arrays of the stores being sorted: redelivered messages first, then     *)
(* fresh ones in the order of their ids.                                   *)
(***************************************************************************)
EXTENDS Delivery, SequenceLemmas

-----------------------------------------------------------------------------
(* Facts about the state *)

LEMMA FrameFields ==
  ASSUME NEW f \in Frame
  PROVE  /\ f.do \in {"drain", "dispatch"} => f.queue \in Queues /\ f.conn \in Connections
         /\ f.do = "get" => /\ f.queue \in Queues /\ f.channel \in Channels
                            /\ f.noAck \in BOOLEAN
         /\ f.do \in SettleKinds => f.channel \in Channels /\ f.tags \in SUBSET Nat
         /\ f.do = "cancel" => f.channel \in Channels /\ f.queues \in SUBSET Queues
  BY DEF Frame, SettleKinds

LEMMA TopOfCall ==
  ASSUME TypeOK, ~Idle
  PROVE  /\ Top \in Frame
         /\ Tail(call) \in Seq(Frame)
         /\ 1 \in 1 .. Len(call)
  BY EmptySeq, HeadTailProperties DEF TypeOK, Idle, Top

LEMMA FramesOK ==
  /\ \A conn \in Connections, q \in Queues : Drain(conn, q) \in Frame
  /\ \A how \in SettleKinds, c \in Channels, T \in SUBSET Nat : Settle(how, c, T) \in Frame
  /\ \A c \in Channels : ConnOf[c] \in Connections
  BY DEF Drain, Settle, Frame, Connections

LEMMA DispatchOrdersOK ==
  ASSUME NEW conn \in Connections, NEW S \in SUBSET Queues,
         NEW o \in DispatchOrders(conn, S)
  PROVE  o \in Seq(Frame)
<1>1. Cardinality(S) \in Nat
  <2>1. IsFiniteSet(Queues)
    BY DeliveryAssumption
  <2>2. IsFiniteSet(S)
    BY <2>1, FS_Subset
  <2> QED
    BY <2>2, FS_CardinalityType
<1>2. PICK s \in SetToSeqs(S) : o = [i \in DOMAIN s |-> Drain(conn, s[i])]
  BY DEF DispatchOrders
<1>3. s \in [1 .. Cardinality(S) -> S]
  BY <1>2 DEF SetToSeqs
<1>4. o \in [1 .. Cardinality(S) -> Frame]
  <2>1. \A i \in DOMAIN s : Drain(conn, s[i]) \in Frame
    BY <1>3, FramesOK
  <2> QED
    BY <1>2, <1>3, <2>1
<1> QED
  BY <1>1, <1>4, SeqDef

(* The first frame may be changed in place. *)
LEMMA TopChanged ==
  ASSUME TypeOK, ~Idle, NEW f \in Frame
  PROVE  [call EXCEPT ![1] = f] \in Seq(Frame)
  BY TopOfCall, ExceptSeq DEF TypeOK

LEMMA TagsOK ==
  ASSUME TypeOK, NEW c \in Channels
  PROVE  TagsOf(c) \in SUBSET Nat
  BY DEF TypeOK, TagsOf, Unacked

LEMMA StoredHead ==
  ASSUME TypeOK, NEW q \in Queues, store[q] # <<>>
  PROVE  /\ Head(store[q]) \in Message
         /\ Tail(store[q]) \in Seq(Message)
         /\ Head(store[q]).id \in Ids
<1>1. store[q] \in Seq(Message)
  BY DEF TypeOK
<1>2. Head(store[q]) \in Message /\ Tail(store[q]) \in Seq(Message)
  BY <1>1, HeadTailProperties
<1> QED
  BY <1>2 DEF Message

(* A consumer of a queue is registered, for that queue. *)
LEMMA ConsumerEntry ==
  ASSUME TypeOK, RegistryConsistent, NEW q \in Queues, NEW k \in DOMAIN byQueue[q]
  PROVE  /\ byQueue[q][k] \in Tags
         /\ byTag[byQueue[q][k]] \in Entry
         /\ byTag[byQueue[q][k]].queue = q
<1>1. byQueue[q][k] \in Tags
  BY DEF TypeOK
<1>2. byQueue[q][k] \in ToSet(byQueue[q])
  BY DEF ToSet
<1> QED
  BY <1>1, <1>2 DEF TypeOK, RegistryConsistent, Registered

LEMMA GroupOK ==
  ASSUME TypeOK, NEW q \in Queues, NEW k \in DOMAIN byQueue[q]
  PROVE  NextIndex(q, k) \in Nat
<1> DEFINE n == Len(byQueue[q])
<1>1. n \in Nat /\ DOMAIN byQueue[q] = 1 .. n
  BY LenProperties DEF TypeOK
<1>2. Group(q, k) \subseteq 1 .. n /\ k \in Group(q, k)
  BY <1>1 DEF Group, Consumers
<1>3. IsFiniteSet(Group(q, k))
  <2>1. IsFiniteSet(1 .. n)
    BY <1>1, FS_Interval
  <2> QED
    BY <1>2, <2>1, FS_Subset
<1>4. Cardinality(Group(q, k)) \in Nat /\ Cardinality(Group(q, k)) # 0
  BY <1>2, <1>3, FS_CardinalityType, FS_EmptySet
<1>5. Min(Group(q, k)) \in Nat /\ k \in Nat
  BY <1>1, <1>2, MinProperties
<1> DEFINE o == Offset(q, k)
           g == Cardinality(Group(q, k))
<1>6. o \in Int /\ g \in Nat /\ g # 0
  BY <1>4, <1>5 DEF Offset
<1> HIDE DEF o, g
<1>7. (o + 1) % g \in Nat
  BY <1>6
<1> QED
  BY <1>7 DEF NextIndex, o, g

-----------------------------------------------------------------------------
(* Every action preserves the type invariant *)

LEMMA InitType == Init => TypeOK
  BY DeliveryAssumption DEF Init, TypeOK, Channel, Entry, Ids, Message, Unacked, Frame

LEMMA DropExpiredType ==
  ASSUME TypeOK, DropExpired
  PROVE  TypeOK'
<1> DEFINE q == Top.queue
<1>1. q \in Queues
  BY TopOfCall, FrameFields DEF DropExpired
<1>2. Tail(store[q]) \in Seq(Message) /\ Head(store[q]).id \in Ids
  BY <1>1, StoredHead DEF DropExpired, HeadExpired
<1>3. store' \in [Queues -> Seq(Message)] /\ done' \subseteq Ids
  BY <1>1, <1>2 DEF TypeOK, DropExpired
<1> QED
  BY <1>3 DEF TypeOK, DropExpired, clientVars

LEMMA DrainEndType ==
  ASSUME TypeOK, DrainEnd
  PROVE  TypeOK'
<1>1. [Top EXCEPT !.do = "dispatch"] \in Frame
  BY TopOfCall DEF DrainEnd, Frame, SettleKinds
<1>2. call' = [call EXCEPT ![1] = [Top EXCEPT !.do = "dispatch"]]
  BY DEF DrainEnd, Top
<1>3. call' \in Seq(Frame)
  BY <1>1, <1>2, TopChanged DEF DrainEnd
<1> QED
  BY <1>3 DEF TypeOK, DrainEnd, brokerVars, clientVars, historyVars

(* The tag sequence and the record of a delivery, of dispatch and get alike. *)
LEMMA TrackType ==
  ASSUME TypeOK, NEW q \in Queues, store[q] # <<>>, NEW c \in Channels,
         NEW t \in Tags \cup {NoConsumer}
  PROVE  LET m == Head(store[q])
             tag == NextTag(c)
         IN  /\ [store EXCEPT ![q] = Tail(@)] \in [Queues -> Seq(Message)]
             /\ [channel EXCEPT ![c].tagSeq = tag] \in [Channels -> Channel]
             /\ [unacked EXCEPT ![c] = @ \cup
                   {[tag |-> tag, message |-> m, queue |-> q, consumer |-> t]}]
                  \in [Channels -> SUBSET Unacked]
             /\ [tag |-> tag, consumer |-> t, id |-> m.id] \in Delivered
<1> DEFINE m == Head(store[q])
           tag == NextTag(c)
<1>1. m \in Message /\ Tail(store[q]) \in Seq(Message) /\ m.id \in Ids
  BY StoredHead
<1>2. tag \in Nat /\ channel[c] \in Channel
  BY DEF TypeOK, Channel, NextTag
<1>3. [channel[c] EXCEPT !.tagSeq = tag] \in Channel
  BY <1>2 DEF Channel
<1>4. [tag |-> tag, message |-> m, queue |-> q, consumer |-> t] \in Unacked
  BY <1>1, <1>2 DEF Unacked
<1>5. [tag |-> tag, consumer |-> t, id |-> m.id] \in Delivered
  BY <1>1, <1>2 DEF Delivered
<1> HIDE DEF m, tag
<1>6. [store EXCEPT ![q] = Tail(@)] \in [Queues -> Seq(Message)]
  BY <1>1 DEF TypeOK
<1>7. [channel EXCEPT ![c].tagSeq = tag] \in [Channels -> Channel]
  BY <1>3 DEF TypeOK
<1>8. [unacked EXCEPT ![c] = @ \cup
          {[tag |-> tag, message |-> m, queue |-> q, consumer |-> t]}]
        \in [Channels -> SUBSET Unacked]
  BY <1>4 DEF TypeOK
<1> QED
  BY <1>5, <1>6, <1>7, <1>8 DEF m, tag

LEMMA DispatchStepType ==
  ASSUME TypeOK, RegistryConsistent, DispatchStep
  PROVE  TypeOK'
<1> DEFINE q == Top.queue
<1>1. q \in Queues /\ store[q] # <<>>
  BY TopOfCall, FrameFields DEF DispatchStep
<1>2. PICK k \in DOMAIN Consumers(q) :
        /\ Rotate(q, k)
        /\ \E c \in EligibleOn(Top.conn, Consumers(q)[k]) : Deliver(q, Consumers(q)[k], c)
  BY DEF DispatchStep
<1> DEFINE t == Consumers(q)[k]
<1>3. PICK c \in EligibleOn(Top.conn, t) : Deliver(q, t, c)
  BY <1>2
<1>4. c \in Channels
  BY <1>3 DEF EligibleOn, GetChannel
<1>5. t \in Tags /\ byTag[t] \in Entry
  BY <1>1, <1>2, ConsumerEntry DEF Consumers
<1> HIDE DEF q, t
<1> DEFINE m == Head(store[q])
           tag == NextTag(c)
<1>6. /\ store' \in [Queues -> Seq(Message)]
      /\ channel' \in [Channels -> Channel]
      /\ unacked' \in [Channels -> SUBSET Unacked]
      /\ [tag |-> tag, consumer |-> t, id |-> m.id] \in Delivered
  <2>1. /\ [store EXCEPT ![q] = Tail(@)] \in [Queues -> Seq(Message)]
        /\ [channel EXCEPT ![c].tagSeq = tag] \in [Channels -> Channel]
        /\ [unacked EXCEPT ![c] = @ \cup
              {[tag |-> tag, message |-> m, queue |-> q, consumer |-> t]}]
             \in [Channels -> SUBSET Unacked]
        /\ [tag |-> tag, consumer |-> t, id |-> m.id] \in Delivered
    BY <1>1, <1>4, <1>5, TrackType
  <2>2. unacked \in [Channels -> SUBSET Unacked]
    BY DEF TypeOK
  <2> QED
    BY <1>3, <2>1, <2>2 DEF Deliver
<1>7. m.id \in Ids
  BY <1>1, StoredHead
<1>8. done' \subseteq Ids /\ delivered' \subseteq Ids
  BY <1>3, <1>7 DEF Deliver, TypeOK
<1>9. byTag' \in [Tags -> Entry \cup {NoConsumer}]
  <2>1. [byTag[t] EXCEPT !.unackedCount = @ + 1] \in Entry
    BY <1>5 DEF Entry
  <2> QED
    BY <1>3, <2>1 DEF Deliver, TypeOK
<1>10. microtasks' \in Seq([channel : Channels, noAck : BOOLEAN, message : Delivered])
  <2>1. byTag[t].channel \in Channels /\ byTag[t].noAck \in BOOLEAN
    BY <1>5 DEF Entry
  <2>2. [channel |-> byTag[t].channel, noAck |-> byTag[t].noAck,
         message |-> [tag |-> tag, consumer |-> t, id |-> m.id]]
          \in [channel : Channels, noAck : BOOLEAN, message : Delivered]
    BY <1>6, <2>1
  <2> QED
    BY <1>3, <2>2, AppendProperties DEF Deliver, TypeOK
<1>11. rrIndex' \in [Queues -> Nat] /\ priorityRrIndex' \in [Queues -> [Priorities -> Nat]]
  <2>1. NextIndex(q, k) \in Nat
    BY <1>1, <1>2, GroupOK DEF Consumers
  <2>2. \/ UNCHANGED <<rrIndex, priorityRrIndex>>
        \/ /\ priorityRrIndex' =
                 [priorityRrIndex EXCEPT ![q][PriorityAt(q, k)] = NextIndex(q, k)]
           /\ UNCHANGED rrIndex
        \/ /\ rrIndex' = [rrIndex EXCEPT ![q] = NextIndex(q, k)]
           /\ UNCHANGED priorityRrIndex
    BY <1>2 DEF Rotate
  <2>3. rrIndex \in [Queues -> Nat] /\ priorityRrIndex \in [Queues -> [Priorities -> Nat]]
    BY DEF TypeOK
  <2>4. [rrIndex EXCEPT ![q] = NextIndex(q, k)] \in [Queues -> Nat]
    BY <1>1, <2>1, <2>3
  <2>5. [priorityRrIndex EXCEPT ![q][PriorityAt(q, k)] = NextIndex(q, k)]
          \in [Queues -> [Priorities -> Nat]]
    BY <1>1, <2>1, <2>3
  <2> QED
    BY <2>2, <2>3, <2>4, <2>5
<1> QED
  BY <1>6, <1>8, <1>9, <1>10, <1>11 DEF TypeOK, DispatchStep

LEMMA PopType ==
  ASSUME TypeOK, ~Idle, Pop
  PROVE  call' \in Seq(Frame)
  BY TopOfCall DEF Pop

LEMMA GetTakeType ==
  ASSUME TypeOK, GetTake
  PROVE  TypeOK'
<1> DEFINE q == Top.queue
           c == Top.channel
           m == Head(store[q])
           tag == NextTag(c)
<1>1. q \in Queues /\ store[q] # <<>> /\ c \in Channels
  BY TopOfCall, FrameFields DEF GetTake
<1>2. /\ [store EXCEPT ![q] = Tail(@)] \in [Queues -> Seq(Message)]
      /\ [channel EXCEPT ![c].tagSeq = tag] \in [Channels -> Channel]
      /\ [unacked EXCEPT ![c] = @ \cup
            {[tag |-> tag, message |-> m, queue |-> q, consumer |-> NoConsumer]}]
           \in [Channels -> SUBSET Unacked]
      /\ [tag |-> tag, consumer |-> NoConsumer, id |-> m.id] \in Delivered
  BY <1>1, TrackType
<1>3. m.id \in Ids
  BY <1>1, StoredHead
<1>4. call' \in Seq(Frame)
  BY PopType DEF GetTake
<1>5. /\ store' = [store EXCEPT ![q] = Tail(@)]
      /\ channel' = [channel EXCEPT ![c].tagSeq = tag]
      /\ delivered' = delivered \cup {m.id}
      /\ \/ done' = done \cup {m.id} /\ UNCHANGED <<unacked, held>>
         \/ /\ unacked' = [unacked EXCEPT ![c] = @ \cup
                 {[tag |-> tag, message |-> m, queue |-> q, consumer |-> NoConsumer]}]
            /\ held' = [held EXCEPT ![c] = @ \cup
                 {[tag |-> tag, consumer |-> NoConsumer, id |-> m.id]}]
            /\ UNCHANGED done
  BY DEF GetTake
<1>6. UNCHANGED <<byTag, byQueue, rrIndex, priorityRrIndex, microtasks, expired, published, used>>
  BY DEF GetTake
<1> HIDE DEF q, c, m, tag
<1>7. held' \in [Channels -> SUBSET Delivered]
  <2> DEFINE d == [tag |-> tag, consumer |-> NoConsumer, id |-> m.id]
  <2>1. d \in Delivered
    BY <1>2
  <2>2. held' = held \/ held' = [held EXCEPT ![c] = @ \cup {d}]
    BY <1>5
  <2> HIDE DEF d
  <2>3. held \in [Channels -> SUBSET Delivered]
    BY DEF TypeOK
  <2>4. [held EXCEPT ![c] = @ \cup {d}] \in [Channels -> SUBSET Delivered]
    BY <1>1, <2>1, <2>3
  <2> QED
    BY <2>2, <2>3, <2>4
<1> QED
  BY <1>2, <1>3, <1>4, <1>5, <1>6, <1>7 DEF TypeOK

LEMMA SettleStepType ==
  ASSUME TypeOK, SettleStep
  PROVE  TypeOK'
<1>1. PICK u \in unacked[Top.channel] :
        /\ unacked' = Removed(Top.channel, u)
        /\ \/ /\ Top.do \in {"ack", "discard"}
              /\ done' = done \cup {u.message.id}
              /\ UNCHANGED store
           \/ /\ Top.do \in {"requeue", "return"}
              /\ store' = Requeued(u)
              /\ UNCHANGED done
        /\ call' = Settled(u)
  BY DEF SettleStep
<1>2. Top \in Frame /\ Top.channel \in Channels /\ Top.tags \in SUBSET Nat /\ ~Idle
  BY TopOfCall, FrameFields DEF SettleStep
<1>3. u \in Unacked
  BY <1>1, <1>2 DEF TypeOK
<1>4. store' \in [Queues -> Seq(Message)]
  <2>1. Recounted(u.message) \in Message /\ u.queue \in Queues
    BY <1>3 DEF Recounted, Unacked, Message
  <2>2. <<Recounted(u.message)>> \o store[u.queue] \in Seq(Message)
    BY <2>1, Prepended DEF TypeOK
  <2> QED
    BY <1>1, <2>1, <2>2 DEF TypeOK, Requeued
<1>5. done' \subseteq Ids
  BY <1>1, <1>3 DEF TypeOK, Unacked, Message
<1>6. unacked' \in [Channels -> SUBSET Unacked]
  BY <1>1 DEF TypeOK, Removed
<1>7. Remaining(u) \in Seq(Frame)
  <2>1. [Top EXCEPT !.tags = @ \ {u.tag}] \in Frame
    BY <1>2 DEF Frame, SettleKinds, SettleStep
  <2>2. Remaining(u) = [call EXCEPT ![1] = [Top EXCEPT !.tags = @ \ {u.tag}]]
    BY DEF Remaining, Top
  <2> QED
    BY <1>2, <2>1, <2>2, TopChanged
<1>8. Drain(ConnOf[Top.channel], u.queue) \in Frame
  BY <1>2, <1>3, FramesOK DEF Unacked
<1>9. call' \in Seq(Frame)
  BY <1>1, <1>7, <1>8, AppendProperties DEF Settled
<1> QED
  BY <1>4, <1>5, <1>6, <1>9 DEF TypeOK, SettleStep, clientVars

-----------------------------------------------------------------------------
(* The consumer registry *)

(* What RegistryConsistent says of one queue and its consumers. *)
LEMMA QueueOf ==
  ASSUME TypeOK, RegistryConsistent, NEW q \in Queues
  PROVE  /\ byQueue[q] \in Seq(Tags)
         /\ Len(byQueue[q]) \in Nat
         /\ DOMAIN byQueue[q] = 1 .. Len(byQueue[q])
         /\ \A i, j \in 1 .. Len(byQueue[q]) : byQueue[q][i] = byQueue[q][j] => i = j
         /\ \A i \in 1 .. Len(byQueue[q]) :
              /\ byQueue[q][i] \in Tags /\ byTag[byQueue[q][i]] \in Entry
              /\ Registered(byQueue[q][i])
              /\ byTag[byQueue[q][i]].queue = q
              /\ byTag[byQueue[q][i]].exclusive => Len(byQueue[q]) = 1
         /\ q \notin SacQueues => \A i, j \in 1 .. Len(byQueue[q]) :
              i < j => byTag[byQueue[q][i]].priority >= byTag[byQueue[q][j]].priority
<1>1. byQueue[q] \in Seq(Tags)
  BY DEF TypeOK
<1>2. Len(byQueue[q]) \in Nat /\ DOMAIN byQueue[q] = 1 .. Len(byQueue[q])
  BY <1>1, LenProperties
<1>3. \A i, j \in 1 .. Len(byQueue[q]) : byQueue[q][i] = byQueue[q][j] => i = j
  BY <1>2 DEF RegistryConsistent, IsInjective
<1>4. ASSUME NEW i \in 1 .. Len(byQueue[q])
      PROVE  /\ byQueue[q][i] \in Tags /\ byTag[byQueue[q][i]] \in Entry
             /\ Registered(byQueue[q][i])
             /\ byTag[byQueue[q][i]].queue = q
             /\ byTag[byQueue[q][i]].exclusive => Len(byQueue[q]) = 1
  <2>1. byQueue[q][i] \in ToSet(byQueue[q]) /\ byQueue[q][i] \in Tags
    BY <1>1, <1>2 DEF ToSet
  <2>2. Registered(byQueue[q][i]) /\ byTag[byQueue[q][i]].queue = q
    BY <2>1 DEF RegistryConsistent
  <2>3. byTag[byQueue[q][i]].exclusive => Len(byQueue[q]) = 1
    BY <1>2 DEF RegistryConsistent
  <2>4. byTag[byQueue[q][i]] \in Entry
    BY <2>1, <2>2 DEF TypeOK, Registered
  <2> QED
    BY <2>1, <2>2, <2>3, <2>4
<1>5. ASSUME q \notin SacQueues, NEW i \in 1 .. Len(byQueue[q]),
             NEW j \in 1 .. Len(byQueue[q]), i < j
      PROVE  byTag[byQueue[q][i]].priority >= byTag[byQueue[q][j]].priority
  BY <1>2, <1>5 DEF RegistryConsistent, PriorityAt, Consumers
<1> QED
  BY <1>1, <1>2, <1>3, <1>4, <1>5

(* The same of the next state, from which RegistryConsistent' follows. *)
LEMMA RegistryNext ==
  ASSUME byQueue' \in [Queues -> Seq(Tags)],
         \A q \in Queues : \A i, j \in 1 .. Len(byQueue'[q]) :
           byQueue'[q][i] = byQueue'[q][j] => i = j,
         \A t \in Tags, q \in Queues :
           (\E i \in 1 .. Len(byQueue'[q]) : byQueue'[q][i] = t)
             <=> byTag'[t] # NoConsumer /\ byTag'[t].queue = q,
         \A q \in Queues \ SacQueues : \A i, j \in 1 .. Len(byQueue'[q]) :
           i < j => byTag'[byQueue'[q][i]].priority >= byTag'[byQueue'[q][j]].priority,
         \A q \in Queues : \A i \in 1 .. Len(byQueue'[q]) :
           byTag'[byQueue'[q][i]].exclusive => Len(byQueue'[q]) = 1
  PROVE  RegistryConsistent'
<1>1. \A q \in Queues : DOMAIN byQueue'[q] = 1 .. Len(byQueue'[q])
  BY LenProperties
<1>2. \A q \in Queues : IsInjective(byQueue'[q])
  BY <1>1 DEF IsInjective
<1>3. \A t \in Tags, q \in Queues :
        t \in ToSet(byQueue'[q]) <=> byTag'[t] # NoConsumer /\ byTag'[t].queue = q
  BY <1>1 DEF ToSet
<1>4. \A q \in Queues \ SacQueues : \A i, j \in DOMAIN byQueue'[q] :
        i < j => byTag'[byQueue'[q][i]].priority >= byTag'[byQueue'[q][j]].priority
  BY <1>1
<1>5. \A q \in Queues : \A i \in DOMAIN byQueue'[q] :
        byTag'[byQueue'[q][i]].exclusive => Len(byQueue'[q]) = 1
  BY <1>1
<1> QED
  BY <1>2, <1>3, <1>4, <1>5 DEF RegistryConsistent, Registered, PriorityAt, Consumers

LEMMA Unregistering ==
  ASSUME TypeOK, RegistryConsistent, NEW t \in Tags, Registered(t), Unregister(t)
  PROVE  /\ byTag' \in [Tags -> Entry \cup {NoConsumer}]
         /\ byQueue' \in [Queues -> Seq(Tags)]
         /\ RegistryConsistent'
<1> DEFINE q == byTag[t].queue
           s == byQueue[q]
           r == byQueue'[q]
<1>1. q \in Queues /\ byTag[t] \in Entry
  BY DEF TypeOK, Registered, Entry
<1>2. PICK i \in 1 .. Len(s) : s[i] = t /\ byQueue' = [byQueue EXCEPT ![q] = RemoveAt(@, i)]
  BY <1>1, QueueOf DEF Unregister
<1>3. r = RemoveAt(s, i) /\ \A p \in Queues \ {q} : byQueue'[p] = byQueue[p]
  BY <1>1, <1>2 DEF TypeOK
<1>4. /\ r \in Seq(Tags)
      /\ Len(r) = Len(s) - 1
      /\ \A j \in 1 .. Len(s) - 1 : r[j] = IF j < i THEN s[j] ELSE s[j + 1]
  <2>1. s \in Seq(Tags)
    BY <1>1 DEF TypeOK
  <2> HIDE DEF s, r
  <2> QED
    BY <1>2, <1>3, <2>1, RemovedAt
<1>5. byTag' = [byTag EXCEPT ![t] = NoConsumer]
  BY DEF Unregister
<1>6. byQueue' \in [Queues -> Seq(Tags)]
  BY <1>1, <1>2, <1>3, <1>4 DEF TypeOK
<1>7. byTag' \in [Tags -> Entry \cup {NoConsumer}]
  BY <1>5 DEF TypeOK
<1>8. /\ byTag'[t] = NoConsumer
      /\ \A x \in Tags \ {t} : byTag'[x] = byTag[x]
  BY <1>5 DEF TypeOK
<1>9. Len(s) \in Nat /\ i \in Nat /\ 1 <= i /\ i <= Len(s)
  BY <1>1, QueueOf
<1> DEFINE old(j) == IF j < i THEN j ELSE j + 1
<1> HIDE DEF q, s, r
<1>10. \A j \in 1 .. Len(r) : old(j) \in 1 .. Len(s) /\ old(j) # i /\ r[j] = s[old(j)]
  BY <1>4, <1>9
<1>11. \A j, k \in 1 .. Len(r) :
         (old(j) = old(k) => j = k) /\ (j < k => old(j) < old(k))
  BY <1>4, <1>9
<1>12. \A k \in 1 .. Len(s) : k # i => \E j \in 1 .. Len(r) : old(j) = k
  <2> TAKE k \in 1 .. Len(s)
  <2> HAVE k # i
  <2>1. CASE k < i
    <3>1. k \in 1 .. Len(r) /\ old(k) = k
      BY <1>4, <1>9, <2>1
    <3> QED
      BY <3>1
  <2>2. CASE k > i
    <3>1. k - 1 \in 1 .. Len(r) /\ old(k - 1) = k
      BY <1>4, <1>9, <2>2
    <3> QED
      BY <3>1
  <2> QED
    BY <1>9, <2>1, <2>2
<1> HIDE DEF old
<1>13. /\ \A j, k \in 1 .. Len(s) : s[j] = s[k] => j = k
       /\ \A j \in 1 .. Len(s) : s[j] \in Tags /\ byTag[s[j]] # NoConsumer /\ byTag[s[j]].queue = q
       /\ \A j \in 1 .. Len(s) : byTag[s[j]].exclusive => Len(s) = 1
       /\ q \notin SacQueues => \A j, k \in 1 .. Len(s) :
            j < k => byTag[s[j]].priority >= byTag[s[k]].priority
  BY SMTT(30), <1>1, QueueOf DEF q, s, Registered
<1>14. \A j \in 1 .. Len(r) : r[j] \in Tags \ {t}
  BY <1>2, <1>10, <1>13 DEF s
<1>15. ASSUME NEW p \in Queues
       PROVE  /\ \A j, k \in 1 .. Len(byQueue'[p]) :
                   byQueue'[p][j] = byQueue'[p][k] => j = k
              /\ \A x \in Tags :
                   (\E j \in 1 .. Len(byQueue'[p]) : byQueue'[p][j] = x)
                     <=> byTag'[x] # NoConsumer /\ byTag'[x].queue = p
              /\ p \notin SacQueues => \A j, k \in 1 .. Len(byQueue'[p]) :
                   j < k => byTag'[byQueue'[p][j]].priority >= byTag'[byQueue'[p][k]].priority
              /\ \A j \in 1 .. Len(byQueue'[p]) :
                   byTag'[byQueue'[p][j]].exclusive => Len(byQueue'[p]) = 1
  <2>1. CASE p = q
    <3>1. byQueue'[p] = r
      BY <2>1 DEF r, q
    <3>2. \A j, k \in 1 .. Len(r) : r[j] = r[k] => j = k
      BY <1>10, <1>11, <1>13
    <3>3. ASSUME q \notin SacQueues, NEW j \in 1 .. Len(r), NEW k \in 1 .. Len(r), j < k
          PROVE  byTag'[r[j]].priority >= byTag'[r[k]].priority
      <4>1. byTag'[r[j]] = byTag[s[old(j)]] /\ byTag'[r[k]] = byTag[s[old(k)]]
        BY <1>8, <1>10, <1>14
      <4>2. old(j) \in 1 .. Len(s) /\ old(k) \in 1 .. Len(s) /\ old(j) < old(k)
        BY <3>3, <1>10, <1>11
      <4>3. byTag[s[old(j)]].priority >= byTag[s[old(k)]].priority
        BY <3>3, <4>2, <1>13
      <4> QED
        BY <4>1, <4>3
    <3>4. \A j \in 1 .. Len(r) : byTag'[r[j]].exclusive => Len(r) = 1
      <4> SUFFICES ASSUME NEW j \in 1 .. Len(r), byTag'[r[j]].exclusive PROVE FALSE
        OBVIOUS
      <4>1. byTag[s[old(j)]].exclusive
        BY <1>8, <1>10, <1>14
      <4>2. Len(s) = 1
        BY <1>10, <1>13, <4>1
      <4> QED
        BY <1>4, <1>9, <4>2
    <3>5. ASSUME NEW x \in Tags
          PROVE  (\E j \in 1 .. Len(r) : r[j] = x) <=> byTag'[x] # NoConsumer /\ byTag'[x].queue = q
      <4>1. CASE x = t
        BY <4>1, <1>8, <1>14
      <4>2. CASE x # t
        <5>1. (\E k \in 1 .. Len(s) : s[k] = x) <=> byTag[x] # NoConsumer /\ byTag[x].queue = q
          <6>1. DOMAIN s = 1 .. Len(s)
            BY <1>1, QueueOf DEF s, q
          <6> QED
            BY <1>1, <6>1 DEF RegistryConsistent, Registered, ToSet, s, q
        <5>2. (\E j \in 1 .. Len(r) : r[j] = x) <=> (\E k \in 1 .. Len(s) : s[k] = x)
          BY <4>2, <1>2, <1>10, <1>12 DEF s
        <5> QED
          BY <4>2, <5>1, <5>2, <1>8
      <4> QED
        BY <4>1, <4>2
    <3> QED
      BY <2>1, <3>1, <3>2, <3>3, <3>4, <3>5
  <2>2. CASE p # q
    <3>1. byQueue'[p] = byQueue[p]
      BY <2>2, <1>3 DEF q
    <3>2. \A j \in 1 .. Len(byQueue[p]) : byQueue[p][j] \in Tags \ {t}
      BY <2>2, QueueOf DEF q
    <3>3. ASSUME NEW x \in Tags
          PROVE  (\E j \in 1 .. Len(byQueue[p]) : byQueue[p][j] = x)
                   <=> byTag'[x] # NoConsumer /\ byTag'[x].queue = p
      <4>1. DOMAIN byQueue[p] = 1 .. Len(byQueue[p])
        BY QueueOf
      <4>2. (\E j \in 1 .. Len(byQueue[p]) : byQueue[p][j] = x)
              <=> byTag[x] # NoConsumer /\ byTag[x].queue = p
        BY <4>1 DEF RegistryConsistent, Registered, ToSet
      <4> QED
        BY <4>2, <1>8, <2>2 DEF q
    <3> QED
      BY <3>1, <3>2, <3>3, <1>8, QueueOf
  <2> QED
    BY <2>1, <2>2
<1>16. RegistryConsistent'
  BY <1>6, <1>15, RegistryNext
<1> QED
  BY <1>6, <1>7, <1>16

(* Where register inserts: nothing of a lower priority stands before it,
   nothing of the same or a higher one behind it. *)
LEMMA InsertPositionOK ==
  ASSUME TypeOK, RegistryConsistent, NEW q \in Queues, NEW p \in Nat
  PROVE  /\ InsertPosition(q, p) \in 1 .. Len(byQueue[q]) + 1
         /\ q \notin SacQueues => \A i \in 1 .. Len(byQueue[q]) :
              IF i < InsertPosition(q, p) THEN byTag[byQueue[q][i]].priority >= p
              ELSE p >= byTag[byQueue[q][i]].priority
<1> DEFINE n == Len(byQueue[q])
           prio(i) == byTag[byQueue[q][i]].priority
           lower == {i \in 1 .. n : prio(i) < p}
<1>1. n \in Nat /\ DOMAIN byQueue[q] = 1 .. n
  BY QueueOf
<1>2. \A i \in 1 .. n : prio(i) \in Nat
  <2> TAKE i \in 1 .. n
  <2>1. byTag[byQueue[q][i]] \in Entry
    BY QueueOf
  <2>2. Priorities \subseteq Nat
    BY DeliveryAssumption DEF Priorities
  <2> QED
    BY <2>1, <2>2 DEF Entry
<1>3. q \notin SacQueues => \A i, j \in 1 .. n : i < j => prio(i) >= prio(j)
  BY QueueOf
<1>4. InsertPosition(q, p) = IF q \in SacQueues \/ lower = {} THEN n + 1 ELSE Min(lower)
  BY <1>1 DEF InsertPosition, PriorityAt, Consumers
<1>5. lower # {} => Min(lower) \in lower /\ \A i \in lower : Min(lower) <= i
  <2>1. lower \in SUBSET Nat
    BY <1>1
  <2> QED
    BY <2>1, MinProperties
<1> HIDE DEF prio, n
<1>6. CASE q \in SacQueues \/ lower = {}
  BY <1>1, <1>2, <1>4, <1>6 DEF n, prio
<1>7. CASE ~(q \in SacQueues \/ lower = {})
  <2> DEFINE m == Min(lower)
  <2>1. m \in 1 .. n /\ prio(m) < p /\ InsertPosition(q, p) = m
    BY <1>4, <1>5, <1>7
  <2>2. \A i \in 1 .. n : i < m => ~(prio(i) < p)
    BY <1>1, <1>5, <1>7
  <2> HIDE DEF m
  <2>3. \A i \in 1 .. n : IF i < m THEN prio(i) >= p ELSE p >= prio(i)
    <3> TAKE i \in 1 .. n
    <3>1. CASE i < m
      BY <3>1, <1>1, <1>2, <2>1, <2>2
    <3>2. CASE i = m
      BY <3>2, <1>1, <1>2, <2>1
    <3>3. CASE m < i
      <4>1. prio(m) >= prio(i)
        BY <3>3, <1>3, <1>7, <2>1
      <4> QED
        BY <3>3, <4>1, <1>1, <1>2, <2>1
    <3> QED
      BY <3>1, <3>2, <3>3, <1>1, <2>1
  <2> QED
    BY <1>1, <2>1, <2>3 DEF n, prio
<1> QED
  BY <1>6, <1>7

LEMMA Registering ==
  ASSUME TypeOK, RegistryConsistent,
         NEW c \in Channels, NEW q \in Queues, NEW t \in Tags, NEW o \in ConsumeOptions,
         Consume(c, q, t, o)
  PROVE  /\ byTag' \in [Tags -> Entry \cup {NoConsumer}]
         /\ byQueue' \in [Queues -> Seq(Tags)]
         /\ RegistryConsistent'
<1> DEFINE s == byQueue[q]
           r == byQueue'[q]
           at == InsertPosition(q, o.priority)
           e == [queue |-> q, channel |-> c, noAck |-> o.noAck, exclusive |-> o.exclusive,
                 priority |-> o.priority, unackedCount |-> 0]
<1>1. /\ ~Registered(t)
      /\ o.exclusive => byQueue[q] = <<>>
      /\ \A i \in DOMAIN byQueue[q] : ~byTag[byQueue[q][i]].exclusive
      /\ byTag' = [byTag EXCEPT ![t] = e]
      /\ byQueue' = [byQueue EXCEPT ![q] = InsertAt(@, at, t)]
  BY DEF Consume
<1>2. /\ e \in Entry
      /\ o.priority \in Nat
      /\ e.queue = q /\ e.priority = o.priority /\ e.exclusive = o.exclusive
  BY DeliveryAssumption DEF Entry, Priorities
<1>3. e # NoConsumer
  BY <1>2, EntryAssumption
<1>4. /\ s \in Seq(Tags) /\ Len(s) \in Nat /\ DOMAIN s = 1 .. Len(s)
      /\ \A j, k \in 1 .. Len(s) : s[j] = s[k] => j = k
      /\ \A j \in 1 .. Len(s) : s[j] \in Tags /\ Registered(s[j])
      /\ q \notin SacQueues => \A j, k \in 1 .. Len(s) :
           j < k => byTag[s[j]].priority >= byTag[s[k]].priority
  BY QueueOf
<1>5. \A j \in 1 .. Len(s) : ~byTag[s[j]].exclusive
  BY <1>1, <1>4
<1>6. \A j \in 1 .. Len(s) : s[j] # t
  BY <1>1, <1>4
<1>7. /\ at \in 1 .. Len(s) + 1
      /\ q \notin SacQueues => \A j \in 1 .. Len(s) :
           IF j < at THEN byTag[s[j]].priority >= o.priority
           ELSE o.priority >= byTag[s[j]].priority
  BY <1>2, InsertPositionOK
<1>8. byTag' \in [Tags -> Entry \cup {NoConsumer}]
  BY <1>1, <1>2 DEF TypeOK
<1>9. byTag'[t] = e /\ \A x \in Tags \ {t} : byTag'[x] = byTag[x]
  BY <1>1 DEF TypeOK
<1> HIDE DEF at, e
<1>10. r = InsertAt(s, at, t) /\ \A p \in Queues \ {q} : byQueue'[p] = byQueue[p]
  BY <1>1 DEF TypeOK
<1> HIDE DEF s, r
<1>11. /\ r \in Seq(Tags)
       /\ Len(r) = Len(s) + 1
       /\ \A j \in 1 .. Len(s) + 1 :
            r[j] = IF j < at THEN s[j] ELSE IF j = at THEN t ELSE s[j - 1]
  <2>1. s \in Seq(Tags) /\ at \in 1 .. Len(s) + 1
    BY <1>4, <1>7
  <2>2. /\ InsertAt(s, at, t) \in Seq(Tags)
        /\ Len(InsertAt(s, at, t)) = Len(s) + 1
        /\ \A j \in 1 .. Len(s) + 1 :
             InsertAt(s, at, t)[j] =
               IF j < at THEN s[j] ELSE IF j = at THEN t ELSE s[j - 1]
    <3>1. PICK n \in 1 .. Len(s) + 1 : n = at
      BY <2>1
    <3>2. t \in Tags
      OBVIOUS
    <3>3. /\ InsertAt(s, n, t) \in Seq(Tags)
          /\ Len(InsertAt(s, n, t)) = Len(s) + 1
          /\ \A j \in 1 .. Len(s) + 1 :
               InsertAt(s, n, t)[j] =
                 IF j < n THEN s[j] ELSE IF j = n THEN t ELSE s[j - 1]
      BY <2>1, <3>2, InsertedAt, SMTT(30)
    <3> QED
      BY <3>1, <3>3
  <2> QED
    BY <1>10, <2>2
<1>12. byQueue' \in [Queues -> Seq(Tags)]
  <2>1. DOMAIN byQueue' = Queues
    BY <1>1 DEF TypeOK
  <2> QED
    BY <1>1, <1>10, <1>11, <2>1 DEF TypeOK, r
<1>13. Len(s) \in Nat /\ at \in Nat /\ 1 <= at /\ at <= Len(s) + 1 /\ Len(r) = Len(s) + 1
  BY <1>4, <1>7, <1>11
<1> DEFINE old(j) == IF j < at THEN j ELSE j - 1
<1>14. /\ r[at] = t
       /\ \A j \in 1 .. Len(r) : j # at => old(j) \in 1 .. Len(s) /\ r[j] = s[old(j)]
  BY <1>11, <1>13
<1>15. \A j, k \in 1 .. Len(r) : j # at /\ k # at =>
         (old(j) = old(k) => j = k) /\ (j < k => old(j) < old(k))
  BY <1>13
<1>16. \A k \in 1 .. Len(s) : \E j \in 1 .. Len(r) : j # at /\ old(j) = k
  <2> TAKE k \in 1 .. Len(s)
  <2>1. CASE k < at
    <3>1. k \in 1 .. Len(r) /\ k # at /\ old(k) = k
      BY <1>13, <2>1
    <3> QED
      BY <3>1
  <2>2. CASE k >= at
    <3>1. k + 1 \in 1 .. Len(r) /\ k + 1 # at /\ old(k + 1) = k
      BY <1>13, <2>2
    <3> QED
      BY <3>1
  <2> QED
    BY <1>13, <2>1, <2>2
<1>17. \A j \in 1 .. Len(r) : j # at =>
         /\ j < at => old(j) < at
         /\ at < j => ~(old(j) < at)
  BY <1>13
<1> HIDE DEF old
<1>18. ASSUME NEW p \in Queues
       PROVE  /\ \A j, k \in 1 .. Len(byQueue'[p]) :
                   byQueue'[p][j] = byQueue'[p][k] => j = k
              /\ \A x \in Tags :
                   (\E j \in 1 .. Len(byQueue'[p]) : byQueue'[p][j] = x)
                     <=> byTag'[x] # NoConsumer /\ byTag'[x].queue = p
              /\ p \notin SacQueues => \A j, k \in 1 .. Len(byQueue'[p]) :
                   j < k => byTag'[byQueue'[p][j]].priority >= byTag'[byQueue'[p][k]].priority
              /\ \A j \in 1 .. Len(byQueue'[p]) :
                   byTag'[byQueue'[p][j]].exclusive => Len(byQueue'[p]) = 1
  <2>1. CASE p = q
    <3>1. byQueue'[p] = r
      BY <2>1 DEF r
    <3>2. \A j, k \in 1 .. Len(r) : r[j] = r[k] => j = k
      BY <1>4, <1>6, <1>14, <1>15
    <3>3. ASSUME q \notin SacQueues, NEW j \in 1 .. Len(r), NEW k \in 1 .. Len(r), j < k
          PROVE  byTag'[r[j]].priority >= byTag'[r[k]].priority
      <4>1. CASE j # at /\ k # at
        BY <3>3, <4>1, <1>4, <1>6, <1>9, <1>14, <1>15
      <4>2. CASE k = at
        <5>1. j # at /\ old(j) < at /\ byTag'[r[j]] = byTag[s[old(j)]] /\ byTag'[r[k]] = e
          BY <3>3, <4>2, <1>4, <1>6, <1>9, <1>13, <1>14, <1>17
        <5> QED
          BY <3>3, <5>1, <1>2, <1>7, <1>14 DEF e
      <4>3. CASE j = at
        <5>1. k # at /\ ~(old(k) < at) /\ byTag'[r[k]] = byTag[s[old(k)]] /\ byTag'[r[j]] = e
          BY <3>3, <4>3, <1>4, <1>6, <1>9, <1>13, <1>14, <1>17
        <5> QED
          BY <3>3, <5>1, <1>2, <1>7, <1>14 DEF e
      <4> QED
        BY <4>1, <4>2, <4>3
    <3>4. ASSUME NEW j \in 1 .. Len(r), byTag'[r[j]].exclusive
          PROVE  Len(r) = 1
      <4>1. CASE j = at
        <5>1. o.exclusive
          BY <3>4, <4>1, <1>2, <1>9, <1>14 DEF e
        <5>2. s = <<>>
          BY <1>1, <5>1 DEF s
        <5> QED
          BY <1>11, <5>2
      <4>2. CASE j # at
        <5>1. byTag'[r[j]] = byTag[s[old(j)]] /\ old(j) \in 1 .. Len(s)
          BY <4>2, <1>4, <1>6, <1>9, <1>14
        <5> QED
          BY <3>4, <5>1, <1>5
      <4> QED
        BY <4>1, <4>2
    <3>5. ASSUME NEW x \in Tags
          PROVE  (\E j \in 1 .. Len(r) : r[j] = x) <=> byTag'[x] # NoConsumer /\ byTag'[x].queue = q
      <4>1. CASE x = t
        <5>1. at \in 1 .. Len(r)
          BY <1>13
        <5> QED
          BY <4>1, <5>1, <1>2, <1>3, <1>9, <1>14 DEF e
      <4>2. CASE x # t
        <5>1. (\E k \in 1 .. Len(s) : s[k] = x) <=> byTag[x] # NoConsumer /\ byTag[x].queue = q
          BY <1>4 DEF RegistryConsistent, Registered, ToSet, s
        <5>2. (\E j \in 1 .. Len(r) : r[j] = x) <=> (\E k \in 1 .. Len(s) : s[k] = x)
          BY <4>2, <1>14, <1>16
        <5> QED
          BY <4>2, <5>1, <5>2, <1>9
      <4> QED
        BY <4>1, <4>2
    <3> QED
      BY <2>1, <3>1, <3>2, <3>3, <3>4, <3>5
  <2>2. CASE p # q
    <3>1. byQueue'[p] = byQueue[p]
      BY <2>2, <1>10
    <3>2. \A j \in 1 .. Len(byQueue[p]) : byQueue[p][j] \in Tags \ {t}
      BY <1>1, QueueOf
    <3>3. ASSUME NEW x \in Tags
          PROVE  (\E j \in 1 .. Len(byQueue[p]) : byQueue[p][j] = x)
                   <=> byTag'[x] # NoConsumer /\ byTag'[x].queue = p
      <4>1. DOMAIN byQueue[p] = 1 .. Len(byQueue[p])
        BY QueueOf
      <4>2. (\E j \in 1 .. Len(byQueue[p]) : byQueue[p][j] = x)
              <=> byTag[x] # NoConsumer /\ byTag[x].queue = p
        BY <4>1 DEF RegistryConsistent, Registered, ToSet
      <4>3. CASE x = t
        BY <4>3, <3>2, <1>2, <1>9, <2>2 DEF e
      <4>4. CASE x # t
        BY <4>4, <4>2, <1>9
      <4> QED
        BY <4>3, <4>4
    <3> QED
      <4>1. \A j \in 1 .. Len(byQueue[p]) : byTag'[byQueue[p][j]] = byTag[byQueue[p][j]]
        BY <3>2, <1>9
      <4>2. /\ \A j, k \in 1 .. Len(byQueue[p]) : byQueue[p][j] = byQueue[p][k] => j = k
            /\ \A j \in 1 .. Len(byQueue[p]) :
                 byTag[byQueue[p][j]].exclusive => Len(byQueue[p]) = 1
            /\ p \notin SacQueues => \A j, k \in 1 .. Len(byQueue[p]) : j < k =>
                 byTag[byQueue[p][j]].priority >= byTag[byQueue[p][k]].priority
        BY QueueOf
      <4> QED
        BY SMTT(30), <3>1, <3>3, <4>1, <4>2
  <2> QED
    BY <2>1, <2>2
<1>19. RegistryConsistent'
  BY <1>12, <1>18, RegistryNext
<1> QED
  BY <1>8, <1>12, <1>19

(* Whoever leaves byQueue alone and changes no entry but its count of
   unacknowledged deliveries leaves the registry consistent. *)
LEMMA RegistryKept ==
  ASSUME TypeOK, RegistryConsistent, byQueue' = byQueue,
         \A t \in Tags : byTag'[t] = byTag[t]
           \/ /\ byTag[t] # NoConsumer
              /\ \E n \in Nat : byTag'[t] = [byTag[t] EXCEPT !.unackedCount = n]
  PROVE  RegistryConsistent'
<1>1. ASSUME NEW t \in Tags
      PROVE  /\ byTag'[t] # NoConsumer <=> byTag[t] # NoConsumer
             /\ byTag[t] # NoConsumer =>
                  /\ byTag'[t].queue = byTag[t].queue
                  /\ byTag'[t].priority = byTag[t].priority
                  /\ byTag'[t].exclusive = byTag[t].exclusive
  <2>1. CASE byTag'[t] = byTag[t]
    BY <2>1
  <2>2. CASE /\ byTag[t] # NoConsumer
             /\ \E n \in Nat : byTag'[t] = [byTag[t] EXCEPT !.unackedCount = n]
    <3>1. byTag[t] \in Entry
      BY <2>2 DEF TypeOK
    <3>2. byTag'[t] \in Entry
      BY <2>2, <3>1 DEF Entry
    <3> QED
      BY <2>2, <3>1, <3>2, EntryAssumption DEF Entry
  <2> QED
    BY <2>1, <2>2
<1>2. ASSUME NEW q \in Queues
      PROVE  /\ \A i, j \in 1 .. Len(byQueue[q]) : byQueue[q][i] = byQueue[q][j] => i = j
             /\ \A t \in Tags :
                  (\E i \in 1 .. Len(byQueue[q]) : byQueue[q][i] = t)
                    <=> byTag'[t] # NoConsumer /\ byTag'[t].queue = q
             /\ q \notin SacQueues => \A i, j \in 1 .. Len(byQueue[q]) :
                  i < j => byTag'[byQueue[q][i]].priority >= byTag'[byQueue[q][j]].priority
             /\ \A i \in 1 .. Len(byQueue[q]) :
                  byTag'[byQueue[q][i]].exclusive => Len(byQueue[q]) = 1
  <2>1. DOMAIN byQueue[q] = 1 .. Len(byQueue[q])
    BY QueueOf
  <2>2. \A t \in Tags : (\E i \in 1 .. Len(byQueue[q]) : byQueue[q][i] = t)
                          <=> byTag[t] # NoConsumer /\ byTag[t].queue = q
    BY <2>1 DEF RegistryConsistent, Registered, ToSet
  <2>3. \A t \in Tags : (\E i \in 1 .. Len(byQueue[q]) : byQueue[q][i] = t)
                          <=> byTag'[t] # NoConsumer /\ byTag'[t].queue = q
    BY <1>1, <2>2
  <2>4. \A i \in 1 .. Len(byQueue[q]) : byQueue[q][i] \in Tags /\ byTag[byQueue[q][i]] # NoConsumer
    BY QueueOf DEF Registered
  <2>5. \A i \in 1 .. Len(byQueue[q]) :
          byTag'[byQueue[q][i]].exclusive => Len(byQueue[q]) = 1
    <3> SUFFICES ASSUME NEW i \in 1 .. Len(byQueue[q]), byTag'[byQueue[q][i]].exclusive
                 PROVE  Len(byQueue[q]) = 1
      OBVIOUS
    <3>1. byTag[byQueue[q][i]].exclusive
      BY <1>1, <2>4
    <3> QED
      BY <3>1, QueueOf
  <2>6. \A i \in 1 .. Len(byQueue[q]) :
          byTag'[byQueue[q][i]].priority = byTag[byQueue[q][i]].priority
    BY <1>1, <2>4
  <2> QED
    BY <2>3, <2>5, <2>6, QueueOf
<1>3. byQueue' \in [Queues -> Seq(Tags)]
  BY DEF TypeOK
<1> QED
  BY <1>2, <1>3, RegistryNext

-----------------------------------------------------------------------------
(* Steps that change only the call, and the operations of the clients *)

LEMMA PopsType ==
  ASSUME TypeOK, DispatchEnd \/ GetEmpty \/ SettleEnd
  PROVE  TypeOK'
<1>1. call' \in Seq(Frame)
  BY PopType DEF DispatchEnd, GetEmpty, SettleEnd
<1> QED
  BY <1>1 DEF TypeOK, DispatchEnd, GetEmpty, SettleEnd, brokerVars, clientVars, historyVars

LEMMA CancelStepType ==
  ASSUME TypeOK, RegistryConsistent, CancelStep
  PROVE  TypeOK' /\ RegistryConsistent'
<1>1. PICK t \in OnNumber(Top.channel) :
        /\ Unregister(t)
        /\ call' = [call EXCEPT ![1].queues = @ \cup {byTag[t].queue}]
  BY DEF CancelStep
<1>2. t \in Tags /\ Registered(t)
  BY DEF OnNumber
<1>3. byTag[t].queue \in Queues
  BY <1>2 DEF TypeOK, Registered, Entry
<1>4. Top \in Frame /\ Top.do = "cancel" /\ ~Idle
  BY TopOfCall DEF CancelStep
<1>5. [Top EXCEPT !.queues = @ \cup {byTag[t].queue}] \in Frame
  BY <1>3, <1>4 DEF Frame, SettleKinds
<1>6. call' = [call EXCEPT ![1] = [Top EXCEPT !.queues = @ \cup {byTag[t].queue}]]
  BY <1>1 DEF Top
<1>7. call' \in Seq(Frame)
  BY <1>4, <1>5, <1>6, TopChanged
<1>8. /\ byTag' \in [Tags -> Entry \cup {NoConsumer}]
      /\ byQueue' \in [Queues -> Seq(Tags)]
      /\ RegistryConsistent'
  BY <1>1, <1>2, Unregistering
<1> QED
  BY <1>7, <1>8 DEF TypeOK, CancelStep, clientVars, historyVars

LEMMA CancelEndType ==
  ASSUME TypeOK, CancelEnd
  PROVE  TypeOK'
<1> DEFINE c == Top.channel
           failover == {q \in Top.queues \cap SacQueues : byQueue[q] # <<>>}
<1>1. PICK o \in DispatchOrders(ConnOf[c], failover) :
        call' = o \o <<Settle("return", c, TagsOf(c))>> \o Tail(call)
  BY DEF CancelEnd
<1>2. c \in Channels /\ failover \in SUBSET Queues
  BY TopOfCall, FrameFields, DeliveryAssumption DEF CancelEnd
<1> HIDE DEF c, failover
<1>3. o \in Seq(Frame)
  BY <1>1, <1>2, FramesOK, DispatchOrdersOK
<1>4. Settle("return", c, TagsOf(c)) \in Frame
  BY <1>2, FramesOK, TagsOK DEF SettleKinds
<1>5. Tail(call) \in Seq(Frame)
  BY TopOfCall DEF CancelEnd
<1>6. call' \in Seq(Frame)
  <2>1. <<Settle("return", c, TagsOf(c))>> \in Seq(Frame)
    BY <1>4
  <2>2. o \o <<Settle("return", c, TagsOf(c))>> \in Seq(Frame)
    BY <1>3, <2>1, ConcatProperties
  <2> QED
    BY <1>1, <1>5, <2>2, ConcatProperties
<1>7. channel' \in [Channels -> Channel]
  BY ZenonT(40) DEF CancelEnd, TypeOK, Channel
<1> QED
  BY <1>6, <1>7 DEF TypeOK, CancelEnd, clientVars, historyVars

LEMMA PublishType ==
  ASSUME TypeOK, NEW c \in Channels, NEW q \in Queues, Publish(c, q)
  PROVE  TypeOK'
<1> DEFINE m == [id |-> published + 1, deliveryCount |-> 0]
<1>1. published + 1 \in Ids /\ published' \in 0 .. MaxMessages
  BY DeliveryAssumption DEF TypeOK, Publish, Ids
<1>2. m \in Message
  BY <1>1 DEF Message
<1>3. Append(store[q], m) \in Seq(Message)
  BY <1>2, AppendProperties DEF TypeOK
<1>4. store' \in [Queues -> Seq(Message)]
  BY <1>3 DEF TypeOK, Publish
<1>5. call' \in Seq(Frame)
  BY FramesOK DEF Publish
<1> QED
  BY <1>1, <1>4, <1>5 DEF TypeOK, Publish, clientVars

LEMMA ConsumeType ==
  ASSUME TypeOK, RegistryConsistent,
         NEW c \in Channels, NEW q \in Queues, NEW t \in Tags, NEW o \in ConsumeOptions,
         Consume(c, q, t, o)
  PROVE  TypeOK' /\ RegistryConsistent'
<1>1. call' \in Seq(Frame)
  BY FramesOK DEF Consume
<1>2. used' \subseteq Tags
  BY DEF Consume, TypeOK
<1>3. /\ byTag' \in [Tags -> Entry \cup {NoConsumer}]
      /\ byQueue' \in [Queues -> Seq(Tags)]
      /\ RegistryConsistent'
  BY Registering
<1> QED
  BY <1>1, <1>2, <1>3 DEF TypeOK, Consume, clientVars

LEMMA CancelType ==
  ASSUME TypeOK, RegistryConsistent, NEW c \in Channels, NEW t \in Tags, Cancel(c, t)
  PROVE  TypeOK' /\ RegistryConsistent'
<1>1. /\ byTag' \in [Tags -> Entry \cup {NoConsumer}]
      /\ byQueue' \in [Queues -> Seq(Tags)]
      /\ RegistryConsistent'
  BY Unregistering DEF Cancel
<1>2. byTag[t].queue \in Queues
  BY DEF Cancel, TypeOK, Registered, Entry
<1>3. call' \in Seq(Frame)
  <2>1. Drain(ConnOf[c], byTag[t].queue) \in Frame
    BY <1>2, FramesOK
  <2>2. call' = <<Drain(ConnOf[c], byTag[t].queue)>> \/ call' = <<>>
    BY DEF Cancel
  <2>3. <<>> \in Seq(Frame) /\ <<Drain(ConnOf[c], byTag[t].queue)>> \in Seq(Frame)
    BY <2>1
  <2> QED
    BY <2>2, <2>3
<1> QED
  BY <1>1, <1>3 DEF TypeOK, Cancel, clientVars, historyVars

LEMMA GetType ==
  ASSUME TypeOK, NEW c \in Channels, NEW q \in Queues, NEW noAck \in BOOLEAN, Get(c, q, noAck)
  PROVE  TypeOK'
<1>1. [do |-> "get", queue |-> q, channel |-> c, noAck |-> noAck] \in Frame
  BY DEF Frame
<1>2. call' \in Seq(Frame)
  BY <1>1 DEF Get
<1> QED
  BY <1>2 DEF TypeOK, Get, brokerVars, clientVars, historyVars

(* Answering: the count of one consumer goes down, the call settles. *)
LEMMA AnswerType ==
  ASSUME TypeOK, RegistryConsistent, NEW c \in Channels, NEW d \in held[c],
         NEW multiple \in BOOLEAN, NEW how \in SettleKinds, Answer(c, d, multiple, how)
  PROVE  TypeOK' /\ RegistryConsistent'
<1> DEFINE t == d.consumer
           n == byTag[t].unackedCount - 1
<1>1. \/ byTag' = byTag
      \/ /\ t \in Tags /\ byTag[t] \in Entry /\ n \in Nat
         /\ byTag' = [byTag EXCEPT ![t].unackedCount = n]
  <2>1. t \in Tags \cup {NoConsumer}
    BY DEF TypeOK, Delivered
  <2>2. CASE t # NoConsumer /\ Registered(t) /\ byTag[t].unackedCount > 0
    <3>1. t \in Tags /\ byTag[t] \in Entry
      BY <2>1, <2>2 DEF TypeOK, Registered
    <3>2. n \in Nat
      BY <2>2, <3>1 DEF Entry
    <3> QED
      BY <2>2, <3>1, <3>2 DEF Answer, Decremented
  <2>3. CASE ~(t # NoConsumer /\ Registered(t) /\ byTag[t].unackedCount > 0)
    BY <2>3 DEF Answer, Decremented
  <2> QED
    BY <2>2, <2>3
<1> HIDE DEF t, n
<1>2. byTag' \in [Tags -> Entry \cup {NoConsumer}]
  <2>1. CASE byTag' = byTag
    BY <2>1 DEF TypeOK
  <2>2. CASE /\ t \in Tags /\ byTag[t] \in Entry /\ n \in Nat
             /\ byTag' = [byTag EXCEPT ![t].unackedCount = n]
    <3>1. [byTag[t] EXCEPT !.unackedCount = n] \in Entry
      BY <2>2 DEF Entry
    <3> QED
      BY <2>2, <3>1 DEF TypeOK
  <2> QED
    BY <1>1, <2>1, <2>2
<1>3. \A x \in Tags : byTag'[x] = byTag[x]
        \/ /\ byTag[x] # NoConsumer
           /\ \E k \in Nat : byTag'[x] = [byTag[x] EXCEPT !.unackedCount = k]
  BY <1>1, EntryAssumption DEF TypeOK
<1>4. byQueue' = byQueue
  BY DEF Answer
<1>5. RegistryConsistent'
  BY <1>3, <1>4, RegistryKept
<1>6. held' \in [Channels -> SUBSET Delivered]
  BY DEF Answer, Answered, TypeOK
<1>7. call' \in Seq(Frame)
  <2>1. Covered(c, d, multiple) \in SUBSET Nat
    BY TagsOK DEF Covered
  <2>2. Settle(how, c, Covered(c, d, multiple)) \in Frame
    BY <2>1, FramesOK
  <2>3. call' = <<>> \/ call' = <<Settle(how, c, Covered(c, d, multiple))>>
    BY DEF Answer
  <2>4. <<>> \in Seq(Frame) /\ <<Settle(how, c, Covered(c, d, multiple))>> \in Seq(Frame)
    BY <2>2
  <2> QED
    BY <2>3, <2>4
<1> QED
  BY <1>2, <1>5, <1>6, <1>7 DEF TypeOK, Answer, historyVars

LEMMA SettleAllType ==
  ASSUME TypeOK, NEW c \in Channels, NEW how \in SettleKinds, NEW after \in Seq(Frame),
         SettleAll(c, how, after)
  PROVE  TypeOK'
<1>1. Settle(how, c, TagsOf(c)) \in Frame
  BY TagsOK, FramesOK
<1>2. call' \in Seq(Frame)
  BY <1>1, Prepended DEF SettleAll
<1>3. held' \in [Channels -> SUBSET Delivered]
  BY DEF SettleAll, TypeOK
<1> QED
  BY <1>2, <1>3 DEF TypeOK, SettleAll, brokerVars, historyVars

LEMMA ChannelOpsType ==
  ASSUME TypeOK, NEW c \in Channels,
         \/ \E count \in PrefetchCounts, global \in BOOLEAN : Prefetch(c, count, global)
         \/ \E active \in BOOLEAN : Flow(c, active)
         \/ Close(c)
         \/ \E conn \in Connections : CloseConnection(conn)
  PROVE  TypeOK'
<1>1. channel' \in [Channels -> Channel]
  <2>1. channel \in [Channels -> Channel] /\ PrefetchCounts \subseteq Nat
    BY DeliveryAssumption DEF TypeOK
  <2>2. CASE \E count \in PrefetchCounts, global \in BOOLEAN : Prefetch(c, count, global)
    BY <2>1, <2>2 DEF Prefetch, Channel
  <2>3. CASE \E active \in BOOLEAN : Flow(c, active)
    BY ZenonT(40), <2>1, <2>3 DEF Flow, Channel
  <2>4. CASE Close(c)
    BY <2>1, <2>4 DEF Close, Channel
  <2>5. CASE \E conn \in Connections : CloseConnection(conn)
    <3>1. PICK conn \in Connections :
            channel' = [d \in Channels |-> IF ConnOf[d] = conn
                          THEN [channel[d] EXCEPT !.mapped = FALSE] ELSE channel[d]]
      BY <2>5 DEF CloseConnection
    <3>2. \A d \in Channels : [channel[d] EXCEPT !.mapped = FALSE] \in Channel
      BY <2>1 DEF Channel
    <3> QED
      BY <2>1, <3>1, <3>2
  <2> QED
    BY <2>2, <2>3, <2>4, <2>5
<1>2. held' \in [Channels -> SUBSET Delivered]
  BY DEF Prefetch, Flow, Close, CloseConnection, TypeOK, clientVars
<1>3. call' \in Seq(Frame)
  <2>1. CASE \E active \in BOOLEAN : Flow(c, active)
    <3>1. PICK active \in BOOLEAN : Flow(c, active)
      BY <2>1
    <3>2. PICK all \in DispatchOrders(ConnOf[c], Queues) :
            call' = IF active THEN all ELSE <<>>
      BY <3>1 DEF Flow
    <3>3. all \in Seq(Frame)
      BY FramesOK, DispatchOrdersOK
    <3> QED
      BY <3>2, <3>3
  <2>2. CASE Close(c)
    <3>1. [do |-> "cancel", channel |-> c, queues |-> {}] \in Frame
      BY DEF Frame
    <3> QED
      BY <2>2, <3>1 DEF Close
  <2> QED
    BY <2>1, <2>2 DEF Prefetch, CloseConnection, TypeOK
<1> QED
  BY <1>1, <1>2, <1>3
     DEF TypeOK, Prefetch, Flow, Close, CloseConnection, clientVars, historyVars

LEMMA RunMicrotaskType ==
  ASSUME TypeOK, RunMicrotask
  PROVE  TypeOK'
<1> DEFINE Task == [channel : Channels, noAck : BOOLEAN, message : Delivered]
           task == Head(microtasks)
<1>1. task \in Task /\ Tail(microtasks) \in Seq(Task)
  BY HeadTailProperties DEF TypeOK, RunMicrotask
<1>2. task.channel \in Channels /\ task.message \in Delivered
  BY <1>1
<1> HIDE DEF task
<1>3. held' \in [Channels -> SUBSET Delivered]
  <2>1. held' = held \/ held' = [held EXCEPT ![task.channel] = @ \cup {task.message}]
    BY DEF RunMicrotask, TypeOK, task
  <2>2. held \in [Channels -> SUBSET Delivered]
    BY DEF TypeOK
  <2>3. [held EXCEPT ![task.channel] = @ \cup {task.message}] \in [Channels -> SUBSET Delivered]
    BY <1>2, <2>2
  <2> QED
    BY <2>1, <2>2, <2>3
<1> QED
  BY <1>1, <1>3 DEF TypeOK, RunMicrotask, brokerVars, historyVars


-----------------------------------------------------------------------------
(* The inductive invariant *)

Registry == TypeOK /\ RegistryConsistent

LEMMA RegistryInit == Init => Registry
<1> SUFFICES ASSUME Init PROVE Registry
  OBVIOUS
<1>1. TypeOK
  BY InitType
<1>2. \A q \in Queues : byQueue[q] = <<>> /\ DOMAIN byQueue[q] = {}
  BY DEF Init
<1>3. \A t \in Tags : ~Registered(t)
  BY DEF Init, Registered
<1> QED
  BY <1>1, <1>2, <1>3 DEF Registry, RegistryConsistent, IsInjective, ToSet

(* The steps that leave the registry's two indexes alone. *)
LEMMA RegistryUnchanged ==
  ASSUME TypeOK, RegistryConsistent, byQueue' = byQueue, byTag' = byTag
  PROVE  RegistryConsistent'
  BY RegistryKept

LEMMA RunCallKeepsRegistry ==
  ASSUME Registry, RunCall
  PROVE  Registry'
<1> USE DEF Registry
<1>1. CASE DropExpired
  BY <1>1, DropExpiredType, RegistryUnchanged DEF DropExpired
<1>2. CASE DrainEnd
  BY <1>2, DrainEndType, RegistryUnchanged DEF DrainEnd, brokerVars
<1>3. CASE DispatchStep
  <2>1. TypeOK'
    BY <1>3, DispatchStepType
  <2>2. byQueue' = byQueue
    BY <1>3 DEF DispatchStep
  <2>3. PICK k \in DOMAIN Consumers(Top.queue) :
          \E c \in EligibleOn(Top.conn, Consumers(Top.queue)[k]) :
            Deliver(Top.queue, Consumers(Top.queue)[k], c)
    BY <1>3 DEF DispatchStep
  <2> DEFINE t == Consumers(Top.queue)[k]
  <2>4. t \in Tags /\ byTag[t] \in Entry
    BY <1>3, TopOfCall, FrameFields, ConsumerEntry DEF DispatchStep, Consumers
  <2>5. byTag' = byTag \/ byTag' = [byTag EXCEPT ![t].unackedCount = @ + 1]
    BY <2>3 DEF Deliver
  <2> HIDE DEF t
  <2>6. byTag[t].unackedCount + 1 \in Nat /\ byTag[t] # NoConsumer
    BY <2>4, EntryAssumption DEF Entry
  <2>7. \A x \in Tags : byTag'[x] = byTag[x]
          \/ /\ byTag[x] # NoConsumer
             /\ \E n \in Nat : byTag'[x] = [byTag[x] EXCEPT !.unackedCount = n]
    BY <2>5, <2>6 DEF TypeOK
  <2> QED
    BY <2>1, <2>2, <2>7, RegistryKept
<1>4. CASE DispatchEnd \/ GetEmpty \/ SettleEnd
  BY <1>4, PopsType, RegistryUnchanged DEF DispatchEnd, GetEmpty, SettleEnd, brokerVars
<1>5. CASE GetTake
  BY <1>5, GetTakeType, RegistryUnchanged DEF GetTake
<1>6. CASE SettleStep
  BY <1>6, SettleStepType, RegistryUnchanged DEF SettleStep
<1>7. CASE CancelStep
  BY <1>7, CancelStepType
<1>8. CASE CancelEnd
  BY <1>8, CancelEndType, RegistryUnchanged DEF CancelEnd
<1> QED
  BY <1>1, <1>2, <1>3, <1>4, <1>5, <1>6, <1>7, <1>8 DEF RunCall

LEMMA ClientNextKeepsRegistry ==
  ASSUME Registry, NEW c \in Channels, ClientNext(c)
  PROVE  Registry'
<1> USE DEF Registry
<1>1. CASE \E q \in Queues : Publish(c, q)
  BY <1>1, PublishType, RegistryUnchanged DEF Publish
<1>2. CASE \E q \in Queues, t \in Tags, o \in ConsumeOptions : Consume(c, q, t, o)
  BY <1>2, ConsumeType
<1>3. CASE \E t \in Tags : Cancel(c, t)
  BY <1>3, CancelType
<1>4. CASE \E q \in Queues, noAck \in BOOLEAN : Get(c, q, noAck)
  BY <1>4, GetType, RegistryUnchanged DEF Get, brokerVars
<1>5. CASE AnswerNext(c)
  <2>1. CASE \E d \in held[c], multiple \in BOOLEAN :
               Ack(c, d, multiple) \/ \E requeue \in BOOLEAN : Nack(c, d, multiple, requeue)
    <3>1. \E d \in held[c], multiple \in BOOLEAN, how \in SettleKinds :
            Answer(c, d, multiple, how)
      BY <2>1 DEF Ack, Nack, SettleKinds
    <3> QED
      BY <3>1, AnswerType
  <2>2. CASE AckAll(c) \/ \E requeue \in BOOLEAN : NackAll(c, requeue)
    <3>1. <<>> \in Seq(Frame)
      BY EmptySeq
    <3>2. \E how \in SettleKinds : SettleAll(c, how, <<>>)
      BY <2>2 DEF AckAll, NackAll, SettleKinds
    <3>3. TypeOK'
      BY <3>1, <3>2, SettleAllType
    <3> QED
      BY <3>2, <3>3, RegistryUnchanged DEF SettleAll, brokerVars
  <2> QED
    BY <1>5, <2>1, <2>2 DEF AnswerNext
<1>6. CASE Recover(c)
  <2>1. PICK all \in DispatchOrders(ConnOf[c], Queues) : SettleAll(c, "return", all)
    BY <1>6 DEF Recover
  <2>2. all \in Seq(Frame)
    BY FramesOK, DispatchOrdersOK
  <2>3. TypeOK'
    BY <2>1, <2>2, SettleAllType DEF SettleKinds
  <2> QED
    BY <2>1, <2>3, RegistryUnchanged DEF SettleAll, brokerVars
<1>7. CASE \/ \E count \in PrefetchCounts, global \in BOOLEAN : Prefetch(c, count, global)
           \/ \E active \in BOOLEAN : Flow(c, active)
           \/ Close(c)
  <2>1. TypeOK'
    BY <1>7, ChannelOpsType
  <2>2. byQueue' = byQueue /\ byTag' = byTag
    BY <1>7 DEF Prefetch, Flow, Close
  <2> QED
    BY <2>1, <2>2, RegistryUnchanged
<1> QED
  BY <1>1, <1>2, <1>3, <1>4, <1>5, <1>6, <1>7 DEF ClientNext

LEMMA RegistryStep == Registry /\ [Next]_vars => Registry'
<1> SUFFICES ASSUME Registry, [Next]_vars
             PROVE  Registry'
  OBVIOUS
<1> USE DEF Registry
<1>1. CASE RunCall
  BY <1>1, RunCallKeepsRegistry
<1>2. CASE RunMicrotask
  BY <1>2, RunMicrotaskType, RegistryUnchanged DEF RunMicrotask, brokerVars
<1>3. CASE \E c \in Channels : ClientNext(c)
  BY <1>3, ClientNextKeepsRegistry
<1>4. CASE \E conn \in Connections : CloseConnection(conn)
  <2>1. \E c \in Channels : TRUE
    BY <1>4 DEF CloseConnection
  <2>2. TypeOK'
    BY <1>4, <2>1, ChannelOpsType
  <2> QED
    BY <1>4, <2>2, RegistryUnchanged DEF CloseConnection
<1>5. CASE \E id \in Perishable : Expire(id)
  <2>1. TypeOK'
    BY <1>5, DeliveryAssumption
       DEF Expire, TypeOK, Ids, brokerVars, clientVars, historyVars
  <2> QED
    BY <1>5, <2>1, RegistryUnchanged DEF Expire, brokerVars
<1>6. CASE UNCHANGED vars
  <2>1. TypeOK'
    BY <1>6 DEF TypeOK, vars, brokerVars, clientVars, historyVars
  <2> QED
    BY <1>6, <2>1, RegistryUnchanged DEF vars, brokerVars
<1> QED
  BY <1>1, <1>2, <1>3, <1>4, <1>5, <1>6 DEF Next

(* Every variable keeps its type, whatever the clients call and in whatever
   order: no operation leaves a half-built entry, frame or delivery record. *)
THEOREM TypeCorrect == Spec => []TypeOK
<1>1. Registry => TypeOK
  BY DEF Registry
<1> QED
  BY <1>1, RegistryInit, RegistryStep, PTL DEF Spec

(* ConsumerRegistry's byTag and byQueue always agree, each queue's consumers
   stand in priority order, and an exclusive consumer is alone on its queue,
   for any number of channels, connections, tags and queues. *)
THEOREM RegistryCorrect == Spec => []RegistryConsistent
<1>1. Registry => RegistryConsistent
  BY DEF Registry
<1> QED
  BY <1>1, RegistryInit, RegistryStep, PTL DEF Spec


-----------------------------------------------------------------------------
(* The ids of a store's array *)

IdsIn(s) == {s[i].id : i \in DOMAIN s}
Distinct(s) == \A i, j \in DOMAIN s : s[i].id = s[j].id => i = j

LEMMA StoreIds ==
  ASSUME NEW q \in Queues
  PROVE  /\ StoredIds(q) = IdsIn(store[q])
         /\ StoredIds(q)' = IdsIn(store'[q])
  BY DEF StoredIds, IdsIn

LEMMA TailIds ==
  ASSUME NEW s \in Seq(Message), s # <<>>, Distinct(s)
  PROVE  /\ IdsIn(Tail(s)) = IdsIn(s) \ {Head(s).id}
         /\ Head(s).id \in IdsIn(s)
         /\ Distinct(Tail(s))
<1> DEFINE r == Tail(s)
<1>1. Len(s) \in Nat /\ Len(s) >= 1 /\ DOMAIN s = 1 .. Len(s) /\ Head(s) = s[1]
  BY EmptySeq, LenProperties
<1>2. r \in Seq(Message) /\ Len(r) = Len(s) - 1 /\ \A i \in 1 .. Len(r) : r[i] = s[i + 1]
  BY HeadTailProperties
<1>3. DOMAIN r = 1 .. Len(r)
  BY <1>2, LenProperties
<1> HIDE DEF r
<1>4. ASSUME NEW x \in IdsIn(r)
      PROVE  x \in IdsIn(s) \ {Head(s).id}
  <2>1. PICK i \in 1 .. Len(r) : x = r[i].id
    BY <1>3 DEF IdsIn
  <2>2. i + 1 \in 1 .. Len(s) /\ i + 1 # 1 /\ x = s[i + 1].id
    BY <1>1, <1>2, <2>1
  <2>3. x # s[1].id
    BY <1>1, <2>2 DEF Distinct
  <2> QED
    BY <1>1, <2>2, <2>3 DEF IdsIn
<1>5. ASSUME NEW x \in IdsIn(s), x # Head(s).id
      PROVE  x \in IdsIn(r)
  <2>1. PICK i \in 1 .. Len(s) : x = s[i].id
    BY <1>1 DEF IdsIn
  <2>2. i - 1 \in 1 .. Len(r) /\ x = r[i - 1].id
    <3>1. i # 1
      BY <1>1, <1>5, <2>1
    <3>2. i - 1 \in 1 .. Len(r) /\ (i - 1) + 1 = i
      BY <1>1, <1>2, <3>1
    <3> QED
      BY <1>2, <2>1, <3>2
  <2> QED
    BY <1>3, <2>2 DEF IdsIn
<1>6. Distinct(r)
  <2> SUFFICES ASSUME NEW i \in 1 .. Len(r), NEW j \in 1 .. Len(r), r[i].id = r[j].id
               PROVE  i = j
    BY <1>3 DEF Distinct
  <2>1. i + 1 \in 1 .. Len(s) /\ j + 1 \in 1 .. Len(s) /\ s[i + 1].id = s[j + 1].id
    BY <1>1, <1>2
  <2>2. i + 1 = j + 1
    BY <1>1, <2>1 DEF Distinct
  <2> QED
    BY <1>2, <2>2
<1>7. Head(s).id \in IdsIn(s)
  BY <1>1 DEF IdsIn
<1> QED
  BY <1>4, <1>5, <1>6, <1>7 DEF r

LEMMA PrependIds ==
  ASSUME NEW s \in Seq(Message), NEW e \in Message, Distinct(s), e.id \notin IdsIn(s)
  PROVE  /\ IdsIn(<<e>> \o s) = IdsIn(s) \cup {e.id}
         /\ Distinct(<<e>> \o s)
<1> DEFINE r == <<e>> \o s
<1>1. Len(s) \in Nat /\ DOMAIN s = 1 .. Len(s)
  BY LenProperties
<1>2. /\ r \in Seq(Message)
      /\ Len(r) = Len(s) + 1
      /\ \A i \in 1 .. Len(s) + 1 : r[i] = IF i = 1 THEN e ELSE s[i - 1]
  BY Prepended
<1>3. DOMAIN r = 1 .. Len(s) + 1
  BY <1>2, LenProperties
<1> HIDE DEF r
<1>4. r[1] = e /\ 1 \in DOMAIN r
  BY <1>1, <1>2, <1>3
<1>5. \A i \in DOMAIN r : i # 1 => i - 1 \in 1 .. Len(s) /\ r[i] = s[i - 1]
  BY <1>1, <1>2, <1>3
<1>6. \A i \in 1 .. Len(s) : i + 1 \in DOMAIN r /\ r[i + 1] = s[i]
  <2> TAKE i \in 1 .. Len(s)
  <2>1. i + 1 \in 1 .. Len(s) + 1 /\ i + 1 # 1 /\ (i + 1) - 1 = i
    BY <1>1
  <2> QED
    BY <2>1, <1>2, <1>3
<1>7. IdsIn(r) \subseteq IdsIn(s) \cup {e.id}
  BY <1>1, <1>4, <1>5 DEF IdsIn
<1>8. IdsIn(s) \cup {e.id} \subseteq IdsIn(r)
  BY <1>1, <1>4, <1>6 DEF IdsIn
<1>9. Distinct(r)
  <2> SUFFICES ASSUME NEW i \in DOMAIN r, NEW j \in DOMAIN r, r[i].id = r[j].id
               PROVE  i = j
    BY DEF Distinct
  <2>1. \A k \in DOMAIN r : k # 1 => r[k].id # e.id
    BY <1>1, <1>5 DEF IdsIn
  <2>2. CASE i = 1 \/ j = 1
    BY <2>1, <2>2, <1>4
  <2>3. CASE i # 1 /\ j # 1
    <3>1. i - 1 = j - 1
      BY <2>3, <1>1, <1>5 DEF Distinct
    <3> QED
      BY <3>1, <1>1, <1>3
  <2> QED
    BY <2>2, <2>3
<1> QED
  BY <1>7, <1>8, <1>9 DEF r

LEMMA AppendIds ==
  ASSUME NEW s \in Seq(Message), NEW e \in Message, Distinct(s), e.id \notin IdsIn(s)
  PROVE  /\ IdsIn(Append(s, e)) = IdsIn(s) \cup {e.id}
         /\ Distinct(Append(s, e))
<1> DEFINE r == Append(s, e)
           n == Len(s) + 1
<1>1. Len(s) \in Nat /\ DOMAIN s = 1 .. Len(s)
  BY LenProperties
<1>2. /\ r \in Seq(Message)
      /\ Len(r) = n
      /\ \A i \in 1 .. Len(s) : r[i] = s[i]
      /\ r[n] = e
  BY AppendProperties
<1>3. DOMAIN r = 1 .. n
  BY <1>2, LenProperties
<1> HIDE DEF r
<1>4. \A i \in DOMAIN r : i # n => i \in 1 .. Len(s) /\ r[i] = s[i]
  BY <1>1, <1>2, <1>3
<1>5. n \in DOMAIN r /\ \A i \in 1 .. Len(s) : i \in DOMAIN r /\ i # n
  BY <1>1, <1>3
<1> HIDE DEF n
<1>6. IdsIn(r) \subseteq IdsIn(s) \cup {e.id}
  BY <1>1, <1>2, <1>4 DEF IdsIn
<1>7. IdsIn(s) \cup {e.id} \subseteq IdsIn(r)
  BY <1>1, <1>2, <1>5 DEF IdsIn
<1>8. Distinct(r)
  <2> SUFFICES ASSUME NEW i \in DOMAIN r, NEW j \in DOMAIN r, r[i].id = r[j].id
               PROVE  i = j
    BY DEF Distinct
  <2>1. \A k \in DOMAIN r : k # n => r[k].id # e.id
    BY <1>1, <1>4 DEF IdsIn
  <2>2. CASE i = n \/ j = n
    BY <2>1, <2>2, <1>2
  <2>3. CASE i # n /\ j # n
    BY <2>3, <1>1, <1>4 DEF Distinct
  <2> QED
    BY <2>2, <2>3
<1> QED
  BY <1>6, <1>7, <1>8 DEF r

-----------------------------------------------------------------------------
(* The invariant, by places *)

(* AtMostOnce and NothingLost, in terms that one move changes at one place. *)
Places ==
  /\ \A q \in Queues : Distinct(store[q])
  /\ \A q, r \in Queues : \A x \in StoredIds(q) : x \in StoredIds(r) => q = r
  /\ \A c, d \in Channels : \A u \in unacked[c], v \in unacked[d] :
        u.message.id = v.message.id => c = d /\ u = v
  /\ \A q \in Queues : \A x \in StoredIds(q) :
        x \notin done /\ \A c \in Channels : x \notin UnackedIds(c)
  /\ \A c \in Channels : \A x \in UnackedIds(c) : x \notin done
  /\ \A x : x \in 1 .. published <=>
        \/ x \in done
        \/ \E q \in Queues : x \in StoredIds(q)
        \/ \E c \in Channels : x \in UnackedIds(c)

LEMMA PlacesMean == Places <=> AtMostOnce /\ NothingLost
<1>1. NothingLost <=>
        \A x : x \in 1 .. published <=>
          \/ x \in done
          \/ \E q \in Queues : x \in StoredIds(q)
          \/ \E c \in Channels : x \in UnackedIds(c)
  BY DEF NothingLost
<1>2. ASSUME AtMostOnce
      PROVE  /\ \A q \in Queues : Distinct(store[q])
             /\ \A q, r \in Queues : \A x \in StoredIds(q) : x \in StoredIds(r) => q = r
             /\ \A c, d \in Channels : \A u \in unacked[c], v \in unacked[d] :
                   u.message.id = v.message.id => c = d /\ u = v
             /\ \A q \in Queues : \A x \in StoredIds(q) :
                   x \notin done /\ \A c \in Channels : x \notin UnackedIds(c)
             /\ \A c \in Channels : \A x \in UnackedIds(c) : x \notin done
  <2>1. \A q \in Queues : Distinct(store[q])
    BY <1>2 DEF AtMostOnce, Distinct
  <2>2. \A q, r \in Queues : \A x \in StoredIds(q) : x \in StoredIds(r) => q = r
    BY <1>2 DEF AtMostOnce
  <2>3. \A c, d \in Channels : \A u \in unacked[c], v \in unacked[d] :
          u.message.id = v.message.id => c = d /\ u = v
    BY <1>2, Zenon DEF AtMostOnce
  <2>4. \A q \in Queues : \A x \in StoredIds(q) :
          x \notin done /\ \A c \in Channels : x \notin UnackedIds(c)
    BY <1>2 DEF AtMostOnce
  <2>5. \A c \in Channels : \A x \in UnackedIds(c) : x \notin done
    BY <1>2 DEF AtMostOnce
  <2> QED
    BY <2>1, <2>2, <2>3, <2>4, <2>5
<1>3. ASSUME Places
      PROVE  AtMostOnce
  <2>1. \A q \in Queues : \A i, j \in DOMAIN store[q] :
          store[q][i].id = store[q][j].id => i = j
    BY <1>3 DEF Places, Distinct
  <2>2. \A q, r \in Queues : q # r => StoredIds(q) \cap StoredIds(r) = {}
    BY <1>3 DEF Places
  <2>3. \A c, d \in Channels : \A u \in unacked[c], v \in unacked[d] :
          u.message.id = v.message.id => c = d /\ u = v
    BY <1>3, Zenon DEF Places
  <2>4. \A q \in Queues, c \in Channels : StoredIds(q) \cap UnackedIds(c) = {}
    BY <1>3 DEF Places
  <2>5. \A q \in Queues : StoredIds(q) \cap done = {}
    BY <1>3 DEF Places
  <2>6. \A c \in Channels : UnackedIds(c) \cap done = {}
    BY <1>3 DEF Places
  <2> QED
    BY <2>1, <2>2, <2>3, <2>4, <2>5, <2>6 DEF AtMostOnce
<1> QED
  BY <1>1, <1>2, <1>3 DEF Places


-----------------------------------------------------------------------------
(* The ways a message moves *)

(* The head of q leaves the store. *)
HeadLeaves(q) ==
  /\ store[q] # <<>>
  /\ store' = [store EXCEPT ![q] = Tail(@)]

LEMMA HeadLeft ==
  ASSUME TypeOK, Places, NEW q \in Queues, HeadLeaves(q)
  PROVE  LET id == Head(store[q]).id
         IN  /\ id \in StoredIds(q)
             /\ \A p \in Queues : Distinct(store'[p])
             /\ \A p \in Queues : \A x :
                  x \in StoredIds(p)' <=> x \in StoredIds(p) /\ ~(p = q /\ x = id)
<1> DEFINE id == Head(store[q]).id
<1>1. store[q] \in Seq(Message) /\ store[q] # <<>> /\ Distinct(store[q])
  BY DEF TypeOK, HeadLeaves, Places
<1>2. /\ IdsIn(Tail(store[q])) = IdsIn(store[q]) \ {id}
      /\ id \in IdsIn(store[q])
      /\ Distinct(Tail(store[q]))
  BY <1>1, TailIds
<1>3. /\ store'[q] = Tail(store[q])
      /\ \A p \in Queues \ {q} : store'[p] = store[p]
  BY DEF TypeOK, HeadLeaves
<1>4. \A p \in Queues : Distinct(store'[p])
  BY <1>2, <1>3 DEF Places
<1>5. ASSUME NEW p \in Queues, NEW x
      PROVE  x \in StoredIds(p)' <=> x \in StoredIds(p) /\ ~(p = q /\ x = id)
  <2> HIDE DEF id
  <2>1. CASE p = q
    BY <2>1, <1>2, <1>3, StoreIds
  <2>2. CASE p # q
    BY <2>2, <1>3, StoreIds
  <2> QED
    BY <2>1, <2>2
<1> QED
  BY <1>2, <1>4, <1>5, StoreIds

(* A message whose id e.id is in no store comes to q, at either end. *)
Arrives(q, e) ==
  \/ store' = [store EXCEPT ![q] = <<e>> \o @]
  \/ store' = [store EXCEPT ![q] = Append(@, e)]

LEMMA Arrived ==
  ASSUME TypeOK, Places, NEW q \in Queues, NEW e \in Message, Arrives(q, e),
         e.id \notin StoredIds(q)
  PROVE  /\ \A p \in Queues : Distinct(store'[p])
         /\ \A p \in Queues : \A x :
              x \in StoredIds(p)' <=> x \in StoredIds(p) \/ (p = q /\ x = e.id)
<1>1. store[q] \in Seq(Message) /\ Distinct(store[q]) /\ e.id \notin IdsIn(store[q])
  BY StoreIds DEF TypeOK, Places
<1>2. /\ IdsIn(store'[q]) = IdsIn(store[q]) \cup {e.id}
      /\ Distinct(store'[q])
  <2>1. CASE store' = [store EXCEPT ![q] = <<e>> \o @]
    <3>1. store'[q] = <<e>> \o store[q]
      BY <2>1 DEF TypeOK
    <3> QED
      BY <1>1, <3>1, PrependIds
  <2>2. CASE store' = [store EXCEPT ![q] = Append(@, e)]
    <3>1. store'[q] = Append(store[q], e)
      BY <2>2 DEF TypeOK
    <3> QED
      BY <1>1, <3>1, AppendIds
  <2> QED
    BY <2>1, <2>2 DEF Arrives
<1>3. \A p \in Queues \ {q} : store'[p] = store[p]
  BY DEF TypeOK, Arrives
<1>4. \A p \in Queues : Distinct(store'[p])
  BY <1>2, <1>3 DEF Places
<1>5. ASSUME NEW p \in Queues, NEW x
      PROVE  x \in StoredIds(p)' <=> x \in StoredIds(p) \/ (p = q /\ x = e.id)
  <2>1. CASE p = q
    BY <2>1, <1>2, StoreIds
  <2>2. CASE p # q
    BY <2>2, <1>3, StoreIds
  <2> QED
    BY <2>1, <2>2
<1> QED
  BY <1>4, <1>5

(* A delivery is entered in the map of channel c. *)
Tracked(c, r) == unacked' = [unacked EXCEPT ![c] = @ \cup {r}]

LEMMA TrackedIds ==
  ASSUME TypeOK, NEW c \in Channels, NEW r, Tracked(c, r)
  PROVE  /\ \A d \in Channels : \A u :
              u \in unacked'[d] <=> u \in unacked[d] \/ (d = c /\ u = r)
         /\ \A d \in Channels : \A x :
              x \in UnackedIds(d)' <=> x \in UnackedIds(d) \/ (d = c /\ x = r.message.id)
<1>1. \A d \in Channels : \A u :
        u \in unacked'[d] <=> u \in unacked[d] \/ (d = c /\ u = r)
  BY DEF TypeOK, Tracked
<1> QED
  BY <1>1 DEF UnackedIds

(* The delivery u of channel c is settled. *)
LEMMA RemovedIds ==
  ASSUME TypeOK, Places, NEW c \in Channels, NEW u \in unacked[c], unacked' = Removed(c, u)
  PROVE  /\ u.message.id \in UnackedIds(c)
         /\ \A d \in Channels : unacked'[d] \subseteq unacked[d]
         /\ \A d \in Channels : \A x :
              x \in UnackedIds(d)' <=>
                x \in UnackedIds(d) /\ ~(d = c /\ x = u.message.id)
<1>1. /\ unacked'[c] = unacked[c] \ {u}
      /\ \A d \in Channels \ {c} : unacked'[d] = unacked[d]
  BY DEF TypeOK, Removed
<1>2. \A v \in unacked[c] : v.message.id = u.message.id => v = u
  BY DEF Places
<1>3. \A x : x \in UnackedIds(c)' <=> x \in UnackedIds(c) /\ x # u.message.id
  BY <1>1, <1>2 DEF UnackedIds
<1>4. \A d \in Channels \ {c} : \A x : x \in UnackedIds(d)' <=> x \in UnackedIds(d)
  BY <1>1 DEF UnackedIds
<1>5. u.message.id \in UnackedIds(c)
  BY DEF UnackedIds
<1> QED
  BY <1>1, <1>3, <1>4, <1>5


-----------------------------------------------------------------------------
(* Each move keeps every message at one place *)

(* Dequeued and done with: drained when expired, or delivered with noAck. *)
LEMMA HeadToDone ==
  ASSUME TypeOK, Places, NEW q \in Queues, HeadLeaves(q),
         done' = done \cup {Head(store[q]).id}, unacked' = unacked, published' = published
  PROVE  Places'
<1> DEFINE id == Head(store[q]).id
<1>1. /\ id \in StoredIds(q)
      /\ \A p \in Queues : Distinct(store'[p])
      /\ \A p \in Queues : \A x :
           x \in StoredIds(p)' <=> x \in StoredIds(p) /\ ~(p = q /\ x = id)
  BY HeadLeft
<1>2. \A d \in Channels : UnackedIds(d)' = UnackedIds(d)
  BY DEF UnackedIds
<1> HIDE DEF id
<1>3. \A x : x \in done' <=> x \in done \/ x = id
  BY DEF id
<1>4. \A p, r \in Queues : \A x \in StoredIds(p)' : x \in StoredIds(r)' => p = r
  BY <1>1 DEF Places
<1>5. \A p \in Queues : \A x \in StoredIds(p)' :
        x \notin done' /\ \A d \in Channels : x \notin UnackedIds(d)'
  BY <1>1, <1>2, <1>3 DEF Places
<1>6. \A d \in Channels : \A x \in UnackedIds(d)' : x \notin done'
  BY <1>1, <1>2, <1>3 DEF Places
<1>7. \A x : x \in 1 .. published' <=>
        \/ x \in done'
        \/ \E p \in Queues : x \in StoredIds(p)'
        \/ \E d \in Channels : x \in UnackedIds(d)'
  BY <1>1, <1>2, <1>3 DEF Places
<1>8. \A c, d \in Channels : \A u \in unacked'[c], v \in unacked'[d] :
        u.message.id = v.message.id => c = d /\ u = v
  BY DEF Places
<1> QED
  BY <1>1, <1>4, <1>5, <1>6, <1>7, <1>8 DEF Places

(* Dequeued and tracked as unacknowledged on a channel. *)
LEMMA HeadToChannel ==
  ASSUME TypeOK, Places, NEW q \in Queues, HeadLeaves(q), NEW c \in Channels,
         NEW r, r.message = Head(store[q]), Tracked(c, r),
         done' = done, published' = published
  PROVE  Places'
<1> DEFINE id == Head(store[q]).id
<1>1. /\ id \in StoredIds(q)
      /\ \A p \in Queues : Distinct(store'[p])
      /\ \A p \in Queues : \A x :
           x \in StoredIds(p)' <=> x \in StoredIds(p) /\ ~(p = q /\ x = id)
  BY HeadLeft
<1>2. r.message.id = id
  OBVIOUS
<1> HIDE DEF id
<1>3. /\ \A d \in Channels : \A u :
           u \in unacked'[d] <=> u \in unacked[d] \/ (d = c /\ u = r)
      /\ \A d \in Channels : \A x :
           x \in UnackedIds(d)' <=> x \in UnackedIds(d) \/ (d = c /\ x = id)
  BY <1>2, TrackedIds
<1>4. \A p, s \in Queues : \A x \in StoredIds(p)' : x \in StoredIds(s)' => p = s
  BY <1>1 DEF Places
<1>5. \A p \in Queues : \A x \in StoredIds(p)' :
        x \notin done' /\ \A d \in Channels : x \notin UnackedIds(d)'
  BY <1>1, <1>3 DEF Places
<1>6. \A d \in Channels : \A x \in UnackedIds(d)' : x \notin done'
  BY <1>1, <1>3 DEF Places
<1>7. \A x : x \in 1 .. published' <=>
        \/ x \in done'
        \/ \E p \in Queues : x \in StoredIds(p)'
        \/ \E d \in Channels : x \in UnackedIds(d)'
  BY <1>1, <1>3 DEF Places
<1>8. ASSUME NEW d \in Channels, NEW e \in Channels, NEW u \in unacked'[d], NEW v \in unacked'[e],
             u.message.id = v.message.id
      PROVE  d = e /\ u = v
  <2>1. \A b \in Channels : \A w \in unacked[b] : w.message.id # id
    BY <1>1 DEF Places, UnackedIds
  <2>2. CASE u \in unacked[d] /\ v \in unacked[e]
    BY <1>8, <2>2 DEF Places
  <2>3. CASE u \notin unacked[d]
    <3>1. d = c /\ u = r
      BY <1>3, <2>3
    <3> QED
      BY <1>2, <1>3, <1>8, <2>1, <3>1
  <2>4. CASE v \notin unacked[e]
    <3>1. e = c /\ v = r
      BY <1>3, <2>4
    <3> QED
      BY <1>2, <1>3, <1>8, <2>1, <3>1
  <2> QED
    BY <2>2, <2>3, <2>4
<1> QED
  BY <1>1, <1>4, <1>5, <1>6, <1>7, <1>8 DEF Places

(* Settled and done with: acked, or discarded. *)
LEMMA ChannelToDone ==
  ASSUME TypeOK, Places, NEW c \in Channels, NEW u \in unacked[c], unacked' = Removed(c, u),
         done' = done \cup {u.message.id}, store' = store, published' = published
  PROVE  Places'
<1> DEFINE id == u.message.id
<1>1. /\ id \in UnackedIds(c)
      /\ \A d \in Channels : unacked'[d] \subseteq unacked[d]
      /\ \A d \in Channels : \A x :
           x \in UnackedIds(d)' <=> x \in UnackedIds(d) /\ ~(d = c /\ x = id)
  BY RemovedIds
<1>2. \A p \in Queues : StoredIds(p)' = StoredIds(p)
  BY DEF StoredIds
<1> HIDE DEF id
<1>3. \A x : x \in done' <=> x \in done \/ x = id
  BY DEF id
<1>4. \A d \in Channels : id \in UnackedIds(d) => d = c
  BY DEF Places, UnackedIds, id
<1>5. \A p \in Queues : \A x \in StoredIds(p)' :
        x \notin done' /\ \A d \in Channels : x \notin UnackedIds(d)'
  BY <1>1, <1>2, <1>3 DEF Places
<1>6. \A d \in Channels : \A x \in UnackedIds(d)' : x \notin done'
  BY <1>1, <1>3, <1>4 DEF Places
<1>7. \A x : x \in 1 .. published' <=>
        \/ x \in done'
        \/ \E p \in Queues : x \in StoredIds(p)'
        \/ \E d \in Channels : x \in UnackedIds(d)'
  BY <1>1, <1>2, <1>3, <1>4 DEF Places
<1>8. \A d, e \in Channels : \A v \in unacked'[d], w \in unacked'[e] :
        v.message.id = w.message.id => d = e /\ v = w
  BY <1>1 DEF Places
<1>9. \A p, r \in Queues : \A x \in StoredIds(p)' : x \in StoredIds(r)' => p = r
  BY <1>2 DEF Places
<1>10. \A p \in Queues : Distinct(store'[p])
  BY DEF Places
<1> QED
  BY <1>5, <1>6, <1>7, <1>8, <1>9, <1>10 DEF Places

(* Settled and back in its queue. *)
LEMMA ChannelToStore ==
  ASSUME TypeOK, Places, NEW c \in Channels, NEW u \in unacked[c], unacked' = Removed(c, u),
         NEW q \in Queues, NEW e \in Message, e.id = u.message.id, Arrives(q, e),
         done' = done, published' = published
  PROVE  Places'
<1> DEFINE id == e.id
<1>1. /\ id \in UnackedIds(c)
      /\ \A d \in Channels : unacked'[d] \subseteq unacked[d]
      /\ \A d \in Channels : \A x :
           x \in UnackedIds(d)' <=> x \in UnackedIds(d) /\ ~(d = c /\ x = id)
  BY RemovedIds
<1>2. \A d \in Channels : id \in UnackedIds(d) => d = c
  BY DEF Places, UnackedIds
<1>3. id \notin done /\ \A p \in Queues : id \notin StoredIds(p)
  BY <1>1 DEF Places
<1>4. /\ \A p \in Queues : Distinct(store'[p])
      /\ \A p \in Queues : \A x :
           x \in StoredIds(p)' <=> x \in StoredIds(p) \/ (p = q /\ x = id)
  BY <1>3, Arrived
<1> HIDE DEF id
<1>5. \A p, r \in Queues : \A x \in StoredIds(p)' : x \in StoredIds(r)' => p = r
  BY <1>3, <1>4 DEF Places
<1>6. \A p \in Queues : \A x \in StoredIds(p)' :
        x \notin done' /\ \A d \in Channels : x \notin UnackedIds(d)'
  BY <1>1, <1>2, <1>3, <1>4 DEF Places
<1>7. \A d \in Channels : \A x \in UnackedIds(d)' : x \notin done'
  BY <1>1 DEF Places
<1>8. \A x : x \in 1 .. published' <=>
        \/ x \in done'
        \/ \E p \in Queues : x \in StoredIds(p)'
        \/ \E d \in Channels : x \in UnackedIds(d)'
  BY <1>1, <1>2, <1>4 DEF Places
<1>9. \A d, f \in Channels : \A v \in unacked'[d], w \in unacked'[f] :
        v.message.id = w.message.id => d = f /\ v = w
  BY <1>1 DEF Places
<1> QED
  BY <1>4, <1>5, <1>6, <1>7, <1>8, <1>9 DEF Places

(* A new message enters one queue. *)
LEMMA NewToStore ==
  ASSUME TypeOK, Places, NEW q \in Queues, NEW e \in Message, e.id = published + 1,
         Arrives(q, e), published' = published + 1, unacked' = unacked, done' = done
  PROVE  Places'
<1> DEFINE id == e.id
<1>1. published \in Nat
  BY DeliveryAssumption DEF TypeOK
<1>2. \A x : x \in 1 .. published' <=> x \in 1 .. published \/ x = id
  BY <1>1
<1>3. id \notin 1 .. published
  BY <1>1
<1>4. /\ id \notin done
      /\ \A p \in Queues : id \notin StoredIds(p)
      /\ \A d \in Channels : id \notin UnackedIds(d)
  BY <1>3 DEF Places
<1>5. /\ \A p \in Queues : Distinct(store'[p])
      /\ \A p \in Queues : \A x :
           x \in StoredIds(p)' <=> x \in StoredIds(p) \/ (p = q /\ x = id)
  BY <1>4, Arrived
<1>6. \A d \in Channels : UnackedIds(d)' = UnackedIds(d)
  BY DEF UnackedIds
<1> HIDE DEF id
<1>7. \A p, r \in Queues : \A x \in StoredIds(p)' : x \in StoredIds(r)' => p = r
  BY <1>4, <1>5 DEF Places
<1>8. \A p \in Queues : \A x \in StoredIds(p)' :
        x \notin done' /\ \A d \in Channels : x \notin UnackedIds(d)'
  BY <1>4, <1>5, <1>6 DEF Places
<1>9. \A d \in Channels : \A x \in UnackedIds(d)' : x \notin done'
  BY <1>6 DEF Places
<1>10. \A x : x \in 1 .. published' <=>
        \/ x \in done'
        \/ \E p \in Queues : x \in StoredIds(p)'
        \/ \E d \in Channels : x \in UnackedIds(d)'
  BY <1>2, <1>5, <1>6 DEF Places
<1>11. \A c, d \in Channels : \A u \in unacked'[c], v \in unacked'[d] :
        u.message.id = v.message.id => c = d /\ u = v
  BY DEF Places
<1> QED
  BY <1>5, <1>7, <1>8, <1>9, <1>10, <1>11 DEF Places

(* Nothing moves. *)
LEMMA NothingMoves ==
  ASSUME Places, UNCHANGED <<store, unacked, done, published>>
  PROVE  Places'
  BY DEF Places, Distinct, StoredIds, UnackedIds

-----------------------------------------------------------------------------
(* Every step is one of these moves *)

LEMMA PlacesInit == Init => Places
<1> SUFFICES ASSUME Init PROVE Places
  OBVIOUS
<1>1. /\ \A q \in Queues : store[q] = <<>> /\ StoredIds(q) = {}
      /\ \A c \in Channels : unacked[c] = {} /\ UnackedIds(c) = {}
      /\ done = {} /\ published = 0
  BY DEF Init, StoredIds, UnackedIds
<1> QED
  BY <1>1 DEF Places, Distinct

LEMMA DispatchMoves ==
  ASSUME TypeOK, Places, DispatchStep
  PROVE  Places'
<1> DEFINE q == Top.queue
<1>1. q \in Queues
  BY TopOfCall, FrameFields DEF DispatchStep
<1>2. PICK k \in DOMAIN Consumers(q) :
        \E c \in EligibleOn(Top.conn, Consumers(q)[k]) : Deliver(q, Consumers(q)[k], c)
  BY DEF DispatchStep
<1> DEFINE t == Consumers(q)[k]
<1>3. PICK c \in EligibleOn(Top.conn, t) : Deliver(q, t, c)
  BY <1>2
<1>4. c \in Channels
  BY <1>3 DEF EligibleOn, GetChannel
<1>5. HeadLeaves(q) /\ published' = published
  BY <1>3 DEF HeadLeaves, Deliver, DispatchStep
<1> DEFINE r == [tag |-> NextTag(c), message |-> Head(store[q]), queue |-> q, consumer |-> t]
<1>6. \/ done' = done \cup {Head(store[q]).id} /\ unacked' = unacked
      \/ Tracked(c, r) /\ done' = done
  BY <1>3 DEF Deliver, Tracked
<1>7. r.message = Head(store[q])
  OBVIOUS
<1> HIDE DEF q, r
<1> QED
  BY <1>1, <1>4, <1>5, <1>6, <1>7, HeadToDone, HeadToChannel

LEMMA GetMoves ==
  ASSUME TypeOK, Places, GetTake
  PROVE  Places'
<1> DEFINE q == Top.queue
           c == Top.channel
           r == [tag |-> NextTag(c), message |-> Head(store[q]), queue |-> q,
                 consumer |-> NoConsumer]
<1>1. q \in Queues /\ c \in Channels
  BY TopOfCall, FrameFields DEF GetTake
<1>2. HeadLeaves(q) /\ published' = published
  BY DEF HeadLeaves, GetTake
<1>3. \/ done' = done \cup {Head(store[q]).id} /\ unacked' = unacked
      \/ Tracked(c, r) /\ done' = done
  BY DEF GetTake, Tracked
<1>4. r.message = Head(store[q])
  OBVIOUS
<1> HIDE DEF q, c, r
<1> QED
  BY <1>1, <1>2, <1>3, <1>4, HeadToDone, HeadToChannel

LEMMA SettleMoves ==
  ASSUME TypeOK, Places, SettleStep
  PROVE  Places'
<1> DEFINE c == Top.channel
<1>1. c \in Channels
  BY TopOfCall, FrameFields DEF SettleStep
<1>2. PICK u \in unacked[c] :
        /\ unacked' = Removed(c, u)
        /\ \/ done' = done \cup {u.message.id} /\ store' = store
           \/ store' = Requeued(u) /\ done' = done
  BY DEF SettleStep
<1>3. published' = published
  BY DEF SettleStep
<1> HIDE DEF c
<1>4. u \in Unacked
  BY <1>1 DEF TypeOK
<1> DEFINE e == Recounted(u.message)
<1>5. u.queue \in Queues /\ e \in Message /\ e.id = u.message.id
  BY <1>4 DEF Unacked, Message, Recounted
<1>6. store' = Requeued(u) => Arrives(u.queue, e)
  BY DEF Requeued, Arrives
<1> HIDE DEF e
<1>7. CASE done' = done \cup {u.message.id} /\ store' = store
  BY <1>1, <1>2, <1>3, <1>7, ChannelToDone
<1>8. CASE store' = Requeued(u) /\ done' = done
  BY <1>1, <1>2, <1>3, <1>5, <1>6, <1>8, ChannelToStore
<1> QED
  BY <1>2, <1>7, <1>8

LEMMA PublishMoves ==
  ASSUME TypeOK, Places, NEW c \in Channels, NEW q \in Queues, Publish(c, q)
  PROVE  Places'
<1> DEFINE e == [id |-> published + 1, deliveryCount |-> 0]
<1>1. e \in Message /\ e.id = published + 1
  BY DeliveryAssumption DEF TypeOK, Publish, Message, Ids
<1>2. Arrives(q, e)
  BY DEF Arrives, Publish
<1>3. published' = published + 1 /\ unacked' = unacked /\ done' = done
  BY DEF Publish
<1> HIDE DEF e
<1> QED
  BY <1>1, <1>2, <1>3, NewToStore

LEMMA PlacesStep == TypeOK /\ Places /\ [Next]_vars => Places'
<1> SUFFICES ASSUME TypeOK, Places, [Next]_vars
             PROVE  Places'
  OBVIOUS
<1>1. CASE RunCall
  <2>1. CASE DropExpired
    <3> DEFINE q == Top.queue
    <3>1. q \in Queues
      BY <2>1, TopOfCall, FrameFields DEF DropExpired
    <3>2. /\ HeadLeaves(q)
          /\ done' = done \cup {Head(store[q]).id}
          /\ unacked' = unacked /\ published' = published
      BY <2>1 DEF DropExpired, HeadLeaves, HeadExpired
    <3> HIDE DEF q
    <3> QED
      BY <3>1, <3>2, HeadToDone
  <2>2. CASE DispatchStep
    BY <2>2, DispatchMoves
  <2>3. CASE GetTake
    BY <2>3, GetMoves
  <2>4. CASE SettleStep
    BY <2>4, SettleMoves
  <2>5. CASE DrainEnd \/ DispatchEnd \/ GetEmpty \/ SettleEnd \/ CancelStep \/ CancelEnd
    BY <2>5, NothingMoves
       DEF DrainEnd, DispatchEnd, GetEmpty, SettleEnd, CancelStep, CancelEnd,
           brokerVars, historyVars
  <2> QED
    BY <1>1, <2>1, <2>2, <2>3, <2>4, <2>5 DEF RunCall
<1>2. CASE \E c \in Channels : ClientNext(c)
  <2> SUFFICES ASSUME NEW c \in Channels, ClientNext(c)
               PROVE  Places'
    BY <1>2
  <2>1. CASE \E q \in Queues : Publish(c, q)
    BY <2>1, PublishMoves
  <2>2. CASE \/ \E q \in Queues, t \in Tags, o \in ConsumeOptions : Consume(c, q, t, o)
             \/ \E t \in Tags : Cancel(c, t)
             \/ \E q \in Queues, noAck \in BOOLEAN : Get(c, q, noAck)
    BY <2>2, NothingMoves DEF Consume, Cancel, Get, brokerVars, historyVars
  <2>3. CASE AnswerNext(c)
    BY <2>3, NothingMoves
       DEF AnswerNext, Ack, Nack, Answer, AckAll, NackAll, SettleAll, brokerVars, historyVars
  <2>4. CASE Recover(c)
    BY <2>4, NothingMoves DEF Recover, SettleAll, brokerVars, historyVars
  <2>5. CASE \/ \E count \in PrefetchCounts, global \in BOOLEAN : Prefetch(c, count, global)
             \/ \E active \in BOOLEAN : Flow(c, active)
             \/ Close(c)
    BY <2>5, NothingMoves DEF Prefetch, Flow, Close, historyVars
  <2> QED
    BY <2>1, <2>2, <2>3, <2>4, <2>5 DEF ClientNext
<1>3. CASE \/ RunMicrotask
           \/ \E conn \in Connections : CloseConnection(conn)
           \/ \E id \in Perishable : Expire(id)
           \/ UNCHANGED vars
  BY <1>3, NothingMoves
     DEF RunMicrotask, CloseConnection, Expire, vars, brokerVars, historyVars
<1> QED
  BY <1>1, <1>2, <1>3 DEF Next

-----------------------------------------------------------------------------

(* No message is ever at two places: not twice in a store, not in a store and
   unacknowledged, not unacknowledged on two channels, not back after it was
   done with.  However the clients interleave publish, get, consume, ack,
   nack, recover, cancel and close, no two of them get hold of one delivery. *)
THEOREM NoDuplicates == Spec => []AtMostOnce
<1>1. Places => AtMostOnce
  BY PlacesMean
<1> QED
  BY <1>1, PlacesInit, PlacesStep, TypeCorrect, PTL DEF Spec

(* Every message published is in a store, unacknowledged on a channel, or done
   with (acked, discarded, delivered without acknowledgement, or expired). *)
THEOREM NoLoss == Spec => []NothingLost
<1>1. Places => NothingLost
  BY PlacesMean
<1> QED
  BY <1>1, PlacesInit, PlacesStep, TypeCorrect, PTL DEF Spec

-----------------------------------------------------------------------------
(* The order within a store's array *)

Ordered(s) ==
  \A i, j \in DOMAIN s :
    i < j /\ s[i].deliveryCount = 0 => s[j].deliveryCount = 0 /\ s[i].id < s[j].id

(* The redelivered flags of s, if D are the messages ever delivered. *)
Flagged(s, D) == \A i \in DOMAIN s : s[i].deliveryCount > 0 <=> s[i].id \in D

LEMMA TailOrdered ==
  ASSUME NEW s \in Seq(Message), s # <<>>, Ordered(s), Distinct(s), NEW D, Flagged(s, D)
  PROVE  /\ Ordered(Tail(s))
         /\ Flagged(Tail(s), D)
         /\ Flagged(Tail(s), D \cup {Head(s).id})
<1> DEFINE r == Tail(s)
<1>1. Len(s) \in Nat /\ DOMAIN s = 1 .. Len(s) /\ Head(s) = s[1] /\ 1 \in DOMAIN s
  BY EmptySeq, LenProperties
<1>2. r \in Seq(Message) /\ Len(r) = Len(s) - 1 /\ \A i \in 1 .. Len(r) : r[i] = s[i + 1]
  BY HeadTailProperties
<1>3. DOMAIN r = 1 .. Len(r)
  BY <1>2, LenProperties
<1> HIDE DEF r
<1>4. \A i \in DOMAIN r : i \in Nat /\ i + 1 \in DOMAIN s /\ r[i] = s[i + 1] /\ i + 1 # 1
  BY <1>1, <1>2, <1>3
<1>5. Ordered(r)
  <2> SUFFICES ASSUME NEW i \in DOMAIN r, NEW j \in DOMAIN r, i < j, r[i].deliveryCount = 0
               PROVE  r[j].deliveryCount = 0 /\ r[i].id < r[j].id
    BY DEF Ordered
  <2>1. i + 1 < j + 1
    BY <1>4
  <2> QED
    BY <1>4, <2>1 DEF Ordered
<1>6. Flagged(r, D)
  BY <1>4 DEF Flagged
<1>7. \A i \in DOMAIN r : r[i].id # Head(s).id
  BY <1>1, <1>4 DEF Distinct
<1>8. Flagged(r, D \cup {Head(s).id})
  BY <1>6, <1>7 DEF Flagged
<1> QED
  BY <1>5, <1>6, <1>8 DEF r

LEMMA PrependOrdered ==
  ASSUME NEW s \in Seq(Message), NEW e \in Message, Ordered(s), e.deliveryCount > 0,
         NEW D, Flagged(s, D), e.id \in D
  PROVE  Ordered(<<e>> \o s) /\ Flagged(<<e>> \o s, D)
<1> DEFINE r == <<e>> \o s
<1>1. Len(s) \in Nat /\ DOMAIN s = 1 .. Len(s)
  BY LenProperties
<1>2. /\ r \in Seq(Message)
      /\ Len(r) = Len(s) + 1
      /\ \A i \in 1 .. Len(s) + 1 : r[i] = IF i = 1 THEN e ELSE s[i - 1]
  BY Prepended
<1>3. DOMAIN r = 1 .. Len(s) + 1
  BY <1>2, LenProperties
<1> HIDE DEF r
<1>4. \A i \in DOMAIN r :
        i \in Nat /\ (i = 1 => r[i] = e) /\ (i # 1 => i - 1 \in DOMAIN s /\ r[i] = s[i - 1])
  BY <1>1, <1>2, <1>3
<1>5. e.deliveryCount # 0
  BY DEF Message
<1>6. Ordered(r)
  <2> SUFFICES ASSUME NEW i \in DOMAIN r, NEW j \in DOMAIN r, i < j, r[i].deliveryCount = 0
               PROVE  r[j].deliveryCount = 0 /\ r[i].id < r[j].id
    BY DEF Ordered
  <2>1. i # 1 /\ j # 1 /\ i - 1 < j - 1
    BY <1>1, <1>3, <1>4, <1>5
  <2> QED
    BY <1>4, <2>1 DEF Ordered
<1>7. Flagged(r, D)
  BY <1>4 DEF Flagged
<1> QED
  BY <1>6, <1>7 DEF r

LEMMA AppendOrdered ==
  ASSUME NEW s \in Seq(Message), NEW e \in Message, Ordered(s), e.deliveryCount = 0,
         NEW D, Flagged(s, D), e.id \notin D, \A x \in IdsIn(s) : x < e.id
  PROVE  Ordered(Append(s, e)) /\ Flagged(Append(s, e), D)
<1> DEFINE r == Append(s, e)
           n == Len(s) + 1
<1>1. Len(s) \in Nat /\ DOMAIN s = 1 .. Len(s)
  BY LenProperties
<1>2. /\ r \in Seq(Message)
      /\ Len(r) = n
      /\ \A i \in 1 .. Len(s) : r[i] = s[i]
      /\ r[n] = e
  BY AppendProperties
<1>3. DOMAIN r = 1 .. n
  BY <1>2, LenProperties
<1> HIDE DEF r
<1>4. \A i \in DOMAIN r : i # n => i \in DOMAIN s /\ r[i] = s[i] /\ i < n
  BY <1>1, <1>2, <1>3
<1>5. \A i \in DOMAIN r : i <= n
  BY <1>1, <1>3
<1>6. Ordered(r)
  <2> SUFFICES ASSUME NEW i \in DOMAIN r, NEW j \in DOMAIN r, i < j, r[i].deliveryCount = 0
               PROVE  r[j].deliveryCount = 0 /\ r[i].id < r[j].id
    BY DEF Ordered
  <2>1. i # n
    BY <1>1, <1>3
  <2>2. CASE j = n
    BY <2>1, <2>2, <1>2, <1>4 DEF IdsIn
  <2>3. CASE j # n
    BY <2>1, <2>3, <1>4 DEF Ordered
  <2> QED
    BY <2>2, <2>3
<1>7. Flagged(r, D)
  <2> SUFFICES ASSUME NEW i \in DOMAIN r
               PROVE  r[i].deliveryCount > 0 <=> r[i].id \in D
    BY DEF Flagged
  <2>1. CASE i = n
    BY <2>1, <1>2
  <2>2. CASE i # n
    BY <2>2, <1>4 DEF Flagged
  <2> QED
    BY <2>1, <2>2
<1> QED
  BY <1>6, <1>7 DEF r

-----------------------------------------------------------------------------
(* The invariant *)

Sorted ==
  /\ \A q \in Queues : Ordered(store[q]) /\ Flagged(store[q], delivered)
  /\ \A c \in Channels : UnackedIds(c) \subseteq delivered
  /\ delivered \subseteq 1 .. published
  /\ expired \subseteq Perishable

LEMMA SortedMeans == Sorted => FreshInOrder /\ RedeliveredIffDelivered
  BY DEF Sorted, Ordered, Flagged, FreshInOrder, RedeliveredIffDelivered

LEMMA HeadIsStored ==
  ASSUME TypeOK, Places, NEW q \in Queues, store[q] # <<>>
  PROVE  /\ Head(store[q]) \in Message
         /\ Head(store[q]).id \in StoredIds(q)
         /\ Head(store[q]).id \in 1 .. published
         /\ \A p \in Queues : p # q => Head(store[q]).id \notin IdsIn(store[p])
<1>1. store[q] \in Seq(Message) /\ Distinct(store[q])
  BY DEF TypeOK, Places
<1>2. Head(store[q]).id \in StoredIds(q)
  BY <1>1, TailIds, StoreIds
<1>3. Head(store[q]) \in Message
  BY <1>1, HeadTailProperties
<1> QED
  BY <1>2, <1>3, StoreIds DEF Places

(* The head of q leaves its store, handed out or not. *)
LEMMA HeadLeavesSorted ==
  ASSUME TypeOK, Places, Sorted, NEW q \in Queues, HeadLeaves(q),
         delivered' \in {delivered, delivered \cup {Head(store[q]).id}},
         \A c \in Channels : UnackedIds(c)' \subseteq delivered',
         published' = published, expired' = expired
  PROVE  Sorted'
<1> DEFINE id == Head(store[q]).id
<1>1. /\ store[q] \in Seq(Message) /\ store[q] # <<>>
      /\ Distinct(store[q]) /\ Ordered(store[q]) /\ Flagged(store[q], delivered)
  BY DEF TypeOK, HeadLeaves, Places, Sorted
<1>2. /\ store'[q] = Tail(store[q])
      /\ \A p \in Queues \ {q} : store'[p] = store[p]
  BY DEF TypeOK, HeadLeaves
<1>3. Ordered(store'[q]) /\ Flagged(store'[q], delivered')
  BY <1>1, <1>2, TailOrdered
<1>4. id \in 1 .. published /\ \A p \in Queues : p # q => id \notin IdsIn(store[p])
  BY <1>1, HeadIsStored
<1> HIDE DEF id
<1>5. delivered' \in {delivered, delivered \cup {id}}
  BY DEF id
<1>6. \A p \in Queues \ {q} : Ordered(store'[p]) /\ Flagged(store'[p], delivered')
  <2> SUFFICES ASSUME NEW p \in Queues \ {q}
               PROVE  Ordered(store'[p]) /\ Flagged(store'[p], delivered')
    OBVIOUS
  <2>1. store'[p] = store[p] /\ Ordered(store[p]) /\ Flagged(store[p], delivered)
    BY <1>2 DEF Sorted
  <2>2. \A i \in DOMAIN store[p] : store[p][i].id # id
    BY <1>4 DEF IdsIn
  <2>3. Flagged(store[p], delivered')
    BY <2>1, <2>2, <1>5 DEF Flagged
  <2> QED
    BY <2>1, <2>3
<1>7. delivered' \subseteq 1 .. published'
  BY <1>4, <1>5 DEF Sorted
<1> QED
  BY <1>3, <1>6, <1>7 DEF Sorted

(* Nothing in the stores, and nothing that was delivered, changes. *)
LEMMA StoresUntouched ==
  ASSUME Sorted, UNCHANGED <<store, unacked, delivered, published, expired>>
  PROVE  Sorted'
  BY DEF Sorted, Ordered, Flagged, UnackedIds

LEMMA SortedInit == Init => Sorted
<1> SUFFICES ASSUME Init PROVE Sorted
  OBVIOUS
<1>1. /\ \A q \in Queues : store[q] = <<>>
      /\ \A c \in Channels : UnackedIds(c) = {}
      /\ delivered = {} /\ expired = {}
  BY DEF Init, UnackedIds
<1> QED
  BY <1>1 DEF Sorted, Ordered, Flagged

LEMMA DispatchSorted ==
  ASSUME TypeOK, Places, Sorted, DispatchStep
  PROVE  Sorted'
<1> DEFINE q == Top.queue
           m == Head(store[q])
<1>1. q \in Queues
  BY TopOfCall, FrameFields DEF DispatchStep
<1>2. PICK k \in DOMAIN Consumers(q) :
        \E c \in EligibleOn(Top.conn, Consumers(q)[k]) : Deliver(q, Consumers(q)[k], c)
  BY DEF DispatchStep
<1> DEFINE t == Consumers(q)[k]
<1>3. PICK c \in EligibleOn(Top.conn, t) : Deliver(q, t, c)
  BY <1>2
<1>4. c \in Channels
  BY <1>3 DEF EligibleOn, GetChannel
<1>5. HeadLeaves(q)
  BY DEF HeadLeaves, DispatchStep, Deliver
<1>6. delivered' = delivered \cup {m.id} /\ published' = published /\ expired' = expired
  BY <1>3 DEF DispatchStep, Deliver
<1> DEFINE r == [tag |-> NextTag(c), message |-> m, queue |-> q, consumer |-> t]
<1>7. unacked' = unacked \/ Tracked(c, r)
  BY <1>3 DEF Deliver, Tracked
<1>8. r.message.id = m.id
  OBVIOUS
<1> HIDE DEF q, r
<1>9. \A d \in Channels : UnackedIds(d)' \subseteq UnackedIds(d) \cup {m.id}
  <2>1. CASE unacked' = unacked
    BY <2>1 DEF UnackedIds
  <2>2. CASE Tracked(c, r)
    BY <2>2, <1>4, <1>8, TrackedIds
  <2> QED
    BY <1>7, <2>1, <2>2
<1>10. \A d \in Channels : UnackedIds(d)' \subseteq delivered'
  BY <1>6, <1>9 DEF Sorted
<1> QED
  BY <1>1, <1>5, <1>6, <1>10, HeadLeavesSorted

LEMMA GetSorted ==
  ASSUME TypeOK, Places, Sorted, GetTake
  PROVE  Sorted'
<1> DEFINE q == Top.queue
           c == Top.channel
           m == Head(store[q])
           r == [tag |-> NextTag(c), message |-> m, queue |-> q, consumer |-> NoConsumer]
<1>1. q \in Queues /\ c \in Channels
  BY TopOfCall, FrameFields DEF GetTake
<1>2. HeadLeaves(q)
  BY DEF HeadLeaves, GetTake
<1>3. delivered' = delivered \cup {m.id} /\ published' = published /\ expired' = expired
  BY DEF GetTake
<1>4. unacked' = unacked \/ Tracked(c, r)
  BY DEF GetTake, Tracked
<1>5. r.message.id = m.id
  OBVIOUS
<1> HIDE DEF q, c, r
<1>6. \A d \in Channels : UnackedIds(d)' \subseteq UnackedIds(d) \cup {m.id}
  <2>1. CASE unacked' = unacked
    BY <2>1 DEF UnackedIds
  <2>2. CASE Tracked(c, r)
    BY <2>2, <1>1, <1>5, TrackedIds
  <2> QED
    BY <1>4, <2>1, <2>2
<1>7. \A d \in Channels : UnackedIds(d)' \subseteq delivered'
  BY <1>3, <1>6 DEF Sorted
<1> QED
  BY <1>1, <1>2, <1>3, <1>7, HeadLeavesSorted

LEMMA SettleSorted ==
  ASSUME TypeOK, Places, Sorted, SettleStep
  PROVE  Sorted'
<1> DEFINE c == Top.channel
<1>1. c \in Channels
  BY TopOfCall, FrameFields DEF SettleStep
<1>2. PICK u \in unacked[c] :
        unacked' = Removed(c, u) /\ (store' = store \/ store' = Requeued(u))
  BY DEF SettleStep
<1>3. delivered' = delivered /\ published' = published /\ expired' = expired
  BY DEF SettleStep
<1> HIDE DEF c
<1>4. u \in Unacked /\ u.message.id \in delivered
  BY <1>1 DEF TypeOK, Sorted, UnackedIds
<1> DEFINE e == Recounted(u.message)
<1>5. u.queue \in Queues /\ e \in Message /\ e.id = u.message.id /\ e.deliveryCount > 0
  BY <1>4 DEF Unacked, Message, Recounted
<1>6. \A d \in Channels : UnackedIds(d)' \subseteq delivered'
  BY <1>1, <1>2, <1>3, RemovedIds DEF Sorted
<1>7. \A q \in Queues : Ordered(store'[q]) /\ Flagged(store'[q], delivered')
  <2>1. CASE store' = store
    BY <2>1, <1>3 DEF Sorted
  <2>2. CASE store' = Requeued(u)
    <3>1. /\ store'[u.queue] = <<e>> \o store[u.queue]
          /\ \A q \in Queues \ {u.queue} : store'[q] = store[q]
      BY <2>2, <1>5 DEF TypeOK, Requeued
    <3>2. /\ store[u.queue] \in Seq(Message) /\ Ordered(store[u.queue])
          /\ Flagged(store[u.queue], delivered)
      BY <1>5 DEF TypeOK, Sorted
    <3>3. e.id \in delivered
      BY <1>4, <1>5
    <3> HIDE DEF e
    <3>4. Ordered(store'[u.queue]) /\ Flagged(store'[u.queue], delivered)
      BY <3>1, <3>2, <3>3, <1>5, PrependOrdered
    <3> QED
      BY <3>1, <3>4, <1>3 DEF Sorted
  <2> QED
    BY <1>2, <2>1, <2>2
<1> QED
  BY <1>3, <1>6, <1>7 DEF Sorted

LEMMA PublishSorted ==
  ASSUME TypeOK, Places, Sorted, NEW c \in Channels, NEW q \in Queues, Publish(c, q)
  PROVE  Sorted'
<1> DEFINE e == [id |-> published + 1, deliveryCount |-> 0]
<1>1. e \in Message /\ e.id = published + 1 /\ e.deliveryCount = 0
  BY DeliveryAssumption DEF TypeOK, Publish, Message, Ids
<1>2. /\ store'[q] = Append(store[q], e)
      /\ \A p \in Queues \ {q} : store'[p] = store[p]
      /\ published' = published + 1 /\ delivered' = delivered
      /\ unacked' = unacked /\ expired' = expired
  BY DEF TypeOK, Publish
<1>3. published \in Nat
  BY DeliveryAssumption DEF TypeOK
<1>4. e.id \notin delivered /\ delivered' \subseteq 1 .. published'
  BY <1>1, <1>2, <1>3 DEF Sorted
<1>5. /\ store[q] \in Seq(Message) /\ Ordered(store[q]) /\ Flagged(store[q], delivered)
      /\ \A x \in IdsIn(store[q]) : x < e.id
  <2>1. \A x \in IdsIn(store[q]) : x \in 1 .. published
    BY StoreIds DEF Places
  <2> QED
    BY <1>1, <1>3, <2>1 DEF TypeOK, Sorted
<1> HIDE DEF e
<1>6. Ordered(store'[q]) /\ Flagged(store'[q], delivered)
  BY <1>1, <1>2, <1>4, <1>5, AppendOrdered
<1>7. \A p \in Queues : Ordered(store'[p]) /\ Flagged(store'[p], delivered')
  BY <1>2, <1>6 DEF Sorted
<1>8. \A d \in Channels : UnackedIds(d)' \subseteq delivered'
  BY <1>2 DEF Sorted, UnackedIds
<1> QED
  BY <1>2, <1>4, <1>7, <1>8 DEF Sorted

LEMMA SortedStep == TypeOK /\ Places /\ Sorted /\ [Next]_vars => Sorted'
<1> SUFFICES ASSUME TypeOK, Places, Sorted, [Next]_vars
             PROVE  Sorted'
  OBVIOUS
<1>1. CASE RunCall
  <2>1. CASE DropExpired
    <3> DEFINE q == Top.queue
    <3>1. q \in Queues
      BY <2>1, TopOfCall, FrameFields DEF DropExpired
    <3>2. /\ HeadLeaves(q)
          /\ unacked' = unacked /\ published' = published
          /\ delivered' = delivered /\ expired' = expired
      BY <2>1 DEF DropExpired, HeadLeaves, HeadExpired
    <3>3. \A c \in Channels : UnackedIds(c)' \subseteq delivered'
      BY <3>2 DEF Sorted, UnackedIds
    <3> HIDE DEF q
    <3> QED
      BY <3>1, <3>2, <3>3, HeadLeavesSorted
  <2>2. CASE DispatchStep
    BY <2>2, DispatchSorted
  <2>3. CASE GetTake
    BY <2>3, GetSorted
  <2>4. CASE SettleStep
    BY <2>4, SettleSorted
  <2>5. CASE DrainEnd \/ DispatchEnd \/ GetEmpty \/ SettleEnd \/ CancelStep \/ CancelEnd
    BY <2>5, StoresUntouched
       DEF DrainEnd, DispatchEnd, GetEmpty, SettleEnd, CancelStep, CancelEnd,
           brokerVars, historyVars
  <2> QED
    BY <1>1, <2>1, <2>2, <2>3, <2>4, <2>5 DEF RunCall
<1>2. CASE \E c \in Channels : ClientNext(c)
  <2> SUFFICES ASSUME NEW c \in Channels, ClientNext(c)
               PROVE  Sorted'
    BY <1>2
  <2>1. CASE \E q \in Queues : Publish(c, q)
    BY <2>1, PublishSorted
  <2>2. CASE \/ \E q \in Queues, t \in Tags, o \in ConsumeOptions : Consume(c, q, t, o)
             \/ \E t \in Tags : Cancel(c, t)
             \/ \E q \in Queues, noAck \in BOOLEAN : Get(c, q, noAck)
    BY <2>2, StoresUntouched DEF Consume, Cancel, Get, brokerVars, historyVars
  <2>3. CASE AnswerNext(c)
    BY <2>3, StoresUntouched
       DEF AnswerNext, Ack, Nack, Answer, AckAll, NackAll, SettleAll, brokerVars, historyVars
  <2>4. CASE Recover(c)
    BY <2>4, StoresUntouched DEF Recover, SettleAll, brokerVars, historyVars
  <2>5. CASE \/ \E count \in PrefetchCounts, global \in BOOLEAN : Prefetch(c, count, global)
             \/ \E active \in BOOLEAN : Flow(c, active)
             \/ Close(c)
    BY <2>5, StoresUntouched DEF Prefetch, Flow, Close, historyVars
  <2> QED
    BY <2>1, <2>2, <2>3, <2>4, <2>5 DEF ClientNext
<1>3. CASE \E id \in Perishable : Expire(id)
  BY <1>3 DEF Expire, Sorted, Ordered, Flagged, UnackedIds, brokerVars, historyVars
<1>4. CASE \/ RunMicrotask
           \/ \E conn \in Connections : CloseConnection(conn)
           \/ UNCHANGED vars
  BY <1>4, StoresUntouched
     DEF RunMicrotask, CloseConnection, vars, brokerVars, historyVars
<1> QED
  BY <1>1, <1>2, <1>3, <1>4 DEF Next

-----------------------------------------------------------------------------
(* The moves of the contract *)

LEMMA LeavesInTurn ==
  ASSUME TypeOK, Places, Sorted, NEW q \in Queues, HeadLeaves(q)
  PROVE  Contract!Leaves(q, Head(store[q]).id)
<1> DEFINE id == Head(store[q]).id
<1>1. /\ store[q] \in Seq(Message) /\ store[q] # <<>>
      /\ Ordered(store[q]) /\ Flagged(store[q], delivered)
  BY DEF TypeOK, HeadLeaves, Sorted
<1>2. DOMAIN store[q] = 1 .. Len(store[q]) /\ Head(store[q]) = store[q][1] /\ 1 \in DOMAIN store[q]
  BY <1>1, EmptySeq, LenProperties
<1>3. /\ id \in StoredIds(q)
      /\ \A p \in Queues : \A x :
           x \in StoredIds(p)' <=> x \in StoredIds(p) /\ ~(p = q /\ x = id)
  BY HeadLeft
<1>4. ASSUME id \in (1 .. published) \ delivered, NEW other \in StoredIds(q)
      PROVE  other \in (1 .. published) \ delivered /\ id <= other
  <2>1. PICK j \in DOMAIN store[q] : other = store[q][j].id
    BY DEF StoredIds
  <2>2. other \in 1 .. published
    BY DEF Places
  <2>3. CASE j = 1
    BY <2>1, <2>3, <1>2, <1>4
  <2>4. CASE j # 1
    <3>1. 1 < j /\ store[q][1].deliveryCount \in Nat
      BY <2>4, <1>2, <1>1, HeadIsStored DEF Message
    <3>2. store[q][1].deliveryCount = 0
      BY <3>1, <1>1, <1>2, <1>4 DEF Flagged
    <3>3. store[q][j].deliveryCount = 0 /\ id < other
      BY <3>1, <3>2, <2>1, <1>1, <1>2 DEF Ordered
    <3>4. other \notin delivered
      BY <3>3, <2>1, <1>1 DEF Flagged
    <3> QED
      BY <3>3, <3>4, <2>2, <1>4
  <2> QED
    BY <2>3, <2>4
<1> HIDE DEF id
<1>5. [p \in Queues |-> StoredIds(p)]'
        = [[p \in Queues |-> StoredIds(p)] EXCEPT ![q] = @ \ {id}]
  BY <1>3
<1>6. Contract!InTurn(q, id)
  BY <1>3, <1>4 DEF Contract!InTurn
<1> QED
  BY <1>5, <1>6 DEF Contract!Leaves, id

Outstanding == [c \in Channels |-> {[id |-> u.message.id, queue |-> u.queue] : u \in unacked[c]}]

LEMMA OutstandingTracked ==
  ASSUME TypeOK, NEW c \in Channels, NEW r, Tracked(c, r)
  PROVE  Outstanding' =
           [Outstanding EXCEPT ![c] = @ \cup {[id |-> r.message.id, queue |-> r.queue]}]
<1>1. unacked'[c] = unacked[c] \cup {r} /\ \A d \in Channels \ {c} : unacked'[d] = unacked[d]
  BY DEF TypeOK, Tracked
<1>2. Outstanding'[c] = Outstanding[c] \cup {[id |-> r.message.id, queue |-> r.queue]}
  BY <1>1 DEF Outstanding
<1>3. \A d \in Channels \ {c} : Outstanding'[d] = Outstanding[d]
  BY <1>1 DEF Outstanding
<1> QED
  BY <1>2, <1>3 DEF Outstanding

LEMMA OutstandingRemoved ==
  ASSUME TypeOK, Places, NEW c \in Channels, NEW u \in unacked[c], unacked' = Removed(c, u)
  PROVE  /\ [id |-> u.message.id, queue |-> u.queue] \in Outstanding[c]
         /\ Outstanding' =
              [Outstanding EXCEPT ![c] = @ \ {[id |-> u.message.id, queue |-> u.queue]}]
<1>1. unacked'[c] = unacked[c] \ {u} /\ \A d \in Channels \ {c} : unacked'[d] = unacked[d]
  BY DEF TypeOK, Removed
<1>2. \A v \in unacked[c] : v.message.id = u.message.id => v = u
  BY DEF Places
<1>3. Outstanding'[c] = Outstanding[c] \ {[id |-> u.message.id, queue |-> u.queue]}
  BY <1>1, <1>2 DEF Outstanding
<1>4. \A d \in Channels \ {c} : Outstanding'[d] = Outstanding[d]
  BY <1>1 DEF Outstanding
<1>5. [id |-> u.message.id, queue |-> u.queue] \in Outstanding[c]
  BY DEF Outstanding
<1> QED
  BY <1>3, <1>4, <1>5 DEF Outstanding

HeadTracked(q, c) == \E r : Tracked(c, r) /\ r.message = Head(store[q]) /\ r.queue = q

(* The head of q is handed out on a channel, handed out for good, or expires. *)
LEMMA HeadMoves ==
  ASSUME TypeOK, Places, Sorted, NEW q \in Queues, HeadLeaves(q), published' = published,
         \/ /\ delivered' = delivered \cup {Head(store[q]).id}
            /\ \/ done' = done \cup {Head(store[q]).id} /\ unacked' = unacked
               \/ /\ done' = done
                  /\ \E c \in Channels : HeadTracked(q, c)
         \/ /\ delivered' = delivered /\ unacked' = unacked
            /\ done' = done \cup {Head(store[q]).id} /\ Head(store[q]).id \in Perishable
  PROVE  Contract!Next
<1> DEFINE id == Head(store[q]).id
<1>1. Contract!Leaves(q, id)
  BY LeavesInTurn
<1>2. id \in [p \in Queues |-> StoredIds(p)][q]
  BY <1>1 DEF Contract!Leaves, Contract!InTurn
<1>3. CASE /\ delivered' = delivered \cup {id}
           /\ done' = done \cup {id} /\ unacked' = unacked
  <2>1. Contract!DeliverNoAck(q, id)
    BY <1>1, <1>3 DEF Contract!DeliverNoAck
  <2> QED
    BY <2>1, <1>2 DEF Contract!Next
<1>4. CASE /\ delivered' = delivered \cup {id} /\ done' = done
           /\ \E c \in Channels : HeadTracked(q, c)
  <2>0. PICK c \in Channels : HeadTracked(q, c)
    BY <1>4
  <2>1. PICK r : Tracked(c, r) /\ r.message = Head(store[q]) /\ r.queue = q
    BY <2>0 DEF HeadTracked
  <2>2. Outstanding' = [Outstanding EXCEPT ![c] = @ \cup {[id |-> id, queue |-> q]}]
    BY <2>1, OutstandingTracked
  <2>3. Contract!Deliver(q, id, c)
    BY <1>1, <1>4, <2>2 DEF Contract!Deliver, Outstanding
  <2> QED
    BY <2>3, <1>2 DEF Contract!Next
<1>5. CASE /\ delivered' = delivered /\ unacked' = unacked
           /\ done' = done \cup {id} /\ id \in Perishable
  <2>1. Contract!Expire(q, id)
    BY <1>1, <1>5 DEF Contract!Expire
  <2> QED
    BY <2>1, <1>2 DEF Contract!Next
<1> QED
  BY <1>3, <1>4, <1>5

LEMMA NothingMovesInContract ==
  UNCHANGED <<store, unacked, delivered, published, done>> => UNCHANGED Contract!vars
  BY DEF Contract!vars, StoredIds

LEMMA DispatchKeeps ==
  ASSUME TypeOK, Places, Sorted, DispatchStep
  PROVE  Contract!Next
<1> DEFINE q == Top.queue
<1>1. q \in Queues
  BY TopOfCall, FrameFields DEF DispatchStep
<1>2. PICK k \in DOMAIN Consumers(q) :
        \E c \in EligibleOn(Top.conn, Consumers(q)[k]) : Deliver(q, Consumers(q)[k], c)
  BY DEF DispatchStep
<1> DEFINE t == Consumers(q)[k]
<1>3. PICK c \in EligibleOn(Top.conn, t) : Deliver(q, t, c)
  BY <1>2
<1>4. c \in Channels
  BY <1>3 DEF EligibleOn, GetChannel
<1>5. HeadLeaves(q) /\ published' = published
  BY DEF HeadLeaves, DispatchStep, Deliver
<1> DEFINE r == [tag |-> NextTag(c), message |-> Head(store[q]), queue |-> q, consumer |-> t]
<1>6. delivered' = delivered \cup {Head(store[q]).id}
  BY <1>3 DEF Deliver
<1>7. \/ done' = done \cup {Head(store[q]).id} /\ unacked' = unacked
      \/ done' = done /\ Tracked(c, r)
  BY <1>3 DEF Deliver, Tracked
<1>8. Tracked(c, r) => HeadTracked(q, c)
  BY DEF HeadTracked
<1> HIDE DEF q, t, r
<1> QED
  BY <1>1, <1>4, <1>5, <1>6, <1>7, <1>8, HeadMoves

LEMMA GetKeeps ==
  ASSUME TypeOK, Places, Sorted, GetTake
  PROVE  Contract!Next
<1> DEFINE q == Top.queue
           c == Top.channel
           r == [tag |-> NextTag(c), message |-> Head(store[q]), queue |-> q,
                 consumer |-> NoConsumer]
<1>1. q \in Queues /\ c \in Channels
  BY TopOfCall, FrameFields DEF GetTake
<1>2. /\ HeadLeaves(q) /\ published' = published
      /\ delivered' = delivered \cup {Head(store[q]).id}
  BY DEF HeadLeaves, GetTake
<1>3. \/ done' = done \cup {Head(store[q]).id} /\ unacked' = unacked
      \/ done' = done /\ Tracked(c, r)
  BY DEF GetTake, Tracked
<1>4. Tracked(c, r) => HeadTracked(q, c)
  BY DEF HeadTracked
<1> HIDE DEF q, c, r
<1> QED
  BY <1>1, <1>2, <1>3, <1>4, HeadMoves

LEMMA ExpireKeeps ==
  ASSUME TypeOK, Places, Sorted, DropExpired
  PROVE  Contract!Next
<1> DEFINE q == Top.queue
<1>1. q \in Queues
  BY TopOfCall, FrameFields DEF DropExpired
<1>2. /\ HeadLeaves(q) /\ published' = published
      /\ delivered' = delivered /\ unacked' = unacked
      /\ done' = done \cup {Head(store[q]).id} /\ Head(store[q]).id \in expired
  BY DEF HeadLeaves, DropExpired, HeadExpired
<1>3. Head(store[q]).id \in Perishable
  BY <1>2 DEF Sorted
<1> HIDE DEF q
<1> QED
  BY <1>1, <1>2, <1>3, HeadMoves

LEMMA SettleKeeps ==
  ASSUME TypeOK, Places, Sorted, SettleStep
  PROVE  Contract!Next
<1> DEFINE c == Top.channel
<1>1. c \in Channels
  BY TopOfCall, FrameFields DEF SettleStep
<1>2. PICK u \in unacked[c] :
        /\ unacked' = Removed(c, u)
        /\ \/ done' = done \cup {u.message.id} /\ store' = store
           \/ store' = Requeued(u) /\ done' = done
  BY DEF SettleStep
<1>3. delivered' = delivered /\ published' = published
  BY DEF SettleStep
<1> HIDE DEF c
<1> DEFINE d == [id |-> u.message.id, queue |-> u.queue]
<1>4. u \in Unacked /\ u.message \in Message /\ u.queue \in Queues
  BY <1>1 DEF TypeOK, Unacked
<1>5. d \in Outstanding[c] /\ Outstanding' = [Outstanding EXCEPT ![c] = @ \ {d}]
  BY <1>1, <1>2, OutstandingRemoved
<1>6. CASE done' = done \cup {u.message.id} /\ store' = store
  <2>1. [q \in Queues |-> StoredIds(q)]' = [q \in Queues |-> StoredIds(q)]
    BY <1>6 DEF StoredIds
  <2>2. Contract!Settle(c, d)
    BY <1>3, <1>5, <1>6, <2>1 DEF Contract!Settle, Outstanding
  <2> QED
    BY <2>2, <1>1, <1>5 DEF Contract!Next, Outstanding
<1>7. CASE store' = Requeued(u) /\ done' = done
  <2> DEFINE e == Recounted(u.message)
  <2>1. e \in Message /\ e.id = u.message.id
    BY <1>4 DEF Message, Recounted
  <2>2. Arrives(u.queue, e)
    BY <1>7 DEF Requeued, Arrives
  <2>3. u.message.id \notin StoredIds(u.queue)
    BY <1>1, <1>2, <1>4, RemovedIds DEF Places
  <2> HIDE DEF e
  <2>4. \A p \in Queues : \A x :
          x \in StoredIds(p)' <=> x \in StoredIds(p) \/ (p = u.queue /\ x = e.id)
    BY <1>4, <2>1, <2>2, <2>3, Arrived
  <2>5. [q \in Queues |-> StoredIds(q)]'
          = [[q \in Queues |-> StoredIds(q)] EXCEPT ![u.queue] = @ \cup {u.message.id}]
    BY <1>4, <2>1, <2>4
  <2>6. Contract!Return(c, d)
    BY <1>3, <1>5, <1>7, <2>5 DEF Contract!Return, Outstanding
  <2> QED
    BY <2>6, <1>1, <1>5 DEF Contract!Next, Outstanding
<1> QED
  BY <1>2, <1>6, <1>7

LEMMA PublishKeeps ==
  ASSUME TypeOK, Places, Sorted, NEW c \in Channels, NEW q \in Queues, Publish(c, q)
  PROVE  Contract!Next
<1> DEFINE e == [id |-> published + 1, deliveryCount |-> 0]
<1>1. e \in Message /\ e.id = published + 1
  BY DeliveryAssumption DEF TypeOK, Publish, Message, Ids
<1>2. /\ Arrives(q, e) /\ published < MaxMessages
      /\ published' = published + 1 /\ delivered' = delivered
      /\ unacked' = unacked /\ done' = done
  BY DEF Publish, Arrives
<1>3. published \in Nat
  BY DeliveryAssumption DEF TypeOK
<1>4. e.id \notin StoredIds(q) /\ e.id \notin delivered
  BY <1>1, <1>3 DEF Places, Sorted
<1> HIDE DEF e
<1>5. \A p \in Queues : \A x :
        x \in StoredIds(p)' <=> x \in StoredIds(p) \/ (p = q /\ x = e.id)
  BY <1>1, <1>2, <1>4, Arrived
<1>6. [p \in Queues |-> StoredIds(p)]'
        = [[p \in Queues |-> StoredIds(p)] EXCEPT ![q] = @ \cup {published + 1}]
  BY <1>1, <1>5
<1>7. ((1 .. published) \ delivered)' = ((1 .. published) \ delivered) \cup {published + 1}
  BY <1>1, <1>2, <1>3, <1>4
<1>8. Contract!Publish(q)
  BY <1>2, <1>6, <1>7 DEF Contract!Publish
<1> QED
  BY <1>8 DEF Contract!Next

LEMMA ContractStep ==
  TypeOK /\ Places /\ Sorted /\ [Next]_vars => [Contract!Next]_(Contract!vars)
<1> SUFFICES ASSUME TypeOK, Places, Sorted, [Next]_vars
             PROVE  Contract!Next \/ UNCHANGED Contract!vars
  OBVIOUS
<1>1. CASE RunCall
  <2>1. CASE DropExpired
    BY <2>1, ExpireKeeps
  <2>2. CASE DispatchStep
    BY <2>2, DispatchKeeps
  <2>3. CASE GetTake
    BY <2>3, GetKeeps
  <2>4. CASE SettleStep
    BY <2>4, SettleKeeps
  <2>5. CASE DrainEnd \/ DispatchEnd \/ GetEmpty \/ SettleEnd \/ CancelStep \/ CancelEnd
    BY <2>5, NothingMovesInContract
       DEF DrainEnd, DispatchEnd, GetEmpty, SettleEnd, CancelStep, CancelEnd,
           brokerVars, historyVars
  <2> QED
    BY <1>1, <2>1, <2>2, <2>3, <2>4, <2>5 DEF RunCall
<1>2. CASE \E c \in Channels : ClientNext(c)
  <2> SUFFICES ASSUME NEW c \in Channels, ClientNext(c)
               PROVE  Contract!Next \/ UNCHANGED Contract!vars
    BY <1>2
  <2>1. CASE \E q \in Queues : Publish(c, q)
    BY <2>1, PublishKeeps
  <2>2. CASE \/ \E q \in Queues, t \in Tags, o \in ConsumeOptions : Consume(c, q, t, o)
             \/ \E t \in Tags : Cancel(c, t)
             \/ \E q \in Queues, noAck \in BOOLEAN : Get(c, q, noAck)
    BY <2>2, NothingMovesInContract DEF Consume, Cancel, Get, brokerVars, historyVars
  <2>3. CASE AnswerNext(c)
    BY <2>3, NothingMovesInContract
       DEF AnswerNext, Ack, Nack, Answer, AckAll, NackAll, SettleAll, brokerVars, historyVars
  <2>4. CASE Recover(c)
    BY <2>4, NothingMovesInContract DEF Recover, SettleAll, brokerVars, historyVars
  <2>5. CASE \/ \E count \in PrefetchCounts, global \in BOOLEAN : Prefetch(c, count, global)
             \/ \E active \in BOOLEAN : Flow(c, active)
             \/ Close(c)
    BY <2>5, NothingMovesInContract DEF Prefetch, Flow, Close, historyVars
  <2> QED
    BY <2>1, <2>2, <2>3, <2>4, <2>5 DEF ClientNext
<1>3. CASE \/ RunMicrotask
           \/ \E conn \in Connections : CloseConnection(conn)
           \/ \E id \in Perishable : Expire(id)
           \/ UNCHANGED vars
  BY <1>3, NothingMovesInContract
     DEF RunMicrotask, CloseConnection, Expire, vars, brokerVars, historyVars
<1> QED
  BY <1>1, <1>2, <1>3 DEF Next

LEMMA ContractInit == Init => Contract!Init
<1> SUFFICES ASSUME Init PROVE Contract!Init
  OBVIOUS
<1>1. /\ \A q \in Queues : StoredIds(q) = {}
      /\ \A c \in Channels : unacked[c] = {}
      /\ published = 0 /\ done = {}
  BY DEF Init, StoredIds
<1>2. (1 .. published) \ delivered = {}
  BY <1>1
<1> QED
  BY <1>1, <1>2 DEF Contract!Init

-----------------------------------------------------------------------------

(* A fresh message is never overtaken: it is not behind a later fresh one in
   any queue, and never before a redelivered one, however requeues, recovers,
   closes and publishes interleave. *)
THEOREM FreshKeepOrder == Spec => []FreshInOrder
<1>1. Sorted => FreshInOrder
  BY SortedMeans
<1> QED
  BY <1>1, PlacesInit, PlacesStep, SortedInit, SortedStep, TypeCorrect, PTL DEF Spec

(* The redelivered flag of a message in a queue tells the truth: it is set if
   and only if the message has been in a delivery before. *)
THEOREM RedeliveredTruthful == Spec => []RedeliveredIffDelivered
<1>1. Sorted => RedeliveredIffDelivered
  BY SortedMeans
<1> QED
  BY <1>1, PlacesInit, PlacesStep, SortedInit, SortedStep, TypeCorrect, PTL DEF Spec

(* The broker's stores, channels, dispatcher and acknowledgements implement the
   contract of the queues: each of their steps is one legal move of one
   message, or none. *)
THEOREM ImplementsContract == Spec => KeepsContract
<1>1. Spec => [](TypeOK /\ Places /\ Sorted)
  BY PlacesInit, PlacesStep, SortedInit, SortedStep, TypeCorrect, PTL DEF Spec
<1>2. Spec => Contract!Spec
  BY <1>1, ContractInit, ContractStep, PTL DEF Spec, Contract!Spec
<1> QED
  BY <1>2 DEF KeepsContract
=============================================================================
