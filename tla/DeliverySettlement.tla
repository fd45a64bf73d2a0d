------------------------ MODULE DeliverySettlement -------------------------
(***************************************************************************)
(* Proofs about Delivery: which message an answer settles, what a closed   *)
(* channel leaves behind, what the unacked counters count, and so that     *)
(* prefetch limits hold, that a single active consumer stays alone, and    *)
(* that no queue holds a message back from a consumer with room for it.    *)
(***************************************************************************)
EXTENDS DeliveryProofs

-----------------------------------------------------------------------------
(* Steps that make or pass on a delivery, and steps that make none *)

(* No channel's delivery tag moves on, none gets a delivery, no client does. *)
NoDelivery ==
  /\ \A c \in Channels : /\ unacked'[c] \subseteq unacked[c]
                         /\ channel'[c].tagSeq = channel[c].tagSeq
                         /\ held'[c] \subseteq held[c]
  /\ microtasks' = microtasks

LEMMA CallMakesNoDelivery ==
  ASSUME TypeOK, RunCall, ~DispatchStep, ~GetTake
  PROVE  NoDelivery
<1>1. CASE \/ DropExpired \/ DrainEnd \/ DispatchEnd \/ GetEmpty \/ SettleEnd \/ CancelStep
  BY <1>1 DEF DropExpired, DrainEnd, DispatchEnd, GetEmpty, SettleEnd, CancelStep,
              NoDelivery, brokerVars, clientVars
<1>2. CASE SettleStep
  <2>1. Top.channel \in Channels
    BY <1>2, TopOfCall, FrameFields DEF SettleStep
  <2>2. PICK u : unacked' = Removed(Top.channel, u)
    BY <1>2 DEF SettleStep
  <2>3. \A c \in Channels : unacked'[c] \subseteq unacked[c]
    BY <2>1, <2>2 DEF Removed, TypeOK
  <2> QED
    BY <1>2, <2>3 DEF SettleStep, NoDelivery, clientVars
<1>3. CASE CancelEnd
  <2>1. \A c \in Channels : channel'[c].tagSeq = channel[c].tagSeq
    BY <1>3 DEF CancelEnd, TypeOK, Channel
  <2> QED
    BY <1>3, <2>1 DEF CancelEnd, NoDelivery, clientVars
<1> QED
  BY <1>1, <1>2, <1>3 DEF RunCall

LEMMA ClientMakesNoDelivery ==
  ASSUME TypeOK, NEW c \in Channels, ClientNext(c)
  PROVE  NoDelivery
<1>1. CASE \/ \E q \in Queues : Publish(c, q)
           \/ \E q \in Queues, t \in Tags, o \in ConsumeOptions : Consume(c, q, t, o)
           \/ \E t \in Tags : Cancel(c, t)
           \/ \E q \in Queues, noAck \in BOOLEAN : Get(c, q, noAck)
  BY <1>1 DEF Publish, Consume, Cancel, Get, NoDelivery, brokerVars, clientVars
<1>2. CASE AnswerNext(c)
  <2>1. CASE \E d \in held[c], multiple \in BOOLEAN :
               Ack(c, d, multiple) \/ \E requeue \in BOOLEAN : Nack(c, d, multiple, requeue)
    <3>1. PICK d \in held[c], multiple \in BOOLEAN : held' = Answered(c, d, multiple)
      BY <2>1 DEF Ack, Nack, Answer
    <3>2. \A e \in Channels : held'[e] \subseteq held[e]
      BY <3>1 DEF Answered, TypeOK
    <3>3. UNCHANGED <<channel, unacked, microtasks>>
      BY <2>1 DEF Ack, Nack, Answer
    <3> QED
      BY <3>2, <3>3 DEF NoDelivery
  <2>2. CASE AckAll(c) \/ \E requeue \in BOOLEAN : NackAll(c, requeue)
    BY <2>2 DEF AckAll, NackAll, SettleAll, NoDelivery, brokerVars, TypeOK
  <2> QED
    BY <1>2, <2>1, <2>2 DEF AnswerNext
<1>3. CASE Recover(c)
  BY <1>3 DEF Recover, SettleAll, NoDelivery, brokerVars, TypeOK
<1>4. CASE \/ \E count \in PrefetchCounts, global \in BOOLEAN : Prefetch(c, count, global)
           \/ \E active \in BOOLEAN : Flow(c, active)
  <2>1. \/ \E n \in Nat : channel' = [channel EXCEPT ![c].channelPrefetch = n]
        \/ \E n \in Nat : channel' = [channel EXCEPT ![c].consumerPrefetch = n]
        \/ \E b \in BOOLEAN : channel' = [channel EXCEPT ![c].flow = b]
    BY <1>4, DeliveryAssumption DEF Prefetch, Flow
  <2>2. channel[c] \in Channel /\ channel \in [Channels -> Channel]
    BY DEF TypeOK
  <2>3. /\ \A n \in Nat :
              /\ [channel[c] EXCEPT !.channelPrefetch = n].tagSeq = channel[c].tagSeq
              /\ [channel[c] EXCEPT !.consumerPrefetch = n].tagSeq = channel[c].tagSeq
        /\ \A b \in BOOLEAN : [channel[c] EXCEPT !.flow = b].tagSeq = channel[c].tagSeq
    BY <2>2 DEF Channel
  <2>4. \A e \in Channels : channel'[e].tagSeq = channel[e].tagSeq
    BY <2>1, <2>2, <2>3, Zenon
  <2> QED
    BY <1>4, <2>4 DEF Prefetch, Flow, NoDelivery, clientVars
<1>5. CASE Close(c)
  <2>1. \A e \in Channels : channel'[e].tagSeq = channel[e].tagSeq
    BY <1>5 DEF Close, TypeOK, Channel
  <2>2. \A e \in Channels : held'[e] \subseteq held[e]
    BY <1>5 DEF Close, TypeOK
  <2> QED
    BY <1>5, <2>1, <2>2 DEF Close, NoDelivery
<1> QED
  BY <1>1, <1>2, <1>3, <1>4, <1>5 DEF ClientNext

LEMMA OthersMakeNoDelivery ==
  ASSUME TypeOK, \/ \E conn \in Connections : CloseConnection(conn)
                 \/ \E id \in Perishable : Expire(id)
                 \/ UNCHANGED vars
  PROVE  NoDelivery
<1>1. CASE \E conn \in Connections : CloseConnection(conn)
  <2>1. \A e \in Channels : channel'[e].tagSeq = channel[e].tagSeq
    BY <1>1 DEF CloseConnection, TypeOK, Channel
  <2> QED
    BY <1>1, <2>1 DEF CloseConnection, NoDelivery, clientVars
<1>2. CASE (\E id \in Perishable : Expire(id)) \/ UNCHANGED vars
  BY <1>2 DEF Expire, NoDelivery, vars, brokerVars, clientVars
<1> QED
  BY <1>1, <1>2

LEMMA WhatDelivers ==
  ASSUME TypeOK, [Next]_vars, ~DispatchStep, ~GetTake, ~RunMicrotask
  PROVE  NoDelivery
  BY CallMakesNoDelivery, ClientMakesNoDelivery, OthersMakeNoDelivery DEF Next

(* The delivery a dispatch makes. *)
Delivers(q, t, c) ==
  /\ byTag[t] \in Entry /\ byTag[t].queue = q /\ t \in ToSet(byQueue[q])
  /\ c \in EligibleOn(Top.conn, t)
  /\ Deliver(q, t, c)

LEMMA DispatchDelivers ==
  ASSUME Registry, DispatchStep
  PROVE  \E q \in Queues, t \in Tags, c \in Channels : 
           /\ q = Top.queue /\ store[q] # <<>>
           /\ Delivers(q, t, c)
           /\ channel[c].mapped /\ Number[c] = Number[byTag[t].channel]
<1> DEFINE q == Top.queue
<1>1. q \in Queues /\ store[q] # <<>>
  BY TopOfCall, FrameFields DEF DispatchStep, Registry
<1>2. PICK k \in DOMAIN byQueue[q] :
        \E c \in EligibleOn(Top.conn, byQueue[q][k]) : Deliver(q, byQueue[q][k], c)
  BY DEF DispatchStep, Consumers
<1> DEFINE t == byQueue[q][k]
<1>3. PICK c \in EligibleOn(Top.conn, t) : Deliver(q, t, c)
  BY <1>2
<1>4. c \in Channels /\ channel[c].mapped /\ Number[c] = Number[byTag[t].channel]
  BY <1>3 DEF EligibleOn, GetChannel
<1>5. t \in Tags /\ byTag[t] \in Entry /\ byTag[t].queue = q
  BY <1>1, <1>2, ConsumerEntry DEF Registry
<1>6. t \in ToSet(byQueue[q])
  BY <1>2 DEF ToSet
<1> HIDE DEF q, t
<1>7. Delivers(q, t, c)
  BY <1>3, <1>5, <1>6 DEF Delivers
<1> QED
  BY <1>1, <1>4, <1>5, <1>7 DEF q

-----------------------------------------------------------------------------
(* Which message a delivery tag names *)

(* Tags of outstanding deliveries were issued, and differ. *)
TagsIssued ==
  /\ \A c \in Channels : \A u \in unacked[c] : u.tag <= channel[c].tagSeq
  /\ \A c \in Channels : \A u, v \in unacked[c] : u.tag = v.tag => u = v

(* In the channels chan with the outstanding deliveries un, the tag of d was
   issued by channel c and names the delivery d or none. *)
Known(chan, un, c, d) ==
  /\ d.tag <= chan[c].tagSeq
  /\ \A u \in un[c] : d.tag = u.tag => d.id = u.message.id /\ d.consumer = u.consumer

(* What clients hold, and what they are about to get. *)
ClientsKnow ==
  /\ \A c \in Channels : \A d \in held[c] : Known(channel, unacked, c, d)
  /\ \A i \in 1 .. Len(microtasks) : Known(channel, unacked, microtasks[i].channel, microtasks[i].message)

(* A consumer is served through the channel that registered it: the channel
   numbers of different connections are different. *)
NumbersDiffer == \A c, d \in Channels : Number[c] = Number[d] => c = d

(* The next delivery tag of channel c is r's, and r may become outstanding. *)
Issues(c, r) ==
  /\ r.tag = channel[c].tagSeq + 1
  /\ channel'[c].tagSeq = r.tag
  /\ \A e \in Channels : e # c => channel'[e].tagSeq = channel[e].tagSeq
  /\ unacked' = unacked \/ Tracked(c, r)

LEMMA Numbers ==
  ASSUME TypeOK
  PROVE  /\ \A c \in Channels : channel[c].tagSeq \in Nat
         /\ \A c \in Channels : \A u \in unacked[c] : u.tag \in Nat
         /\ \A c \in Channels : \A d \in held[c] : d.tag \in Nat
         /\ Len(microtasks) \in Nat
         /\ \A i \in 1 .. Len(microtasks) :
              /\ microtasks[i].channel \in Channels
              /\ microtasks[i].noAck \in BOOLEAN
              /\ microtasks[i].message \in Delivered
              /\ microtasks[i].message.tag \in Nat
<1> DEFINE S == [channel : Channels, noAck : BOOLEAN, message : Delivered]
<1>1. microtasks \in Seq(S)
  BY DEF TypeOK
<1>2. \A task \in S : /\ task.channel \in Channels /\ task.noAck \in BOOLEAN
                         /\ task.message \in Delivered /\ task.message.tag \in Nat
  BY DEF Delivered
<1> HIDE DEF S
<1>3. /\ Len(microtasks) \in Nat
      /\ \A i \in 1 .. Len(microtasks) : microtasks[i] \in S
  BY <1>1, LenProperties, ElementOfSeq
<1>4. /\ \A c \in Channels : channel[c].tagSeq \in Nat
      /\ \A c \in Channels : \A u \in unacked[c] : u.tag \in Nat
      /\ \A c \in Channels : \A d \in held[c] : d.tag \in Nat
  BY DEF TypeOK, Channel, Unacked, Delivered
<1> QED
  BY <1>2, <1>3, <1>4

LEMMA TagsAfterIssue ==
  ASSUME TypeOK, TagsIssued, NEW c \in Channels, NEW r, Issues(c, r)
  PROVE  /\ TagsIssued'
         /\ \A e \in Channels : \A d : d.tag \in Nat /\ Known(channel, unacked, e, d) => Known(channel', unacked', e, d)
         /\ \A d : d.tag = r.tag /\ d.id = r.message.id /\ d.consumer = r.consumer
                     => Known(channel', unacked', c, d)
<1>1. \A e \in Channels : \A u :
        u \in unacked'[e] => u \in unacked[e] \/ (e = c /\ u = r)
  BY TrackedIds DEF Issues
<1>2. /\ \A e \in Channels : channel[e].tagSeq \in Nat
      /\ \A e \in Channels : \A u \in unacked[e] : u.tag \in Nat
  BY Numbers
<1>3. /\ r.tag = channel[c].tagSeq + 1 /\ channel'[c].tagSeq = r.tag
      /\ \A e \in Channels : e # c => channel'[e].tagSeq = channel[e].tagSeq
  BY DEF Issues
<1>4. /\ \A e \in Channels : \A u \in unacked[e] : u.tag <= channel[e].tagSeq
      /\ \A e \in Channels : \A u, v \in unacked[e] : u.tag = v.tag => u = v
  BY DEF TagsIssued
<1>5. \A u \in unacked[c] : u.tag # r.tag
  BY <1>2, <1>3, <1>4
<1>6. TagsIssued'
  <2>1. ASSUME NEW e \in Channels, NEW u \in unacked'[e]
        PROVE  u.tag <= channel'[e].tagSeq
    BY <1>1, <1>2, <1>3, <1>4
  <2>2. ASSUME NEW e \in Channels, NEW u \in unacked'[e], NEW v \in unacked'[e], u.tag = v.tag
        PROVE  u = v
    BY <1>1, <1>4, <1>5, <2>2
  <2> QED
    BY <2>1, <2>2 DEF TagsIssued
<1>7. ASSUME NEW e \in Channels, NEW d, d.tag \in Nat, Known(channel, unacked, e, d)
      PROVE  Known(channel', unacked', e, d)
  <2>1. d.tag <= channel'[e].tagSeq
    BY <1>2, <1>3, <1>7 DEF Known
  <2>2. e = c => d.tag # r.tag
    BY <1>2, <1>3, <1>7 DEF Known
  <2> QED
    BY <1>1, <1>7, <2>1, <2>2 DEF Known
<1>8. ASSUME NEW d, d.tag = r.tag, d.id = r.message.id, d.consumer = r.consumer
      PROVE  Known(channel', unacked', c, d)
  <2>1. d.tag <= channel'[c].tagSeq
    BY <1>2, <1>3, <1>8
  <2> QED
    BY <1>1, <1>5, <1>8, <2>1 DEF Known
<1> QED
  BY <1>6, <1>7, <1>8

LEMMA TagsAfterNone ==
  ASSUME TypeOK, TagsIssued, NoDelivery
  PROVE  /\ TagsIssued'
         /\ \A e \in Channels : \A d : Known(channel, unacked, e, d) => Known(channel', unacked', e, d)
  BY DEF TagsIssued, NoDelivery, Known

(* The record of the delivery that a dispatch, or a get, makes. *)
Delivery(c, q, t) ==
  [tag |-> NextTag(c), message |-> Head(store[q]), queue |-> q, consumer |-> t]

LEMMA DispatchIssues ==
  ASSUME TypeOK, NEW q \in Queues, NEW t \in Tags, NEW c \in Channels, Deliver(q, t, c)
  PROVE  /\ Issues(c, Delivery(c, q, t))
         /\ byTag[t].noAck => unacked' = unacked /\ byTag' = byTag
         /\ ~byTag[t].noAck => /\ Tracked(c, Delivery(c, q, t))
                               /\ byTag' = [byTag EXCEPT ![t].unackedCount = @ + 1]
<1> DEFINE r == Delivery(c, q, t)
<1>1. r.tag = channel[c].tagSeq + 1
  BY DEF Delivery, NextTag
<1>2. channel' = [channel EXCEPT ![c].tagSeq = r.tag]
  BY DEF Deliver, Delivery
<1>3. /\ byTag[t].noAck => unacked' = unacked /\ byTag' = byTag
      /\ ~byTag[t].noAck => /\ Tracked(c, r)
                            /\ byTag' = [byTag EXCEPT ![t].unackedCount = @ + 1]
  BY DEF Deliver, Delivery, Tracked
<1> HIDE DEF r
<1>4. /\ channel'[c].tagSeq = r.tag
      /\ \A e \in Channels : e # c => channel'[e].tagSeq = channel[e].tagSeq
  BY <1>1, <1>2, Numbers DEF TypeOK, Channel
<1> QED
  BY <1>1, <1>3, <1>4 DEF Issues, r

LEMMA GetIssues ==
  ASSUME TypeOK, GetTake
  PROVE  /\ Top.queue \in Queues /\ Top.channel \in Channels /\ store[Top.queue] # <<>>
         /\ Issues(Top.channel, Delivery(Top.channel, Top.queue, NoConsumer))
<1> DEFINE c == Top.channel
           q == Top.queue
           r == Delivery(c, q, NoConsumer)
<1>1. q \in Queues /\ c \in Channels /\ store[q] # <<>>
  BY TopOfCall, FrameFields DEF GetTake
<1>2. r.tag = channel[c].tagSeq + 1
  BY DEF Delivery, NextTag
<1>3. channel' = [channel EXCEPT ![c].tagSeq = r.tag]
  BY DEF GetTake, Delivery
<1>4. unacked' = unacked \/ Tracked(c, r)
  BY DEF GetTake, Delivery, Tracked
<1> HIDE DEF r, c, q
<1>5. /\ channel'[c].tagSeq = r.tag
      /\ \A e \in Channels : e # c => channel'[e].tagSeq = channel[e].tagSeq
  BY <1>1, <1>2, <1>3, Numbers DEF TypeOK, Channel
<1>6. Issues(c, r)
  BY <1>2, <1>4, <1>5 DEF Issues
<1> QED
  BY <1>1, <1>6 DEF c, q, r

LEMMA TagsIssuedStep == Registry /\ TagsIssued /\ [Next]_vars => TagsIssued'
<1> SUFFICES ASSUME Registry, TagsIssued, [Next]_vars
             PROVE  TagsIssued'
  OBVIOUS
<1> USE DEF Registry
<1>1. CASE DispatchStep
  <2>1. PICK q \in Queues, t \in Tags, c \in Channels : Deliver(q, t, c)
    BY <1>1, DispatchDelivers DEF Delivers
  <2> QED
    BY <2>1, DispatchIssues, TagsAfterIssue
<1>2. CASE GetTake
  BY <1>2, GetIssues, TagsAfterIssue
<1>3. CASE RunMicrotask
  BY <1>3 DEF RunMicrotask, TagsIssued, brokerVars
<1> QED
  BY <1>1, <1>2, <1>3, WhatDelivers, TagsAfterNone

(* The callbacks of the next state are those of this one and the one a dispatch
   scheduled, or those of this one but the first. *)
LEMMA ScheduledTask ==
  ASSUME NEW S, NEW s \in Seq(S), NEW x \in S
  PROVE  /\ Len(s) \in Nat /\ Len(Append(s, x)) = Len(s) + 1
         /\ \A i \in 1 .. Len(s) : Append(s, x)[i] = s[i]
         /\ Append(s, x)[Len(s) + 1] = x
         /\ \A i \in 1 .. Len(Append(s, x)) :
              i \in 1 .. Len(s) \/ i = Len(s) + 1
  BY AppendProperties, LenProperties

LEMMA RemainingTasks ==
  ASSUME NEW S, NEW s \in Seq(S), s # <<>>
  PROVE  /\ 1 \in 1 .. Len(s) /\ Head(s) = s[1]
         /\ \A i \in 1 .. Len(Tail(s)) : i + 1 \in 1 .. Len(s) /\ i + 1 # 1 /\ Tail(s)[i] = s[i + 1]
<1>1. Len(s) \in Nat /\ Len(s) # 0
  BY LenProperties, EmptySeq
<1>2. Len(Tail(s)) = Len(s) - 1 /\ Head(s) = s[1] /\ \A i \in 1 .. Len(Tail(s)) : Tail(s)[i] = s[i + 1]
  BY HeadTailProperties
<1> QED
  BY <1>1, <1>2

Task == [channel : Channels, noAck : BOOLEAN, message : Delivered]

(* A dispatch schedules the callback of the delivery it makes, x. *)
Schedules(x) ==
  /\ held' = held
  /\ \A i \in 1 .. Len(microtasks') :
       \/ i \in 1 .. Len(microtasks) /\ microtasks'[i] = microtasks[i]
       \/ i = Len(microtasks) + 1 /\ microtasks'[i] = x

LEMMA DispatchSchedules ==
  ASSUME NumbersDiffer, Registry, DispatchStep
  PROVE  \E q \in Queues, t \in Tags, c \in Channels, x \in Task :
           /\ q = Top.queue /\ store[q] # <<>> /\ Delivers(q, t, c)
           /\ byTag[t].channel = c
           /\ x.channel = c /\ x.noAck = byTag[t].noAck /\ x.message.tag = NextTag(c)
           /\ x.message.consumer = t /\ x.message.id = Head(store[q]).id
           /\ Schedules(x)
<1> USE DEF Registry
<1>1. PICK q \in Queues, t \in Tags, c \in Channels :
        /\ q = Top.queue /\ store[q] # <<>>
        /\ Delivers(q, t, c) /\ Number[c] = Number[byTag[t].channel]
  BY DispatchDelivers
<1>2. Deliver(q, t, c) /\ byTag[t] \in Entry
  BY <1>1 DEF Delivers
<1>3. byTag[t].channel = c /\ byTag[t].noAck \in BOOLEAN
  BY <1>1, <1>2 DEF NumbersDiffer, Entry
<1>4. NextTag(c) \in Nat /\ Head(store[q]).id \in Ids
  BY <1>1, StoredHead, Numbers DEF NextTag
<1>5. PICK d : d = [tag |-> NextTag(c), consumer |-> t, id |-> Head(store[q]).id]
  OBVIOUS
<1>6. PICK x : x = [channel |-> byTag[t].channel, noAck |-> byTag[t].noAck, message |-> d]
  OBVIOUS
<1>7. microtasks' = Append(microtasks, x) /\ held' = held
  BY <1>2, <1>5, <1>6 DEF Deliver, DispatchStep
<1>8. /\ x.channel = c /\ x.noAck = byTag[t].noAck /\ x.message.tag = NextTag(c)
      /\ x.message.consumer = t /\ x.message.id = Head(store[q]).id
  BY <1>3, <1>5, <1>6
<1>9. x \in Task /\ Schedules(x)
  <2>1. microtasks \in Seq(Task)
    BY DEF TypeOK, Task
  <2>2. x \in Task
    BY <1>3, <1>4, <1>5, <1>6 DEF Delivered, Task
  <2> QED
    BY <1>7, <2>1, <2>2, ScheduledTask DEF Schedules
<1> QED
  BY <1>1, <1>3, <1>8, <1>9

(* basic.get gives its caller the delivery it makes, d. *)
LEMMA GetHands ==
  ASSUME TypeOK, GetTake
  PROVE  \E d : /\ d.tag = NextTag(Top.channel) /\ d.consumer = NoConsumer
                /\ d.id = Head(store[Top.queue]).id
                /\ \A e \in Channels : \A k \in held'[e] :
                     k \in held[e] \/ (e = Top.channel /\ k = d)
                /\ microtasks' = microtasks
<1>1. PICK d : d = [tag |-> NextTag(Top.channel), consumer |-> NoConsumer,
                    id |-> Head(store[Top.queue]).id]
  OBVIOUS
<1>2. PICK c \in Channels : c = Top.channel
  BY GetIssues
<1>3. /\ held' = held \/ held' = [held EXCEPT ![c] = @ \cup {d}]
      /\ microtasks' = microtasks
  BY <1>1, <1>2 DEF GetTake
<1>4. \A e \in Channels : \A k \in held'[e] : k \in held[e] \/ (e = c /\ k = d)
  BY <1>3 DEF TypeOK
<1>5. /\ d.tag = NextTag(Top.channel) /\ d.consumer = NoConsumer
      /\ d.id = Head(store[Top.queue]).id
  BY <1>1
<1> QED
  BY <1>2, <1>3, <1>4, <1>5

(* The first callback runs, and the client may keep what it is called with. *)
LEMMA MicrotaskHands ==
  ASSUME TypeOK, RunMicrotask
  PROVE  /\ 1 \in 1 .. Len(microtasks)
         /\ \A i \in 1 .. Len(microtasks') :
              /\ i + 1 \in 1 .. Len(microtasks) /\ i + 1 # 1
              /\ microtasks'[i] = microtasks[i + 1]
         /\ \A e \in Channels : \A k \in held'[e] :
              \/ k \in held[e]
              \/ /\ e = microtasks[1].channel /\ k = microtasks[1].message
                 /\ microtasks[1].noAck => May("repeat")
<1>1. PICK x : x = microtasks[1]
  OBVIOUS
<1>2. microtasks # <<>> /\ microtasks' = Tail(microtasks)
  BY DEF RunMicrotask
<1>3. /\ 1 \in 1 .. Len(microtasks) /\ Head(microtasks) = x
      /\ \A i \in 1 .. Len(microtasks') :
           i + 1 \in 1 .. Len(microtasks) /\ i + 1 # 1 /\ microtasks'[i] = microtasks[i + 1]
  BY <1>1, <1>2, RemainingTasks DEF TypeOK
<1>4. x.channel \in Channels
  BY <1>1, <1>3, Numbers
<1>5. \/ held' = held
      \/ /\ held' = [held EXCEPT ![x.channel] = @ \cup {x.message}]
         /\ x.noAck => May("repeat")
  BY <1>3, <1>4 DEF RunMicrotask, TypeOK
<1>6. \A e \in Channels : \A k \in held'[e] :
        k \in held[e] \/ (e = x.channel /\ k = x.message /\ (x.noAck => May("repeat")))
  BY <1>4, <1>5 DEF TypeOK
<1> QED
  BY <1>1, <1>3, <1>6

LEMMA ClientsKnowStep ==
  ASSUME NumbersDiffer, Registry, TagsIssued, ClientsKnow, [Next]_vars
  PROVE  ClientsKnow'
<1> USE DEF Registry
<1>1. /\ \A c \in Channels : \A d \in held[c] : d.tag \in Nat /\ Known(channel, unacked, c, d)
      /\ \A i \in 1 .. Len(microtasks) :
           /\ microtasks[i].channel \in Channels /\ microtasks[i].message.tag \in Nat
           /\ Known(channel, unacked, microtasks[i].channel, microtasks[i].message)
  BY Numbers DEF ClientsKnow
<1>2. CASE DispatchStep
  <2>1. PICK q \in Queues, t \in Tags, c \in Channels, x \in Task :
           /\ q = Top.queue /\ store[q] # <<>> /\ Delivers(q, t, c)
           /\ byTag[t].channel = c
           /\ x.channel = c /\ x.noAck = byTag[t].noAck /\ x.message.tag = NextTag(c)
           /\ x.message.consumer = t /\ x.message.id = Head(store[q]).id
           /\ Schedules(x)
    BY <1>2, DispatchSchedules, Zenon
  <2>2. PICK r : r = Delivery(c, q, t)
    OBVIOUS
  <2>3. Issues(c, r)
    BY <2>1, <2>2, DispatchIssues DEF Delivers
  <2>4. r.tag = NextTag(c) /\ r.consumer = t /\ r.message.id = Head(store[q]).id
    BY <2>2 DEF Delivery
  <2>5. /\ \A e \in Channels : \A k : k.tag \in Nat /\ Known(channel, unacked, e, k)
                                    => Known(channel', unacked', e, k)
        /\ Known(channel', unacked', c, x.message)
    BY <2>1, <2>3, <2>4, TagsAfterIssue
  <2> QED
    BY <1>1, <2>1, <2>5 DEF ClientsKnow, Schedules
<1>3. CASE GetTake
  <2>1. PICK d : /\ d.tag = NextTag(Top.channel) /\ d.consumer = NoConsumer
                 /\ d.id = Head(store[Top.queue]).id
                 /\ \A e \in Channels : \A k \in held'[e] :
                      k \in held[e] \/ (e = Top.channel /\ k = d)
                 /\ microtasks' = microtasks
    BY <1>3, GetHands, Zenon
  <2>2. PICK r : r = Delivery(Top.channel, Top.queue, NoConsumer)
    OBVIOUS
  <2>3. Top.channel \in Channels /\ Issues(Top.channel, r)
    BY <1>3, <2>2, GetIssues
  <2>4. /\ r.tag = NextTag(Top.channel) /\ r.consumer = NoConsumer
        /\ r.message.id = Head(store[Top.queue]).id
    BY <2>2 DEF Delivery
  <2>5. /\ \A e \in Channels : \A k : k.tag \in Nat /\ Known(channel, unacked, e, k)
                                    => Known(channel', unacked', e, k)
        /\ Known(channel', unacked', Top.channel, d)
    BY <2>1, <2>3, <2>4, TagsAfterIssue
  <2> QED
    BY <1>1, <2>1, <2>5 DEF ClientsKnow
<1>4. CASE RunMicrotask
  <2>1. UNCHANGED <<channel, unacked>>
    BY <1>4 DEF RunMicrotask, brokerVars
  <2> QED
    BY <1>1, <1>4, <2>1, MicrotaskHands DEF ClientsKnow
<1>5. CASE ~DispatchStep /\ ~GetTake /\ ~RunMicrotask
  <2>1. NoDelivery
    BY <1>5, WhatDelivers
  <2>2. \A e \in Channels : \A k :
          Known(channel, unacked, e, k) => Known(channel', unacked', e, k)
    BY <2>1, TagsAfterNone
  <2>3. microtasks' = microtasks /\ \A e \in Channels : held'[e] \subseteq held[e]
    BY <2>1 DEF NoDelivery
  <2> QED
    BY <1>1, <2>2, <2>3 DEF ClientsKnow
<1> QED
  BY <1>2, <1>3, <1>4, <1>5

LEMMA NothingIssued == Init => TagsIssued /\ ClientsKnow
<1> SUFFICES ASSUME Init PROVE TagsIssued /\ ClientsKnow
  OBVIOUS
<1>1. \A c \in Channels : unacked[c] = {} /\ held[c] = {}
  BY DEF Init
<1>2. Len(microtasks) = 0
  BY EmptySeq DEF Init
<1> QED
  BY <1>1, <1>2 DEF TagsIssued, ClientsKnow

(* With channel numbers that differ, the tag a client answers with names the
   message it was given or nothing: a tag is never issued twice on a channel,
   and what the callback gets is what the channel has on record. *)
THEOREM TagsNameMessages == ASSUME NumbersDiffer PROVE Spec => []AnswersNameTheirMessage
<1>1. Registry /\ ClientsKnow => AnswersNameTheirMessage
  <2> SUFFICES ASSUME Registry, ClientsKnow PROVE AnswersNameTheirMessage
    OBVIOUS
  <2>1. DOMAIN microtasks = 1 .. Len(microtasks)
    BY LenProperties DEF Registry, TypeOK
  <2> QED
    BY <2>1 DEF ClientsKnow, Known, AnswersNameTheirMessage
<1>2. Registry /\ TagsIssued /\ ClientsKnow /\ [Next]_vars => ClientsKnow'
  BY ClientsKnowStep
<1> QED
  BY <1>1, <1>2, RegistryInit, RegistryStep, NothingIssued, TagsIssuedStep, PTL DEF Spec

-----------------------------------------------------------------------------
(* The frames of the call in progress *)

FramesOf(s) == {s[i] : i \in 1 .. Len(s)}

(* Those that wait for the one on top. *)
Waiting(s) == {s[i] : i \in 2 .. Len(s)}

LEMMA TopAndWaiting ==
  ASSUME NEW s \in Seq(Frame), s # <<>>
  PROVE  /\ FramesOf(s) = {s[1]} \cup Waiting(s)
         /\ FramesOf(Tail(s)) = Waiting(s)
         /\ Waiting(Tail(s)) \subseteq Waiting(s)
<1>1. Len(s) \in Nat /\ Len(s) # 0
  BY LenProperties, EmptySeq
<1>2. /\ Len(Tail(s)) = Len(s) - 1
      /\ \A i \in 1 .. Len(Tail(s)) : Tail(s)[i] = s[i + 1]
  BY HeadTailProperties
<1>3. \A i \in 2 .. Len(s) : i - 1 \in 1 .. Len(Tail(s)) /\ Tail(s)[i - 1] = s[i]
  BY <1>1, <1>2
<1>4. \A i \in 1 .. Len(Tail(s)) : i + 1 \in 2 .. Len(s) /\ Tail(s)[i] = s[i + 1]
  BY <1>1, <1>2
<1>5. FramesOf(s) = {s[1]} \cup Waiting(s)
  <2>1. 1 .. Len(s) = {1} \cup (2 .. Len(s))
    BY <1>1
  <2> QED
    BY <2>1 DEF FramesOf, Waiting
<1>6. FramesOf(Tail(s)) = Waiting(s)
  <2>1. FramesOf(Tail(s)) \subseteq Waiting(s)
    BY <1>4 DEF FramesOf, Waiting
  <2>2. Waiting(s) \subseteq FramesOf(Tail(s))
    BY <1>3 DEF FramesOf, Waiting
  <2> QED
    BY <2>1, <2>2
<1>7. Waiting(Tail(s)) \subseteq FramesOf(Tail(s))
  <2>1. 2 .. Len(Tail(s)) \subseteq 1 .. Len(Tail(s))
    BY <1>1, <1>2
  <2> QED
    BY <2>1 DEF FramesOf, Waiting
<1> QED
  BY <1>5, <1>6, <1>7

LEMMA TopReplaced ==
  ASSUME NEW s \in Seq(Frame), s # <<>>, NEW f \in Frame, NEW r, r = [s EXCEPT ![1] = f]
  PROVE  r \in Seq(Frame) /\ r # <<>> /\ r[1] = f /\ Waiting(r) = Waiting(s)
<1>1. Len(s) \in Nat /\ Len(s) # 0 /\ 1 \in 1 .. Len(s)
  BY LenProperties, EmptySeq
<1>2. /\ r \in Seq(Frame) /\ Len(r) = Len(s)
      /\ \A j \in 1 .. Len(s) : r[j] = IF j = 1 THEN f ELSE s[j]
  BY <1>1, ExceptSeq
<1>3. \A j \in 2 .. Len(s) : r[j] = s[j]
  BY <1>1, <1>2
<1> QED
  BY <1>1, <1>2, <1>3, EmptySeq DEF Waiting

LEMMA FrameAppended ==
  ASSUME NEW s \in Seq(Frame), s # <<>>, NEW f \in Frame, NEW r, r = Append(s, f)
  PROVE  r \in Seq(Frame) /\ r # <<>> /\ r[1] = s[1] /\ Waiting(r) = Waiting(s) \cup {f}
<1>1. Len(s) \in Nat /\ Len(s) # 0
  BY LenProperties, EmptySeq
<1>2. /\ r \in Seq(Frame) /\ Len(r) = Len(s) + 1 /\ r[Len(s) + 1] = f
      /\ \A j \in 1 .. Len(s) : r[j] = s[j]
  BY AppendProperties
<1>3. r # <<>>
  BY <1>1, <1>2, EmptySeq
<1>4. 2 .. Len(r) = (2 .. Len(s)) \cup {Len(s) + 1} /\ \A j \in 2 .. Len(s) : r[j] = s[j]
  BY <1>1, <1>2
<1>5. Waiting(r) = Waiting(s) \cup {f}
  BY <1>2, <1>4 DEF Waiting
<1> QED
  BY <1>1, <1>2, <1>3, <1>5

LEMMA FramesJoined ==
  ASSUME NEW o \in Seq(Frame), NEW s \in Seq(Frame)
  PROVE  o \o s \in Seq(Frame) /\ FramesOf(o \o s) = FramesOf(o) \cup FramesOf(s)
<1> DEFINE r == o \o s
<1>1. Len(o) \in Nat /\ Len(s) \in Nat
  BY LenProperties
<1>2. /\ r \in Seq(Frame) /\ Len(r) = Len(o) + Len(s)
      /\ \A i \in 1 .. Len(o) + Len(s) : r[i] = IF i <= Len(o) THEN o[i] ELSE s[i - Len(o)]
  BY ConcatProperties
<1> HIDE DEF r
<1>3. \A i \in 1 .. Len(r) : r[i] \in FramesOf(o) \cup FramesOf(s)
  <2> TAKE i \in 1 .. Len(r)
  <2>1. CASE i <= Len(o)
    <3>1. i \in 1 .. Len(o) /\ r[i] = o[i]
      BY <1>1, <1>2, <2>1
    <3> QED
      BY <3>1 DEF FramesOf
  <2>2. CASE ~(i <= Len(o))
    <3>1. i - Len(o) \in 1 .. Len(s) /\ r[i] = s[i - Len(o)]
      BY <1>1, <1>2, <2>2
    <3> QED
      BY <3>1 DEF FramesOf
  <2> QED
    BY <2>1, <2>2
<1>4. \A i \in 1 .. Len(o) : i \in 1 .. Len(r) /\ r[i] = o[i]
  BY <1>1, <1>2
<1>5. \A i \in 1 .. Len(s) : Len(o) + i \in 1 .. Len(r) /\ r[Len(o) + i] = s[i]
  <2> TAKE i \in 1 .. Len(s)
  <2>1. Len(o) + i \in 1 .. Len(o) + Len(s) /\ ~(Len(o) + i <= Len(o)) /\ Len(o) + i - Len(o) = i
    BY <1>1
  <2> QED
    BY <1>2, <2>1
<1>6. FramesOf(r) = FramesOf(o) \cup FramesOf(s)
  <2>1. FramesOf(r) \subseteq FramesOf(o) \cup FramesOf(s)
    BY <1>3 DEF FramesOf
  <2>2. FramesOf(o) \subseteq FramesOf(r)
    BY <1>4 DEF FramesOf
  <2>3. FramesOf(s) \subseteq FramesOf(r)
    BY <1>5 DEF FramesOf
  <2> QED
    BY <2>1, <2>2, <2>3
<1> QED
  BY <1>2, <1>6 DEF r

LEMMA SmallCalls ==
  /\ FramesOf(<<>>) = {} /\ Waiting(<<>>) = {}
  /\ \A f \in Frame : <<f>> \in Seq(Frame) /\ FramesOf(<<f>>) = {f} /\ Waiting(<<f>>) = {}
<1>1. Len(<<>>) = 0 /\ 1 .. 0 = {} /\ 2 .. 0 = {}
  BY EmptySeq
<1>2. \A f \in Frame : <<f>> \in Seq(Frame) /\ Len(<<f>>) = 1 /\ <<f>>[1] = f
  OBVIOUS
<1>3. 1 .. 1 = {1} /\ 2 .. 1 = {}
  OBVIOUS
<1> QED
  BY <1>1, <1>2, <1>3 DEF FramesOf, Waiting

(* The dispatches a call goes on with are drains. *)
LEMMA DispatchesDrain ==
  ASSUME NEW conn \in Connections, NEW S \in SUBSET Queues, NEW o \in DispatchOrders(conn, S)
  PROVE  o \in Seq(Frame) /\ \A f \in FramesOf(o) : f.do = "drain"
<1>1. o \in Seq(Frame)
  BY DispatchOrdersOK
<1>2. PICK s : o = [i \in DOMAIN s |-> Drain(conn, s[i])]
  BY DEF DispatchOrders
<1>3. \A i \in DOMAIN o : o[i].do = "drain"
  BY <1>2 DEF Drain
<1>4. DOMAIN o = 1 .. Len(o)
  BY <1>1, LenProperties
<1> QED
  BY <1>1, <1>3, <1>4 DEF FramesOf

(* The steps of a call that do more to the stack than pop it. *)
LEMMA DrainEndFrames ==
  ASSUME TypeOK, DrainEnd
  PROVE  /\ call' # <<>> /\ call'[1].do = "dispatch" /\ call'[1].queue = Top.queue
         /\ Waiting(call') = Waiting(call) /\ call' \in Seq(Frame)
<1>1. Top.do = "drain" /\ call \in Seq(Frame) /\ call # <<>>
  BY DEF DrainEnd, TypeOK, Idle
<1>2. Top \in Frame
  BY <1>1, TopOfCall DEF Idle
<1> DEFINE f == [Top EXCEPT !.do = "dispatch"]
<1>3. f \in Frame /\ f.do = "dispatch" /\ f.queue = Top.queue
  BY <1>1, <1>2 DEF Frame, SettleKinds
<1>4. call' = [call EXCEPT ![1] = f]
  BY DEF DrainEnd, Top
<1> HIDE DEF f
<1> QED
  <2>1. PICK r : r = [call EXCEPT ![1] = f]
    OBVIOUS
  <2>2. r \in Seq(Frame) /\ r # <<>> /\ r[1] = f /\ Waiting(r) = Waiting(call)
    <3>1. call \in Seq(Frame) /\ call # <<>> /\ f \in Frame
      BY <1>1, <1>3
    <3> QED
      BY <2>1, <3>1, TopReplaced
  <2>3. call' = r
    BY <1>4, <2>1
  <2> QED
    BY <1>3, <2>2, <2>3

LEMMA CancelStepFrames ==
  ASSUME TypeOK, CancelStep
  PROVE  /\ call' # <<>> /\ call'[1].do = "cancel" /\ call'[1].channel = Top.channel
         /\ Waiting(call') = Waiting(call) /\ call' \in Seq(Frame)
<1>1. Top.do = "cancel" /\ call \in Seq(Frame) /\ call # <<>>
  BY DEF CancelStep, TypeOK, Idle
<1>2. Top \in Frame
  BY <1>1, TopOfCall DEF Idle
<1>3. PICK t \in OnNumber(Top.channel) :
        call' = [call EXCEPT ![1].queues = @ \cup {byTag[t].queue}]
  BY DEF CancelStep
<1>4. byTag[t].queue \in Queues
  BY <1>3 DEF OnNumber, Registered, TypeOK, Entry
<1> DEFINE f == [Top EXCEPT !.queues = @ \cup {byTag[t].queue}]
<1>5. f \in Frame /\ f.do = "cancel" /\ f.channel = Top.channel
  BY <1>1, <1>2, <1>4 DEF Frame, SettleKinds
<1>6. call' = [call EXCEPT ![1] = f]
  BY <1>3 DEF Top
<1> HIDE DEF f
<1> QED
  <2>1. PICK r : r = [call EXCEPT ![1] = f]
    OBVIOUS
  <2>2. r \in Seq(Frame) /\ r # <<>> /\ r[1] = f /\ Waiting(r) = Waiting(call)
    <3>1. call \in Seq(Frame) /\ call # <<>> /\ f \in Frame
      BY <1>1, <1>5
    <3> QED
      BY <2>1, <3>1, TopReplaced
  <2>3. call' = r
    BY <1>6, <2>1
  <2> QED
    BY <1>5, <2>2, <2>3

(* One delivery is settled; a dispatch of its queue waits below everything
   else, unless deliveries are being returned. *)
SettlesOne(u) ==
  /\ u \in unacked[Top.channel] /\ u.tag \in Top.tags
  /\ unacked' = Removed(Top.channel, u)
  /\ call' # <<>> /\ call' \in Seq(Frame)
  /\ call'[1].do = Top.do /\ call'[1].channel = Top.channel
  /\ call'[1].tags = Top.tags \ {u.tag}
  /\ Waiting(call) \subseteq Waiting(call')
  /\ \A f \in Waiting(call') : f \in Waiting(call) \/ f.do = "drain"
  /\ Top.do # "return" => \E f \in Waiting(call') : f.do = "drain" /\ f.queue = u.queue
  /\ \A q \in Queues : q # u.queue => store'[q] = store[q]

LEMMA SettleStepFrames ==
  ASSUME TypeOK, SettleStep
  PROVE  Top.channel \in Channels /\ Top.do \in SettleKinds /\ \E u : SettlesOne(u)
<1>1. Top.do \in SettleKinds /\ call \in Seq(Frame) /\ call # <<>>
  BY DEF SettleStep, TypeOK, Idle
<1>2. Top \in Frame /\ Top.channel \in Channels /\ Top.tags \in SUBSET Nat
  BY <1>1, TopOfCall, FrameFields DEF Idle
<1>3. PICK u \in unacked[Top.channel] :
        /\ u.tag \in Top.tags /\ unacked' = Removed(Top.channel, u) /\ call' = Settled(u)
        /\ store' = store \/ store' = Requeued(u)
  BY DEF SettleStep
<1>4. u \in Unacked
  BY <1>2, <1>3 DEF TypeOK
<1> DEFINE f == [Top EXCEPT !.tags = @ \ {u.tag}]
           g == Drain(ConnOf[Top.channel], u.queue)
<1>5. /\ f \in Frame /\ f.do = Top.do /\ f.channel = Top.channel
      /\ f.tags = Top.tags \ {u.tag}
  BY <1>1, <1>2 DEF Frame, SettleKinds
<1>6. g \in Frame /\ g.do = "drain" /\ g.queue = u.queue
  BY <1>2, <1>4, FramesOK DEF Unacked, Drain
<1>7. Remaining(u) = [call EXCEPT ![1] = f]
  BY DEF Remaining, Top
<1>8. \/ call' = Remaining(u) /\ (Top.do = "return" \/ g \in ToSet(call))
      \/ call' = Append(Remaining(u), g)
  BY <1>3 DEF Settled
<1> HIDE DEF f, g
<1>9. /\ Remaining(u) \in Seq(Frame) /\ Remaining(u) # <<>> /\ Remaining(u)[1] = f
      /\ Waiting(Remaining(u)) = Waiting(call)
  BY <1>1, <1>5, <1>7, TopReplaced
<1>10. /\ call' \in Seq(Frame) /\ call' # <<>> /\ call'[1] = f
       /\ \/ Waiting(call') = Waiting(call) /\ (Top.do = "return" \/ g \in Waiting(call))
          \/ Waiting(call') = Waiting(call) \cup {g}
  <2>1. CASE call' = Remaining(u) /\ (Top.do = "return" \/ g \in ToSet(call))
    <3>1. g \in ToSet(call) => g \in Waiting(call)
      <4>1. ToSet(call) = FramesOf(call)
        BY <1>1, ToSetOf DEF FramesOf
      <4>2. FramesOf(call) = {Top} \cup Waiting(call)
        BY <1>1, TopAndWaiting DEF Top
      <4>3. g # Top
        BY <1>1, <1>6 DEF SettleKinds
      <4> QED
        BY <4>1, <4>2, <4>3
    <3> QED
      BY <1>9, <2>1, <3>1
  <2>2. CASE call' = Append(Remaining(u), g)
    <3>1. PICK s \in Seq(Frame) : s = Remaining(u) /\ s # <<>>
      BY <1>9
    <3>2. PICK r : r = call' /\ r = Append(s, g)
      BY <2>2, <3>1
    <3>3. r \in Seq(Frame) /\ r # <<>> /\ r[1] = s[1] /\ Waiting(r) = Waiting(s) \cup {g}
      BY <1>6, <3>1, <3>2, FrameAppended
    <3> QED
      BY <1>9, <3>1, <3>2, <3>3
  <2> QED
    BY <1>8, <2>1, <2>2
<1>11. \A q \in Queues : q # u.queue => store'[q] = store[q]
  BY <1>3 DEF Requeued, TypeOK
<1>12. Top.do # "return" => \E h \in Waiting(call') : h.do = "drain" /\ h.queue = u.queue
  BY <1>6, <1>10
<1>13. SettlesOne(u)
  BY <1>3, <1>5, <1>6, <1>10, <1>11, <1>12 DEF SettlesOne
<1> QED
  BY <1>1, <1>2, <1>13

LEMMA CancelEndFrames ==
  ASSUME TypeOK, CancelEnd
  PROVE  LET c == Top.channel
             back == Settle("return", c, TagsOf(c))
         IN  /\ c \in Channels /\ OnNumber(c) = {}
             /\ channel' = [channel EXCEPT ![c].mapped = FALSE]
             /\ call' \in Seq(Frame)
             /\ back \in FramesOf(call') /\ Waiting(call) \subseteq FramesOf(call')
             /\ \A f \in FramesOf(call') : f = back \/ f \in Waiting(call) \/ f.do = "drain"
<1> DEFINE c == Top.channel
           back == Settle("return", c, TagsOf(c))
           failover == {q \in Top.queues \cap SacQueues : byQueue[q] # <<>>}
<1>1. c \in Channels /\ failover \in SUBSET Queues /\ call \in Seq(Frame) /\ call # <<>>
  BY TopOfCall, FrameFields, DeliveryAssumption DEF CancelEnd, TypeOK, Idle
<1>2. PICK o \in DispatchOrders(ConnOf[c], failover) : call' = o \o <<back>> \o Tail(call)
  BY DEF CancelEnd
<1>3. back \in Frame
  BY <1>1, TagsOK, FramesOK DEF SettleKinds
<1>4. OnNumber(c) = {} /\ channel' = [channel EXCEPT ![c].mapped = FALSE]
  BY DEF CancelEnd
<1> HIDE DEF c, back, failover
<1>5. o \in Seq(Frame) /\ \A f \in FramesOf(o) : f.do = "drain"
  BY <1>1, <1>2, FramesOK, DispatchesDrain
<1>6. <<back>> \in Seq(Frame) /\ FramesOf(<<back>>) = {back}
  BY <1>3, SmallCalls
<1>7. Tail(call) \in Seq(Frame) /\ FramesOf(Tail(call)) = Waiting(call)
  BY <1>1, TopAndWaiting, HeadTailProperties
<1>8. o \o <<back>> \in Seq(Frame) /\ FramesOf(o \o <<back>>) = FramesOf(o) \cup {back}
  BY <1>5, <1>6, FramesJoined
<1>9. /\ call' \in Seq(Frame)
      /\ FramesOf(call') = FramesOf(o) \cup {back} \cup Waiting(call)
  BY <1>2, <1>7, <1>8, FramesJoined
<1>10. /\ back \in FramesOf(call') /\ Waiting(call) \subseteq FramesOf(call')
       /\ \A f \in FramesOf(call') : f = back \/ f \in Waiting(call) \/ f.do = "drain"
  BY <1>5, <1>9
<1> QED
  BY <1>1, <1>4, <1>9, <1>10 DEF c, back

-----------------------------------------------------------------------------
(* What a closed channel leaves behind *)

NoConsumerOn(c) == \A t \in Tags : Registered(t) => byTag[t].channel # c

Closing(c) == \E f \in FramesOf(call) : f.do = "cancel" /\ f.channel = c

Returning(c) ==
  \E f \in FramesOf(call) : f.do = "return" /\ f.channel = c /\ TagsOf(c) \subseteq f.tags

(* Its consumers are cancelled and nothing is delivered to it any more; what it
   had outstanding is returned, or on its way. *)
Emptied(c) ==
  ~channel[c].mapped /\ NoConsumerOn(c) /\ (unacked[c] = {} \/ Returning(c))

ClosedInv ==
  /\ \A c \in Channels : ~channel[c].open => Closing(c) \/ Emptied(c)
  /\ \A f \in FramesOf(call) : f.do = "get" => channel[f.channel].open

(* The step keeps what ClosedInv says of each closed channel: nobody consumes
   from it or through its name, and the call still has its frame. *)
KeepsClosed ==
  /\ \A c \in Channels : channel'[c].open = channel[c].open
  /\ \A c \in Channels : ~channel[c].mapped => ~channel'[c].mapped
  /\ \A c \in Channels : ~channel[c].open /\ ~channel[c].mapped =>
       /\ unacked'[c] \subseteq unacked[c]
       /\ Returning(c) => Returning(c)' \/ unacked'[c] = {}
  /\ \A t \in Tags : byTag'[t] # NoConsumer =>
       byTag[t] # NoConsumer /\ byTag'[t].channel = byTag[t].channel
  /\ \A c \in Channels : Closing(c) => Closing(c)' \/ Emptied(c)'
  /\ \A f \in FramesOf(call') : f.do = "get" =>
       \E g \in FramesOf(call) : g.do = "get" /\ g.channel = f.channel

LEMMA ClosedKept ==
  ASSUME TypeOK, ClosedInv, KeepsClosed
  PROVE  ClosedInv'
<1>1. ASSUME NEW c \in Channels, ~channel'[c].open
      PROVE  Closing(c)' \/ Emptied(c)'
  <2>1. ~channel[c].open
    BY <1>1 DEF KeepsClosed
  <2>2. CASE Closing(c)
    BY <2>2 DEF KeepsClosed
  <2>3. CASE Emptied(c)
    <3>1. ~channel'[c].mapped
      BY <2>3 DEF Emptied, KeepsClosed
    <3>2. NoConsumerOn(c)'
      BY <2>3 DEF Emptied, KeepsClosed, NoConsumerOn, Registered
    <3>3. unacked'[c] = {} \/ Returning(c)'
      BY <2>1, <2>3 DEF Emptied, KeepsClosed
    <3> QED
      BY <3>1, <3>2, <3>3 DEF Emptied
  <2> QED
    BY <2>1, <2>2, <2>3 DEF ClosedInv
<1>2. ASSUME NEW f \in FramesOf(call'), f.do = "get"
      PROVE  channel'[f.channel].open
  <2>1. PICK g \in FramesOf(call) : g.do = "get" /\ g.channel = f.channel
    BY <1>2 DEF KeepsClosed
  <2>2. g \in Frame
    BY ElementOfSeq DEF FramesOf, TypeOK
  <2>3. g.channel \in Channels /\ channel[g.channel].open
    BY <2>1, <2>2, FrameFields DEF ClosedInv
  <2> QED
    BY <2>1, <2>3 DEF KeepsClosed
<1> QED
  BY <1>1, <1>2 DEF ClosedInv

(* A frame is popped that is not a channel's cancellation. *)
LEMMA PopKeepsClosing ==
  ASSUME TypeOK, ~Idle, Top.do # "cancel", call' = Tail(call)
  PROVE  /\ \A c \in Channels : Closing(c) => Closing(c)'
         /\ \A f \in FramesOf(call') : f \in FramesOf(call)
         /\ \A f \in FramesOf(call) : f = Top \/ f \in FramesOf(call')
<1>1. call \in Seq(Frame) /\ call # <<>>
  BY DEF TypeOK, Idle
<1>2. FramesOf(call) = {Top} \cup Waiting(call) /\ FramesOf(call') = Waiting(call)
  BY <1>1, TopAndWaiting DEF Top
<1> QED
  BY <1>2 DEF Closing

LEMMA RunCallKeepsClosed ==
  ASSUME Registry, TagsIssued, ClosedInv, RunCall, ~CancelEnd
  PROVE  KeepsClosed
<1> USE DEF Registry
<1>0. call \in Seq(Frame) /\ call # <<>> /\ ~Idle
  BY DEF TypeOK, RunCall, Idle, DropExpired, DrainEnd, DispatchStep, DispatchEnd, GetTake,
         GetEmpty, SettleStep, SettleEnd, CancelStep, CancelEnd
<1>1. FramesOf(call) = {Top} \cup Waiting(call)
  BY <1>0, TopAndWaiting DEF Top
<1>2. CASE DropExpired
  BY <1>2 DEF DropExpired, KeepsClosed, Closing, Returning, TagsOf
<1>3. CASE DrainEnd
  <2>1. /\ call' # <<>> /\ call'[1].do = "dispatch"
        /\ Waiting(call') = Waiting(call) /\ call' \in Seq(Frame)
    BY <1>3, DrainEndFrames
  <2>2. FramesOf(call') = {call'[1]} \cup Waiting(call)
    BY <2>1, TopAndWaiting
  <2>3. Top.do = "drain" /\ UNCHANGED <<channel, unacked, byTag>>
    BY <1>3 DEF DrainEnd, brokerVars
  <2> QED
    BY <1>1, <2>1, <2>2, <2>3 DEF KeepsClosed, Closing, Returning, TagsOf
<1>4. CASE DispatchStep
  <2>1. PICK q \in Queues, t \in Tags, c \in Channels :
          Delivers(q, t, c) /\ channel[c].mapped
    BY <1>4, DispatchDelivers
  <2>2. Deliver(q, t, c) /\ byTag[t] \in Entry
    BY <2>1 DEF Delivers
  <2>3. channel' = [channel EXCEPT ![c].tagSeq = NextTag(c)]
    BY <2>2 DEF Deliver
  <2>4. \A d \in Channels :
          channel'[d].open = channel[d].open /\ channel'[d].mapped = channel[d].mapped
    BY <2>3, Numbers DEF TypeOK, Channel, NextTag
  <2>5. unacked' = unacked \/ \E r : Tracked(c, r)
    BY <2>2, DispatchIssues DEF Issues
  <2>6. \A d \in Channels : d # c => unacked'[d] = unacked[d]
    BY <2>5 DEF Tracked, TypeOK
  <2>7. byTag' = byTag \/ byTag' = [byTag EXCEPT ![t].unackedCount = @ + 1]
    BY <2>2, DispatchIssues
  <2>8. \A x \in Tags : byTag'[x] # NoConsumer =>
          byTag[x] # NoConsumer /\ byTag'[x].channel = byTag[x].channel
    <3>1. byTag[t] # NoConsumer
      BY <2>2, EntryAssumption
    <3>2. [byTag[t] EXCEPT !.unackedCount = @ + 1].channel = byTag[t].channel
      BY <2>2 DEF Entry
    <3> QED
      BY <2>7, <3>1, <3>2 DEF TypeOK
  <2>9. call' = call
    BY <1>4 DEF DispatchStep
  <2>10. \A d \in Channels : Closing(d) => Closing(d)'
    BY <2>9 DEF Closing
  <2>11. \A d \in Channels : ~channel[d].mapped =>
           /\ unacked'[d] \subseteq unacked[d]
           /\ Returning(d) => Returning(d)' 
    BY <2>1, <2>6, <2>9 DEF Returning, TagsOf
  <2> QED
    BY <2>4, <2>8, <2>9, <2>10, <2>11 DEF KeepsClosed
<1>5. ASSUME Top.do # "cancel", call' = Tail(call), UNCHANGED <<unacked, channel, byTag>>,
             Top.do = "return" => Top.tags = {}
      PROVE  KeepsClosed
  <2>1. /\ \A c \in Channels : Closing(c) => Closing(c)'
        /\ \A f \in FramesOf(call') : f \in FramesOf(call)
        /\ \A f \in FramesOf(call) : f = Top \/ f \in FramesOf(call')
    BY <1>0, <1>5, PopKeepsClosing
  <2>2. \A c \in Channels : Returning(c) => Returning(c)' \/ unacked'[c] = {}
    BY <1>5, <2>1 DEF Returning, TagsOf
  <2> QED
    BY <1>5, <2>1, <2>2 DEF KeepsClosed
<1>6. CASE DispatchEnd \/ GetEmpty \/ SettleEnd
  BY <1>5, <1>6 DEF DispatchEnd, GetEmpty, SettleEnd, brokerVars, SettleKinds, Pop
<1>7. CASE GetTake
  <2> DEFINE c == Top.channel
  <2>1. c \in Channels /\ \E r : Issues(c, r)
    BY <1>7, GetIssues
  <2>2. Top.do = "get" /\ call' = Tail(call) /\ byTag' = byTag
        /\ channel' = [channel EXCEPT ![c].tagSeq = NextTag(c)]
    BY <1>7 DEF GetTake, Pop
  <2>3. /\ \A d \in Channels : Closing(d) => Closing(d)'
        /\ \A f \in FramesOf(call') : f \in FramesOf(call)
        /\ \A f \in FramesOf(call) : f = Top \/ f \in FramesOf(call')
    BY <1>0, <2>2, PopKeepsClosing
  <2>4. channel[c].open
    BY <1>1, <2>2 DEF ClosedInv
  <2> HIDE DEF c
  <2>5. \A d \in Channels :
          channel'[d].open = channel[d].open /\ channel'[d].mapped = channel[d].mapped
    BY <2>1, <2>2, Numbers DEF TypeOK, Channel, NextTag
  <2>6. \A d \in Channels : d # c => unacked'[d] = unacked[d]
    BY <2>1 DEF Issues, Tracked, TypeOK
  <2>7. \A d \in Channels : ~channel[d].open =>
          /\ unacked'[d] \subseteq unacked[d]
          /\ Returning(d) => Returning(d)'
    BY <2>2, <2>3, <2>4, <2>6 DEF Returning, TagsOf
  <2> QED
    BY <2>2, <2>3, <2>5, <2>7 DEF KeepsClosed
<1>8. CASE SettleStep
  <2>1. PICK u : SettlesOne(u)
    BY <1>8, SettleStepFrames
  <2> DEFINE c == Top.channel
  <2>2. c \in Channels /\ Top.do \in SettleKinds /\ UNCHANGED <<byTag, channel>>
    BY <1>8, SettleStepFrames DEF SettleStep
  <2>3. FramesOf(call') = {call'[1]} \cup Waiting(call')
    BY <2>1, TopAndWaiting DEF SettlesOne
  <2>4. /\ unacked'[c] = unacked[c] \ {u} /\ u \in unacked[c]
        /\ \A d \in Channels : d # c => unacked'[d] = unacked[d]
    BY <2>1, <2>2 DEF SettlesOne, Removed, TypeOK
  <2>5. \A v \in unacked'[c] : v.tag # u.tag
    BY <2>2, <2>4 DEF TagsIssued
  <2>6. /\ call'[1].do = Top.do /\ call'[1].channel = c /\ call'[1].tags = Top.tags \ {u.tag}
        /\ Waiting(call) \subseteq Waiting(call')
        /\ \A f \in Waiting(call') : f \in Waiting(call) \/ f.do = "drain"
    BY <2>1 DEF SettlesOne
  <2> HIDE DEF c
  <2>7. Top.do # "cancel" /\ Top.do # "get"
    BY <2>2 DEF SettleKinds
  <2>8. \A d \in Channels : Closing(d) => Closing(d)'
    BY <1>1, <2>3, <2>6, <2>7 DEF Closing
  <2>9. ASSUME NEW d \in Channels, Returning(d)
        PROVE  Returning(d)'
    <3>1. PICK f \in FramesOf(call) :
            f.do = "return" /\ f.channel = d /\ TagsOf(d) \subseteq f.tags
      BY <2>9 DEF Returning
    <3>2. TagsOf(d)' \subseteq TagsOf(d)
      BY <2>4 DEF TagsOf
    <3>3. CASE f \in Waiting(call)
      BY <2>3, <2>6, <3>1, <3>2, <3>3 DEF Returning
    <3>4. CASE f = Top
      <4>1. d = c
        BY <3>1, <3>4 DEF c
      <4>2. \A n \in TagsOf(d)' : n # u.tag
        BY <2>5, <4>1 DEF TagsOf
      <4>3. TagsOf(d)' \subseteq call'[1].tags
        BY <2>6, <3>1, <3>2, <3>4, <4>2
      <4> QED
        BY <2>3, <2>6, <3>1, <3>4, <4>1, <4>3 DEF Returning
    <3> QED
      BY <1>1, <3>1, <3>3, <3>4
  <2>10. \A f \in FramesOf(call') : f.do = "get" => f \in FramesOf(call)
    BY <1>1, <2>3, <2>6, <2>7
  <2> QED
    BY <2>2, <2>4, <2>8, <2>9, <2>10 DEF KeepsClosed
<1>9. CASE CancelStep
  <2>1. /\ call' # <<>> /\ call'[1].do = "cancel" /\ call'[1].channel = Top.channel
        /\ Waiting(call') = Waiting(call) /\ call' \in Seq(Frame)
    BY <1>9, CancelStepFrames
  <2>2. FramesOf(call') = {call'[1]} \cup Waiting(call)
    BY <2>1, TopAndWaiting
  <2>3. Top.do = "cancel" /\ UNCHANGED <<channel, unacked>>
    BY <1>9 DEF CancelStep
  <2>4. PICK t \in Tags : byTag' = [byTag EXCEPT ![t] = NoConsumer]
    BY <1>9 DEF CancelStep, OnNumber, Unregister
  <2>5. \A x \in Tags : byTag'[x] # NoConsumer =>
          byTag[x] # NoConsumer /\ byTag'[x].channel = byTag[x].channel
    BY <2>4 DEF TypeOK
  <2>6. \A d \in Channels : Closing(d) => Closing(d)'
    BY <1>1, <2>1, <2>2, <2>3 DEF Closing
  <2>7. \A d \in Channels : Returning(d) => Returning(d)'
    BY <1>1, <2>2, <2>3 DEF Returning, TagsOf
  <2> QED
    BY <1>1, <2>1, <2>2, <2>3, <2>5, <2>6, <2>7 DEF KeepsClosed
<1> QED
  BY <1>2, <1>3, <1>4, <1>6, <1>7, <1>8, <1>9 DEF RunCall

(* The last consumer is cancelled: the channel leaves its connection's map, and
   what it has outstanding is to be returned. *)
LEMMA CancelEndKeepsClosed ==
  ASSUME Registry, ClosedInv, CancelEnd
  PROVE  KeepsClosed
<1> USE DEF Registry
<1>c. PICK c \in Channels : c = Top.channel
  BY CancelEndFrames
<1>b. PICK back : back = Settle("return", c, TagsOf(c))
  OBVIOUS
<1>1. call \in Seq(Frame) /\ call # <<>> /\ Top.do = "cancel"
  BY DEF TypeOK, Idle, CancelEnd
<1>2. FramesOf(call) = {Top} \cup Waiting(call)
  BY <1>1, TopAndWaiting DEF Top
<1>3. /\ c \in Channels /\ OnNumber(c) = {}
      /\ channel' = [channel EXCEPT ![c].mapped = FALSE]
      /\ back \in FramesOf(call') /\ Waiting(call) \subseteq FramesOf(call')
      /\ \A f \in FramesOf(call') : f = back \/ f \in Waiting(call) \/ f.do = "drain"
  BY <1>c, <1>b, CancelEndFrames
<1>4. back.do = "return" /\ back.channel = c /\ back.tags = TagsOf(c)
  BY <1>b DEF Settle
<1>5. unacked' = unacked /\ byTag' = byTag
  BY DEF CancelEnd
<1>6. /\ \A d \in Channels : channel'[d].open = channel[d].open
      /\ \A d \in Channels : ~channel[d].mapped => ~channel'[d].mapped
      /\ ~channel'[c].mapped
  BY <1>3 DEF TypeOK, Channel
<1>7. \A d : TagsOf(d)' = TagsOf(d)
  BY <1>5 DEF TagsOf
<1>8. Emptied(c)'
  <2>1. NoConsumerOn(c)'
    BY <1>3, <1>5 DEF NoConsumerOn, OnNumber, Registered
  <2>2. Returning(c)'
    BY <1>3, <1>4, <1>7 DEF Returning
  <2> QED
    BY <1>6, <2>1, <2>2 DEF Emptied
<1>9. ASSUME NEW d \in Channels, Closing(d)
      PROVE  Closing(d)' \/ Emptied(d)'
  <2>1. PICK f \in FramesOf(call) : f.do = "cancel" /\ f.channel = d
    BY <1>9 DEF Closing
  <2>2. CASE f = Top
    BY <1>c, <1>8, <2>1, <2>2
  <2>3. CASE f \in Waiting(call)
    BY <1>3, <2>1, <2>3 DEF Closing
  <2> QED
    BY <1>2, <2>2, <2>3
<1>10. \A d \in Channels : Returning(d) => Returning(d)'
  BY <1>1, <1>2, <1>3, <1>7 DEF Returning
<1>11. \A f \in FramesOf(call') : f.do = "get" => f \in FramesOf(call)
  BY <1>2, <1>3, <1>4
<1> QED
  BY <1>5, <1>6, <1>9, <1>10, <1>11 DEF KeepsClosed

(* Between calls a closed channel is empty, and stays so if nobody consumes from
   it; a call that closes one begins with its cancellation. *)
LEMMA ClosedBetweenCalls ==
  ASSUME TypeOK, ClosedInv, Idle, unacked' = unacked,
         \A c \in Channels : ~channel[c].mapped => ~channel'[c].mapped,
         \A c \in Channels : ~channel'[c].open => ~channel[c].open \/ Closing(c)',
         \A t \in Tags : byTag'[t] # NoConsumer =>
           \/ byTag[t] # NoConsumer /\ byTag'[t].channel = byTag[t].channel
           \/ channel[byTag'[t].channel].open,
         \A f \in FramesOf(call') : f.do = "get" => channel'[f.channel].open
  PROVE  ClosedInv'
<1>1. FramesOf(call) = {}
  BY SmallCalls DEF Idle
<1>2. ASSUME NEW c \in Channels, ~channel[c].open
      PROVE  Emptied(c)'
  <2>1. ~channel[c].mapped /\ NoConsumerOn(c) /\ unacked[c] = {}
    BY <1>1, <1>2 DEF ClosedInv, Closing, Emptied, Returning
  <2>2. NoConsumerOn(c)'
    BY <1>2, <2>1 DEF NoConsumerOn, Registered
  <2> QED
    BY <2>1, <2>2 DEF Emptied
<1> QED
  BY <1>2 DEF ClosedInv

LEMMA ClientKeepsClosed ==
  ASSUME Registry, ClosedInv, NEW c \in Channels, ClientNext(c)
  PROVE  ClosedInv'
<1> USE DEF Registry
<1>1. /\ \A x \in Tags : byTag[x] # NoConsumer => byTag[x] \in Entry
      /\ \A d \in Channels : channel[d] \in Channel
      /\ channel \in [Channels -> Channel]
  BY DEF TypeOK
<1>2. ASSUME Idle, UNCHANGED <<channel, unacked, byTag>>,
             \A f \in FramesOf(call') : f.do # "get"
      PROVE  ClosedInv'
  BY <1>2, ClosedBetweenCalls
<1>3. \A q \in Queues : Drain(ConnOf[c], q) \in Frame /\ Drain(ConnOf[c], q).do = "drain"
  BY FramesOK DEF Drain
<1>4. CASE \E q \in Queues : Publish(c, q)
  <2>1. PICK q \in Queues : call' = <<Drain(ConnOf[c], q)>>
    BY <1>4 DEF Publish
  <2>2. \A f \in FramesOf(call') : f.do # "get"
    BY <1>3, <2>1, SmallCalls
  <2> QED
    BY <1>2, <1>4, <2>2 DEF Publish, Calls
<1>5. CASE \E q \in Queues, t \in Tags, o \in ConsumeOptions : Consume(c, q, t, o)
  <2>1. PICK q \in Queues, t \in Tags, o \in ConsumeOptions : Consume(c, q, t, o)
    BY <1>5
  <2>2. \A f \in FramesOf(call') : f.do # "get"
    BY <1>3, <2>1, SmallCalls DEF Consume
  <2>3. \A x \in Tags : x # t => byTag'[x] = byTag[x]
    BY <2>1 DEF Consume, TypeOK
  <2>4. byTag'[t].channel = c
    BY <2>1 DEF Consume, TypeOK
  <2>5. Idle /\ channel[c].open /\ UNCHANGED <<channel, unacked>>
    BY <2>1 DEF Consume, Calls
  <2> QED
    BY <2>2, <2>3, <2>4, <2>5, ClosedBetweenCalls
<1>6. CASE \E t \in Tags : Cancel(c, t)
  <2>1. PICK t \in Tags : Cancel(c, t)
    BY <1>6
  <2>2. byTag' = [byTag EXCEPT ![t] = NoConsumer] /\ byTag[t].queue \in Queues
    BY <1>1, <2>1 DEF Cancel, Unregister, Registered, Entry
  <2>3. call' = <<>> \/ call' = <<Drain(ConnOf[c], byTag[t].queue)>>
    BY <2>1 DEF Cancel
  <2>4. \A f \in FramesOf(call') : f.do # "get"
    BY <1>3, <2>2, <2>3, SmallCalls
  <2>5. \A x \in Tags : byTag'[x] # NoConsumer => byTag'[x] = byTag[x]
    BY <2>2 DEF TypeOK
  <2>6. Idle /\ UNCHANGED <<channel, unacked>>
    BY <2>1 DEF Cancel, Calls
  <2> QED
    BY <2>4, <2>5, <2>6, ClosedBetweenCalls
<1>7. CASE \E q \in Queues, noAck \in BOOLEAN : Get(c, q, noAck)
  <2>1. PICK q \in Queues, noAck \in BOOLEAN : Get(c, q, noAck)
    BY <1>7
  <2>2. PICK f : f = [do |-> "get", queue |-> q, channel |-> c, noAck |-> noAck]
    OBVIOUS
  <2>3. f \in Frame /\ f.channel = c
    BY <2>2 DEF Frame
  <2>4. FramesOf(call') = {f}
    BY <2>1, <2>2, <2>3, SmallCalls DEF Get
  <2>5. Idle /\ channel[c].open /\ UNCHANGED <<channel, unacked, byTag>>
    BY <2>1 DEF Get, Calls, brokerVars
  <2> QED
    BY <2>3, <2>4, <2>5, ClosedBetweenCalls
<1>8. ASSUME NEW how \in SettleKinds, NEW after, SettleAll(c, how, after),
             after \in Seq(Frame), \A f \in FramesOf(after) : f.do # "get"
      PROVE  ClosedInv'
  <2>1. PICK g : g = Settle(how, c, TagsOf(c))
    OBVIOUS
  <2>2. g \in Frame /\ g.do # "get"
    BY <2>1, TagsOK, FramesOK DEF Settle, SettleKinds
  <2>3. call' = <<g>> \o after /\ Idle /\ UNCHANGED <<channel, unacked, byTag>>
    BY <1>8, <2>1 DEF SettleAll, Calls, brokerVars
  <2>4. FramesOf(call') = {g} \cup FramesOf(after)
    <3>1. <<g>> \in Seq(Frame) /\ FramesOf(<<g>>) = {g}
      BY <2>2, SmallCalls
    <3> QED
      BY <1>8, <2>3, <3>1, FramesJoined
  <2> QED
    BY <1>2, <1>8, <2>2, <2>3, <2>4
<1>9. CASE AnswerNext(c)
  <2>1. CASE \E d \in held[c], multiple \in BOOLEAN :
               Ack(c, d, multiple) \/ \E requeue \in BOOLEAN : Nack(c, d, multiple, requeue)
    <3>1. PICK d \in held[c], multiple \in BOOLEAN, how \in SettleKinds :
            Answer(c, d, multiple, how)
      BY <2>1 DEF Ack, Nack, SettleKinds
    <3>2. d.consumer \in Tags \cup {NoConsumer}
      BY DEF TypeOK, Delivered
    <3>3. \A x \in Tags : byTag'[x] # NoConsumer =>
            byTag[x] # NoConsumer /\ byTag'[x].channel = byTag[x].channel
      <4>1. CASE d.consumer # NoConsumer /\ Registered(d.consumer)
        <5>1. d.consumer \in Tags /\ byTag[d.consumer] \in Entry
          BY <1>1, <3>2, <4>1 DEF Registered
        <5>2. [byTag[d.consumer] EXCEPT !.unackedCount = @ - 1].channel = byTag[d.consumer].channel
          BY <5>1 DEF Entry
        <5>3. \/ byTag' = [byTag EXCEPT ![d.consumer].unackedCount = @ - 1]
              \/ byTag' = byTag
          BY <3>1 DEF Answer, Decremented
        <5> QED
          BY <4>1, <5>1, <5>2, <5>3 DEF TypeOK, Registered
      <4>2. CASE ~(d.consumer # NoConsumer /\ Registered(d.consumer))
        BY <3>1, <4>2 DEF Answer, Decremented
      <4> QED
        BY <4>1, <4>2
    <3>4. PICK g : g = Settle(how, c, Covered(c, d, multiple))
      OBVIOUS
    <3>5. g \in Frame /\ g.do # "get"
      <4>1. Covered(c, d, multiple) \in SUBSET Nat
        BY TagsOK DEF Covered
      <4> QED
        BY <3>4, <4>1, FramesOK DEF Settle, SettleKinds
    <3>6. call' = <<>> \/ call' = <<g>>
      BY <3>1, <3>4 DEF Answer
    <3>7. \A f \in FramesOf(call') : f.do # "get"
      BY <3>5, <3>6, SmallCalls
    <3>8. Idle /\ UNCHANGED <<channel, unacked>>
      BY <3>1 DEF Answer, Calls
    <3> QED
      BY <3>3, <3>7, <3>8, ClosedBetweenCalls
  <2>2. CASE AckAll(c) \/ \E requeue \in BOOLEAN : NackAll(c, requeue)
    <3>1. PICK how \in SettleKinds : SettleAll(c, how, <<>>)
      BY <2>2 DEF AckAll, NackAll, SettleKinds
    <3>2. <<>> \in Seq(Frame)
      BY EmptySeq
    <3> QED
      BY <1>8, <3>1, <3>2, SmallCalls
  <2> QED
    BY <1>9, <2>1, <2>2 DEF AnswerNext
<1>10. CASE Recover(c)
  <2>1. PICK all \in DispatchOrders(ConnOf[c], Queues) : SettleAll(c, "return", all)
    BY <1>10 DEF Recover
  <2>2. all \in Seq(Frame) /\ \A f \in FramesOf(all) : f.do = "drain"
    BY FramesOK, DispatchesDrain
  <2> QED
    BY <1>8, <2>1, <2>2 DEF SettleKinds
<1>11. ASSUME NEW r \in Channel, channel' = [channel EXCEPT ![c] = r],
              r.open = channel[c].open, r.mapped = channel[c].mapped,
              Idle, UNCHANGED <<unacked, byTag>>, \A f \in FramesOf(call') : f.do # "get"
       PROVE  ClosedInv'
  <2>1. \A d \in Channels :
          channel'[d].open = channel[d].open /\ channel'[d].mapped = channel[d].mapped
    BY <1>1, <1>11
  <2> QED
    BY <1>11, <2>1, ClosedBetweenCalls
<1>12. CASE \E count \in PrefetchCounts, global \in BOOLEAN : Prefetch(c, count, global)
  <2>1. PICK count \in PrefetchCounts, global \in BOOLEAN : Prefetch(c, count, global)
    BY <1>12
  <2>2. count \in Nat /\ channel[c] \in Channel
    BY <1>1, DeliveryAssumption
  <2> DEFINE r == [channel[c] EXCEPT !.channelPrefetch = count]
             s == [channel[c] EXCEPT !.consumerPrefetch = count]
  <2>3. /\ r \in Channel /\ r.open = channel[c].open /\ r.mapped = channel[c].mapped
        /\ s \in Channel /\ s.open = channel[c].open /\ s.mapped = channel[c].mapped
    BY <2>2 DEF Channel
  <2>4. channel' = [channel EXCEPT ![c] = r] \/ channel' = [channel EXCEPT ![c] = s]
    BY <2>1 DEF Prefetch
  <2> HIDE DEF r, s
  <2>5. Idle /\ call' = <<>> /\ UNCHANGED <<unacked, byTag>>
    BY <2>1 DEF Prefetch, Calls, Idle
  <2> QED
    BY <1>11, <2>3, <2>4, <2>5, SmallCalls
<1>13. CASE \E active \in BOOLEAN : Flow(c, active)
  <2>1. PICK active \in BOOLEAN : Flow(c, active)
    BY <1>13
  <2> DEFINE r == [channel[c] EXCEPT !.flow = active]
  <2>2. r \in Channel /\ r.open = channel[c].open /\ r.mapped = channel[c].mapped
    BY <1>1 DEF Channel
  <2>3. channel' = [channel EXCEPT ![c] = r]
    BY <2>1 DEF Flow
  <2> HIDE DEF r
  <2>4. PICK all \in DispatchOrders(ConnOf[c], Queues) : call' = IF active THEN all ELSE <<>>
    BY <2>1 DEF Flow
  <2>5. \A f \in FramesOf(call') : f.do # "get"
    BY <2>4, FramesOK, DispatchesDrain, SmallCalls
  <2>6. Idle /\ UNCHANGED <<unacked, byTag>>
    BY <2>1 DEF Flow, Calls
  <2> QED
    BY <1>11, <2>2, <2>3, <2>5, <2>6
<1>14. CASE Close(c)
  <2>1. PICK f : f = [do |-> "cancel", channel |-> c, queues |-> {}]
    OBVIOUS
  <2>2. f \in Frame /\ f.do = "cancel" /\ f.channel = c
    BY <2>1 DEF Frame
  <2>3. FramesOf(call') = {f}
    BY <1>14, <2>1, <2>2, SmallCalls DEF Close
  <2>4. Closing(c)'
    BY <2>2, <2>3 DEF Closing
  <2>5. \A d \in Channels : /\ channel'[d].mapped = channel[d].mapped
                            /\ d # c => channel'[d].open = channel[d].open
    BY <1>14, <1>1 DEF Close, Channel
  <2>6. Idle /\ UNCHANGED <<unacked, byTag>>
    BY <1>14 DEF Close, Calls
  <2> QED
    BY <2>2, <2>3, <2>4, <2>5, <2>6, ClosedBetweenCalls
<1> QED
  BY <1>4, <1>5, <1>6, <1>7, <1>9, <1>10, <1>12, <1>13, <1>14 DEF ClientNext

LEMMA ClosedStep == Registry /\ TagsIssued /\ ClosedInv /\ [Next]_vars => ClosedInv'
<1> SUFFICES ASSUME Registry, TagsIssued, ClosedInv, [Next]_vars
             PROVE  ClosedInv'
  OBVIOUS
<1> USE DEF Registry
<1>1. CASE RunCall
  BY <1>1, RunCallKeepsClosed, CancelEndKeepsClosed, ClosedKept
<1>2. CASE \E c \in Channels : ClientNext(c)
  BY <1>2, ClientKeepsClosed
<1>3. CASE RunMicrotask \/ \E id \in Perishable : Expire(id)
  <2>1. Idle /\ UNCHANGED <<call, channel, unacked, byTag>>
    BY <1>3 DEF RunMicrotask, Expire, brokerVars
  <2>2. FramesOf(call') = {}
    BY <2>1, SmallCalls DEF Idle
  <2> QED
    BY <2>1, <2>2, ClosedBetweenCalls
<1>4. CASE \E conn \in Connections : CloseConnection(conn)
  <2>1. PICK conn \in Connections : CloseConnection(conn)
    BY <1>4
  <2>2. \A d \in Channels : /\ channel'[d].open = channel[d].open
                            /\ ~channel[d].mapped => ~channel'[d].mapped
    BY <2>1 DEF CloseConnection, TypeOK, Channel
  <2>3. Idle /\ UNCHANGED <<call, unacked, byTag>>
    BY <2>1 DEF CloseConnection
  <2>4. FramesOf(call') = {}
    BY <2>3, SmallCalls DEF Idle
  <2> QED
    BY <2>2, <2>3, <2>4, ClosedBetweenCalls
<1>5. CASE UNCHANGED vars
  <2>1. UNCHANGED <<call, channel, unacked, byTag>>
    BY <1>5 DEF vars, brokerVars
  <2> QED
    BY <2>1 DEF ClosedInv, Closing, Emptied, Returning, NoConsumerOn, Registered, TagsOf
<1> QED
  BY <1>1, <1>2, <1>3, <1>4, <1>5 DEF Next

(* Once the call that closed a channel has returned, the channel has no
   consumer and nothing outstanding, and neither comes back: not from a
   dispatch still on the stack, nor from its connection's other channels. *)
THEOREM ClosedChannelsAreEmpty == Spec => []ClosedChannelHoldsNothing
<1>1. Init => ClosedInv
  <2> SUFFICES ASSUME Init PROVE ClosedInv
    OBVIOUS
  <2>1. FramesOf(call) = {} /\ \A c \in Channels : channel[c].open
    BY SmallCalls DEF Init
  <2> QED
    BY <2>1 DEF ClosedInv
<1>2. ClosedInv => ClosedChannelHoldsNothing
  <2> SUFFICES ASSUME ClosedInv, Idle, NEW c \in Channels, ~channel[c].open
               PROVE  unacked[c] = {} /\ NoConsumerOn(c)
    BY DEF ClosedChannelHoldsNothing, NoConsumerOn
  <2>1. FramesOf(call) = {}
    BY SmallCalls DEF Idle
  <2> QED
    BY <2>1 DEF ClosedInv, Closing, Emptied, Returning
<1> QED
  BY <1>1, <1>2, RegistryInit, RegistryStep, NothingIssued, TagsIssuedStep, ClosedStep, PTL
     DEF Spec

-----------------------------------------------------------------------------
(* What the unacked counters count *)

(* Clients that answer a delivery once and by itself, and never give a consumer
   the tag of an earlier one, on channels whose numbers differ. *)
AnswerEachOnce ==
  /\ NumbersDiffer
  /\ ~May("multiple") /\ ~May("all") /\ ~May("recover") /\ ~May("repeat") /\ ~May("reuseTag")

FiniteUnacked == \A c \in Channels : IsFiniteSet(unacked[c])

LEMMA FiniteStep == Registry /\ FiniteUnacked /\ [Next]_vars => FiniteUnacked'
<1> SUFFICES ASSUME Registry, FiniteUnacked, [Next]_vars
             PROVE  FiniteUnacked'
  OBVIOUS
<1> USE DEF Registry
<1>1. ASSUME NEW c \in Channels, NEW r, Issues(c, r)
      PROVE  FiniteUnacked'
  <2>1. unacked' = unacked \/ unacked' = [unacked EXCEPT ![c] = @ \cup {r}]
    BY <1>1 DEF Issues, Tracked
  <2>2. IsFiniteSet(unacked[c] \cup {r})
    BY FS_AddElement DEF FiniteUnacked
  <2> QED
    BY <2>1, <2>2 DEF FiniteUnacked, TypeOK
<1>2. CASE DispatchStep
  <2>1. PICK q \in Queues, t \in Tags, c \in Channels : Deliver(q, t, c)
    BY <1>2, DispatchDelivers DEF Delivers
  <2> QED
    BY <1>1, <2>1, DispatchIssues
<1>3. CASE GetTake
  BY <1>1, <1>3, GetIssues
<1>4. CASE RunMicrotask
  BY <1>4 DEF RunMicrotask, brokerVars, FiniteUnacked
<1>5. CASE ~DispatchStep /\ ~GetTake /\ ~RunMicrotask
  <2>1. \A c \in Channels : unacked'[c] \subseteq unacked[c]
    BY <1>5, WhatDelivers DEF NoDelivery
  <2> QED
    BY <2>1, FS_Subset DEF FiniteUnacked
<1> QED
  BY <1>2, <1>3, <1>4, <1>5

(* A call that settles a client's answers does so before anything else. *)
AnswerKinds == {"ack", "discard", "requeue"}

AnswerOnTop == \A f \in Waiting(call) : f.do \notin AnswerKinds

(* How the steps of a call leave the stack. *)
LEMMA StackAfter ==
  ASSUME TypeOK, RunCall
  PROVE  /\ \/ DropExpired \/ DispatchStep
            \/ DrainEnd \/ SettleStep \/ CancelStep
            \/ CancelEnd
            \/ DispatchEnd \/ GetTake \/ GetEmpty \/ SettleEnd
         /\ call \in Seq(Frame) /\ call # <<>> /\ ~Idle
         /\ FramesOf(call) = {Top} \cup Waiting(call)
         /\ DropExpired \/ DispatchStep => call' = call /\ Top.do \notin SettleKinds
         /\ DispatchEnd \/ GetTake \/ GetEmpty \/ SettleEnd =>
              /\ FramesOf(call') = Waiting(call)
              /\ Waiting(call') \subseteq Waiting(call)
              /\ call' # <<>> => call'[1] \in Waiting(call)
<1>1. call \in Seq(Frame) /\ call # <<>> /\ ~Idle
  BY DEF TypeOK, RunCall, Idle, DropExpired, DrainEnd, DispatchStep, DispatchEnd, GetTake,
         GetEmpty, SettleStep, SettleEnd, CancelStep, CancelEnd
<1>2. FramesOf(call) = {Top} \cup Waiting(call)
  BY <1>1, TopAndWaiting DEF Top
<1>3. DropExpired \/ DispatchStep => call' = call /\ Top.do \notin SettleKinds
  BY DEF DropExpired, DispatchStep, SettleKinds
<1>4. ASSUME DispatchEnd \/ GetTake \/ GetEmpty \/ SettleEnd
      PROVE  /\ FramesOf(call') = Waiting(call)
             /\ Waiting(call') \subseteq Waiting(call)
             /\ call' # <<>> => call'[1] \in Waiting(call)
  <2>1. call' = Tail(call)
    BY <1>4 DEF DispatchEnd, GetTake, GetEmpty, SettleEnd, Pop
  <2>2. FramesOf(call') = Waiting(call) /\ Waiting(call') \subseteq Waiting(call)
    BY <1>1, <2>1, TopAndWaiting
  <2>3. call' \in Seq(Frame)
    BY <1>1, <2>1, HeadTailProperties
  <2>4. call' # <<>> => call'[1] \in FramesOf(call')
    BY <2>3, TopAndWaiting
  <2> QED
    BY <2>2, <2>4
<1> QED
  BY <1>1, <1>2, <1>3, <1>4 DEF RunCall

(* What a call of a client begins with: a frame on top, dispatches below. *)
LEMMA CallBegins ==
  ASSUME Registry, NEW c \in Channels, ClientNext(c)
  PROVE  /\ Idle /\ call' \in Seq(Frame)
         /\ \A f \in Waiting(call') : f.do = "drain"
         /\ call' # <<>> => \/ call'[1].do \in {"drain", "get"}
                            \/ Close(c) /\ call'[1].do = "cancel"
                            \/ AnswerNext(c) /\ call'[1].do \in AnswerKinds
                            \/ Recover(c)
<1> USE DEF Registry
<1>1. call' \in Seq(Frame)
  BY ClientNextKeepsRegistry DEF TypeOK
<1>2. \A q \in Queues : Drain(ConnOf[c], q) \in Frame /\ Drain(ConnOf[c], q).do = "drain"
  BY FramesOK DEF Drain
<1>3. ASSUME NEW f \in Frame, call' = <<f>>
      PROVE  call'[1] = f /\ Waiting(call') = {}
  BY <1>3, SmallCalls
<1>4. ASSUME NEW f \in Frame, NEW o \in Seq(Frame), call' = <<f>> \o o,
             \A g \in FramesOf(o) : g.do = "drain"
      PROVE  call'[1] = f /\ \A g \in Waiting(call') : g.do = "drain"
  <2>1. /\ <<f>> \o o \in Seq(Frame) /\ <<f>> \o o # <<>> /\ Tail(<<f>> \o o) = o
        /\ (<<f>> \o o)[1] = f
    BY Prepended, SMTT(30)
  <2>2. FramesOf(Tail(call')) = Waiting(call')
    BY <1>4, <2>1, TopAndWaiting
  <2> QED
    BY <1>4, <2>1, <2>2
<1>5. Waiting(<<>>) = {} /\ FramesOf(<<>>) = {} /\ <<>> \in Seq(Frame)
  BY SmallCalls, EmptySeq
<1>6. CASE \E q \in Queues : Publish(c, q)
  <2>1. PICK q \in Queues : Idle /\ call' = <<Drain(ConnOf[c], q)>>
    BY <1>6 DEF Publish, Calls
  <2> QED
    BY <1>1, <1>2, <1>3, <2>1
<1>7. CASE \E q \in Queues, t \in Tags, o \in ConsumeOptions : Consume(c, q, t, o)
  <2>1. PICK q \in Queues : Idle /\ call' = <<Drain(ConnOf[c], q)>>
    BY <1>7 DEF Consume, Calls
  <2> QED
    BY <1>1, <1>2, <1>3, <2>1
<1>8. CASE \E t \in Tags : Cancel(c, t)
  <2>1. PICK t \in Tags : /\ Idle /\ Registered(t)
                          /\ call' = <<>> \/ call' = <<Drain(ConnOf[c], byTag[t].queue)>>
    BY <1>8 DEF Cancel, Calls
  <2>2. byTag[t].queue \in Queues
    BY <2>1 DEF Registered, TypeOK, Entry
  <2> QED
    BY <1>1, <1>2, <1>3, <1>5, <2>1, <2>2
<1>9. CASE \E q \in Queues, noAck \in BOOLEAN : Get(c, q, noAck)
  <2>1. PICK q \in Queues, noAck \in BOOLEAN : Get(c, q, noAck)
    BY <1>9
  <2>2. PICK f : f = [do |-> "get", queue |-> q, channel |-> c, noAck |-> noAck]
    OBVIOUS
  <2>3. f \in Frame /\ f.do = "get"
    BY <2>2 DEF Frame
  <2>4. Idle /\ call' = <<f>>
    BY <2>1, <2>2 DEF Get, Calls
  <2> QED
    BY <1>1, <1>3, <2>3, <2>4
<1>10. CASE AnswerNext(c)
  <2>1. CASE \E d \in held[c], multiple \in BOOLEAN :
               Ack(c, d, multiple) \/ \E requeue \in BOOLEAN : Nack(c, d, multiple, requeue)
    <3>1. PICK d \in held[c], multiple \in BOOLEAN, how \in AnswerKinds :
            Answer(c, d, multiple, how)
      BY <2>1 DEF Ack, Nack, AnswerKinds
    <3>2. PICK g : g = Settle(how, c, Covered(c, d, multiple))
      OBVIOUS
    <3>3. g \in Frame /\ g.do \in AnswerKinds
      <4>1. Covered(c, d, multiple) \in SUBSET Nat
        BY TagsOK DEF Covered
      <4> QED
        BY <3>1, <3>2, <4>1, FramesOK DEF Settle, SettleKinds, AnswerKinds
    <3>4. Idle /\ (call' = <<>> \/ call' = <<g>>)
      BY <3>1, <3>2 DEF Answer, Calls
    <3> QED
      BY <1>1, <1>3, <1>5, <1>10, <3>3, <3>4
  <2>2. CASE AckAll(c) \/ \E requeue \in BOOLEAN : NackAll(c, requeue)
    <3>1. PICK how \in AnswerKinds : SettleAll(c, how, <<>>)
      BY <2>2 DEF AckAll, NackAll, AnswerKinds
    <3>2. PICK g : g = Settle(how, c, TagsOf(c))
      OBVIOUS
    <3>3. g \in Frame /\ g.do \in AnswerKinds
      BY <3>1, <3>2, TagsOK, FramesOK DEF Settle, SettleKinds, AnswerKinds
    <3>4. Idle /\ call' = <<g>> \o <<>>
      BY <3>1, <3>2 DEF SettleAll, Calls
    <3> QED
      BY <1>1, <1>4, <1>5, <1>10, <3>3, <3>4
  <2> QED
    BY <1>10, <2>1, <2>2 DEF AnswerNext
<1>11. CASE Recover(c)
  <2>1. PICK all \in DispatchOrders(ConnOf[c], Queues) : SettleAll(c, "return", all)
    BY <1>11 DEF Recover
  <2>2. all \in Seq(Frame) /\ \A f \in FramesOf(all) : f.do = "drain"
    BY FramesOK, DispatchesDrain
  <2>3. PICK g : g = Settle("return", c, TagsOf(c))
    OBVIOUS
  <2>4. g \in Frame
    BY <2>3, TagsOK, FramesOK DEF SettleKinds
  <2>5. Idle /\ call' = <<g>> \o all
    BY <2>1, <2>3 DEF SettleAll, Calls
  <2> QED
    BY <1>1, <1>4, <1>11, <2>2, <2>4, <2>5
<1>12. CASE \E count \in PrefetchCounts, global \in BOOLEAN : Prefetch(c, count, global)
  <2>1. Idle /\ call' = <<>>
    BY <1>12 DEF Prefetch, Calls, Idle
  <2> QED
    BY <1>1, <1>5, <2>1
<1>13. CASE \E active \in BOOLEAN : Flow(c, active)
  <2>1. PICK all \in DispatchOrders(ConnOf[c], Queues) : Idle /\ (call' = all \/ call' = <<>>)
    BY <1>13 DEF Flow, Calls
  <2>2. \A f \in FramesOf(call') : f.do = "drain"
    BY <1>5, <2>1, FramesOK, DispatchesDrain
  <2>3. call' # <<>> => FramesOf(call') = {call'[1]} \cup Waiting(call')
    BY <1>1, TopAndWaiting
  <2> QED
    BY <1>1, <1>5, <2>1, <2>2, <2>3
<1>14. CASE Close(c)
  <2>1. PICK f : f = [do |-> "cancel", channel |-> c, queues |-> {}]
    OBVIOUS
  <2>2. f \in Frame /\ f.do = "cancel"
    BY <2>1 DEF Frame
  <2>3. Idle /\ call' = <<f>>
    BY <1>14, <2>1 DEF Close, Calls
  <2> QED
    BY <1>1, <1>3, <1>14, <2>2, <2>3
<1> QED
  BY <1>6, <1>7, <1>8, <1>9, <1>10, <1>11, <1>12, <1>13, <1>14 DEF ClientNext

LEMMA AnswerOnTopStep == Registry /\ AnswerOnTop /\ [Next]_vars => AnswerOnTop'
<1> SUFFICES ASSUME Registry, AnswerOnTop, [Next]_vars
             PROVE  AnswerOnTop'
  OBVIOUS
<1> USE DEF Registry
<1>1. CASE RunCall
  <2>1. CASE DropExpired \/ DispatchStep
    BY <1>1, <2>1, StackAfter DEF AnswerOnTop
  <2>2. CASE DrainEnd \/ CancelStep
    BY <2>2, DrainEndFrames, CancelStepFrames DEF AnswerOnTop
  <2>3. CASE SettleStep
    <3>1. PICK u : SettlesOne(u)
      BY <2>3, SettleStepFrames
    <3> QED
      BY <3>1 DEF SettlesOne, AnswerOnTop, AnswerKinds
  <2>4. CASE CancelEnd
    <3>1. \A f \in FramesOf(call') : f.do = "return" \/ f \in Waiting(call) \/ f.do = "drain"
      BY <2>4, CancelEndFrames DEF Settle
    <3>2. Waiting(call') \subseteq FramesOf(call')
      <4>1. call' \in Seq(Frame)
        BY <2>4, CancelEndFrames
      <4>2. CASE call' = <<>>
        BY <4>2, SmallCalls
      <4>3. CASE call' # <<>>
        BY <4>1, <4>3, TopAndWaiting
      <4> QED
        BY <4>2, <4>3
    <3> QED
      BY <3>1, <3>2 DEF AnswerOnTop, AnswerKinds
  <2>5. CASE DispatchEnd \/ GetTake \/ GetEmpty \/ SettleEnd
    BY <1>1, <2>5, StackAfter DEF AnswerOnTop
  <2> QED
    BY <1>1, <2>1, <2>2, <2>3, <2>4, <2>5, StackAfter
<1>2. CASE \E c \in Channels : ClientNext(c)
  BY <1>2, CallBegins DEF AnswerOnTop, AnswerKinds
<1>3. CASE \/ RunMicrotask \/ \E conn \in Connections : CloseConnection(conn)
           \/ \E id \in Perishable : Expire(id) 
           \/ UNCHANGED vars
  BY <1>3 DEF RunMicrotask, CloseConnection, Expire, vars, AnswerOnTop
<1> QED
  BY <1>1, <1>2, <1>3 DEF Next

(* Nobody registers: consumers stay with their channel or go. *)
NoneRegisters ==
  /\ \A x \in Tags : byTag'[x] # NoConsumer =>
       byTag[x] # NoConsumer /\ byTag'[x].channel = byTag[x].channel
  /\ used' = used

LEMMA WhoRegisters ==
  ASSUME Registry, TagsIssued, ClosedInv, [Next]_vars
  PROVE  NoneRegisters
           \/ \E c \in Channels, q \in Queues, t \in Tags, o \in ConsumeOptions : Consume(c, q, t, o)
<1> USE DEF Registry
<1>1. CASE RunCall
  <2>1. KeepsClosed
    BY <1>1, RunCallKeepsClosed, CancelEndKeepsClosed
  <2>2. used' = used
    BY <1>1 DEF RunCall, DropExpired, DrainEnd, DispatchStep, DispatchEnd, GetTake,
                GetEmpty, SettleStep, SettleEnd, CancelStep, CancelEnd, historyVars
  <2> QED
    BY <2>1, <2>2 DEF KeepsClosed, NoneRegisters
<1>2. CASE \E c \in Channels : ClientNext(c)
  <2>1. PICK c \in Channels : ClientNext(c)
    BY <1>2
  <2>2. CASE \E t \in Tags : Cancel(c, t)
    <3>1. PICK t \in Tags : Cancel(c, t)
      BY <2>2
    <3>2. byTag' = [byTag EXCEPT ![t] = NoConsumer] /\ used' = used
      BY <3>1 DEF Cancel, Unregister, historyVars
    <3> QED
      BY <3>2 DEF NoneRegisters, TypeOK
  <2>3. CASE \E d \in held[c], multiple \in BOOLEAN, how \in SettleKinds :
               Answer(c, d, multiple, how)
    <3>1. PICK d \in held[c], multiple \in BOOLEAN, how \in SettleKinds :
            Answer(c, d, multiple, how)
      BY <2>3
    <3>2. d.consumer \in Tags \cup {NoConsumer}
      BY DEF TypeOK, Delivered
    <3>3. used' = used /\ byTag' = Decremented(d.consumer)
      BY <3>1 DEF Answer, historyVars
    <3>4. CASE d.consumer # NoConsumer /\ Registered(d.consumer)
      <4>1. d.consumer \in Tags /\ byTag[d.consumer] \in Entry
        BY <3>2, <3>4 DEF Registered, TypeOK
      <4>2. [byTag[d.consumer] EXCEPT !.unackedCount = @ - 1].channel = byTag[d.consumer].channel
        BY <4>1 DEF Entry
      <4>3. \/ byTag' = [byTag EXCEPT ![d.consumer].unackedCount = @ - 1]
            \/ byTag' = byTag
        BY <3>3 DEF Decremented
      <4> QED
        BY <3>3, <3>4, <4>1, <4>2, <4>3 DEF TypeOK, Registered, NoneRegisters
    <3>5. CASE ~(d.consumer # NoConsumer /\ Registered(d.consumer))
      BY <3>3, <3>5 DEF Decremented, NoneRegisters
    <3> QED
      BY <3>4, <3>5
  <2>4. AnswerNext(c) =>
          \/ \E d \in held[c], multiple \in BOOLEAN, how \in SettleKinds :
               Answer(c, d, multiple, how)
          \/ UNCHANGED <<byTag, used>>
    BY DEF AnswerNext, Ack, Nack, AckAll, NackAll, SettleAll, SettleKinds, brokerVars, historyVars
  <2>5. UNCHANGED <<byTag, used>> => NoneRegisters
    BY DEF NoneRegisters
  <2>6. CASE \/ \E q \in Queues : Publish(c, q)
             \/ \E q \in Queues, noAck \in BOOLEAN : Get(c, q, noAck)
             \/ Recover(c)
             \/ \E count \in PrefetchCounts, global \in BOOLEAN : Prefetch(c, count, global)
             \/ \E active \in BOOLEAN : Flow(c, active)
             \/ Close(c)
    <3>1. UNCHANGED <<byTag, used>>
      BY <2>6 DEF Publish, Get, Recover, SettleAll, Prefetch, Flow, Close, brokerVars, historyVars
    <3> QED
      BY <2>5, <3>1
  <2> QED
    BY <2>1, <2>2, <2>3, <2>4, <2>5, <2>6 DEF ClientNext
<1>3. CASE \/ RunMicrotask \/ \E conn \in Connections : CloseConnection(conn)
           \/ \E id \in Perishable : Expire(id)
           \/ UNCHANGED vars
  BY <1>3 DEF RunMicrotask, CloseConnection, Expire, vars, brokerVars, historyVars, NoneRegisters
<1> QED
  BY <1>1, <1>2, <1>3 DEF Next

(* Every consumer that appears anywhere was registered once. *)
UsedTags ==
  /\ \A t \in Tags : Registered(t) => t \in used
  /\ \A c \in Channels : \A u \in unacked[c] : u.consumer \in used \cup {NoConsumer}
  /\ \A c \in Channels : \A d \in held[c] : d.consumer \in used \cup {NoConsumer}
  /\ \A i \in 1 .. Len(microtasks) :
       microtasks[i].message.consumer \in used \cup {NoConsumer}

(* Where the outstanding deliveries of the next state come from. *)
LEMMA NewlyOutstanding ==
  ASSUME NumbersDiffer, Registry, [Next]_vars
  PROVE  \A c \in Channels : \A u \in unacked'[c] :
           \/ u \in unacked[c]
           \/ /\ u.consumer \in Tags /\ Registered(u.consumer)
              /\ byTag[u.consumer].channel = c /\ byTag[u.consumer].queue = u.queue
              /\ DispatchStep
           \/ u.consumer = NoConsumer
<1> USE DEF Registry
<1>1. CASE DispatchStep
  <2>1. PICK q \in Queues, t \in Tags, c \in Channels, x \in Task :
           /\ q = Top.queue /\ store[q] # <<>> /\ Delivers(q, t, c)
           /\ byTag[t].channel = c
           /\ x.channel = c /\ x.noAck = byTag[t].noAck /\ x.message.tag = NextTag(c)
           /\ x.message.consumer = t /\ x.message.id = Head(store[q]).id
           /\ Schedules(x)
    BY <1>1, DispatchSchedules, Zenon
  <2>2. PICK r : r = Delivery(c, q, t)
    OBVIOUS
  <2>3. unacked' = unacked \/ Tracked(c, r)
    BY <2>1, <2>2, DispatchIssues DEF Delivers, Issues
  <2>4. r.consumer = t /\ r.queue = byTag[t].queue /\ Registered(t)
    BY <2>1, <2>2, EntryAssumption DEF Delivery, Delivers, Registered
  <2> QED
    BY <1>1, <2>1, <2>3, <2>4, TrackedIds
<1>2. CASE GetTake
  <2>1. PICK c \in Channels : c = Top.channel
    BY <1>2, GetIssues
  <2>2. PICK r : (unacked' = unacked \/ Tracked(c, r)) /\ r.consumer = NoConsumer
    BY <1>2, <2>1, GetIssues DEF Issues, Delivery
  <2> QED
    BY <2>1, <2>2, TrackedIds
<1>3. CASE RunMicrotask
  BY <1>3 DEF RunMicrotask, brokerVars
<1>4. CASE ~DispatchStep /\ ~GetTake /\ ~RunMicrotask
  BY <1>4, WhatDelivers DEF NoDelivery
<1> QED
  BY <1>1, <1>2, <1>3, <1>4

(* And what the clients are given. *)
LEMMA NewlyKnown ==
  ASSUME NumbersDiffer, Registry, [Next]_vars
  PROVE  /\ \A c \in Channels : \A d \in held'[c] :
              \/ d \in held[c]
              \/ d.consumer = NoConsumer
              \/ \E i \in 1 .. Len(microtasks) : d = microtasks[i].message
         /\ \A i \in 1 .. Len(microtasks') :
              \/ \E j \in 1 .. Len(microtasks) : microtasks'[i] = microtasks[j]
              \/ LET t == microtasks'[i].message.consumer IN t \in Tags /\ Registered(t)
<1> USE DEF Registry
<1>1. CASE DispatchStep
  <2>1. PICK q \in Queues, t \in Tags, c \in Channels, x \in Task :
           /\ q = Top.queue /\ store[q] # <<>> /\ Delivers(q, t, c)
           /\ byTag[t].channel = c
           /\ x.channel = c /\ x.noAck = byTag[t].noAck /\ x.message.tag = NextTag(c)
           /\ x.message.consumer = t /\ x.message.id = Head(store[q]).id
           /\ Schedules(x)
    BY <1>1, DispatchSchedules, Zenon
  <2>2. Registered(t)
    BY <2>1, EntryAssumption DEF Delivers, Registered
  <2> QED
    BY <2>1, <2>2 DEF Schedules
<1>2. CASE GetTake
  BY <1>2, GetHands
<1>3. CASE RunMicrotask
  BY <1>3, MicrotaskHands
<1>4. CASE ~DispatchStep /\ ~GetTake /\ ~RunMicrotask
  BY <1>4, WhatDelivers DEF NoDelivery
<1> QED
  BY <1>1, <1>2, <1>3, <1>4

LEMMA UsedTagsStep ==
  ASSUME NumbersDiffer, Registry, TagsIssued, ClosedInv, UsedTags, [Next]_vars
  PROVE  UsedTags' /\ used \subseteq used'
<1> USE DEF Registry
<1>1. used \subseteq used' /\ \A t \in Tags : byTag'[t] # NoConsumer => t \in used'
  <2>1. CASE NoneRegisters
    BY <2>1 DEF NoneRegisters, UsedTags, Registered
  <2>2. CASE \E c \in Channels, q \in Queues, t \in Tags, o \in ConsumeOptions : Consume(c, q, t, o)
    <3>1. PICK c \in Channels, q \in Queues, t \in Tags, o \in ConsumeOptions : Consume(c, q, t, o)
      BY <2>2
    <3>2. used' = used \cup {t} /\ \A x \in Tags : x # t => byTag'[x] = byTag[x]
      BY <3>1 DEF Consume, TypeOK
    <3> QED
      BY <3>2 DEF UsedTags, Registered
  <2> QED
    BY <2>1, <2>2, WhoRegisters
<1>2. \A c \in Channels : \A u \in unacked'[c] : u.consumer \in used' \cup {NoConsumer}
  BY <1>1, NewlyOutstanding DEF UsedTags
<1>3. \A i \in 1 .. Len(microtasks') : microtasks'[i].message.consumer \in used' \cup {NoConsumer}
  BY <1>1, NewlyKnown DEF UsedTags
<1>4. \A c \in Channels : \A d \in held'[c] : d.consumer \in used' \cup {NoConsumer}
  BY <1>1, NewlyKnown DEF UsedTags
<1> QED
  BY <1>1, <1>2, <1>3, <1>4 DEF UsedTags, Registered

(* A registered consumer has all its deliveries on its own channel. *)
OwnChannel ==
  \A c \in Channels : \A u \in unacked[c] :
    u.consumer \in Tags /\ Registered(u.consumer) => byTag[u.consumer].channel = c

LEMMA OwnChannelStep ==
  ASSUME AnswerEachOnce, Registry, TagsIssued, ClosedInv, UsedTags, OwnChannel, [Next]_vars
  PROVE  OwnChannel'
<1> USE DEF Registry
<1> SUFFICES ASSUME NEW c \in Channels, NEW u \in unacked'[c], u.consumer \in Tags,
                    byTag'[u.consumer] # NoConsumer
             PROVE  byTag'[u.consumer].channel = c
  BY DEF OwnChannel, Registered
<1>1. \/ u \in unacked[c]
      \/ Registered(u.consumer) /\ byTag[u.consumer].channel = c /\ DispatchStep
  BY NewlyOutstanding, DeliveryAssumption DEF AnswerEachOnce
<1>2. CASE NoneRegisters
  BY <1>1, <1>2 DEF NoneRegisters, OwnChannel, Registered
<1>3. CASE \E d \in Channels, q \in Queues, t \in Tags, o \in ConsumeOptions : Consume(d, q, t, o)
  <2>1. PICK d \in Channels, q \in Queues, t \in Tags, o \in ConsumeOptions : Consume(d, q, t, o)
    BY <1>3
  <2>2. t \notin used /\ unacked' = unacked /\ \A x \in Tags : x # t => byTag'[x] = byTag[x]
    BY <2>1 DEF Consume, TypeOK, AnswerEachOnce
  <2>3. u.consumer # t
    BY <2>2, DeliveryAssumption DEF UsedTags
  <2> QED
    BY <2>2, <2>3 DEF OwnChannel, Registered
<1> QED
  BY <1>2, <1>3, WhoRegisters DEF AnswerEachOnce

(* Only deliveries of cancelled consumers, or of none, are returned. *)
ReturnsUnconsumed ==
  \A f \in FramesOf(call) : f.do = "return" => NoConsumerOn(f.channel)

LEMMA ReturnsUnconsumedStep ==
  ASSUME AnswerEachOnce, Registry, TagsIssued, ClosedInv, ReturnsUnconsumed, [Next]_vars
  PROVE  ReturnsUnconsumed'
<1> USE DEF Registry
<1>1. CASE RunCall
  <2>1. \A c : NoConsumerOn(c) => NoConsumerOn(c)'
    <3>1. KeepsClosed
      BY <1>1, RunCallKeepsClosed, CancelEndKeepsClosed
    <3> QED
      BY <3>1 DEF KeepsClosed, NoConsumerOn, Registered
  <2>2. \A f \in FramesOf(call') : f.do = "return" =>
          \/ \E g \in FramesOf(call) : g.do = "return" /\ g.channel = f.channel
          \/ NoConsumerOn(f.channel)
    <3>1. /\ call' = call \/ FramesOf(call') = Waiting(call) 
             \/ DrainEnd \/ SettleStep \/ CancelStep \/ CancelEnd
          /\ FramesOf(call) = {Top} \cup Waiting(call)
      BY <1>1, StackAfter
    <3>2. CASE DrainEnd
      <4>1. /\ call' # <<>> /\ call'[1].do = "dispatch"
            /\ Waiting(call') = Waiting(call) /\ call' \in Seq(Frame)
        BY <3>2, DrainEndFrames
      <4>2. FramesOf(call') = {call'[1]} \cup Waiting(call)
        BY <4>1, TopAndWaiting
      <4> QED
        BY <3>1, <4>1, <4>2
    <3>3. CASE CancelStep
      <4>1. /\ call' # <<>> /\ call'[1].do = "cancel"
            /\ Waiting(call') = Waiting(call) /\ call' \in Seq(Frame)
        BY <3>3, CancelStepFrames
      <4>2. FramesOf(call') = {call'[1]} \cup Waiting(call)
        BY <4>1, TopAndWaiting
      <4> QED
        BY <3>1, <4>1, <4>2
    <3>4. CASE SettleStep
      <4>1. PICK u : SettlesOne(u)
        BY <3>4, SettleStepFrames
      <4>2. FramesOf(call') = {call'[1]} \cup Waiting(call')
        BY <4>1, TopAndWaiting DEF SettlesOne
      <4>3. /\ call'[1].do = Top.do /\ call'[1].channel = Top.channel
            /\ \A f \in Waiting(call') : f \in Waiting(call) \/ f.do = "drain"
        BY <4>1 DEF SettlesOne
      <4> QED
        BY <3>1, <4>2, <4>3
    <3>5. CASE CancelEnd
      <4>1. PICK c \in Channels : c = Top.channel
        BY <3>5, CancelEndFrames
      <4>2. /\ OnNumber(c) = {}
            /\ \A f \in FramesOf(call') :
                 f = Settle("return", c, TagsOf(c)) \/ f \in Waiting(call) \/ f.do = "drain"
        BY <3>5, <4>1, CancelEndFrames
      <4>3. NoConsumerOn(c)
        BY <4>2 DEF NoConsumerOn, OnNumber, Registered
      <4>4. Settle("return", c, TagsOf(c)).channel = c
        BY DEF Settle
      <4> QED
        BY <3>1, <4>2, <4>3, <4>4
    <3> QED
      BY <3>1, <3>2, <3>3, <3>4, <3>5
  <2> QED
    BY <2>1, <2>2 DEF ReturnsUnconsumed
<1>2. CASE \E c \in Channels : ClientNext(c)
  <2>1. PICK c \in Channels : ClientNext(c)
    BY <1>2
  <2>2. /\ call' \in Seq(Frame) /\ \A f \in Waiting(call') : f.do # "return"
        /\ call' # <<>> => call'[1].do # "return"
    <3>1. ~Recover(c)
      BY DEF AnswerEachOnce, Recover
    <3> QED
      BY <2>1, <3>1, CallBegins DEF AnswerKinds
  <2>3. \A f \in FramesOf(call') : f.do # "return"
    <3>1. CASE call' = <<>>
      BY <3>1, SmallCalls
    <3>2. CASE call' # <<>>
      BY <2>2, <3>2, TopAndWaiting
    <3> QED
      BY <3>1, <3>2
  <2> QED
    BY <2>3 DEF ReturnsUnconsumed
<1>3. CASE \/ RunMicrotask \/ \E conn \in Connections : CloseConnection(conn)
           \/ \E id \in Perishable : Expire(id)
           \/ UNCHANGED vars
  <2>1. UNCHANGED <<call, byTag>>
    BY <1>3 DEF RunMicrotask, CloseConnection, Expire, vars, brokerVars
  <2> QED
    BY <2>1 DEF ReturnsUnconsumed, NoConsumerOn, Registered
<1> QED
  BY <1>1, <1>2, <1>3 DEF Next

(* What clients hold and what they are about to get have different tags. *)
TagsDiffer ==
  \A i \in 1 .. Len(microtasks) :
    /\ \A d \in held[microtasks[i].channel] : d.tag # microtasks[i].message.tag
    /\ \A j \in 1 .. Len(microtasks) :
         /\ microtasks[j].channel = microtasks[i].channel
         /\ microtasks[j].message.tag = microtasks[i].message.tag
         => i = j

LEMMA TagsDifferStep ==
  ASSUME NumbersDiffer, Registry, ClientsKnow, TagsDiffer, [Next]_vars
  PROVE  TagsDiffer'
<1> USE DEF Registry
<1>1. /\ \A c \in Channels : \A d \in held[c] :
           d.tag \in Nat /\ d.tag < NextTag(c)
      /\ \A i \in 1 .. Len(microtasks) :
           /\ microtasks[i].channel \in Channels /\ microtasks[i].message.tag \in Nat
           /\ microtasks[i].message.tag < NextTag(microtasks[i].channel)
      /\ Len(microtasks) \in Nat
  BY Numbers DEF ClientsKnow, Known, NextTag
<1>2. CASE DispatchStep
  <2>1. PICK q \in Queues, t \in Tags, c \in Channels, x \in Task :
           /\ q = Top.queue /\ store[q] # <<>> /\ Delivers(q, t, c)
           /\ byTag[t].channel = c
           /\ x.channel = c /\ x.noAck = byTag[t].noAck /\ x.message.tag = NextTag(c)
           /\ x.message.consumer = t /\ x.message.id = Head(store[q]).id
           /\ Schedules(x)
    BY <1>2, DispatchSchedules, Zenon
  <2>2. NextTag(c) \in Nat
    BY Numbers DEF NextTag
  <2>3. ASSUME NEW i \in 1 .. Len(microtasks'), NEW d \in held'[microtasks'[i].channel]
        PROVE  d.tag # microtasks'[i].message.tag
    BY <1>1, <2>1, <2>2 DEF Schedules, TagsDiffer
  <2>4. ASSUME NEW i \in 1 .. Len(microtasks'), NEW j \in 1 .. Len(microtasks'),
               microtasks'[j].channel = microtasks'[i].channel,
               microtasks'[j].message.tag = microtasks'[i].message.tag
        PROVE  i = j
    BY <1>1, <2>1, <2>2, <2>4, SMTT(30) DEF Schedules, TagsDiffer
  <2> QED
    BY <2>3, <2>4 DEF TagsDiffer
<1>3. CASE GetTake
  <2>1. PICK d : /\ d.tag = NextTag(Top.channel) /\ d.consumer = NoConsumer
                 /\ d.id = Head(store[Top.queue]).id
                 /\ \A e \in Channels : \A k \in held'[e] :
                      k \in held[e] \/ (e = Top.channel /\ k = d)
                 /\ microtasks' = microtasks
    BY <1>3, GetHands, Zenon
  <2>2. \A i \in 1 .. Len(microtasks) : \A k \in held'[microtasks[i].channel] :
          k.tag # microtasks[i].message.tag
    BY <1>1, <2>1 DEF TagsDiffer
  <2> QED
    BY <2>1, <2>2 DEF TagsDiffer
<1>4. CASE RunMicrotask
  <2>1. /\ 1 \in 1 .. Len(microtasks)
        /\ \A i \in 1 .. Len(microtasks') :
             /\ i + 1 \in 1 .. Len(microtasks) /\ i + 1 # 1
             /\ microtasks'[i] = microtasks[i + 1]
        /\ \A e \in Channels : \A k \in held'[e] :
             \/ k \in held[e]
             \/ e = microtasks[1].channel /\ k = microtasks[1].message
    BY <1>4, MicrotaskHands
  <2>2. ASSUME NEW i \in 1 .. Len(microtasks'), NEW d \in held'[microtasks'[i].channel]
        PROVE  d.tag # microtasks'[i].message.tag
    <3>1. PICK k \in 1 .. Len(microtasks) : k # 1 /\ microtasks'[i] = microtasks[k]
      BY <2>1
    <3>2. \/ d \in held[microtasks[k].channel]
          \/ microtasks[k].channel = microtasks[1].channel /\ d = microtasks[1].message
      BY <1>1, <2>1, <3>1
    <3> QED
      BY <2>1, <3>1, <3>2, SMTT(30) DEF TagsDiffer
  <2>3. ASSUME NEW i \in 1 .. Len(microtasks'), NEW j \in 1 .. Len(microtasks'),
               microtasks'[j].channel = microtasks'[i].channel,
               microtasks'[j].message.tag = microtasks'[i].message.tag
        PROVE  i = j
    <3>1. /\ i + 1 \in 1 .. Len(microtasks) /\ j + 1 \in 1 .. Len(microtasks)
          /\ microtasks[j + 1].channel = microtasks[i + 1].channel
          /\ microtasks[j + 1].message.tag = microtasks[i + 1].message.tag
      BY <2>1, <2>3
    <3>2. i + 1 = j + 1
      BY <1>1, <3>1 DEF TagsDiffer
    <3> QED
      BY <3>2
  <2> QED
    BY <2>2, <2>3 DEF TagsDiffer
<1>5. CASE ~DispatchStep /\ ~GetTake /\ ~RunMicrotask
  <2>1. microtasks' = microtasks /\ \A c \in Channels : held'[c] \subseteq held[c]
    BY <1>5, WhatDelivers DEF NoDelivery
  <2> QED
    BY <1>1, <2>1 DEF TagsDiffer
<1> QED
  BY <1>2, <1>3, <1>4, <1>5

(* Deliveries that the client of channel c has to answer, or soon will have. *)
InHands(c) ==
  held[c] \cup {microtasks[i].message : i \in
     {j \in 1 .. Len(microtasks) : microtasks[j].channel = c /\ ~microtasks[j].noAck}}

LEMMA HandsStep ==
  ASSUME AnswerEachOnce, Registry, [Next]_vars, ~DispatchStep
  PROVE  \A c \in Channels : \A d \in InHands(c)' : d \in InHands(c) \/ d.consumer = NoConsumer
<1> USE DEF Registry
<1>1. CASE GetTake
  BY <1>1, GetHands DEF InHands
<1>2. CASE RunMicrotask
  BY <1>2, MicrotaskHands DEF InHands, AnswerEachOnce
<1>3. CASE ~GetTake /\ ~RunMicrotask
  <2>1. microtasks' = microtasks /\ \A c \in Channels : held'[c] \subseteq held[c]
    BY <1>3, WhatDelivers DEF NoDelivery
  <2> QED
    BY <2>1 DEF InHands
<1> QED
  BY <1>1, <1>2, <1>3

(* The tags that the answer in progress is settling on channel c. *)
Answering(c) ==
  IF ~Idle /\ Top.do \in AnswerKinds /\ Top.channel = c THEN Top.tags ELSE {}

Quiet == Idle \/ Top.do \notin AnswerKinds \/ Top.tags = {}

LEMMA QuietAnswersNothing == Quiet => \A c : Answering(c) = {}
  BY DEF Quiet, Answering

LEMMA AnsweringKept ==
  ASSUME AnswerEachOnce, Registry, AnswerOnTop, [Next]_vars, ~SettleStep,
         \A c \in Channels : ~AnswerNext(c)
  PROVE  /\ \A c \in Channels : Answering(c)' = Answering(c)
         /\ DispatchStep \/ GetTake => \A c \in Channels : Answering(c) = {}
<1> USE DEF Registry
<1>1. call' = call => \A c \in Channels : Answering(c)' = Answering(c)
  BY DEF Answering, Idle, Top
<1>2. Quiet /\ Quiet' => \A c \in Channels : Answering(c)' = Answering(c)
  <2>1. Quiet => \A c : Answering(c) = {}
    BY QuietAnswersNothing
  <2>2. Quiet' => \A c : Answering(c)' = {}
    BY DEF Quiet, Answering
  <2> QED
    BY <2>1, <2>2
<1>3. call' = <<>> \/ call'[1].do \notin AnswerKinds => Quiet'
  BY DEF Quiet, Idle, Top
<1>4. CASE RunCall
  <2>1. CASE DropExpired \/ DispatchStep
    <3>1. call' = call /\ Top.do \notin SettleKinds /\ ~GetTake
      BY <1>4, <2>1, StackAfter DEF GetTake, DropExpired, DispatchStep
    <3> QED
      BY <1>1, <3>1 DEF Answering, SettleKinds, AnswerKinds
  <2>2. CASE DrainEnd \/ CancelStep
    <3>1. Quiet /\ ~DispatchStep /\ ~GetTake
      BY <2>2 DEF Quiet, DrainEnd, CancelStep, AnswerKinds, DispatchStep, GetTake
    <3>2. call'[1].do \notin AnswerKinds
      BY <2>2, DrainEndFrames, CancelStepFrames DEF AnswerKinds
    <3> QED
      BY <1>2, <1>3, <3>1, <3>2
  <2>3. CASE CancelEnd
    <3>1. Quiet /\ ~DispatchStep /\ ~GetTake
      BY <2>3 DEF Quiet, CancelEnd, AnswerKinds, DispatchStep, GetTake
    <3>2. /\ call' \in Seq(Frame)
          /\ \A f \in FramesOf(call') : f.do = "return" \/ f \in Waiting(call) \/ f.do = "drain"
      BY <2>3, CancelEndFrames DEF Settle
    <3>3. call' # <<>> => call'[1] \in FramesOf(call')
      BY <3>2, TopAndWaiting
    <3>4. call' = <<>> \/ call'[1].do \notin AnswerKinds
      BY <3>2, <3>3 DEF AnswerOnTop, AnswerKinds
    <3> QED
      BY <1>2, <1>3, <3>1, <3>4
  <2>4. CASE ~DispatchStep /\ (DispatchEnd \/ GetTake \/ GetEmpty \/ SettleEnd)
    <3>1. Quiet
      BY <2>4 DEF Quiet, DispatchEnd, GetTake, GetEmpty, SettleEnd, AnswerKinds
    <3>2. call' # <<>> => call'[1] \in Waiting(call)
      BY <1>4, <2>4, StackAfter
    <3>3. Quiet'
      BY <1>3, <3>2 DEF AnswerOnTop
    <3> QED
      BY <1>2, <3>1, <3>3, QuietAnswersNothing
  <2> QED
    BY <1>4, <2>1, <2>2, <2>3, <2>4, StackAfter
<1>5. CASE \E c \in Channels : ClientNext(c)
  <2>1. PICK c \in Channels : ClientNext(c)
    BY <1>5
  <2>2. ~Recover(c)
    BY DEF AnswerEachOnce, Recover
  <2>3. Idle /\ (call' # <<>> => call'[1].do \in {"drain", "get", "cancel"})
    BY <2>1, <2>2, CallBegins
  <2>4. Quiet /\ Quiet' /\ ~DispatchStep /\ ~GetTake
    BY <1>3, <2>3 DEF Quiet, AnswerKinds, DispatchStep, GetTake
  <2> QED
    BY <1>2, <2>4
<1>6. CASE \/ RunMicrotask \/ \E conn \in Connections : CloseConnection(conn)
           \/ \E id \in Perishable : Expire(id) 
  <2>1. call' = call /\ Idle
    BY <1>6 DEF RunMicrotask, CloseConnection, Expire
  <2> QED
    BY <1>1, <2>1 DEF DispatchStep, GetTake
<1>7. CASE UNCHANGED vars /\ ~RunCall
  BY <1>1, <1>7 DEF vars, RunCall
<1> QED
  BY <1>4, <1>5, <1>6, <1>7 DEF Next

(* Outstanding on channel c, and not being answered. *)
Owed(c) == {u \in unacked[c] : u.tag \notin Answering(c)}

OwedTo(t) == {u \in Owed(byTag[t].channel) : u.consumer = t}

(* A consumer's counter counts what it owes an answer for, and whatever its
   client holds, or soon will hold, is such a delivery. *)
Accounted(t) ==
  Registered(t) =>
    /\ byTag[t].unackedCount = Cardinality(OwedTo(t))
    /\ \A c \in Channels : \A d \in InHands(c) :
         d.consumer = t => \E u \in Owed(c) : u.tag = d.tag /\ u.consumer = t

CountInv == \A t \in Tags : Accounted(t)

(* A step that leaves the registration of consumer t, the deliveries it owes an
   answer for, and what clients hold of it. *)
LeavesAlone(t) ==
  /\ byTag'[t] = byTag[t]
  /\ \A c \in Channels : \A u : u.consumer = t => (u \in Owed(c)' <=> u \in Owed(c))
  /\ \A c \in Channels : \A d \in InHands(c)' : d.consumer = t => d \in InHands(c)

LEMMA AccountKept ==
  ASSUME Registry, NEW t \in Tags, Accounted(t), byTag'[t] # NoConsumer => LeavesAlone(t)
  PROVE  Accounted(t)'
<1> USE DEF Registry
<1> SUFFICES ASSUME byTag'[t] # NoConsumer PROVE Accounted(t)'
  BY DEF Accounted, Registered
<1>1. LeavesAlone(t) /\ Registered(t) /\ byTag'[t] = byTag[t]
  BY DEF LeavesAlone, Registered
<1>2. byTag[t].channel \in Channels
  BY <1>1 DEF Registered, TypeOK, Entry
<1>3. OwedTo(t)' = OwedTo(t)
  <2>1. OwedTo(t)' = {u \in Owed(byTag[t].channel)' : u.consumer = t}
    BY <1>1 DEF OwedTo
  <2> QED
    BY <1>1, <1>2, <2>1 DEF OwedTo, LeavesAlone
<1>4. \A c \in Channels : \A d \in InHands(c)' :
        d.consumer = t => \E u \in Owed(c)' : u.tag = d.tag /\ u.consumer = t
  BY <1>1 DEF LeavesAlone, Accounted
<1> QED
  BY <1>1, <1>3, <1>4 DEF Accounted, Registered

(* The steps that make no delivery, settle none and register nobody. *)
LEMMA OthersLeaveAlone ==
  ASSUME Registry, AnswerEachOnce, AnswerOnTop, [Next]_vars,
         ~DispatchStep, ~GetTake, ~SettleStep,
         \A c \in Channels : ~AnswerNext(c),
         ~\E c \in Channels, q \in Queues, t \in Tags, o \in ConsumeOptions : Consume(c, q, t, o)
  PROVE  \A t \in Tags : byTag'[t] # NoConsumer => LeavesAlone(t)
<1> USE DEF Registry
<1>1. unacked' = unacked /\ \A t \in Tags : byTag'[t] # NoConsumer => byTag'[t] = byTag[t]
  <2>1. CASE RunCall
    <3>1. CASE CancelStep
      <4>1. PICK t \in Tags : byTag' = [byTag EXCEPT ![t] = NoConsumer]
        BY <3>1 DEF CancelStep, OnNumber, Unregister
      <4> QED
        BY <3>1, <4>1 DEF CancelStep, TypeOK
    <3>2. CASE ~CancelStep
      BY <2>1, <3>2 DEF RunCall, DropExpired, DrainEnd, DispatchEnd, GetEmpty, SettleEnd,
                        CancelEnd, brokerVars
    <3> QED
      BY <3>1, <3>2
  <2>2. CASE \E c \in Channels : ClientNext(c)
    <3>1. PICK c \in Channels : ClientNext(c)
      BY <2>2
    <3>2. CASE \E t \in Tags : Cancel(c, t)
      <4>1. PICK t \in Tags : Cancel(c, t)
        BY <3>2
      <4>2. byTag' = [byTag EXCEPT ![t] = NoConsumer] /\ unacked' = unacked
        BY <4>1 DEF Cancel, Unregister
      <4> QED
        BY <4>2 DEF TypeOK
    <3>3. CASE ~\E t \in Tags : Cancel(c, t)
      BY <3>1, <3>3 DEF ClientNext, Publish, Get, Recover, SettleAll, Prefetch, Flow, Close, brokerVars
    <3> QED
      BY <3>2, <3>3
  <2>3. CASE \/ RunMicrotask \/ \E conn \in Connections : CloseConnection(conn)
             \/ \E id \in Perishable : Expire(id)
             \/ UNCHANGED vars
    BY <2>3 DEF RunMicrotask, CloseConnection, Expire, vars, brokerVars
  <2> QED
    BY <2>1, <2>2, <2>3 DEF Next
<1>2. \A c \in Channels : Owed(c)' = Owed(c)
  BY <1>1, AnsweringKept DEF Owed
<1>3. \A c \in Channels : \A d \in InHands(c)' : d \in InHands(c) \/ d.consumer = NoConsumer
  BY HandsStep
<1> QED
  BY <1>1, <1>2, <1>3, DeliveryAssumption DEF LeavesAlone

(* basic.get: a delivery of no consumer. *)
LEMMA GetLeavesAlone ==
  ASSUME Registry, AnswerEachOnce, AnswerOnTop, [Next]_vars, GetTake, ~DispatchStep
  PROVE  \A t \in Tags : LeavesAlone(t)
<1> USE DEF Registry
<1>1. byTag' = byTag /\ ~SettleStep /\ \A c \in Channels : ~AnswerNext(c)
  <2>1. byTag' = byTag /\ ~Idle /\ Top.do = "get"
    BY DEF GetTake
  <2>2. \A c \in Channels : ~ClientNext(c)
    BY <2>1, CallBegins
  <2> QED
    BY <2>1, <2>2 DEF SettleStep, SettleKinds, ClientNext
<1>2. \A c \in Channels : Answering(c)' = {} /\ Answering(c) = {}
  BY <1>1, AnsweringKept
<1>7. PICK c \in Channels : c = Top.channel
  BY GetIssues
<1>3. PICK r : (unacked' = unacked \/ Tracked(c, r)) /\ r.consumer = NoConsumer
  BY <1>7, GetIssues DEF Issues, Delivery
<1>4. \A e \in Channels : \A u : u \in unacked'[e] <=> u \in unacked[e] \/ (unacked' # unacked /\ e = c /\ u = r)
  BY <1>3 DEF Tracked, TypeOK
<1>5. \A e \in Channels : \A u : u.consumer # NoConsumer => (u \in Owed(e)' <=> u \in Owed(e))
  BY <1>2, <1>3, <1>4 DEF Owed
<1>6. \A e \in Channels : \A d \in InHands(e)' : d \in InHands(e) \/ d.consumer = NoConsumer
  BY HandsStep
<1> QED
  BY <1>1, <1>5, <1>6, DeliveryAssumption DEF LeavesAlone

(* One iteration of a settle loop: an answer, which the counter has already seen
   and whose delivery is not owed any more, or the return of what was delivered
   to consumers that are gone. *)
LEMMA SettleLeavesAlone ==
  ASSUME Registry, AnswerEachOnce, TagsIssued, OwnChannel, ReturnsUnconsumed, [Next]_vars, SettleStep
  PROVE  \A t \in Tags : byTag'[t] # NoConsumer => LeavesAlone(t)
<1> USE DEF Registry
<1>1. byTag' = byTag /\ ~DispatchStep
  BY DEF SettleStep, DispatchStep, SettleKinds
<1>2. PICK c \in Channels : c = Top.channel
  BY SettleStepFrames
<1>3. PICK u : SettlesOne(u)
  BY SettleStepFrames
<1>4. /\ u \in unacked[c] /\ u.tag \in Top.tags
      /\ \A e \in Channels : \A v : v \in unacked'[e] <=> v \in unacked[e] /\ ~(e = c /\ v = u)
  BY <1>2, <1>3 DEF SettlesOne, Removed, TypeOK
<1>5. /\ ~Idle /\ call' # <<>>
      /\ call'[1].do = Top.do /\ call'[1].channel = c /\ call'[1].tags = Top.tags \ {u.tag}
  BY <1>2, <1>3 DEF SettlesOne, SettleStep
<1>6. ASSUME NEW e \in Channels, NEW v, v.consumer \in Tags, Registered(v.consumer)
      PROVE  v \in Owed(e)' <=> v \in Owed(e)
  <2>1. CASE Top.do \in AnswerKinds
    <3>1. /\ \A k \in Channels : Answering(k) = IF k = c THEN Top.tags ELSE {}
          /\ \A k \in Channels : Answering(k)' = IF k = c THEN Top.tags \ {u.tag} ELSE {}
      BY <1>2, <1>5, <2>1 DEF Answering, Idle, Top
    <3>2. \A w \in unacked[c] : w.tag = u.tag => w = u
      BY <1>4 DEF TagsIssued
    <3> QED
      BY <1>4, <3>1, <3>2 DEF Owed
  <2>2. CASE Top.do \notin AnswerKinds
    <3>1. \A k \in Channels : Answering(k) = {} /\ Answering(k)' = {}
      BY <1>5, <2>2 DEF Answering, Idle, Top
    <3>2. NoConsumerOn(c)
      <4>1. Top.do = "return" /\ Top \in FramesOf(call)
        BY <2>2, StackAfter DEF SettleStep, SettleKinds, AnswerKinds, RunCall
      <4> QED
        BY <1>2, <4>1 DEF ReturnsUnconsumed
    <3>3. v \in unacked[c] => v # u
      BY <1>4, <1>6, <3>2 DEF OwnChannel, NoConsumerOn
    <3> QED
      BY <1>4, <3>1, <3>3 DEF Owed
  <2> QED
    BY <2>1, <2>2
<1>7. \A e \in Channels : \A d \in InHands(e)' : d \in InHands(e) \/ d.consumer = NoConsumer
  BY <1>1, HandsStep
<1> QED
  BY <1>1, <1>6, <1>7, DeliveryAssumption DEF LeavesAlone, Registered

(* A dispatch: the consumer served owes one delivery more. *)
LEMMA DispatchAccounted ==
  ASSUME Registry, AnswerEachOnce, TagsIssued, FiniteUnacked, AnswerOnTop, CountInv,
         [Next]_vars, DispatchStep
  PROVE  CountInv'
<1> USE DEF Registry
<1>1. PICK q \in Queues, t \in Tags, c \in Channels, x \in Task :
        /\ q = Top.queue /\ store[q] # <<>> /\ Delivers(q, t, c)
        /\ byTag[t].channel = c
        /\ x.channel = c /\ x.noAck = byTag[t].noAck /\ x.message.tag = NextTag(c)
        /\ x.message.consumer = t /\ x.message.id = Head(store[q]).id
        /\ Schedules(x)
  BY DispatchSchedules, Zenon DEF AnswerEachOnce
<1>2. PICK r : r = Delivery(c, q, t)
  OBVIOUS
<1>3. /\ Issues(c, r) /\ r.tag = NextTag(c) /\ r.consumer = t
      /\ byTag[t].noAck => unacked' = unacked /\ byTag' = byTag
      /\ ~byTag[t].noAck => /\ Tracked(c, r)
                            /\ byTag' = [byTag EXCEPT ![t].unackedCount = @ + 1]
  BY <1>1, <1>2, DispatchIssues DEF Delivers, Delivery
<1>4. byTag[t] \in Entry /\ Registered(t)
  BY <1>1, EntryAssumption DEF Delivers, Registered
<1>5. \A e \in Channels : Answering(e)' = {} /\ Answering(e) = {}
  <2>1. ~SettleStep /\ \A e \in Channels : ~AnswerNext(e)
    <3>1. ~Idle /\ Top.do = "dispatch"
      BY DEF DispatchStep
    <3>2. \A e \in Channels : ~ClientNext(e)
      BY <3>1, CallBegins
    <3> QED
      BY <3>1, <3>2 DEF SettleStep, SettleKinds, ClientNext
  <2> QED
    BY <2>1, AnsweringKept
<1>6. \A e \in Channels : Owed(e) = unacked[e] /\ Owed(e)' = unacked'[e]
  BY <1>5 DEF Owed
<1>7. \A e \in Channels : \A d \in InHands(e)' :
        d \in InHands(e) \/ (e = c /\ d = x.message /\ ~byTag[t].noAck)
  BY <1>1 DEF InHands, Schedules
<1>8. CASE byTag[t].noAck
  <2>1. \A y \in Tags : LeavesAlone(y)
    BY <1>3, <1>6, <1>7, <1>8 DEF LeavesAlone
  <2> QED
    BY <2>1, AccountKept DEF CountInv
<1>9. CASE ~byTag[t].noAck
  <2>1. \A e \in Channels : \A u : u \in unacked'[e] <=> u \in unacked[e] \/ (e = c /\ u = r)
    BY <1>3, <1>9 DEF Tracked, TypeOK
  <2>2. ASSUME NEW y \in Tags, y # t
        PROVE  Accounted(y)'
    <3>1. byTag'[y] = byTag[y]
      BY <1>3, <1>9, <2>2 DEF TypeOK
    <3>2. LeavesAlone(y)
      BY <1>1, <1>3, <1>6, <1>7, <2>1, <2>2, <3>1 DEF LeavesAlone
    <3> QED
      BY <3>2, AccountKept DEF CountInv
  <2>3. /\ byTag'[t].unackedCount = byTag[t].unackedCount + 1
        /\ byTag'[t].channel = c
    <3>1. [byTag[t] EXCEPT !.unackedCount = @ + 1].unackedCount = byTag[t].unackedCount + 1
      BY <1>4 DEF Entry
    <3>2. [byTag[t] EXCEPT !.unackedCount = @ + 1].channel = byTag[t].channel
      BY <1>4 DEF Entry
    <3>3. byTag'[t] = [byTag[t] EXCEPT !.unackedCount = @ + 1]
      BY <1>3, <1>9 DEF TypeOK
    <3> QED
      BY <1>1, <3>1, <3>2, <3>3
  <2>4. OwedTo(t) = {u \in unacked[c] : u.consumer = t}
    BY <1>1, <1>6 DEF OwedTo
  <2>5. OwedTo(t)' = {u \in unacked'[c] : u.consumer = t}
    BY <1>6, <2>3 DEF OwedTo
  <2>6. OwedTo(t)' = OwedTo(t) \cup {r} /\ r \notin OwedTo(t)
    <3>1. r \notin unacked[c]
      BY <1>3, Numbers DEF TagsIssued, NextTag
    <3> QED
      BY <1>3, <2>1, <2>4, <2>5, <3>1
  <2>7. IsFiniteSet(OwedTo(t))
    BY <2>4, FS_Subset DEF FiniteUnacked
  <2>8. Cardinality(OwedTo(t)') = Cardinality(OwedTo(t)) + 1
    BY <2>6, <2>7, FS_AddElement
  <2>9. byTag'[t].unackedCount = Cardinality(OwedTo(t)')
    BY <1>4, <2>3, <2>8 DEF CountInv, Accounted
  <2>10. ASSUME NEW e \in Channels, NEW d \in InHands(e)', d.consumer = t
         PROVE  \E u \in Owed(e)' : u.tag = d.tag /\ u.consumer = t
    <3>1. CASE d \in InHands(e)
      BY <1>4, <1>6, <2>1, <2>10, <3>1 DEF CountInv, Accounted
    <3>2. CASE e = c /\ d = x.message
      <4>1. r \in unacked'[c]
        BY <2>1
      <4> QED
        BY <1>1, <1>3, <1>6, <3>2, <4>1
    <3> QED
      BY <1>7, <2>10, <3>1, <3>2
  <2>11. Accounted(t)'
    BY <2>9, <2>10 DEF Accounted, Registered
  <2> QED
    BY <2>2, <2>11 DEF CountInv
<1> QED
  BY <1>8, <1>9

(* basic.consume: a new tag is owed nothing. *)
LEMMA ConsumeAccounted ==
  ASSUME Registry, AnswerEachOnce, AnswerOnTop, UsedTags, CountInv, [Next]_vars, 
         NEW e \in Channels, NEW q \in Queues, NEW t \in Tags, NEW o \in ConsumeOptions,
         Consume(e, q, t, o)
  PROVE  CountInv'
<1> USE DEF Registry
<1>1. t \notin used /\ Idle /\ UNCHANGED <<unacked, held, microtasks>>
  BY DEF Consume, AnswerEachOnce, Calls, clientVars
<1>2. PICK n : n = [queue |-> q, channel |-> e, noAck |-> o.noAck, exclusive |-> o.exclusive,
                    priority |-> o.priority, unackedCount |-> 0]
  OBVIOUS
<1>3. byTag' = [byTag EXCEPT ![t] = n] /\ n.channel = e /\ n.unackedCount = 0
  BY <1>2 DEF Consume
<1>4. byTag'[t] = n /\ \A x \in Tags : x # t => byTag'[x] = byTag[x]
  BY <1>3 DEF TypeOK
<1>5. \A c \in Channels : Answering(c) = {} /\ Answering(c)' = {}
  <2>1. call' = <<Drain(ConnOf[e], q)>>
    BY DEF Consume
  <2>2. call'[1].do = "drain"
    BY <2>1 DEF Drain
  <2> QED
    BY <1>1, <2>2 DEF Answering, AnswerKinds, Top
<1>6. \A c \in Channels : Owed(c) = unacked[c] /\ Owed(c)' = unacked[c] /\ InHands(c)' = InHands(c)
  BY <1>1, <1>5 DEF Owed, InHands
<1>7. ASSUME NEW x \in Tags, x # t
      PROVE  Accounted(x)'
  <2>1. LeavesAlone(x)
    BY <1>4, <1>6, <1>7 DEF LeavesAlone
  <2> QED
    BY <2>1, AccountKept DEF CountInv
<1>8. Accounted(t)'
  <2>1. \A c \in Channels : \A u \in unacked[c] : u.consumer # t
    BY <1>1, DeliveryAssumption DEF UsedTags
  <2>2. \A c \in Channels : \A d \in InHands(c) : d.consumer # t
    BY <1>1, DeliveryAssumption DEF UsedTags, InHands
  <2>3. OwedTo(t)' = {u \in Owed(e)' : u.consumer = t}
    BY <1>3, <1>4 DEF OwedTo
  <2>4. OwedTo(t)' = {}
    BY <1>6, <2>1, <2>3
  <2>5. Cardinality(OwedTo(t)') = 0
    BY <2>4, FS_EmptySet
  <2> QED
    BY <1>3, <1>4, <1>6, <2>2, <2>5 DEF Accounted
<1> QED
  BY <1>7, <1>8 DEF CountInv

(* An answer: the delivery it names is the one its consumer owes least. *)
LEMMA AnswerAccounted ==
  ASSUME Registry, AnswerEachOnce, TagsIssued, ClientsKnow, TagsDiffer, OwnChannel, FiniteUnacked,
         CountInv, NEW c \in Channels, NEW d \in held[c], NEW how \in AnswerKinds,
         Answer(c, d, FALSE, how)
  PROVE  CountInv'
<1> USE DEF Registry
<1> DEFINE t == d.consumer
           T == Covered(c, d, FALSE)
<1>1. /\ Idle /\ UNCHANGED <<unacked, microtasks>>
      /\ byTag' = Decremented(t)
      /\ held' = [held EXCEPT ![c] = {e \in @ : e.tag # d.tag}]
      /\ call' = IF T = {} THEN <<>> ELSE <<Settle(how, c, T)>>
  BY DEF Answer, Calls, Answered, AnswerEachOnce
<1>2. T = {n \in TagsOf(c) : n = d.tag}
  BY DEF Covered
<1>3. d \in InHands(c) /\ t \in Tags \cup {NoConsumer}
  BY DEF InHands, TypeOK, Delivered
<1>4. /\ \A e \in Channels : Answering(e) = {}
      /\ \A e \in Channels : Answering(e)' = IF e = c THEN T ELSE {}
  <2>1. \A e \in Channels : Answering(e) = {}
    BY <1>1 DEF Answering
  <2>2. CASE T = {}
    <3>1. call' = <<>>
      BY <1>1, <2>2
    <3> QED
      BY <2>1, <2>2, <3>1 DEF Answering, Idle
  <2>3. CASE T # {}
    <3>1. PICK f : f = Settle(how, c, T)
      OBVIOUS
    <3>2. f.do = how /\ f.channel = c /\ f.tags = T
      BY <3>1 DEF Settle
    <3> HIDE DEF T
    <3>3. call' = <<f>>
      BY <1>1, <2>3, <3>1
    <3>4. call' # <<>> /\ call'[1] = f
      BY <3>3
    <3> QED
      BY <2>1, <3>2, <3>4 DEF Answering, Idle, Top
  <2> QED
    BY <2>2, <2>3
<1> HIDE DEF T, t
<1>5. /\ \A e \in Channels : Owed(e) = unacked[e]
      /\ \A e \in Channels : \A u : u \in Owed(e)' <=> u \in unacked[e] /\ ~(e = c /\ u.tag = d.tag)
  BY <1>1, <1>2, <1>4 DEF Owed, TagsOf
<1>6. \A e \in Channels : \A k \in InHands(e)' : k \in InHands(e) /\ (e = c => k.tag # d.tag)
  <2>1. \A e \in Channels : held'[e] \subseteq held[e] /\ (e = c => \A k \in held'[e] : k.tag # d.tag)
    BY <1>1 DEF TypeOK
  <2>2. \A i \in 1 .. Len(microtasks) : microtasks[i].channel = c => microtasks[i].message.tag # d.tag
    BY DEF TagsDiffer
  <2> QED
    BY <1>1, <2>1, <2>2 DEF InHands
<1>7. \A u \in unacked[c] : u.tag = d.tag => u.consumer = t
  BY DEF ClientsKnow, Known, t
<1>8. ASSUME NEW x \in Tags, x # t \/ ~Registered(x)
      PROVE  Accounted(x)'
  <2>1. byTag'[x] = byTag[x]
    BY <1>1, <1>8 DEF Decremented, TypeOK
  <2>2. CASE Registered(x)
    <3>1. LeavesAlone(x)
      BY <1>5, <1>6, <1>7, <1>8, <2>1, <2>2 DEF LeavesAlone
    <3> QED
      BY <3>1, AccountKept DEF CountInv
  <2>3. CASE ~Registered(x)
    BY <2>1, <2>3 DEF Accounted, Registered
  <2> QED
    BY <2>2, <2>3
<1>9. ASSUME t \in Tags, Registered(t)
      PROVE  Accounted(t)'
  <2>1. byTag[t] \in Entry /\ t # NoConsumer
    BY <1>9, DeliveryAssumption DEF Registered, TypeOK
  <2>2. PICK u \in unacked[c] : u.tag = d.tag /\ u.consumer = t
    BY <1>3, <1>5, <1>9 DEF CountInv, Accounted, t
  <2>3. byTag[t].channel = c
    BY <1>9, <2>2 DEF OwnChannel
  <2>4. OwedTo(t) = {v \in unacked[c] : v.consumer = t}
    BY <1>5, <2>3 DEF OwedTo
  <2>5. IsFiniteSet(OwedTo(t)) /\ u \in OwedTo(t)
    BY <2>2, <2>4, FS_Subset DEF FiniteUnacked
  <2>6. /\ Cardinality(OwedTo(t) \ {u}) = Cardinality(OwedTo(t)) - 1
        /\ Cardinality(OwedTo(t)) \in Nat /\ Cardinality(OwedTo(t)) # 0
    BY <2>5, FS_RemoveElement, FS_CardinalityType, FS_EmptySet
  <2>7. byTag[t].unackedCount = Cardinality(OwedTo(t))
    BY <1>9 DEF CountInv, Accounted
  <2>8. byTag'[t] = [byTag[t] EXCEPT !.unackedCount = @ - 1]
    BY <1>1, <1>9, <2>1, <2>6, <2>7 DEF Decremented, TypeOK
  <2>9. byTag'[t].unackedCount = byTag[t].unackedCount - 1 /\ byTag'[t].channel = c
    <3>1. /\ [byTag[t] EXCEPT !.unackedCount = @ - 1].unackedCount = byTag[t].unackedCount - 1
          /\ [byTag[t] EXCEPT !.unackedCount = @ - 1].channel = byTag[t].channel
      BY <2>1 DEF Entry
    <3> QED
      BY <2>3, <2>8, <3>1
  <2>10. OwedTo(t)' = OwedTo(t) \ {u}
    <3>1. OwedTo(t)' = {v \in Owed(c)' : v.consumer = t}
      <4>1. t' = t
        BY DEF t
      <4> QED
        BY <2>9, <4>1 DEF OwedTo
    <3>2. \A v \in unacked[c] : v.tag = d.tag <=> v = u
      BY <2>2 DEF TagsIssued
    <3> QED
      BY <1>5, <2>4, <3>1, <3>2
  <2>11. ASSUME NEW e \in Channels, NEW k \in InHands(e)', k.consumer = t
         PROVE  \E v \in Owed(e)' : v.tag = k.tag /\ v.consumer = t
    <3>1. PICK v \in unacked[e] : v.tag = k.tag /\ v.consumer = t
      BY <1>5, <1>6, <1>9, <2>11 DEF CountInv, Accounted
    <3> QED
      BY <1>5, <1>6, <2>11, <3>1
  <2> QED
    BY <2>6, <2>7, <2>9, <2>10, <2>11 DEF Accounted
<1> QED
  BY <1>8, <1>9 DEF CountInv

Settlement ==
  /\ TagsIssued /\ ClientsKnow /\ TagsDiffer
  /\ ClosedInv /\ FiniteUnacked /\ AnswerOnTop
  /\ UsedTags /\ OwnChannel /\ ReturnsUnconsumed
  /\ CountInv

LEMMA CountStep ==
  ASSUME AnswerEachOnce, Registry, Settlement, [Next]_vars
  PROVE  CountInv'
<1> USE DEF Registry, Settlement
<1>1. CASE DispatchStep
  BY <1>1, DispatchAccounted
<1>2. CASE GetTake /\ ~DispatchStep
  BY <1>2, GetLeavesAlone, AccountKept DEF CountInv
<1>3. CASE SettleStep
  BY <1>3, SettleLeavesAlone, AccountKept DEF CountInv
<1>4. CASE \E c \in Channels, q \in Queues, t \in Tags, o \in ConsumeOptions : Consume(c, q, t, o)
  BY <1>4, ConsumeAccounted
<1>5. CASE \E c \in Channels : AnswerNext(c)
  <2>1. PICK c \in Channels : AnswerNext(c)
    BY <1>5
  <2>2. PICK d \in held[c], how \in AnswerKinds : Answer(c, d, FALSE, how)
    BY <2>1 DEF AnswerNext, AckAll, NackAll, Ack, Nack, Answer, AnswerKinds, AnswerEachOnce
  <2> QED
    BY <2>2, AnswerAccounted
<1>6. CASE /\ ~DispatchStep /\ ~GetTake /\ ~SettleStep
           /\ \A c \in Channels : ~AnswerNext(c)
           /\ ~\E c \in Channels, q \in Queues, t \in Tags, o \in ConsumeOptions : Consume(c, q, t, o)
  BY <1>6, OthersLeaveAlone, AccountKept DEF CountInv
<1> QED
  BY <1>1, <1>2, <1>3, <1>4, <1>5, <1>6

LEMMA SettlementInit == Init => Settlement
<1> SUFFICES ASSUME Init PROVE Settlement
  OBVIOUS
<1>1. /\ call = <<>> /\ FramesOf(call) = {} /\ Waiting(call) = {}
      /\ \A c \in Channels : channel[c].open /\ unacked[c] = {} /\ held[c] = {}
      /\ \A t \in Tags : ~Registered(t)
  BY SmallCalls DEF Init, Registered
<1>2. Len(microtasks) = 0
  BY EmptySeq DEF Init
<1>3. TagsIssued /\ ClientsKnow /\ TagsDiffer
  BY <1>2, NothingIssued DEF TagsDiffer
<1>4. ClosedInv /\ FiniteUnacked /\ AnswerOnTop
  BY <1>1, FS_EmptySet DEF ClosedInv, FiniteUnacked, AnswerOnTop
<1>5. UsedTags /\ OwnChannel /\ ReturnsUnconsumed
  BY <1>1, <1>2 DEF UsedTags, OwnChannel, ReturnsUnconsumed
<1>6. CountInv
  BY <1>1 DEF CountInv, Accounted
<1> QED
  BY <1>3, <1>4, <1>5, <1>6 DEF Settlement

LEMMA SettlementStep ==
  ASSUME AnswerEachOnce
  PROVE  Registry /\ Settlement /\ [Next]_vars => Settlement'
<1> SUFFICES ASSUME Registry, Settlement, [Next]_vars
             PROVE  Settlement'
  OBVIOUS
<1>1. NumbersDiffer
  BY DEF AnswerEachOnce
<1>2. TagsIssued' /\ ClientsKnow' /\ TagsDiffer'
  BY <1>1, TagsIssuedStep, ClientsKnowStep, TagsDifferStep DEF Settlement
<1>3. ClosedInv' /\ FiniteUnacked' /\ AnswerOnTop'
  BY ClosedStep, FiniteStep, AnswerOnTopStep DEF Settlement
<1>4. UsedTags' /\ OwnChannel' /\ ReturnsUnconsumed'
  BY <1>1, UsedTagsStep, OwnChannelStep, ReturnsUnconsumedStep DEF Settlement
<1>5. CountInv'
  BY CountStep
<1> QED
  BY <1>2, <1>3, <1>4, <1>5 DEF Settlement

(* A registered consumer's outstanding deliveries are on its channel. *)
LEMMA CountedOutstanding ==
  ASSUME Registry, Settlement, NEW t \in Tags, Registered(t),
         \A c \in Channels : Answering(c) = {}
  PROVE  byTag[t].unackedCount = Cardinality(OutstandingOf(t))
<1> USE DEF Registry, Settlement
<1>1. byTag[t].channel \in Channels
  BY DEF Registered, TypeOK, Entry
<1>2. OwedTo(t) = {u \in unacked[byTag[t].channel] : u.consumer = t}
  BY <1>1 DEF OwedTo, Owed
<1>3. \A u : u \in OutstandingOf(t) <=> \E c \in Channels : u \in unacked[c] /\ u.consumer = t
  BY DEF OutstandingOf
<1>4. OutstandingOf(t) = OwedTo(t)
  BY <1>1, <1>2, <1>3 DEF OwnChannel
<1> QED
  BY <1>4 DEF CountInv, Accounted

(* For clients that answer each delivery once and one at a time, the counter of
   every consumer is, between any two calls, the number of its deliveries that
   are unacknowledged: dispatch counts them up, ack, nack and reject count them
   down before they look for the delivery, and closing channels, cancels and
   gets leave the counters of everybody else alone. *)
THEOREM CountersAreTrue == ASSUME AnswerEachOnce PROVE Spec => []CountsOutstanding
<1>1. Registry /\ Settlement => CountsOutstanding
  <2> SUFFICES ASSUME Registry, Settlement, Idle, NEW t \in Tags, Registered(t)
               PROVE  byTag[t].unackedCount = Cardinality(OutstandingOf(t))
    BY DEF CountsOutstanding
  <2>1. \A c \in Channels : Answering(c) = {}
    BY DEF Answering
  <2> QED
    BY <2>1, CountedOutstanding
<1> QED
  BY <1>1, RegistryInit, RegistryStep, SettlementInit, SettlementStep, PTL DEF Spec

LEMMA DispatchHasRoom ==
  ASSUME AnswerEachOnce, Registry, Settlement, [Next]_vars,
         NEW c \in Channels, NEW u \in unacked'[c] \ unacked[c], u.consumer # NoConsumer
  PROVE  /\ Room(channel[c].consumerPrefetch, OutstandingOf(u.consumer))
         /\ Room(channel[c].channelPrefetch, unacked[c])
<1> USE DEF Registry
<1>1. DispatchStep
  BY NewlyOutstanding DEF AnswerEachOnce
<1>2. PICK q \in Queues, t \in Tags, e \in Channels, x \in Task :
        /\ q = Top.queue /\ store[q] # <<>> /\ Delivers(q, t, e)
        /\ byTag[t].channel = e
        /\ x.channel = e /\ x.noAck = byTag[t].noAck /\ x.message.tag = NextTag(e)
        /\ x.message.consumer = t /\ x.message.id = Head(store[q]).id
        /\ Schedules(x)
  BY <1>1, DispatchSchedules, Zenon DEF AnswerEachOnce
<1>3. PICK r : r = Delivery(e, q, t)
  OBVIOUS
<1>4. ~byTag[t].noAck /\ Tracked(e, r) /\ r.consumer = t
  BY <1>2, <1>3, DispatchIssues DEF Delivers, Delivery
<1>5. c = e /\ u.consumer = t
  BY <1>4 DEF Tracked, TypeOK
<1>6. /\ Below(channel[c].consumerPrefetch, byTag[t].unackedCount)
      /\ Below(channel[c].channelPrefetch, Cardinality(unacked[c]))
  BY <1>2, <1>4, <1>5 DEF Delivers, EligibleOn
<1>7. Registered(t)
  BY <1>2, EntryAssumption DEF Delivers, Registered
<1>8. \A k \in Channels : Answering(k) = {}
  <2>1. Top.do = "dispatch"
    BY <1>1 DEF DispatchStep
  <2> QED
    BY <2>1 DEF Answering, AnswerKinds
<1>9. byTag[t].unackedCount = Cardinality(OutstandingOf(t))
  BY <1>7, <1>8, CountedOutstanding
<1> QED
  BY <1>5, <1>6, <1>9 DEF Below, Room

(* For those clients no delivery takes a consumer past the prefetch limit of its
   channel, or the channel past the limit it shares, however dispatches, late
   callbacks, answers and closing channels interleave: what the dispatcher
   compares with the limit is what is really outstanding. *)
THEOREM PrefetchIsRespected == ASSUME AnswerEachOnce PROVE Spec => PrefetchRespected
<1>1. Registry /\ Settlement /\ [Next]_vars =>
        [\A c \in Channels : \A u \in unacked'[c] \ unacked[c] :
           u.consumer # NoConsumer =>
             /\ Room(channel[c].consumerPrefetch, OutstandingOf(u.consumer))
             /\ Room(channel[c].channelPrefetch, unacked[c])]_vars
  BY DispatchHasRoom
<1> QED
  BY <1>1, RegistryInit, RegistryStep, SettlementInit, SettlementStep, PTL
     DEF Spec, PrefetchRespected

-----------------------------------------------------------------------------
(* Single-active-consumer queues *)

LEMMA ActiveStays ==
  ASSUME Registry, [Next]_vars, NEW q \in SacQueues, byQueue[q] # <<>>,
         byTag'[byQueue[q][1]] # NoConsumer
  PROVE  byQueue'[q][1] = byQueue[q][1]
<1> USE DEF Registry
<1>1. /\ q \in Queues /\ byQueue[q] \in Seq(Tags)
      /\ Len(byQueue[q]) \in Nat /\ Len(byQueue[q]) # 0
      /\ DOMAIN byQueue[q] = 1 .. Len(byQueue[q])
      /\ \A x \in Queues : byQueue[x] \in Seq(Tags) /\ DOMAIN byQueue[x] = 1 .. Len(byQueue[x])
  BY QueueOf, EmptySeq, DeliveryAssumption
<1>2. ASSUME NEW t \in Tags, Registered(t), Unregister(t)
      PROVE  byQueue'[q][1] = byQueue[q][1]
  <2>1. byTag[t].queue \in Queues
    BY <1>2 DEF Registered, TypeOK, Entry
  <2>2. PICK i \in DOMAIN byQueue[byTag[t].queue] :
          /\ byQueue[byTag[t].queue][i] = t
          /\ byQueue' = [byQueue EXCEPT ![byTag[t].queue] = RemoveAt(@, i)]
    BY <1>2 DEF Unregister
  <2>3. CASE byTag[t].queue = q
    <3>1. byTag'[t] = NoConsumer
      BY <1>2 DEF Unregister, TypeOK
    <3>2. i \in 1 .. Len(byQueue[q]) /\ i # 1
      BY <1>1, <2>2, <2>3, <3>1
    <3>3. 1 \in 1 .. Len(byQueue[q]) - 1 /\ 1 < i
      BY <1>1, <3>2
    <3>4. RemoveAt(byQueue[q], i)[1] = byQueue[q][1]
      BY <1>1, <3>2, <3>3, RemovedAt
    <3> QED
      BY <1>1, <2>2, <2>3, <3>4 DEF TypeOK
  <2>4. CASE byTag[t].queue # q
    BY <1>1, <2>1, <2>2, <2>4 DEF TypeOK
  <2> QED
    BY <2>3, <2>4
<1>3. ASSUME NEW c \in Channels, NEW x \in Queues, NEW t \in Tags, NEW o \in ConsumeOptions,
             Consume(c, x, t, o)
      PROVE  byQueue'[q][1] = byQueue[q][1]
  <2>1. byQueue' = [byQueue EXCEPT ![x] = InsertAt(@, InsertPosition(x, o.priority), t)]
    BY <1>3 DEF Consume
  <2>2. CASE x = q
    <3>1. InsertPosition(q, o.priority) = Len(byQueue[q]) + 1
      BY DEF InsertPosition
    <3>2. InsertAt(byQueue[q], Len(byQueue[q]) + 1, t)[1] = byQueue[q][1]
      BY <1>1, InsertedLast
    <3> QED
      BY <1>1, <2>1, <2>2, <3>1, <3>2 DEF TypeOK
  <2>3. CASE x # q
    BY <1>1, <2>1, <2>3 DEF TypeOK
  <2> QED
    BY <2>2, <2>3
<1>4. CASE RunCall
  <2>1. CASE CancelStep
    BY <1>2, <2>1 DEF CancelStep, OnNumber
  <2>2. CASE ~CancelStep
    BY <1>4, <2>2 DEF RunCall, DropExpired, DrainEnd, DispatchStep, DispatchEnd, GetTake,
                      GetEmpty, SettleStep, SettleEnd, CancelEnd, brokerVars
  <2> QED
    BY <2>1, <2>2
<1>5. CASE \E c \in Channels : ClientNext(c)
  <2>1. PICK c \in Channels : ClientNext(c)
    BY <1>5
  <2>2. CASE \E t \in Tags : Cancel(c, t)
    BY <1>2, <2>2 DEF Cancel
  <2>3. CASE \E x \in Queues, t \in Tags, o \in ConsumeOptions : Consume(c, x, t, o)
    BY <1>3, <2>3
  <2>4. CASE AnswerNext(c)
    BY <2>4 DEF AnswerNext, Ack, Nack, Answer, AckAll, NackAll, SettleAll, brokerVars
  <2>5. CASE \/ \E x \in Queues : Publish(c, x)
             \/ \E x \in Queues, noAck \in BOOLEAN : Get(c, x, noAck)
             \/ Recover(c)
             \/ \E count \in PrefetchCounts, global \in BOOLEAN : Prefetch(c, count, global)
             \/ \E active \in BOOLEAN : Flow(c, active)
             \/ Close(c)
    BY <2>5 DEF Publish, Get, Recover, SettleAll, Prefetch, Flow, Close, brokerVars
  <2> QED
    BY <2>1, <2>2, <2>3, <2>4, <2>5 DEF ClientNext
<1>6. CASE \/ RunMicrotask \/ \E conn \in Connections : CloseConnection(conn)
           \/ \E id \in Perishable : Expire(id)
           \/ UNCHANGED vars
  BY <1>6 DEF RunMicrotask, CloseConnection, Expire, vars, brokerVars
<1> QED
  BY <1>4, <1>5, <1>6 DEF Next

LEMMA ActiveServed ==
  ASSUME Registry, [Next]_vars, NEW q \in SacQueues, byQueue[q] # <<>>,
         NEW c \in Channels, NEW u \in unacked'[c] \ unacked[c], u.queue = q
  PROVE  u.consumer \in {byQueue[q][1], NoConsumer}
<1> USE DEF Registry
<1>1. CASE DispatchStep
  <2>1. Top.queue \in Queues /\ store[Top.queue] # <<>>
    BY <1>1, TopOfCall, FrameFields DEF DispatchStep
  <2>2. PICK k \in DOMAIN byQueue[Top.queue] :
          /\ ServedNext(Top.conn, Top.queue, k)
          /\ \E e \in EligibleOn(Top.conn, byQueue[Top.queue][k]) :
               Deliver(Top.queue, byQueue[Top.queue][k], e)
    BY <1>1 DEF DispatchStep, Consumers
  <2>3. PICK t \in Tags : t = byQueue[Top.queue][k]
    BY <2>1, <2>2, ConsumerEntry
  <2>4. PICK e \in Channels : Deliver(Top.queue, t, e)
    BY <2>2, <2>3 DEF EligibleOn, GetChannel
  <2>5. PICK r : r = Delivery(e, Top.queue, t)
    OBVIOUS
  <2>6. (unacked' = unacked \/ Tracked(e, r)) /\ r.queue = Top.queue /\ r.consumer = t
    BY <2>1, <2>4, <2>5, DispatchIssues DEF Issues, Delivery
  <2>7. u = r
    BY <2>6, TrackedIds
  <2>8. k = 1
    BY <2>2, <2>6, <2>7 DEF ServedNext
  <2> QED
    BY <2>3, <2>6, <2>7, <2>8
<1>2. CASE GetTake
  <2>1. PICK e \in Channels : e = Top.channel
    BY <1>2, GetIssues
  <2>2. PICK r : (unacked' = unacked \/ Tracked(e, r)) /\ r.consumer = NoConsumer
    BY <1>2, <2>1, GetIssues DEF Issues, Delivery
  <2> QED
    BY <2>1, <2>2, TrackedIds
<1>3. CASE RunMicrotask
  BY <1>3 DEF RunMicrotask, brokerVars
<1>4. CASE ~DispatchStep /\ ~GetTake /\ ~RunMicrotask
  BY <1>4, WhatDelivers DEF NoDelivery
<1> QED
  BY <1>1, <1>2, <1>3, <1>4

(* A single-active-consumer queue delivers to one consumer for as long as that is
   registered: later consumers queue behind it whatever their priority, removing
   them leaves it in front, and dispatch serves nobody else. *)
THEOREM OneActive == Spec => SingleActive
<1>1. Registry /\ [Next]_vars =>
        [\A q \in SacQueues : byQueue[q] # <<>> =>
           LET active == byQueue[q][1]
           IN  /\ byTag'[active] # NoConsumer => byQueue'[q][1] = active
               /\ \A c \in Channels : \A u \in unacked'[c] \ unacked[c] :
                    u.queue = q => u.consumer \in {active, NoConsumer}]_vars
  BY ActiveStays, ActiveServed
<1> QED
  BY <1>1, RegistryInit, RegistryStep, PTL DEF Spec, SingleActive

-----------------------------------------------------------------------------
(* No queue holds a message back *)

(* Clients that answer each delivery once and by itself, over the channels of one
   connection, and leave these open; that set the limits of a channel before they
   consume on it, and at all only where there is one queue: what an answer frees
   of a limit that consumers of several queues share, it offers to the queue of
   the answered delivery alone. *)
ServedAlone ==
  /\ AnswerEachOnce
  /\ \A c, d \in Channels : ConnOf[c] = ConnOf[d]
  /\ ~May("close") /\ ~May("closeConnection") /\ ~May("prefetchLater")
  /\ May("prefetch") => \A q, r \in Queues : q = r

(* The registration of t, if it outlasts the step, changes in its counter only. *)
Stays(t) ==
  byTag'[t] # NoConsumer =>
    /\ byTag[t] # NoConsumer
    /\ byTag'[t].channel = byTag[t].channel
    /\ byTag'[t].queue = byTag[t].queue
    /\ byTag'[t].noAck = byTag[t].noAck

LEMMA CountedStays ==
  ASSUME TypeOK, NEW x \in Tags, byTag[x] \in Entry, NEW n,
         byTag' = [byTag EXCEPT ![x].unackedCount = n]
  PROVE  \A t \in Tags : Stays(t)
<1>1. byTag[x] # NoConsumer
  BY EntryAssumption
<1> DEFINE e == [byTag[x] EXCEPT !.unackedCount = n]
<1>2. e.channel = byTag[x].channel /\ e.queue = byTag[x].queue /\ e.noAck = byTag[x].noAck
  BY DEF Entry
<1>3. byTag' = [byTag EXCEPT ![x] = e]
  OBVIOUS
<1> HIDE DEF e
<1>4. byTag'[x] = e /\ \A t \in Tags : t # x => byTag'[t] = byTag[t]
  BY <1>3 DEF TypeOK
<1> QED
  BY <1>1, <1>2, <1>4 DEF Stays

LEMMA RegistrationStays ==
  ASSUME Registry, [Next]_vars
  PROVE  \/ \A t \in Tags : Stays(t)
         \/ \E c \in Channels, q \in Queues, t \in Tags, o \in ConsumeOptions : Consume(c, q, t, o)
<1> USE DEF Registry
<1>1. byTag' = byTag => \A t \in Tags : Stays(t)
  BY DEF Stays
<1>2. \A x \in Tags : byTag' = [byTag EXCEPT ![x] = NoConsumer] => \A t \in Tags : Stays(t)
  BY DEF Stays, TypeOK
<1>3. CASE RunCall
  <2>1. CASE DispatchStep
    <3>1. PICK q \in Queues, t \in Tags, c \in Channels : Delivers(q, t, c)
      BY <2>1, DispatchDelivers
    <3>2. Deliver(q, t, c) /\ byTag[t] \in Entry
      BY <3>1 DEF Delivers
    <3>3. byTag' = byTag \/ byTag' = [byTag EXCEPT ![t].unackedCount = byTag[t].unackedCount + 1]
      BY <3>2 DEF Deliver
    <3> QED
      BY <1>1, <3>2, <3>3, CountedStays
  <2>2. CASE CancelStep
    <3>1. PICK t \in Tags : byTag' = [byTag EXCEPT ![t] = NoConsumer]
      BY <2>2 DEF CancelStep, OnNumber, Unregister
    <3> QED
      BY <1>2, <3>1
  <2>3. CASE ~DispatchStep /\ ~CancelStep
    <3>1. byTag' = byTag
      BY <1>3, <2>3 DEF RunCall, DropExpired, DrainEnd, DispatchEnd, GetTake, GetEmpty,
                        SettleStep, SettleEnd, CancelEnd, brokerVars
    <3> QED
      BY <1>1, <3>1
  <2> QED
    BY <2>1, <2>2, <2>3
<1>4. CASE \E c \in Channels : ClientNext(c)
  <2>1. PICK c \in Channels : ClientNext(c)
    BY <1>4
  <2>2. CASE \E t \in Tags : Cancel(c, t)
    BY <1>2, <2>2 DEF Cancel, Unregister
  <2>3. CASE AnswerNext(c)
    <3>1. CASE \E d \in held[c], multiple \in BOOLEAN :
                 Ack(c, d, multiple) \/ \E requeue \in BOOLEAN : Nack(c, d, multiple, requeue)
      <4>1. PICK d \in held[c] : byTag' = Decremented(d.consumer)
        BY <3>1 DEF Ack, Nack, Answer
      <4>2. d.consumer \in Tags \cup {NoConsumer}
        BY DEF TypeOK, Delivered
      <4>3. \/ byTag' = byTag
            \/ /\ d.consumer \in Tags /\ byTag[d.consumer] \in Entry
               /\ byTag' = [byTag EXCEPT ![d.consumer].unackedCount = byTag[d.consumer].unackedCount - 1]
        BY <4>1, <4>2 DEF Decremented, Registered, TypeOK
      <4> QED
        BY <1>1, <4>3, CountedStays
    <3>2. CASE AckAll(c) \/ \E requeue \in BOOLEAN : NackAll(c, requeue)
      BY <1>1, <3>2 DEF AckAll, NackAll, SettleAll, brokerVars
    <3> QED
      BY <2>3, <3>1, <3>2 DEF AnswerNext
  <2>4. CASE \/ \E q \in Queues : Publish(c, q)
             \/ \E q \in Queues, noAck \in BOOLEAN : Get(c, q, noAck)
             \/ Recover(c)
             \/ \E count \in PrefetchCounts, global \in BOOLEAN : Prefetch(c, count, global)
             \/ \E active \in BOOLEAN : Flow(c, active)
             \/ Close(c)
    <3>1. byTag' = byTag
      BY <2>4 DEF Publish, Get, Recover, SettleAll, Prefetch, Flow, Close, brokerVars
    <3> QED
      BY <1>1, <3>1
  <2> QED
    BY <2>1, <2>2, <2>3, <2>4 DEF ClientNext
<1>5. CASE \/ RunMicrotask \/ \E conn \in Connections : CloseConnection(conn)
           \/ \E id \in Perishable : Expire(id)
           \/ UNCHANGED vars
  BY <1>1, <1>5 DEF RunMicrotask, CloseConnection, Expire, vars, brokerVars
<1> QED
  BY <1>3, <1>4, <1>5 DEF Next

(* The limits of channel c, and whether deliveries flow on it, stay. *)
SameLimits(c) ==
  /\ channel'[c].mapped = channel[c].mapped
  /\ channel'[c].flow = channel[c].flow
  /\ channel'[c].consumerPrefetch = channel[c].consumerPrefetch
  /\ channel'[c].channelPrefetch = channel[c].channelPrefetch

LEMMA LimitsStay ==
  ASSUME Registry, [Next]_vars
  PROVE  \/ \A c \in Channels : SameLimits(c)
         \/ \E c \in Channels : \/ \E count \in PrefetchCounts, global \in BOOLEAN : Prefetch(c, count, global)
                                \/ \E active \in BOOLEAN : Flow(c, active)
                                \/ Close(c)
         \/ CancelEnd
         \/ \E conn \in Connections : CloseConnection(conn)
<1> USE DEF Registry
<1>1. channel' = channel => \A c \in Channels : SameLimits(c)
  BY DEF SameLimits
<1>2. ASSUME NEW c \in Channels, NEW n, channel' = [channel EXCEPT ![c].tagSeq = n]
      PROVE  \A e \in Channels : SameLimits(e)
  <2> DEFINE r == [channel[c] EXCEPT !.tagSeq = n]
  <2>1. channel[c] \in Channel
    BY DEF TypeOK
  <2>2. /\ r.mapped = channel[c].mapped /\ r.flow = channel[c].flow
        /\ r.consumerPrefetch = channel[c].consumerPrefetch
        /\ r.channelPrefetch = channel[c].channelPrefetch
    BY <2>1 DEF Channel
  <2>3. channel' = [channel EXCEPT ![c] = r]
    BY <1>2
  <2> HIDE DEF r
  <2>4. channel'[c] = r /\ \A e \in Channels : e # c => channel'[e] = channel[e]
    BY <2>3 DEF TypeOK
  <2> QED
    BY <2>2, <2>4 DEF SameLimits
<1>3. CASE RunCall
  <2>1. CASE DispatchStep
    <3>1. PICK q \in Queues, t \in Tags, c \in Channels : Deliver(q, t, c)
      BY <2>1, DispatchDelivers DEF Delivers
    <3>2. channel' = [channel EXCEPT ![c].tagSeq = NextTag(c)]
      BY <3>1 DEF Deliver
    <3> QED
      BY <1>2, <3>2
  <2>2. CASE GetTake
    <3>1. PICK c \in Channels : c = Top.channel
      BY <2>2, GetIssues
    <3>2. channel' = [channel EXCEPT ![c].tagSeq = NextTag(c)]
      BY <2>2, <3>1 DEF GetTake
    <3> QED
      BY <1>2, <3>2
  <2>3. CASE ~DispatchStep /\ ~GetTake /\ ~CancelEnd
    BY <1>1, <1>3, <2>3 DEF RunCall, DropExpired, DrainEnd, DispatchEnd, GetEmpty,
                            SettleStep, SettleEnd, CancelStep, brokerVars
  <2> QED
    BY <2>1, <2>2, <2>3
<1>4. CASE \E c \in Channels : ClientNext(c)
  <2>1. PICK c \in Channels : ClientNext(c)
    BY <1>4
  <2>2. CASE \/ \E q \in Queues : Publish(c, q)
             \/ \E q \in Queues, t \in Tags, o \in ConsumeOptions : Consume(c, q, t, o)
             \/ \E t \in Tags : Cancel(c, t)
             \/ \E q \in Queues, noAck \in BOOLEAN : Get(c, q, noAck)
             \/ AnswerNext(c)
             \/ Recover(c)
    <3>1. channel' = channel
      BY <2>2 DEF Publish, Consume, Cancel, Get, AnswerNext, Ack, Nack, Answer, AckAll, NackAll,
                  Recover, SettleAll, brokerVars
    <3> QED
      BY <1>1, <3>1
  <2> QED
    BY <2>1, <2>2 DEF ClientNext
<1>5. CASE RunMicrotask \/ (\E id \in Perishable : Expire(id)) \/ UNCHANGED vars
  BY <1>1, <1>5 DEF RunMicrotask, Expire, vars, brokerVars
<1> QED
  BY <1>3, <1>4, <1>5 DEF Next

(* A limit that leaves room for some deliveries leaves room for fewer. *)
LEMMA RoomForFewer ==
  ASSUME NEW limit \in Nat, NEW S, IsFiniteSet(S), NEW T, T \subseteq S, Room(limit, S)
  PROVE  Room(limit, T)
<1>1. IsFiniteSet(T) /\ Cardinality(T) <= Cardinality(S)
  BY FS_Subset
<1>2. Cardinality(T) \in Nat /\ Cardinality(S) \in Nat
  BY <1>1, FS_CardinalityType
<1> QED
  BY <1>1, <1>2 DEF Room

(* Deliveries of one consumer that are all on channel c. *)
LEMMA OneOwner ==
  ASSUME NEW un, NEW t, NEW c \in Channels,
         \A d \in Channels : \A u \in un[d] : u.consumer = t => d = c
  PROVE  {u \in UNION {un[d] : d \in Channels} : u.consumer = t}
           = {u \in un[c] : u.consumer = t}
  OBVIOUS

(* No room for a delivery to t is made by the step. *)
Tight(t) ==
  LET c == byTag[t].channel
  IN  /\ byTag'[t].channel = c /\ byTag'[t].noAck = byTag[t].noAck
      /\ channel'[c].mapped => channel[c].mapped
      /\ channel'[c].flow => channel[c].flow
      /\ channel'[c].consumerPrefetch = channel[c].consumerPrefetch
      /\ channel'[c].channelPrefetch = channel[c].channelPrefetch
      /\ \A u \in unacked[c] : u.consumer = t => u \in unacked'[c]
      /\ channel[c].channelPrefetch = 0 \/ unacked[c] \subseteq unacked'[c]

LEMMA TightKeeps ==
  ASSUME Registry, OwnChannel, Registry', OwnChannel', FiniteUnacked',
         NEW t \in Tags, Registered(t), Registered(t)', Tight(t), HasRoom(t)'
  PROVE  HasRoom(t)
<1> USE DEF Registry
<1> DEFINE c == byTag[t].channel
           mine == {u \in unacked[c] : u.consumer = t}
           next == {u \in unacked'[c] : u.consumer = t}
<1>1. c \in Channels /\ byTag'[t].channel = c
  BY DEF Registered, TypeOK, Entry, Tight
<1>2. \A d \in Channels : \A u \in unacked[d] : u.consumer = t => d = c
  BY DEF OwnChannel
<1>3. \A d \in Channels : \A u \in unacked'[d] : u.consumer = t => d = c
  BY <1>1 DEF OwnChannel
<1>4. OutstandingOf(t) = mine
  BY <1>1, <1>2, OneOwner DEF OutstandingOf
<1>5. OutstandingOf(t)' = next
  <2>1. OutstandingOf(t)' = {u \in UNION {unacked'[d] : d \in Channels} : u.consumer = t}
    BY DEF OutstandingOf
  <2>2. PICK e \in Channels : e = c
    BY <1>1
  <2>3. {u \in UNION {unacked'[d] : d \in Channels} : u.consumer = t}
          = {u \in unacked'[e] : u.consumer = t}
    <3>1. \A d \in Channels : \A u \in unacked'[d] : u.consumer = t => d = e
      BY <1>3, <2>2
    <3> QED
      BY <3>1, OneOwner
  <2> QED
    BY <2>1, <2>2, <2>3
<1>6. IsFiniteSet(unacked'[c]) /\ IsFiniteSet(next) /\ mine \subseteq next
  <2>1. IsFiniteSet(unacked'[c]) /\ next \subseteq unacked'[c]
    BY <1>1 DEF FiniteUnacked
  <2>2. mine \subseteq next
    BY DEF Tight
  <2> QED
    BY <2>1, <2>2, FS_Subset
<1>7. channel[c].consumerPrefetch \in Nat /\ channel[c].channelPrefetch \in Nat
  BY <1>1 DEF TypeOK, Channel
<1>8. /\ channel'[c].mapped /\ channel'[c].flow
      /\ \/ byTag'[t].noAck
         \/ /\ Room(channel'[c].consumerPrefetch, next)
            /\ Room(channel'[c].channelPrefetch, unacked'[c])
  BY <1>1, <1>5 DEF HasRoom
<1>9. /\ channel[c].mapped /\ channel[c].flow
      /\ byTag'[t].noAck = byTag[t].noAck
      /\ channel'[c].consumerPrefetch = channel[c].consumerPrefetch
      /\ channel'[c].channelPrefetch = channel[c].channelPrefetch
      /\ channel[c].channelPrefetch = 0 \/ unacked[c] \subseteq unacked'[c]
  BY <1>8 DEF Tight
<1>10. channel[c].channelPrefetch = 0 => Room(channel[c].channelPrefetch, unacked[c])
  BY DEF Room
<1>11. Room(channel'[c].consumerPrefetch, next) => Room(channel[c].consumerPrefetch, mine)
  <2> HIDE DEF c, mine, next
  <2> QED
    BY <1>6, <1>7, <1>9, RoomForFewer
<1>12. Room(channel'[c].channelPrefetch, unacked'[c]) => Room(channel[c].channelPrefetch, unacked[c])
  <2> HIDE DEF c, mine, next
  <2> QED
    BY <1>6, <1>7, <1>9, <1>10, RoomForFewer
<1> QED
  BY <1>4, <1>8, <1>9, <1>11, <1>12 DEF HasRoom

(* No channel is closed, or returns its deliveries, and none limits all its
   consumers together unless limits are set at all. *)
OpenInv ==
  /\ \A c \in Channels : channel[c].mapped
  /\ ~May("prefetch") => \A c \in Channels : channel[c].channelPrefetch = 0
  /\ \A f \in FramesOf(call) : f.do \notin {"cancel", "return"}

LEMMA NothingCloses ==
  ASSUME ServedAlone, Registry, OpenInv
  PROVE  /\ ~CancelStep /\ ~CancelEnd
         /\ \A c \in Channels : ~Close(c) /\ ~Recover(c)
         /\ \A conn : ~CloseConnection(conn)
         /\ ~Idle => Top.do \notin {"cancel", "return"}
<1> USE DEF Registry
<1>1. ASSUME ~Idle PROVE Top.do \notin {"cancel", "return"}
  <2>1. call \in Seq(Frame) /\ call # <<>>
    BY <1>1 DEF Idle, TypeOK
  <2>2. Top \in FramesOf(call)
    BY <2>1, TopAndWaiting DEF Top
  <2> QED
    BY <2>2 DEF OpenInv
<1>2. ~CancelStep /\ ~CancelEnd
  BY <1>1 DEF CancelStep, CancelEnd
<1> QED
  BY <1>1, <1>2 DEF OpenInv, ServedAlone, AnswerEachOnce, Close, Recover, CloseConnection

(* Which steps make room: the answer to a delivery of t itself, or flow resumed. *)
LEMMA WhoMakesRoom ==
  ASSUME ServedAlone, Registry, OpenInv, [Next]_vars,
         NEW t \in Tags, Registered(t), Registered(t)'
  PROVE  \/ Tight(t)
         \/ \E u : SettlesOne(u) /\ (u.consumer = t \/ May("prefetch")) /\ SettleStep
         \/ \E c \in Channels : Flow(c, TRUE)
<1> USE DEF Registry
<1> DEFINE c == byTag[t].channel
<1>1. c \in Channels /\ byTag[t] \in Entry
  BY DEF Registered, TypeOK, Entry
<1>2. byTag'[t].channel = c /\ byTag'[t].noAck = byTag[t].noAck
  <2>1. CASE Stays(t)
    BY <2>1 DEF Stays, Registered
  <2>2. CASE \E e \in Channels, q \in Queues, x \in Tags, o \in ConsumeOptions : Consume(e, q, x, o)
    <3>1. PICK e \in Channels, q \in Queues, x \in Tags, o \in ConsumeOptions : Consume(e, q, x, o)
      BY <2>2
    <3>2. x # t /\ byTag'[t] = byTag[t]
      BY <3>1 DEF Consume, TypeOK
    <3> QED
      BY <3>2
  <2> QED
    BY <2>1, <2>2, RegistrationStays
<1>3. ~CancelEnd /\ (\A e \in Channels : ~Close(e)) /\ \A conn : ~CloseConnection(conn)
  BY NothingCloses
<1>4. \/ \E e \in Channels : Flow(e, TRUE)
      \/ /\ channel'[c].mapped => channel[c].mapped
         /\ channel'[c].flow => channel[c].flow
         /\ channel'[c].consumerPrefetch = channel[c].consumerPrefetch
         /\ channel'[c].channelPrefetch = channel[c].channelPrefetch
  <2>1. CASE \A e \in Channels : SameLimits(e)
    BY <1>1, <2>1 DEF SameLimits
  <2>2. CASE \E e \in Channels, count \in PrefetchCounts, global \in BOOLEAN : Prefetch(e, count, global)
    <3>1. PICK e \in Channels, count \in PrefetchCounts, global \in BOOLEAN : Prefetch(e, count, global)
      BY <2>2
    <3>2. e # c
      BY <3>1 DEF Prefetch, ServedAlone
    <3>3. channel'[c] = channel[c]
      BY <1>1, <3>1, <3>2 DEF Prefetch, TypeOK
    <3> QED
      BY <3>3
  <2>3. CASE \E e \in Channels : Flow(e, FALSE)
    <3>1. PICK e \in Channels : channel' = [channel EXCEPT ![e].flow = FALSE]
      BY <2>3 DEF Flow
    <3>2. channel[e] \in Channel /\ channel \in [Channels -> Channel]
      BY DEF TypeOK
    <3> DEFINE r == [channel[e] EXCEPT !.flow = FALSE]
    <3>3. /\ r.mapped = channel[e].mapped /\ r.flow = FALSE
          /\ r.consumerPrefetch = channel[e].consumerPrefetch
          /\ r.channelPrefetch = channel[e].channelPrefetch
      BY <3>2 DEF Channel
    <3>4. channel' = [channel EXCEPT ![e] = r]
      BY <3>1
    <3> HIDE DEF r
    <3>5. channel'[e] = r /\ \A d \in Channels : d # e => channel'[d] = channel[d]
      BY <3>2, <3>4
    <3> QED
      BY <1>1, <3>3, <3>5
  <2> QED
    BY <1>3, <2>1, <2>2, <2>3, LimitsStay
<1>5. \/ unacked[c] \subseteq unacked'[c]
      \/ SettleStep /\ \E u : SettlesOne(u)
  <2>1. CASE DispatchStep
    <3>1. PICK q \in Queues, x \in Tags, e \in Channels : Deliver(q, x, e)
      BY <2>1, DispatchDelivers DEF Delivers
    <3>2. unacked' = unacked \/ Tracked(e, Delivery(e, q, x))
      BY <3>1, DispatchIssues DEF Issues
    <3> QED
      BY <1>1, <3>2, TrackedIds
  <2>2. CASE GetTake
    <3>1. PICK e \in Channels : e = Top.channel
      BY <2>2, GetIssues
    <3>2. unacked' = unacked \/ Tracked(e, Delivery(e, Top.queue, NoConsumer))
      BY <2>2, <3>1, GetIssues DEF Issues
    <3> QED
      BY <1>1, <3>2, TrackedIds
  <2>3. CASE SettleStep
    BY <2>3, SettleStepFrames
  <2>4. CASE ~DispatchStep /\ ~GetTake /\ ~SettleStep
    <3>1. unacked' = unacked
      <4>1. CASE RunCall
        BY <2>4, <4>1 DEF RunCall, DropExpired, DrainEnd, DispatchEnd, GetEmpty, SettleEnd,
                          CancelStep, CancelEnd, brokerVars
      <4>2. CASE \E e \in Channels : ClientNext(e)
        BY <4>2 DEF ClientNext, Publish, Consume, Cancel, Get, AnswerNext, Ack, Nack, Answer,
                    AckAll, NackAll, Recover, SettleAll, Prefetch, Flow, Close, brokerVars
      <4>3. CASE \/ RunMicrotask \/ \E conn \in Connections : CloseConnection(conn)
                 \/ \E id \in Perishable : Expire(id)
                 \/ UNCHANGED vars
        BY <4>3 DEF RunMicrotask, CloseConnection, Expire, vars, brokerVars
      <4> QED
        BY <4>1, <4>2, <4>3 DEF Next
    <3> QED
      BY <3>1
  <2> QED
    BY <2>1, <2>2, <2>3, <2>4
<1>6. CASE unacked[c] \subseteq unacked'[c]
  BY <1>2, <1>4, <1>6 DEF Tight
<1>7. CASE SettleStep /\ \E u : SettlesOne(u)
  <2>1. PICK u : SettlesOne(u)
    BY <1>7
  <2>2. \/ u.consumer = t \/ May("prefetch")
        \/ /\ channel[c].channelPrefetch = 0
           /\ \A v \in unacked[c] : v.consumer = t => v \in unacked'[c]
    <3>1. ASSUME u.consumer # t, NEW v \in unacked[c], v.consumer = t
          PROVE  v \in unacked'[c]
      BY <1>1, <2>1, <3>1 DEF SettlesOne, Removed, TypeOK
    <3>2. ~May("prefetch") => channel[c].channelPrefetch = 0
      BY <1>1 DEF OpenInv
    <3> QED
      BY <3>1, <3>2
  <2> QED
    BY <1>2, <1>4, <1>7, <2>1, <2>2 DEF Tight
<1> QED
  BY <1>5, <1>6, <1>7

LEMMA DistanceOK ==
  ASSUME TypeOK, RegistryConsistent, NEW q \in Queues, NEW k \in DOMAIN byQueue[q]
  PROVE  Distance(q, k) \in Nat
<1>1. Len(byQueue[q]) \in Nat /\ DOMAIN byQueue[q] = 1 .. Len(byQueue[q])
  BY QueueOf
<1>2. Group(q, k) \subseteq 1 .. Len(byQueue[q]) /\ k \in Group(q, k)
  BY <1>1 DEF Group, Consumers
<1>3. IsFiniteSet(Group(q, k))
  <2>1. IsFiniteSet(1 .. Len(byQueue[q]))
    BY <1>1, FS_Interval
  <2> QED
    BY <1>2, <2>1, FS_Subset
<1>4. Cardinality(Group(q, k)) \in Nat /\ Cardinality(Group(q, k)) # 0
  BY <1>2, <1>3, FS_CardinalityType, FS_EmptySet
<1>5. Min(Group(q, k)) \in Nat /\ k \in Nat
  BY <1>1, <1>2, MinProperties
<1>6. RotationStart(q, k) \in Nat
  <2>1. PriorityAt(q, k) \in Priorities
    BY ConsumerEntry DEF PriorityAt, Consumers, Entry
  <2> QED
    BY <2>1 DEF RotationStart, TypeOK
<1> DEFINE o == Offset(q, k)
           g == Cardinality(Group(q, k))
           r == RotationStart(q, k)
<1>7. o \in Int /\ g \in Nat /\ g # 0 /\ r \in Nat
  BY <1>4, <1>5, <1>6 DEF Offset
<1> HIDE DEF o, g, r
<1>8. (o - r) % g \in Nat
  BY <1>7
<1> QED
  BY <1>8 DEF Distance, o, g, r

(* Where a consumer is eligible the rotation finds one to serve: of the first
   eligible one's priority, which is the highest, the nearest in rotation. *)
LEMMA RotationFinds ==
  ASSUME Registry, NEW q \in Queues, NEW conn, NEW i \in 1 .. Len(byQueue[q]),
         q \in SacQueues => i = 1, Eligible(conn, byQueue[q][i])
  PROVE  \E k \in DOMAIN Consumers(q) : ServedNext(conn, q, k)
<1> USE DEF Registry
<1>1. Len(byQueue[q]) \in Nat /\ DOMAIN byQueue[q] = 1 .. Len(byQueue[q])
  BY QueueOf
<1>2. CASE q \in SacQueues
  BY <1>1, <1>2 DEF ServedNext, Consumers
<1>3. CASE q \notin SacQueues
  <2> DEFINE E == {j \in 1 .. Len(byQueue[q]) : Eligible(conn, byQueue[q][j])}
  <2>1. E \subseteq Nat /\ E # {}
    BY <1>1
  <2>2. PICK first \in E : \A j \in E : first <= j
    <3> HIDE DEF E
    <3> QED
      BY <2>1, Smallest
  <2>3. \A j \in E : PriorityAt(q, j) \in Nat /\ PriorityAt(q, j) <= PriorityAt(q, first)
    <3>1. \A j \in 1 .. Len(byQueue[q]) : PriorityAt(q, j) \in Nat
      BY <1>1, ConsumerEntry, DeliveryAssumption DEF PriorityAt, Consumers, Entry, Priorities
    <3>2. \A j \in E : first = j \/ first < j
      BY <1>1, <2>2
    <3>3. \A j \in E : first < j => PriorityAt(q, first) >= PriorityAt(q, j)
      BY <1>1, <1>3 DEF RegistryConsistent
    <3>4. ASSUME NEW j \in E
          PROVE  PriorityAt(q, j) \in Nat /\ PriorityAt(q, j) <= PriorityAt(q, first)
      <4>1. PriorityAt(q, j) \in Nat /\ PriorityAt(q, first) \in Nat
        BY <3>1
      <4>2. first = j \/ PriorityAt(q, first) >= PriorityAt(q, j)
        BY <3>2, <3>3
      <4> HIDE DEF E
      <4> QED
        BY <4>1, <4>2
    <3> QED
      BY <3>4
  <2> DEFINE G == {j \in E : PriorityAt(q, j) = PriorityAt(q, first)}
             D == {Distance(q, j) : j \in G}
  <2>4. D \subseteq Nat /\ D # {}
    <3>1. \A j \in G : Distance(q, j) \in Nat
      BY <1>1, DistanceOK
    <3>2. first \in G
      OBVIOUS
    <3> HIDE DEF G
    <3> QED
      BY <3>1, <3>2
  <2>5. PICK d \in D : \A e \in D : d <= e
    <3> HIDE DEF D
    <3> QED
      BY <2>4, Smallest
  <2>6. PICK k \in G : Distance(q, k) = d
    BY <2>5
  <2>7. \A j \in G : Distance(q, k) <= Distance(q, j)
    BY <2>5, <2>6
  <2>8. /\ k \in DOMAIN Consumers(q) /\ Eligible(conn, Consumers(q)[k])
        /\ PriorityAt(q, k) = PriorityAt(q, first)
    BY <1>1, <2>6 DEF Consumers
  <2>9. ASSUME NEW j \in DOMAIN Consumers(q), Eligible(conn, Consumers(q)[j])
        PROVE  /\ PriorityAt(q, j) <= PriorityAt(q, k)
               /\ j \in Group(q, k) => Distance(q, k) <= Distance(q, j)
    <3>1. j \in E
      BY <1>1, <2>9 DEF Consumers
    <3>2. j \in Group(q, k) => j \in G
      BY <2>8, <3>1 DEF Group
    <3> HIDE DEF E, G, D
    <3> QED
      BY <2>3, <2>7, <2>8, <3>1, <3>2
  <2> QED
    BY <1>3, <2>8, <2>9 DEF ServedNext
<1> QED
  BY <1>2, <1>3

(* A dispatch sees the room a consumer has: its counter is true, and its channel
   is found on the one connection there is. *)
LEMMA RoomIsSeen ==
  ASSUME ServedAlone, Registry, Settlement, OpenInv, ~Idle, Top.do = "dispatch",
         NEW t \in Tags, Registered(t), HasRoom(t)
  PROVE  Eligible(Top.conn, t)
<1> USE DEF Registry
<1> DEFINE c == byTag[t].channel
<1>1. c \in Channels
  BY DEF Registered, TypeOK, Entry
<1>2. ConnOf[c] = Top.conn
  <2>1. Top.conn \in Connections
    BY TopOfCall, FrameFields
  <2> QED
    BY <1>1, <2>1 DEF Connections, ServedAlone
<1>3. c \in GetChannel(Top.conn, Number[c])
  BY <1>1, <1>2 DEF GetChannel, HasRoom
<1>4. byTag[t].unackedCount = Cardinality(OutstandingOf(t))
  <2>1. \A e \in Channels : Answering(e) = {}
    BY DEF Answering, AnswerKinds
  <2> QED
    BY <2>1, CountedOutstanding
<1>5. c \in EligibleOn(Top.conn, t)
  BY <1>3, <1>4 DEF HasRoom, EligibleOn, Room, Below
<1> QED
  BY <1>5 DEF Eligible

(* A queue whose dispatch ended, or need not begin. *)
Served(q) ==
  store[q] # <<>> =>
    \A i \in 1 .. Len(byQueue[q]), t \in Tags :
      t = byQueue[q][i] /\ (q \in SacQueues => i = 1) => ~HasRoom(t)

LEMMA DispatchServes ==
  ASSUME ServedAlone, Registry, Settlement, OpenInv, DispatchEnd
  PROVE  Served(Top.queue)
<1> USE DEF Registry
<1>1. ~Idle /\ Top.do = "dispatch" /\ ~CanServe(Top.conn, Top.queue)
  BY DEF DispatchEnd
<1>2. PICK q \in Queues : q = Top.queue
  BY <1>1, TopOfCall, FrameFields
<1>3. ASSUME store[q] # <<>>, NEW i \in 1 .. Len(byQueue[q]), NEW t \in Tags,
             t = byQueue[q][i], q \in SacQueues => i = 1, HasRoom(t)
      PROVE  FALSE
  <2>1. Registered(t)
    BY <1>3, QueueOf
  <2>2. Eligible(Top.conn, byQueue[q][i])
    BY <1>1, <1>3, <2>1, RoomIsSeen
  <2>3. \E k \in DOMAIN Consumers(q) : ServedNext(Top.conn, q, k)
    BY <1>3, <2>2, RotationFinds
  <2> QED
    BY <1>1, <1>2, <1>3, <2>3 DEF CanServe
<1> QED
  BY <1>2, <1>3 DEF Served

(* A served queue stays so for as long as it gets no message, no consumer, and no
   consumer of it room. *)
LEMMA ServedStays ==
  ASSUME Registry, OwnChannel, Registry', OwnChannel', FiniteUnacked',
         NEW q \in Queues, Served(q), store'[q] # <<>> => store[q] # <<>>,
         \A j \in 1 .. Len(byQueue'[q]) : \E i \in 1 .. Len(byQueue[q]) :
           byQueue'[q][j] = byQueue[q][i] /\ (q \in SacQueues /\ j = 1 => i = 1),
         \A t \in Tags : Registered(t) /\ byTag[t].queue = q /\ Registered(t)' => Tight(t)
  PROVE  Served(q)'
<1> USE DEF Registry
<1> SUFFICES ASSUME store'[q] # <<>>, NEW j \in 1 .. Len(byQueue'[q]), NEW t \in Tags,
                    t = byQueue'[q][j], q \in SacQueues => j = 1, HasRoom(t)'
             PROVE  FALSE
  BY DEF Served
<1>1. PICK i \in 1 .. Len(byQueue[q]) :
        byQueue'[q][j] = byQueue[q][i] /\ (q \in SacQueues /\ j = 1 => i = 1)
  OBVIOUS
<1>2. t = byQueue[q][i] /\ Registered(t) /\ byTag[t].queue = q
  BY <1>1, QueueOf
<1>3. Registered(t)'
  <2>1. byQueue'[q] \in Seq(Tags)
    BY DEF TypeOK
  <2>2. t \in ToSet(byQueue'[q])
    BY <2>1, ToSetOf
  <2> QED
    BY <2>2 DEF RegistryConsistent
<1>4. HasRoom(t)
  BY <1>2, <1>3, TightKeeps
<1> QED
  BY <1>1, <1>2, <1>4 DEF Served

LEMMA OpenStep ==
  ASSUME ServedAlone, Registry, OpenInv, [Next]_vars
  PROVE  OpenInv'
<1> USE DEF Registry
<1>1. \A c \in Channels : channel'[c].mapped /\ (~May("prefetch") => channel'[c].channelPrefetch = 0)
  <2>1. CASE \A c \in Channels : SameLimits(c)
    BY <2>1 DEF SameLimits, OpenInv
  <2>2. CASE \E c \in Channels, count \in PrefetchCounts, global \in BOOLEAN : Prefetch(c, count, global)
    <3>1. PICK c \in Channels, count \in PrefetchCounts, global \in BOOLEAN : Prefetch(c, count, global)
      BY <2>2
    <3>2. May("prefetch")
      BY <3>1 DEF Prefetch
    <3>3. \A e \in Channels : channel'[e].mapped = channel[e].mapped
      <4>1. channel[c] \in Channel /\ channel \in [Channels -> Channel]
        BY DEF TypeOK
      <4>2. \/ channel' = [channel EXCEPT ![c].channelPrefetch = count]
            \/ channel' = [channel EXCEPT ![c].consumerPrefetch = count]
        BY <3>1 DEF Prefetch
      <4>3. /\ [channel[c] EXCEPT !.channelPrefetch = count].mapped = channel[c].mapped
            /\ [channel[c] EXCEPT !.consumerPrefetch = count].mapped = channel[c].mapped
        BY <4>1 DEF Channel
      <4> QED
        BY <4>1, <4>2, <4>3, Zenon
    <3> QED
      BY <3>2, <3>3 DEF OpenInv
  <2>3. CASE \E c \in Channels, active \in BOOLEAN : Flow(c, active)
    <3>1. PICK c \in Channels, active \in BOOLEAN : channel' = [channel EXCEPT ![c].flow = active]
      BY <2>3 DEF Flow
    <3>2. channel[c] \in Channel /\ channel \in [Channels -> Channel]
      BY DEF TypeOK
    <3>3. /\ [channel[c] EXCEPT !.flow = active].mapped = channel[c].mapped
          /\ [channel[c] EXCEPT !.flow = active].channelPrefetch = channel[c].channelPrefetch
      BY <3>2 DEF Channel
    <3>4. \A e \in Channels : /\ channel'[e].mapped = channel[e].mapped
                              /\ channel'[e].channelPrefetch = channel[e].channelPrefetch
      BY <3>1, <3>2, <3>3, Zenon
    <3> QED
      BY <3>4 DEF OpenInv
  <2> QED
    BY <2>1, <2>2, <2>3, LimitsStay, NothingCloses
<1>2. \A f \in FramesOf(call') : f.do \notin {"cancel", "return"}
  <2>1. CASE RunCall
    <3>1. /\ \/ call' = call \/ FramesOf(call') = Waiting(call)
             \/ DrainEnd \/ SettleStep
          /\ FramesOf(call) = {Top} \cup Waiting(call)
      BY <2>1, StackAfter, NothingCloses
    <3>2. CASE DrainEnd
      <4>1. FramesOf(call') = {call'[1]} \cup Waiting(call) /\ call'[1].do = "dispatch"
        BY <3>2, DrainEndFrames, TopAndWaiting
      <4> QED
        BY <3>1, <4>1 DEF OpenInv
    <3>3. CASE SettleStep
      <4>1. PICK u : SettlesOne(u)
        BY <3>3, SettleStepFrames
      <4>2. FramesOf(call') = {call'[1]} \cup Waiting(call')
        BY <4>1, TopAndWaiting DEF SettlesOne
      <4>3. /\ call'[1].do = Top.do
            /\ \A f \in Waiting(call') : f \in Waiting(call) \/ f.do = "drain"
        BY <4>1 DEF SettlesOne
      <4> QED
        BY <3>1, <4>2, <4>3 DEF OpenInv
    <3> QED
      BY <3>1, <3>2, <3>3 DEF OpenInv
  <2>2. CASE \E c \in Channels : ClientNext(c)
    <3>1. PICK c \in Channels : ClientNext(c)
      BY <2>2
    <3>2. /\ call' \in Seq(Frame) /\ \A f \in Waiting(call') : f.do = "drain"
          /\ call' # <<>> => call'[1].do \in {"drain", "get"} \cup AnswerKinds
      BY <3>1, CallBegins, NothingCloses
    <3>3. call' # <<>> => FramesOf(call') = {call'[1]} \cup Waiting(call')
      BY <3>2, TopAndWaiting
    <3>4. call' = <<>> => FramesOf(call') = {}
      BY SmallCalls
    <3> QED
      BY <3>2, <3>3, <3>4 DEF AnswerKinds
  <2>3. CASE RunMicrotask \/ (\E id \in Perishable : Expire(id)) \/ UNCHANGED vars
    BY <2>3 DEF RunMicrotask, Expire, vars, OpenInv
  <2> QED
    BY <2>1, <2>2, <2>3, NothingCloses DEF Next
<1> QED
  BY <1>1, <1>2 DEF OpenInv

(* A registered consumer's deliveries are from its queue. *)
OwnQueue ==
  \A c \in Channels : \A u \in unacked[c] :
    u.consumer \in Tags /\ Registered(u.consumer) => byTag[u.consumer].queue = u.queue

LEMMA OwnQueueStep ==
  ASSUME AnswerEachOnce, Registry, UsedTags, OwnQueue, [Next]_vars
  PROVE  OwnQueue'
<1> USE DEF Registry
<1> SUFFICES ASSUME NEW c \in Channels, NEW u \in unacked'[c], u.consumer \in Tags,
                    byTag'[u.consumer] # NoConsumer
             PROVE  byTag'[u.consumer].queue = u.queue
  BY DEF OwnQueue, Registered
<1>1. \/ u \in unacked[c]
      \/ Registered(u.consumer) /\ byTag[u.consumer].queue = u.queue /\ DispatchStep
  BY NewlyOutstanding, DeliveryAssumption DEF AnswerEachOnce
<1>2. CASE \A t \in Tags : Stays(t)
  BY <1>1, <1>2 DEF Stays, OwnQueue, Registered
<1>3. CASE \E d \in Channels, q \in Queues, t \in Tags, o \in ConsumeOptions : Consume(d, q, t, o)
  <2>1. PICK d \in Channels, q \in Queues, t \in Tags, o \in ConsumeOptions : Consume(d, q, t, o)
    BY <1>3
  <2>2. t \notin used /\ unacked' = unacked /\ \A x \in Tags : x # t => byTag'[x] = byTag[x]
    BY <2>1 DEF Consume, TypeOK, AnswerEachOnce
  <2>3. u.consumer # t
    BY <2>2, DeliveryAssumption DEF UsedTags
  <2> QED
    BY <2>2, <2>3 DEF OwnQueue, Registered
<1> QED
  BY <1>2, <1>3, RegistrationStays

(* A dispatch of queue q is in progress or will follow. *)
Dispatching(q) == \E f \in FramesOf(call) : f.do \in {"drain", "dispatch"} /\ f.queue = q

LEMMA StillDispatching ==
  ASSUME ServedAlone, Registry, OpenInv, RunCall, NEW q, Dispatching(q)
  PROVE  Dispatching(q)' \/ (DispatchEnd /\ Top.queue = q)
<1> USE DEF Registry
<1>1. /\ \/ call' = call \/ DrainEnd \/ SettleStep
         \/ /\ DispatchEnd \/ GetTake \/ GetEmpty \/ SettleEnd
            /\ FramesOf(call') = Waiting(call)
      /\ FramesOf(call) = {Top} \cup Waiting(call)
  BY StackAfter, NothingCloses
<1>2. PICK f \in FramesOf(call) : f.do \in {"drain", "dispatch"} /\ f.queue = q
  BY DEF Dispatching
<1>3. CASE call' = call
  BY <1>2, <1>3 DEF Dispatching
<1>4. CASE DrainEnd
  <2>1. /\ FramesOf(call') = {call'[1]} \cup Waiting(call)
        /\ call'[1].do = "dispatch" /\ call'[1].queue = Top.queue
    BY <1>4, DrainEndFrames, TopAndWaiting
  <2> QED
    BY <1>1, <1>2, <2>1 DEF Dispatching
<1>5. CASE SettleStep
  <2>1. PICK u : SettlesOne(u)
    BY <1>5, SettleStepFrames
  <2>2. FramesOf(call') = {call'[1]} \cup Waiting(call') /\ Waiting(call) \subseteq Waiting(call')
    BY <2>1, TopAndWaiting DEF SettlesOne
  <2>3. f # Top
    BY <1>2, <1>5 DEF SettleStep, SettleKinds
  <2> QED
    BY <1>1, <1>2, <2>2, <2>3 DEF Dispatching
<1>6. CASE (DispatchEnd \/ GetTake \/ GetEmpty \/ SettleEnd) /\ FramesOf(call') = Waiting(call)
  <2>1. CASE f = Top
    BY <1>2, <1>6, <2>1 DEF GetTake, GetEmpty, SettleEnd, SettleKinds
  <2>2. CASE f \in Waiting(call)
    BY <1>2, <1>6, <2>2 DEF Dispatching
  <2> QED
    BY <1>1, <2>1, <2>2
<1> QED
  BY <1>1, <1>3, <1>4, <1>5, <1>6

LEMMA DrainDispatches ==
  ASSUME NEW conn \in Connections, NEW q \in Queues, call' = <<Drain(conn, q)>>
  PROVE  Dispatching(q)'
<1>1. PICK f : f = Drain(conn, q)
  OBVIOUS
<1>2. f \in Frame /\ f.do = "drain" /\ f.queue = q
  BY <1>1, FramesOK DEF Drain
<1>3. FramesOf(call') = {f}
  BY <1>1, <1>2, SmallCalls
<1> QED
  BY <1>2, <1>3 DEF Dispatching

(* The dispatch of all queues dispatches each. *)
LEMMA AllDispatched ==
  ASSUME NEW conn \in Connections, NEW o \in DispatchOrders(conn, Queues), call' = o,
         NEW q \in Queues
  PROVE  Dispatching(q)'
<1> DEFINE n == Cardinality(Queues)
<1>1. IsFiniteSet(Queues) /\ n \in Nat
  BY DeliveryAssumption, FS_CardinalityType
<1>2. PICK s \in SetToSeqs(Queues) : o = [i \in DOMAIN s |-> Drain(conn, s[i])]
  BY DEF DispatchOrders
<1>3. s \in [1 .. n -> Queues] /\ \A i, j \in 1 .. n : i # j => s[i] # s[j]
  BY <1>2 DEF SetToSeqs
<1>4. s \in Injection(1 .. n, Queues)
  BY <1>3 DEF Injection, IsInjective
<1>5. IsFiniteSet(1 .. n) /\ Cardinality(1 .. n) = n
  BY <1>1, FS_Interval
<1>6. s \in Surjection(1 .. n, Queues)
  <2>1. n = Cardinality(Queues)
    OBVIOUS
  <2> HIDE DEF n
  <2> QED
    BY <1>1, <1>4, <1>5, <2>1, FS_Injection
<1>7. PICK i \in 1 .. n : s[i] = q
  BY <1>6 DEF Surjection
<1>8. Len(o) = n /\ o[i] = Drain(conn, q)
  <2>1. o \in Seq(Frame) /\ DOMAIN o = 1 .. n
    BY <1>2, <1>3, DispatchOrdersOK
  <2>2. Len(o) \in Nat /\ DOMAIN o = 1 .. Len(o)
    BY <2>1, LenProperties
  <2>3. Len(o) = n
    BY <1>1, <2>1, <2>2
  <2> QED
    BY <1>2, <1>3, <1>7, <2>3
<1>9. Drain(conn, q) \in FramesOf(call')
  BY <1>7, <1>8 DEF FramesOf
<1>10. Drain(conn, q).do = "drain" /\ Drain(conn, q).queue = q
  BY DEF Drain
<1> QED
  BY <1>9, <1>10 DEF Dispatching

(* Whoever makes room for a consumer dispatches its queue. *)
LEMMA RoomIsOffered ==
  ASSUME ServedAlone, Registry, OpenInv, OwnQueue, [Next]_vars,
         NEW q \in Queues, NEW t \in Tags, Registered(t), byTag[t].queue = q, Registered(t)'
  PROVE  Tight(t) \/ Dispatching(q)'
<1> USE DEF Registry
<1>1. CASE \E u : SettlesOne(u) /\ (u.consumer = t \/ May("prefetch")) /\ SettleStep
  <2>1. PICK u : SettlesOne(u) /\ (u.consumer = t \/ May("prefetch"))
    BY <1>1
  <2>2. Top.channel \in Channels /\ ~Idle
    BY <1>1, SettleStepFrames DEF SettleStep
  <2>3. u \in unacked[Top.channel]
    BY <2>1 DEF SettlesOne
  <2>4. u.queue \in Queues
    BY <2>2, <2>3 DEF TypeOK, Unacked
  <2>5. u.queue = q
    BY <2>1, <2>2, <2>3, <2>4 DEF OwnQueue, ServedAlone
  <2>6. PICK f \in Waiting(call') : f.do = "drain" /\ f.queue = u.queue
    BY <2>1, <2>2, NothingCloses DEF SettlesOne
  <2>7. f \in FramesOf(call')
    BY <2>1, <2>6, TopAndWaiting DEF SettlesOne
  <2> QED
    BY <2>5, <2>6, <2>7 DEF Dispatching
<1>2. CASE \E c \in Channels : Flow(c, TRUE)
  <2>1. PICK c \in Channels : \E all \in DispatchOrders(ConnOf[c], Queues) : call' = all
    BY <1>2 DEF Flow
  <2>2. PICK all \in DispatchOrders(ConnOf[c], Queues) : call' = all
    BY <2>1
  <2> QED
    BY <2>2, FramesOK, AllDispatched
<1> QED
  BY <1>1, <1>2, WhoMakesRoom

(* Whoever adds a message to a queue dispatches it. *)
LEMMA MessageIsOffered ==
  ASSUME ServedAlone, Registry, OpenInv, [Next]_vars, NEW q \in Queues, store'[q] # <<>>
  PROVE  store[q] # <<>> \/ Dispatching(q)'
<1> USE DEF Registry
<1>1. CASE DropExpired \/ DispatchStep \/ GetTake
  <2>1. PICK p : /\ p = Top.queue /\ store[p] # <<>>
                 /\ store' = [store EXCEPT ![p] = Tail(@)]
    BY <1>1 DEF DropExpired, HeadExpired, DispatchStep, Deliver, GetTake
  <2>2. p # q => store'[q] = store[q]
    BY <2>1 DEF TypeOK
  <2> QED
    BY <2>1, <2>2
<1>2. CASE SettleStep
  <2>1. PICK u : SettlesOne(u)
    BY <1>2, SettleStepFrames
  <2>2. CASE u.queue = q
    <3>1. PICK f \in Waiting(call') : f.do = "drain" /\ f.queue = u.queue
      BY <1>2, <2>1, NothingCloses DEF SettlesOne, SettleStep
    <3>2. f \in FramesOf(call')
      BY <2>1, <3>1, TopAndWaiting DEF SettlesOne
    <3> QED
      BY <2>2, <3>1, <3>2 DEF Dispatching
  <2>3. CASE u.queue # q
    BY <2>1, <2>3 DEF SettlesOne
  <2> QED
    BY <2>2, <2>3
<1>3. CASE \E c \in Channels, p \in Queues : Publish(c, p)
  <2>1. PICK c \in Channels, p \in Queues : Publish(c, p)
    BY <1>3
  <2>2. CASE p = q
    BY <2>1, <2>2, FramesOK, DrainDispatches DEF Publish
  <2>3. CASE p # q
    <3>1. store'[q] = store[q]
      BY <2>1, <2>3 DEF Publish, TypeOK
    <3> QED
      BY <3>1
  <2> QED
    BY <2>2, <2>3
<1>4. CASE /\ ~DropExpired /\ ~DispatchStep /\ ~GetTake /\ ~SettleStep
           /\ ~\E c \in Channels, p \in Queues : Publish(c, p)
  <2>1. store' = store
    <3>1. CASE RunCall
      BY <1>4, <3>1 DEF RunCall, DrainEnd, DispatchEnd, GetEmpty, SettleEnd,
                        CancelStep, CancelEnd, brokerVars
    <3>2. CASE \E c \in Channels : ClientNext(c)
      BY <1>4, <3>2 DEF ClientNext, Consume, Cancel, Get, AnswerNext, Ack, Nack, Answer,
                        AckAll, NackAll, Recover, SettleAll, Prefetch, Flow, Close, brokerVars
    <3>3. CASE \/ RunMicrotask \/ \E conn \in Connections : CloseConnection(conn)
               \/ \E id \in Perishable : Expire(id)
               \/ UNCHANGED vars
      BY <3>3 DEF RunMicrotask, CloseConnection, Expire, vars, brokerVars
    <3> QED
      BY <3>1, <3>2, <3>3 DEF Next
  <2> QED
    BY <2>1
<1> QED
  BY <1>1, <1>2, <1>3, <1>4

(* The consumers that queue q has after a step it had before it, and a new active
   one was active: or q is dispatched. *)
LEMMA ConsumerIsOffered ==
  ASSUME ServedAlone, Registry, OpenInv, [Next]_vars, NEW q \in Queues
  PROVE  \/ Dispatching(q)'
         \/ \A j \in 1 .. Len(byQueue'[q]) : \E i \in 1 .. Len(byQueue[q]) :
              byQueue'[q][j] = byQueue[q][i] /\ (q \in SacQueues /\ j = 1 => i = 1)
<1> USE DEF Registry
<1>1. CASE \E c \in Channels, p \in Queues, t \in Tags, o \in ConsumeOptions : Consume(c, p, t, o)
  <2>1. PICK c \in Channels, p \in Queues, t \in Tags, o \in ConsumeOptions : Consume(c, p, t, o)
    BY <1>1
  <2>2. CASE p = q
    BY <2>1, <2>2, FramesOK, DrainDispatches DEF Consume
  <2>3. CASE p # q
    <3>1. byQueue'[q] = byQueue[q]
      BY <2>1, <2>3 DEF Consume, TypeOK
    <3> QED
      BY <3>1
  <2> QED
    BY <2>2, <2>3
<1>2. CASE \E c \in Channels, t \in Tags : Cancel(c, t)
  <2>1. PICK c \in Channels, t \in Tags : Cancel(c, t)
    BY <1>2
  <2> DEFINE p == byTag[t].queue
  <2>2. PICK k \in DOMAIN byQueue[p] : byQueue' = [byQueue EXCEPT ![p] = RemoveAt(@, k)]
    BY <2>1 DEF Cancel, Unregister
  <2>3. CASE p # q
    <3>1. byQueue'[q] = byQueue[q]
      BY <2>2, <2>3 DEF TypeOK
    <3> QED
      BY <3>1
  <2>4. CASE p = q /\ byQueue'[q] = <<>>
    <3>1. Len(byQueue'[q]) = 0 /\ 1 .. 0 = {}
      BY <2>4, EmptySeq
    <3> QED
      BY <3>1
  <2>5. CASE p = q /\ byQueue'[q] # <<>> /\ q \in SacQueues
    <3>1. call' = <<Drain(ConnOf[c], q)>>
      BY <2>1, <2>5 DEF Cancel
    <3> QED
      BY <3>1, FramesOK, DrainDispatches
  <2>6. CASE p = q /\ q \notin SacQueues
    <3> DEFINE s == byQueue[q]
    <3>1. s \in Seq(Tags) /\ k \in 1 .. Len(s) /\ Len(s) \in Nat
      BY <2>2, <2>6, QueueOf
    <3>2. byQueue'[q] = RemoveAt(s, k)
      BY <2>2, <2>6 DEF TypeOK
    <3>3. /\ Len(byQueue'[q]) = Len(s) - 1
          /\ \A j \in 1 .. Len(s) - 1 : byQueue'[q][j] = IF j < k THEN s[j] ELSE s[j + 1]
      <4> HIDE DEF s
      <4> QED
        BY <3>1, <3>2, RemovedAt
    <3>4. ASSUME NEW j \in 1 .. Len(byQueue'[q])
          PROVE  \E i \in 1 .. Len(s) : byQueue'[q][j] = s[i]
      <4> HIDE DEF s
      <4>1. j \in 1 .. Len(s) /\ j + 1 \in 1 .. Len(s) /\ j \in 1 .. Len(s) - 1
        BY <3>1, <3>3
      <4> QED
        BY <3>3, <4>1
    <3> QED
      BY <2>6, <3>4
  <2> QED
    BY <2>3, <2>4, <2>5, <2>6
<1>3. CASE /\ ~\E c \in Channels, p \in Queues, t \in Tags, o \in ConsumeOptions : Consume(c, p, t, o)
           /\ ~\E c \in Channels, t \in Tags : Cancel(c, t)
  <2>1. byQueue' = byQueue
    <3>1. CASE RunCall
      BY <3>1, NothingCloses DEF RunCall, DropExpired, DrainEnd, DispatchStep, DispatchEnd,
           GetTake, GetEmpty, SettleStep, SettleEnd, brokerVars
    <3>2. CASE \E c \in Channels : ClientNext(c)
      BY <1>3, <3>2 DEF ClientNext, Publish, Get, AnswerNext, Ack, Nack, Answer,
                        AckAll, NackAll, Recover, SettleAll, Prefetch, Flow, Close, brokerVars
    <3>3. CASE \/ RunMicrotask \/ \E conn \in Connections : CloseConnection(conn)
               \/ \E id \in Perishable : Expire(id)
               \/ UNCHANGED vars
      BY <3>3 DEF RunMicrotask, CloseConnection, Expire, vars, brokerVars
    <3> QED
      BY <3>1, <3>2, <3>3 DEF Next
  <2> QED
    BY <2>1
<1> QED
  BY <1>1, <1>2, <1>3

(* Every queue is served, or its dispatch is still to come. *)
WorkInv ==
  /\ OpenInv /\ OwnQueue
  /\ \A q \in Queues : Dispatching(q) \/ Served(q)

LEMMA ServedKept ==
  ASSUME ServedAlone, Registry, Settlement, Registry', Settlement', OpenInv, OwnQueue, [Next]_vars,
         NEW q \in Queues, Served(q)
  PROVE  Dispatching(q)' \/ Served(q)'
<1> SUFFICES ASSUME ~Dispatching(q)' PROVE Served(q)'
  OBVIOUS
<1>1. store'[q] # <<>> => store[q] # <<>>
  BY MessageIsOffered
<1>2. \A j \in 1 .. Len(byQueue'[q]) : \E i \in 1 .. Len(byQueue[q]) :
        byQueue'[q][j] = byQueue[q][i] /\ (q \in SacQueues /\ j = 1 => i = 1)
  BY ConsumerIsOffered
<1>3. ASSUME NEW t \in Tags, Registered(t), byTag[t].queue = q, Registered(t)'
      PROVE  Tight(t)
  BY <1>3, RoomIsOffered
<1>4. OwnChannel /\ OwnChannel' /\ FiniteUnacked'
  BY DEF Settlement
<1> QED
  BY <1>1, <1>2, <1>3, <1>4, ServedStays

LEMMA WorkStep ==
  ASSUME ServedAlone, Registry, Settlement, Registry', Settlement', WorkInv, [Next]_vars
  PROVE  WorkInv'
<1> USE DEF WorkInv
<1>1. OpenInv'
  BY OpenStep
<1>2. OwnQueue'
  BY OwnQueueStep DEF ServedAlone, Settlement
<1>3. ASSUME NEW q \in Queues, Dispatching(q)
      PROVE  Dispatching(q)' \/ Served(q)'
  <2>1. CASE RunCall
    <3>1. CASE DispatchEnd /\ Top.queue = q
      <4>1. Served(q)
        BY <3>1, DispatchServes
      <4> QED
        BY <4>1, ServedKept
    <3> QED
      BY <1>3, <2>1, <3>1, StillDispatching
  <2>2. ~Idle
    BY <1>3, SmallCalls DEF Dispatching, Idle
  <2>3. CASE UNCHANGED vars
    <3>1. call' = call
      BY <2>3 DEF vars
    <3> QED
      BY <1>3, <3>1 DEF Dispatching
  <2>4. CASE \E c \in Channels : ClientNext(c)
    BY <2>2, <2>4, CallBegins
  <2>5. ~RunMicrotask /\ (\A conn : ~CloseConnection(conn)) /\ \A id : ~Expire(id)
    BY <2>2 DEF RunMicrotask, CloseConnection, Expire
  <2> QED
    BY <2>1, <2>3, <2>4, <2>5 DEF Next
<1>4. \A q \in Queues : (Dispatching(q) \/ Served(q))'
  BY <1>3, ServedKept
<1> QED
  BY <1>1, <1>2, <1>4

LEMMA WorkInit == Init => WorkInv
<1> SUFFICES ASSUME Init PROVE WorkInv
  OBVIOUS
<1>1. FramesOf(call) = {}
  BY SmallCalls DEF Init
<1>2. OpenInv /\ OwnQueue
  BY <1>1 DEF Init, OpenInv, OwnQueue
<1>3. \A q \in Queues : Served(q)
  BY DEF Init, Served
<1> QED
  BY <1>2, <1>3 DEF WorkInv

(* For those clients no queue, between any two calls, holds a message back from a
   consumer that has room for it: whatever makes room - an answer, a requeue, flow
   resumed, the cancel of the active consumer - dispatches the queue before it
   returns, a dispatch ends only where no consumer is eligible, and the rotation
   finds one wherever the limits, measured by what is really outstanding, leave
   room. *)
THEOREM NothingIsHeldBack == ASSUME ServedAlone PROVE Spec => []NothingHeldBack
<1>1. Registry /\ Settlement /\ WorkInv /\ [Next]_vars => Registry' /\ Settlement' /\ WorkInv'
  <2> SUFFICES ASSUME Registry, Settlement, WorkInv, [Next]_vars
               PROVE  Registry' /\ Settlement' /\ WorkInv'
    OBVIOUS
  <2>1. Registry'
    BY RegistryStep
  <2>2. Settlement'
    BY SettlementStep DEF ServedAlone
  <2> QED
    BY <2>1, <2>2, WorkStep
<1>2. Registry /\ WorkInv => NothingHeldBack
  <2> SUFFICES ASSUME Registry, WorkInv, Idle, NEW q \in Queues, store[q] # <<>>,
                      NEW i \in DOMAIN byQueue[q], q \in SacQueues => i = 1
               PROVE  ~HasRoom(byQueue[q][i])
    BY DEF NothingHeldBack
  <2>1. Served(q)
    BY SmallCalls DEF WorkInv, Dispatching, Idle
  <2>2. i \in 1 .. Len(byQueue[q]) /\ byQueue[q][i] \in Tags
    BY QueueOf DEF Registry
  <2> QED
    BY <2>1, <2>2 DEF Served
<1> QED
  BY <1>1, <1>2, RegistryInit, SettlementInit, WorkInit, PTL DEF Spec
=============================================================================
