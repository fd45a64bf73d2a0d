---------------------------- MODULE ConfirmChannel ----------------------------
(***************************************************************************)
(* A confirm channel of the amqplib adapter: AmqplibChannel, which gives    *)
(* every publish a callback, over the ApiChannel that confirms publishes    *)
(* (rabbit-amqplib/src/channel.ts and connection.ts, publish,               *)
(* waitForConfirms and close of rabbit-box/src/api/channel.ts).             *)
(*                                                                         *)
(* The adapter keeps its own count of publishes, which has to stay in step  *)
(* with the delivery tags of the channel it wraps although confirms come    *)
(* back while publish runs, client code runs inside them, and that code may *)
(* publish, wait, close or throw.  What the broker does with a message is   *)
(* the subject of module Publishing: here it takes it or throws.            *)
(***************************************************************************)
EXTENDS Naturals, FiniteSets, Sequences

CONSTANTS
  Waits,         \* calls of waitForConfirms the clients may make
  Concurrent,    \* how many of them may be under way at once
  Throwers,      \* where client code may throw: "returned", "acked", "nacked"
  MaxPublishes,  \* bound: publishes
  MaxNesting     \* bound: client code run by client code

Ids == 1 .. MaxPublishes

ASSUME ConfirmAssumption ==
  /\ IsFiniteSet(Waits)
  /\ Concurrent \in Nat
  /\ Throwers \subseteq {"returned", "acked", "nacked"}
  /\ MaxPublishes \in Nat
  /\ MaxNesting \in Nat

VARIABLES
  innerOpen,         \* state of the wrapped ApiChannel and its Channel
  tagSeq,            \* Channel.publisherDeliveryTagSeq
  pendingConfirms,   \* ApiChannel.pendingConfirms
  confirmWaiters,    \* ApiChannel.confirmWaiters: the waits they belong to
  closed,            \* AmqplibChannel.closed
  confirmSeq,        \* AmqplibChannel.confirmSeq
  confirmCallbacks,  \* AmqplibChannel.confirmCallbacks
  hasNacked,         \* AmqplibChannel.hasNacked
  call,              \* frames of the synchronous call in progress
  resumed,           \* waits whose inner promise is resolved
  made,              \* history: publishes made
  taken,             \* history: publishes the broker took
  nacked,            \* history: delivery tags of 'nack' events
  told,              \* history: what the callback of each publish was told
  answer,            \* history: how each wait ended
  reported,          \* history: nacked tags that waits have reported
  stranded,          \* history: waits passed over by a callback that threw
  owed               \* history: tags each wait is to answer for

innerVars == <<innerOpen, tagSeq, pendingConfirms, confirmWaiters>>
adapterVars == <<closed, confirmSeq, confirmCallbacks, hasNacked>>
historyVars == <<made, taken, nacked, told, answer, reported, stranded, owed>>
vars == <<innerVars, adapterVars, call, resumed, historyVars>>

-----------------------------------------------------------------------------
(* Types *)

Callback == [tag : Nat, id : Ids]

(* A publish under way: in the pipeline, after its message was returned, while
   its ack or its nack is delivered; and client code that runs inside it. *)
Publishing == [do : {"pipeline", "returned", "acked", "nacked"}, id : Ids, tag : Nat]
Listener == [do |-> "listener"]
Frame == Publishing \cup {Listener}

TypeOK ==
  /\ innerOpen \in BOOLEAN
  /\ tagSeq \in Nat
  /\ pendingConfirms \subseteq 1 .. tagSeq
  /\ confirmWaiters \subseteq Waits
  /\ closed \in BOOLEAN
  /\ confirmSeq \in Nat
  /\ confirmCallbacks \subseteq Callback
  /\ hasNacked \in BOOLEAN
  /\ call \in Seq(Frame)
  /\ resumed \subseteq Waits
  /\ made \in 0 .. MaxPublishes
  /\ taken \subseteq Ids
  /\ nacked \subseteq Nat
  /\ told \in [Ids -> Seq({"ack", "nack"})]
  /\ answer \in [Waits -> {"none", "resolved", "rejected"}]
  /\ reported \subseteq nacked
  /\ stranded \subseteq confirmWaiters
  /\ owed \in [Waits -> SUBSET Nat]

Push(frame, frames) == <<frame>> \o frames

Idle == call = <<>>
Top == call[1]
InPublish(kinds) == IF Idle THEN FALSE ELSE Top.do \in kinds
InListener == InPublish({"listener"})
Calls == Idle \/ InListener
Nesting == Cardinality({i \in DOMAIN call : call[i].do = "listener"})

Init ==
  /\ innerOpen = TRUE
  /\ tagSeq = 0
  /\ pendingConfirms = {}
  /\ confirmWaiters = {}
  /\ closed = FALSE
  /\ confirmSeq = 0
  /\ confirmCallbacks = {}
  /\ hasNacked = FALSE
  /\ call = <<>>
  /\ resumed = {}
  /\ made = 0
  /\ taken = {}
  /\ nacked = {}
  /\ told = [i \in Ids |-> <<>>]
  /\ answer = [w \in Waits |-> "none"]
  /\ reported = {}
  /\ stranded = {}
  /\ owed = [w \in Waits |-> {}]

-----------------------------------------------------------------------------
(* Confirms *)

CalledOldest(tag) ==
  {e \in confirmCallbacks : \A f \in confirmCallbacks : e.tag <= f.tag}
Called(tag) == {e \in confirmCallbacks : e.tag = tag}

Kept(tag) == confirmCallbacks
Forgotten(tag) == confirmCallbacks \ Called(tag)

(* The adapter's listener of 'ack' and 'nack': the callback is forgotten, then
   called, with the publish that waits for the end of the event below it. *)
Tell(word, frame, rest) ==
  LET callbacks == Called(frame.tag)
  IN  /\ confirmCallbacks' = Forgotten(frame.tag)
      /\ told' = [i \in Ids |-> IF \E e \in callbacks : e.id = i
                                THEN Append(told[i], word) ELSE told[i]]
      /\ call' = IF callbacks = {} THEN Push(frame, rest)
                 ELSE Push(Listener, Push(frame, rest))

NackSeenByCallback(tag) == hasNacked \/ Called(tag) # {}
NackSeen(tag) == TRUE

(* The catch block of ApiChannel.publish, for whatever was thrown in its try. *)
Catch(frame, rest) ==
  /\ pendingConfirms' = pendingConfirms \ {frame.tag}
  /\ hasNacked' = NackSeen(frame.tag)
  /\ nacked' = nacked \cup {frame.tag}
  /\ Tell("nack", [frame EXCEPT !.do = "nacked"], rest)

DrainedAlways == TRUE
DrainedByAcks == Top.do = "acked" /\ pendingConfirms = {}
Drained == pendingConfirms = {}

(* drainConfirmWaiters *)
DrainConfirmWaiters ==
  IF Drained
  THEN /\ resumed' = resumed \cup confirmWaiters
       /\ confirmWaiters' = {}
       /\ stranded' = {}
  ELSE UNCHANGED <<resumed, confirmWaiters, stranded>>

-----------------------------------------------------------------------------
(* Steps of the publish in progress *)

(* A mandatory message that no queue gets is returned; its listener runs. *)
PipelineReturn ==
  /\ InPublish({"pipeline"})
  /\ call' = Push(Listener, Push([Top EXCEPT !.do = "returned"], Tail(call)))
  /\ UNCHANGED <<innerVars, adapterVars, resumed, historyVars>>

(* The pipeline returns: the tag is no longer pending, its ack is emitted. *)
PipelineEnd ==
  /\ InPublish({"pipeline", "returned"})
  /\ pendingConfirms' = pendingConfirms \ {Top.tag}
  /\ taken' = taken \cup {Top.id}
  /\ Tell("ack", [Top EXCEPT !.do = "acked"], Tail(call))
  /\ UNCHANGED <<innerOpen, tagSeq, confirmWaiters, closed, confirmSeq, hasNacked,
                 resumed, made, nacked, answer, reported, stranded, owed>>

(* The pipeline throws: no such exchange, an internal one, a broken binding. *)
PipelineThrow ==
  /\ InPublish({"pipeline"})
  /\ Catch(Top, Tail(call))
  /\ UNCHANGED <<innerOpen, tagSeq, confirmWaiters, closed, confirmSeq,
                 resumed, made, taken, answer, reported, stranded, owed>>

(* The event is over: publish returns, or throws to its caller. *)
ConfirmEnd ==
  /\ InPublish({"acked", "nacked"})
  /\ DrainConfirmWaiters
  /\ call' = Tail(call)
  /\ UNCHANGED <<innerOpen, tagSeq, pendingConfirms, adapterVars,
                 made, taken, nacked, told, answer, reported, owed>>

ListenerReturn ==
  /\ InListener
  /\ call' = Tail(call)
  /\ UNCHANGED <<innerVars, adapterVars, resumed, historyVars>>

(* Client code throws into the try of the publish that called it, be its
   message returned or already acked. *)
ListenerThrow ==
  /\ InListener /\ call[2].do \in Throwers \ {"nacked"}
  /\ Catch(call[2], Tail(Tail(call)))
  /\ UNCHANGED <<innerOpen, tagSeq, confirmWaiters, closed, confirmSeq,
                 resumed, made, taken, answer, reported, stranded, owed>>

(* Client code told of a nack throws out of the catch: publish ends before
   drainConfirmWaiters. *)
ListenerThrowNacked ==
  /\ InListener /\ call[2].do \in Throwers \cap {"nacked"}
  /\ call' = Tail(Tail(call))
  /\ stranded' = IF Drained THEN confirmWaiters ELSE stranded
  /\ UNCHANGED <<innerVars, adapterVars, resumed,
                 made, taken, nacked, told, answer, reported, owed>>

RunCall ==
  \/ PipelineReturn \/ PipelineEnd \/ PipelineThrow
  \/ ConfirmEnd \/ ListenerReturn \/ ListenerThrow \/ ListenerThrowNacked

-----------------------------------------------------------------------------
(* Operations of the clients, between calls or in a listener or callback *)

CountedWithCallback(callback) == IF callback THEN confirmSeq + 1 ELSE confirmSeq
Counted(callback) == confirmSeq + 1

PostIncremented == tagSeq
NextPublisherDeliveryTag == tagSeq + 1

(* AmqplibChannel.publish and sendToQueue.  The publish is counted and its
   callback kept before the wrapped channel is asked, which throws if its
   connection closed it. *)
Publish(callback) ==
  /\ Calls /\ ~closed
  /\ made < MaxPublishes /\ Nesting <= MaxNesting
  /\ made' = made + 1
  /\ confirmSeq' = Counted(callback)
  /\ confirmCallbacks' = IF callback
       THEN confirmCallbacks \cup {[tag |-> confirmSeq + 1, id |-> made + 1]}
       ELSE confirmCallbacks
  /\ \/ /\ innerOpen
        /\ tagSeq' = NextPublisherDeliveryTag
        /\ pendingConfirms' = pendingConfirms \cup {NextPublisherDeliveryTag}
        /\ call' = Push([do |-> "pipeline", id |-> made + 1,
                       tag |-> NextPublisherDeliveryTag], call)
     \/ /\ ~innerOpen
        /\ UNCHANGED <<tagSeq, pendingConfirms, call>>
  /\ UNCHANGED <<innerOpen, confirmWaiters, closed, hasNacked, resumed,
                 taken, nacked, told, answer, reported, stranded, owed>>

UnderWay == confirmWaiters \cup resumed

(* waitForConfirms of the adapter, up to its await: the inner promise is
   resolved at once, or put among the waiters. *)
WaitForConfirms(w) ==
  /\ Calls /\ ~closed /\ innerOpen
  /\ w \notin UnderWay /\ answer[w] = "none"
  /\ Cardinality(UnderWay) < Concurrent
  /\ owed' = [owed EXCEPT ![w] = (1 .. tagSeq) \ reported]
  /\ IF pendingConfirms = {}
     THEN resumed' = resumed \cup {w} /\ UNCHANGED confirmWaiters
     ELSE confirmWaiters' = confirmWaiters \cup {w} /\ UNCHANGED resumed
  /\ UNCHANGED <<innerOpen, tagSeq, pendingConfirms, adapterVars, call,
                 made, taken, nacked, told, answer, reported, stranded>>

(* It goes on after the await: a nack seen since the last time is reported. *)
Resume(w) ==
  /\ Idle /\ w \in resumed
  /\ resumed' = resumed \ {w}
  /\ answer' = [answer EXCEPT ![w] = IF hasNacked THEN "rejected" ELSE "resolved"]
  /\ reported' = IF hasNacked THEN nacked ELSE reported
  /\ hasNacked' = FALSE
  /\ UNCHANGED <<innerVars, closed, confirmSeq, confirmCallbacks, call,
                 made, taken, nacked, told, stranded, owed>>

(* AmqplibChannel.close closes the wrapped channel; a connection that closes
   closes the wrapped channel only. *)
Close ==
  /\ Calls /\ ~closed
  /\ closed' = TRUE
  /\ innerOpen' = FALSE
  /\ UNCHANGED <<tagSeq, pendingConfirms, confirmWaiters, confirmSeq, confirmCallbacks,
                 hasNacked, call, resumed, historyVars>>

CloseConnection ==
  /\ Calls /\ innerOpen
  /\ innerOpen' = FALSE
  /\ UNCHANGED <<tagSeq, pendingConfirms, confirmWaiters, adapterVars, call, resumed,
                 historyVars>>

ClientNext ==
  \/ \E callback \in BOOLEAN : Publish(callback)
  \/ \E w \in Waits : WaitForConfirms(w)
  \/ Close \/ CloseConnection

Next ==
  \/ RunCall
  \/ ClientNext
  \/ \E w \in Waits : Resume(w)

(* A call runs to its end, whatever client code it runs comes to an end, and
   promises that are resolved are delivered. *)
Fairness ==
  /\ WF_vars(RunCall)
  /\ \A w \in Waits : WF_vars(Resume(w))

Spec == Init /\ [][Next]_vars /\ Fairness

-----------------------------------------------------------------------------
(* Properties *)

(* The callback of a publish is called at most once, and told what became of
   its own message, although other publishes may begin and end, with or without
   callbacks and in the middle of it, before it is called.  A message that was
   returned to a listener that threw was not taken. *)
CallbacksTruthful ==
  \A i \in Ids :
    /\ Len(told[i]) <= 1
    /\ told[i] = <<"ack">> => i \in taken
    /\ told[i] = <<"nack">> => i \notin taken

(* When no call is in progress no callback is left waiting, but for those of
   publishes that threw because the wrapped channel was closed: no nesting of
   publishes, exceptions and closes makes the adapter forget one. *)
CallbacksAnswered ==
  Idle => \A e \in confirmCallbacks : e.tag > tagSeq

(* waitForConfirms does not come back before every publish made before it is
   confirmed, even if it was called in the middle of one ("resolves when all
   outstanding confirms received"). *)
WaitsForAll ==
  \A w \in resumed \cup {w \in Waits : answer[w] # "none"} :
    owed[w] \cap pendingConfirms = {}

(* A wait that resolves tells the truth: of the publishes made before it, and
   not reported by an earlier wait, none was nacked ("waitForConfirms rejects if
   any outstanding publish was nacked").  Stated for clients that wait once at a
   time: of two waits under way only the first to go on rejects. *)
ResolvedMeansAcked ==
  \A w \in Waits : answer[w] = "resolved" => owed[w] \cap nacked = {}

(* Every wait comes to an end, also when a listener throws into the publish it
   was called from, when the channel is closed in the middle of it, and when
   only nested publishes are confirmed after it: all but those a callback told
   of a nack leaves behind by throwing. *)
WaitsEnd == \A w \in Waits : w \in UnderWay ~> answer[w] # "none" \/ w \in stranded
=============================================================================
