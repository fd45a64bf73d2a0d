---------------------------- MODULE ConfirmProofs ----------------------------
(***************************************************************************)
(* Proofs about ConfirmChannel, for every number of publishes and waits and *)
(* every depth of nesting: the adapter's callbacks and waits of module       *)
(* ConfirmChannel are truthful.                                              *)
(*                                                                         *)
(* The argument is that the adapter's count is the wrapped channel's own as  *)
(* long as that is open (Sync), so that a callback is kept under the tag of  *)
(* the very publish it was given to, and that the publishes under way are a  *)
(* stack: the newer one has the greater tag and none is there twice          *)
(* (Stack).  A callback still kept for a tag that was given belongs to a  *)
(* publish on the stack that is not confirmed yet (CallbacksOK, OpenOK).     *)
(***************************************************************************)
EXTENDS ConfirmChannel, SequenceTheorems, FiniteSetTheorems, TLAPS

Sync ==
  /\ made = confirmSeq
  /\ tagSeq <= confirmSeq
  /\ innerOpen => tagSeq = confirmSeq

(* The stack of frames: what is under way has been given its tag, the newer
   publish the greater one, and client code runs inside a publish. *)
Stack(frames, last) ==
  /\ \A i \in DOMAIN frames : frames[i].do # "listener" =>
       /\ frames[i].tag \in 1 .. last
       /\ frames[i].id = frames[i].tag
       /\ frames[i].do = "pipeline" => i = 1
  /\ \A i, j \in DOMAIN frames :
       /\ i < j
       /\ frames[i].do # "listener"
       /\ frames[j].do # "listener"
       => frames[j].tag < frames[i].tag
  /\ \A i \in DOMAIN frames : frames[i].do = "listener" =>
       /\ i + 1 \in DOMAIN frames
       /\ frames[i + 1].do \in {"returned", "acked", "nacked"}

TagsDoing(frames, kinds) ==
  {t \in Nat : \E i \in DOMAIN frames : frames[i].do \in kinds /\ frames[i].tag = t}

OpenTags(frames) == TagsDoing(frames, {"pipeline", "returned"})
Tags(frames) == TagsDoing(frames, {"pipeline", "returned", "acked", "nacked"})

CallbacksOK ==
  \A e \in confirmCallbacks :
    /\ e.id = e.tag
    /\ e.tag <= confirmSeq
    /\ told[e.tag] = <<>>
    /\ e.tag <= tagSeq => e.tag \in OpenTags(call)

OpenOK == \A t \in OpenTags(call) : t \notin taken /\ told[t] = <<>>

Fresh == \A i \in Ids : i > tagSeq => told[i] = <<>> /\ i \notin taken

IInv ==
  /\ TypeOK
  /\ Sync
  /\ Stack(call, tagSeq)
  /\ CallbacksOK
  /\ OpenOK
  /\ Fresh
  /\ CallbacksTruthful

(* For the waits: what a wait answers for was published before it. *)
OwedOK == \A w \in Waits : owed[w] \subseteq 1 .. tagSeq

(* For waits one at a time: nacks not reported yet are known to the adapter,
   what a wait under way answers for is not reported yet, and what one that is
   over answers for is not under way. *)
NacksKnown == ~hasNacked => nacked \subseteq reported
OneAtATime == (\A v, w \in UnderWay : v = w) /\ confirmWaiters \cap resumed = {}
OwedUnreported == \A w \in UnderWay : owed[w] \cap reported = {}
AnsweredOver ==
  \A w \in Waits : answer[w] # "none" =>
    /\ w \notin UnderWay
    /\ owed[w] \cap Tags(call) = {}

RInv ==
  /\ NacksKnown
  /\ OneAtATime
  /\ OwedUnreported
  /\ AnsweredOver
  /\ ResolvedMeansAcked

-----------------------------------------------------------------------------
(* Frames *)

LEMMA PublishingIsNoListener ==
  /\ Listener \in Frame
  /\ Listener.do = "listener"
  /\ \A f \in Frame : f.do # "listener" =>
       f \in Publishing /\ f.do \in {"pipeline", "returned", "acked", "nacked"}
  /\ \A f \in Publishing : f \in Frame /\ f.do # "listener" /\ f.tag \in Nat
BY DEF Frame, Publishing, Listener

LEMMA Pushed ==
  ASSUME NEW f \in Frame, NEW s \in Seq(Frame)
  PROVE  /\ Push(f, s) \in Seq(Frame)
         /\ Push(f, s) # <<>>
         /\ 1 \in DOMAIN Push(f, s)
         /\ Push(f, s)[1] = f
         /\ \A i \in DOMAIN s : i + 1 \in DOMAIN Push(f, s) /\ Push(f, s)[i + 1] = s[i]
         /\ \A i \in DOMAIN Push(f, s) :
              i # 1 => i - 1 \in DOMAIN s /\ Push(f, s)[i] = s[i - 1]
<1> DEFINE r == Push(f, s)
<1>1. /\ r \in Seq(Frame)
      /\ Len(r) = Len(s) + 1
      /\ Len(s) \in Nat
      /\ r[1] = f
      /\ \A i \in 1 .. Len(s) : r[i + 1] = s[i]
  BY ConcatProperties DEF Push
<1> HIDE DEF r
<1>2. DOMAIN r = 1 .. Len(s) + 1 /\ DOMAIN s = 1 .. Len(s)
  BY <1>1
<1>3. \A i \in DOMAIN r : i # 1 => i - 1 \in DOMAIN s /\ r[i] = s[i - 1]
  <2> SUFFICES ASSUME NEW i \in DOMAIN r, i # 1
               PROVE  i - 1 \in DOMAIN s /\ r[i] = s[i - 1]
    OBVIOUS
  <2>1. i - 1 \in 1 .. Len(s) /\ (i - 1) + 1 = i
    BY <1>1, <1>2
  <2> QED
    BY <1>1, <1>2, <2>1
<1>4. /\ r # <<>>
      /\ 1 \in DOMAIN r
      /\ \A i \in DOMAIN s : i + 1 \in DOMAIN r /\ r[i + 1] = s[i]
  BY <1>1, <1>2
<1> QED
  BY <1>1, <1>3, <1>4 DEF r

LEMMA Popped ==
  ASSUME NEW s \in Seq(Frame), s # <<>>
  PROVE  /\ Tail(s) \in Seq(Frame)
         /\ s[1] \in Frame
         /\ 1 \in DOMAIN s
         /\ \A i \in DOMAIN Tail(s) : i + 1 \in DOMAIN s /\ Tail(s)[i] = s[i + 1]
         /\ \A i \in DOMAIN s : i # 1 => i - 1 \in DOMAIN Tail(s) /\ Tail(s)[i - 1] = s[i]
<1>1. /\ Len(s) \in Nat \ {0}
      /\ Tail(s) \in Seq(Frame)
      /\ Len(Tail(s)) = Len(s) - 1
      /\ \A i \in 1 .. Len(s) - 1 : Tail(s)[i] = s[i + 1]
  BY HeadTailProperties, EmptySeq
<1>2. DOMAIN s = 1 .. Len(s) /\ DOMAIN Tail(s) = 1 .. Len(s) - 1
  BY <1>1
<1>3. \A i \in DOMAIN s : i # 1 => i - 1 \in DOMAIN Tail(s) /\ Tail(s)[i - 1] = s[i]
  <2> SUFFICES ASSUME NEW i \in DOMAIN s, i # 1
               PROVE  i - 1 \in DOMAIN Tail(s) /\ Tail(s)[i - 1] = s[i]
    OBVIOUS
  <2>1. i - 1 \in 1 .. Len(s) - 1 /\ (i - 1) + 1 = i
    BY <1>1, <1>2
  <2> QED
    BY <1>1, <1>2, <2>1
<1>4. \A i \in DOMAIN Tail(s) : i + 1 \in DOMAIN s
  BY <1>1, <1>2
<1> QED
  BY <1>1, <1>2, <1>3, <1>4

LEMMA PushedTags ==
  ASSUME NEW f \in Frame, NEW s \in Seq(Frame), NEW kinds, "listener" \notin kinds
  PROVE  /\ f.do \in kinds => TagsDoing(Push(f, s), kinds) = TagsDoing(s, kinds) \cup {f.tag}
         /\ f.do \notin kinds => TagsDoing(Push(f, s), kinds) = TagsDoing(s, kinds)
<1> DEFINE r == Push(f, s)
<1>1. /\ r[1] = f
      /\ 1 \in DOMAIN r
      /\ \A i \in DOMAIN s : i + 1 \in DOMAIN r /\ r[i + 1] = s[i]
      /\ \A i \in DOMAIN r : i # 1 => i - 1 \in DOMAIN s /\ r[i] = s[i - 1]
  BY Pushed
<1>2. f.do \in kinds => f.tag \in Nat
  BY PublishingIsNoListener
<1> HIDE DEF r
<1>3. /\ f.do \in kinds => TagsDoing(r, kinds) = TagsDoing(s, kinds) \cup {f.tag}
      /\ f.do \notin kinds => TagsDoing(r, kinds) = TagsDoing(s, kinds)
  BY <1>1, <1>2 DEF TagsDoing
<1> QED
  BY <1>3 DEF r

LEMMA PoppedTags ==
  ASSUME NEW s \in Seq(Frame), s # <<>>, NEW kinds, "listener" \notin kinds
  PROVE  /\ s[1].do \in kinds => TagsDoing(s, kinds) = TagsDoing(Tail(s), kinds) \cup {s[1].tag}
         /\ s[1].do \notin kinds => TagsDoing(s, kinds) = TagsDoing(Tail(s), kinds)
<1> DEFINE r == Tail(s)
<1>1. /\ s[1] \in Frame
      /\ 1 \in DOMAIN s
      /\ \A i \in DOMAIN r : i + 1 \in DOMAIN s /\ r[i] = s[i + 1]
      /\ \A i \in DOMAIN s : i # 1 => i - 1 \in DOMAIN r /\ r[i - 1] = s[i]
  BY Popped
<1>2. s[1].do \in kinds => s[1].tag \in Nat
  BY <1>1, PublishingIsNoListener
<1> HIDE DEF r
<1>3. /\ s[1].do \in kinds => TagsDoing(s, kinds) = TagsDoing(r, kinds) \cup {s[1].tag}
      /\ s[1].do \notin kinds => TagsDoing(s, kinds) = TagsDoing(r, kinds)
  BY <1>1, <1>2 DEF TagsDoing
<1> QED
  BY <1>3 DEF r

LEMMA PushedPublishing ==
  ASSUME NEW f \in Publishing, NEW s \in Seq(Frame), NEW n \in Nat, NEW m \in Nat,
         Stack(s, n), n <= m, f.tag \in 1 .. m, f.id = f.tag,
         TagsDoing(s, {"pipeline"}) = {}, \A t \in Tags(s) : t < f.tag
  PROVE  Stack(Push(f, s), m)
<1> DEFINE r == Push(f, s)
<1>1. /\ DOMAIN s \subseteq Nat /\ DOMAIN r \subseteq Nat
      /\ r[1] = f
      /\ \A i \in DOMAIN s : i + 1 \in DOMAIN r /\ r[i + 1] = s[i]
      /\ \A i \in DOMAIN r : i # 1 => i - 1 \in DOMAIN s /\ r[i] = s[i - 1]
      /\ \A i \in DOMAIN r : i >= 1
  BY Pushed, PublishingIsNoListener
<1>2. f.do # "listener" /\ f.tag \in Nat
  BY PublishingIsNoListener
<1>3. \A i \in DOMAIN s : s[i].do # "listener" =>
        s[i].tag \in Nat /\ s[i].tag \in Tags(s) /\ s[i].do # "pipeline"
  BY PublishingIsNoListener DEF Tags, TagsDoing
<1> HIDE DEF r
<1>4. \A i \in DOMAIN r : r[i].do # "listener" =>
        /\ r[i].tag \in 1 .. m
        /\ r[i].id = r[i].tag
        /\ r[i].do = "pipeline" => i = 1
  BY <1>1, <1>2, <1>3 DEF Stack
<1>5. ASSUME NEW i \in DOMAIN r, NEW j \in DOMAIN r,
             i < j, r[i].do # "listener", r[j].do # "listener"
      PROVE  r[j].tag < r[i].tag
  <2>1. j # 1 /\ i \in Nat /\ j \in Nat
    BY <1>1, <1>5
  <2>2. CASE i = 1
    BY <1>1, <1>3, <1>5, <2>1, <2>2
  <2>3. CASE i # 1
    <3>1. i - 1 \in DOMAIN s /\ j - 1 \in DOMAIN s /\ i - 1 < j - 1
      BY <1>1, <1>5, <2>1, <2>3
    <3>2. r[i] = s[i - 1] /\ r[j] = s[j - 1]
      BY <1>1, <2>1, <2>3
    <3>3. s[j - 1].tag < s[i - 1].tag
      BY <1>5, <3>1, <3>2 DEF Stack
    <3> QED
      BY <3>2, <3>3
  <2> QED
    BY <2>2, <2>3
<1>6. ASSUME NEW i \in DOMAIN r, r[i].do = "listener"
      PROVE  i + 1 \in DOMAIN r /\ r[i + 1].do \in {"returned", "acked", "nacked"}
  <2>1. i # 1 /\ i \in Nat
    BY <1>1, <1>2, <1>6
  <2>2. (i - 1) + 1 = i /\ i - 1 \in DOMAIN s /\ s[i - 1].do = "listener"
    BY <1>1, <1>6, <2>1
  <2>3. i \in DOMAIN s /\ s[i].do \in {"returned", "acked", "nacked"}
    BY <2>2 DEF Stack
  <2> QED
    BY <1>1, <2>3
<1>7. Stack(r, m)
  BY <1>4, <1>5, <1>6 DEF Stack
<1> QED
  BY <1>7 DEF r

LEMMA PushedListener ==
  ASSUME NEW s \in Seq(Frame), NEW n \in Nat, Stack(s, n), s # <<>>,
         s[1].do \in {"returned", "acked", "nacked"}
  PROVE  Stack(Push(Listener, s), n)
<1> DEFINE r == Push(Listener, s)
<1>1. /\ DOMAIN s \subseteq Nat /\ DOMAIN r \subseteq Nat
      /\ 1 \in DOMAIN s
      /\ r[1] = Listener
      /\ \A i \in DOMAIN s : i + 1 \in DOMAIN r /\ r[i + 1] = s[i]
      /\ \A i \in DOMAIN r : i # 1 => i - 1 \in DOMAIN s /\ r[i] = s[i - 1]
      /\ \A i \in DOMAIN r : i >= 1
  BY Pushed, Popped, PublishingIsNoListener
<1>2. Listener.do = "listener"
  BY PublishingIsNoListener
<1> HIDE DEF r
<1>3. ASSUME NEW i \in DOMAIN r, r[i].do # "listener"
      PROVE  r[i].tag \in 1 .. n /\ r[i].id = r[i].tag /\ r[i].do # "pipeline"
  <2>1. i # 1 /\ i \in Nat /\ i - 1 \in DOMAIN s /\ r[i] = s[i - 1]
    BY <1>1, <1>2, <1>3
  <2>2. /\ s[i - 1].tag \in 1 .. n
        /\ s[i - 1].id = s[i - 1].tag
        /\ s[i - 1].do = "pipeline" => i - 1 = 1
    BY <1>3, <2>1 DEF Stack
  <2>3. s[i - 1].do # "pipeline"
    <3>1. CASE i - 1 = 1
      BY <3>1
    <3>2. CASE i - 1 # 1
      BY <2>2, <3>2
    <3> QED
      BY <3>1, <3>2
  <2> QED
    BY <2>1, <2>2, <2>3
<1>4. ASSUME NEW i \in DOMAIN r, NEW j \in DOMAIN r,
             i < j, r[i].do # "listener", r[j].do # "listener"
      PROVE  r[j].tag < r[i].tag
  <2>1. i # 1 /\ j # 1 /\ i - 1 \in DOMAIN s /\ j - 1 \in DOMAIN s /\ i - 1 < j - 1
    BY <1>1, <1>2, <1>4
  <2>2. r[i] = s[i - 1] /\ r[j] = s[j - 1]
    BY <1>1, <2>1
  <2>3. s[j - 1].tag < s[i - 1].tag
    BY <1>4, <2>1, <2>2 DEF Stack
  <2> QED
    BY <2>2, <2>3
<1>5. ASSUME NEW i \in DOMAIN r, r[i].do = "listener"
      PROVE  i + 1 \in DOMAIN r /\ r[i + 1].do \in {"returned", "acked", "nacked"}
  <2>1. CASE i = 1
    BY <1>1, <2>1
  <2>2. CASE i # 1
    <3>1. i - 1 \in DOMAIN s /\ s[i - 1].do = "listener"
      BY <1>1, <1>5, <2>2
    <3>2. (i - 1) + 1 \in DOMAIN s /\ s[(i - 1) + 1].do \in {"returned", "acked", "nacked"}
      BY <3>1 DEF Stack
    <3>3. (i - 1) + 1 = i
      BY <1>1
    <3> QED
      BY <1>1, <3>2, <3>3
  <2> QED
    BY <2>1, <2>2
<1>6. Stack(r, n)
  BY <1>3, <1>4, <1>5 DEF Stack
<1> QED
  BY <1>6 DEF r

LEMMA PoppedStack ==
  ASSUME NEW s \in Seq(Frame), NEW n \in Nat, Stack(s, n), s # <<>>
  PROVE  /\ Stack(Tail(s), n)
         /\ TagsDoing(Tail(s), {"pipeline"}) = {}
         /\ s[1].do # "listener" => \A t \in Tags(Tail(s)) : t < s[1].tag
         /\ s[1].do = "listener" =>
              /\ Tail(s) # <<>>
              /\ Tail(s)[1] = s[2]
              /\ s[2].do \in {"returned", "acked", "nacked"}
<1> DEFINE r == Tail(s)
<1>1. /\ DOMAIN s \subseteq Nat /\ DOMAIN r \subseteq Nat
      /\ 1 \in DOMAIN s
      /\ r \in Seq(Frame)
      /\ \A i \in DOMAIN r : i >= 1 /\ i + 1 \in DOMAIN s /\ r[i] = s[i + 1]
      /\ \A i \in DOMAIN s : i # 1 => i - 1 \in DOMAIN r /\ r[i - 1] = s[i]
  BY Popped
<1>2. r = <<>> => DOMAIN r = {}
  OBVIOUS
<1> HIDE DEF r
<1>3. \A i \in DOMAIN r : r[i].do # "listener" =>
        r[i].tag \in 1 .. n /\ r[i].id = r[i].tag /\ r[i].do # "pipeline"
  <2> SUFFICES ASSUME NEW i \in DOMAIN r, r[i].do # "listener"
               PROVE  r[i].tag \in 1 .. n /\ r[i].id = r[i].tag /\ r[i].do # "pipeline"
    OBVIOUS
  <2>1. i + 1 \in DOMAIN s /\ r[i] = s[i + 1] /\ i + 1 # 1
    BY <1>1
  <2> QED
    BY <2>1 DEF Stack
<1>4. ASSUME NEW i \in DOMAIN r, NEW j \in DOMAIN r,
             i < j, r[i].do # "listener", r[j].do # "listener"
      PROVE  r[j].tag < r[i].tag
  <2>1. i + 1 \in DOMAIN s /\ j + 1 \in DOMAIN s /\ i + 1 < j + 1
    BY <1>1, <1>4
  <2>2. r[i] = s[i + 1] /\ r[j] = s[j + 1]
    BY <1>1
  <2>3. s[j + 1].tag < s[i + 1].tag
    BY <1>4, <2>1, <2>2 DEF Stack
  <2> QED
    BY <2>2, <2>3
<1>5. ASSUME NEW i \in DOMAIN r, r[i].do = "listener"
      PROVE  i + 1 \in DOMAIN r /\ r[i + 1].do \in {"returned", "acked", "nacked"}
  <2>1. i + 1 \in DOMAIN s /\ s[i + 1].do = "listener" /\ i \in Nat /\ i >= 1
    BY <1>1, <1>5
  <2>2. (i + 1) + 1 \in DOMAIN s /\ s[(i + 1) + 1].do \in {"returned", "acked", "nacked"}
    BY <2>1 DEF Stack
  <2>3. ((i + 1) + 1) - 1 = i + 1 /\ (i + 1) + 1 # 1
    BY <2>1
  <2> QED
    BY <1>1, <2>2, <2>3
<1>6. Stack(r, n) /\ TagsDoing(r, {"pipeline"}) = {}
  BY <1>3, <1>4, <1>5 DEF Stack, TagsDoing
<1>7. ASSUME s[1].do # "listener", NEW t \in Tags(r)
      PROVE  t < s[1].tag
  <2>1. PICK i \in DOMAIN r : r[i].do # "listener" /\ r[i].tag = t
    BY <1>7 DEF Tags, TagsDoing
  <2>2. i + 1 \in DOMAIN s /\ s[i + 1] = r[i] /\ 1 < i + 1
    BY <1>1
  <2> QED
    BY <1>1, <1>7, <2>1, <2>2 DEF Stack
<1>8. ASSUME s[1].do = "listener"
      PROVE  r # <<>> /\ r[1] = s[2] /\ s[2].do \in {"returned", "acked", "nacked"}
  <2>1. 1 + 1 = 2 /\ 2 - 1 = 1
    OBVIOUS
  <2>2. 2 \in DOMAIN s /\ s[2].do \in {"returned", "acked", "nacked"}
    BY <1>1, <1>8, <2>1 DEF Stack
  <2>3. 1 \in DOMAIN r /\ r[1] = s[2]
    BY <1>1, <2>1, <2>2
  <2> QED
    BY <1>2, <2>2, <2>3
<1> QED
  BY <1>6, <1>7, <1>8 DEF r

LEMMA ListenerTags ==
  ASSUME NEW s \in Seq(Frame)
  PROVE  Tags(Push(Listener, s)) = Tags(s) /\ OpenTags(Push(Listener, s)) = OpenTags(s)
<1>1. Listener \in Frame /\ Listener.do = "listener"
  BY PublishingIsNoListener
<1>2. ASSUME NEW kinds, "listener" \notin kinds
      PROVE  TagsDoing(Push(Listener, s), kinds) = TagsDoing(s, kinds)
  <2>1. Listener.do \notin kinds
    BY <1>1, <1>2, Zenon
  <2> QED
    BY <1>1, <1>2, <2>1, PushedTags, Zenon
<1>3. "listener" \notin {"pipeline", "returned"}
      /\ "listener" \notin {"pipeline", "returned", "acked", "nacked"}
  OBVIOUS
<1> QED
  BY <1>2, <1>3, Zenon DEF Tags, OpenTags

(* The publish on top of the stack goes on to its next stage. *)
LEMMA Replaced ==
  ASSUME NEW s \in Seq(Frame), s # <<>>, NEW n \in Nat, Stack(s, n), s[1].do # "listener",
         NEW f \in Publishing, f.do \in {"returned", "acked", "nacked"},
         f.tag = s[1].tag, f.id = s[1].id
  PROVE  /\ f.tag \in 1 .. n /\ f.id = f.tag
         /\ Push(f, Tail(s)) \in Seq(Frame)
         /\ Push(f, Tail(s)) # <<>>
         /\ Push(f, Tail(s))[1] = f
         /\ Stack(Push(f, Tail(s)), n)
         /\ Tags(Push(f, Tail(s))) = Tags(s)
         /\ f.do = "returned" /\ s[1].do = "pipeline" =>
              OpenTags(Push(f, Tail(s))) = OpenTags(s)
         /\ f.do # "returned" => OpenTags(Push(f, Tail(s))) = OpenTags(s) \ {f.tag}
<1> DEFINE t == f.tag
           r == Tail(s)
           all == {"pipeline", "returned", "acked", "nacked"}
           open == {"pipeline", "returned"}
<1>1. f \in Frame /\ t \in Nat /\ r \in Seq(Frame) /\ s[1] \in Frame /\ s[1].do \in all
  BY Popped, PublishingIsNoListener
<1>2. t \in 1 .. n /\ f.id = t
  BY Popped DEF Stack
<1>3. /\ Stack(r, n)
      /\ TagsDoing(r, {"pipeline"}) = {}
      /\ \A u \in Tags(r) : u < t
  BY PoppedStack
<1>4. Stack(Push(f, r), n)
  <2>1. n <= n
    OBVIOUS
  <2> QED
    BY <1>2, <1>3, <1>1, <2>1, PushedPublishing, Zenon
<1>5. TagsDoing(s, all) = TagsDoing(r, all) \cup {t}
  BY <1>1, PoppedTags
<1>6. TagsDoing(Push(f, r), all) = TagsDoing(r, all) \cup {t}
  <2>1. f.do \in all /\ "listener" \notin all
    OBVIOUS
  <2> QED
    BY <1>1, <2>1, PushedTags
<1>7. /\ s[1].do \in open => TagsDoing(s, open) = TagsDoing(r, open) \cup {t}
      /\ s[1].do \notin open => TagsDoing(s, open) = TagsDoing(r, open)
  BY <1>1, PoppedTags
<1>8. /\ f.do \in open => TagsDoing(Push(f, r), open) = TagsDoing(r, open) \cup {t}
      /\ f.do \notin open => TagsDoing(Push(f, r), open) = TagsDoing(r, open)
  <2>1. "listener" \notin open
    OBVIOUS
  <2> QED
    BY <1>1, <2>1, PushedTags, Zenon
<1>9. t \notin TagsDoing(r, open)
  <2>1. TagsDoing(r, open) \subseteq Tags(r)
    BY DEF Tags, TagsDoing
  <2>2. ~(t < t)
    BY <1>1
  <2> QED
    BY <1>3, <2>1, <2>2
<1>10. f.do = "returned" /\ s[1].do = "pipeline" => TagsDoing(Push(f, r), open) = TagsDoing(s, open)
  BY <1>7, <1>8
<1>11. f.do # "returned" => TagsDoing(Push(f, r), open) = TagsDoing(s, open) \ {t}
  BY <1>7, <1>8, <1>9
<1> QED
  BY <1>1, <1>2, <1>4, <1>5, <1>6, <1>10, <1>11, Pushed DEF Tags, OpenTags

-----------------------------------------------------------------------------
(* The event that tells what became of a publish.  `base` is the stack from the
   publish down: the whole stack, or what is below the client code that threw. *)

LEMMA ToldOnce ==
  ASSUME IInv,
         NEW base \in Seq(Frame), base # <<>>, base[1].do # "listener",
         Stack(base, tagSeq), OpenTags(base) = OpenTags(call),
         NEW word \in {"ack", "nack"}, NEW kind \in {"acked", "nacked"},
         Tell(word, [base[1] EXCEPT !.do = kind], Tail(base)),
         \/ word = "nack" /\ taken' = taken
         \/ /\ word = "ack"
            /\ taken' = taken \cup {base[1].id}
            /\ base[1].do \in {"pipeline", "returned"},
         UNCHANGED <<innerOpen, tagSeq, confirmSeq, made>>
  PROVE  /\ call' \in Seq(Frame)
         /\ Stack(call', tagSeq)
         /\ Tags(call') = Tags(base)
         /\ confirmCallbacks' \subseteq Callback
         /\ taken' \subseteq Ids
         /\ told' \in [Ids -> Seq({"ack", "nack"})]
         /\ CallbacksOK' /\ OpenOK' /\ Fresh' /\ CallbacksTruthful'
<1> DEFINE frame == [base[1] EXCEPT !.do = kind]
           t == base[1].tag
           callbacks == Called(t)
           event == Push(frame, Tail(base))
<1>1. base[1] \in Publishing
  BY Popped, PublishingIsNoListener
<1>2. /\ frame \in Publishing /\ frame \in Frame
      /\ frame.do = kind /\ frame.tag = t /\ frame.id = base[1].id
  BY <1>1, PublishingIsNoListener DEF Publishing
<1> HIDE DEF frame
<1>3. tagSeq \in Nat /\ confirmSeq \in Nat /\ tagSeq <= confirmSeq /\ made = confirmSeq
      /\ made \in 0 .. MaxPublishes
  BY DEF IInv, TypeOK, Sync
<1>4. /\ t \in 1 .. tagSeq /\ base[1].id = t
      /\ event \in Seq(Frame) /\ event # <<>> /\ event[1] = frame
      /\ Stack(event, tagSeq)
      /\ Tags(event) = Tags(base)
      /\ OpenTags(event) = OpenTags(base) \ {t}
  BY <1>2, <1>3, Replaced
<1>5. t \in Ids
  BY <1>3, <1>4, ConfirmAssumption DEF Ids
<1> HIDE DEF event
<1>6. /\ Push(Listener, event) \in Seq(Frame)
      /\ Stack(Push(Listener, event), tagSeq)
      /\ Tags(Push(Listener, event)) = Tags(event)
      /\ OpenTags(Push(Listener, event)) = OpenTags(event)
  <2>1. event[1].do \in {"returned", "acked", "nacked"}
    BY <1>2, <1>4
  <2> QED
    BY <1>3, <1>4, <2>1, Pushed, PushedListener, ListenerTags, PublishingIsNoListener
<1>12. /\ confirmCallbacks' = confirmCallbacks \ callbacks
       /\ told' = [i \in Ids |-> IF \E e \in callbacks : e.id = i
                                 THEN Append(told[i], word) ELSE told[i]]
       /\ call' = event \/ call' = Push(Listener, event)
  BY <1>2 DEF event, frame, Tell, Forgotten
<1> HIDE DEF callbacks
<1>13. /\ call' \in Seq(Frame)
       /\ Stack(call', tagSeq)
       /\ Tags(call') = Tags(base)
       /\ OpenTags(call') = OpenTags(call) \ {t}
  BY <1>4, <1>6, <1>12
<1>14. \A e \in callbacks : e \in confirmCallbacks /\ e.tag = t /\ e.id = t
  BY DEF callbacks, Called, IInv, CallbacksOK
<1>15. \A e \in confirmCallbacks' : e \in confirmCallbacks /\ e.tag # t
  BY <1>12 DEF callbacks, Called
<1>16. told \in [Ids -> Seq({"ack", "nack"})]
  BY DEF IInv, TypeOK
<1>17. /\ \A i \in Ids \ {t} : told'[i] = told[i]
       /\ callbacks = {} => told'[t] = told[t]
       /\ callbacks # {} => told'[t] = <<word>> /\ t \in OpenTags(call)
  <2>1. \A i \in Ids \ {t} : told'[i] = told[i]
    BY <1>12, <1>14
  <2>2. callbacks = {} => told'[t] = told[t]
    BY <1>5, <1>12
  <2>3. ASSUME callbacks # {}
        PROVE  told'[t] = <<word>> /\ t \in OpenTags(call)
    <3>1. told[t] = <<>> /\ t \in OpenTags(call)
      BY <1>4, <1>14, <2>3 DEF IInv, CallbacksOK
    <3>2. told'[t] = Append(told[t], word)
      BY <1>5, <1>12, <1>14, <2>3
    <3> QED
      BY <3>1, <3>2
  <2> QED
    BY <2>1, <2>2, <2>3
<1>18. told' \in [Ids -> Seq({"ack", "nack"})]
  BY <1>12, <1>16
<1>19. /\ confirmCallbacks' \subseteq Callback
       /\ taken' \subseteq Ids
  BY <1>4, <1>5, <1>15 DEF IInv, TypeOK
<1>20. CallbacksOK'
  <2> SUFFICES ASSUME NEW e \in confirmCallbacks'
               PROVE  /\ e.id = e.tag
                      /\ e.tag <= confirmSeq
                      /\ told'[e.tag] = <<>>
                      /\ e.tag <= tagSeq => e.tag \in OpenTags(call')
    BY DEF CallbacksOK, OpenTags, TagsDoing
  <2>1. e \in confirmCallbacks /\ e.tag # t
    BY <1>15
  <2>2. /\ e.id = e.tag /\ e.tag <= confirmSeq /\ told[e.tag] = <<>>
        /\ e.tag <= tagSeq => e.tag \in OpenTags(call)
    BY <2>1 DEF IInv, CallbacksOK
  <2>3. e.id \in Ids
    BY <2>1 DEF IInv, TypeOK, Callback
  <2> QED
    BY <1>13, <1>17, <2>1, <2>2, <2>3
<1>21. OpenOK'
  <2> SUFFICES ASSUME NEW u \in OpenTags(call')
               PROVE  u \notin taken' /\ told'[u] = <<>>
    BY DEF OpenOK, OpenTags, TagsDoing
  <2>1. u \in OpenTags(call) /\ u # t
    BY <1>13
  <2>2. u \notin taken /\ told[u] = <<>>
    BY <2>1 DEF IInv, OpenOK
  <2>3. u \in Ids
    <3>1. u \in 1 .. tagSeq
      BY <2>1 DEF IInv, OpenTags, TagsDoing, Stack
    <3> QED
      BY <1>3, <3>1, ConfirmAssumption DEF Ids
  <2> QED
    BY <1>4, <1>17, <2>1, <2>2, <2>3
<1>22. Fresh'
  <2> SUFFICES ASSUME NEW i \in Ids, i > tagSeq
               PROVE  told'[i] = <<>> /\ i \notin taken'
    BY DEF Fresh
  <2>1. i # t
    BY <1>3, <1>4
  <2>2. told[i] = <<>> /\ i \notin taken
    BY DEF IInv, Fresh
  <2> QED
    BY <1>4, <1>17, <2>1, <2>2
<1>23. CallbacksTruthful'
  <2> SUFFICES ASSUME NEW i \in Ids
               PROVE  /\ Len(told'[i]) <= 1
                      /\ told'[i] = <<"ack">> => i \in taken'
                      /\ told'[i] = <<"nack">> => i \notin taken'
    BY DEF CallbacksTruthful
  <2>1. /\ Len(told[i]) <= 1
        /\ told[i] = <<"ack">> => i \in taken
        /\ told[i] = <<"nack">> => i \notin taken
    BY DEF IInv, CallbacksTruthful
  <2>2. CASE i # t
    BY <1>4, <1>17, <2>1, <2>2
  <2>3. CASE i = t /\ callbacks = {}
    <3>1. told'[i] = told[i]
      BY <1>17, <2>3
    <3>2. CASE taken' = taken
      BY <2>1, <3>1, <3>2
    <3>3. CASE taken' # taken
      <4>1. t \in OpenTags(base)
        BY <1>1, <3>3, Popped DEF OpenTags, TagsDoing, Publishing
      <4>2. told[t] = <<>>
        BY <4>1 DEF IInv, OpenOK
      <4> QED
        BY <2>3, <3>1, <4>2
    <3> QED
      BY <3>2, <3>3
  <2>4. CASE i = t /\ callbacks # {}
    <3>1. told'[i] = <<word>> /\ t \notin taken
      BY <1>17, <2>4 DEF IInv, OpenOK
    <3>2. <<"ack">> # <<"nack">>
      OBVIOUS
    <3> QED
      BY <1>4, <2>4, <3>1, <3>2
  <2> QED
    BY <2>2, <2>3, <2>4
<1> QED
  BY <1>13, <1>18, <1>19, <1>20, <1>21, <1>22, <1>23

-----------------------------------------------------------------------------
(* The steps *)

Core == <<tagSeq, confirmSeq, made, confirmCallbacks, told, taken>>

LEMMA InvStart == Init => IInv
<1> SUFFICES ASSUME Init PROVE IInv
  OBVIOUS
<1>1. TypeOK
  <2>1. /\ call \in Seq(Frame)
        /\ told \in [Ids -> Seq({"ack", "nack"})]
        /\ owed \in [Waits -> SUBSET Nat]
        /\ answer \in [Waits -> {"none", "resolved", "rejected"}]
    BY EmptySeq DEF Init
  <2>2. /\ made \in 0 .. MaxPublishes
        /\ tagSeq \in Nat /\ confirmSeq \in Nat
        /\ pendingConfirms \subseteq 1 .. tagSeq
    BY ConfirmAssumption DEF Init
  <2>3. /\ innerOpen \in BOOLEAN /\ closed \in BOOLEAN /\ hasNacked \in BOOLEAN
        /\ confirmWaiters \subseteq Waits /\ resumed \subseteq Waits
        /\ stranded \subseteq confirmWaiters
        /\ nacked \subseteq Nat /\ reported \subseteq nacked
        /\ taken \subseteq Ids
        /\ confirmCallbacks \subseteq Callback
    BY DEF Init
  <2> QED
    BY <2>1, <2>2, <2>3 DEF TypeOK
<1>2. DOMAIN <<>> = {}
  OBVIOUS
<1> USE DEF Init
<1>3. call = <<>> /\ DOMAIN call = {} /\ tagSeq = 0
  BY <1>2
<1>4. Stack(call, tagSeq) /\ OpenTags(call) = {}
  BY <1>3 DEF Stack, OpenTags, TagsDoing
<1>5. \A i \in Ids : told[i] = <<>> /\ i \notin taken
  OBVIOUS
<1>6. CallbacksTruthful
  <2>1. Len(<<>>) <= 1 /\ <<>> # <<"ack">> /\ <<>> # <<"nack">>
    OBVIOUS
  <2> QED
    BY <1>5, <2>1 DEF CallbacksTruthful
<1> QED
  BY <1>1, <1>4, <1>5, <1>6 DEF IInv, Sync, CallbacksOK, OpenOK, Fresh

(* A step that leaves the publishes as they are. *)
LEMMA FramesOnly ==
  ASSUME IInv, TypeOK', UNCHANGED Core, innerOpen' => innerOpen,
         Stack(call', tagSeq), OpenTags(call') = OpenTags(call)
  PROVE  IInv'
<1>1. Sync' /\ Stack(call, tagSeq)'
  BY DEF IInv, Core, Sync, Stack
<1>2. OpenTags(call)' = OpenTags(call)
  BY DEF OpenTags, TagsDoing
<1>3. CallbacksOK' /\ OpenOK'
  BY <1>2 DEF IInv, Core, CallbacksOK, OpenOK
<1>4. Fresh' /\ CallbacksTruthful'
  BY DEF IInv, Core, Fresh, CallbacksTruthful
<1> QED
  BY <1>1, <1>3, <1>4 DEF IInv

LEMMA InvStutter ==
  ASSUME IInv, UNCHANGED vars
  PROVE  IInv'
<1>1. TypeOK'
  BY DEF IInv, TypeOK, vars, innerVars, adapterVars, historyVars
<1>2. UNCHANGED Core /\ UNCHANGED <<innerOpen, call>>
  BY DEF Core, vars, innerVars, adapterVars, historyVars
<1>3. Stack(call', tagSeq) /\ OpenTags(call') = OpenTags(call)
  BY <1>2 DEF IInv
<1> QED
  BY <1>1, <1>2, <1>3, FramesOnly

LEMMA TopOver ==
  ASSUME IInv, ~Idle, Top.do \in {"acked", "nacked", "listener"}
  PROVE  /\ Tail(call) \in Seq(Frame)
         /\ Stack(Tail(call), tagSeq)
         /\ OpenTags(Tail(call)) = OpenTags(call)
<1>1. call \in Seq(Frame) /\ call # <<>> /\ Stack(call, tagSeq) /\ tagSeq \in Nat
  BY DEF Idle, IInv, TypeOK
<1>2. call[1].do \notin {"pipeline", "returned"} /\ "listener" \notin {"pipeline", "returned"}
  BY DEF Top
<1>3. OpenTags(Tail(call)) = OpenTags(call)
  BY <1>1, <1>2, PoppedTags, Zenon DEF OpenTags
<1> QED
  BY <1>1, <1>3, Popped, PoppedStack

LEMMA InvPipelineReturn ==
  ASSUME IInv, PipelineReturn
  PROVE  IInv'
<1> DEFINE f == [Top EXCEPT !.do = "returned"]
           event == Push(f, Tail(call))
<1>1. /\ call \in Seq(Frame) /\ call # <<>> /\ Stack(call, tagSeq) /\ tagSeq \in Nat
      /\ call[1].do = "pipeline"
  BY DEF PipelineReturn, InPublish, Idle, Top, IInv, TypeOK
<1>2. /\ f \in Publishing
      /\ f.do = "returned" /\ f.tag = call[1].tag /\ f.id = call[1].id
  <2>1. call[1] \in Publishing
    BY <1>1, Popped, PublishingIsNoListener
  <2> QED
    BY <2>1 DEF Publishing, Top
<1> HIDE DEF f
<1>3. /\ event \in Seq(Frame) /\ event # <<>> /\ event[1] = f
      /\ Stack(event, tagSeq) /\ OpenTags(event) = OpenTags(call)
  BY <1>1, <1>2, Replaced
<1>4. /\ Push(Listener, event) \in Seq(Frame)
      /\ Stack(Push(Listener, event), tagSeq)
      /\ OpenTags(Push(Listener, event)) = OpenTags(event)
  <2>1. event[1].do \in {"returned", "acked", "nacked"}
    BY <1>2, <1>3
  <2> QED
    BY <1>1, <1>3, <2>1, Pushed, PushedListener, ListenerTags, PublishingIsNoListener
<1>5. call' = Push(Listener, event)
  BY DEF PipelineReturn, f
<1> HIDE DEF event
<1>6. TypeOK'
  BY <1>4, <1>5 DEF PipelineReturn, IInv, TypeOK, innerVars, adapterVars, historyVars
<1>7. UNCHANGED Core /\ UNCHANGED innerOpen
  BY DEF PipelineReturn, Core, innerVars, adapterVars, historyVars
<1> QED
  BY <1>3, <1>4, <1>5, <1>6, <1>7, FramesOnly

LEMMA InvPipelineEnd ==
  ASSUME IInv, PipelineEnd
  PROVE  IInv'
<1>1. /\ call \in Seq(Frame) /\ call # <<>> /\ Stack(call, tagSeq) /\ tagSeq \in Nat
      /\ call[1].do \in {"pipeline", "returned"} /\ call[1].do # "listener"
  BY DEF PipelineEnd, InPublish, Idle, Top, IInv, TypeOK
<1>2. /\ Tell("ack", [call[1] EXCEPT !.do = "acked"], Tail(call))
      /\ taken' = taken \cup {call[1].id}
      /\ UNCHANGED <<innerOpen, tagSeq, confirmSeq, made>>
  BY DEF PipelineEnd, Top
<1>3. /\ call' \in Seq(Frame) /\ Stack(call', tagSeq)
      /\ confirmCallbacks' \subseteq Callback
      /\ taken' \subseteq Ids
      /\ told' \in [Ids -> Seq({"ack", "nack"})]
      /\ CallbacksOK' /\ OpenOK' /\ Fresh' /\ CallbacksTruthful'
  BY <1>1, <1>2, ToldOnce
<1>4. TypeOK'
  BY <1>3 DEF PipelineEnd, IInv, TypeOK
<1>5. Sync' /\ Stack(call, tagSeq)'
  BY <1>2, <1>3 DEF IInv, Sync, Stack
<1> QED
  BY <1>3, <1>4, <1>5 DEF IInv

(* What Catch does to a publish, from the stack below what threw. *)
LEMMA InvCatch ==
  ASSUME IInv,
         NEW base \in Seq(Frame), base # <<>>, base[1].do # "listener",
         Stack(base, tagSeq), OpenTags(base) = OpenTags(call),
         Catch(base[1], Tail(base)),
         UNCHANGED <<innerOpen, tagSeq, confirmWaiters, closed, confirmSeq,
                     resumed, made, taken, answer, reported, stranded, owed>>
  PROVE  IInv'
<1>1. Tell("nack", [base[1] EXCEPT !.do = "nacked"], Tail(base))
  BY DEF Catch
<1>2. /\ call' \in Seq(Frame) /\ Stack(call', tagSeq)
      /\ confirmCallbacks' \subseteq Callback
      /\ taken' \subseteq Ids
      /\ told' \in [Ids -> Seq({"ack", "nack"})]
      /\ CallbacksOK' /\ OpenOK' /\ Fresh' /\ CallbacksTruthful'
  BY <1>1, ToldOnce
<1>3. base[1].tag \in Nat
  BY Popped, PublishingIsNoListener
<1>4. hasNacked' = TRUE
  BY DEF Catch, NackSeen
<1>5. pendingConfirms' \subseteq pendingConfirms /\ nacked' = nacked \cup {base[1].tag}
  BY DEF Catch
<1>6. TypeOK'
  BY <1>2, <1>3, <1>4, <1>5 DEF IInv, TypeOK
<1>7. Sync' /\ Stack(call, tagSeq)'
  BY <1>2 DEF IInv, Sync, Stack
<1> QED
  BY <1>2, <1>6, <1>7 DEF IInv

LEMMA InvPipelineThrow ==
  ASSUME IInv, PipelineThrow
  PROVE  IInv'
<1>1. /\ call \in Seq(Frame) /\ call # <<>> /\ Stack(call, tagSeq)
      /\ call[1].do # "listener"
  BY DEF PipelineThrow, InPublish, Idle, Top, IInv, TypeOK
<1> QED
  BY <1>1, InvCatch DEF PipelineThrow, Top

LEMMA InvConfirmEnd ==
  ASSUME IInv, ConfirmEnd
  PROVE  IInv'
<1>1. ~Idle /\ Top.do \in {"acked", "nacked", "listener"}
  BY DEF ConfirmEnd, InPublish
<1>2. call' = Tail(call)
  BY DEF ConfirmEnd
<1>3. call' \in Seq(Frame) /\ Stack(call', tagSeq) /\ OpenTags(call') = OpenTags(call)
  BY <1>1, <1>2, TopOver
<1>4. TypeOK'
  BY <1>3 DEF ConfirmEnd, DrainConfirmWaiters, IInv, TypeOK, adapterVars
<1>5. UNCHANGED Core /\ UNCHANGED innerOpen
  BY DEF ConfirmEnd, Core, adapterVars
<1> QED
  BY <1>3, <1>4, <1>5, FramesOnly

LEMMA InvListenerReturn ==
  ASSUME IInv, ListenerReturn
  PROVE  IInv'
<1>1. ~Idle /\ Top.do \in {"acked", "nacked", "listener"}
  BY DEF ListenerReturn, InListener, InPublish
<1>2. call' = Tail(call)
  BY DEF ListenerReturn
<1>3. call' \in Seq(Frame) /\ Stack(call', tagSeq) /\ OpenTags(call') = OpenTags(call)
  BY <1>1, <1>2, TopOver
<1>4. TypeOK'
  BY <1>3 DEF ListenerReturn, IInv, TypeOK, innerVars, adapterVars, historyVars
<1>5. UNCHANGED Core /\ UNCHANGED innerOpen
  BY DEF ListenerReturn, Core, innerVars, adapterVars, historyVars
<1> QED
  BY <1>3, <1>4, <1>5, FramesOnly

(* Below client code there is the publish that called it. *)
LEMMA BelowListener ==
  ASSUME IInv, InListener
  PROVE  /\ Tail(call) \in Seq(Frame)
         /\ Tail(call) # <<>>
         /\ Tail(call)[1] = call[2]
         /\ call[2].do \in {"returned", "acked", "nacked"}
         /\ Stack(Tail(call), tagSeq)
         /\ OpenTags(Tail(call)) = OpenTags(call)
         /\ Tags(Tail(call)) = Tags(call)
<1>1. ~Idle /\ Top.do = "listener"
  BY DEF InListener, InPublish
<1>2. call \in Seq(Frame) /\ call # <<>> /\ Stack(call, tagSeq) /\ tagSeq \in Nat
  BY <1>1 DEF Idle, IInv, TypeOK
<1>3. call[1].do \notin {"pipeline", "returned", "acked", "nacked"}
      /\ "listener" \notin {"pipeline", "returned", "acked", "nacked"}
  BY <1>1 DEF Top
<1>4. Tags(Tail(call)) = Tags(call)
  BY <1>2, <1>3, PoppedTags, Zenon DEF Tags
<1>5. Top.do \in {"acked", "nacked", "listener"}
  BY <1>1
<1> QED
  BY <1>1, <1>2, <1>4, <1>5, TopOver, PoppedStack DEF Top

LEMMA InvListenerThrow ==
  ASSUME IInv, ListenerThrow
  PROVE  IInv'
<1>1. InListener /\ Catch(call[2], Tail(Tail(call)))
  BY DEF ListenerThrow
<1> DEFINE base == Tail(call)
<1>2. /\ base \in Seq(Frame) /\ base # <<>> /\ base[1] = call[2]
      /\ base[1].do # "listener"
      /\ Stack(base, tagSeq) /\ OpenTags(base) = OpenTags(call)
  BY <1>1, BelowListener
<1>3. Catch(base[1], Tail(base))
  BY <1>1, <1>2
<1>4. UNCHANGED <<innerOpen, tagSeq, confirmWaiters, closed, confirmSeq,
                  resumed, made, taken, answer, reported, stranded, owed>>
  BY DEF ListenerThrow
<1> HIDE DEF base
<1> QED
  BY <1>2, <1>3, <1>4, InvCatch

LEMMA InvListenerThrowNacked ==
  ASSUME IInv, ListenerThrowNacked
  PROVE  IInv'
<1> DEFINE base == Tail(call)
<1>1. /\ base \in Seq(Frame) /\ base # <<>> /\ base[1].do = "nacked"
      /\ Stack(base, tagSeq) /\ OpenTags(base) = OpenTags(call) /\ tagSeq \in Nat
  BY BelowListener DEF ListenerThrowNacked, IInv, TypeOK
<1>2. OpenTags(Tail(base)) = OpenTags(base)
  <2>1. base[1].do \notin {"pipeline", "returned"} /\ "listener" \notin {"pipeline", "returned"}
    BY <1>1
  <2> QED
    BY <1>1, <2>1, PoppedTags, Zenon DEF OpenTags
<1>3. Tail(base) \in Seq(Frame) /\ Stack(Tail(base), tagSeq)
  BY <1>1, Popped, PoppedStack
<1>4. call' = Tail(base)
  BY DEF ListenerThrowNacked
<1> HIDE DEF base
<1>5. TypeOK'
  BY <1>3, <1>4 DEF ListenerThrowNacked, IInv, TypeOK, innerVars, adapterVars
<1>6. UNCHANGED Core /\ UNCHANGED innerOpen
  BY DEF ListenerThrowNacked, Core, innerVars, adapterVars
<1> QED
  BY <1>1, <1>2, <1>3, <1>4, <1>5, <1>6, FramesOnly

LEMMA InvPublish ==
  ASSUME IInv, NEW callback \in BOOLEAN, Publish(callback)
  PROVE  IInv'
<1> DEFINE m == made + 1
           f == [do |-> "pipeline", id |-> m, tag |-> tagSeq + 1]
           e == [tag |-> confirmSeq + 1, id |-> m]
<1>1. /\ tagSeq \in Nat /\ confirmSeq \in Nat /\ made = confirmSeq /\ tagSeq <= confirmSeq
      /\ innerOpen => tagSeq = confirmSeq
      /\ call \in Seq(Frame) /\ Stack(call, tagSeq)
      /\ confirmCallbacks \subseteq Callback
  BY DEF IInv, TypeOK, Sync
<1>2. m \in Ids /\ m = confirmSeq + 1 /\ m > tagSeq /\ m \in Nat
  BY <1>1, ConfirmAssumption DEF Publish, Ids
<1>3. /\ made' = m /\ confirmSeq' = m
      /\ confirmCallbacks' = IF callback THEN confirmCallbacks \cup {e} ELSE confirmCallbacks
      /\ UNCHANGED <<innerOpen, told, taken>>
  BY <1>2 DEF Publish, Counted
<1>4. e \in Callback /\ e.tag = m /\ e.id = m
  BY <1>1, <1>2 DEF Callback
<1>5. told[m] = <<>> /\ m \notin taken
  BY <1>2 DEF IInv, Fresh
<1>6. CASE innerOpen /\ tagSeq' = tagSeq + 1
            /\ pendingConfirms' = pendingConfirms \cup {tagSeq + 1} /\ call' = Push(f, call)
  <2>1. m = tagSeq + 1
    BY <1>1, <1>6
  <2>2. f \in Publishing /\ f \in Frame /\ f.do = "pipeline" /\ f.tag = m /\ f.id = m
    BY <1>2, <2>1, PublishingIsNoListener DEF Publishing
  <2> HIDE DEF f
  <2>3. TagsDoing(call, {"pipeline"}) = {}
    <3>1. Idle \/ InListener
      BY DEF Publish, Calls
    <3>2. CASE Idle
      BY <3>2 DEF Idle, TagsDoing
    <3>3. CASE InListener
      <4>1. call # <<>> /\ call[1].do = "listener"
        BY <3>3 DEF InListener, InPublish, Idle, Top
      <4>2. \A i \in DOMAIN call : call[i].do = "pipeline" => i = 1
        BY <1>1 DEF Stack
      <4> QED
        BY <4>1, <4>2 DEF TagsDoing
    <3> QED
      BY <3>1, <3>2, <3>3
  <2>4. \A t \in Tags(call) : t < f.tag
    <3> SUFFICES ASSUME NEW t \in Tags(call)
                 PROVE  t < f.tag
      OBVIOUS
    <3>1. t \in 1 .. tagSeq
      BY <1>1 DEF Tags, TagsDoing, Stack
    <3> QED
      BY <1>1, <2>1, <2>2, <3>1
  <2>5. f.tag \in 1 .. m /\ f.id = f.tag /\ tagSeq <= m
    BY <1>1, <1>2, <2>2
  <2>6. Stack(Push(f, call), m)
    BY <1>1, <1>2, <2>2, <2>3, <2>4, <2>5, PushedPublishing, Zenon
  <2>7. Push(f, call) \in Seq(Frame) /\ OpenTags(Push(f, call)) = OpenTags(call) \cup {m}
    <3>1. f.do \in {"pipeline", "returned"} /\ "listener" \notin {"pipeline", "returned"}
      BY <2>2
    <3>2. OpenTags(Push(f, call)) = OpenTags(call) \cup {f.tag}
      BY <1>1, <2>2, <3>1, PushedTags, Zenon DEF OpenTags
    <3> QED
      BY <1>1, <2>2, <3>2, Pushed
  <2>8. /\ call' \in Seq(Frame) /\ Stack(call', m) /\ OpenTags(call') = OpenTags(call) \cup {m}
        /\ tagSeq' = m /\ pendingConfirms' = pendingConfirms \cup {m}
    BY <1>6, <2>1, <2>6, <2>7
  <2>9. pendingConfirms' \subseteq 1 .. tagSeq'
    BY <1>1, <1>2, <2>1, <2>8 DEF IInv, TypeOK
  <2>10. TypeOK'
    BY SMTT(30), <1>2, <1>3, <1>4, <2>8, <2>9, ConfirmAssumption DEF Publish, IInv, TypeOK, Ids
  <2>11. Sync' /\ Stack(call, tagSeq)'
    BY <1>2, <1>3, <2>8 DEF Sync, Stack
  <2>12. CallbacksOK'
    <3> SUFFICES ASSUME NEW g \in confirmCallbacks'
                 PROVE  /\ g.id = g.tag
                        /\ g.tag <= m
                        /\ told[g.tag] = <<>>
                        /\ g.tag <= m => g.tag \in OpenTags(call')
      BY <1>3, <2>8 DEF CallbacksOK, OpenTags, TagsDoing
    <3>1. CASE g = e
      BY <1>2, <1>4, <1>5, <2>8, <3>1
    <3>2. CASE g \in confirmCallbacks
      <4>1. /\ g.id = g.tag /\ g.tag <= confirmSeq /\ told[g.tag] = <<>>
            /\ g.tag <= tagSeq => g.tag \in OpenTags(call)
        BY <3>2 DEF IInv, CallbacksOK
      <4>2. g.tag \in Nat
        BY <1>1, <3>2 DEF Callback
      <4> QED
        BY <1>1, <1>2, <1>6, <2>8, <4>1, <4>2
    <3> QED
      BY <1>3, <3>1, <3>2
  <2>13. OpenOK'
    <3> SUFFICES ASSUME NEW t \in OpenTags(call')
                 PROVE  t \notin taken /\ told[t] = <<>>
      BY <1>3 DEF OpenOK, OpenTags, TagsDoing
    <3> QED
      BY <1>5, <2>8 DEF IInv, OpenOK
  <2>14. Fresh' /\ CallbacksTruthful'
    <3>1. \A i \in Ids : i > m => i > tagSeq
      BY <1>1, <1>2 DEF Ids
    <3> QED
      BY <1>3, <2>8, <3>1 DEF IInv, Fresh, CallbacksTruthful
  <2> QED
    BY <2>10, <2>11, <2>12, <2>13, <2>14 DEF IInv
<1>7. CASE ~innerOpen /\ UNCHANGED <<tagSeq, pendingConfirms, call>>
  <2>1. TypeOK'
    BY SMTT(30), <1>2, <1>3, <1>4, <1>7, ConfirmAssumption DEF Publish, IInv, TypeOK, Ids
  <2>2. Sync' /\ Stack(call, tagSeq)'
    BY <1>1, <1>2, <1>3, <1>7 DEF Sync, Stack
  <2>3. OpenTags(call)' = OpenTags(call)
    BY <1>7 DEF OpenTags, TagsDoing
  <2>4. CallbacksOK'
    <3> SUFFICES ASSUME NEW g \in confirmCallbacks'
                 PROVE  /\ g.id = g.tag
                        /\ g.tag <= m
                        /\ told[g.tag] = <<>>
                        /\ g.tag <= tagSeq => g.tag \in OpenTags(call)
      BY <1>3, <1>7, <2>3 DEF CallbacksOK
    <3>1. CASE g = e
      BY <1>1, <1>2, <1>4, <1>5, <3>1
    <3>2. CASE g \in confirmCallbacks
      <4>1. g.tag \in Nat
        BY <1>1, <3>2 DEF Callback
      <4> QED
        BY <1>1, <1>2, <3>2, <4>1 DEF IInv, CallbacksOK
    <3> QED
      BY <1>3, <3>1, <3>2
  <2>5. OpenOK' /\ Fresh' /\ CallbacksTruthful'
    BY <1>3, <1>7, <2>3 DEF IInv, OpenOK, Fresh, CallbacksTruthful
  <2> QED
    BY <2>1, <2>2, <2>4, <2>5 DEF IInv
<1> HIDE DEF f, e, m
<1>8. \/ innerOpen /\ tagSeq' = tagSeq + 1
         /\ pendingConfirms' = pendingConfirms \cup {tagSeq + 1} /\ call' = Push(f, call)
      \/ ~innerOpen /\ UNCHANGED <<tagSeq, pendingConfirms, call>>
  BY DEF Publish, NextPublisherDeliveryTag, f, m
<1> QED
  BY <1>6, <1>7, <1>8

LEMMA InvOther ==
  ASSUME IInv,
         \/ \E w \in Waits : WaitForConfirms(w) \/ Resume(w)
         \/ Close \/ CloseConnection
  PROVE  IInv'
<1>1. /\ UNCHANGED Core
      /\ UNCHANGED call
      /\ innerOpen' => innerOpen
  BY DEF WaitForConfirms, Resume, Close, CloseConnection, Core,
         innerVars, adapterVars, historyVars
<1>2. TypeOK'
  <2>1. CASE \E w \in Waits : WaitForConfirms(w)
    <3>1. PICK w \in Waits : WaitForConfirms(w)
      BY <2>1
    <3>2. owed' \in [Waits -> SUBSET Nat] /\ stranded' \subseteq confirmWaiters'
      BY <3>1 DEF WaitForConfirms, IInv, TypeOK
    <3> QED
      BY <3>1, <3>2 DEF WaitForConfirms, IInv, TypeOK, adapterVars
  <2>2. CASE \E w \in Waits : Resume(w)
    BY <2>2 DEF Resume, IInv, TypeOK, innerVars
  <2>3. CASE Close
    BY <2>3 DEF Close, IInv, TypeOK, historyVars
  <2>4. CASE CloseConnection
    BY <2>4 DEF CloseConnection, IInv, TypeOK, adapterVars, historyVars
  <2> QED
    BY <2>1, <2>2, <2>3, <2>4
<1>3. Stack(call', tagSeq) /\ OpenTags(call') = OpenTags(call)
  BY <1>1 DEF IInv
<1> QED
  BY <1>1, <1>2, <1>3, FramesOnly

LEMMA InvNext ==
  ASSUME IInv, [Next]_vars
  PROVE  IInv'
<1>1. CASE UNCHANGED vars
  BY <1>1, InvStutter
<1>2. CASE RunCall
  BY <1>2, InvPipelineReturn, InvPipelineEnd, InvPipelineThrow, InvConfirmEnd,
     InvListenerReturn, InvListenerThrow, InvListenerThrowNacked DEF RunCall
<1>3. CASE \E callback \in BOOLEAN : Publish(callback)
  BY <1>3, InvPublish
<1>4. CASE \/ \E w \in Waits : WaitForConfirms(w) \/ Resume(w)
           \/ Close \/ CloseConnection
  BY <1>4, InvOther
<1> QED
  BY <1>1, <1>2, <1>3, <1>4 DEF Next, ClientNext

-----------------------------------------------------------------------------
(* Theorems *)

LEMMA Invariance == Spec => []IInv
<1>1. Init => IInv
  BY InvStart
<1>2. IInv /\ [Next]_vars => IInv'
  BY InvNext
<1> QED
  BY <1>1, <1>2, PTL DEF Spec

(* The state of the adapter and of the channel it wraps is of its type, and the
   tags that await a confirm are tags the channel has given. *)
THEOREM ConfirmTypes == Spec => []TypeOK
<1>1. IInv => TypeOK
  BY DEF IInv
<1> QED
  BY <1>1, Invariance, PTL

(* The callback of a publish is called at most once and told what became of its
   own message, however publishes nest in each other's callbacks. *)
THEOREM CallbacksTold == Spec => []CallbacksTruthful
<1>1. IInv => CallbacksTruthful
  BY DEF IInv
<1> QED
  BY <1>1, Invariance, PTL

(* No callback of a publish that reached the wrapped channel is left over when
   the call that made it is over. *)
THEOREM NoCallbackLeft == Spec => []CallbacksAnswered
<1>1. ASSUME IInv PROVE CallbacksAnswered
  <2> SUFFICES ASSUME Idle, NEW e \in confirmCallbacks
               PROVE  e.tag > tagSeq
    BY DEF CallbacksAnswered
  <2>1. OpenTags(call) = {}
    BY DEF Idle, OpenTags, TagsDoing
  <2>2. ~(e.tag <= tagSeq)
    BY <1>1, <2>1 DEF IInv, CallbacksOK
  <2>3. e.tag \in Nat /\ tagSeq \in Nat
    BY <1>1 DEF IInv, TypeOK, Callback
  <2> QED
    BY <2>2, <2>3
<1> QED
  BY <1>1, Invariance, PTL

-----------------------------------------------------------------------------
(* Waits *)

LEMMA WaitsInv ==
  ASSUME IInv, OwedOK, WaitsForAll, [Next]_vars
  PROVE  OwedOK' /\ WaitsForAll'
<1>1. /\ tagSeq \in Nat /\ pendingConfirms \subseteq 1 .. tagSeq
      /\ owed \in [Waits -> SUBSET Nat]
      /\ answer \in [Waits -> {"none", "resolved", "rejected"}]
      /\ confirmWaiters \subseteq Waits /\ resumed \subseteq Waits
  BY DEF IInv, TypeOK
<1>2. ASSUME pendingConfirms' \subseteq pendingConfirms, UNCHANGED <<tagSeq, resumed, answer, owed>>
      PROVE  OwedOK' /\ WaitsForAll'
  BY <1>2 DEF OwedOK, WaitsForAll
<1>3. CASE UNCHANGED vars
  BY <1>2, <1>3 DEF vars, innerVars, historyVars
<1>4. CASE PipelineReturn \/ ListenerReturn
  BY <1>2, <1>4 DEF PipelineReturn, ListenerReturn, innerVars, historyVars
<1>5. CASE PipelineEnd
  BY <1>2, <1>5 DEF PipelineEnd
<1>6. CASE PipelineThrow \/ ListenerThrow
  BY <1>2, <1>6 DEF PipelineThrow, ListenerThrow, Catch
<1>7. CASE ListenerThrowNacked
  BY <1>2, <1>7 DEF ListenerThrowNacked, innerVars
<1>8. CASE Close \/ CloseConnection
  BY <1>2, <1>8 DEF Close, CloseConnection, historyVars
<1>9. CASE ConfirmEnd
  <2>1. UNCHANGED <<tagSeq, pendingConfirms, answer, owed>>
    BY <1>9 DEF ConfirmEnd
  <2>2. resumed' = resumed \/ pendingConfirms = {}
    BY <1>9 DEF ConfirmEnd, DrainConfirmWaiters, Drained
  <2> QED
    BY <2>1, <2>2 DEF OwedOK, WaitsForAll
<1>10. CASE \E callback \in BOOLEAN : Publish(callback)
  <2>1. /\ UNCHANGED <<resumed, answer, owed>>
        /\ \/ tagSeq' = tagSeq + 1 /\ pendingConfirms' = pendingConfirms \cup {tagSeq + 1}
           \/ UNCHANGED <<tagSeq, pendingConfirms>>
    BY <1>10 DEF Publish, NextPublisherDeliveryTag
  <2>2. tagSeq + 1 \notin 1 .. tagSeq /\ 1 .. tagSeq \subseteq 1 .. tagSeq + 1
    BY <1>1
  <2> QED
    BY <1>1, <2>1, <2>2 DEF OwedOK, WaitsForAll
<1>11. CASE \E w \in Waits : WaitForConfirms(w)
  <2>1. PICK w \in Waits : WaitForConfirms(w)
    BY <1>11
  <2>2. /\ UNCHANGED <<tagSeq, pendingConfirms, answer>>
        /\ owed' = [owed EXCEPT ![w] = (1 .. tagSeq) \ reported]
        /\ w \notin resumed /\ answer[w] = "none"
        /\ \/ resumed' = resumed
           \/ pendingConfirms = {} /\ resumed' = resumed \cup {w}
    BY <2>1 DEF WaitForConfirms, UnderWay, adapterVars
  <2>3. OwedOK'
    BY <1>1, <2>2 DEF OwedOK
  <2>4. \A v \in Waits : v # w => owed'[v] = owed[v]
    BY <1>1, <2>2
  <2>5. WaitsForAll'
    BY <1>1, <2>2, <2>4 DEF WaitsForAll
  <2> QED
    BY <2>3, <2>5
<1>12. CASE \E w \in Waits : Resume(w)
  <2>1. PICK w \in Waits : Resume(w)
    BY <1>12
  <2>2. /\ UNCHANGED <<tagSeq, pendingConfirms, owed>>
        /\ w \in resumed /\ resumed' = resumed \ {w}
        /\ \A v \in Waits : v # w => answer'[v] = answer[v]
    BY <1>1, <2>1 DEF Resume, innerVars
  <2> QED
    BY <1>1, <2>2 DEF OwedOK, WaitsForAll
<1> QED
  BY <1>3, <1>4, <1>5, <1>6, <1>7, <1>8, <1>9, <1>10, <1>11, <1>12
  DEF Next, ClientNext, RunCall

(* A wait does not come back while a publish made before it is unconfirmed. *)
THEOREM WaitsComplete == Spec => []WaitsForAll
<1>1. Init => OwedOK /\ WaitsForAll
  BY DEF Init, OwedOK, WaitsForAll
<1>2. (IInv /\ OwedOK /\ WaitsForAll) /\ [Next]_vars => (OwedOK /\ WaitsForAll)'
  BY WaitsInv
<1> QED
  BY <1>1, <1>2, Invariance, PTL DEF Spec

(* A publish is nacked while it is under way, and only a new one gets under way. *)
LEMMA TagsOver ==
  ASSUME IInv, [Next]_vars
  PROVE  /\ Tags(call') \subseteq Tags(call) \cup ((1 .. tagSeq') \ (1 .. tagSeq))
         /\ nacked' \subseteq nacked \cup Tags(call)
<1>1. call \in Seq(Frame) /\ Stack(call, tagSeq) /\ tagSeq \in Nat /\ tagSeq' \in Nat
  BY InvNext DEF IInv, TypeOK
<1>2. "listener" \notin {"pipeline", "returned", "acked", "nacked"}
  OBVIOUS
<1>3. ASSUME NEW s \in Seq(Frame), s # <<>>
      PROVE  Tags(Tail(s)) \subseteq Tags(s)
  BY <1>2, <1>3, PoppedTags DEF Tags
<1>4. ASSUME UNCHANGED <<call, nacked>>
      PROVE  Tags(call') \subseteq Tags(call) /\ nacked' \subseteq nacked
  BY <1>4
<1>5. CASE UNCHANGED vars
  BY <1>4, <1>5 DEF vars, historyVars
<1>6. CASE \/ \E w \in Waits : WaitForConfirms(w) \/ Resume(w)
           \/ Close \/ CloseConnection
  BY <1>4, <1>6 DEF WaitForConfirms, Resume, Close, CloseConnection, historyVars
<1>7. CASE PipelineReturn
  <2> DEFINE f == [Top EXCEPT !.do = "returned"]
             event == Push(f, Tail(call))
  <2>1. call # <<>> /\ call[1].do = "pipeline"
    BY <1>7 DEF PipelineReturn, InPublish, Idle, Top
  <2>2. f \in Publishing /\ f.do = "returned" /\ f.tag = call[1].tag /\ f.id = call[1].id
    <3>1. call[1] \in Publishing
      BY <1>1, <2>1, Popped, PublishingIsNoListener
    <3> QED
      BY <3>1 DEF Publishing, Top
  <2> HIDE DEF f
  <2>3. event \in Seq(Frame) /\ Tags(event) = Tags(call)
    BY <1>1, <2>1, <2>2, Replaced
  <2>4. call' = Push(Listener, event) /\ nacked' = nacked
    BY <1>7 DEF PipelineReturn, f, historyVars
  <2> HIDE DEF event
  <2> QED
    BY <2>3, <2>4, ListenerTags
<1>8. CASE PipelineEnd
  <2>1. /\ call # <<>> /\ call[1].do \in {"pipeline", "returned"} /\ call[1].do # "listener"
        /\ Tell("ack", [call[1] EXCEPT !.do = "acked"], Tail(call))
        /\ taken' = taken \cup {call[1].id}
        /\ UNCHANGED <<innerOpen, tagSeq, confirmSeq, made, nacked>>
    BY <1>8 DEF PipelineEnd, InPublish, Idle, Top
  <2>2. Tags(call') = Tags(call)
    BY <1>1, <2>1, ToldOnce
  <2> QED
    BY <2>1, <2>2
<1>9. ASSUME NEW base \in Seq(Frame), base # <<>>, base[1].do # "listener",
             Stack(base, tagSeq), OpenTags(base) = OpenTags(call), Tags(base) = Tags(call),
             Catch(base[1], Tail(base)),
             UNCHANGED <<innerOpen, tagSeq, confirmSeq, made, taken>>
      PROVE  Tags(call') = Tags(call) /\ nacked' \subseteq nacked \cup Tags(call)
  <2>1. Tell("nack", [base[1] EXCEPT !.do = "nacked"], Tail(base))
    BY <1>9 DEF Catch
  <2>2. Tags(call') = Tags(call)
    BY <1>9, <2>1, ToldOnce
  <2>3. base[1].tag \in Tags(base)
    BY <1>9, Popped, PublishingIsNoListener DEF Tags, TagsDoing
  <2>4. nacked' = nacked \cup {base[1].tag}
    BY <1>9 DEF Catch
  <2> QED
    BY <1>9, <2>2, <2>3, <2>4
<1>10. CASE PipelineThrow
  <2>1. call # <<>> /\ call[1].do # "listener"
    BY <1>10 DEF PipelineThrow, InPublish, Idle, Top
  <2>2. /\ Catch(call[1], Tail(call))
        /\ UNCHANGED <<innerOpen, tagSeq, confirmSeq, made, taken>>
    BY <1>10 DEF PipelineThrow, Top
  <2> QED
    BY <1>1, <1>9, <2>1, <2>2
<1>11. CASE ListenerThrow
  <2>1. InListener /\ Catch(call[2], Tail(Tail(call)))
        /\ UNCHANGED <<innerOpen, tagSeq, confirmSeq, made, taken>>
    BY <1>11 DEF ListenerThrow
  <2> DEFINE base == Tail(call)
  <2>2. /\ base \in Seq(Frame) /\ base # <<>> /\ base[1] = call[2] /\ base[1].do # "listener"
        /\ Stack(base, tagSeq) /\ OpenTags(base) = OpenTags(call) /\ Tags(base) = Tags(call)
    BY <2>1, BelowListener
  <2>3. Catch(base[1], Tail(base))
    BY <2>1, <2>2
  <2> HIDE DEF base
  <2> QED
    BY <1>9, <2>1, <2>2, <2>3
<1>12. CASE ListenerThrowNacked
  <2>1. Tail(call) \in Seq(Frame) /\ Tail(call) # <<>> /\ Tags(Tail(call)) = Tags(call)
    BY <1>12, BelowListener DEF ListenerThrowNacked
  <2>2. call' = Tail(Tail(call)) /\ nacked' = nacked
    BY <1>12 DEF ListenerThrowNacked
  <2> QED
    BY <1>3, <2>1, <2>2
<1>13. CASE ConfirmEnd \/ ListenerReturn
  <2>1. call # <<>> /\ call' = Tail(call) /\ nacked' = nacked
    BY <1>13 DEF ConfirmEnd, ListenerReturn, InListener, InPublish, Idle, historyVars
  <2> QED
    BY <1>1, <1>3, <2>1
<1>14. CASE \E callback \in BOOLEAN : Publish(callback)
  <2> DEFINE f == [do |-> "pipeline", id |-> made + 1, tag |-> tagSeq + 1]
  <2>1. PICK callback \in BOOLEAN : Publish(callback)
    BY <1>14
  <2>2. nacked' = nacked
    BY <2>1 DEF Publish
  <2>3. CASE innerOpen
    <3>1. call' = Push(f, call) /\ tagSeq' = tagSeq + 1
      BY <2>1, <2>3 DEF Publish, NextPublisherDeliveryTag
    <3>2. f \in Frame /\ f.tag = tagSeq + 1 /\ f.do = "pipeline"
      <4>1. made + 1 \in Ids
        BY <2>1, ConfirmAssumption DEF Publish, Ids, IInv, TypeOK
      <4> QED
        BY <1>1, <4>1 DEF Frame, Publishing
    <3> HIDE DEF f
    <3>3. f.do \in {"pipeline", "returned", "acked", "nacked"}
      BY <3>2
    <3>4. Tags(Push(f, call)) = Tags(call) \cup {f.tag}
      BY <1>1, <1>2, <3>2, <3>3, PushedTags, Zenon DEF Tags
    <3>5. tagSeq + 1 \in (1 .. tagSeq + 1) \ (1 .. tagSeq)
      BY <1>1
    <3> QED
      BY <2>2, <3>1, <3>2, <3>4, <3>5
  <2>4. CASE ~innerOpen
    BY <1>4, <2>1, <2>2, <2>4 DEF Publish
  <2> QED
    BY <2>3, <2>4
<1> QED
  BY <1>5, <1>6, <1>7, <1>8, <1>10, <1>11, <1>12, <1>13, <1>14 DEF Next, ClientNext, RunCall

(* A step that is neither a wait's own nor the end of a confirm. *)
Waitless == UNCHANGED <<confirmWaiters, resumed, answer, owed, reported>>

LEMMA ReportsInv ==
  ASSUME Concurrent <= 1, IInv, OwedOK, RInv, [Next]_vars
  PROVE  RInv'
<1>1. /\ owed \in [Waits -> SUBSET Nat]
      /\ answer \in [Waits -> {"none", "resolved", "rejected"}]
      /\ confirmWaiters \subseteq Waits /\ resumed \subseteq Waits
      /\ hasNacked \in BOOLEAN
      /\ UnderWay \subseteq Waits
  BY DEF IInv, TypeOK, UnderWay
<1>2. /\ Tags(call') \subseteq Tags(call) \cup ((1 .. tagSeq') \ (1 .. tagSeq))
      /\ nacked' \subseteq nacked \cup Tags(call)
  BY TagsOver
<1>3. Tags(call)' = Tags(call')
  BY DEF Tags, TagsDoing
<1>4. \A w \in Waits : owed[w] \subseteq 1 .. tagSeq
  BY DEF OwedOK
<1>5. ASSUME UNCHANGED <<answer, owed, reported>>, UnderWay' = UnderWay,
             confirmWaiters' \cap resumed' = {},
             hasNacked => hasNacked', nacked' = nacked \/ hasNacked'
      PROVE  RInv'
  <2>1. NacksKnown'
    BY <1>5 DEF RInv, NacksKnown
  <2>2. OneAtATime' /\ OwedUnreported'
    BY <1>5 DEF RInv, OneAtATime, OwedUnreported
  <2>3. AnsweredOver'
    <3> SUFFICES ASSUME NEW w \in Waits, answer[w] # "none"
                 PROVE  w \notin UnderWay /\ owed[w] \cap Tags(call') = {}
      BY <1>3, <1>5 DEF AnsweredOver
    <3>1. w \notin UnderWay /\ owed[w] \cap Tags(call) = {}
      BY DEF RInv, AnsweredOver
    <3> QED
      BY <1>2, <1>4, <3>1
  <2>4. ResolvedMeansAcked'
    <3> SUFFICES ASSUME NEW w \in Waits, answer[w] = "resolved"
                 PROVE  owed[w] \cap nacked' = {}
      BY <1>5 DEF ResolvedMeansAcked
    <3>1. owed[w] \cap Tags(call) = {} /\ owed[w] \cap nacked = {}
      BY DEF RInv, AnsweredOver, ResolvedMeansAcked
    <3> QED
      BY <1>2, <3>1
  <2> QED
    BY <2>1, <2>2, <2>3, <2>4 DEF RInv
<1>6. confirmWaiters \cap resumed = {}
  BY DEF RInv, OneAtATime
<1>7. ASSUME Waitless, hasNacked => hasNacked', nacked' = nacked \/ hasNacked'
      PROVE  RInv'
  <2>1. UnderWay' = UnderWay /\ confirmWaiters' \cap resumed' = {}
    BY <1>6, <1>7 DEF Waitless, UnderWay
  <2> QED
    BY <1>5, <1>7, <2>1 DEF Waitless
<1>8. CASE UNCHANGED vars
  BY <1>7, <1>8 DEF Waitless, vars, innerVars, adapterVars, historyVars
<1>9. CASE PipelineReturn \/ ListenerReturn
  BY <1>7, <1>9 DEF Waitless, PipelineReturn, ListenerReturn, innerVars, adapterVars, historyVars
<1>10. CASE PipelineEnd
  BY <1>7, <1>10 DEF Waitless, PipelineEnd
<1>11. CASE PipelineThrow \/ ListenerThrow
  BY <1>7, <1>11 DEF Waitless, PipelineThrow, ListenerThrow, Catch, NackSeen
<1>12. CASE ListenerThrowNacked
  BY <1>7, <1>12 DEF Waitless, ListenerThrowNacked, innerVars, adapterVars
<1>13. CASE Close \/ CloseConnection
  BY <1>7, <1>13 DEF Waitless, Close, CloseConnection, adapterVars, historyVars
<1>14. CASE \E callback \in BOOLEAN : Publish(callback)
  BY <1>7, <1>14 DEF Waitless, Publish
<1>15. CASE ConfirmEnd
  <2>1. UNCHANGED <<answer, owed, reported, hasNacked, nacked>>
    BY <1>15 DEF ConfirmEnd, adapterVars
  <2>2. \/ resumed' = resumed \cup confirmWaiters /\ confirmWaiters' = {}
        \/ UNCHANGED <<resumed, confirmWaiters>>
    BY <1>15 DEF ConfirmEnd, DrainConfirmWaiters
  <2>3. UnderWay' = UnderWay /\ confirmWaiters' \cap resumed' = {}
    BY <1>6, <2>2 DEF UnderWay
  <2> QED
    BY <1>5, <2>1, <2>3
<1>16. CASE \E w \in Waits : WaitForConfirms(w)
  <2>1. PICK w \in Waits : WaitForConfirms(w)
    BY <1>16
  <2>2. UnderWay = {}
    <3>1. IsFiniteSet(UnderWay)
      BY <1>1, ConfirmAssumption, FS_Subset
    <3>2. Cardinality(UnderWay) \in Nat /\ Cardinality(UnderWay) < Concurrent
      BY <2>1, <3>1, FS_CardinalityType DEF WaitForConfirms
    <3>3. Cardinality(UnderWay) = 0
      BY <3>2, ConfirmAssumption
    <3> QED
      BY <3>1, <3>3, FS_EmptySet
  <2>3. /\ UNCHANGED <<tagSeq, call, nacked, hasNacked, reported, answer>>
        /\ owed' = [owed EXCEPT ![w] = (1 .. tagSeq) \ reported]
        /\ answer[w] = "none"
        /\ \/ resumed' = resumed \cup {w} /\ confirmWaiters' = confirmWaiters
           \/ confirmWaiters' = confirmWaiters \cup {w} /\ resumed' = resumed
    BY <2>1 DEF WaitForConfirms, adapterVars
  <2>4. UnderWay' = {w} /\ confirmWaiters' \cap resumed' = {}
    BY <2>2, <2>3 DEF UnderWay
  <2>5. /\ owed'[w] = (1 .. tagSeq) \ reported
        /\ \A v \in Waits : v # w => owed'[v] = owed[v]
    BY <1>1, <2>3
  <2>6. NacksKnown'
    BY <2>3 DEF RInv, NacksKnown
  <2>7. OneAtATime' /\ OwedUnreported'
    BY <2>3, <2>4, <2>5 DEF OneAtATime, OwedUnreported
  <2>8. AnsweredOver'
    <3> SUFFICES ASSUME NEW v \in Waits, answer[v] # "none"
                 PROVE  v \notin UnderWay' /\ owed'[v] \cap Tags(call) = {}
      BY <1>3, <2>3 DEF AnsweredOver
    <3> QED
      BY <2>3, <2>4, <2>5 DEF RInv, AnsweredOver
  <2>9. ResolvedMeansAcked'
    BY <2>3, <2>5 DEF RInv, ResolvedMeansAcked
  <2> QED
    BY <2>6, <2>7, <2>8, <2>9 DEF RInv
<1>17. CASE \E w \in Waits : Resume(w)
  <2>1. PICK w \in Waits : Resume(w)
    BY <1>17
  <2>2. /\ UNCHANGED <<tagSeq, call, nacked, owed, confirmWaiters>>
        /\ Idle /\ w \in resumed /\ resumed' = resumed \ {w}
        /\ answer' = [answer EXCEPT ![w] = IF hasNacked THEN "rejected" ELSE "resolved"]
        /\ reported' = IF hasNacked THEN nacked ELSE reported
    BY <2>1 DEF Resume, innerVars
  <2>3. UnderWay' = {} /\ w \in UnderWay /\ confirmWaiters' \cap resumed' = {}
    BY <1>6, <2>2 DEF UnderWay, RInv, OneAtATime
  <2>4. Tags(call) = {}
    BY <2>2 DEF Idle, Tags, TagsDoing
  <2>5. nacked \subseteq reported'
    BY <2>2 DEF RInv, NacksKnown
  <2>6. NacksKnown' /\ OneAtATime' /\ OwedUnreported'
    BY <2>2, <2>3, <2>5 DEF NacksKnown, OneAtATime, OwedUnreported
  <2>7. AnsweredOver'
    BY <1>3, <2>2, <2>3, <2>4 DEF AnsweredOver
  <2>8. ResolvedMeansAcked'
    <3> SUFFICES ASSUME NEW v \in Waits, answer'[v] = "resolved"
                 PROVE  owed[v] \cap nacked = {}
      BY <2>2 DEF ResolvedMeansAcked
    <3>1. CASE v = w
      <4>1. ~hasNacked
        BY <1>1, <2>2, <3>1
      <4>2. nacked \subseteq reported /\ owed[w] \cap reported = {}
        BY <2>3, <4>1 DEF RInv, NacksKnown, OwedUnreported
      <4> QED
        BY <3>1, <4>2
    <3>2. CASE v # w
      <4>1. answer[v] = "resolved"
        BY <1>1, <2>2, <3>2
      <4> QED
        BY <4>1 DEF RInv, ResolvedMeansAcked
    <3> QED
      BY <3>1, <3>2
  <2> QED
    BY <2>6, <2>7, <2>8 DEF RInv
<1> QED
  BY <1>8, <1>9, <1>10, <1>11, <1>12, <1>13, <1>14, <1>15, <1>16, <1>17
  DEF Next, ClientNext, RunCall

(* For clients that wait one at a time, a wait that resolves answers for
   publishes none of which was nacked. *)
THEOREM ResolvesTruly == Concurrent <= 1 /\ Spec => []ResolvedMeansAcked
<1> SUFFICES ASSUME Concurrent <= 1
             PROVE  Spec => []ResolvedMeansAcked
  OBVIOUS
<1>1. Init => OwedOK /\ WaitsForAll /\ RInv
  <2> SUFFICES ASSUME Init PROVE OwedOK /\ WaitsForAll /\ RInv
    OBVIOUS
  <2>1. OwedOK /\ WaitsForAll /\ UnderWay = {} /\ \A w \in Waits : answer[w] = "none"
    BY DEF Init, OwedOK, WaitsForAll, UnderWay
  <2>2. nacked = {} /\ confirmWaiters = {}
    BY DEF Init
  <2> QED
    BY <2>1, <2>2
    DEF RInv, NacksKnown, OneAtATime, OwedUnreported, AnsweredOver, ResolvedMeansAcked
<1>2. (IInv /\ OwedOK /\ WaitsForAll /\ RInv) /\ [Next]_vars
        => (OwedOK /\ WaitsForAll /\ RInv)'
  BY WaitsInv, ReportsInv
<1>3. RInv => ResolvedMeansAcked
  BY DEF RInv
<1> QED
  BY <1>1, <1>2, <1>3, Invariance, PTL DEF Spec
=============================================================================
