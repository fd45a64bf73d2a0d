-------------------------- MODULE PublishingProofs --------------------------
(***************************************************************************)
(* Proofs about Publishing: that its types are right, that limits hold     *)
(* after each publish, that x-death tells what happened to a message and   *)
(* that it dies in a queue once unless clients reject it, that every       *)
(* publish of a confirm channel is told of once, and that no message waits *)
(* for a consumer that is there.  First come lemmas about the model's own  *)
(* functions on sequences, then what the helpers of a store and of dead    *)
(* lettering return, then one invariant after another.                     *)
(***************************************************************************)
EXTENDS Publishing, SequenceLemmas

-----------------------------------------------------------------------------
(* Only and ByteSize: recursive functions over the places of a sequence *)

IsKept(s, S, f) ==
  f = [i \in 0 .. Len(s) |->
        IF i = 0 THEN <<>>
        ELSE IF s[i] \in S THEN Append(f[i - 1], s[i]) ELSE f[i - 1]]

IsUpTo(s, f) == f = [i \in 0 .. Len(s) |-> IF i = 0 THEN 0 ELSE f[i - 1] + s[i].size]

LEMMA KeptExists ==
  ASSUME NEW T, NEW s \in Seq(T), NEW S
  PROVE  \E f \in [0 .. Len(s) -> Seq(T)] : IsKept(s, S, f)
<1> DEFINE step == [x \in (1 .. Len(s)) \X Seq(T) |->
                      IF s[x[1]] \in S THEN Append(x[2], s[x[1]]) ELSE x[2]]
<1>1. Len(s) \in Nat /\ <<>> \in Seq(T) /\ \A i \in 1 .. Len(s) : s[i] \in T
  BY EmptySeq, LenProperties, ElementOfSeq
<1>2. step \in [(1 .. Len(s)) \X Seq(T) -> Seq(T)]
  <2>1. ASSUME NEW x \in (1 .. Len(s)) \X Seq(T)
        PROVE  (IF s[x[1]] \in S THEN Append(x[2], s[x[1]]) ELSE x[2]) \in Seq(T)
    <3>1. x[1] \in 1 .. Len(s) /\ x[2] \in Seq(T)
      OBVIOUS
    <3>2. s[x[1]] \in T
      BY <1>1, <3>1
    <3> QED
      BY <3>1, <3>2, AppendProperties
  <2> QED
    BY <2>1
<1>3. \A i \in 1 .. Len(s), t \in Seq(T) :
        step[<<i, t>>] = IF s[i] \in S THEN Append(t, s[i]) ELSE t
  <2> SUFFICES ASSUME NEW i \in 1 .. Len(s), NEW t \in Seq(T)
               PROVE  step[<<i, t>>] = IF s[i] \in S THEN Append(t, s[i]) ELSE t
    OBVIOUS
  <2>1. <<i, t>> \in (1 .. Len(s)) \X Seq(T) /\ <<i, t>>[1] = i /\ <<i, t>>[2] = t
    OBVIOUS
  <2> QED
    BY <2>1, Zenon
<1> HIDE DEF step
<1>4. PICK f \in [0 .. Len(s) -> Seq(T)] :
        f[0] = <<>> /\ \A i \in 1 .. Len(s) : f[i] = step[<<i, f[i - 1]>>]
  <2>1. \E f : Recurs(f, Len(s), Seq(T), <<>>, step)
    BY <1>1, <1>2, Recursion
  <2> QED
    BY <2>1 DEF Recurs
<1>5. \A i \in 1 .. Len(s) : i - 1 \in 0 .. Len(s) /\ f[i - 1] \in Seq(T)
  <2>1. \A i \in 1 .. Len(s) : i - 1 \in 0 .. Len(s)
    BY <1>1
  <2>2. \A j \in 0 .. Len(s) : f[j] \in Seq(T)
    OBVIOUS
  <2> QED
    BY <2>1, <2>2
<1>6. \A i \in 1 .. Len(s) : f[i] = IF s[i] \in S THEN Append(f[i - 1], s[i]) ELSE f[i - 1]
  BY <1>3, <1>4, <1>5
<1>7. \A i \in 0 .. Len(s) :
        f[i] = IF i = 0 THEN <<>>
               ELSE IF s[i] \in S THEN Append(f[i - 1], s[i]) ELSE f[i - 1]
  <2>1. \A i \in 0 .. Len(s) : i # 0 => i \in 1 .. Len(s)
    BY <1>1
  <2> QED
    BY <1>4, <1>6, <2>1
<1>8. IsKept(s, S, f)
  BY <1>7 DEF IsKept
<1> QED
  BY <1>8

Keeps(f, T, s, S) ==
  /\ f \in [0 .. Len(s) -> Seq(T)]
  /\ f[0] = <<>> /\ Only(s, S) = f[Len(s)]
  /\ \A i \in 1 .. Len(s) :
       f[i] = IF s[i] \in S THEN Append(f[i - 1], s[i]) ELSE f[i - 1]

LEMMA OnlyKept ==
  ASSUME NEW T, NEW s \in Seq(T), NEW S
  PROVE  \E f : Keeps(f, T, s, S)
<1> DEFINE f == CHOOSE f : IsKept(s, S, f)
<1>1. Only(s, S) = f[Len(s)]
  BY DEF Only, IsKept
<1>2. IsKept(s, S, f)
  BY KeptExists, Zenon
<1> HIDE DEF f
<1>3. Len(s) \in Nat
  BY LenProperties
<1>4. \A i \in 0 .. Len(s) :
        f[i] = IF i = 0 THEN <<>>
               ELSE IF s[i] \in S THEN Append(f[i - 1], s[i]) ELSE f[i - 1]
  BY <1>2, Zenon DEF IsKept
<1>5. f[0] = <<>>
  BY <1>3, <1>4
<1>6. \A i \in 1 .. Len(s) :
        f[i] = IF s[i] \in S THEN Append(f[i - 1], s[i]) ELSE f[i - 1]
  <2>1. \A i \in 1 .. Len(s) : i \in 0 .. Len(s) /\ i # 0
    BY <1>3
  <2> QED
    BY <1>4, <2>1
<1>7. \A i \in 0 .. Len(s) : f[i] \in Seq(T)
  <2> DEFINE K == {i \in 0 .. Len(s) : f[i] \in Seq(T)}
  <2>1. 0 \in K
    <3>1. 0 \in 0 .. Len(s) /\ <<>> \in Seq(T)
      BY <1>3, EmptySeq
    <3> QED
      BY <1>5, <3>1, Zenon
  <2>2. ASSUME NEW i \in 0 .. Len(s), i < Len(s), i \in K PROVE i + 1 \in K
    <3>1. i + 1 \in 1 .. Len(s) /\ i + 1 - 1 = i /\ s[i + 1] \in T
      BY <1>3, <2>2
    <3>2. f[i + 1] = IF s[i + 1] \in S THEN Append(f[i], s[i + 1]) ELSE f[i]
      BY <1>6, <3>1
    <3>3. f[i + 1] \in Seq(T)
      BY <2>2, <3>1, <3>2
    <3> QED
      BY <1>3, <3>1, <3>3
  <2> HIDE DEF K
  <2>3. 0 .. Len(s) \subseteq K
    <3>1. \A i \in 0 .. Len(s) : i < Len(s) /\ i \in K => i + 1 \in K
      BY <2>2
    <3> QED
      BY <1>3, <2>1, <3>1, UpTo
  <2> QED
    BY <2>3 DEF K
<1>8. f \in [0 .. Len(s) -> Seq(T)]
  <2>1. f = [i \in 0 .. Len(s) |-> f[i]]
    BY <1>2, Zenon DEF IsKept
  <2> QED
    BY <1>7, <2>1
<1> QED
  BY <1>1, <1>5, <1>6, <1>8, Zenon DEF Keeps

(* t is what s has of S up to place i, at the places e. *)
Picks(e, t, s, i, S) ==
  /\ e \in [1 .. Len(t) -> 1 .. i]
  /\ \A j, k \in 1 .. Len(t) : j < k => e[j] < e[k]
  /\ \A j \in 1 .. Len(t) : t[j] = s[e[j]] /\ t[j] \in S
  /\ \A k \in 1 .. i : s[k] \in S => \E j \in 1 .. Len(t) : e[j] = k

LEMMA PicksMore ==
  ASSUME NEW T, NEW t \in Seq(T), NEW s \in Seq(T), NEW i \in Nat, i < Len(s), NEW S,
         NEW e, Picks(e, t, s, i, S)
  PROVE  \E g : Picks(g, IF s[i + 1] \in S THEN Append(t, s[i + 1]) ELSE t, s, i + 1, S)
<1>1. Len(t) \in Nat /\ Len(s) \in Nat /\ i + 1 \in 1 .. Len(s) /\ s[i + 1] \in T
  BY LenProperties, ElementOfSeq
<1>2. CASE s[i + 1] \notin S
  <2>1. Picks(e, t, s, i + 1, S)
    <3>1. \A k \in 1 .. i + 1 : k \in 1 .. i \/ k = i + 1
      OBVIOUS
    <3>2. 1 .. i \subseteq 1 .. i + 1
      OBVIOUS
    <3> QED
      BY <1>2, <3>1, <3>2 DEF Picks
  <2> QED
    BY <1>2, <2>1
<1>3. CASE s[i + 1] \in S
  <2> DEFINE u == Append(t, s[i + 1])
             n == Len(t)
             g == [j \in 1 .. n + 1 |-> IF j = n + 1 THEN i + 1 ELSE e[j]]
  <2>1. Len(u) = n + 1 /\ u[n + 1] = s[i + 1] /\ \A j \in 1 .. n : u[j] = t[j]
    BY <1>1, AppendProperties
  <2>2. \A j \in 1 .. n : e[j] \in 1 .. i
    BY DEF Picks
  <2>3. n \in Nat /\ n + 1 \in 1 .. n + 1 /\ 1 .. n \subseteq 1 .. n + 1
        /\ \A j \in 1 .. n + 1 : j # n + 1 => j \in 1 .. n
    BY <1>1
  <2>4. g[n + 1] = i + 1 /\ \A j \in 1 .. n : g[j] = e[j]
    BY <2>3
  <2>5. g \in [1 .. n + 1 -> 1 .. i + 1]
    BY <2>2, <2>3
  <2> HIDE DEF g, u
  <2>6. \A j, k \in 1 .. n + 1 : j < k => g[j] < g[k]
    <3> SUFFICES ASSUME NEW j \in 1 .. n + 1, NEW k \in 1 .. n + 1, j < k PROVE g[j] < g[k]
      OBVIOUS
    <3>1. j \in 1 .. n /\ g[j] = e[j] /\ e[j] \in 1 .. i
      BY <2>2, <2>3, <2>4
    <3>2. CASE k = n + 1
      BY <2>4, <3>1, <3>2
    <3>3. CASE k # n + 1
      BY <2>3, <2>4, <3>1, <3>3 DEF Picks
    <3> QED
      BY <3>2, <3>3
  <2>7. \A j \in 1 .. n + 1 : u[j] = s[g[j]] /\ u[j] \in S
    <3> SUFFICES ASSUME NEW j \in 1 .. n + 1 PROVE u[j] = s[g[j]] /\ u[j] \in S
      OBVIOUS
    <3>1. CASE j = n + 1
      BY <1>3, <2>1, <2>4, <3>1
    <3>2. CASE j # n + 1
      BY <2>1, <2>3, <2>4, <3>2 DEF Picks
    <3> QED
      BY <3>1, <3>2
  <2>8. ASSUME NEW k \in 1 .. i + 1, s[k] \in S PROVE \E j \in 1 .. n + 1 : g[j] = k
    <3>1. CASE k = i + 1
      BY <2>3, <2>4, <3>1
    <3>2. CASE k # i + 1
      <4>1. PICK j \in 1 .. n : e[j] = k
        BY <2>8, <3>2 DEF Picks
      <4> QED
        BY <2>3, <2>4, <4>1
    <3> QED
      BY <3>1, <3>2
  <2>9. Picks(g, u, s, i + 1, S)
    BY <2>1, <2>5, <2>6, <2>7, <2>8 DEF Picks
  <2> QED
    BY <1>3, <2>9 DEF u
<1> QED
  BY <1>2, <1>3

LEMMA OnlyPicks ==
  ASSUME NEW T, NEW s \in Seq(T), NEW S
  PROVE  /\ Only(s, S) \in Seq(T)
         /\ \E e : Picks(e, Only(s, S), s, Len(s), S)
<1>0. PICK f : Keeps(f, T, s, S)
  BY OnlyKept
<1>1. /\ f \in [0 .. Len(s) -> Seq(T)]
      /\ f[0] = <<>> /\ Only(s, S) = f[Len(s)]
      /\ \A i \in 1 .. Len(s) :
           f[i] = IF s[i] \in S THEN Append(f[i - 1], s[i]) ELSE f[i - 1]
  BY <1>0 DEF Keeps
<1>2. Len(s) \in Nat /\ \A i \in 0 .. Len(s) : f[i] \in Seq(T)
  BY <1>1, LenProperties
<1> DEFINE K == {i \in 0 .. Len(s) : \E e : Picks(e, f[i], s, i, S)}
<1>3. 0 \in K
  <2> DEFINE e == [j \in {} |-> 0]
  <2>1. 1 .. Len(f[0]) = {} /\ 1 .. 0 = {}
    BY <1>1, EmptySeq
  <2>2. Picks(e, f[0], s, 0, S)
    BY <2>1 DEF Picks
  <2> QED
    BY <1>2, <2>2
<1>4. \A i \in 0 .. Len(s) : i < Len(s) /\ i \in K => i + 1 \in K
  <2> SUFFICES ASSUME NEW i \in 0 .. Len(s), i < Len(s), i \in K PROVE i + 1 \in K
    OBVIOUS
  <2>1. i + 1 \in 1 .. Len(s) /\ i + 1 \in 0 .. Len(s) /\ i + 1 - 1 = i /\ i \in Nat
    BY <1>2
  <2>2. f[i + 1] = IF s[i + 1] \in S THEN Append(f[i], s[i + 1]) ELSE f[i]
    BY <1>1, <2>1
  <2>3. PICK e : Picks(e, f[i], s, i, S)
    OBVIOUS
  <2>4. \E g : Picks(g, f[i + 1], s, i + 1, S)
    BY <1>2, <2>1, <2>2, <2>3, PicksMore
  <2> QED
    BY <2>1, <2>4
<1> HIDE DEF K
<1>5. 0 .. Len(s) \subseteq K
  BY <1>2, <1>3, <1>4, UpTo
<1> QED
  BY <1>1, <1>2, <1>5 DEF K

(* What Only keeps: all that s has of S, in the order of s. *)
LEMMA OnlyHas ==
  ASSUME NEW T, NEW s \in Seq(T), NEW S
  PROVE  /\ Only(s, S) \in Seq(T)
         /\ ToSet(Only(s, S)) = ToSet(s) \cap S
<1>1. PICK e : Picks(e, Only(s, S), s, Len(s), S)
  BY OnlyPicks
<1>2. Only(s, S) \in Seq(T) /\ DOMAIN Only(s, S) = 1 .. Len(Only(s, S)) /\ DOMAIN s = 1 .. Len(s)
  BY OnlyPicks, LenProperties
<1>3. ASSUME NEW x \in ToSet(Only(s, S)) PROVE x \in ToSet(s) \cap S
  <2>1. PICK j \in 1 .. Len(Only(s, S)) : x = Only(s, S)[j]
    BY <1>2 DEF ToSet
  <2>2. e[j] \in 1 .. Len(s) /\ x = s[e[j]] /\ x \in S
    BY <1>1, <2>1 DEF Picks
  <2> QED
    BY <1>2, <2>2 DEF ToSet
<1>4. ASSUME NEW x \in ToSet(s) \cap S PROVE x \in ToSet(Only(s, S))
  <2>1. PICK k \in 1 .. Len(s) : x = s[k]
    BY <1>2 DEF ToSet
  <2>2. PICK j \in 1 .. Len(Only(s, S)) : e[j] = k
    BY <1>1, <2>1 DEF Picks
  <2>3. x = Only(s, S)[j]
    BY <1>1, <2>1, <2>2 DEF Picks
  <2> QED
    BY <1>2, <2>3 DEF ToSet
<1> QED
  BY <1>2, <1>3, <1>4

(* The sizes of the first i messages of s are added up in f[i]. *)
Adds(f, s) ==
  /\ f \in [0 .. Len(s) -> Nat]
  /\ f[0] = 0 /\ ByteSize(s) = f[Len(s)]
  /\ \A i \in 1 .. Len(s) : f[i] = f[i - 1] + s[i].size

LEMMA SizesOf ==
  ASSUME NEW s \in Seq(Message)
  PROVE  Len(s) \in Nat /\ \A i \in 1 .. Len(s) : s[i].size \in Nat
<1>1. \A m \in Message : m.size \in Nat
  BY DEF Message
<1>2. \A i \in 1 .. Len(s) : s[i] \in Message
  BY ElementOfSeq
<1> QED
  BY <1>1, <1>2, LenProperties

LEMMA UpToExists ==
  ASSUME NEW s \in Seq(Message)
  PROVE  \E f : IsUpTo(s, f)
<1> DEFINE step == [x \in (1 .. Len(s)) \X Nat |-> x[2] + s[x[1]].size]
<1>1. Len(s) \in Nat /\ \A i \in 1 .. Len(s) : s[i].size \in Nat
  BY SizesOf
<1>2. step \in [(1 .. Len(s)) \X Nat -> Nat]
  <2>1. ASSUME NEW x \in (1 .. Len(s)) \X Nat PROVE x[2] + s[x[1]].size \in Nat
    <3>1. x[1] \in 1 .. Len(s) /\ x[2] \in Nat
      OBVIOUS
    <3> QED
      BY <1>1, <3>1
  <2> QED
    BY <2>1
<1>3. \A i \in 1 .. Len(s), k \in Nat : step[<<i, k>>] = k + s[i].size
  <2> SUFFICES ASSUME NEW i \in 1 .. Len(s), NEW k \in Nat PROVE step[<<i, k>>] = k + s[i].size
    OBVIOUS
  <2>1. <<i, k>> \in (1 .. Len(s)) \X Nat /\ <<i, k>>[1] = i /\ <<i, k>>[2] = k
    OBVIOUS
  <2> QED
    BY <2>1, Zenon
<1> HIDE DEF step
<1>4. PICK f : Recurs(f, Len(s), Nat, 0, step)
  BY <1>1, <1>2, Recursion
<1>5. \A i \in 0 .. Len(s) : f[i] = IF i = 0 THEN 0 ELSE f[i - 1] + s[i].size
  <2> SUFFICES ASSUME NEW i \in 0 .. Len(s), i # 0 PROVE f[i] = f[i - 1] + s[i].size
    BY <1>4 DEF Recurs
  <2>1. i \in 1 .. Len(s) /\ i - 1 \in 0 .. Len(s)
    BY <1>1
  <2>2. f[i - 1] \in Nat /\ f[i] = step[<<i, f[i - 1]>>]
    BY <1>4, <2>1 DEF Recurs
  <2> QED
    BY <1>3, <2>1, <2>2
<1>6. f = [i \in 0 .. Len(s) |-> f[i]]
  BY <1>4 DEF Recurs
<1>7. IsUpTo(s, f)
  BY <1>5, <1>6 DEF IsUpTo
<1> QED
  BY <1>7

LEMMA SizesAdded ==
  ASSUME NEW s \in Seq(Message)
  PROVE  \E f : Adds(f, s)
<1> DEFINE f == CHOOSE f : IsUpTo(s, f)
<1>1. ByteSize(s) = f[Len(s)]
  BY DEF ByteSize, IsUpTo
<1>2. IsUpTo(s, f)
  BY UpToExists, Zenon
<1> HIDE DEF f
<1>3. Len(s) \in Nat /\ \A i \in 1 .. Len(s) : s[i].size \in Nat
  BY SizesOf
<1>4. \A i \in 0 .. Len(s) : f[i] = IF i = 0 THEN 0 ELSE f[i - 1] + s[i].size
  BY <1>2, Zenon DEF IsUpTo
<1>5. f[0] = 0
  BY <1>3, <1>4
<1>6. \A i \in 1 .. Len(s) : f[i] = f[i - 1] + s[i].size
  <2>1. \A i \in 1 .. Len(s) : i \in 0 .. Len(s) /\ i # 0
    BY <1>3
  <2> QED
    BY <1>4, <2>1
<1>7. \A i \in 0 .. Len(s) : f[i] \in Nat
  <2> DEFINE K == {i \in 0 .. Len(s) : f[i] \in Nat}
  <2>1. 0 \in K
    BY <1>3, <1>5
  <2>2. \A i \in 0 .. Len(s) : i < Len(s) /\ i \in K => i + 1 \in K
    <3> SUFFICES ASSUME NEW i \in 0 .. Len(s), i < Len(s), i \in K PROVE i + 1 \in K
      OBVIOUS
    <3>1. i + 1 \in 1 .. Len(s) /\ i + 1 - 1 = i /\ i + 1 \in 0 .. Len(s)
      BY <1>3
    <3>2. f[i + 1] = f[i] + s[i + 1].size
      BY <1>6, <3>1
    <3> QED
      BY <1>3, <3>1, <3>2
  <2> HIDE DEF K
  <2>3. 0 .. Len(s) \subseteq K
    BY <1>3, <2>1, <2>2, UpTo
  <2> QED
    BY <2>3 DEF K
<1>8. f = [i \in 0 .. Len(s) |-> f[i]]
  BY <1>2, Zenon DEF IsUpTo
<1>9. f \in [0 .. Len(s) -> Nat]
  BY <1>7, <1>8
<1>10. Adds(f, s)
  BY <1>1, <1>5, <1>6, <1>9 DEF Adds
<1> QED
  BY <1>10

LEMMA SizeType ==
  ASSUME NEW s \in Seq(Message)
  PROVE  ByteSize(s) \in Nat /\ (Len(s) = 0 => ByteSize(s) = 0)
<1>1. PICK f : Adds(f, s)
  BY SizesAdded
<1>2. Len(s) \in Nat /\ Len(s) \in 0 .. Len(s)
  BY LenProperties
<1> QED
  BY <1>1, <1>2 DEF Adds

(* No limit forbids an empty queue. *)
LEMMA NothingIsOver ==
  ASSUME NEW q, NEW s \in Seq(Message)
  PROVE  ~IsOverLimit(q, SubSeq(s, Len(s) + 1, Len(s)))
<1> DEFINE t == SubSeq(s, Len(s) + 1, Len(s))
<1>1. t \in Seq(Message) /\ Len(t) = 0
  BY LenProperties, Piece
<1> HIDE DEF t
<1>2. ByteSize(t) = 0
  BY <1>1, SizeType
<1>3. ~IsOverLimit(q, t)
  BY <1>1, <1>2, PublishingAssumption DEF IsOverLimit
<1> QED
  BY <1>3 DEF t

(* t has the sizes of s at the places e. *)
Embeds(e, t, s) ==
  /\ e \in [1 .. Len(t) -> 1 .. Len(s)]
  /\ \A j, k \in 1 .. Len(t) : j < k => e[j] < e[k]
  /\ \A j \in 1 .. Len(t) : t[j].size = s[e[j]].size

(* What is part of a queue is not larger than it, in either measure. *)
LEMMA EmbeddedIsSmaller ==
  ASSUME NEW s \in Seq(Message), NEW t \in Seq(Message), NEW e, Embeds(e, t, s)
  PROVE  ByteSize(t) <= ByteSize(s) /\ Len(t) <= Len(s)
<1>1. PICK f : Adds(f, s)
  BY SizesAdded
<1>2. PICK g : Adds(g, t)
  BY SizesAdded
<1> DEFINE n == Len(s)
           m == Len(t)
<1>3. n \in Nat /\ m \in Nat /\ \A i \in 1 .. n : s[i].size \in Nat
  BY SizesOf
<1>4. \A i \in 0 .. n : f[i] \in Nat
  BY <1>1 DEF Adds
<1>5. \A i \in 1 .. n : f[i] = f[i - 1] + s[i].size /\ i - 1 \in 0 .. n
  BY <1>1, <1>3 DEF Adds
<1>6. \A j \in 1 .. m : g[j] = g[j - 1] + s[e[j]].size /\ e[j] \in 1 .. n
  BY <1>2 DEF Adds, Embeds
<1>7. g[0] = 0 /\ f[0] = 0 /\ ByteSize(s) = f[n] /\ ByteSize(t) = g[m]
  BY <1>1, <1>2 DEF Adds
<1>7a. \A j \in 0 .. m : g[j] \in Nat
  BY <1>2 DEF Adds
<1>8. \A j, k \in 1 .. m : j < k => e[j] < e[k]
  BY DEF Embeds
<1> HIDE DEF n, m
<1>9. \A i \in 0 .. n : \A k \in 0 .. n : i <= k => f[i] <= f[k]
  <2> SUFFICES ASSUME NEW i \in 0 .. n PROVE \A k \in 0 .. n : i <= k => f[i] <= f[k]
    OBVIOUS
  <2> DEFINE K == {k \in 0 .. n : i <= k => f[i] <= f[k]}
  <2>1. 0 \in K
    BY <1>3, <1>4
  <2>2. \A k \in 0 .. n : k < n /\ k \in K => k + 1 \in K
    <3> SUFFICES ASSUME NEW k \in 0 .. n, k < n, k \in K PROVE k + 1 \in K
      OBVIOUS
    <3>1. k + 1 \in 1 .. n /\ k + 1 \in 0 .. n /\ k + 1 - 1 = k
      BY <1>3
    <3>2. f[k + 1] = f[k] + s[k + 1].size /\ s[k + 1].size \in Nat /\ f[k] \in Nat
      BY <1>3, <1>4, <1>5, <3>1
    <3>3. i <= k + 1 => i <= k \/ i = k + 1
      BY <1>3
    <3>4. f[k + 1] \in Nat
      BY <1>4, <3>1
    <3>5. i <= k + 1 => f[i] <= f[k + 1]
      BY <1>4, <3>2, <3>3, <3>4
    <3> QED
      BY <3>1, <3>5
  <2> HIDE DEF K
  <2>3. 0 .. n \subseteq K
    BY <1>3, <2>1, <2>2, UpTo
  <2> QED
    BY <2>3 DEF K
<1> DEFINE at(j) == IF j = 0 THEN 0 ELSE e[j]
           M == {j \in 0 .. m : j <= at(j) /\ g[j] <= f[at(j)]}
<1>10. \A j \in 0 .. m : at(j) \in 0 .. n
  <2>1. \A j \in 0 .. m : j # 0 => j \in 1 .. m
    BY <1>3
  <2> QED
    BY <1>3, <1>6, <2>1
<1>11. 0 \in M
  BY <1>3, <1>7
<1>12. \A j \in 0 .. m : j < m /\ j \in M => j + 1 \in M
  <2> SUFFICES ASSUME NEW j \in 0 .. m, j < m, j \in M PROVE j + 1 \in M
    OBVIOUS
  <2>1. j + 1 \in 1 .. m /\ j + 1 \in 0 .. m /\ j + 1 - 1 = j /\ j + 1 # 0 /\ at(j) \in 0 .. n
    BY <1>3, <1>10
  <2>2. at(j + 1) = e[j + 1] /\ e[j + 1] \in 1 .. n /\ e[j + 1] - 1 \in 0 .. n
    BY <1>5, <1>6, <2>1
  <2>3. at(j) <= e[j + 1] - 1
    <3>1. CASE j = 0
      BY <1>3, <2>2, <3>1
    <3>2. CASE j # 0
      <4>1. j \in 1 .. m /\ j < j + 1 /\ at(j) = e[j]
        BY <1>3, <3>2
      <4>2. e[j] < e[j + 1]
        BY <1>8, <2>1, <4>1
      <4> QED
        BY <1>3, <2>1, <2>2, <4>1, <4>2
    <3> QED
      BY <3>1, <3>2
  <2>4. f[at(j)] <= f[e[j + 1] - 1]
    BY <1>9, <2>1, <2>2, <2>3
  <2>5. g[j + 1] = g[j] + s[e[j + 1]].size /\ f[e[j + 1]] = f[e[j + 1] - 1] + s[e[j + 1]].size
    BY <1>5, <1>6, <2>1, <2>2
  <2>6. /\ g[j] \in Nat /\ f[at(j)] \in Nat /\ f[e[j + 1] - 1] \in Nat /\ s[e[j + 1]].size \in Nat
        /\ g[j] <= f[at(j)] /\ j <= at(j)
    BY <1>3, <1>4, <1>7a, <2>1, <2>2
  <2> HIDE DEF at
  <2>7. g[j + 1] <= f[at(j + 1)] /\ j + 1 <= at(j + 1)
    <3> DEFINE a == g[j]
               b == f[at(j)]
               c == f[e[j + 1] - 1]
               d == s[e[j + 1]].size
    <3>1. a \in Nat /\ b \in Nat /\ c \in Nat /\ d \in Nat /\ a <= b /\ b <= c
      BY <2>4, <2>6
    <3>2. g[j + 1] = a + d /\ f[at(j + 1)] = c + d
      BY <2>2, <2>5
    <3> HIDE DEF a, b, c, d
    <3>3. g[j + 1] <= f[at(j + 1)]
      BY <3>1, <3>2
    <3>4. j + 1 <= at(j + 1)
      <4>1. j \in Nat /\ e[j + 1] \in Nat
        BY <1>3, <2>2
      <4> QED
        BY <1>3, <2>1, <2>2, <2>3, <2>6, <4>1
    <3> QED
      BY <3>3, <3>4
  <2> QED
    BY <2>1, <2>7
<1> HIDE DEF M, at
<1>13. 0 .. m \subseteq M
  BY <1>3, <1>11, <1>12, UpTo
<1>14. g[m] <= f[at(m)] /\ m <= at(m) /\ at(m) \in 0 .. n
  BY <1>3, <1>10, <1>13 DEF M
<1>15. f[at(m)] <= f[n]
  BY <1>3, <1>9, <1>14
<1>16. g[m] \in Nat /\ f[at(m)] \in Nat /\ f[n] \in Nat
  BY <1>3, <1>4, <1>7a, <1>14
<1>17. g[m] <= f[n] /\ m <= n
  BY <1>3, <1>14, <1>15, <1>16
<1> QED
  BY <1>7, <1>17 DEF n, m

-----------------------------------------------------------------------------
(* The frames of a call *)

(* An enqueue frame has stored what is no longer to do. *)
Proper == {f \in Frame : f.do = "enqueue" => f.todo \cap f.stored = {}}

LEMMA ProperCall ==
  ASSUME NEW s
  PROVE  s \in Seq(Proper) <=>
           /\ s \in Seq(Frame)
           /\ \A i \in DOMAIN s : s[i].do = "enqueue" => s[i].todo \cap s[i].stored = {}
<1>1. ASSUME s \in Seq(Proper)
      PROVE  /\ s \in Seq(Frame)
             /\ \A i \in DOMAIN s : s[i].do = "enqueue" => s[i].todo \cap s[i].stored = {}
  <2>1. \A i \in DOMAIN s : s[i] \in Proper
    BY <1>1
  <2>2. s \in Seq(Frame)
    <3>1. Proper \subseteq Frame
      BY DEF Proper
    <3> HIDE DEF Proper
    <3> QED
      BY <1>1, <3>1, SeqMonotonic
  <2> QED
    BY <2>1, <2>2 DEF Proper
<1>2. ASSUME s \in Seq(Frame),
             \A i \in DOMAIN s : s[i].do = "enqueue" => s[i].todo \cap s[i].stored = {}
      PROVE  s \in Seq(Proper)
  <2>1. \A i \in 1 .. Len(s) : s[i] \in Frame
    BY <1>2, ElementOfSeq
  <2>2. \A i \in 1 .. Len(s) : s[i] \in Proper
    BY <1>2, <2>1, LenProperties DEF Proper
  <2>3. Len(s) \in Nat /\ s = [i \in 1 .. Len(s) |-> s[i]]
    BY <1>2, LenProperties
  <2> HIDE DEF Proper
  <2> QED
    BY <2>2, <2>3, IsASeq
<1> QED
  BY <1>1, <1>2

LEMMA FramesProper ==
  ASSUME NEW m \in Message, NEW q \in Queues, NEW targets \in SUBSET Queues,
         NEW live \in BOOLEAN, NEW reason \in Reasons, NEW id \in Ids, NEW tag \in Nat
  PROVE  /\ Dead(m, q, reason, live) \in Proper
         /\ Enqueue(m, targets, live) \in Proper
         /\ Dispatch(targets, live) \in Proper
         /\ [do |-> "deliver", queue |-> q, live |-> live] \in Proper
         /\ [do |-> "get", queue |-> q] \in Proper
         /\ [do |-> "return", id |-> id] \in Proper
         /\ [do |-> "confirm", id |-> id, tag |-> tag, ok |-> live] \in Proper
         /\ Listener \in Proper
         /\ [do |-> "try"] \in Proper
         /\ [do |-> "drained"] \in Proper
  BY DEF Proper, Frame, Dead, Enqueue, Dispatch, Listener

LEMMA FrameFields ==
  ASSUME NEW f \in Proper
  PROVE  /\ f.do \in {"enqueue", "dispatch", "deliver", "dead", "get", "return", "confirm",
                      "try", "listener", "drained"}
         /\ f.do = "enqueue" =>
              /\ f = [do |-> "enqueue", message |-> f.message, todo |-> f.todo,
                      stored |-> f.stored, live |-> f.live]
              /\ f.message \in Message /\ f.todo \subseteq Queues /\ f.stored \subseteq Queues
              /\ f.live \in BOOLEAN /\ f.todo \cap f.stored = {}
         /\ f.do = "dispatch" =>
              /\ f = [do |-> "dispatch", queues |-> f.queues, live |-> f.live]
              /\ f.queues \subseteq Queues /\ f.live \in BOOLEAN
         /\ f.do = "deliver" => f.queue \in Queues /\ f.live \in BOOLEAN
         /\ f.do = "dead" =>
              /\ f = Dead(f.message, f.queue, f.reason, f.live)
              /\ f.message \in Message /\ f.queue \in Queues /\ f.reason \in Reasons
              /\ f.live \in BOOLEAN
         /\ f.do = "get" => f.queue \in Queues
         /\ f.do = "return" => f.id \in Ids
         /\ f.do = "confirm" =>
              /\ f = [do |-> "confirm", id |-> f.id, tag |-> f.tag, ok |-> f.ok]
              /\ f.id \in Ids /\ f.tag \in Nat /\ f.ok \in BOOLEAN
  BY DEF Proper, Frame, Dead

-----------------------------------------------------------------------------
(* Messages, stores and routes *)

(* Where a message is put into a store, at which place whatever the others. *)
LEMMA EnqueuedAt ==
  ASSUME TypeOK, NEW q \in Queues, NEW m \in Message
  PROVE  \E i \in 1 .. Len(store[q]) + 1 : Enqueued(q, m) = InsertAt(store[q], i, m)
<1> DEFINE lower == {i \in DOMAIN store[q] : Level(q, store[q][i]) < Level(q, m)}
<1>1. DOMAIN store[q] = 1 .. Len(store[q]) /\ Len(store[q]) \in Nat
  BY LenProperties DEF TypeOK
<1>2. Enqueued(q, m) = InsertAt(store[q], IF lower = {} THEN Len(store[q]) + 1 ELSE Min(lower), m)
  BY DEF Enqueued
<1>3. lower \in SUBSET (1 .. Len(store[q])) /\ lower \in SUBSET Nat
  BY <1>1
<1> HIDE DEF lower
<1>4. lower # {} => Min(lower) \in 1 .. Len(store[q])
  BY <1>3, MinProperties
<1> QED
  BY <1>1, <1>2, <1>4

LEMMA RequeuedAt ==
  ASSUME TypeOK, NEW q \in Queues, NEW m \in Message
  PROVE  \E i \in 1 .. Len(store[q]) + 1 : Requeued(q, m) = InsertAt(store[q], i, m)
<1> DEFINE notHigher == {i \in DOMAIN store[q] : Level(q, store[q][i]) <= Level(q, m)}
<1>1. DOMAIN store[q] = 1 .. Len(store[q]) /\ Len(store[q]) \in Nat
  BY LenProperties DEF TypeOK
<1>2. Requeued(q, m) =
        InsertAt(store[q], IF notHigher = {} THEN Len(store[q]) + 1 ELSE Min(notHigher), m)
  BY DEF Requeued
<1>3. notHigher \in SUBSET (1 .. Len(store[q])) /\ notHigher \in SUBSET Nat
  BY <1>1
<1> HIDE DEF notHigher
<1>4. notHigher # {} => Min(notHigher) \in 1 .. Len(store[q])
  BY <1>3, MinProperties
<1> QED
  BY <1>1, <1>2, <1>4

LEMMA StampedType ==
  ASSUME NEW q, NEW m \in Message
  PROVE  Stamped(q, m) \in Message
  BY DEF Stamped, Message

LEMMA NewMessageType ==
  ASSUME NEW p \in Publications, published \in Nat, published < MaxPublished
  PROVE  NewMessage(p) \in Message
<1>1. p \in Publication
  BY PublishingAssumption
<1>2. published + 1 \in Ids
  BY PublishingAssumption DEF Ids
<1> QED
  BY <1>1, <1>2, EmptySeq DEF NewMessage, Message, Publication

LEMMA UpdateXDeathType ==
  ASSUME NEW x \in Seq(DeathEntry), NEW q \in Queues, NEW reason \in Reasons
  PROVE  UpdateXDeath(x, q, reason) \in Seq(DeathEntry)
<1> DEFINE same == {i \in DOMAIN x : x[i].queue = q /\ x[i].reason = reason}
           new == [queue |-> q, reason |-> reason, count |-> 1]
           old == [x[Min(same)] EXCEPT !.count = @ + 1]
<1>1. DOMAIN x = 1 .. Len(x) /\ Len(x) \in Nat
  BY LenProperties
<1>2. UpdateXDeath(x, q, reason) =
        IF same = {} THEN <<new>> \o x ELSE <<old>> \o RemoveAt(x, Min(same))
  BY DEF UpdateXDeath
<1>3. new \in DeathEntry
  BY DEF DeathEntry
<1>4. ASSUME same # {} PROVE old \in DeathEntry /\ RemoveAt(x, Min(same)) \in Seq(DeathEntry)
  <2>1. same \in SUBSET (1 .. Len(x)) /\ same \in SUBSET Nat
    BY <1>1
  <2> HIDE DEF same
  <2>2. Min(same) \in 1 .. Len(x)
    BY <1>4, <2>1, MinProperties
  <2>3. RemoveAt(x, Min(same)) \in Seq(DeathEntry)
    BY <2>2, RemovedAt
  <2>4. x[Min(same)] \in DeathEntry
    BY <2>2, ElementOfSeq
  <2>5. \A d \in DeathEntry : [d EXCEPT !.count = @ + 1] \in DeathEntry
    BY DEF DeathEntry
  <2> QED
    BY <2>3, <2>4, <2>5
<1> HIDE DEF same, old, new
<1>5. same = {} => <<new>> \o x \in Seq(DeathEntry)
  BY <1>3, Prepended
<1>6. same # {} => <<old>> \o RemoveAt(x, Min(same)) \in Seq(DeathEntry)
  BY <1>4, Prepended
<1> QED
  BY <1>2, <1>5, <1>6

LEMMA PreparedType ==
  ASSUME NEW m \in Message, NEW q \in Queues, NEW reason \in Reasons
  PROVE  PrepareDeadLetter(m, q, reason) \in Message
<1>1. UpdateXDeath(m.xDeath, q, reason) \in Seq(DeathEntry)
  BY UpdateXDeathType DEF Message
<1>2. Append(m.trail, [queue |-> q, reason |-> reason]) \in Seq(Death)
  BY AppendProperties DEF Message, Death
<1>3. (IF q \in DOMAIN DeadLetterRoutingKey THEN DeadLetterRoutingKey[q] ELSE m.key) \in Keys
  BY PublishingAssumption DEF Message
<1> QED
  BY <1>1, <1>2, <1>3 DEF PrepareDeadLetter, Message

LEMMA RouteInQueues ==
  ASSUME NEW e, NEW K
  PROVE  Route(e, K) \subseteq Queues
<1>1. \A E, L : Matched(E, L) \subseteq Queues
  BY PublishingAssumption DEF Matched
<1> QED
  BY <1>1 DEF Route

(* The frames of the deaths of the messages of s, if they leave any. *)
LEMMA DeathsAre ==
  ASSUME NEW s \in Seq(Message), NEW q \in Queues, NEW reason \in Reasons, NEW live \in BOOLEAN
  PROVE  /\ Deaths(s, q, reason, live) \in Seq(Proper)
         /\ ~DeadLetters(q, reason) => Deaths(s, q, reason, live) = <<>>
         /\ DeadLetters(q, reason) =>
              /\ Len(Deaths(s, q, reason, live)) = Len(s)
              /\ \A i \in 1 .. Len(s) : Deaths(s, q, reason, live)[i] = Dead(s[i], q, reason, live)
<1>1. Len(s) \in Nat /\ DOMAIN s = 1 .. Len(s) /\ \A i \in 1 .. Len(s) : s[i] \in Message
  BY LenProperties, ElementOfSeq
<1> DEFINE d == [i \in 1 .. Len(s) |-> Dead(s[i], q, reason, live)]
<1>2. \A i \in 1 .. Len(s) : Dead(s[i], q, reason, live) \in Proper
  BY <1>1 DEF Proper, Frame, Dead
<1> HIDE DEF Proper
<1>3. d \in Seq(Proper) /\ Len(d) = Len(s)
  BY <1>1, <1>2
<1> QED
  BY <1>1, <1>3, EmptySeq DEF Deaths

LEMMA RejectionsAre ==
  ASSUME NEW s \in Seq(Delivery)
  PROVE  /\ Doomed(s) \in Seq(Delivery)
         /\ ToSet(Doomed(s)) = {d \in ToSet(s) : DeadLetters(d.queue, "rejected")}
         /\ Rejections(s) \in Seq(Proper)
         /\ Len(Rejections(s)) = Len(Doomed(s))
         /\ \A i \in 1 .. Len(Doomed(s)) :
              /\ Doomed(s)[i] \in Delivery
              /\ Rejections(s)[i] =
                   Dead(Doomed(s)[i].message, Doomed(s)[i].queue, "rejected", TRUE)
<1>1. Doomed(s) \in Seq(Delivery) /\ ToSet(Doomed(s)) = {d \in ToSet(s) : DeadLetters(d.queue, "rejected")}
  <2> DEFINE S == {d \in ToSet(s) : DeadLetters(d.queue, "rejected")}
  <2>1. Only(s, S) \in Seq(Delivery) /\ ToSet(Only(s, S)) = ToSet(s) \cap S
    BY OnlyHas
  <2> QED
    BY <2>1 DEF Doomed
<1> DEFINE t == Doomed(s)
           r == [i \in 1 .. Len(t) |-> Dead(t[i].message, t[i].queue, "rejected", TRUE)]
<1>2. Len(t) \in Nat /\ DOMAIN t = 1 .. Len(t) /\ \A i \in 1 .. Len(t) : t[i] \in Delivery
  BY <1>1, LenProperties, ElementOfSeq
<1>3. Rejections(s) = r
  BY <1>2 DEF Rejections
<1> HIDE DEF t
<1>4. \A i \in 1 .. Len(t) : Dead(t[i].message, t[i].queue, "rejected", TRUE) \in Proper
  BY <1>2 DEF Delivery, Proper, Frame, Dead, Reasons
<1> HIDE DEF Proper
<1>5. r \in Seq(Proper) /\ Len(r) = Len(t)
  <2> DEFINE frame(i) == Dead(t[i].message, t[i].queue, "rejected", TRUE)
  <2>1. \A i \in 1 .. Len(t) : frame(i) \in Proper
    BY <1>4
  <2>2. r = [i \in 1 .. Len(t) |-> frame(i)]
    OBVIOUS
  <2> HIDE DEF frame, r
  <2> QED
    BY <1>2, <2>1, <2>2
<1> QED
  BY <1>1, <1>2, <1>3, <1>5 DEF t

-----------------------------------------------------------------------------
(* Type correctness *)

(* The parts of TypeOK, the two about the call in one. *)
LEMMA Types ==
  ASSUME TypeOK
  PROVE  /\ exists \subseteq Exchanges
         /\ store \in [Queues -> Seq(Message)]
         /\ \A q \in Queues : /\ store[q] \in Seq(Message) /\ Len(store[q]) \in Nat
                              /\ DOMAIN store[q] = 1 .. Len(store[q])
                              /\ \A i \in 1 .. Len(store[q]) : store[q][i] \in Message
         /\ unacked \in Seq(Delivery) /\ Len(unacked) \in Nat
         /\ DOMAIN unacked = 1 .. Len(unacked)
         /\ \A i \in 1 .. Len(unacked) : /\ unacked[i] \in Delivery
                                         /\ unacked[i].queue \in Queues
                                         /\ unacked[i].message \in Message
         /\ consumed \subseteq Queues
         /\ confirmMode \in BOOLEAN
         /\ tagSeq \in Nat
         /\ pending \subseteq 1 .. tagSeq
         /\ waiters \in Nat
         /\ call \in Seq(Proper) /\ Len(call) \in Nat /\ DOMAIN call = 1 .. Len(call)
         /\ \A i \in 1 .. Len(call) : call[i] \in Proper
         /\ ~Idle => /\ Top \in Proper /\ Len(call) >= 1
                     /\ Tail(call) \in Seq(Proper) /\ Len(Tail(call)) = Len(call) - 1
                     /\ \A i \in 1 .. Len(call) - 1 : Tail(call)[i] = call[i + 1]
         /\ published \in 0 .. MaxPublished
         /\ events \in Seq(Event)
         /\ refused \subseteq Ids
<1>1. call \in Seq(Proper)
  BY ProperCall DEF TypeOK
<1>2. \A q \in Queues : store[q] \in Seq(Message)
  BY DEF TypeOK
<1>3. \A q \in Queues : /\ Len(store[q]) \in Nat
                        /\ DOMAIN store[q] = 1 .. Len(store[q])
                        /\ \A i \in 1 .. Len(store[q]) : store[q][i] \in Message
  BY <1>2, LenProperties, ElementOfSeq
<1>4. Len(unacked) \in Nat /\ DOMAIN unacked = 1 .. Len(unacked)
  BY LenProperties DEF TypeOK
<1>5. \A i \in 1 .. Len(unacked) : unacked[i] \in Delivery
  BY ElementOfSeq DEF TypeOK
<1>6. \A i \in 1 .. Len(unacked) : unacked[i].queue \in Queues /\ unacked[i].message \in Message
  BY <1>5 DEF Delivery
<1>7. Len(call) \in Nat /\ DOMAIN call = 1 .. Len(call)
  BY <1>1, LenProperties
<1>8. \A i \in 1 .. Len(call) : call[i] \in Proper
  BY <1>1, ElementOfSeq
<1>9. ~Idle => /\ Top \in Proper /\ Len(call) >= 1
               /\ Tail(call) \in Seq(Proper) /\ Len(Tail(call)) = Len(call) - 1
               /\ \A i \in 1 .. Len(call) - 1 : Tail(call)[i] = call[i + 1]
  <2> HIDE DEF Proper
  <2> SUFFICES ASSUME call # <<>>
               PROVE  /\ call[1] \in Proper /\ Len(call) >= 1
                      /\ Tail(call) \in Seq(Proper) /\ Len(Tail(call)) = Len(call) - 1
                      /\ \A i \in 1 .. Len(call) - 1 : Tail(call)[i] = call[i + 1]
    BY DEF Idle, Top
  <2>1. Len(call) >= 1
    BY <1>1, <1>7, EmptySeq
  <2>2. Tail(call) \in Seq(Proper) /\ Len(Tail(call)) = Len(call) - 1
        /\ \A i \in 1 .. Len(Tail(call)) : Tail(call)[i] = call[i + 1]
    BY <1>1, HeadTailProperties
  <2> QED
    BY <1>7, <1>8, <2>1, <2>2
<1> QED
  BY <1>1, <1>2, <1>3, <1>4, <1>5, <1>6, <1>7, <1>8, <1>9, Zenon DEF TypeOK

(* What an exception leaves of the call: all from a publish of the client on, but
   for its outcome, or all after a "try". *)
LEMMA ThrownType ==
  ASSUME TypeOK
  PROVE  Thrown \in Seq(Proper)
<1> DEFINE catching == {i \in DOMAIN call : call[i].do \in {"try", "confirm"}}
           i == Min(catching)
           rest == SubSeq(call, i + 1, Len(call))
           caught == [call[i] EXCEPT !.ok = FALSE]
<1>1. call \in Seq(Proper) /\ Len(call) \in Nat /\ DOMAIN call = 1 .. Len(call)
  BY Types
<1>2. Thrown = IF catching = {} THEN <<>>
               ELSE IF call[i].do = "try" THEN rest ELSE <<caught>> \o rest
  BY DEF Thrown
<1>3. ASSUME catching # {} PROVE rest \in Seq(Proper) /\ (call[i].do = "confirm" => caught \in Proper)
  <2>1. catching \in SUBSET (1 .. Len(call)) /\ catching \in SUBSET Nat
    BY <1>1
  <2> HIDE DEF catching
  <2>2. i \in 1 .. Len(call)
    BY <1>3, <2>1, MinProperties
  <2> HIDE DEF i
  <2>3. rest \in Seq(Proper)
    <3>1. i + 1 \in 1 .. Len(call) + 1 /\ Len(call) \in 0 .. Len(call) /\ i + 1 <= Len(call) + 1
      BY <1>1, <2>2
    <3> HIDE DEF Proper
    <3> QED
      BY <1>1, <3>1, Piece
  <2>4. call[i] \in Proper
    BY <2>2, Types
  <2>5. \A f \in Proper : f.do = "confirm" => [f EXCEPT !.ok = FALSE] \in Proper
    BY DEF Proper, Frame
  <2> QED
    BY <2>3, <2>4, <2>5
<1>4. catching # {} => call[i].do \in {"try", "confirm"}
  <2>1. catching \in SUBSET Nat
    BY <1>1
  <2>2. catching # {} => i \in catching
    <3> HIDE DEF catching
    <3> QED
      BY <2>1, MinProperties
  <2> QED
    BY <2>2
<1> HIDE DEF catching, i, rest, caught, Proper
<1>5. <<>> \in Seq(Proper)
  BY EmptySeq
<1>6. catching # {} /\ call[i].do = "confirm" => <<caught>> \o rest \in Seq(Proper)
  BY <1>3, Prepended
<1> QED
  BY <1>2, <1>3, <1>4, <1>5, <1>6

(* Frames put before a part of the call. *)
LEMMA Framed ==
  ASSUME NEW s \in Seq(Proper), NEW t \in Seq(Proper)
  PROVE  s \o t \in Seq(Proper)
<1> HIDE DEF Proper
<1> QED
  BY ConcatProperties

LEMMA OneFrame ==
  ASSUME NEW f \in Proper
  PROVE  <<f>> \in Seq(Proper)
<1> HIDE DEF Proper
<1> QED
  OBVIOUS

LEMMA FramedOne ==
  ASSUME NEW f \in Proper, NEW t \in Seq(Proper)
  PROVE  <<f>> \o t \in Seq(Proper)
<1> HIDE DEF Proper
<1> QED
  BY Prepended

LEMMA ExceptFirst ==
  ASSUME NEW s \in Seq(Proper), s # <<>>, NEW f \in Proper
  PROVE  /\ [s EXCEPT ![1] = f] \in Seq(Proper)
         /\ Head([s EXCEPT ![1] = f]) = f
         /\ Tail([s EXCEPT ![1] = f]) = Tail(s)
<1> HIDE DEF Proper
<1>1. Len(s) \in Nat /\ Len(s) >= 1 /\ 1 \in 1 .. Len(s)
  BY EmptySeq, LenProperties
<1> DEFINE t == [s EXCEPT ![1] = f]
<1>2. t \in Seq(Proper) /\ Len(t) = Len(s) /\ \A i \in 1 .. Len(s) : t[i] = IF i = 1 THEN f ELSE s[i]
  BY <1>1, ExceptSeq
<1> HIDE DEF t
<1>3. t # <<>>
  BY <1>1, <1>2, EmptySeq
<1>4. /\ Tail(t) \in Seq(Proper) /\ Len(Tail(t)) = Len(s) - 1
      /\ \A i \in 1 .. Len(s) - 1 : Tail(t)[i] = t[i + 1]
  BY <1>2, <1>3, HeadTailProperties
<1>5. /\ Tail(s) \in Seq(Proper) /\ Len(Tail(s)) = Len(s) - 1
      /\ \A i \in 1 .. Len(s) - 1 : Tail(s)[i] = s[i + 1]
  BY HeadTailProperties
<1>6. \A i \in 1 .. Len(s) - 1 : i + 1 \in 1 .. Len(s) /\ i + 1 # 1
  BY <1>1
<1>7. \A i \in 1 .. Len(s) - 1 : Tail(t)[i] = Tail(s)[i]
  BY <1>2, <1>4, <1>5, <1>6
<1>8. Tail(t) = Tail(s)
  BY <1>4, <1>5, <1>7, SeqEqual
<1>9. Head(t) = f
  BY <1>1, <1>2, <1>3, HeadTailProperties
<1> QED
  BY <1>2, <1>8, <1>9 DEF t

(* What Accept, Refuse, Drain and Take do, in the types. *)
LEMMA AcceptType ==
  ASSUME TypeOK, NEW frame \in Proper, frame.do = "enqueue", NEW q \in Queues,
         NEW rest \in Seq(Proper), rest # <<>>, Head(rest).do = "enqueue", q \notin Head(rest).todo,
         Accept(frame, q, rest)
  PROVE  /\ store' \in [Queues -> Seq(Message)]
         /\ call' \in Seq(Proper)
<1> DEFINE s == Enqueued(q, Stamped(q, frame.message))
           n == Excess(q, s)
           first == SubSeq(s, 1, n)
           last == SubSeq(s, n + 1, Len(s))
           took == [Head(rest) EXCEPT !.stored = @ \cup {q}]
<1>1. frame.message \in Message /\ frame.live \in BOOLEAN
  BY FrameFields
<1>2. s \in Seq(Message) /\ Len(s) \in Nat
  <2>1. Stamped(q, frame.message) \in Message
    BY <1>1, StampedType
  <2>2. PICK i \in 1 .. Len(store[q]) + 1 : s = InsertAt(store[q], i, Stamped(q, frame.message))
    BY <2>1, EnqueuedAt
  <2>3. s \in Seq(Message)
    BY <2>1, <2>2, Types, InsertedAt
  <2> QED
    BY <2>3, LenProperties
<1> HIDE DEF s
<1>3. n \in 0 .. Len(s)
  <2> DEFINE F == {k \in 0 .. Len(s) : ~IsOverLimit(q, SubSeq(s, k + 1, Len(s)))}
  <2>1. F \subseteq 0 .. Len(s) /\ F \in SUBSET Nat
    OBVIOUS
  <2>2. n = IF Overflow[q] # "drop-head" THEN 0 ELSE Min(F)
    BY DEF Excess
  <2>3. F # {}
    <3>1. Len(s) \in 0 .. Len(s)
      BY <1>2
    <3>2. ~IsOverLimit(q, SubSeq(s, Len(s) + 1, Len(s)))
      BY <1>2, NothingIsOver
    <3> QED
      BY <3>1, <3>2
  <2> HIDE DEF F, n
  <2>4. Min(F) \in F
    BY <2>1, <2>3, MinProperties
  <2>5. 0 \in 0 .. Len(s)
    BY <1>2
  <2> QED
    BY <2>1, <2>2, <2>4, <2>5
<1> HIDE DEF n
<1>4. first \in Seq(Message) /\ last \in Seq(Message)
  <2>1. 1 \in 1 .. Len(s) + 1 /\ n + 1 \in 1 .. Len(s) + 1 /\ Len(s) \in 0 .. Len(s)
        /\ 1 <= n + 1 /\ n + 1 <= Len(s) + 1
    BY <1>2, <1>3
  <2> QED
    BY <1>2, <1>3, <2>1, Piece
<1>5. took \in Proper /\ Tail(rest) \in Seq(Proper)
  <2>1. Head(rest) \in Proper /\ Tail(rest) \in Seq(Proper)
    <3> HIDE DEF Proper
    <3> QED
      BY HeadTailProperties
  <2>2. \A f \in Proper : f.do = "enqueue" /\ q \notin f.todo => [f EXCEPT !.stored = @ \cup {q}] \in Proper
    BY DEF Proper, Frame
  <2> QED
    BY <2>1, <2>2
<1>6. Deaths(first, q, "maxlen", frame.live) \in Seq(Proper)
  BY <1>1, <1>4, DeathsAre DEF Reasons
<1>7. /\ store' = [store EXCEPT ![q] = last]
      /\ call' = Deaths(first, q, "maxlen", frame.live) \o <<took>> \o Tail(rest)
  BY DEF Accept, s, n
<1> HIDE DEF first, last, took
<1>8. <<took>> \o Tail(rest) \in Seq(Proper)
  BY <1>5, FramedOne
<1> QED
  BY <1>4, <1>6, <1>7, <1>8, Types, Framed

LEMMA RefuseType ==
  ASSUME TypeOK, NEW frame \in Proper, frame.do = "enqueue", NEW q \in Queues,
         NEW rest \in Seq(Proper), Refuse(frame, q, rest)
  PROVE  call' \in Seq(Proper) /\ refused' \subseteq Ids
<1>1. frame.message \in Message /\ frame.live \in BOOLEAN /\ frame.message.id \in Ids
  BY FrameFields DEF Message
<1> DEFINE one == <<frame.message>>
           deaths == IF Overflow[q] = "reject-publish-dlx"
                     THEN Deaths(one, q, "maxlen", frame.live) ELSE <<>>
<1>2. one \in Seq(Message)
  BY <1>1
<1> HIDE DEF one
<1>3. Deaths(one, q, "maxlen", frame.live) \in Seq(Proper)
  BY <1>1, <1>2, DeathsAre DEF Reasons
<1>4. <<>> \in Seq(Proper)
  <2> HIDE DEF Proper
  <2> QED
    BY EmptySeq
<1>5. deaths \in Seq(Proper)
  BY <1>3, <1>4
<1>6. call' = deaths \o rest
  BY DEF Refuse, one
<1> HIDE DEF deaths
<1>7. call' \in Seq(Proper)
  BY <1>5, <1>6, Framed
<1> QED
  BY <1>1, <1>7, Types DEF Refuse

LEMMA DrainType ==
  ASSUME TypeOK, NEW q \in Queues, NEW rest \in Seq(Proper), Drain(q, rest)
  PROVE  /\ store' \in [Queues -> Seq(Message)]
         /\ call' \in Seq(Proper)
<1>1. store[q] \in Seq(Message) /\ store \in [Queues -> Seq(Message)]
  BY Types
<1> DEFINE left == Only(store[q], ToSet(store[q]) \ Drained(q))
           gone == Only(store[q], Drained(q))
<1>2. left \in Seq(Message) /\ gone \in Seq(Message)
  BY <1>1, OnlyHas
<1>3. store' = [store EXCEPT ![q] = left] /\ call' = Deaths(gone, q, "expired", FALSE) \o rest
  BY DEF Drain
<1> HIDE DEF left, gone
<1>4. Deaths(gone, q, "expired", FALSE) \in Seq(Proper)
  BY <1>2, DeathsAre DEF Reasons
<1> QED
  BY <1>1, <1>2, <1>3, <1>4, Framed

LEMMA TakeType ==
  ASSUME TypeOK, NEW q \in Queues, NEW n \in 0 .. Len(store[q]), Take(q, n)
  PROVE  /\ store' \in [Queues -> Seq(Message)]
         /\ unacked' \in Seq(Delivery)
<1>1. /\ store[q] \in Seq(Message) /\ store \in [Queues -> Seq(Message)]
      /\ Len(store[q]) \in Nat /\ \A i \in 1 .. Len(store[q]) : store[q][i] \in Message
  BY Types
<1> DEFINE left == SubSeq(store[q], n + 1, Len(store[q]))
           taken == [i \in 1 .. n |-> [queue |-> q, message |-> store[q][i]]]
<1>2. left \in Seq(Message)
  <2>1. n + 1 \in 1 .. Len(store[q]) + 1 /\ Len(store[q]) \in 0 .. Len(store[q])
        /\ n + 1 <= Len(store[q]) + 1
    BY <1>1
  <2> QED
    BY <1>1, <2>1, Piece
<1>3. taken \in Seq(Delivery)
  <2>1. \A i \in 1 .. n : [queue |-> q, message |-> store[q][i]] \in Delivery
    BY <1>1 DEF Delivery
  <2> HIDE DEF Delivery
  <2> QED
    BY <1>1, <2>1
<1>4. store' = [store EXCEPT ![q] = left] /\ unacked' = unacked \o taken
  BY DEF Take
<1> HIDE DEF left, taken, Delivery
<1>5. unacked \in Seq(Delivery)
  BY Types
<1> QED
  BY <1>1, <1>2, <1>3, <1>4, <1>5, ConcatProperties

LEMMA GetTakes ==
  ASSUME TypeOK, GetStep, Top.queue \in Queues
  PROVE  \E n \in 0 .. Len(store[Top.queue]) : Take(Top.queue, n)
<1> DEFINE k == Len(store[Top.queue])
           S == {1, k}
<1>1. S \in SUBSET Nat /\ S # {} /\ k \in S /\ k \in Nat
  BY Types
<1>2. Take(Top.queue, Min(S))
  BY DEF GetStep
<1> HIDE DEF S
<1>3. Min(S) \in Nat /\ Min(S) <= k
  BY <1>1, MinProperties
<1>4. Min(S) \in 0 .. k
  BY <1>1, <1>3
<1> QED
  BY <1>2, <1>4

LEMMA UncoveredType ==
  ASSUME TypeOK, NEW i \in DOMAIN unacked, NEW multiple \in BOOLEAN
  PROVE  Uncovered(i, multiple) \in Seq(Delivery) /\ Covered(i, multiple) \in Seq(Delivery)
<1>1. unacked \in Seq(Delivery) /\ Len(unacked) \in Nat /\ i \in 1 .. Len(unacked)
      /\ unacked[i] \in Delivery
  BY Types
<1> HIDE DEF Delivery
<1>2. RemoveAt(unacked, i) \in Seq(Delivery)
  BY <1>1, RemovedAt
<1>3. SubSeq(unacked, 1, i) \in Seq(Delivery) /\ SubSeq(unacked, i + 1, Len(unacked)) \in Seq(Delivery)
  <2>1. /\ 1 \in 1 .. Len(unacked) + 1 /\ i \in 0 .. Len(unacked) /\ 1 <= i + 1
        /\ i + 1 \in 1 .. Len(unacked) + 1 /\ Len(unacked) \in 0 .. Len(unacked)
        /\ i + 1 <= Len(unacked) + 1
    BY <1>1
  <2> QED
    BY <1>1, <2>1, Piece
<1> QED
  BY <1>1, <1>2, <1>3 DEF Uncovered, Covered

LEMMA QueuesOfType ==
  ASSUME NEW s \in Seq(Delivery)
  PROVE  QueuesOf(s) \subseteq Queues
<1>1. \A d \in Delivery : d.queue \in Queues
  BY DEF Delivery
<1>2. \A i \in DOMAIN s : s[i] \in Delivery
  BY LenProperties, ElementOfSeq
<1> QED
  BY <1>1, <1>2 DEF QueuesOf

LEMMA TypesRunCall ==
  ASSUME TypeOK, RunCall
  PROVE  TypeOK'
<1> USE Types
<1>1. ASSUME EnqueueStep PROVE TypeOK'
  <2>1. ~Idle /\ Top \in Proper /\ Top.do = "enqueue" /\ call \in Seq(Proper) /\ call # <<>>
    BY <1>1 DEF EnqueueStep, Idle
  <2>2. PICK q \in Top.todo :
          LET rest == [call EXCEPT ![1].todo = @ \ {q}]
          IN  \/ Refuses(q) /\ Refuse(Top, q, rest)
              \/ ~Refuses(q) /\ Accept(Top, q, rest)
    BY <1>1 DEF EnqueueStep
  <2> DEFINE f == [Top EXCEPT !.todo = @ \ {q}]
             rest == [call EXCEPT ![1] = f]
  <2>3. f \in Proper /\ q \in Queues /\ f.do = "enqueue" /\ q \notin f.todo
    BY <2>1, FrameFields DEF Proper, Frame
  <2> HIDE DEF f
  <2>4. rest \in Seq(Proper) /\ Head(rest) = f /\ rest # <<>>
    <3>1. rest \in Seq(Proper) /\ Head(rest) = f
      BY <2>1, <2>3, ExceptFirst
    <3>2. 1 \in DOMAIN rest
      BY <2>1
    <3>3. DOMAIN <<>> = {}
      OBVIOUS
    <3> HIDE DEF rest
    <3> QED
      BY <3>1, <3>2, <3>3
  <2>5. \/ Refuses(q) /\ Refuse(Top, q, rest)
        \/ ~Refuses(q) /\ Accept(Top, q, rest)
    BY <2>1, <2>2, Zenon DEF f, Top
  <2> HIDE DEF rest
  <2>6. ASSUME Refuse(Top, q, rest)
        PROVE  call' \in Seq(Proper) /\ refused' \subseteq Ids /\ store' = store
    BY <2>1, <2>3, <2>4, <2>6, RefuseType DEF Refuse
  <2>7. ASSUME Accept(Top, q, rest)
        PROVE  call' \in Seq(Proper) /\ store' \in [Queues -> Seq(Message)] /\ refused' = refused
    BY <2>1, <2>3, <2>4, <2>7, AcceptType DEF Accept
  <2>8. call' \in Seq(Proper) /\ refused' \subseteq Ids /\ store' \in [Queues -> Seq(Message)]
    BY <2>5, <2>6, <2>7
  <2> QED
    BY <1>1, <2>8, ProperCall DEF EnqueueStep, confirmVars, TypeOK
<1>2. ASSUME EnqueueEnd PROVE TypeOK'
  <2>1. ~Idle /\ Top \in Proper /\ Top.do = "enqueue" /\ Tail(call) \in Seq(Proper)
    BY <1>2 DEF EnqueueEnd
  <2>2. Dispatch(Top.stored, Top.live) \in Proper
    BY <2>1, FrameFields DEF Dispatch, Proper, Frame
  <2>3. call' \in Seq(Proper)
    BY <1>2, <2>1, <2>2, FramedOne DEF EnqueueEnd
  <2> QED
    BY <1>2, <2>3, ProperCall DEF EnqueueEnd, brokerVars, confirmVars, historyVars, TypeOK
<1>3. ASSUME DispatchStep PROVE TypeOK'
  <2>1. ~Idle /\ Top \in Proper /\ Top.do = "dispatch" /\ call \in Seq(Proper) /\ call # <<>>
    BY <1>3 DEF DispatchStep, Idle
  <2> DEFINE deliver(q) == [do |-> "deliver", queue |-> q, live |-> Top.live]
             f(q) == [Top EXCEPT !.queues = @ \ {q}]
             rest(q) == [call EXCEPT ![1] = f(q)]
  <2>2. PICK q \in Top.queues : Drain(q, <<deliver(q)>> \o rest(q))
    BY <1>3 DEF DispatchStep, Top
  <2>3. f(q) \in Proper /\ q \in Queues /\ deliver(q) \in Proper
    BY <2>1, FrameFields DEF Proper, Frame
  <2> HIDE DEF f, deliver
  <2>4. rest(q) \in Seq(Proper)
    BY <2>1, <2>3, ExceptFirst
  <2> HIDE DEF rest
  <2>5. <<deliver(q)>> \o rest(q) \in Seq(Proper)
    BY <2>3, <2>4, FramedOne
  <2>6. call' \in Seq(Proper) /\ store' \in [Queues -> Seq(Message)]
    BY <2>2, <2>3, <2>5, DrainType
  <2> QED
    BY <1>3, <2>6, ProperCall DEF DispatchStep, confirmVars, historyVars, TypeOK
<1>4. ASSUME DispatchEnd \/ TryEnd \/ ListenerEnd PROVE TypeOK'
  <2>1. call' \in Seq(Proper)
    BY <1>4 DEF DispatchEnd, TryEnd, ListenerEnd, Pop
  <2> QED
    BY <1>4, <2>1, ProperCall
    DEF DispatchEnd, TryEnd, ListenerEnd, brokerVars, confirmVars, historyVars, TypeOK
<1>5. ASSUME DeliverStep \/ GetStep PROVE TypeOK'
  <2>1. call' \in Seq(Proper) /\ Top.queue \in Queues
    BY <1>5, FrameFields DEF DeliverStep, GetStep, Pop
  <2>2. \E n \in 0 .. Len(store[Top.queue]) : Take(Top.queue, n)
    <3>1. Len(store[Top.queue]) \in Nat
      BY <2>1
    <3>2. ASSUME DeliverStep PROVE \E n \in 0 .. Len(store[Top.queue]) : Take(Top.queue, n)
      BY <3>1, <3>2 DEF DeliverStep
    <3>3. ASSUME GetStep PROVE \E n \in 0 .. Len(store[Top.queue]) : Take(Top.queue, n)
      <4>1. Min({1, Len(store[Top.queue])}) \in {1, Len(store[Top.queue])}
            /\ Min({1, Len(store[Top.queue])}) <= Len(store[Top.queue])
        <5> DEFINE n == Len(store[Top.queue])
                   S == {1, n}
        <5>1. S \in SUBSET Nat /\ S # {} /\ n \in S
          BY <3>1
        <5> HIDE DEF S
        <5>2. Min(S) \in S /\ Min(S) <= n
          BY <5>1, MinProperties
        <5> QED
          BY <5>2 DEF S
      <4> QED
        BY <3>1, <3>3, <4>1 DEF GetStep
    <3> QED
      BY <1>5, <3>2, <3>3
  <2>3. store' \in [Queues -> Seq(Message)] /\ unacked' \in Seq(Delivery)
    BY <2>1, <2>2, TakeType
  <2> QED
    BY <1>5, <2>1, <2>3, ProperCall DEF DeliverStep, GetStep, confirmVars, historyVars, TypeOK
<1>6. ASSUME DeadStep PROVE TypeOK'
  <2>1. /\ ~Idle /\ Top \in Proper /\ Tail(call) \in Seq(Proper)
        /\ Top.message \in Message /\ Top.queue \in Queues /\ Top.reason \in Reasons
        /\ Top.live \in BOOLEAN
    BY <1>6, FrameFields DEF DeadStep
  <2> DEFINE again == PrepareDeadLetter(Top.message, Top.queue, Top.reason)
             targets == Route(DeadLetterExchange[Top.queue], {again.key} \cup again.cc)
             publish == Enqueue(again, targets, Top.live)
             try == [do |-> "try"]
  <2>2. publish \in Proper /\ try \in Proper
    <3>1. again \in Message
      BY <2>1, PreparedType
    <3>2. targets \subseteq Queues
      BY RouteInQueues
    <3> HIDE DEF again, targets
    <3> QED
      BY <2>1, <3>1, <3>2 DEF Enqueue, Proper, Frame
  <2>3. call' \in {Tail(call), <<publish, try>> \o Tail(call), <<publish>> \o Tail(call), Thrown}
    BY <1>6 DEF DeadStep, Pop
  <2> HIDE DEF publish, try
  <2>4. <<publish, try>> \in Seq(Proper)
    <3> HIDE DEF Proper
    <3> QED
      BY <2>2
  <2>5. call' \in Seq(Proper)
    BY <2>1, <2>2, <2>3, <2>4, Framed, FramedOne, ThrownType
  <2> QED
    BY <1>6, <2>5, ProperCall DEF DeadStep, brokerVars, confirmVars, historyVars, TypeOK
<1>7. ASSUME ReturnStep PROVE TypeOK'
  <2>1. ~Idle /\ Top.id \in Ids /\ Tail(call) \in Seq(Proper) /\ Listener \in Proper
    BY <1>7, FrameFields DEF ReturnStep, Listener, Proper, Frame
  <2>2. call' \in Seq(Proper)
    BY <1>7, <2>1, FramedOne DEF ReturnStep
  <2>3. events' \in Seq(Event)
    BY <1>7, <2>1 DEF ReturnStep, Event
  <2> QED
    BY <1>7, <2>2, <2>3, ProperCall DEF ReturnStep, brokerVars, confirmVars, TypeOK
<1>8. ASSUME ConfirmStep PROVE TypeOK'
  <2>1. ~Idle /\ Top.id \in Ids /\ Tail(call) \in Seq(Proper)
    BY <1>8, FrameFields DEF ConfirmStep
  <2> DEFINE two == <<Listener, [do |-> "drained"]>>
  <2>2. two \in Seq(Proper)
    <3>1. Listener \in Proper /\ [do |-> "drained"] \in Proper
      BY DEF Listener, Proper, Frame
    <3> HIDE DEF Proper
    <3> QED
      BY <3>1
  <2> HIDE DEF two
  <2>3. call' \in {Tail(call), two \o Tail(call)}
    BY <1>8 DEF ConfirmStep, Pop, two
  <2>4. call' \in Seq(Proper)
    BY <2>1, <2>2, <2>3, Framed
  <2>5. events' \in Seq(Event) /\ pending' \subseteq pending
    <3> DEFINE told == [type |-> IF Top.ok THEN "ack" ELSE "nack", id |-> Top.id]
    <3>1. told \in Event
      BY <2>1 DEF Event
    <3>2. events' \in {events, Append(events, told)} /\ pending' \subseteq pending
      BY <1>8 DEF ConfirmStep, Unconfirmed
    <3> HIDE DEF told, Event
    <3>3. Append(events, told) \in Seq(Event)
      BY <3>1, AppendProperties
    <3> QED
      BY <3>2, <3>3
  <2> QED
    BY <1>8, <2>4, <2>5, ProperCall DEF ConfirmStep, brokerVars, TypeOK
<1>9. ASSUME DrainedStep PROVE TypeOK'
  <2>1. call' \in Seq(Proper) /\ waiters' \in Nat
    BY <1>9 DEF DrainedStep, Pop
  <2> QED
    BY <1>9, <2>1, ProperCall DEF DrainedStep, brokerVars, historyVars, TypeOK
<1> QED
  BY <1>1, <1>2, <1>3, <1>4, <1>5, <1>6, <1>7, <1>8, <1>9 DEF RunCall

LEMMA TypesClient ==
  ASSUME TypeOK, Next, ~RunCall
  PROVE  TypeOK'
<1> USE Types
<1>1. ASSUME NEW p \in Publications, Publish(p) PROVE TypeOK'
  <2> DEFINE id == published + 1
             tag == IF confirmMode THEN tagSeq + 1 ELSE 0
             ok == p.exchange \in exists \ Internal
             targets == Route(p.exchange, {p.key} \cup p.cc \cup p.bcc)
             pipeline == IF ~ok THEN <<>>
                         ELSE IF targets = {} /\ p.mandatory THEN <<[do |-> "return", id |-> id]>>
                         ELSE <<Enqueue(NewMessage(p), targets, TRUE)>>
             confirm == [do |-> "confirm", id |-> id, tag |-> tag, ok |-> ok]
  <2>1. published \in Nat /\ published < MaxPublished /\ MaxPublished \in Nat
    BY <1>1, PublishingAssumption DEF Publish
  <2>2. id \in Ids /\ id \in 0 .. MaxPublished
    BY <2>1 DEF Ids
  <2>3. NewMessage(p) \in Message
    BY <2>1, NewMessageType
  <2>4. targets \subseteq Queues
    BY RouteInQueues
  <2> HIDE DEF targets
  <2>5. /\ Enqueue(NewMessage(p), targets, TRUE) \in Proper
        /\ [do |-> "return", id |-> id] \in Proper
        /\ confirm \in Proper
    BY <2>2, <2>3, <2>4 DEF Enqueue, Proper, Frame
  <2>6. pipeline \in Seq(Proper)
    <3>1. \A f \in Proper : <<f>> \in Seq(Proper)
      BY OneFrame
    <3>2. <<>> \in Seq(Proper)
      <4> HIDE DEF Proper
      <4> QED
        BY EmptySeq
    <3> QED
      BY <2>5, <3>1, <3>2
  <2>7. call' = pipeline \o <<confirm>> \o call
    BY <1>1 DEF Publish, targets
  <2> HIDE DEF pipeline, confirm
  <2>8. call' \in Seq(Proper)
    <3> HIDE DEF Proper
    <3> QED
      BY <2>5, <2>6, <2>7, FramedOne, Framed
  <2>9. tagSeq' \in Nat /\ pending' \subseteq 1 .. tagSeq' /\ published' \in 0 .. MaxPublished
    BY <1>1, <2>2 DEF Publish
  <2> QED
    <3>1. UNCHANGED <<exists, store, unacked, consumed, confirmMode, waiters, events, refused>>
      BY <1>1 DEF Publish, brokerVars
    <3>2. call' \in Seq(Frame)
          /\ \A i \in DOMAIN call' : call'[i].do = "enqueue" => call'[i].todo \cap call'[i].stored = {}
      BY <2>8, ProperCall
    <3> QED
      BY <2>9, <3>1, <3>2 DEF TypeOK
<1>2. ASSUME ConfirmSelect \/ WaitForConfirms PROVE TypeOK'
  <2>1. /\ confirmMode' \in BOOLEAN /\ waiters' \in Nat
        /\ UNCHANGED <<brokerVars, tagSeq, pending, call, historyVars>>
    <3>1. CASE ConfirmSelect
      BY <3>1, Zenon DEF ConfirmSelect
    <3>2. CASE WaitForConfirms
      BY <3>2 DEF WaitForConfirms
    <3> QED
      BY <1>2, <3>1, <3>2, Zenon
  <2> QED
    BY <2>1 DEF brokerVars, historyVars, TypeOK
<1>3. ASSUME NEW q \in Queues, Consume(q) PROVE TypeOK'
  <2>1. Dispatch({q}, TRUE) \in Proper
    BY DEF Dispatch, Proper, Frame
  <2>2. call' \in Seq(Proper)
    BY <1>3, <2>1, OneFrame DEF Consume
  <2> QED
    BY <1>3, <2>2, ProperCall DEF Consume, confirmVars, historyVars, TypeOK
<1>4. ASSUME NEW q \in Queues, Cancel(q) PROVE TypeOK'
  BY <1>4, ProperCall DEF Cancel, confirmVars, historyVars, TypeOK
<1>5. ASSUME NEW q \in Queues, Get(q) PROVE TypeOK'
  <2> DEFINE get == [do |-> "get", queue |-> q]
  <2>1. <<get>> \in Seq(Proper)
    <3>1. get \in Proper
      BY DEF Proper, Frame
    <3> HIDE DEF get
    <3> QED
      BY <3>1, OneFrame
  <2>2. Drain(q, <<get>>)
    BY <1>5 DEF Get
  <2> HIDE DEF get
  <2>3. call' \in Seq(Proper) /\ store' \in [Queues -> Seq(Message)]
    BY <2>1, <2>2, DrainType
  <2> QED
    BY <1>5, <2>3, ProperCall DEF Get, confirmVars, historyVars, TypeOK
<1>6. ASSUME NEW i \in DOMAIN unacked, NEW multiple \in BOOLEAN, Ack(i, multiple) PROVE TypeOK'
  <2> DEFINE queues == QueuesOf(Covered(i, multiple))
  <2>1. unacked' \in Seq(Delivery) /\ queues \subseteq Queues
    BY <1>6, UncoveredType, QueuesOfType DEF Ack
  <2> HIDE DEF queues
  <2>2. Dispatch(queues, TRUE) \in Proper
    BY <2>1 DEF Dispatch, Proper, Frame
  <2>3. call' \in Seq(Proper)
    BY <1>6, <2>2, OneFrame DEF Ack, queues
  <2> QED
    BY <1>6, <2>1, <2>3, ProperCall DEF Ack, confirmVars, historyVars, TypeOK
<1>7. ASSUME NEW i \in DOMAIN unacked, NEW multiple \in BOOLEAN, Reject(i, multiple) PROVE TypeOK'
  <2> DEFINE s == Covered(i, multiple)
             dispatch == Dispatch(QueuesOf(s), TRUE)
  <2>1. unacked' \in Seq(Delivery) /\ s \in Seq(Delivery) /\ QueuesOf(s) \subseteq Queues
    BY <1>7, UncoveredType, QueuesOfType DEF Reject
  <2> HIDE DEF s
  <2>2. dispatch \in Proper /\ Rejections(s) \in Seq(Proper)
    BY <2>1, RejectionsAre DEF Dispatch, Proper, Frame
  <2>3. call' = Rejections(s) \o <<dispatch>>
    BY <1>7 DEF Reject, s
  <2> HIDE DEF dispatch
  <2>4. call' \in Seq(Proper)
    <3>1. <<dispatch>> \in Seq(Proper)
      BY <2>2, OneFrame
    <3> QED
      BY <2>2, <2>3, <3>1, Framed
  <2> QED
    BY <1>7, <2>1, <2>4, ProperCall DEF Reject, confirmVars, historyVars, TypeOK
<1>8. ASSUME NEW i \in DOMAIN unacked, Requeue(i) PROVE TypeOK'
  <2> DEFINE q == unacked[i].queue
             m == unacked[i].message
  <2>1. q \in Queues /\ m \in Message /\ i \in 1 .. Len(unacked) /\ unacked \in Seq(Delivery)
        /\ store \in [Queues -> Seq(Message)] /\ store[q] \in Seq(Message)
    OBVIOUS
  <2>2. /\ unacked' = RemoveAt(unacked, i)
        /\ store' = [store EXCEPT ![q] = Requeued(q, m)]
        /\ call' = <<Dispatch({q}, TRUE)>>
    BY <1>8 DEF Requeue
  <2> HIDE DEF q, m
  <2>3. Requeued(q, m) \in Seq(Message)
    BY <2>1, RequeuedAt, InsertedAt
  <2>4. unacked' \in Seq(Delivery)
    BY <2>1, <2>2, RemovedAt
  <2>5. Dispatch({q}, TRUE) \in Proper
    BY <2>1 DEF Dispatch, Proper, Frame
  <2>6. call' \in Seq(Proper)
    BY <2>2, <2>5, OneFrame
  <2> QED
    <3>1. UNCHANGED <<exists, consumed, confirmMode, tagSeq, pending, waiters, published, events, refused>>
      BY <1>8 DEF Requeue, confirmVars, historyVars
    <3>2. store' \in [Queues -> Seq(Message)]
      BY <2>1, <2>2, <2>3
    <3>3. call' \in Seq(Frame)
          /\ \A j \in DOMAIN call' : call'[j].do = "enqueue" => call'[j].todo \cap call'[j].stored = {}
      BY <2>6, ProperCall
    <3> QED
      BY <2>4, <3>1, <3>2, <3>3 DEF TypeOK
<1>9. ASSUME NEW e \in Exchanges, DeleteExchange(e) PROVE TypeOK'
  BY <1>9, ProperCall DEF DeleteExchange, confirmVars, historyVars, TypeOK
<1>10. ASSUME NEW q \in Queues, NEW i \in DOMAIN store[q], Expire(q, i) PROVE TypeOK'
  <2> DEFINE s == store[q]
             m == [s[i] EXCEPT !.expiresAt = "past"]
             t == [s EXCEPT ![i] = m]
  <2>1. s \in Seq(Message) /\ m \in Message /\ i \in 1 .. Len(s)
    <3>1. \A x \in Message : [x EXCEPT !.expiresAt = "past"] \in Message
      BY DEF Message
    <3> QED
      BY <3>1
  <2>2. t \in Seq(Message)
    <3> HIDE DEF s, m
    <3> QED
      BY <2>1, ExceptSeq
  <2>3. store' = [store EXCEPT ![q] = t]
    BY <1>10 DEF Expire
  <2> HIDE DEF t
  <2>4. store' \in [Queues -> Seq(Message)]
    BY <2>2, <2>3
  <2> QED
    BY <1>10, <2>4, ProperCall DEF Expire, confirmVars, historyVars, TypeOK
<1>11. ASSUME NEW i \in DOMAIN unacked, ExpireUnacked(i) PROVE TypeOK'
  <2> DEFINE d == [unacked[i] EXCEPT !.message.expiresAt = "past"]
  <2>1. d \in Delivery /\ i \in 1 .. Len(unacked) /\ unacked \in Seq(Delivery)
    <3>1. \A x \in Delivery : [x EXCEPT !.message.expiresAt = "past"] \in Delivery
      BY DEF Delivery, Message
    <3> QED
      BY <3>1
  <2>2. unacked' = [unacked EXCEPT ![i] = d]
    BY <1>11 DEF ExpireUnacked
  <2> HIDE DEF d
  <2>3. unacked' \in Seq(Delivery)
    BY <2>1, <2>2, ExceptSeq
  <2> QED
    BY <1>11, <2>3, ProperCall DEF ExpireUnacked, confirmVars, historyVars, TypeOK
<1> QED
  BY <1>1, <1>2, <1>3, <1>4, <1>5, <1>6, <1>7, <1>8, <1>9, <1>10, <1>11 DEF Next, ClientNext

LEMMA TypesStep ==
  ASSUME TypeOK, [Next]_vars
  PROVE  TypeOK'
<1>1. CASE UNCHANGED vars
  BY <1>1 DEF vars, brokerVars, confirmVars, historyVars, TypeOK
<1>2. CASE RunCall
  BY <1>2, TypesRunCall
<1>3. CASE Next /\ ~RunCall
  BY <1>3, TypesClient
<1> QED
  BY <1>1, <1>2, <1>3

(* Publishing is well typed, however the publishes a publish causes nest; and a
   publish stores a message in a queue once. *)
THEOREM PublishingTypes == Spec => []TypeOK
<1>1. Init => TypeOK
  <2>1. <<>> \in Seq(Message) /\ <<>> \in Seq(Delivery) /\ <<>> \in Seq(Frame) /\ <<>> \in Seq(Event)
    BY EmptySeq
  <2>2. MaxPublished \in Nat /\ DOMAIN <<>> = {}
    BY PublishingAssumption
  <2> SUFFICES ASSUME Init PROVE TypeOK
    OBVIOUS
  <2> HIDE DEF Message, Delivery, Frame, Event
  <2>3. store \in [Queues -> Seq(Message)]
    BY <2>1 DEF Init
  <2>4. /\ tagSeq \in Nat /\ pending \subseteq 1 .. tagSeq /\ waiters \in Nat
        /\ published \in 0 .. MaxPublished
    BY <2>2 DEF Init
  <2>5. \A i \in DOMAIN call : call[i].do = "enqueue" => call[i].todo \cap call[i].stored = {}
    BY <2>2, Zenon DEF Init
  <2> QED
    BY <2>1, <2>3, <2>4, <2>5, Zenon DEF Init, TypeOK
<1> QED
  BY <1>1, TypesStep, PTL DEF Spec

-----------------------------------------------------------------------------
(* Length limits: every step but a requeue leaves a queue no larger than it was,
   or within its limit *)

LEMMA SmallerKeepsLimit ==
  ASSUME NEW q, NEW s \in Seq(Message), NEW t \in Seq(Message), NEW e, Embeds(e, t, s)
  PROVE  Exceeds(q, t) => Exceeds(q, s)
<1>1. ByteSize(t) <= ByteSize(s) /\ Len(t) <= Len(s)
  BY EmbeddedIsSmaller
<1>2. ByteSize(t) \in Nat /\ ByteSize(s) \in Nat /\ Len(t) \in Nat /\ Len(s) \in Nat
  BY SizeType, LenProperties
<1> QED
  BY <1>1, <1>2, PublishingAssumption DEF Exceeds

LEMMA SuffixEmbeds ==
  ASSUME NEW s \in Seq(Message), NEW n \in 0 .. Len(s)
  PROVE  /\ SubSeq(s, n + 1, Len(s)) \in Seq(Message)
         /\ Len(SubSeq(s, n + 1, Len(s))) = Len(s) - n
         /\ \A j \in 1 .. Len(s) - n : SubSeq(s, n + 1, Len(s))[j] = s[n + j]
         /\ \E e : Embeds(e, SubSeq(s, n + 1, Len(s)), s)
<1> DEFINE t == SubSeq(s, n + 1, Len(s))
           e == [j \in 1 .. Len(s) - n |-> n + j]
<1>1. Len(s) \in Nat
  BY LenProperties
<1>2. t \in Seq(Message) /\ Len(t) = Len(s) - n /\ \A j \in 1 .. Len(t) : t[j] = s[n + 1 + j - 1]
  <2>1. n + 1 \in 1 .. Len(s) + 1 /\ Len(s) \in 0 .. Len(s) /\ n + 1 <= Len(s) + 1
    BY <1>1
  <2>2. t \in Seq(Message) /\ Len(t) = Len(s) - (n + 1) + 1
        /\ \A j \in 1 .. Len(t) : t[j] = s[n + 1 + j - 1]
    BY <2>1, Piece
  <2> HIDE DEF t
  <2> QED
    BY <1>1, <2>2
<1> HIDE DEF t
<1>3. \A j \in 1 .. Len(s) - n : t[j] = s[n + j]
  <2>1. \A j \in 1 .. Len(s) - n : n + 1 + j - 1 = n + j
    BY <1>1
  <2> QED
    BY <1>2, <2>1
<1>4. Embeds(e, t, s)
  BY <1>1, <1>2, <1>3 DEF Embeds
<1> QED
  BY <1>2, <1>3, <1>4 DEF t

LEMMA OnlyEmbeds ==
  ASSUME NEW s \in Seq(Message), NEW S
  PROVE  \E e : Embeds(e, Only(s, S), s)
<1>1. PICK e : Picks(e, Only(s, S), s, Len(s), S)
  BY OnlyPicks
<1>2. Embeds(e, Only(s, S), s)
  BY <1>1 DEF Picks, Embeds
<1> QED
  BY <1>2

(* What a queue that accepts a message holds then is within its limit. *)
LEMMA AcceptKeepsLimit ==
  ASSUME TypeOK, NEW q \in Queues, ~Refuses(q), NEW m \in Message, NEW s, NEW n,
         s = Enqueued(q, Stamped(q, m)), n = Excess(q, s)
  PROVE  /\ s \in Seq(Message) /\ n \in 0 .. Len(s)
         /\ ~Exceeds(q, SubSeq(s, n + 1, Len(s)))
<1>1. s \in Seq(Message) /\ Len(s) = Len(store[q]) + 1 /\ Len(s) \in Nat
  <2>1. Stamped(q, m) \in Message
    BY StampedType
  <2>2. PICK i \in 1 .. Len(store[q]) + 1 : s = InsertAt(store[q], i, Stamped(q, m))
    BY <2>1, EnqueuedAt
  <2>3. s \in Seq(Message) /\ Len(s) = Len(store[q]) + 1
    BY <2>1, <2>2, Types, InsertedAt
  <2> QED
    BY <2>3, LenProperties
<1>2. CASE Overflow[q] = "drop-head"
  <2> DEFINE F == {k \in 0 .. Len(s) : ~IsOverLimit(q, SubSeq(s, k + 1, Len(s)))}
  <2>1. F \in SUBSET Nat
    OBVIOUS
  <2>2. n = Min(F)
    BY <1>2 DEF Excess
  <2>3. Len(s) \in F
    <3>1. ~IsOverLimit(q, SubSeq(s, Len(s) + 1, Len(s)))
      <4>1. s \in Seq(Message)
        BY <1>1
      <4> HIDE DEF F
      <4> QED
        BY <4>1, NothingIsOver
    <3>2. Len(s) \in 0 .. Len(s)
      BY <1>1
    <3> QED
      BY <3>1, <3>2
  <2>4. n \in F
    <3> HIDE DEF F
    <3> QED
      BY <2>1, <2>2, <2>3, MinProperties
  <2> QED
    BY <1>1, <2>4 DEF IsOverLimit, Exceeds
<1>3. CASE Overflow[q] # "drop-head"
  <2>1. n = 0
    BY <1>3 DEF Excess
  <2>2. 0 \in 0 .. Len(s)
    BY <1>1
  <2> DEFINE t == SubSeq(s, 0 + 1, Len(s))
  <2>3. Len(t) = Len(s)
    BY <1>1, <2>2, SuffixEmbeds
  <2> HIDE DEF t
  <2>4. ~Exceeds(q, t)
    <3>1. ~IsAtLimit(q, store[q])
      BY <1>3 DEF Refuses
    <3>2. Len(store[q]) \in Nat
      BY Types
    <3> QED
      BY <1>1, <1>3, <2>3, <3>1, <3>2, PublishingAssumption DEF Exceeds, IsAtLimit
  <2> QED
    BY <1>1, <2>1, <2>2, <2>4 DEF t
<1> QED
  BY <1>2, <1>3

LEMMA LimitsStep ==
  ASSUME TypeOK, [Next]_vars, NEW q \in Queues,
         Exceeds(q, store'[q]), ~Exceeds(q, store[q])
  PROVE  Len(unacked') < Len(unacked)
<1>0. /\ store \in [Queues -> Seq(Message)] /\ store[q] \in Seq(Message)
      /\ Len(store[q]) \in Nat /\ DOMAIN store[q] = 1 .. Len(store[q])
  BY Types
<1>1. store'[q] # store[q]
  OBVIOUS
<1>2. ASSUME NEW p \in Queues, NEW S, store' = [store EXCEPT ![p] = Only(@, S)] PROVE FALSE
  <2>1. store'[q] = Only(store[q], S)
    BY <1>0, <1>1, <1>2
  <2>2. Only(store[q], S) \in Seq(Message) /\ \E e : Embeds(e, Only(store[q], S), store[q])
    BY <1>0, OnlyEmbeds, OnlyHas
  <2> QED
    BY <1>0, <2>1, <2>2, SmallerKeepsLimit
<1>3. ASSUME NEW p \in Queues, NEW rest, Drain(p, rest) PROVE FALSE
  <2> DEFINE S == ToSet(store[p]) \ Drained(p)
  <2>1. store' = [store EXCEPT ![p] = Only(@, S)]
    BY <1>3 DEF Drain
  <2> HIDE DEF S
  <2> QED
    BY <1>2, <2>1
<1>4. ASSUME NEW p \in Queues, NEW n \in 0 .. Len(store[p]), Take(p, n) PROVE FALSE
  <2>1. p = q /\ store'[q] = SubSeq(store[q], n + 1, Len(store[q]))
    BY <1>0, <1>1, <1>4 DEF Take
  <2>2. /\ SubSeq(store[q], n + 1, Len(store[q])) \in Seq(Message)
        /\ \E e : Embeds(e, SubSeq(store[q], n + 1, Len(store[q])), store[q])
    BY <1>0, <2>1, SuffixEmbeds
  <2> QED
    BY <1>0, <2>1, <2>2, SmallerKeepsLimit
<1>5. ASSUME EnqueueStep PROVE FALSE
  <2>1. ~Idle /\ Top \in Proper /\ Top.do = "enqueue"
    BY <1>5, Types DEF EnqueueStep
  <2>2. Top.message \in Message /\ Top.todo \subseteq Queues
    BY <2>1, FrameFields
  <2>3. PICK p \in Top.todo : ~Refuses(p) /\ \E rest : Accept(Top, p, rest)
    BY <1>1, <1>5 DEF EnqueueStep, Refuse
  <2> DEFINE s == Enqueued(p, Stamped(p, Top.message))
             n == Excess(p, s)
  <2>4. store' = [store EXCEPT ![p] = SubSeq(s, n + 1, Len(s))]
    BY <2>3 DEF Accept
  <2> HIDE DEF s, n
  <2>5. p = q /\ store'[q] = SubSeq(s, n + 1, Len(s))
    BY <1>0, <1>1, <2>2, <2>3, <2>4
  <2>6. ~Exceeds(p, SubSeq(s, n + 1, Len(s)))
    BY <2>2, <2>3, AcceptKeepsLimit DEF s, n
  <2> QED
    BY <2>5, <2>6
<1>6. ASSUME DispatchStep PROVE FALSE
  <2>1. Top.queues \subseteq Queues
    BY <1>6, Types, FrameFields DEF DispatchStep
  <2> QED
    BY <1>3, <1>6, <2>1 DEF DispatchStep
<1>7. ASSUME DeliverStep \/ GetStep PROVE FALSE
  <2>1. Top.queue \in Queues
    BY <1>7, Types, FrameFields DEF DeliverStep, GetStep
  <2>2. Len(store[Top.queue]) \in Nat
    BY <2>1, Types
  <2>3. CASE DeliverStep
    BY <1>4, <2>1, <2>2, <2>3 DEF DeliverStep
  <2>4. CASE GetStep
    <3> DEFINE k == Len(store[Top.queue])
               S == {1, k}
    <3>1. S \in SUBSET Nat /\ S # {} /\ k \in S
      BY <2>2
    <3> HIDE DEF S
    <3>2. Min(S) \in S /\ Min(S) <= k
      BY <3>1, MinProperties
    <3>3. Min(S) \in 0 .. k
      <4>1. Min(S) \in Nat /\ k \in Nat
        BY <2>2, <3>1, <3>2
      <4> QED
        BY <3>2, <4>1
    <3>4. Take(Top.queue, Min(S))
      BY <2>4 DEF GetStep, S
    <3> QED
      BY <1>4, <2>1, <3>3, <3>4
  <2> QED
    BY <1>7, <2>3, <2>4
<1>8. ASSUME NEW i \in DOMAIN unacked, Requeue(i) PROVE Len(unacked') < Len(unacked)
  <2>1. unacked' = RemoveAt(unacked, i) /\ unacked \in Seq(Delivery) /\ i \in 1 .. Len(unacked)
        /\ Len(unacked) \in Nat
    BY <1>8, Types DEF Requeue
  <2>2. Len(unacked') = Len(unacked) - 1
    <3> HIDE DEF Delivery
    <3> QED
      BY <2>1, RemovedAt
  <2> QED
    BY <2>1, <2>2
<1>9. ASSUME NEW p \in Queues, NEW i \in DOMAIN store[p], Expire(p, i) PROVE FALSE
  <2> DEFINE s == store[q]
             t == [s EXCEPT ![i].expiresAt = "past"]
             e == [j \in 1 .. Len(s) |-> j]
  <2>1. p = q /\ store'[q] = t
    BY <1>0, <1>1, <1>9 DEF Expire
  <2>2. i \in 1 .. Len(s) /\ s \in Seq(Message) /\ s[i] \in Message
    BY <1>0, <2>1, ElementOfSeq
  <2>3. [s[i] EXCEPT !.expiresAt = "past"] \in Message
        /\ [s[i] EXCEPT !.expiresAt = "past"].size = s[i].size
    <3>1. \A m \in Message : /\ [m EXCEPT !.expiresAt = "past"] \in Message
                             /\ [m EXCEPT !.expiresAt = "past"].size = m.size
      BY DEF Message
    <3> QED
      BY <2>2, <3>1
  <2>4. /\ t \in Seq(Message) /\ Len(t) = Len(s)
        /\ \A j \in 1 .. Len(s) : t[j] = IF j = i THEN [s[i] EXCEPT !.expiresAt = "past"] ELSE s[j]
    <3> HIDE DEF s
    <3> QED
      BY <2>2, <2>3, ExceptSeq
  <2> HIDE DEF t
  <2>5. Embeds(e, t, s)
    <3>1. \A j \in 1 .. Len(s) : t[j].size = s[j].size
      BY <2>3, <2>4
    <3> QED
      BY <1>0, <2>4, <3>1 DEF Embeds
  <2>6. Exceeds(q, t) => Exceeds(q, s)
    <3> HIDE DEF s, e
    <3> QED
      BY <2>2, <2>4, <2>5, SmallerKeepsLimit
  <2> QED
    BY <2>1, <2>6
<1>10. ASSUME NEW p \in Queues, Get(p) PROVE FALSE
  BY <1>3, <1>10 DEF Get
<1> QED
  BY <1>1, <1>5, <1>6, <1>7, <1>8, <1>9, <1>10
  DEF Next, RunCall, ClientNext, EnqueueEnd, DispatchEnd, DeadStep, TryEnd, ReturnStep, ConfirmStep,
      DrainedStep, ListenerEnd, Publish, ConfirmSelect, WaitForConfirms, Consume, Cancel, Ack, Reject,
      DeleteExchange, ExpireUnacked, vars, brokerVars, confirmVars, historyVars

(* However deep publishes nest, whatever mixture of drop-head and refusal the
   queues use and whichever of the two limits they have, no queue grows past its
   limit but by a requeue. *)
THEOREM LimitsAreKept == Spec => LimitsHold
<1>1. TypeOK /\ [Next]_vars =>
        [\A q \in Queues :
           Exceeds(q, store'[q]) /\ ~Exceeds(q, store[q]) => Len(unacked') < Len(unacked)]_vars
  BY LimitsStep
<1> QED
  BY <1>1, PublishingTypes, PTL DEF Spec, LimitsHold

-----------------------------------------------------------------------------
(* Where the messages of the next state come from *)

MessagesIn(s) == {f.message : f \in {f \in ToSet(s) : f.do \in {"enqueue", "dead"}}}

LEMMA MessagesOf ==
  ASSUME NEW s
  PROVE  \A m : m \in MessagesIn(s) <=> \E f \in ToSet(s) : f.do \in {"enqueue", "dead"} /\ m = f.message
  BY DEF MessagesIn

LEMMA InConcat ==
  ASSUME NEW s \in Seq(Proper), NEW t \in Seq(Proper)
  PROVE  MessagesIn(s \o t) = MessagesIn(s) \cup MessagesIn(t)
<1>1. ToSet(s \o t) = ToSet(s) \cup ToSet(t)
  <2> HIDE DEF Proper
  <2> QED
    BY ToSetConcat
<1> QED
  BY <1>1 DEF MessagesIn

LEMMA InOne ==
  ASSUME NEW f
  PROVE  /\ MessagesIn(<<f>>) = IF f.do \in {"enqueue", "dead"} THEN {f.message} ELSE {}
         /\ MessagesIn(<<>>) = {}
<1>1. ToSet(<<f>>) = {f} /\ ToSet(<<>>) = {}
  BY ToSetOne
<1> QED
  BY <1>1 DEF MessagesIn

LEMMA InTail ==
  ASSUME NEW s \in Seq(Proper), s # <<>>
  PROVE  MessagesIn(s) = MessagesIn(Tail(s)) \cup MessagesIn(<<s[1]>>)
<1>1. ToSet(s) = {s[1]} \cup ToSet(Tail(s))
  <2> HIDE DEF Proper
  <2> QED
    BY ToSetTail
<1>2. ToSet(<<s[1]>>) = {s[1]}
  BY ToSetOne
<1> QED
  BY <1>1, <1>2 DEF MessagesIn

LEMMA InDeaths ==
  ASSUME NEW s \in Seq(Message), NEW q \in Queues, NEW reason \in Reasons, NEW live \in BOOLEAN
  PROVE  MessagesIn(Deaths(s, q, reason, live)) \subseteq ToSet(s)
<1> DEFINE d == Deaths(s, q, reason, live)
<1>1. /\ d \in Seq(Proper)
      /\ ~DeadLetters(q, reason) => d = <<>>
      /\ DeadLetters(q, reason) =>
           /\ Len(d) = Len(s)
           /\ \A i \in 1 .. Len(s) : d[i] = Dead(s[i], q, reason, live)
  BY DeathsAre
<1> HIDE DEF d
<1>2. CASE ~DeadLetters(q, reason)
  BY <1>1, <1>2, InOne DEF d
<1>3. CASE DeadLetters(q, reason)
  <2>1. ASSUME NEW m \in MessagesIn(d) PROVE m \in ToSet(s)
    <3>1. PICK f \in ToSet(d) : m = f.message
      BY <2>1, MessagesOf
    <3>2. PICK i \in 1 .. Len(s) : f = d[i]
      <4> HIDE DEF Proper
      <4> QED
        BY <1>1, <1>3, ToSetOf
    <3>3. m = s[i]
      <4>1. f = Dead(s[i], q, reason, live)
        BY <1>1, <1>3, <3>2
      <4> QED
        BY <3>1, <4>1 DEF Dead
    <3> QED
      BY <3>3, ToSetOf
  <2> QED
    BY <2>1 DEF d
<1> QED
  BY <1>2, <1>3

LEMMA InRejections ==
  ASSUME NEW s \in Seq(Delivery)
  PROVE  MessagesIn(Rejections(s)) \subseteq {d.message : d \in ToSet(s)}
<1> DEFINE r == Rejections(s)
           t == Doomed(s)
<1>1. /\ t \in Seq(Delivery) /\ ToSet(t) \subseteq ToSet(s)
      /\ r \in Seq(Proper) /\ Len(r) = Len(t)
      /\ \A i \in 1 .. Len(t) : r[i] = Dead(t[i].message, t[i].queue, "rejected", TRUE)
  BY RejectionsAre
<1> HIDE DEF r, t
<1>2. ASSUME NEW m \in MessagesIn(r) PROVE \E d \in ToSet(s) : m = d.message
  <2>1. PICK f \in ToSet(r) : m = f.message
    BY <1>2, MessagesOf
  <2>2. PICK i \in 1 .. Len(t) : f = r[i]
    <3> HIDE DEF Proper
    <3> QED
      BY <1>1, <2>1, ToSetOf
  <2>3. m = t[i].message
    <3>1. f = Dead(t[i].message, t[i].queue, "rejected", TRUE)
      BY <1>1, <2>2
    <3> QED
      BY <2>1, <3>1 DEF Dead
  <2>4. t[i] \in ToSet(t)
    <3> HIDE DEF Delivery
    <3> QED
      BY <1>1, ToSetOf
  <2> QED
    BY <1>1, <2>3, <2>4
<1> QED
  BY <1>2 DEF r

LEMMA InThrown ==
  ASSUME TypeOK
  PROVE  MessagesIn(Thrown) \subseteq Moving
<1> DEFINE catching == {i \in DOMAIN call : call[i].do \in {"try", "confirm"}}
           i == Min(catching)
           rest == SubSeq(call, i + 1, Len(call))
           caught == [call[i] EXCEPT !.ok = FALSE]
<1>1. call \in Seq(Proper) /\ Len(call) \in Nat /\ DOMAIN call = 1 .. Len(call)
  BY Types
<1>2. Thrown = IF catching = {} THEN <<>>
               ELSE IF call[i].do = "try" THEN rest ELSE <<caught>> \o rest
  BY DEF Thrown
<1>3. ASSUME catching # {}
      PROVE  /\ rest \in Seq(Proper) /\ MessagesIn(rest) \subseteq Moving
             /\ call[i].do # "try" => caught \in Proper /\ caught.do = "confirm"
  <2>1. catching \in SUBSET (1 .. Len(call)) /\ catching \in SUBSET Nat
    BY <1>1
  <2>2. i \in catching
    <3> HIDE DEF catching
    <3> QED
      BY <1>3, <2>1, MinProperties
  <2>3. i \in 1 .. Len(call) /\ call[i].do \in {"try", "confirm"}
    BY <1>1, <2>2
  <2> HIDE DEF catching, i
  <2>4. rest \in Seq(Proper) /\ ToSet(rest) \subseteq ToSet(call)
    <3>1. i + 1 \in 1 .. Len(call) + 1 /\ Len(call) \in 0 .. Len(call) /\ i + 1 <= Len(call) + 1
      BY <1>1, <2>3
    <3> HIDE DEF Proper
    <3> QED
      BY <1>1, <3>1, ToSetPiece
  <2>5. call[i] \in Proper
    BY <2>3, Types
  <2>6. \A f \in Proper : f.do = "confirm" => /\ [f EXCEPT !.ok = FALSE] \in Proper
                                              /\ [f EXCEPT !.ok = FALSE].do = "confirm"
    BY DEF Proper, Frame
  <2> QED
    BY <2>3, <2>4, <2>5, <2>6 DEF Moving, MessagesIn
<1> HIDE DEF catching, i, rest, caught
<1>4. ASSUME catching # {}, call[i].do # "try" PROVE MessagesIn(<<caught>> \o rest) \subseteq Moving
  <2>1. <<caught>> \in Seq(Proper) /\ MessagesIn(<<caught>>) = {}
    BY <1>3, <1>4, OneFrame, InOne
  <2> QED
    BY <1>3, <1>4, <2>1, InConcat
<1>5. MessagesIn(<<>>) = {}
  BY InOne
<1> QED
  BY <1>2, <1>3, <1>4, <1>5

(* A message of the next state is new, or has the history of a message of this
   one, or that of a message that has just died. *)
Alike(m, n) == m.id = n.id /\ m.xDeath = n.xDeath /\ m.trail = n.trail

Descends(m) ==
  \/ m.xDeath = <<>> /\ m.trail = <<>>
  \/ \E n \in Messages : Alike(m, n)
  \/ \E n \in Messages, q \in Queues, reason \in Reasons :
       /\ m.xDeath = UpdateXDeath(n.xDeath, q, reason)
       /\ m.trail = Append(n.trail, [queue |-> q, reason |-> reason])
       /\ reason = "rejected" \/ ~IsDeadLetterCycle(n, q)

LEMMA SameDescends ==
  ASSUME NEW m \in Messages
  PROVE  Descends(m)
  BY DEF Descends, Alike

LEMMA StampedAlike ==
  ASSUME NEW q, NEW m \in Message
  PROVE  Alike(Stamped(q, m), m)
  BY DEF Alike, Stamped, Message

LEMMA StoredAre ==
  ASSUME NEW q \in Queues
  PROVE  ToSet(store[q]) \subseteq Stored
  BY DEF Stored

LEMMA StoredNext ==
  ASSUME TypeOK, NEW q \in Queues, NEW t, store' = [store EXCEPT ![q] = t]
  PROVE  Stored' \subseteq Stored \cup ToSet(t)
<1>1. store \in [Queues -> Seq(Message)]
  BY Types
<1>2. \A p \in Queues : store'[p] = IF p = q THEN t ELSE store[p]
  BY <1>1
<1> QED
  BY <1>2 DEF Stored

LEMMA DrainDescends ==
  ASSUME TypeOK, NEW q \in Queues, NEW rest \in Seq(Proper), Drain(q, rest)
  PROVE  /\ Stored' \subseteq Stored
         /\ Moving' \subseteq Stored \cup MessagesIn(rest)
<1> DEFINE left == Only(store[q], ToSet(store[q]) \ Drained(q))
           gone == Only(store[q], Drained(q))
<1>1. /\ left \in Seq(Message) /\ ToSet(left) \subseteq ToSet(store[q])
      /\ gone \in Seq(Message) /\ ToSet(gone) \subseteq ToSet(store[q])
  <2>1. store[q] \in Seq(Message)
    BY Types
  <2> QED
    BY <2>1, OnlyHas
<1>2. store' = [store EXCEPT ![q] = left] /\ call' = Deaths(gone, q, "expired", FALSE) \o rest
  BY DEF Drain
<1> HIDE DEF left, gone
<1>3. Stored' \subseteq Stored \cup ToSet(left)
  BY <1>2, StoredNext
<1>4. /\ Deaths(gone, q, "expired", FALSE) \in Seq(Proper)
      /\ MessagesIn(Deaths(gone, q, "expired", FALSE)) \subseteq ToSet(gone)
  BY <1>1, DeathsAre, InDeaths DEF Reasons
<1>5. Moving' = MessagesIn(Deaths(gone, q, "expired", FALSE)) \cup MessagesIn(rest)
  <2>1. Moving' = MessagesIn(call')
    BY DEF Moving, MessagesIn
  <2> QED
    BY <1>2, <1>4, <2>1, InConcat
<1> QED
  BY <1>1, <1>3, <1>4, <1>5, StoredAre

LEMMA TakeDescends ==
  ASSUME TypeOK, NEW q \in Queues, NEW n \in 0 .. Len(store[q]), Take(q, n)
  PROVE  Stored' \subseteq Stored /\ Delivered' \subseteq Delivered \cup Stored
<1> DEFINE left == SubSeq(store[q], n + 1, Len(store[q]))
           taken == [i \in 1 .. n |-> [queue |-> q, message |-> store[q][i]]]
<1>1. /\ store[q] \in Seq(Message) /\ Len(store[q]) \in Nat
      /\ \A i \in 1 .. Len(store[q]) : store[q][i] \in Message
      /\ unacked \in Seq(Delivery)
  BY Types
<1>2. left \in Seq(Message) /\ ToSet(left) \subseteq ToSet(store[q])
  <2>1. n + 1 \in 1 .. Len(store[q]) + 1 /\ Len(store[q]) \in 0 .. Len(store[q])
        /\ n + 1 <= Len(store[q]) + 1
    BY <1>1
  <2> QED
    BY <1>1, <2>1, ToSetPiece
<1>3. taken \in Seq(Delivery) /\ \A d \in ToSet(taken) : d.message \in ToSet(store[q])
  <2>1. \A i \in 1 .. n : [queue |-> q, message |-> store[q][i]] \in Delivery
    BY <1>1 DEF Delivery
  <2>2. Len(taken) = n /\ taken \in Seq(Delivery)
    <3> HIDE DEF Delivery
    <3> QED
      BY <1>1, <2>1
  <2>3. \A i \in 1 .. n : taken[i].message \in ToSet(store[q])
    <3>1. \A i \in 1 .. n : store[q][i] \in ToSet(store[q])
      BY <1>1, ToSetOf
    <3> QED
      BY <3>1
  <2> HIDE DEF taken, Delivery
  <2> QED
    BY <2>2, <2>3, ToSetOf
<1>4. store' = [store EXCEPT ![q] = left] /\ unacked' = unacked \o taken
  BY DEF Take
<1> HIDE DEF left, taken
<1>5. ToSet(unacked') = ToSet(unacked) \cup ToSet(taken)
  <2> HIDE DEF Delivery
  <2> QED
    BY <1>1, <1>3, <1>4, ToSetConcat
<1>6. Stored' \subseteq Stored \cup ToSet(left)
  BY <1>4, StoredNext
<1> QED
  BY <1>2, <1>3, <1>5, <1>6, StoredAre DEF Delivered

LEMMA AcceptDescends ==
  ASSUME TypeOK, NEW frame \in Proper, frame.do = "enqueue", frame.message \in Moving,
         NEW q \in Queues, ~Refuses(q), NEW rest \in Seq(Proper), rest # <<>>,
         Head(rest).do = "enqueue", q \notin Head(rest).todo, Head(rest).message = frame.message,
         MessagesIn(rest) \subseteq Moving, Accept(frame, q, rest)
  PROVE  \A m \in Stored' \cup Moving' : \E n \in Stored \cup Moving : Alike(m, n)
<1> DEFINE s == Enqueued(q, Stamped(q, frame.message))
           n == Excess(q, s)
           first == SubSeq(s, 1, n)
           last == SubSeq(s, n + 1, Len(s))
           took == [Head(rest) EXCEPT !.stored = @ \cup {q}]
           deaths == Deaths(first, q, "maxlen", frame.live)
<1>1. frame.message \in Message /\ frame.live \in BOOLEAN
  BY FrameFields
<1>2. /\ s \in Seq(Message) /\ Len(s) \in Nat /\ n \in 0 .. Len(s)
      /\ ToSet(s) \subseteq ToSet(store[q]) \cup {Stamped(q, frame.message)}
  <2>1. Stamped(q, frame.message) \in Message
    BY <1>1, StampedType
  <2>2. PICK i \in 1 .. Len(store[q]) + 1 : s = InsertAt(store[q], i, Stamped(q, frame.message))
    BY <2>1, EnqueuedAt
  <2>3. s \in Seq(Message) /\ n \in 0 .. Len(s)
    BY <1>1, AcceptKeepsLimit
  <2>4. store[q] \in Seq(Message)
    BY Types
  <2>5. ToSet(s) \subseteq ToSet(store[q]) \cup {Stamped(q, frame.message)}
    BY <2>1, <2>2, <2>4, ToSetInserted
  <2> QED
    BY <2>3, <2>5, LenProperties
<1> HIDE DEF s, n
<1>3. /\ first \in Seq(Message) /\ ToSet(first) \subseteq ToSet(s)
      /\ last \in Seq(Message) /\ ToSet(last) \subseteq ToSet(s)
  <2>1. 1 \in 1 .. Len(s) + 1 /\ n + 1 \in 1 .. Len(s) + 1 /\ Len(s) \in 0 .. Len(s)
        /\ 1 <= n + 1 /\ n + 1 <= Len(s) + 1
    BY <1>2
  <2> QED
    BY <1>2, <2>1, ToSetPiece
<1>4. /\ took \in Proper /\ took.do = "enqueue" /\ took.message = frame.message
      /\ Tail(rest) \in Seq(Proper) /\ MessagesIn(Tail(rest)) \subseteq Moving
  <2>1. Head(rest) \in Proper /\ Tail(rest) \in Seq(Proper)
    <3> HIDE DEF Proper
    <3> QED
      BY HeadTailProperties
  <2>2. \A f \in Proper : f.do = "enqueue" /\ q \notin f.todo =>
          /\ [f EXCEPT !.stored = @ \cup {q}] \in Proper
          /\ [f EXCEPT !.stored = @ \cup {q}].do = "enqueue"
          /\ [f EXCEPT !.stored = @ \cup {q}].message = f.message
    BY DEF Proper, Frame
  <2> QED
    BY <2>1, <2>2, InTail
<1>5. deaths \in Seq(Proper) /\ MessagesIn(deaths) \subseteq ToSet(first)
  BY <1>1, <1>3, DeathsAre, InDeaths DEF Reasons
<1>6. store' = [store EXCEPT ![q] = last] /\ call' = deaths \o <<took>> \o Tail(rest)
  BY DEF Accept, s, n
<1> HIDE DEF first, last, took, deaths
<1>7. MessagesIn(call') = MessagesIn(deaths) \cup {frame.message} \cup MessagesIn(Tail(rest))
  <2> DEFINE o == <<took>>
             c == Tail(rest)
  <2>1. o \in Seq(Proper) /\ MessagesIn(o) = {frame.message} /\ c \in Seq(Proper)
    BY <1>4, OneFrame, InOne
  <2>2. call' = (deaths \o o) \o c
    BY <1>6
  <2> HIDE DEF o, c
  <2>3. deaths \o o \in Seq(Proper)
    BY <1>5, <2>1, Framed
  <2>4. MessagesIn(deaths \o o) = MessagesIn(deaths) \cup MessagesIn(o)
    BY <1>5, <2>1, InConcat
  <2>5. MessagesIn((deaths \o o) \o c) = MessagesIn(deaths \o o) \cup MessagesIn(c)
    BY <2>1, <2>3, InConcat
  <2> QED
    BY <2>1, <2>2, <2>4, <2>5 DEF c
<1>8. Moving' = MessagesIn(call')
  BY DEF Moving, MessagesIn
<1>9. Stored' \subseteq Stored \cup ToSet(last)
  BY <1>6, StoredNext
<1>10. \A m \in ToSet(s) : \E x \in Stored \cup Moving : Alike(m, x)
  BY <1>1, <1>2, StampedAlike, StoredAre DEF Alike
<1>11. \A m \in Stored \cup Moving : Alike(m, m)
  BY DEF Alike
<1> QED
  BY <1>3, <1>4, <1>5, <1>7, <1>8, <1>9, <1>10, <1>11

LEMMA CoveredIn ==
  ASSUME TypeOK, NEW i \in DOMAIN unacked, NEW multiple \in BOOLEAN
  PROVE  /\ Covered(i, multiple) \in Seq(Delivery)
         /\ ToSet(Covered(i, multiple)) \subseteq ToSet(unacked)
         /\ Uncovered(i, multiple) \in Seq(Delivery)
         /\ ToSet(Uncovered(i, multiple)) \subseteq ToSet(unacked)
<1>1. unacked \in Seq(Delivery) /\ Len(unacked) \in Nat /\ i \in 1 .. Len(unacked)
  BY Types
<1> HIDE DEF Delivery
<1>2. ToSet(RemoveAt(unacked, i)) \subseteq ToSet(unacked)
  BY <1>1, ToSetRemoved
<1>3. /\ ToSet(SubSeq(unacked, 1, i)) \subseteq ToSet(unacked)
      /\ ToSet(SubSeq(unacked, i + 1, Len(unacked))) \subseteq ToSet(unacked)
  <2>1. /\ 1 \in 1 .. Len(unacked) + 1 /\ i \in 0 .. Len(unacked) /\ 1 <= i + 1
        /\ i + 1 \in 1 .. Len(unacked) + 1 /\ Len(unacked) \in 0 .. Len(unacked)
        /\ i + 1 <= Len(unacked) + 1
    BY <1>1
  <2> QED
    BY <1>1, <2>1, ToSetPiece
<1>4. ToSet(<<unacked[i]>>) \subseteq ToSet(unacked)
  BY <1>1, ToSetOne, ToSetOf
<1> QED
  BY <1>2, <1>3, <1>4, UncoveredType DEF Uncovered, Covered

LEMMA TwoFrames ==
  ASSUME NEW a, NEW b
  PROVE  <<a>> \o <<b>> = <<a, b>>
<1> DEFINE s == <<a>> \o <<b>>
<1>1. <<a>> \in Seq({a, b}) /\ <<b>> \in Seq({a, b}) /\ <<a, b>> \in Seq({a, b})
  OBVIOUS
<1>2. s \in Seq({a, b}) /\ Len(s) = 2 /\ \A i \in 1 .. 2 : s[i] = <<a, b>>[i]
  BY <1>1, ConcatProperties
<1> HIDE DEF s
<1>3. Len(<<a, b>>) = 2
  OBVIOUS
<1> QED
  BY <1>1, <1>2, <1>3, SeqEqual DEF s

LEMMA MovingAfter ==
  ASSUME TypeOK, ~Idle, NEW s \in Seq(Proper), call' = s \o Tail(call)
  PROVE  Moving' = MessagesIn(s) \cup MessagesIn(Tail(call))
<1>1. Tail(call) \in Seq(Proper)
  BY Types
<1>2. MessagesIn(s \o Tail(call)) = MessagesIn(s) \cup MessagesIn(Tail(call))
  BY <1>1, InConcat
<1> QED
  BY <1>2 DEF Moving, MessagesIn

LEMMA MessagesDescend ==
  ASSUME TypeOK, [Next]_vars, NEW m \in Messages'
  PROVE  Descends(m)
<1> USE Types
<1>1. m \in Stored' \cup Delivered' \cup Moving'
  BY DEF Messages
<1>2. Moving = MessagesIn(call) /\ Moving' = MessagesIn(call')
  BY DEF Moving, MessagesIn
<1>3. ASSUME Stored' \cup Delivered' \cup Moving' \subseteq Messages PROVE Descends(m)
  BY <1>1, <1>3, SameDescends
<1>4. ASSUME \A x \in Stored' \cup Moving' : \E n \in Stored \cup Moving : Alike(x, n),
             unacked' = unacked
      PROVE  Descends(m)
  <2>1. CASE m \in Delivered'
    BY <1>4, <2>1, SameDescends DEF Delivered, Messages
  <2>2. CASE m \in Stored' \cup Moving'
    BY <1>4, <2>2 DEF Descends, Messages
  <2> QED
    BY <1>1, <2>1, <2>2
<1>5. ~Idle => /\ Moving = MessagesIn(Tail(call)) \cup MessagesIn(<<Top>>)
               /\ MessagesIn(<<Top>>) = IF Top.do \in {"enqueue", "dead"} THEN {Top.message} ELSE {}
  <2>1. ~Idle => MessagesIn(call) = MessagesIn(Tail(call)) \cup MessagesIn(<<Top>>)
    BY InTail DEF Idle, Top
  <2> QED
    BY <1>2, <2>1, InOne
<1>6. MessagesIn(<<Listener>>) = {} /\ \A l, Q : MessagesIn(<<Dispatch(Q, l)>>) = {}
  <2>1. Listener.do = "listener" /\ \A l, Q : Dispatch(Q, l).do = "dispatch"
    BY DEF Listener, Dispatch
  <2> QED
    BY <2>1, InOne
<1>7. UNCHANGED store => Stored' = Stored
  BY DEF Stored
<1>8. UNCHANGED unacked => Delivered' = Delivered
  BY DEF Delivered
<1>9. ASSUME EnqueueStep PROVE Descends(m)
  <2>1. ~Idle /\ Top \in Proper /\ Top.do = "enqueue" /\ call \in Seq(Proper) /\ call # <<>>
    BY <1>9 DEF EnqueueStep, Idle
  <2>2. PICK q \in Top.todo :
          LET rest == [call EXCEPT ![1].todo = @ \ {q}]
          IN  \/ Refuses(q) /\ Refuse(Top, q, rest)
              \/ ~Refuses(q) /\ Accept(Top, q, rest)
    BY <1>9 DEF EnqueueStep
  <2> DEFINE f == [Top EXCEPT !.todo = @ \ {q}]
             rest == [call EXCEPT ![1] = f]
  <2>3. f \in Proper /\ q \in Queues /\ f.do = "enqueue" /\ q \notin f.todo /\ f.message = Top.message
    BY <2>1, FrameFields DEF Proper, Frame
  <2> HIDE DEF f
  <2>4. rest \in Seq(Proper) /\ Head(rest) = f /\ rest # <<>> /\ Tail(rest) = Tail(call) /\ rest[1] = f
    <3>1. rest \in Seq(Proper) /\ Head(rest) = f /\ Tail(rest) = Tail(call)
      BY <2>1, <2>3, ExceptFirst
    <3>2. 1 \in DOMAIN rest /\ rest[1] = f
      BY <2>1
    <3>3. DOMAIN <<>> = {}
      OBVIOUS
    <3> HIDE DEF rest
    <3> QED
      BY <3>1, <3>2, <3>3
  <2>5. \/ Refuses(q) /\ Refuse(Top, q, rest)
        \/ ~Refuses(q) /\ Accept(Top, q, rest)
    BY <2>1, <2>2, Zenon DEF f, Top
  <2> HIDE DEF rest
  <2>6. MessagesIn(rest) = MessagesIn(Tail(call)) \cup {Top.message} /\ Top.message \in Moving
        /\ MessagesIn(rest) \subseteq Moving
    <3>1. MessagesIn(rest) = MessagesIn(Tail(rest)) \cup MessagesIn(<<f>>)
      BY <2>4, InTail
    <3> QED
      BY <1>5, <2>1, <2>3, <2>4, <3>1, InOne
  <2>7. unacked' = unacked
    BY <1>9 DEF EnqueueStep
  <2>8. CASE Refuse(Top, q, rest)
    <3> DEFINE one == <<Top.message>>
               deaths == IF Overflow[q] = "reject-publish-dlx"
                         THEN Deaths(one, q, "maxlen", Top.live) ELSE <<>>
    <3>1. Top.message \in Message /\ Top.live \in BOOLEAN
      BY <2>1, FrameFields
    <3>2. one \in Seq(Message) /\ ToSet(one) = {Top.message}
      BY <3>1, ToSetOne
    <3> HIDE DEF one
    <3>3. deaths \in Seq(Proper) /\ MessagesIn(deaths) \subseteq {Top.message}
      <4>1. /\ Deaths(one, q, "maxlen", Top.live) \in Seq(Proper)
            /\ MessagesIn(Deaths(one, q, "maxlen", Top.live)) \subseteq {Top.message}
        BY <2>3, <3>1, <3>2, DeathsAre, InDeaths DEF Reasons
      <4>2. <<>> \in Seq(Proper)
        <5> HIDE DEF Proper
        <5> QED
          BY EmptySeq
      <4>3. MessagesIn(<<>>) = {}
        BY InOne
      <4> QED
        BY <4>1, <4>2, <4>3
    <3>4. call' = deaths \o rest /\ store' = store
      BY <2>8 DEF Refuse, one
    <3> HIDE DEF deaths
    <3>5. Moving' \subseteq Moving
      BY <1>2, <2>4, <2>6, <3>3, <3>4, InConcat
    <3> QED
      BY <1>3, <1>7, <1>8, <2>7, <3>4, <3>5 DEF Messages
  <2>9. CASE ~Refuses(q) /\ Accept(Top, q, rest)
    <3>1. \A x \in Stored' \cup Moving' : \E n \in Stored \cup Moving : Alike(x, n)
      BY <2>1, <2>3, <2>4, <2>6, <2>9, AcceptDescends
    <3> QED
      BY <1>4, <2>7, <3>1
  <2> QED
    BY <2>5, <2>8, <2>9
<1>10. ASSUME EnqueueEnd PROVE Descends(m)
  <2>1. /\ ~Idle /\ Top \in Proper /\ Top.do = "enqueue" /\ Tail(call) \in Seq(Proper)
        /\ call' = <<Dispatch(Top.stored, Top.live)>> \o Tail(call)
    BY <1>10 DEF EnqueueEnd
  <2>2. Top.live \in BOOLEAN /\ <<Dispatch(Top.stored, Top.live)>> \in Seq(Proper)
    <3>1. Dispatch(Top.stored, Top.live) \in Proper
      BY <2>1, FrameFields DEF Dispatch, Proper, Frame
    <3> QED
      BY <2>1, <3>1, FrameFields, OneFrame
  <2>3. Moving' \subseteq Moving
    BY <1>5, <1>6, <2>1, <2>2, MovingAfter
  <2> QED
    BY <1>3, <1>7, <1>8, <1>10, <2>3 DEF EnqueueEnd, brokerVars, Messages
<1>11. ASSUME DispatchStep PROVE Descends(m)
  <2>1. ~Idle /\ Top \in Proper /\ Top.do = "dispatch" /\ call \in Seq(Proper) /\ call # <<>>
    BY <1>11 DEF DispatchStep, Idle
  <2> DEFINE deliver(q) == [do |-> "deliver", queue |-> q, live |-> Top.live]
             f(q) == [Top EXCEPT !.queues = @ \ {q}]
             rest(q) == [call EXCEPT ![1] = f(q)]
  <2>2. PICK q \in Top.queues : Drain(q, <<deliver(q)>> \o rest(q))
    BY <1>11 DEF DispatchStep, Top
  <2>3. f(q) \in Proper /\ q \in Queues /\ deliver(q) \in Proper /\ f(q).do = "dispatch"
        /\ deliver(q).do = "deliver"
    BY <2>1, FrameFields DEF Proper, Frame
  <2> HIDE DEF f, deliver
  <2>4. /\ rest(q) \in Seq(Proper) /\ Tail(rest(q)) = Tail(call)
        /\ rest(q)[1] = f(q) /\ rest(q) # <<>>
    <3>1. rest(q) \in Seq(Proper) /\ Tail(rest(q)) = Tail(call)
      BY <2>1, <2>3, ExceptFirst
    <3>2. 1 \in DOMAIN rest(q) /\ rest(q)[1] = f(q)
      BY <2>1
    <3>3. DOMAIN <<>> = {}
      OBVIOUS
    <3> HIDE DEF rest
    <3> QED
      BY <3>1, <3>2, <3>3
  <2> HIDE DEF rest
  <2>5. /\ <<deliver(q)>> \o rest(q) \in Seq(Proper)
        /\ MessagesIn(<<deliver(q)>> \o rest(q)) \subseteq Moving
    <3>1. <<deliver(q)>> \in Seq(Proper) /\ MessagesIn(<<deliver(q)>>) = {}
      BY <2>3, OneFrame, InOne
    <3>2. MessagesIn(rest(q)) = MessagesIn(Tail(call)) \cup MessagesIn(<<f(q)>>)
      BY <2>4, InTail
    <3>3. MessagesIn(<<f(q)>>) = {}
      BY <2>3, InOne
    <3> QED
      BY <1>5, <2>1, <2>4, <3>1, <3>2, <3>3, Framed, InConcat
  <2>6. Stored' \subseteq Stored /\ Moving' \subseteq Stored \cup Moving
    BY <2>2, <2>3, <2>5, DrainDescends
  <2> QED
    BY <1>3, <1>8, <1>11, <2>6 DEF DispatchStep, Messages
<1>12. ASSUME DispatchEnd \/ TryEnd \/ ListenerEnd \/ DrainedStep PROVE Descends(m)
  <2>1. ~Idle /\ call' = Tail(call)
    BY <1>12 DEF DispatchEnd, TryEnd, ListenerEnd, DrainedStep, Pop
  <2>2. Moving' \subseteq Moving
    BY <1>2, <1>5, <2>1
  <2> QED
    BY <1>3, <1>7, <1>8, <1>12, <2>2
    DEF DispatchEnd, TryEnd, ListenerEnd, DrainedStep, brokerVars, Messages
<1>13. ASSUME DeliverStep \/ GetStep PROVE Descends(m)
  <2>1. call' = Tail(call) /\ ~Idle /\ Top.queue \in Queues
    BY <1>13, FrameFields DEF DeliverStep, GetStep, Pop
  <2>2. \E n \in 0 .. Len(store[Top.queue]) : Take(Top.queue, n)
    <3>1. Len(store[Top.queue]) \in Nat
      BY <2>1
    <3>2. ASSUME DeliverStep PROVE \E n \in 0 .. Len(store[Top.queue]) : Take(Top.queue, n)
      BY <3>1, <3>2 DEF DeliverStep
    <3>3. ASSUME GetStep PROVE \E n \in 0 .. Len(store[Top.queue]) : Take(Top.queue, n)
      BY <2>1, <3>3, GetTakes
    <3> QED
      BY <1>13, <3>2, <3>3
  <2>3. Stored' \subseteq Stored /\ Delivered' \subseteq Delivered \cup Stored
    BY <2>1, <2>2, TakeDescends
  <2>4. Moving' \subseteq Moving
    BY <1>2, <1>5, <2>1
  <2> QED
    BY <1>3, <2>3, <2>4 DEF Messages
<1>14. ASSUME DeadStep PROVE Descends(m)
  <2>1. /\ ~Idle /\ Top \in Proper /\ Tail(call) \in Seq(Proper) /\ Top.do = "dead"
        /\ Top.message \in Message /\ Top.queue \in Queues /\ Top.reason \in Reasons
        /\ Top.live \in BOOLEAN /\ Top.message \in Moving
    BY <1>5, <1>14, FrameFields DEF DeadStep
  <2>2. UNCHANGED <<store, unacked>>
    BY <1>14 DEF DeadStep, brokerVars
  <2> DEFINE again == PrepareDeadLetter(Top.message, Top.queue, Top.reason)
             targets == Route(DeadLetterExchange[Top.queue], {again.key} \cup again.cc)
             publish == Enqueue(again, targets, Top.live)
             try == [do |-> "try"]
  <2>3. /\ publish \in Proper /\ try \in Proper /\ publish.do = "enqueue" /\ publish.message = again
        /\ try.do = "try"
    <3>1. again \in Message
      BY <2>1, PreparedType
    <3>2. targets \subseteq Queues
      BY RouteInQueues
    <3> HIDE DEF again, targets
    <3> QED
      BY <2>1, <3>1, <3>2 DEF Enqueue, Proper, Frame
  <2>4. \/ call' \in {Tail(call), Thrown}
        \/ /\ call' \in {<<publish, try>> \o Tail(call), <<publish>> \o Tail(call)}
           /\ Top.reason = "rejected" \/ ~IsDeadLetterCycle(Top.message, Top.queue)
    BY <1>14 DEF DeadStep, Pop
  <2>5. CASE call' \in {Tail(call), Thrown}
    <3>1. Moving' \subseteq Moving
      BY <1>2, <1>5, <2>1, <2>5, InThrown
    <3> QED
      BY <1>3, <1>7, <1>8, <2>2, <3>1 DEF Messages
  <2>6. CASE /\ call' \in {<<publish, try>> \o Tail(call), <<publish>> \o Tail(call)}
             /\ Top.reason = "rejected" \/ ~IsDeadLetterCycle(Top.message, Top.queue)
    <3>1. Descends(again)
      <4>1. /\ again.xDeath = UpdateXDeath(Top.message.xDeath, Top.queue, Top.reason)
            /\ again.trail = Append(Top.message.trail, [queue |-> Top.queue, reason |-> Top.reason])
        BY <2>1 DEF PrepareDeadLetter, Message
      <4> QED
        BY <2>1, <2>6, <4>1 DEF Descends, Messages
    <3> HIDE DEF publish, again, try
    <3>2. <<publish>> \in Seq(Proper) /\ MessagesIn(<<publish>>) = {again}
      BY <2>3, OneFrame, InOne
    <3>3. <<try>> \in Seq(Proper) /\ MessagesIn(<<try>>) = {}
      BY <2>3, OneFrame, InOne
    <3>4. <<publish>> \o <<try>> \in Seq(Proper) /\ MessagesIn(<<publish>> \o <<try>>) = {again}
      BY <3>2, <3>3, Framed, InConcat
    <3>5. <<publish>> \o <<try>> = <<publish, try>>
      BY TwoFrames
    <3>6. Moving' \subseteq Moving \cup {again}
      <4>1. /\ call' = <<publish>> \o Tail(call) => Moving' = {again} \cup MessagesIn(Tail(call))
            /\ call' = <<publish, try>> \o Tail(call) =>
                 Moving' = {again} \cup MessagesIn(Tail(call))
        BY <1>2, <1>5, <2>1, <3>2, <3>4, <3>5, MovingAfter
      <4> QED
        BY <1>5, <2>1, <2>6, <4>1
    <3>7. m \in Messages \/ m = again
      BY <1>1, <1>7, <1>8, <2>2, <3>6 DEF Messages
    <3> QED
      BY <3>1, <3>7, SameDescends
  <2> QED
    BY <2>4, <2>5, <2>6
<1>15. ASSUME ReturnStep \/ ConfirmStep PROVE Descends(m)
  <2> DEFINE two == <<Listener, [do |-> "drained"]>>
             drained == [do |-> "drained"]
  <2>1. ~Idle /\ Tail(call) \in Seq(Proper)
        /\ call' \in {Tail(call), <<Listener>> \o Tail(call), two \o Tail(call)}
    BY <1>15 DEF ReturnStep, ConfirmStep, Pop
  <2>2. Listener \in Proper /\ drained \in Proper /\ drained.do = "drained"
    BY DEF Listener, Proper, Frame
  <2> HIDE DEF drained
  <2>3. two = <<Listener>> \o <<drained>>
    BY TwoFrames DEF drained
  <2>4. <<Listener>> \in Seq(Proper) /\ <<drained>> \in Seq(Proper) /\ MessagesIn(<<drained>>) = {}
    BY <2>2, OneFrame, InOne
  <2> HIDE DEF two
  <2>5. two \in Seq(Proper) /\ MessagesIn(two) = {}
    <3> DEFINE o == <<Listener>>
               p == <<drained>>
    <3>1. o \in Seq(Proper) /\ p \in Seq(Proper) /\ MessagesIn(o) = {} /\ MessagesIn(p) = {}
      BY <1>6, <2>4
    <3> HIDE DEF o, p
    <3>2. o \o p \in Seq(Proper)
      BY <3>1, Framed
    <3>3. MessagesIn(o \o p) = {}
      BY <3>1, InConcat
    <3> QED
      BY <2>3, <3>2, <3>3 DEF o, p
  <2>6. Moving' \subseteq Moving
    <3>1. CASE call' = Tail(call)
      BY <1>2, <1>5, <2>1, <3>1
    <3>2. CASE call' = <<Listener>> \o Tail(call)
      BY <1>5, <1>6, <2>1, <2>4, <3>2, MovingAfter
    <3>3. CASE call' = two \o Tail(call)
      BY <1>5, <2>1, <2>5, <3>3, MovingAfter
    <3> QED
      BY <2>1, <3>1, <3>2, <3>3
  <2> QED
    BY <1>3, <1>7, <1>8, <1>15, <2>6 DEF ReturnStep, ConfirmStep, brokerVars, Messages
<1>16. ASSUME NEW p \in Publications, Publish(p) PROVE Descends(m)
  <2> DEFINE id == published + 1
             tag == IF confirmMode THEN tagSeq + 1 ELSE 0
             ok == p.exchange \in exists \ Internal
             targets == Route(p.exchange, {p.key} \cup p.cc \cup p.bcc)
             return == [do |-> "return", id |-> id]
             new == Enqueue(NewMessage(p), targets, TRUE)
             pipeline == IF ~ok THEN <<>>
                         ELSE IF targets = {} /\ p.mandatory THEN <<return>> ELSE <<new>>
             confirm == [do |-> "confirm", id |-> id, tag |-> tag, ok |-> ok]
  <2>1. id \in Ids /\ published \in Nat /\ published < MaxPublished
    BY <1>16, PublishingAssumption DEF Publish, Ids
  <2>2. NewMessage(p) \in Message /\ Descends(NewMessage(p))
    <3>1. NewMessage(p) \in Message
      BY <2>1, NewMessageType
    <3> QED
      BY <3>1 DEF NewMessage, Descends
  <2>3. targets \subseteq Queues
    BY RouteInQueues
  <2> HIDE DEF targets
  <2>4. /\ new \in Proper /\ return \in Proper /\ confirm \in Proper
        /\ new.do = "enqueue" /\ return.do = "return" /\ confirm.do = "confirm"
        /\ new.message = NewMessage(p)
    BY <2>1, <2>2, <2>3 DEF Enqueue, Proper, Frame
  <2>5. pipeline \in Seq(Proper) /\ MessagesIn(pipeline) \subseteq {NewMessage(p)}
    <3>1. <<>> \in Seq(Proper)
      <4> HIDE DEF Proper
      <4> QED
        BY EmptySeq
    <3> HIDE DEF new, return
    <3>2. MessagesIn(<<>>) = {} /\ MessagesIn(<<new>>) = {NewMessage(p)} /\ MessagesIn(<<return>>) = {}
      BY <2>4, InOne
    <3> QED
      BY <2>4, <3>1, <3>2, OneFrame
  <2>6. call' = pipeline \o <<confirm>> \o call
    BY <1>16 DEF Publish, targets
  <2> HIDE DEF pipeline, confirm
  <2>7. Moving' \subseteq {NewMessage(p)} \cup Moving
    <3>1. <<confirm>> \in Seq(Proper) /\ MessagesIn(<<confirm>>) = {}
      BY <2>4, OneFrame, InOne
    <3>2. pipeline \o <<confirm>> \in Seq(Proper)
          /\ MessagesIn(pipeline \o <<confirm>>) \subseteq {NewMessage(p)}
      BY <2>5, <3>1, Framed, InConcat
    <3> QED
      BY <1>2, <2>6, <3>2, InConcat
  <2>8. m \in Messages \/ m = NewMessage(p)
    BY <1>1, <1>7, <1>8, <1>16, <2>7 DEF Publish, brokerVars, Messages
  <2> QED
    BY <2>2, <2>8, SameDescends
<1>17. ASSUME \/ ConfirmSelect \/ WaitForConfirms
              \/ \E q \in Queues : Cancel(q)
              \/ \E e \in Exchanges : DeleteExchange(e)
              \/ UNCHANGED vars
       PROVE  Descends(m)
  <2>1. UNCHANGED <<store, unacked, call>>
    BY <1>17 DEF ConfirmSelect, WaitForConfirms, Cancel, DeleteExchange, vars, brokerVars
  <2> QED
    BY <1>2, <1>3, <1>7, <1>8, <2>1 DEF Messages
<1>18. ASSUME NEW q \in Queues, Consume(q) PROVE Descends(m)
  <2>1. UNCHANGED <<store, unacked>> /\ call' = <<Dispatch({q}, TRUE)>>
    BY <1>18 DEF Consume
  <2>2. Moving' = {}
    BY <1>2, <1>6, <2>1
  <2> QED
    BY <1>3, <1>7, <1>8, <2>1, <2>2 DEF Messages
<1>19. ASSUME NEW q \in Queues, Get(q) PROVE Descends(m)
  <2> DEFINE get == [do |-> "get", queue |-> q]
  <2>1. get \in Proper /\ get.do = "get"
    BY DEF Proper, Frame
  <2>2. Drain(q, <<get>>) /\ unacked' = unacked
    BY <1>19 DEF Get
  <2> HIDE DEF get
  <2>3. <<get>> \in Seq(Proper) /\ MessagesIn(<<get>>) = {}
    BY <2>1, OneFrame, InOne
  <2>4. Stored' \subseteq Stored /\ Moving' \subseteq Stored
    BY <2>2, <2>3, DrainDescends
  <2> QED
    BY <1>3, <1>8, <2>2, <2>4 DEF Messages
<1>20. ASSUME NEW i \in DOMAIN unacked, NEW multiple \in BOOLEAN, Ack(i, multiple) \/ Reject(i, multiple)
       PROVE  Descends(m)
  <2> DEFINE s == Covered(i, multiple)
             dispatch == Dispatch(QueuesOf(s), TRUE)
  <2>1. /\ s \in Seq(Delivery) /\ ToSet(s) \subseteq ToSet(unacked)
        /\ unacked' \in Seq(Delivery) /\ ToSet(unacked') \subseteq ToSet(unacked)
    <3>1. unacked' = Uncovered(i, multiple)
      BY <1>20 DEF Ack, Reject
    <3> QED
      BY <3>1, CoveredIn
  <2>2. QueuesOf(s) \subseteq Queues
    BY <2>1, QueuesOfType
  <2>3. store' = store /\ call' \in {<<dispatch>>, Rejections(s) \o <<dispatch>>}
    BY <1>20 DEF Ack, Reject
  <2> HIDE DEF s
  <2>4. dispatch \in Proper
    BY <2>2 DEF Dispatch, Proper, Frame
  <2>5. MessagesIn(<<dispatch>>) = {} /\ <<dispatch>> \in Seq(Proper)
    BY <1>6, <2>4, OneFrame
  <2>6. Rejections(s) \in Seq(Proper) /\ MessagesIn(Rejections(s)) \subseteq {d.message : d \in ToSet(s)}
    BY <2>1, RejectionsAre, InRejections
  <2> HIDE DEF dispatch
  <2>7. Moving' \subseteq Delivered
    <3> DEFINE dead == Rejections(s)
               last == <<dispatch>>
    <3>1. MessagesIn(dead \o last) = MessagesIn(dead)
      <4>1. dead \in Seq(Proper) /\ last \in Seq(Proper) /\ MessagesIn(last) = {}
        BY <2>5, <2>6
      <4> HIDE DEF dead, last
      <4>2. MessagesIn(dead \o last) = MessagesIn(dead) \cup MessagesIn(last)
        BY <4>1, InConcat
      <4> QED
        BY <4>1, <4>2
    <3>2. MessagesIn(Rejections(s)) \subseteq Delivered
      BY <2>1, <2>6 DEF Delivered
    <3> QED
      BY <1>2, <2>3, <2>5, <3>1, <3>2
  <2>8. Delivered' \subseteq Delivered
    BY <2>1 DEF Delivered
  <2> QED
    BY <1>3, <1>7, <2>3, <2>7, <2>8 DEF Messages
<1>21. ASSUME NEW i \in DOMAIN unacked, Requeue(i) PROVE Descends(m)
  <2> DEFINE q == unacked[i].queue
             x == unacked[i].message
             s == Requeued(q, x)
  <2>1. /\ q \in Queues /\ x \in Message /\ i \in 1 .. Len(unacked) /\ unacked \in Seq(Delivery)
        /\ store[q] \in Seq(Message) /\ x \in Delivered
    <3>1. unacked[i] \in ToSet(unacked)
      BY DEF ToSet
    <3> QED
      BY <3>1 DEF Delivered
  <2>2. /\ unacked' = RemoveAt(unacked, i)
        /\ store' = [store EXCEPT ![q] = s]
        /\ call' = <<Dispatch({q}, TRUE)>>
    BY <1>21 DEF Requeue
  <2> HIDE DEF q, x
  <2>3. ToSet(s) \subseteq ToSet(store[q]) \cup {x}
    BY <2>1, RequeuedAt, ToSetInserted
  <2>4. ToSet(unacked') \subseteq ToSet(unacked)
    <3> HIDE DEF Delivery
    <3> QED
      BY <2>1, <2>2, ToSetRemoved
  <2> HIDE DEF s
  <2>5. Stored' \subseteq Stored \cup ToSet(s)
    BY <2>1, <2>2, StoredNext
  <2>6. Moving' = {} /\ Delivered' \subseteq Delivered
    BY <1>2, <1>6, <2>2, <2>4 DEF Delivered
  <2> QED
    BY <1>3, <2>1, <2>3, <2>5, <2>6, StoredAre DEF Messages
<1>22. ASSUME NEW q \in Queues, NEW i \in DOMAIN store[q], Expire(q, i) PROVE Descends(m)
  <2> DEFINE s == store[q]
             x == [s[i] EXCEPT !.expiresAt = "past"]
             t == [s EXCEPT ![i] = x]
  <2>1. s \in Seq(Message) /\ x \in Message /\ i \in 1 .. Len(s) /\ Alike(x, s[i]) /\ s[i] \in ToSet(s)
    <3>1. \A y \in Message : /\ [y EXCEPT !.expiresAt = "past"] \in Message
                             /\ Alike([y EXCEPT !.expiresAt = "past"], y)
      BY DEF Message, Alike
    <3>2. s[i] \in ToSet(s)
      BY DEF ToSet
    <3> QED
      BY <3>1, <3>2
  <2>2. store' = [store EXCEPT ![q] = t] /\ UNCHANGED <<unacked, call>>
    BY <1>22 DEF Expire
  <2>3. ToSet(t) \subseteq ToSet(s) \cup {x}
    BY <2>1 DEF ToSet
  <2> HIDE DEF s, x, t
  <2>4. Stored' \subseteq Stored \cup ToSet(t)
    BY <2>2, StoredNext
  <2>5. \A y \in Stored' : \E n \in Stored : Alike(y, n)
    BY <2>1, <2>3, <2>4, StoredAre DEF Alike, s
  <2>6. \A y \in Moving' : y \in Moving /\ Alike(y, y)
    BY <1>2, <2>2 DEF Alike
  <2> QED
    BY <1>4, <2>2, <2>5, <2>6
<1>23. ASSUME NEW i \in DOMAIN unacked, ExpireUnacked(i) PROVE Descends(m)
  <2> DEFINE d == [unacked[i] EXCEPT !.message.expiresAt = "past"]
  <2>1. Alike(d.message, unacked[i].message) /\ unacked[i].message \in Delivered
    <3>1. \A y \in Delivery : Alike([y EXCEPT !.message.expiresAt = "past"].message, y.message)
      BY DEF Delivery, Message, Alike
    <3>2. unacked[i] \in ToSet(unacked)
      BY DEF ToSet
    <3> QED
      BY <3>1, <3>2 DEF Delivered
  <2>2. unacked' = [unacked EXCEPT ![i] = d] /\ UNCHANGED <<store, call>>
    BY <1>23 DEF ExpireUnacked
  <2> HIDE DEF d
  <2>3. ToSet(unacked') \subseteq ToSet(unacked) \cup {d}
    BY <2>2 DEF ToSet
  <2>4. Delivered' \subseteq Delivered \cup {d.message}
    BY <2>3 DEF Delivered
  <2>5. m \in Messages \/ m = d.message
    BY <1>1, <1>2, <1>7, <2>2, <2>4 DEF Messages
  <2>6. Descends(d.message)
    BY <2>1 DEF Descends, Messages
  <2> QED
    BY <2>5, <2>6, SameDescends
<1> QED
  BY <1>9, <1>10, <1>11, <1>12, <1>13, <1>14, <1>15, <1>16, <1>17, <1>18, <1>19, <1>20, <1>21,
     <1>22, <1>23 DEF Next, RunCall, ClientNext

-----------------------------------------------------------------------------
(* x-death.  The first entry of the updated x-death is that of the death, and
   the others are those of x that are of another queue or reason, in order: f
   says where they were. *)
Of(e, q, reason) == e.queue = q /\ e.reason = reason

Updated(u, x, q, reason, f) ==
  /\ u \in Seq(DeathEntry) /\ 1 \in 1 .. Len(u) /\ Of(u[1], q, reason)
  /\ f \in [2 .. Len(u) -> 1 .. Len(x)]
  /\ \A j \in 2 .. Len(u) : u[j] = x[f[j]] /\ ~Of(x[f[j]], q, reason)
  /\ \A i, j \in 2 .. Len(u) : i < j => f[i] < f[j]
  /\ \A k \in 1 .. Len(x) : ~Of(x[k], q, reason) => \E j \in 2 .. Len(u) : f[j] = k
  /\ \A k \in 1 .. Len(x) : Of(x[k], q, reason) => u[1].count = x[k].count + 1
  /\ (\A k \in 1 .. Len(x) : ~Of(x[k], q, reason)) => u[1].count = 1

Single(x) ==
  \A i, j \in 1 .. Len(x) : x[i].queue = x[j].queue /\ x[i].reason = x[j].reason => i = j

LEMMA UpdatedXDeath ==
  ASSUME NEW x \in Seq(DeathEntry), Single(x), NEW q \in Queues, NEW reason \in Reasons
  PROVE  \E f : Updated(UpdateXDeath(x, q, reason), x, q, reason, f)
<1> DEFINE same == {i \in DOMAIN x : x[i].queue = q /\ x[i].reason = reason}
           new == [queue |-> q, reason |-> reason, count |-> 1]
           u == UpdateXDeath(x, q, reason)
<1>1. DOMAIN x = 1 .. Len(x) /\ Len(x) \in Nat /\ \A i \in 1 .. Len(x) : x[i] \in DeathEntry
  BY LenProperties, ElementOfSeq
<1>2. u \in Seq(DeathEntry)
  BY UpdateXDeathType
<1>3. CASE same = {}
  <2>1. u = <<new>> \o x
    BY <1>3 DEF UpdateXDeath
  <2>2. new \in DeathEntry /\ Of(new, q, reason) /\ new.count = 1
    BY DEF DeathEntry, Of
  <2>3. \A i \in 1 .. Len(x) : ~Of(x[i], q, reason)
    BY <1>1, <1>3 DEF Of
  <2> HIDE DEF new, same, u
  <2>4. Len(u) = Len(x) + 1 /\ \A i \in 1 .. Len(x) + 1 : u[i] = IF i = 1 THEN new ELSE x[i - 1]
    BY <2>1, <2>2, Prepended
  <2> DEFINE f == [j \in 2 .. Len(u) |-> j - 1]
  <2>5. f \in [2 .. Len(u) -> 1 .. Len(x)] /\ \A j \in 2 .. Len(u) : f[j] = j - 1
    BY <1>1, <2>4
  <2> HIDE DEF f
  <2>6. 1 \in 1 .. Len(u) /\ u[1] = new
    BY <1>1, <2>4
  <2>7. \A j \in 2 .. Len(u) : u[j] = x[f[j]] /\ ~Of(x[f[j]], q, reason)
    <3> TAKE j \in 2 .. Len(u)
    <3>1. j \in 1 .. Len(x) + 1 /\ j # 1 /\ f[j] = j - 1 /\ f[j] \in 1 .. Len(x)
      BY <1>1, <2>4, <2>5
    <3> QED
      BY <2>3, <2>4, <3>1
  <2>8. \A i, j \in 2 .. Len(u) : i < j => f[i] < f[j]
    BY <2>5
  <2>9. \A k \in 1 .. Len(x) : \E j \in 2 .. Len(u) : f[j] = k
    <3> TAKE k \in 1 .. Len(x)
    <3>1. k + 1 \in 2 .. Len(u) /\ f[k + 1] = k
      BY <1>1, <2>4, <2>5
    <3> QED
      BY <3>1
  <2>10. Updated(u, x, q, reason, f)
    BY <1>2, <2>2, <2>3, <2>5, <2>6, <2>7, <2>8, <2>9 DEF Updated
  <2> QED
    BY <2>10 DEF u
<1>4. CASE same # {}
  <2> DEFINE m == Min(same)
             old == [x[m] EXCEPT !.count = @ + 1]
             y == RemoveAt(x, m)
  <2>1. m \in same
    <3>1. same \in SUBSET Nat
      BY <1>1
    <3> HIDE DEF same
    <3> QED
      BY <1>4, <3>1, MinProperties
  <2>2. u = <<old>> \o y
    BY <1>4 DEF UpdateXDeath
  <2>3. m \in 1 .. Len(x) /\ Of(x[m], q, reason)
    BY <1>1, <2>1 DEF Of
  <2>4. old \in DeathEntry /\ Of(old, q, reason) /\ old.count = x[m].count + 1
    <3>1. \A e \in DeathEntry : /\ [e EXCEPT !.count = @ + 1] \in DeathEntry
                               /\ [e EXCEPT !.count = @ + 1].queue = e.queue
                               /\ [e EXCEPT !.count = @ + 1].reason = e.reason
                               /\ [e EXCEPT !.count = @ + 1].count = e.count + 1
      BY DEF DeathEntry
    <3>2. x[m] \in DeathEntry
      BY <1>1, <2>3
    <3> QED
      BY <2>3, <3>1, <3>2 DEF Of
  <2>5. \A k \in 1 .. Len(x) : Of(x[k], q, reason) => k = m
    BY <2>3 DEF Single, Of
  <2> HIDE DEF m, same, old, u
  <2>6. /\ y \in Seq(DeathEntry) /\ Len(y) = Len(x) - 1
        /\ \A j \in 1 .. Len(x) - 1 : y[j] = IF j < m THEN x[j] ELSE x[j + 1]
    BY <2>3, RemovedAt
  <2> HIDE DEF y
  <2>7. Len(u) = Len(x) /\ \A i \in 1 .. Len(x) : u[i] = IF i = 1 THEN old ELSE y[i - 1]
    <3>1. /\ Len(<<old>> \o y) = Len(y) + 1
          /\ \A i \in 1 .. Len(y) + 1 : (<<old>> \o y)[i] = IF i = 1 THEN old ELSE y[i - 1]
      BY <2>4, <2>6, Prepended
    <3>2. Len(y) + 1 = Len(x)
      BY <1>1, <2>6
    <3> QED
      BY <2>2, <3>1, <3>2
  <2> DEFINE f == [j \in 2 .. Len(u) |-> IF j - 1 < m THEN j - 1 ELSE j]
  <2>8. f \in [2 .. Len(u) -> 1 .. Len(x)]
        /\ \A j \in 2 .. Len(u) : f[j] = IF j - 1 < m THEN j - 1 ELSE j
    BY <1>1, <2>7
  <2> HIDE DEF f
  <2>9. 1 \in 1 .. Len(u) /\ u[1] = old
    BY <1>1, <2>3, <2>7
  <2>10. \A j \in 2 .. Len(u) : u[j] = x[f[j]] /\ ~Of(x[f[j]], q, reason)
    <3> TAKE j \in 2 .. Len(u)
    <3>1. j \in 1 .. Len(x) /\ j # 1 /\ j - 1 \in 1 .. Len(x) - 1 /\ j - 1 + 1 = j
      BY <1>1, <2>7
    <3>2. u[j] = x[f[j]] /\ f[j] \in 1 .. Len(x)
      <4>1. u[j] = y[j - 1]
        BY <2>7, <3>1
      <4>2. y[j - 1] = IF j - 1 < m THEN x[j - 1] ELSE x[j]
        BY <2>6, <3>1
      <4> QED
        BY <2>8, <4>1, <4>2
    <3>3. f[j] # m
      BY <2>3, <2>8, <3>1
    <3> QED
      BY <2>5, <3>2, <3>3
  <2>11. \A i, j \in 2 .. Len(u) : i < j => f[i] < f[j]
    BY <2>3, <2>8
  <2>12. \A k \in 1 .. Len(x) : k # m => \E j \in 2 .. Len(u) : f[j] = k
    <3> TAKE k \in 1 .. Len(x)
    <3>1. CASE k < m
      <4>1. k + 1 \in 2 .. Len(u) /\ f[k + 1] = k
        BY <1>1, <2>3, <2>7, <2>8, <3>1
      <4> QED
        BY <4>1
    <3>2. CASE k > m
      <4>1. k \in 2 .. Len(u) /\ f[k] = k
        BY <1>1, <2>3, <2>7, <2>8, <3>2
      <4> QED
        BY <4>1
    <3> QED
      BY <2>3, <3>1, <3>2
  <2>13. Updated(u, x, q, reason, f)
    BY <1>2, <2>3, <2>4, <2>5, <2>8, <2>9, <2>10, <2>11, <2>12 DEF Updated
  <2> QED
    BY <2>13 DEF u
<1> QED
  BY <1>3, <1>4

(* The deaths of a trail of a queue and a reason. *)
DiedOf(t, q, reason) == {k \in DOMAIN t : t[k].queue = q /\ t[k].reason = reason}
Kinds(s) == {[queue |-> e.queue, reason |-> e.reason] : e \in ToSet(s)}

Truthful(x, t) ==
  /\ Kinds(x) = ToSet(t)
  /\ \A i \in DOMAIN x : x[i].count = Cardinality(DiedOf(t, x[i].queue, x[i].reason))
  /\ \A i, j \in DOMAIN x :
       i < j => Max(DiedOf(t, x[i].queue, x[i].reason)) > Max(DiedOf(t, x[j].queue, x[j].reason))

Once(x) ==
  (\A i \in DOMAIN x : x[i].reason # "rejected") =>
    \A i \in DOMAIN x :
      /\ x[i].count = 1
      /\ \A j \in DOMAIN x : x[i].queue = x[j].queue => i = j

LEMMA TimesFinite ==
  ASSUME NEW t \in Seq(Death), NEW q, NEW reason
  PROVE  DiedOf(t, q, reason) \in SUBSET (1 .. Len(t)) /\ IsFiniteSet(DiedOf(t, q, reason))
<1>1. DOMAIN t = 1 .. Len(t) /\ Len(t) \in Nat
  BY LenProperties
<1>2. DiedOf(t, q, reason) \in SUBSET (1 .. Len(t))
  BY <1>1 DEF DiedOf
<1>3. IsFiniteSet(1 .. Len(t))
  BY <1>1, FS_Interval
<1> QED
  BY <1>2, <1>3, FS_Subset

(* The last death of a kind that a truthful x-death lists. *)
LEMMA LastTime ==
  ASSUME NEW x \in Seq(DeathEntry), NEW t \in Seq(Death), Truthful(x, t), NEW i \in 1 .. Len(x)
  PROVE  Max(DiedOf(t, x[i].queue, x[i].reason)) \in 1 .. Len(t)
<1> DEFINE S == DiedOf(t, x[i].queue, x[i].reason)
<1>1. S \in SUBSET (1 .. Len(t)) /\ Len(t) \in Nat
  BY TimesFinite, LenProperties
<1>2. S # {}
  <2>1. [queue |-> x[i].queue, reason |-> x[i].reason] \in ToSet(t)
    <3>1. x[i] \in ToSet(x)
      BY ToSetOf
    <3> QED
      BY <3>1 DEF Truthful, Kinds
  <2>2. PICK k \in 1 .. Len(t) : t[k] = [queue |-> x[i].queue, reason |-> x[i].reason]
    BY <2>1, ToSetOf
  <2>3. DOMAIN t = 1 .. Len(t)
    BY LenProperties
  <2> QED
    BY <2>2, <2>3 DEF DiedOf
<1> HIDE DEF S
<1>3. S \in SUBSET (0 .. Len(t))
  BY <1>1
<1>4. Max(S) \in S
  BY <1>1, <1>2, <1>3, MaxProperties
<1> QED
  BY <1>1, <1>4 DEF S

LEMMA TruthfulIsSingle ==
  ASSUME NEW x \in Seq(DeathEntry), NEW t \in Seq(Death), Truthful(x, t)
  PROVE  Single(x)
<1> SUFFICES ASSUME NEW i \in 1 .. Len(x), NEW j \in 1 .. Len(x), i < j,
                    x[i].queue = x[j].queue, x[i].reason = x[j].reason
             PROVE  FALSE
  <2>1. Len(x) \in Nat
    BY LenProperties
  <2> QED
    BY <2>1 DEF Single
<1> DEFINE n == Max(DiedOf(t, x[i].queue, x[i].reason))
<1>1. n \in 1 .. Len(t)
  BY LastTime
<1>2. n > n
  <2>1. DOMAIN x = 1 .. Len(x)
    BY LenProperties
  <2> QED
    BY <2>1 DEF Truthful
<1> QED
  BY <1>1, <1>2

LEMMA DiedOfNext ==
  ASSUME NEW t \in Seq(Death), NEW d \in Death
  PROVE  /\ DiedOf(Append(t, d), d.queue, d.reason)
              = DiedOf(t, d.queue, d.reason) \cup {Len(t) + 1}
         /\ \A p, r : p # d.queue \/ r # d.reason =>
              DiedOf(Append(t, d), p, r) = DiedOf(t, p, r)
<1> DEFINE u == Append(t, d)
<1>1. DOMAIN t = 1 .. Len(t) /\ Len(t) \in Nat
  BY LenProperties
<1>2. /\ u \in Seq(Death) /\ Len(u) = Len(t) + 1 /\ u[Len(t) + 1] = d
      /\ \A i \in 1 .. Len(t) : u[i] = t[i]
  BY AppendProperties
<1>3. DOMAIN u = 1 .. Len(t) + 1
  BY <1>2, LenProperties
<1> HIDE DEF u
<1>4. /\ DiedOf(u, d.queue, d.reason) = DiedOf(t, d.queue, d.reason) \cup {Len(t) + 1}
      /\ \A p, r : p # d.queue \/ r # d.reason => DiedOf(u, p, r) = DiedOf(t, p, r)
  BY <1>1, <1>2, <1>3 DEF DiedOf
<1> QED
  BY <1>4 DEF u

LEMMA TruthfulNext ==
  ASSUME NEW x \in Seq(DeathEntry), NEW t \in Seq(Death), Truthful(x, t),
         NEW q \in Queues, NEW reason \in Reasons
  PROVE  Truthful(UpdateXDeath(x, q, reason), Append(t, [queue |-> q, reason |-> reason]))
<1> DEFINE d == [queue |-> q, reason |-> reason]
           n == Append(t, d)
           u == UpdateXDeath(x, q, reason)
<1>1. PICK f : Updated(u, x, q, reason, f)
  BY TruthfulIsSingle, UpdatedXDeath
<1>2. /\ \A e \in ToSet(x) : e \in DeathEntry
      /\ Len(x) \in Nat /\ DOMAIN x = 1 .. Len(x) /\ \A i \in 1 .. Len(x) : x[i] \in DeathEntry
  BY LenProperties, ToSetOf, ElementOfSeq
<1>3. /\ DiedOf(n, q, reason) = DiedOf(t, q, reason) \cup {Len(t) + 1}
      /\ \A p, r : p # q \/ r # reason => DiedOf(n, p, r) = DiedOf(t, p, r)
  <2>1. d \in Death /\ d.queue = q /\ d.reason = reason
    BY DEF Death
  <2> HIDE DEF d
  <2> QED
    BY <2>1, DiedOfNext
<1>4. u \in Seq(DeathEntry) /\ Len(u) \in Nat /\ 1 \in 1 .. Len(u) /\ DOMAIN u = 1 .. Len(u)
  BY <1>1, LenProperties DEF Updated
<1>5. Len(t) \in Nat
  BY LenProperties
<1>6. ToSet(n) = ToSet(t) \cup {d}
  <2>1. d \in Death
    BY DEF Death
  <2> HIDE DEF d
  <2> DEFINE o == <<d>>
  <2>2. n = t \o o /\ o \in Seq(Death) /\ ToSet(o) = {d}
    BY <2>1, AppendIsConcat, ToSetOne
  <2> HIDE DEF o, Death
  <2>3. ToSet(t \o o) = ToSet(t) \cup ToSet(o)
    BY <2>2, ToSetConcat
  <2> HIDE DEF n
  <2> QED
    BY <2>2, <2>3
<1> HIDE DEF u, n
<1>7. Kinds(u) = ToSet(n)
  <2>1. u[1] \in ToSet(u) /\ [queue |-> u[1].queue, reason |-> u[1].reason] = d
    BY <1>1, <1>4, ToSetOf DEF Updated, Of
  <2>2. ASSUME NEW e \in ToSet(u) PROVE [queue |-> e.queue, reason |-> e.reason] \in ToSet(n)
    <3>1. PICK j \in 1 .. Len(u) : u[j] = e
      BY <1>4, ToSetOf
    <3>2. CASE j = 1
      BY <1>6, <2>1, <3>1, <3>2
    <3>3. CASE j # 1
      <4>1. j \in 2 .. Len(u)
        BY <1>4, <3>3
      <4>2. e = x[f[j]] /\ f[j] \in 1 .. Len(x)
        BY <1>1, <3>1, <4>1 DEF Updated
      <4>3. e \in ToSet(x)
        BY <4>2, ToSetOf
      <4> QED
        BY <1>6, <4>3 DEF Truthful, Kinds
    <3> QED
      BY <3>2, <3>3
  <2>3. ASSUME NEW e \in ToSet(x) PROVE [queue |-> e.queue, reason |-> e.reason] \in Kinds(u)
    <3>1. PICK k \in 1 .. Len(x) : x[k] = e
      BY ToSetOf
    <3>2. CASE Of(e, q, reason)
      BY <2>1, <3>2 DEF Of, Kinds
    <3>3. CASE ~Of(e, q, reason)
      <4>1. PICK j \in 2 .. Len(u) : f[j] = k
        BY <1>1, <3>1, <3>3 DEF Updated
      <4>2. u[j] = e /\ j \in 1 .. Len(u)
        BY <1>1, <1>4, <3>1, <4>1 DEF Updated
      <4>3. e \in ToSet(u)
        BY <1>4, <4>2, ToSetOf
      <4> QED
        BY <4>3 DEF Kinds
    <3> QED
      BY <3>2, <3>3
  <2>4. d \in Kinds(u)
    BY <2>1 DEF Kinds
  <2>5. Kinds(u) \subseteq ToSet(n)
    BY <2>2 DEF Kinds
  <2>6. ToSet(t) \subseteq Kinds(u)
    BY <2>3 DEF Truthful, Kinds
  <2> QED
    BY <1>6, <2>4, <2>5, <2>6
<1> DEFINE T(e) == DiedOf(t, e.queue, e.reason)
           N(e) == DiedOf(n, e.queue, e.reason)
<1>8. N(u[1]) = DiedOf(t, q, reason) \cup {Len(t) + 1}
  BY <1>1, <1>3 DEF Updated, Of
<1>9. \A j \in 2 .. Len(u) : /\ f[j] \in 1 .. Len(x) /\ u[j] = x[f[j]]
                             /\ N(u[j]) = T(x[f[j]])
  <2> TAKE j \in 2 .. Len(u)
  <2>1. f[j] \in 1 .. Len(x) /\ u[j] = x[f[j]] /\ ~Of(x[f[j]], q, reason)
    BY <1>1 DEF Updated
  <2>2. u[j].queue # q \/ u[j].reason # reason
    BY <2>1 DEF Of
  <2> QED
    BY <1>3, <2>1, <2>2
<1>10. \A j \in DOMAIN u : u[j].count = Cardinality(N(u[j]))
  <2> SUFFICES ASSUME NEW j \in 1 .. Len(u) PROVE u[j].count = Cardinality(N(u[j]))
    BY <1>4
  <2>1. CASE j = 1
    <3>1. DiedOf(t, q, reason) \in SUBSET (1 .. Len(t)) /\ IsFiniteSet(DiedOf(t, q, reason))
      BY TimesFinite
    <3>2. Len(t) + 1 \notin DiedOf(t, q, reason)
      BY <1>5, <3>1
    <3>3. Cardinality(N(u[1])) = Cardinality(DiedOf(t, q, reason)) + 1
      BY <1>8, <3>1, <3>2, FS_AddElement
    <3>4. CASE \A k \in 1 .. Len(x) : ~Of(x[k], q, reason)
      <4>1. DiedOf(t, q, reason) = {}
        <5> SUFFICES ASSUME NEW i \in DOMAIN t, t[i].queue = q, t[i].reason = reason PROVE FALSE
          BY DEF DiedOf
        <5>1. t[i] \in Kinds(x)
          BY DEF Truthful, ToSet
        <5>2. PICK e \in ToSet(x) : t[i] = [queue |-> e.queue, reason |-> e.reason]
          BY <5>1 DEF Kinds
        <5>3. PICK k \in 1 .. Len(x) : x[k] = e
          BY ToSetOf
        <5> QED
          BY <3>4, <5>2, <5>3 DEF Of
      <4>2. u[1].count = 1
        BY <1>1, <3>4 DEF Updated
      <4> QED
        BY <2>1, <3>3, <4>1, <4>2, FS_EmptySet
    <3>5. CASE \E k \in 1 .. Len(x) : Of(x[k], q, reason)
      <4>1. PICK k \in 1 .. Len(x) : Of(x[k], q, reason)
        BY <3>5
      <4>2. u[1].count = x[k].count + 1
        BY <1>1, <4>1 DEF Updated
      <4>3. x[k].count = Cardinality(DiedOf(t, q, reason))
        BY <1>2, <4>1 DEF Truthful, Of
      <4> QED
        BY <2>1, <3>3, <4>2, <4>3
    <3> QED
      BY <3>4, <3>5
  <2>2. CASE j # 1
    <3>1. j \in 2 .. Len(u)
      BY <1>4, <2>2
    <3> QED
      BY <1>2, <1>9, <3>1 DEF Truthful
  <2> QED
    BY <2>1, <2>2
<1>11. \A i, j \in DOMAIN u : i < j => Max(N(u[i])) > Max(N(u[j]))
  <2> SUFFICES ASSUME NEW i \in 1 .. Len(u), NEW j \in 1 .. Len(u), i < j
               PROVE  Max(N(u[i])) > Max(N(u[j]))
    BY <1>4
  <2>1. j \in 2 .. Len(u)
    BY <1>4
  <2>2. Max(N(u[j])) \in 1 .. Len(t)
    BY <1>9, <2>1, LastTime
  <2>3. CASE i = 1
    <3> DEFINE S == DiedOf(t, q, reason) \cup {Len(t) + 1}
    <3>1. S \in SUBSET (0 .. Len(t) + 1) /\ S # {} /\ Len(t) + 1 \in Nat /\ Len(t) + 1 \in S
      <4>1. DiedOf(t, q, reason) \in SUBSET (1 .. Len(t))
        BY TimesFinite
      <4> QED
        BY <1>5, <4>1
    <3> HIDE DEF S
    <3>2. Max(S) \in S /\ Max(S) >= Len(t) + 1
      BY <3>1, MaxProperties
    <3>3. Max(S) \in Nat
      <4>1. \A y \in S : y \in Nat
        BY <1>5, <3>1
      <4> QED
        BY <3>2, <4>1
    <3>4. N(u[i]) = S
      BY <1>8, <2>3 DEF S
    <3> HIDE DEF N
    <3> QED
      BY <1>5, <2>2, <3>2, <3>3, <3>4
  <2>4. CASE i # 1
    <3>1. i \in 2 .. Len(u)
      BY <1>4, <2>4
    <3>2. f[i] \in 1 .. Len(x) /\ f[j] \in 1 .. Len(x) /\ f[i] < f[j]
      BY <1>1, <2>1, <3>1 DEF Updated
    <3>3. Max(T(x[f[i]])) > Max(T(x[f[j]]))
      BY <1>2, <3>2 DEF Truthful
    <3> HIDE DEF T, N
    <3> QED
      BY <1>9, <2>1, <3>1, <3>3
  <2> QED
    BY <2>3, <2>4
<1>12. Truthful(u, n)
  BY <1>7, <1>10, <1>11 DEF Truthful
<1> QED
  BY <1>12 DEF u, n, d

LEMMA OnceNext ==
  ASSUME NEW x \in Seq(DeathEntry), Single(x), Once(x), NEW q \in Queues, NEW reason \in Reasons,
         \/ reason = "rejected"
         \/ \E i \in DOMAIN x : x[i].reason = "rejected"
         \/ \A i \in DOMAIN x : x[i].queue # q
  PROVE  Once(UpdateXDeath(x, q, reason))
<1> DEFINE u == UpdateXDeath(x, q, reason)
<1>1. PICK f : Updated(u, x, q, reason, f)
  BY UpdatedXDeath
<1>2. Len(x) \in Nat /\ DOMAIN x = 1 .. Len(x)
  BY LenProperties
<1>3. Len(u) \in Nat /\ 1 \in 1 .. Len(u) /\ DOMAIN u = 1 .. Len(u)
  BY <1>1, LenProperties DEF Updated
<1> HIDE DEF u
<1> SUFFICES ASSUME \A i \in 1 .. Len(u) : u[i].reason # "rejected"
             PROVE  \A i \in 1 .. Len(u) :
                      /\ u[i].count = 1
                      /\ \A j \in 1 .. Len(u) : u[i].queue = u[j].queue => i = j
  BY <1>3 DEF Once, u
<1>4. reason # "rejected" /\ u[1].queue = q
  BY <1>1, <1>3 DEF Updated, Of
<1>5. ASSUME NEW k \in 1 .. Len(x) PROVE x[k].reason # "rejected"
  <2>1. CASE Of(x[k], q, reason)
    BY <1>4, <2>1 DEF Of
  <2>2. CASE ~Of(x[k], q, reason)
    <3>1. PICK j \in 2 .. Len(u) : f[j] = k
      BY <1>1, <2>2 DEF Updated
    <3>2. u[j] = x[k] /\ j \in 1 .. Len(u)
      BY <1>1, <1>3, <3>1 DEF Updated
    <3> QED
      BY <3>2
  <2> QED
    BY <2>1, <2>2
<1>6. \A k \in 1 .. Len(x) : x[k].queue # q
  BY <1>2, <1>4, <1>5
<1>7. u[1].count = 1
  BY <1>1, <1>6 DEF Updated, Of
<1>8. \A k \in 1 .. Len(x) : /\ x[k].count = 1
                             /\ \A l \in 1 .. Len(x) : x[k].queue = x[l].queue => k = l
  BY <1>2, <1>5 DEF Once
<1>9. \A j \in 2 .. Len(u) : f[j] \in 1 .. Len(x) /\ u[j] = x[f[j]]
  BY <1>1 DEF Updated
<1>10. \A j \in 1 .. Len(u) : j = 1 \/ j \in 2 .. Len(u)
  BY <1>3
<1>11. \A i, j \in 2 .. Len(u) : f[i] = f[j] => i = j
  <2> SUFFICES ASSUME NEW i \in 2 .. Len(u), NEW j \in 2 .. Len(u), f[i] = f[j], i < j PROVE FALSE
    BY <1>3
  <2>1. f[i] < f[j] /\ f[i] \in Nat
    BY <1>1, <1>2, <1>9 DEF Updated
  <2> QED
    BY <2>1
<1>12. \A i \in 1 .. Len(u) : u[i].count = 1
  BY <1>7, <1>8, <1>9, <1>10
<1>13. ASSUME NEW i \in 1 .. Len(u), NEW j \in 1 .. Len(u), u[i].queue = u[j].queue PROVE i = j
  <2>1. \A k \in 2 .. Len(u) : u[k].queue # q
    BY <1>6, <1>9
  <2>2. CASE i = 1 \/ j = 1
    BY <1>4, <1>10, <1>13, <2>1, <2>2
  <2>3. CASE i \in 2 .. Len(u) /\ j \in 2 .. Len(u)
    <3>1. x[f[i]].queue = x[f[j]].queue
      BY <1>9, <1>13, <2>3
    <3> QED
      BY <1>8, <1>9, <1>11, <2>3, <3>1
  <2> QED
    BY <1>10, <2>2, <2>3
<1> QED
  BY <1>12, <1>13

(* A message a client published has not died, and whatever happens to a message
   it keeps a truthful x-death. *)
Recorded(m) == Truthful(m.xDeath, m.trail) /\ Once(m.xDeath)

LEMMA MessagesType ==
  ASSUME TypeOK, NEW m \in Messages
  PROVE  m \in Message
<1>1. CASE m \in Stored
  <2>1. PICK q \in Queues : m \in ToSet(store[q])
    BY <1>1 DEF Stored
  <2>2. store[q] \in Seq(Message)
    BY Types
  <2> QED
    BY <2>1, <2>2, ToSetOf
<1>2. CASE m \in Delivered
  <2>1. PICK d \in ToSet(unacked) : m = d.message
    BY <1>2 DEF Delivered
  <2>2. d \in Delivery
    BY <2>1, Types, ToSetOf
  <2> QED
    BY <2>1, <2>2 DEF Delivery
<1>3. CASE m \in Moving
  <2>1. PICK f \in ToSet(call) : f.do \in {"enqueue", "dead"} /\ m = f.message
    BY <1>3 DEF Moving
  <2>2. f \in Proper
    <3>1. call \in Seq(Proper)
      BY Types
    <3> HIDE DEF Proper
    <3> QED
      BY <2>1, <3>1, ToSetOf
  <2> QED
    BY <2>1, <2>2, FrameFields
<1> QED
  BY <1>1, <1>2, <1>3 DEF Messages

LEMMA DescendsRecorded ==
  ASSUME TypeOK, \A n \in Messages : Recorded(n), NEW m, Descends(m)
  PROVE  Recorded(m)
<1>1. CASE m.xDeath = <<>> /\ m.trail = <<>>
  <2>1. DOMAIN <<>> = {} /\ ToSet(<<>>) = {}
    BY DEF ToSet
  <2> QED
    BY <1>1, <2>1 DEF Recorded, Truthful, Kinds, Once
<1>2. CASE \E n \in Messages : Alike(m, n)
  BY <1>2 DEF Alike, Recorded
<1>3. ASSUME NEW n \in Messages, NEW q \in Queues, NEW reason \in Reasons,
             m.xDeath = UpdateXDeath(n.xDeath, q, reason),
             m.trail = Append(n.trail, [queue |-> q, reason |-> reason]),
             reason = "rejected" \/ ~IsDeadLetterCycle(n, q)
      PROVE  Recorded(m)
  <2>1. n.xDeath \in Seq(DeathEntry) /\ n.trail \in Seq(Death)
    <3>1. n \in Message
      BY MessagesType
    <3> QED
      BY <3>1 DEF Message
  <2>2. Truthful(n.xDeath, n.trail) /\ Once(n.xDeath)
    BY DEF Recorded
  <2>3. Truthful(m.xDeath, m.trail)
    BY <1>3, <2>1, <2>2, TruthfulNext
  <2>4. Single(n.xDeath)
    BY <2>1, <2>2, TruthfulIsSingle
  <2>5. \/ reason = "rejected"
        \/ \E i \in DOMAIN n.xDeath : n.xDeath[i].reason = "rejected"
        \/ \A i \in DOMAIN n.xDeath : n.xDeath[i].queue # q
    BY <1>3 DEF IsDeadLetterCycle
  <2>6. Once(m.xDeath)
    BY <1>3, <2>1, <2>2, <2>4, <2>5, OnceNext
  <2> QED
    BY <2>3, <2>6 DEF Recorded
<1> QED
  BY <1>1, <1>2, <1>3 DEF Descends

(* Every message there is has an x-death that tells its deaths, in every
   reachable state. *)
AllRecorded == \A m \in Messages : Recorded(m)

LEMMA SpecRecorded == Spec => []AllRecorded
<1>1. Init => AllRecorded
  <2> SUFFICES ASSUME Init, NEW m \in Messages PROVE FALSE
    BY DEF AllRecorded
  <2>1. \A q \in Queues : store[q] = <<>>
    BY DEF Init
  <2>2. unacked = <<>> /\ call = <<>>
    BY DEF Init
  <2> QED
    BY <2>1, <2>2, ToSetOne DEF Messages, Stored, Delivered, Moving
<1>2. TypeOK /\ AllRecorded /\ [Next]_vars => AllRecorded'
  <2> SUFFICES ASSUME TypeOK, AllRecorded, [Next]_vars, NEW m \in Messages' PROVE Recorded(m)
    BY DEF AllRecorded, Recorded
  <2>1. Descends(m)
    BY MessagesDescend
  <2> QED
    BY <2>1, DescendsRecorded DEF AllRecorded
<1> QED
  BY <1>1, <1>2, PublishingTypes, PTL DEF Spec

(* isDeadLetterCycle ends every loop of dead-letter exchanges: whatever queues,
   bindings and exchanges there are, a message that no client rejected has died
   once at most in each queue. *)
THEOREM DeathsAreOnce == Spec => []AutomaticDeathsOnce
<1>1. AllRecorded => AutomaticDeathsOnce
  BY DEF AllRecorded, Recorded, Once, AutomaticDeathsOnce
<1> QED
  BY <1>1, SpecRecorded, PTL

(* The x-death header of every message lists the kinds of death it has died,
   with how often, the latest first (updateXDeath). *)
THEOREM XDeathIsTruthful == Spec => []XDeathTruthful
<1>1. AllRecorded => XDeathTruthful
  BY DEF AllRecorded, Recorded, Truthful, DiedOf, Kinds, XDeathTruthful
<1> QED
  BY <1>1, SpecRecorded, PTL

-----------------------------------------------------------------------------
(* Publisher confirms.  What the frames of a call say of them: the publishes in
   progress have confirm frames of different publishes and tags; a return frame
   is above the confirm frame of its publish; a listener runs above the frame
   that called it, and drainConfirmWaiters after it. *)
Confirming(c) == {i \in DOMAIN c : c[i].do = "confirm"}
IdsOf(c) == {c[i].id : i \in Confirming(c)}
TagsOf(c) == {c[i].tag : i \in Confirming(c)} \ {0}
Draining(c) == \E i \in DOMAIN c : c[i].do = "drained"

Ordered(c, n) ==
  /\ \A i \in DOMAIN c :
       /\ c[i].do \in {"confirm", "return"} => c[i].id <= n
       /\ c[i].do = "return" => \E j \in Confirming(c) : i < j /\ c[j].id = c[i].id
       /\ c[i].do = "drained" /\ i # 1 => c[i - 1].do = "listener"
       /\ c[i].do = "listener" /\ i # 1 => c[i - 1].do \in {"confirm", "drained"}
  /\ \A i, j \in Confirming(c) :
       c[i].id = c[j].id \/ (c[i].tag = c[j].tag /\ c[i].tag # 0) => i = j

(* The events: those of a publish in progress are returns, and of the others one
   at most is not, which is the last. *)
Told(e, c, n) ==
  /\ \A i \in DOMAIN e : e[i].id <= n
  /\ \A i, j \in DOMAIN e : e[i].id = e[j].id /\ e[j].type # "return" =>
       i = j \/ (e[i].type = "return" /\ i < j)
  /\ \A j \in DOMAIN e : e[j].id \in IdsOf(c) => e[j].type = "return"

Answers(e) == {i \in DOMAIN e : e[i].type # "return"}

Awaited ==
  /\ pending = TagsOf(call)
  /\ Cardinality(Answers(events)) + Cardinality(pending) = tagSeq
  /\ waiters > 0 => pending # {} \/ Draining(call)

ConfirmInv == Ordered(call, published) /\ Told(events, call, published) /\ Awaited

(* d has the frames of c that are about confirms, k positions further down, but
   for those of returns and listeners that are over. *)
Marks == {"confirm", "return", "listener", "drained"}

SameMark(x, y) ==
  /\ x.do = y.do
  /\ x.do \in {"confirm", "return"} => x.id = y.id
  /\ x.do = "confirm" => x.tag = y.tag

Moved(c, d, k) ==
  /\ \A i \in DOMAIN d : d[i].do \in Marks =>
       /\ i - k \in DOMAIN c /\ SameMark(c[i - k], d[i])
       /\ d[i].do \in {"listener", "drained"} /\ i # 1 =>
            i - k # 1 /\ d[i - 1].do = c[(i - k) - 1].do
  /\ \A i \in DOMAIN c : c[i].do \in {"confirm", "drained"} =>
       i + k \in DOMAIN d /\ SameMark(c[i], d[i + k])

LEMMA MovedConfirming ==
  ASSUME NEW c \in Seq(Proper), NEW d \in Seq(Proper), NEW k \in Int, Moved(c, d, k)
  PROVE  /\ \A i \in Confirming(d) : /\ i - k \in Confirming(c) /\ c[i - k].id = d[i].id
                                     /\ c[i - k].tag = d[i].tag
         /\ \A i \in Confirming(c) : /\ i + k \in Confirming(d) /\ d[i + k].id = c[i].id
                                     /\ d[i + k].tag = c[i].tag
         /\ IdsOf(d) = IdsOf(c) /\ TagsOf(d) = TagsOf(c)
<1>1. \A i \in Confirming(d) : /\ i - k \in Confirming(c) /\ c[i - k].id = d[i].id
                               /\ c[i - k].tag = d[i].tag
  BY DEF Moved, Confirming, SameMark, Marks
<1>2. \A i \in Confirming(c) : /\ i + k \in Confirming(d) /\ d[i + k].id = c[i].id
                               /\ d[i + k].tag = c[i].tag
  BY DEF Moved, Confirming, SameMark, Marks
<1> QED
  <2>1. IdsOf(d) = IdsOf(c)
    <3>1. ASSUME NEW i \in Confirming(d) PROVE d[i].id \in IdsOf(c)
      BY <1>1 DEF IdsOf
    <3>2. ASSUME NEW i \in Confirming(c) PROVE c[i].id \in IdsOf(d)
      BY <1>2 DEF IdsOf
    <3> QED
      BY <3>1, <3>2 DEF IdsOf
  <2>2. TagsOf(d) = TagsOf(c)
    BY <1>1, <1>2 DEF TagsOf
  <2> QED
    BY <1>1, <1>2, <2>1, <2>2

LEMMA MovedOrdered ==
  ASSUME NEW c \in Seq(Proper), NEW d \in Seq(Proper), NEW k \in Int, Moved(c, d, k),
         NEW n, Ordered(c, n)
  PROVE  Ordered(d, n)
<1>1. DOMAIN c = 1 .. Len(c) /\ Len(c) \in Nat /\ DOMAIN d = 1 .. Len(d) /\ Len(d) \in Nat
  BY LenProperties
<1>2. ASSUME NEW i \in DOMAIN d, d[i].do \in {"confirm", "return"} PROVE d[i].id <= n
  BY <1>2 DEF Moved, SameMark, Marks, Ordered
<1>3. ASSUME NEW i \in DOMAIN d, d[i].do = "return"
      PROVE  \E j \in Confirming(d) : i < j /\ d[j].id = d[i].id
  <2>1. i - k \in DOMAIN c /\ c[i - k].do = "return" /\ c[i - k].id = d[i].id
    BY <1>3 DEF Moved, SameMark, Marks
  <2>2. PICK j \in Confirming(c) : i - k < j /\ c[j].id = c[i - k].id
    BY <2>1 DEF Ordered
  <2>3. j + k \in Confirming(d) /\ d[j + k].id = d[i].id
    BY <2>1, <2>2, MovedConfirming
  <2>4. i < j + k
    BY <1>1, <2>2 DEF Confirming
  <2> QED
    BY <2>3, <2>4
<1>4. ASSUME NEW i \in DOMAIN d, d[i].do \in {"listener", "drained"}, i # 1
      PROVE  /\ d[i].do = "drained" => d[i - 1].do = "listener"
             /\ d[i].do = "listener" => d[i - 1].do \in {"confirm", "drained"}
  <2>1. /\ i - k \in DOMAIN c /\ c[i - k].do = d[i].do /\ i - k # 1
        /\ d[i - 1].do = c[(i - k) - 1].do
    BY <1>4 DEF Moved, SameMark, Marks
  <2> DEFINE l == i - k
  <2>2. l \in DOMAIN c /\ c[l].do = d[i].do /\ l # 1 /\ d[i - 1].do = c[l - 1].do
    BY <2>1
  <2> HIDE DEF l
  <2> QED
    BY <2>2 DEF Ordered
<1>5. ASSUME NEW i \in Confirming(d), NEW j \in Confirming(d),
             d[i].id = d[j].id \/ (d[i].tag = d[j].tag /\ d[i].tag # 0)
      PROVE  i = j
  <2>1. /\ i - k \in Confirming(c) /\ c[i - k].id = d[i].id /\ c[i - k].tag = d[i].tag
        /\ j - k \in Confirming(c) /\ c[j - k].id = d[j].id /\ c[j - k].tag = d[j].tag
    BY MovedConfirming
  <2>2. \A g, h \in Confirming(c) :
          c[g].id = c[h].id \/ (c[g].tag = c[h].tag /\ c[g].tag # 0) => g = h
    BY DEF Ordered
  <2>3. i - k = j - k
    BY <1>5, <2>1, <2>2
  <2> QED
    BY <1>1, <2>3 DEF Confirming
<1> QED
  BY <1>2, <1>3, <1>4, <1>5 DEF Ordered

(* A step that moves the frames about confirms and leaves the rest alone. *)
LEMMA MovedConfirmInv ==
  ASSUME TypeOK, TypeOK', ConfirmInv, NEW k \in Int, Moved(call, call', k),
         UNCHANGED <<tagSeq, pending, waiters, published, events>>
  PROVE  ConfirmInv'
<1>1. call \in Seq(Proper) /\ call' \in Seq(Proper)
  <2>1. call' \in Seq(Proper)
    BY ProperCall DEF TypeOK
  <2> QED
    BY <2>1, Types
<1>2. Ordered(call', published)
  BY <1>1, MovedOrdered DEF ConfirmInv
<1>3. IdsOf(call') = IdsOf(call) /\ TagsOf(call') = TagsOf(call)
  BY <1>1, MovedConfirming
<1>4. Told(events, call', published)
  BY <1>3 DEF ConfirmInv, Told
<1>5. waiters > 0 => pending # {} \/ Draining(call')
  BY DEF ConfirmInv, Awaited, Moved, SameMark, Draining
<1>6. Ordered(call, published)' /\ Told(events, call, published)'
  BY <1>2, <1>4 DEF Ordered, Told, IdsOf, Confirming
<1>7. Awaited'
  BY <1>3, <1>5 DEF ConfirmInv, Awaited, TagsOf, Confirming, Answers, Draining
<1> QED
  BY <1>6, <1>7 DEF ConfirmInv

(* Most steps replace the top frame by frames that are not about confirms. *)
Plain == {f \in Proper : f.do \notin Marks}

LEMMA PlainAreProper ==
  ASSUME NEW s \in Seq(Plain)
  PROVE  s \in Seq(Proper) /\ Len(s) \in Nat /\ \A i \in 1 .. Len(s) : s[i].do \notin Marks
<1>1. Len(s) \in Nat /\ \A i \in 1 .. Len(s) : s[i] \in Plain
  <2> HIDE DEF Plain
  <2> QED
    BY LenProperties, ElementOfSeq
<1>2. \A i \in 1 .. Len(s) : s[i] \in Proper /\ s[i].do \notin Marks
  BY <1>1 DEF Plain
<1>3. s \in Seq(Proper)
  <2> HIDE DEF Plain, Proper
  <2> QED
    BY <1>2, SeqOfSubset
<1> QED
  BY <1>1, <1>2, <1>3

LEMMA PlainOne ==
  ASSUME NEW f \in Plain
  PROVE  <<f>> \in Seq(Plain)
<1> HIDE DEF Plain
<1> QED
  OBVIOUS

LEMMA PlainConcat ==
  ASSUME NEW s \in Seq(Plain), NEW t \in Seq(Plain)
  PROVE  s \o t \in Seq(Plain)
<1> HIDE DEF Plain
<1> QED
  BY ConcatProperties

LEMMA PlainNone == <<>> \in Seq(Plain)
<1> HIDE DEF Plain
<1> QED
  BY EmptySeq

LEMMA PlainOnTail ==
  ASSUME NEW s \in Seq(Plain), NEW t \in Seq(Plain), NEW u \in Seq(Proper)
  PROVE  (s \o t) \o u = s \o (t \o u)
<1>1. s \in Seq(Proper) /\ t \in Seq(Proper)
  BY PlainAreProper
<1> HIDE DEF Plain, Proper
<1> QED
  BY <1>1, ConcatAssociative

LEMMA PlainDeaths ==
  ASSUME NEW s \in Seq(Message), NEW q \in Queues, NEW reason \in Reasons, NEW live \in BOOLEAN
  PROVE  Deaths(s, q, reason, live) \in Seq(Plain)
<1> DEFINE d == Deaths(s, q, reason, live)
<1>1. CASE ~DeadLetters(q, reason)
  BY <1>1, DeathsAre, PlainNone
<1>2. CASE DeadLetters(q, reason)
  <2>1. d \in Seq(Proper) /\ Len(d) = Len(s) /\ \A i \in 1 .. Len(s) : d[i] = Dead(s[i], q, reason, live)
    BY <1>2, DeathsAre
  <2>2. \A m : Dead(m, q, reason, live).do \notin Marks
    BY DEF Dead, Marks
  <2> HIDE DEF d
  <2>3. \A i \in 1 .. Len(d) : d[i] \in Proper
    <3> HIDE DEF Proper
    <3> QED
      BY <2>1, ElementOfSeq
  <2>4. \A i \in 1 .. Len(d) : d[i] \in Plain
    BY <2>1, <2>2, <2>3 DEF Plain
  <2> HIDE DEF Plain, Proper
  <2>5. d \in Seq(Plain)
    BY <2>1, <2>4, SeqOfSubset
  <2> QED
    BY <2>5 DEF d
<1> QED
  BY <1>1, <1>2

LEMMA PlainRejections ==
  ASSUME NEW s \in Seq(Delivery)
  PROVE  Rejections(s) \in Seq(Plain)
<1> DEFINE d == Rejections(s)
           t == Doomed(s)
<1>1. d \in Seq(Proper) /\ Len(d) = Len(t)
      /\ \A i \in 1 .. Len(t) : d[i] = Dead(t[i].message, t[i].queue, "rejected", TRUE)
  BY RejectionsAre
<1>2. \A m, q : Dead(m, q, "rejected", TRUE).do \notin Marks
  BY DEF Dead, Marks
<1> HIDE DEF d, t
<1>3. \A i \in 1 .. Len(d) : d[i] \in Proper
  <2> HIDE DEF Proper
  <2> QED
    BY <1>1, ElementOfSeq
<1>4. \A i \in 1 .. Len(d) : d[i] \in Plain
  BY <1>1, <1>2, <1>3 DEF Plain
<1> HIDE DEF Plain, Proper
<1>5. d \in Seq(Plain)
  BY <1>1, <1>4, SeqOfSubset
<1> QED
  BY <1>5 DEF d

LEMMA AcceptPlain ==
  ASSUME TypeOK, NEW frame \in Proper, frame.do = "enqueue", NEW q \in Queues,
         NEW rest \in Seq(Proper), NEW f \in Proper, f = Head(rest), f.do = "enqueue", q \notin f.todo,
         ~Refuses(q), Accept(frame, q, rest)
  PROVE  \E s \in Seq(Plain) : call' = s \o Tail(rest)
<1> DEFINE s == Enqueued(q, Stamped(q, frame.message))
           n == Excess(q, s)
           first == SubSeq(s, 1, n)
           took == [f EXCEPT !.stored = @ \cup {q}]
           deaths == Deaths(first, q, "maxlen", frame.live)
<1>1. frame.message \in Message /\ frame.live \in BOOLEAN
  BY FrameFields
<1>2. s \in Seq(Message) /\ n \in 0 .. Len(s)
  BY <1>1, AcceptKeepsLimit
<1>3. first \in Seq(Message)
  <2> HIDE DEF s, n
  <2>1. 1 \in 1 .. Len(s) + 1 /\ 1 <= n + 1
    BY <1>2, LenProperties
  <2> QED
    BY <1>2, <2>1, ToSetPiece
<1>4. took \in Plain
  BY FrameFields DEF Plain, Proper, Frame, Marks
<1>5. call' = deaths \o <<took>> \o Tail(rest)
  BY DEF Accept
<1> HIDE DEF first, took
<1>6. deaths \in Seq(Plain) /\ <<took>> \in Seq(Plain)
  BY <1>1, <1>3, <1>4, PlainDeaths, PlainOne DEF Reasons
<1>7. deaths \o <<took>> \in Seq(Plain)
  BY <1>6, PlainConcat
<1> QED
  BY <1>5, <1>7

LEMMA DrainPlain ==
  ASSUME TypeOK, NEW q \in Queues, NEW s \in Seq(Plain), NEW rest \in Seq(Proper),
         NEW r, r = s \o rest, Drain(q, r)
  PROVE  \E t \in Seq(Plain) : call' = t \o rest
<1> DEFINE gone == Only(store[q], Drained(q))
           deaths == Deaths(gone, q, "expired", FALSE)
<1>1. store[q] \in Seq(Message)
  BY Types
<1>2. gone \in Seq(Message)
  BY <1>1, OnlyHas
<1>3. call' = deaths \o (s \o rest)
  BY DEF Drain
<1> HIDE DEF gone
<1>4. deaths \in Seq(Plain)
  BY <1>2, PlainDeaths DEF Reasons
<1> HIDE DEF deaths
<1>5. call' = (deaths \o s) \o rest /\ deaths \o s \in Seq(Plain)
  BY <1>3, <1>4, PlainOnTail, PlainConcat
<1> QED
  BY <1>5

PlainStep == Top.do \notin Marks /\ \E s \in Seq(Plain) : call' = s \o Tail(call)

(* Replacing the top frame by a frame of the same kind is a plain step. *)
LEMMA TopReplaced ==
  ASSUME TypeOK, ~Idle, NEW f \in Proper
  PROVE  /\ [call EXCEPT ![1] = f] = <<f>> \o Tail(call)
         /\ <<f>> \o Tail(call) \in Seq(Proper)
         /\ Head(<<f>> \o Tail(call)) = f /\ Tail(<<f>> \o Tail(call)) = Tail(call)
<1>1. call \in Seq(Proper) /\ call # <<>>
  BY Types DEF Idle
<1>2. [call EXCEPT ![1] = f] = <<f>> \o Tail(call)
  <2> HIDE DEF Proper
  <2> QED
    BY <1>1, ReplacedFirst
<1>3. /\ [call EXCEPT ![1] = f] \in Seq(Proper)
      /\ Head([call EXCEPT ![1] = f]) = f /\ Tail([call EXCEPT ![1] = f]) = Tail(call)
  BY <1>1, ExceptFirst
<1> QED
  BY <1>2, <1>3

LEMMA EnqueuePlain ==
  ASSUME TypeOK, EnqueueStep
  PROVE  PlainStep
<1> USE Types
<1>1. ~Idle /\ Top \in Proper /\ Top.do = "enqueue" /\ Tail(call) \in Seq(Proper)
  BY DEF EnqueueStep
<1>2. PICK q \in Top.todo :
        LET rest == [call EXCEPT ![1].todo = @ \ {q}]
        IN  \/ Refuses(q) /\ Refuse(Top, q, rest)
            \/ ~Refuses(q) /\ Accept(Top, q, rest)
  BY DEF EnqueueStep
<1> DEFINE f == [Top EXCEPT !.todo = @ \ {q}]
           rest == [call EXCEPT ![1] = f]
<1>3. f \in Proper /\ q \in Queues /\ f.do = "enqueue" /\ q \notin f.todo
  BY <1>1, FrameFields DEF Proper, Frame
<1>4. \/ Refuse(Top, q, rest)
      \/ ~Refuses(q) /\ Accept(Top, q, rest)
  BY <1>1, <1>2, Zenon DEF f, Top
<1> HIDE DEF f
<1>5. rest = <<f>> \o Tail(call) /\ rest \in Seq(Proper) /\ Head(rest) = f /\ Tail(rest) = Tail(call)
  BY <1>1, <1>3, TopReplaced
<1> HIDE DEF rest
<1>6. Top.do \notin Marks
  BY <1>1 DEF Marks
<1>7. CASE Refuse(Top, q, rest)
  <2> DEFINE one == <<Top.message>>
             deaths == IF Overflow[q] = "reject-publish-dlx"
                       THEN Deaths(one, q, "maxlen", Top.live) ELSE <<>>
  <2>1. Top.message \in Message /\ Top.live \in BOOLEAN
    BY <1>1, FrameFields
  <2>2. one \in Seq(Message)
    BY <2>1
  <2> HIDE DEF one
  <2>3. deaths \in Seq(Plain)
    BY <1>3, <2>1, <2>2, PlainDeaths, PlainNone DEF Reasons
  <2>4. call' = deaths \o rest
    BY <1>7 DEF Refuse, one
  <2> HIDE DEF deaths
  <2>5. f \in Plain
    BY <1>3 DEF Plain, Marks
  <2>6. <<f>> \in Seq(Plain)
    BY <2>5, PlainOne
  <2>7. call' = (deaths \o <<f>>) \o Tail(call) /\ deaths \o <<f>> \in Seq(Plain)
    BY <1>1, <1>5, <2>3, <2>4, <2>6, PlainOnTail, PlainConcat
  <2> QED
    BY <1>6, <2>7 DEF PlainStep
<1>8. CASE ~Refuses(q) /\ Accept(Top, q, rest)
  <2>1. \E s \in Seq(Plain) : call' = s \o Tail(rest)
    BY <1>1, <1>3, <1>5, <1>8, AcceptPlain
  <2> QED
    BY <1>5, <1>6, <2>1 DEF PlainStep
<1> QED
  BY <1>4, <1>7, <1>8

LEMMA DispatchPlain ==
  ASSUME TypeOK, DispatchStep
  PROVE  PlainStep
<1> USE Types
<1>1. ~Idle /\ Top \in Proper /\ Top.do = "dispatch" /\ Tail(call) \in Seq(Proper)
  BY DEF DispatchStep
<1> DEFINE deliver(q) == [do |-> "deliver", queue |-> q, live |-> Top.live]
           f(q) == [Top EXCEPT !.queues = @ \ {q}]
           rest(q) == [call EXCEPT ![1] = f(q)]
<1>2. PICK q \in Top.queues : Drain(q, <<deliver(q)>> \o rest(q))
  BY DEF DispatchStep, Top
<1>3. f(q) \in Plain /\ f(q) \in Proper /\ q \in Queues /\ deliver(q) \in Plain
  BY <1>1, FrameFields DEF Plain, Proper, Frame, Marks
<1> HIDE DEF f, deliver
<1>4. rest(q) = <<f(q)>> \o Tail(call)
  BY <1>1, <1>3, TopReplaced
<1> DEFINE s == <<deliver(q)>>
           u == <<f(q)>>
<1>5. s \in Seq(Plain) /\ u \in Seq(Plain)
  BY <1>3, PlainOne
<1>6. Drain(q, s \o (u \o Tail(call)))
  BY <1>2, <1>4
<1> HIDE DEF s, u, rest
<1>7. s \o (u \o Tail(call)) = (s \o u) \o Tail(call) /\ s \o u \in Seq(Plain)
  BY <1>1, <1>5, PlainOnTail, PlainConcat
<1>8. \E t \in Seq(Plain) : call' = t \o Tail(call)
  BY <1>1, <1>3, <1>6, <1>7, DrainPlain
<1>9. Top.do \notin Marks
  BY <1>1 DEF Marks
<1> QED
  BY <1>8, <1>9 DEF PlainStep

LEMMA DeadPlain ==
  ASSUME TypeOK, DeadStep
  PROVE  PlainStep \/ (Top.do = "dead" /\ call' = Thrown)
<1> USE Types
<1>1. /\ ~Idle /\ Top \in Proper /\ Tail(call) \in Seq(Proper) /\ Top.do = "dead"
      /\ Top.message \in Message /\ Top.queue \in Queues /\ Top.reason \in Reasons
      /\ Top.live \in BOOLEAN
  BY FrameFields DEF DeadStep
<1> DEFINE again == PrepareDeadLetter(Top.message, Top.queue, Top.reason)
           targets == Route(DeadLetterExchange[Top.queue], {again.key} \cup again.cc)
           publish == Enqueue(again, targets, Top.live)
           try == [do |-> "try"]
<1>2. publish \in Plain /\ try \in Plain
  <2>1. again \in Message
    BY <1>1, PreparedType
  <2>2. targets \subseteq Queues
    BY RouteInQueues
  <2> HIDE DEF again, targets
  <2> QED
    BY <1>1, <2>1, <2>2 DEF Enqueue, Plain, Proper, Frame, Marks
<1>3. \/ call' \in {Tail(call), Thrown}
      \/ call' \in {<<publish, try>> \o Tail(call), <<publish>> \o Tail(call)}
  BY DEF DeadStep, Pop
<1> HIDE DEF publish, try
<1>4. <<publish>> \in Seq(Plain) /\ <<publish>> \o <<try>> \in Seq(Plain)
      /\ <<publish>> \o <<try>> = <<publish, try>>
  BY <1>2, PlainOne, PlainConcat, TwoFrames
<1>5. <<>> \in Seq(Plain) /\ Tail(call) = <<>> \o Tail(call)
  <2>1. Tail(call) = <<>> \o Tail(call)
    <3> HIDE DEF Proper
    <3> QED
      BY <1>1, ConcatEmptySeq
  <2> QED
    BY <2>1, PlainNone
<1>6. Top.do \notin Marks
  BY <1>1 DEF Marks
<1> QED
  BY <1>1, <1>3, <1>4, <1>5, <1>6 DEF PlainStep

LEMMA PlainSteps ==
  ASSUME TypeOK, \/ EnqueueStep \/ EnqueueEnd \/ DispatchStep \/ DispatchEnd
                 \/ DeliverStep \/ GetStep \/ TryEnd \/ DeadStep
  PROVE  PlainStep \/ (Top.do = "dead" /\ call' = Thrown)
<1>1. ASSUME EnqueueEnd PROVE PlainStep
  <2>1. /\ ~Idle /\ Top \in Proper /\ Top.do = "enqueue"
        /\ call' = <<Dispatch(Top.stored, Top.live)>> \o Tail(call)
    BY <1>1, Types DEF EnqueueEnd
  <2>2. Dispatch(Top.stored, Top.live) \in Plain
    BY <2>1, FrameFields DEF Dispatch, Plain, Proper, Frame, Marks
  <2>3. Top.do \notin Marks
    BY <2>1 DEF Marks
  <2> QED
    BY <2>1, <2>2, <2>3, PlainOne DEF PlainStep
<1>2. ASSUME DispatchEnd \/ DeliverStep \/ GetStep \/ TryEnd PROVE PlainStep
  <2>1. ~Idle /\ Top.do \notin Marks /\ call' = Tail(call)
    BY <1>2 DEF DispatchEnd, DeliverStep, GetStep, TryEnd, Pop, Marks
  <2>2. Tail(call) \in Seq(Proper)
    BY <2>1, Types
  <2>3. Tail(call) = <<>> \o Tail(call)
    <3> HIDE DEF Proper
    <3> QED
      BY <2>2, ConcatEmptySeq
  <2> QED
    BY <2>1, <2>3, PlainNone DEF PlainStep
<1> QED
  BY <1>1, <1>2, EnqueuePlain, DispatchPlain, DeadPlain

LEMMA PlainMoved ==
  ASSUME TypeOK, ~Idle, ConfirmInv, PlainStep
  PROVE  \E k \in Int : Moved(call, call', k)
<1> DEFINE t == Tail(call)
<1>1. PICK s \in Seq(Plain) : call' = s \o t
  BY DEF PlainStep
<1>2. /\ call \in Seq(Proper) /\ Len(call) \in Nat /\ Len(call) >= 1 /\ DOMAIN call = 1 .. Len(call)
      /\ t \in Seq(Proper) /\ Len(t) = Len(call) - 1
      /\ \A i \in 1 .. Len(call) - 1 : t[i] = call[i + 1]
  BY Types
<1>3. s \in Seq(Proper) /\ Len(s) \in Nat /\ \A i \in 1 .. Len(s) : s[i].do \notin Marks
  BY PlainAreProper
<1>4. call[1].do \notin Marks
  BY DEF PlainStep, Top
<1> HIDE DEF t
<1>5. /\ call' \in Seq(Proper) /\ Len(call') = Len(s) + Len(t)
      /\ \A i \in 1 .. Len(s) + Len(t) : call'[i] = IF i <= Len(s) THEN s[i] ELSE t[i - Len(s)]
  <2> HIDE DEF Proper, Plain
  <2>0. s \in Seq(Proper) /\ t \in Seq(Proper)
    BY <1>2, <1>3
  <2>1. s \o t \in Seq(Proper)
    BY <2>0, ConcatProperties
  <2>2. Len(s \o t) = Len(s) + Len(t)
    BY <2>0, ConcatProperties
  <2>3. \A i \in 1 .. Len(s) + Len(t) : (s \o t)[i] = IF i <= Len(s) THEN s[i] ELSE t[i - Len(s)]
    BY <2>0, ConcatProperties
  <2> QED
    BY <1>1, <2>1, <2>2, <2>3
<1>6. DOMAIN call' = 1 .. Len(call')
  BY <1>5, LenProperties
<1> DEFINE k == Len(s) - 1
<1>7. \A i \in 1 .. Len(call') : i > Len(s) =>
        i - k \in 2 .. Len(call) /\ call'[i] = call[i - k]
  <2> TAKE i \in 1 .. Len(call')
  <2> HAVE i > Len(s)
  <2>1. i - Len(s) \in 1 .. Len(call) - 1 /\ i - Len(s) + 1 = i - k
    BY <1>2, <1>3, <1>5
  <2>2. call'[i] = t[i - Len(s)]
    BY <1>3, <1>5
  <2>3. t[i - Len(s)] = call[i - k]
    BY <1>2, <2>1
  <2>4. i - k \in 2 .. Len(call)
    BY <1>2, <1>3, <1>5
  <2> QED
    BY <2>2, <2>3, <2>4
<1>8. \A i \in 2 .. Len(call) : i + k \in 1 .. Len(call') /\ i + k > Len(s) /\ (i + k) - k = i
  BY <1>2, <1>3, <1>5
<1>9. \A i \in 1 .. Len(call') : call'[i].do \in Marks => i > Len(s)
  BY <1>3, <1>5
<1>10. k \in Int
  BY <1>3
<1> HIDE DEF k
<1>11. ASSUME NEW i \in DOMAIN call', call'[i].do \in Marks
       PROVE  /\ i - k \in DOMAIN call /\ SameMark(call[i - k], call'[i])
              /\ call'[i].do \in {"listener", "drained"} /\ i # 1 =>
                   i - k # 1 /\ call'[i - 1].do = call[(i - k) - 1].do
  <2>1. i > Len(s) /\ i - k \in 2 .. Len(call) /\ call'[i] = call[i - k]
    BY <1>6, <1>7, <1>9, <1>11
  <2>2. ASSUME call'[i].do \in {"listener", "drained"}, i # 1
        PROVE  call'[i - 1].do = call[(i - k) - 1].do
    <3>1. i - k # 2
      BY <1>2, <1>4, <2>1, <2>2 DEF ConfirmInv, Ordered, Marks
    <3>2. i - 1 > Len(s)
      <4>1. CASE i - 1 <= Len(s)
        <5>1. i - k = 2
          BY <1>3, <1>6, <1>5, <2>1, <4>1 DEF k
        <5> QED
          BY <3>1, <5>1
      <4> QED
        BY <1>3, <1>6, <4>1
    <3>3. i - 1 \in 1 .. Len(call') /\ (i - 1) - k = (i - k) - 1
      BY <1>3, <1>6, <1>10, <3>2
    <3> QED
      BY <1>7, <3>2, <3>3
  <2> QED
    BY <1>2, <2>1, <2>2 DEF SameMark
<1>12. ASSUME NEW i \in DOMAIN call, call[i].do \in {"confirm", "drained"}
       PROVE  i + k \in DOMAIN call' /\ SameMark(call[i], call'[i + k])
  <2>1. i \in 2 .. Len(call)
    BY <1>2, <1>4, <1>12 DEF Marks
  <2>2. call'[i + k] = call[i]
    BY <1>7, <1>8, <2>1
  <2> QED
    BY <1>6, <1>8, <2>1, <2>2 DEF SameMark
<1> QED
  BY <1>10, <1>11, <1>12 DEF Moved

LEMMA FreshMoved ==
  ASSUME TypeOK, Idle, call' \in Seq(Plain)
  PROVE  Moved(call, call', 0)
<1>1. Len(call') \in Nat /\ \A i \in 1 .. Len(call') : call'[i].do \notin Marks
  BY PlainAreProper
<1>2. DOMAIN call' = 1 .. Len(call')
  <2> HIDE DEF Plain
  <2> QED
    BY LenProperties
<1>3. DOMAIN call = {}
  BY DEF Idle
<1> QED
  BY <1>1, <1>2, <1>3 DEF Moved

LEMMA SameMoved ==
  ASSUME TypeOK, call' = call
  PROVE  Moved(call, call', 0)
<1>1. DOMAIN call = 1 .. Len(call) /\ Len(call) \in Nat
  BY Types
<1>2. \A i \in DOMAIN call : i - 0 = i /\ i + 0 = i
  BY <1>1
<1> QED
  BY <1>2 DEF Moved, SameMark

LEMMA ListenerMoved ==
  ASSUME TypeOK, ~Idle, Top.do = "listener", call' = Tail(call)
  PROVE  Moved(call, call', 0 - 1)
<1>1. /\ DOMAIN call = 1 .. Len(call) /\ Len(call) \in Nat
      /\ call' \in Seq(Proper) /\ Len(call') = Len(call) - 1
      /\ \A i \in 1 .. Len(call) - 1 : call'[i] = call[i + 1]
  BY Types
<1>2. DOMAIN call' = 1 .. Len(call) - 1
  BY <1>1, LenProperties
<1>3. \A i \in 1 .. Len(call) - 1 :
        /\ i - (0 - 1) = i + 1 /\ i + 1 \in 1 .. Len(call) /\ i + 1 # 1 /\ (i + 1) - 1 = i
        /\ i # 1 => i - 1 \in 1 .. Len(call) - 1 /\ (i - 1) + 1 = i
  BY <1>1
<1>4. ASSUME NEW i \in DOMAIN call, call[i].do \in {"confirm", "drained"}
      PROVE  i + (0 - 1) \in 1 .. Len(call) - 1 /\ (i + (0 - 1)) + 1 = i
  <2>1. i # 1
    BY <1>4 DEF Top
  <2> QED
    BY <1>1, <2>1
<1>5. ASSUME NEW i \in DOMAIN call' PROVE
        /\ i - (0 - 1) \in DOMAIN call /\ call[i - (0 - 1)] = call'[i]
        /\ i # 1 => i - (0 - 1) # 1 /\ call'[i - 1] = call[(i - (0 - 1)) - 1]
  <2>1. i - (0 - 1) = i + 1 /\ i + 1 \in DOMAIN call /\ i + 1 # 1 /\ (i + 1) - 1 = i
        /\ call'[i] = call[i + 1]
    BY <1>1, <1>2, <1>3
  <2>2. i # 1 => call'[i - 1] = call[i]
    BY <1>1, <1>2, <1>3
  <2> QED
    BY <2>1, <2>2
<1>6. ASSUME NEW i \in DOMAIN call, call[i].do \in {"confirm", "drained"}
      PROVE  i + (0 - 1) \in DOMAIN call' /\ call'[i + (0 - 1)] = call[i]
  BY <1>1, <1>2, <1>4, <1>6
<1> QED
  BY <1>5, <1>6 DEF Moved, SameMark

(* An exception unwinds the call to the nearest publish that catches it; what
   it skips holds no drainConfirmWaiters, which is below the publish whose
   listener published. *)
LEMMA DrainedBelowConfirm ==
  ASSUME TypeOK, ConfirmInv, NEW d \in DOMAIN call, call[d].do = "drained", call[1].do = "dead"
  PROVE  \E j \in DOMAIN call : j < d /\ call[j].do = "confirm"
<1> DEFINE D == {i \in DOMAIN call : call[i].do = "drained"}
<1>1. DOMAIN call = 1 .. Len(call) /\ Len(call) \in Nat
  BY Types
<1>2. D \subseteq Nat /\ D # {} /\ d \in D
  BY <1>1
<1>3. PICK m \in D : \A i \in D : m <= i
  <2> HIDE DEF D
  <2> QED
    BY <1>2, Smallest
<1>4. m \in DOMAIN call /\ m # 1 /\ call[m - 1].do = "listener"
  BY <1>3 DEF ConfirmInv, Ordered
<1>5. m - 1 \in DOMAIN call /\ m - 1 # 1
  BY <1>1, <1>4
<1>6. m - 2 \in DOMAIN call /\ (m - 1) - 1 = m - 2 /\ m - 2 < m
  BY <1>1, <1>4, <1>5
<1>7. call[m - 2].do \in {"confirm", "drained"}
  BY <1>4, <1>5, <1>6 DEF ConfirmInv, Ordered
<1>8. m - 2 \notin D
  BY <1>1, <1>3, <1>6
<1> QED
  BY <1>1, <1>2, <1>3, <1>6, <1>7, <1>8

LEMMA ThrownMoved ==
  ASSUME TypeOK, ConfirmInv, ~Idle, Top.do = "dead", call' = Thrown
  PROVE  \E k \in Int : Moved(call, call', k)
<1> DEFINE catching == {i \in DOMAIN call : call[i].do \in {"try", "confirm"}}
           m == Min(catching)
           rest == SubSeq(call, m + 1, Len(call))
           caught == [call[m] EXCEPT !.ok = FALSE]
<1>1. call \in Seq(Proper) /\ Len(call) \in Nat /\ DOMAIN call = 1 .. Len(call)
      /\ \A i \in 1 .. Len(call) : call[i] \in Proper
  BY Types
<1>2. Thrown = IF catching = {} THEN <<>>
               ELSE IF call[m].do = "try" THEN rest ELSE <<caught>> \o rest
  BY DEF Thrown
<1>3. \A i \in DOMAIN call : call[i].do = "drained" => \E j \in catching : j < i
  BY DrainedBelowConfirm DEF Top
<1>4. CASE catching = {}
  <2>1. call' = <<>> /\ DOMAIN <<>> = {}
    BY <1>2, <1>4
  <2>2. DOMAIN call' = {}
    BY <2>1
  <2>3. \A i \in DOMAIN call : call[i].do \notin {"confirm", "drained"}
    BY <1>3, <1>4
  <2> QED
    BY <2>2, <2>3 DEF Moved
<1>5. CASE catching # {}
  <2>1. m \in catching /\ \A i \in catching : m <= i
    <3>1. catching \in SUBSET Nat
      BY <1>1
    <3> HIDE DEF catching
    <3> QED
      BY <1>5, <3>1, MinProperties
  <2>2. m \in 1 .. Len(call) /\ call[m].do \in {"try", "confirm"}
    BY <1>1, <2>1
  <2>3. \A i \in DOMAIN call : call[i].do = "drained" => m < i
    <3> TAKE i \in DOMAIN call
    <3> HAVE call[i].do = "drained"
    <3>1. PICK j \in catching : j < i
      BY <1>3
    <3>2. m <= j /\ j \in Nat
      BY <1>1, <2>1
    <3> QED
      BY <1>1, <2>2, <3>1, <3>2
  <2>4. \A i \in DOMAIN call : call[i].do = "confirm" => m <= i
    BY <2>1
  <2> HIDE DEF catching, m
  <2>5. /\ rest \in Seq(Proper) /\ Len(rest) = Len(call) - m
        /\ \A j \in 1 .. Len(call) - m : rest[j] = call[m + j]
    <3>1. m + 1 \in 1 .. Len(call) + 1 /\ Len(call) \in 0 .. Len(call) /\ m + 1 <= Len(call) + 1
      BY <1>1, <2>2
    <3>2. /\ rest \in Seq(Proper) /\ Len(rest) = Len(call) - (m + 1) + 1
          /\ \A j \in 1 .. Len(rest) : rest[j] = call[m + 1 + j - 1]
      <4> HIDE DEF Proper
      <4> QED
        BY <1>1, <3>1, Piece
    <3> HIDE DEF rest
    <3>3. Len(rest) = Len(call) - m /\ \A j \in 1 .. Len(call) - m : m + 1 + j - 1 = m + j
      <4>1. Len(call) \in Nat /\ m \in Nat /\ Len(rest) = Len(call) - (m + 1) + 1
        BY <1>1, <2>2, <3>2
      <4>2. Len(rest) = Len(call) - m
        BY <4>1
      <4>3. \A j \in 1 .. Len(call) - m : m + 1 + j - 1 = m + j
        BY <4>1
      <4> QED
        BY <4>2, <4>3
    <3>4. \A j \in 1 .. Len(call) - m : rest[j] = call[m + j]
      <4> TAKE j \in 1 .. Len(call) - m
      <4>1. rest[j] = call[m + 1 + j - 1] /\ m + 1 + j - 1 = m + j
        BY <3>2, <3>3
      <4> QED
        BY <4>1
    <3> QED
      BY <3>2, <3>3, <3>4
  <2> HIDE DEF rest
  <2>6. CASE call[m].do = "try"
    <3> DEFINE k == 0 - m
    <3>1. call' = rest
      BY <1>2, <1>5, <2>6 DEF catching
    <3>2. DOMAIN call' = 1 .. Len(call) - m
      BY <2>5, <3>1, LenProperties
    <3>3. ASSUME NEW i \in DOMAIN call'
          PROVE  /\ i - k \in DOMAIN call /\ call[i - k] = call'[i]
                 /\ i # 1 => i - k # 1 /\ call'[i - 1] = call[(i - k) - 1]
      <4>1. i - k = m + i /\ m + i \in DOMAIN call /\ m + i # 1 /\ call'[i] = call[m + i]
        BY <1>1, <2>2, <2>5, <3>1, <3>2
      <4>2. i # 1 => i - 1 \in 1 .. Len(call) - m /\ m + (i - 1) = (m + i) - 1
        BY <1>1, <2>2, <3>2
      <4>3. i # 1 => call'[i - 1] = call[(m + i) - 1]
        BY <2>5, <3>1, <4>2
      <4> QED
        BY <4>1, <4>3
    <3>4. ASSUME NEW i \in DOMAIN call, call[i].do \in {"confirm", "drained"}
          PROVE  i + k \in DOMAIN call' /\ call'[i + k] = call[i]
      <4>1. m <= i /\ i # m
        BY <1>1, <2>2, <2>3, <2>4, <2>6, <3>4
      <4>2. i - m \in 1 .. Len(call) - m /\ i + k = i - m /\ m + (i - m) = i
        BY <1>1, <2>2, <4>1
      <4>3. call'[i - m] = call[m + (i - m)]
        BY <2>5, <3>1, <4>2
      <4> QED
        BY <3>2, <4>2, <4>3
    <3>5. k \in Int
      BY <1>1, <2>2
    <3>6. Moved(call, call', k)
      <4> HIDE DEF k
      <4> QED
        BY <3>3, <3>4 DEF Moved, SameMark
    <3> QED
      BY <3>5, <3>6
  <2>7. CASE call[m].do = "confirm"
    <3> DEFINE k == 1 - m
    <3>1. caught \in Proper /\ SameMark(call[m], caught) /\ caught.do = "confirm"
      <4>1. call[m] \in Proper
        BY <1>1, <2>2
      <4>2. \A f \in Proper : f.do = "confirm" =>
              /\ [f EXCEPT !.ok = FALSE] \in Proper /\ [f EXCEPT !.ok = FALSE].do = "confirm"
              /\ SameMark(f, [f EXCEPT !.ok = FALSE])
        BY FrameFields DEF Proper, Frame, SameMark
      <4> QED
        BY <2>7, <4>1, <4>2
    <3>2. call' = <<caught>> \o rest
      BY <1>2, <1>5, <2>7 DEF catching
    <3> HIDE DEF caught
    <3>3. /\ call' \in Seq(Proper) /\ Len(call') = (Len(call) - m) + 1
          /\ \A i \in 1 .. (Len(call) - m) + 1 : call'[i] = IF i = 1 THEN caught ELSE rest[i - 1]
      <4> HIDE DEF Proper
      <4> QED
        BY <2>5, <3>1, <3>2, Prepended
    <3>4. DOMAIN call' = 1 .. (Len(call) - m) + 1
      BY <3>3, LenProperties
    <3>5. ASSUME NEW i \in DOMAIN call', i # 1
          PROVE  i - k \in DOMAIN call /\ i - k # 1 /\ i - k = (m + i) - 1 /\ call'[i] = call[i - k]
      <4>1. i - k = m + (i - 1) /\ m + (i - 1) = (m + i) - 1 /\ m + (i - 1) \in DOMAIN call
            /\ m + (i - 1) # 1 /\ i - 1 \in 1 .. Len(call) - m
        BY <1>1, <2>2, <3>4, <3>5
      <4>2. call'[i] = rest[i - 1]
        BY <3>3, <3>4, <3>5
      <4> QED
        BY <2>5, <4>1, <4>2
    <3>6. 1 - k = m /\ call'[1] = caught
      <4>1. 1 \in 1 .. (Len(call) - m) + 1 /\ 1 - (1 - m) = m
        BY <1>1, <2>2
      <4> QED
        BY <3>3, <4>1
    <3>7. ASSUME NEW i \in DOMAIN call'
          PROVE  /\ i - k \in DOMAIN call /\ SameMark(call[i - k], call'[i])
                 /\ i # 1 => i - k # 1 /\ call'[i - 1].do = call[(i - k) - 1].do
      <4>1. CASE i = 1
        BY <1>1, <2>2, <3>1, <3>6, <4>1
      <4>2. CASE i # 1
        <5>1. i - 1 \in DOMAIN call' /\ (i - 1) - k = (i - k) - 1
          BY <1>1, <2>2, <3>4, <4>2
        <5>2. SameMark(call[(i - 1) - k], call'[i - 1])
          <6>1. CASE i - 1 = 1
            BY <3>1, <3>6, <6>1
          <6>2. CASE i - 1 # 1
            BY <3>5, <5>1, <6>2 DEF SameMark
          <6> QED
            BY <6>1, <6>2
        <5>3. call'[i - 1].do = call[(i - k) - 1].do
          BY <5>1, <5>2 DEF SameMark
        <5> HIDE DEF k
        <5> QED
          BY <3>5, <4>2, <5>3 DEF SameMark
      <4> QED
        BY <4>1, <4>2
    <3>8. ASSUME NEW i \in DOMAIN call, call[i].do \in {"confirm", "drained"}
          PROVE  i + k \in DOMAIN call' /\ SameMark(call[i], call'[i + k])
      <4>1. m <= i
        BY <1>1, <2>2, <2>3, <2>4, <3>8
      <4>2. i + k \in DOMAIN call' /\ (i + k) - k = i
        BY <1>1, <2>2, <3>4, <4>1
      <4> HIDE DEF k
      <4> QED
        BY <3>7, <4>2
    <3>9. k \in Int
      BY <1>1, <2>2
    <3>10. Moved(call, call', k)
      <4> HIDE DEF k
      <4> QED
        BY <3>7, <3>8 DEF Moved
    <3> QED
      BY <3>9, <3>10
  <2> QED
    BY <2>2, <2>6, <2>7
<1> QED
  BY <1>4, <1>5

(* A frame on top of a call. *)
LEMMA Pushed ==
  ASSUME NEW f \in Proper, NEW c \in Seq(Proper), NEW d, d = <<f>> \o c
  PROVE  /\ d \in Seq(Proper) /\ Len(c) \in Nat /\ DOMAIN c = 1 .. Len(c)
         /\ DOMAIN d = 1 .. Len(c) + 1 /\ d[1] = f
         /\ \A i \in 1 .. Len(c) : i + 1 \in DOMAIN d /\ d[i + 1] = c[i]
         /\ \A i \in DOMAIN d : i # 1 =>
              i - 1 \in 1 .. Len(c) /\ (i - 1) + 1 = i /\ d[i] = c[i - 1]
<1>1. /\ d \in Seq(Proper) /\ Len(d) = Len(c) + 1
      /\ \A i \in 1 .. Len(c) + 1 : d[i] = IF i = 1 THEN f ELSE c[i - 1]
  <2> HIDE DEF Proper
  <2> QED
    BY Prepended
<1>2. Len(c) \in Nat /\ DOMAIN c = 1 .. Len(c) /\ DOMAIN d = 1 .. Len(c) + 1
  BY <1>1, LenProperties
<1>3. \A i \in 1 .. Len(c) : i + 1 \in 1 .. Len(c) + 1 /\ i + 1 # 1 /\ (i + 1) - 1 = i
  BY <1>2
<1>4. \A i \in 1 .. Len(c) + 1 : i # 1 => i - 1 \in 1 .. Len(c) /\ (i - 1) + 1 = i
  BY <1>2
<1>5. \A i \in 1 .. Len(c) : i + 1 \in DOMAIN d /\ d[i + 1] = c[i]
  BY <1>1, <1>2, <1>3
<1>6. \A i \in DOMAIN d : i # 1 => i - 1 \in 1 .. Len(c) /\ (i - 1) + 1 = i /\ d[i] = c[i - 1]
  BY <1>1, <1>2, <1>4
<1> QED
  BY <1>1, <1>2, <1>5, <1>6

Ends(c) == {c[i] : i \in Confirming(c)}

LEMMA SetsOfEnds ==
  ASSUME NEW c
  PROVE  IdsOf(c) = {x.id : x \in Ends(c)} /\ TagsOf(c) = {x.tag : x \in Ends(c)} \ {0}
<1>1. IdsOf(c) = {x.id : x \in Ends(c)}
  BY DEF IdsOf, Ends
<1>2. {c[i].tag : i \in Confirming(c)} = {x.tag : x \in Ends(c)}
  BY DEF Ends
<1> QED
  BY <1>1, <1>2 DEF TagsOf

Topped(d, f, c) == d = <<f>> \o c

LEMMA PushedSets ==
  ASSUME NEW f \in Proper, NEW c \in Seq(Proper), NEW d, Topped(d, f, c)
  PROVE  /\ f.do = "confirm" => /\ IdsOf(d) = IdsOf(c) \cup {f.id}
                                /\ TagsOf(d) = TagsOf(c) \cup ({f.tag} \ {0})
         /\ f.do # "confirm" => IdsOf(d) = IdsOf(c) /\ TagsOf(d) = TagsOf(c)
         /\ Draining(d) <=> f.do = "drained" \/ Draining(c)
<1>1. /\ Len(c) \in Nat /\ DOMAIN c = 1 .. Len(c) /\ 1 \in DOMAIN d /\ d[1] = f
      /\ \A i \in DOMAIN c : i + 1 \in DOMAIN d /\ d[i + 1] = c[i]
      /\ \A i \in DOMAIN d : i # 1 => i - 1 \in DOMAIN c /\ d[i] = c[i - 1]
  BY Pushed DEF Topped
<1>2. \A i \in Confirming(c) : i + 1 \in Confirming(d) /\ d[i + 1] = c[i]
  BY <1>1 DEF Confirming
<1>3. \A i \in Confirming(d) : i # 1 => i - 1 \in Confirming(c) /\ d[i] = c[i - 1]
  BY <1>1 DEF Confirming
<1>4. 1 \in Confirming(d) <=> f.do = "confirm"
  BY <1>1 DEF Confirming
<1> HIDE DEF Proper
<1> DEFINE D == Ends(d)
           C == Ends(c)
<1>5. /\ f.do = "confirm" => D = C \cup {f}
      /\ f.do # "confirm" => D = C
  <2>1. ASSUME NEW i \in Confirming(d) PROVE d[i] \in C \/ (i = 1 /\ f.do = "confirm" /\ d[i] = f)
    BY <1>1, <1>3, <1>4 DEF Ends
  <2>2. ASSUME NEW i \in Confirming(c) PROVE c[i] \in D
    <3>1. i + 1 \in Confirming(d) /\ d[i + 1] = c[i]
      BY <1>2
    <3> QED
      BY <3>1 DEF Ends
  <2>3. f.do = "confirm" => f \in D
    BY <1>1, <1>4 DEF Ends
  <2>4. /\ \A x \in D : x \in C \/ (f.do = "confirm" /\ x = f)
        /\ \A x \in C : x \in D
    BY <2>1, <2>2 DEF Ends
  <2> HIDE DEF D, C
  <2> QED
    BY <2>3, <2>4
<1>6. /\ IdsOf(d) = {x.id : x \in D} /\ TagsOf(d) = {x.tag : x \in D} \ {0}
      /\ IdsOf(c) = {x.id : x \in C} /\ TagsOf(c) = {x.tag : x \in C} \ {0}
  BY SetsOfEnds
<1> HIDE DEF D, C
<1>7. f.do = "confirm" => /\ IdsOf(d) = IdsOf(c) \cup {f.id}
                          /\ TagsOf(d) = TagsOf(c) \cup ({f.tag} \ {0})
  <2>1. f.do = "confirm" => IdsOf(d) = IdsOf(c) \cup {f.id}
    BY <1>5, <1>6
  <2>2. f.do = "confirm" => TagsOf(d) = TagsOf(c) \cup ({f.tag} \ {0})
    BY <1>5, <1>6
  <2> QED
    BY <2>1, <2>2
<1>8. f.do # "confirm" => IdsOf(d) = IdsOf(c) /\ TagsOf(d) = TagsOf(c)
  BY <1>5, <1>6
<1>9. Draining(d) => f.do = "drained" \/ Draining(c)
  BY <1>1 DEF Draining
<1>10. f.do = "drained" \/ Draining(c) => Draining(d)
  <2>1. f.do = "drained" => Draining(d)
    BY <1>1 DEF Draining
  <2>2. ASSUME NEW i \in DOMAIN c, c[i].do = "drained" PROVE Draining(d)
    <3>1. i + 1 \in DOMAIN d /\ d[i + 1].do = "drained"
      BY <1>1, <2>2
    <3> QED
      BY <3>1 DEF Draining
  <2> QED
    BY <2>1, <2>2 DEF Draining
<1> QED
  BY <1>7, <1>8, <1>9, <1>10

LEMMA PushedOrdered ==
  ASSUME NEW f \in Proper, NEW c \in Seq(Proper), NEW d, Topped(d, f, c), NEW n, Ordered(c, n),
         f.do \in {"confirm", "return"} => f.id <= n,
         f.do = "return" => f.id \in IdsOf(c),
         f.do = "confirm" => f.id \notin IdsOf(c) /\ (f.tag # 0 => f.tag \notin TagsOf(c)),
         c # <<>> => /\ c[1].do = "drained" => f.do = "listener"
                     /\ c[1].do = "listener" => f.do \in {"confirm", "drained"}
  PROVE  Ordered(d, n)
<1>1. /\ Len(c) \in Nat /\ DOMAIN c = 1 .. Len(c) /\ 1 \in DOMAIN d /\ d[1] = f
      /\ \A i \in DOMAIN c : i + 1 \in DOMAIN d /\ d[i + 1] = c[i]
      /\ \A i \in DOMAIN d : i # 1 => i - 1 \in DOMAIN c /\ (i - 1) + 1 = i /\ d[i] = c[i - 1]
      /\ DOMAIN d = 1 .. Len(c) + 1
  BY Pushed DEF Topped
<1>2. ASSUME NEW i \in DOMAIN d, d[i].do \in {"confirm", "return"} PROVE d[i].id <= n
  BY <1>1, <1>2 DEF Ordered
<1>3. ASSUME NEW i \in DOMAIN d, d[i].do = "return"
      PROVE  \E j \in Confirming(d) : i < j /\ d[j].id = d[i].id
  <2>1. CASE i = 1
    <3>1. PICK j \in Confirming(c) : c[j].id = f.id
      BY <1>1, <1>3, <2>1 DEF IdsOf
    <3>2. j + 1 \in Confirming(d) /\ d[j + 1].id = d[1].id /\ 1 < j + 1
      BY <1>1, <3>1 DEF Confirming
    <3> QED
      BY <2>1, <3>2
  <2>2. CASE i # 1
    <3>1. i - 1 \in DOMAIN c /\ d[i] = c[i - 1]
      BY <1>1, <2>2
    <3>2. PICK j \in Confirming(c) : i - 1 < j /\ c[j].id = d[i].id
      BY <1>3, <3>1 DEF Ordered
    <3>3. j + 1 \in Confirming(d) /\ d[j + 1].id = d[i].id
      BY <1>1, <3>2 DEF Confirming
    <3>4. i < j + 1
      BY <1>1, <3>2 DEF Confirming
    <3> QED
      BY <3>3, <3>4
  <2> QED
    BY <2>1, <2>2
<1>4. ASSUME NEW i \in DOMAIN d, d[i].do \in {"listener", "drained"}, i # 1
      PROVE  /\ d[i].do = "drained" => d[i - 1].do = "listener"
             /\ d[i].do = "listener" => d[i - 1].do \in {"confirm", "drained"}
  <2> DEFINE l == i - 1
  <2>1. l \in DOMAIN c /\ d[i] = c[l]
    BY <1>1, <1>4
  <2>2. CASE l = 1
    <3>1. c # <<>>
      BY <2>1
    <3> QED
      BY <1>1, <2>1, <2>2, <3>1
  <2>3. CASE l # 1
    <3>1. l \in DOMAIN d /\ d[l] = c[l - 1]
      BY <1>1, <2>1, <2>3
    <3> HIDE DEF l
    <3>2. /\ c[l].do = "drained" => c[l - 1].do = "listener"
          /\ c[l].do = "listener" => c[l - 1].do \in {"confirm", "drained"}
      BY <2>1, <2>3 DEF Ordered
    <3> QED
      BY <2>1, <3>1, <3>2 DEF l
  <2> QED
    BY <2>2, <2>3
<1>5. ASSUME NEW i \in Confirming(d), NEW j \in Confirming(d),
             d[i].id = d[j].id \/ (d[i].tag = d[j].tag /\ d[i].tag # 0)
      PROVE  i = j
  <2>1. \A l \in Confirming(d) : l # 1 => /\ l - 1 \in Confirming(c) /\ (l - 1) + 1 = l
                                          /\ c[l - 1] = d[l]
    BY <1>1 DEF Confirming
  <2>2. \A l \in Confirming(d) : l # 1 => d[l].id \in IdsOf(c)
    BY <2>1 DEF IdsOf
  <2>3. \A l \in Confirming(d) : l # 1 /\ d[l].tag # 0 => d[l].tag \in TagsOf(c)
    BY <2>1 DEF TagsOf
  <2>4. \A l \in Confirming(d) : l = 1 => f.do = "confirm" /\ d[l] = f
    BY <1>1 DEF Confirming
  <2>5. ASSUME NEW l \in Confirming(d), l # 1, 1 \in Confirming(d)
        PROVE  d[l].id # d[1].id /\ (d[1].tag # 0 => d[l].tag # d[1].tag)
    <3>1. f.do = "confirm" /\ d[1] = f
      BY <2>4, <2>5
    <3>2. d[l].id # f.id
      BY <2>2, <2>5, <3>1
    <3>3. f.tag # 0 => d[l].tag # f.tag
      BY <2>3, <2>5, <3>1
    <3> QED
      BY <3>1, <3>2, <3>3
  <2>6. CASE i = 1 \/ j = 1
    <3>1. CASE i = 1
      BY <1>5, <2>5, <3>1
    <3>2. CASE j = 1
      <4>1. i # 1 => d[i].id # d[j].id /\ (d[j].tag # 0 => d[i].tag # d[j].tag)
        BY <2>5, <3>2
      <4>2. d[i].tag = d[j].tag /\ d[i].tag # 0 => d[j].tag # 0
        OBVIOUS
      <4> QED
        BY <1>5, <3>2, <4>1, <4>2
    <3> QED
      BY <2>6, <3>1, <3>2
  <2>7. CASE i # 1 /\ j # 1
    <3> DEFINE g == i - 1
               h == j - 1
    <3>1. g \in Confirming(c) /\ h \in Confirming(c) /\ c[g] = d[i] /\ c[h] = d[j]
      BY <2>1, <2>7
    <3> HIDE DEF g, h
    <3>2. \A k, l \in Confirming(c) :
            c[k].id = c[l].id \/ (c[k].tag = c[l].tag /\ c[k].tag # 0) => k = l
      BY DEF Ordered
    <3>3. c[g].id = c[h].id \/ (c[g].tag = c[h].tag /\ c[g].tag # 0)
      BY <1>5, <3>1
    <3>4. g = h
      BY <3>1, <3>2, <3>3
    <3>5. i - 1 = j - 1
      BY <3>4 DEF g, h
    <3> QED
      BY <2>1, <2>7, <3>5
  <2> QED
    BY <2>6, <2>7
<1> QED
  BY <1>2, <1>3, <1>4, <1>5 DEF Ordered

(* What is below the top frame. *)
LEMMA TopAndTail ==
  ASSUME TypeOK, ~Idle
  PROVE  Top \in Proper /\ Tail(call) \in Seq(Proper) /\ call = <<Top>> \o Tail(call)
<1>1. Top \in Proper /\ Tail(call) \in Seq(Proper) /\ call \in Seq(Proper) /\ call # <<>>
  BY Types DEF Idle
<1>2. [call EXCEPT ![1] = Top] = <<Top>> \o Tail(call)
  BY <1>1, TopReplaced
<1>3. [call EXCEPT ![1] = Top] = call
  <2>1. call = [i \in DOMAIN call |-> call[i]]
    <3> HIDE DEF Proper
    <3> QED
      BY <1>1
  <2> QED
    BY <2>1 DEF Top
<1> QED
  BY <1>1, <1>2, <1>3

LEMMA BelowTop ==
  ASSUME NEW f \in Proper, NEW c \in Seq(Proper), NEW d, d = <<f>> \o c, NEW n, Ordered(d, n)
  PROVE  /\ Ordered(c, n)
         /\ f.do \in {"confirm", "return"} => f.id <= n
         /\ f.do = "return" => f.id \in IdsOf(c)
         /\ f.do = "confirm" => f.id \notin IdsOf(c) /\ (f.tag # 0 => f.tag \notin TagsOf(c))
         /\ c # <<>> => /\ c[1].do = "drained" => f.do = "listener"
                        /\ c[1].do = "listener" => f.do \in {"confirm", "drained"}
<1>1. /\ Len(c) \in Nat /\ DOMAIN c = 1 .. Len(c) /\ 1 \in DOMAIN d /\ d[1] = f
      /\ \A i \in DOMAIN c : i + 1 \in DOMAIN d /\ d[i + 1] = c[i]
      /\ \A i \in DOMAIN d : i # 1 => i - 1 \in DOMAIN c /\ (i - 1) + 1 = i /\ d[i] = c[i - 1]
      /\ DOMAIN d = 1 .. Len(c) + 1
  BY Pushed
<1>2. \A i \in DOMAIN c : i + 1 # 1 /\ (i + 1) - 1 = i /\ (i # 1 => i - 1 \in DOMAIN c /\ (i - 1) + 1 = i)
  BY <1>1
<1>3. \A i \in Confirming(c) : i + 1 \in Confirming(d) /\ d[i + 1] = c[i] /\ i + 1 # 1
  BY <1>1, <1>2 DEF Confirming
<1> DEFINE returned(i) == \E j \in Confirming(d) : i < j /\ d[j].id = d[i].id
<1>a. \A i \in DOMAIN d : d[i].do = "return" => returned(i)
  BY DEF Ordered
<1>b. \A i, j \in Confirming(d) :
        d[i].id = d[j].id \/ (d[i].tag = d[j].tag /\ d[i].tag # 0) => i = j
  BY DEF Ordered
<1>4. ASSUME NEW i \in DOMAIN c, c[i].do = "return"
      PROVE  \E j \in Confirming(c) : i < j /\ c[j].id = c[i].id
  <2>1. PICK j \in Confirming(d) : i + 1 < j /\ d[j].id = c[i].id
    <3>1. i + 1 \in DOMAIN d /\ d[i + 1] = c[i]
      BY <1>1
    <3>2. returned(i + 1)
      <4> HIDE DEF returned
      <4> QED
        BY <1>4, <1>a, <3>1
    <3> QED
      BY <3>1, <3>2
  <2>2. j # 1 /\ j \in DOMAIN d
    BY <1>1, <2>1 DEF Confirming
  <2>3. j - 1 \in DOMAIN c /\ d[j] = c[j - 1] /\ i < j - 1
    BY <1>1, <2>1, <2>2
  <2>4. j - 1 \in Confirming(c)
    BY <2>1, <2>3 DEF Confirming
  <2> QED
    BY <2>1, <2>3, <2>4
<1>5. ASSUME NEW i \in DOMAIN c, c[i].do \in {"listener", "drained"}
      PROVE  /\ c[i].do = "drained" => d[i].do = "listener"
             /\ c[i].do = "listener" => d[i].do \in {"confirm", "drained"}
  <2> DEFINE l == i + 1
  <2>1. l \in DOMAIN d /\ d[l] = c[i] /\ l # 1 /\ l - 1 = i
    BY <1>1, <1>2
  <2> HIDE DEF l
  <2> QED
    BY <1>5, <2>1 DEF Ordered
<1>6. \A i \in DOMAIN c : i # 1 => d[i] = c[i - 1]
  BY <1>1, <1>2
<1>7. ASSUME NEW i \in Confirming(c), NEW j \in Confirming(c),
             c[i].id = c[j].id \/ (c[i].tag = c[j].tag /\ c[i].tag # 0)
      PROVE  i = j
  <2> DEFINE g == i + 1
             h == j + 1
  <2>2. g \in Confirming(d) /\ h \in Confirming(d) /\ d[g] = c[i] /\ d[h] = c[j]
    BY <1>3
  <2> HIDE DEF g, h
  <2>3. g = h
    BY <1>7, <1>b, <2>2
  <2>1. i + 1 = j + 1
    BY <2>3 DEF g, h
  <2> QED
    BY <1>1, <2>1 DEF Confirming
<1>8. Ordered(c, n)
  <2>1. ASSUME NEW i \in DOMAIN c, c[i].do \in {"confirm", "return"} PROVE c[i].id <= n
    <3>1. i + 1 \in DOMAIN d /\ d[i + 1] = c[i]
      BY <1>1
    <3>2. \A k \in DOMAIN d : d[k].do \in {"confirm", "return"} => d[k].id <= n
      BY DEF Ordered
    <3> QED
      BY <2>1, <3>1, <3>2
  <2>2. ASSUME NEW i \in DOMAIN c, i # 1
        PROVE  /\ c[i].do = "drained" => c[i - 1].do = "listener"
               /\ c[i].do = "listener" => c[i - 1].do \in {"confirm", "drained"}
    BY <1>5, <1>6, <2>2
  <2> QED
    BY <1>4, <1>7, <2>1, <2>2 DEF Ordered
<1>9. f.do \in {"confirm", "return"} => f.id <= n
  BY <1>1 DEF Ordered
<1>10. ASSUME f.do = "return" PROVE f.id \in IdsOf(c)
  <2>1. PICK j \in Confirming(d) : 1 < j /\ d[j].id = f.id
    <3>1. returned(1)
      <4> HIDE DEF returned
      <4> QED
        BY <1>1, <1>10, <1>a
    <3> QED
      BY <1>1, <3>1
  <2>2. j \in DOMAIN d /\ j # 1 /\ d[j].do = "confirm"
    BY <2>1 DEF Confirming
  <2>3. j - 1 \in Confirming(c) /\ c[j - 1].id = f.id
    BY <1>1, <2>1, <2>2 DEF Confirming
  <2> QED
    BY <2>3 DEF IdsOf
<1>11. ASSUME f.do = "confirm" PROVE f.id \notin IdsOf(c) /\ (f.tag # 0 => f.tag \notin TagsOf(c))
  <2>1. 1 \in Confirming(d)
    BY <1>1, <1>11 DEF Confirming
  <2>2. ASSUME NEW i \in Confirming(c)
        PROVE  c[i].id # f.id /\ (f.tag # 0 => c[i].tag # f.tag)
    <3>1. i + 1 \in Confirming(d) /\ d[i + 1] = c[i] /\ i + 1 # 1
      BY <1>3
    <3> DEFINE l == i + 1
    <3>2. l \in Confirming(d) /\ d[l] = c[i] /\ l # 1
      BY <3>1
    <3> HIDE DEF l
    <3>3. c[i].id # f.id
      BY <1>1, <1>b, <2>1, <3>2
    <3>4. f.tag # 0 => c[i].tag # f.tag
      BY <1>1, <1>b, <2>1, <3>2
    <3> QED
      BY <3>3, <3>4
  <2>3. f.id \notin IdsOf(c)
    BY <2>2 DEF IdsOf
  <2>4. f.tag # 0 => f.tag \notin TagsOf(c)
    BY <2>2 DEF TagsOf
  <2> QED
    BY <2>3, <2>4
<1>12. ASSUME c # <<>>
       PROVE  /\ c[1].do = "drained" => f.do = "listener"
              /\ c[1].do = "listener" => f.do \in {"confirm", "drained"}
  <2>1. 1 \in DOMAIN c
    <3> HIDE DEF Proper
    <3>1. Len(c) # 0
      BY <1>12, EmptySeq, LenProperties
    <3> QED
      BY <1>1, <3>1
  <2> QED
    BY <1>1, <1>5, <2>1
<1> QED
  BY <1>8, <1>9, <1>10, <1>11, <1>12

LEMMA EventAppended ==
  ASSUME NEW e \in Seq(Event), NEW ev \in Event, NEW e2, e2 = Append(e, ev)
  PROVE  /\ Len(e) \in Nat /\ DOMAIN e = 1 .. Len(e) /\ DOMAIN e2 = 1 .. Len(e) + 1
         /\ \A i \in DOMAIN e : e2[i] = e[i] /\ i < Len(e) + 1 /\ i \in DOMAIN e2
         /\ e2[Len(e) + 1] = ev
         /\ \A i \in DOMAIN e2 : i # Len(e) + 1 => i \in DOMAIN e /\ e2[i] = e[i]
<1>1. /\ e2 \in Seq(Event) /\ Len(e2) = Len(e) + 1 /\ e2[Len(e) + 1] = ev
      /\ \A i \in 1 .. Len(e) : e2[i] = e[i]
  <2> HIDE DEF Event
  <2> QED
    BY AppendProperties
<1>2. Len(e) \in Nat /\ DOMAIN e = 1 .. Len(e) /\ DOMAIN e2 = 1 .. Len(e) + 1
  <2> HIDE DEF Event
  <2> QED
    BY <1>1, LenProperties
<1>3. /\ \A i \in 1 .. Len(e) : i < Len(e) + 1 /\ i \in 1 .. Len(e) + 1
      /\ \A i \in 1 .. Len(e) + 1 : i # Len(e) + 1 => i \in 1 .. Len(e)
  BY <1>2
<1> QED
  BY <1>1, <1>2, <1>3

LEMMA AnswersOf ==
  ASSUME NEW e \in Seq(Event)
  PROVE  IsFiniteSet(Answers(e)) /\ Cardinality(Answers(e)) \in Nat
<1>1. Answers(e) \subseteq 1 .. Len(e) /\ Len(e) \in Nat
  <2> HIDE DEF Event
  <2> QED
    BY LenProperties DEF Answers
<1>2. IsFiniteSet(Answers(e))
  <2>1. IsFiniteSet(1 .. Len(e))
    BY <1>1, FS_Interval
  <2> HIDE DEF Event
  <2> QED
    BY <1>1, <2>1, FS_Subset
<1> QED
  BY <1>2, FS_CardinalityType

(* A publish is returned while it is in progress. *)
LEMMA ToldReturn ==
  ASSUME NEW e \in Seq(Event), NEW ev \in Event, NEW e2, e2 = Append(e, ev), ev.type = "return",
         NEW c, NEW d, NEW n, Told(e, c, n), ev.id \in IdsOf(c), ev.id <= n, IdsOf(d) = IdsOf(c)
  PROVE  Told(e2, d, n) /\ Answers(e2) = Answers(e)
<1> DEFINE l == Len(e) + 1
<1>1. /\ l \in DOMAIN e2 /\ e2[l] = ev /\ l \notin DOMAIN e
      /\ \A i \in DOMAIN e : e2[i] = e[i] /\ i \in DOMAIN e2
      /\ \A i \in DOMAIN e2 : i # l => i \in DOMAIN e /\ e2[i] = e[i]
  BY EventAppended
<1> HIDE DEF l, Event
<1>2. \A i \in DOMAIN e2 : e2[i].id <= n
  <2> TAKE i \in DOMAIN e2
  <2> QED
    BY <1>1 DEF Told
<1>3. ASSUME NEW i \in DOMAIN e2, NEW j \in DOMAIN e2, e2[i].id = e2[j].id, e2[j].type # "return"
      PROVE  i = j \/ (e2[i].type = "return" /\ i < j)
  <2>1. j # l /\ j \in DOMAIN e /\ e2[j] = e[j]
    BY <1>1, <1>3
  <2>2. e[j].id \notin IdsOf(c)
    BY <1>3, <2>1 DEF Told
  <2>3. i \in DOMAIN e /\ e2[i] = e[i]
    BY <1>1, <1>3, <2>1, <2>2
  <2> QED
    BY <1>3, <2>1, <2>3 DEF Told
<1>4. ASSUME NEW j \in DOMAIN e2, e2[j].id \in IdsOf(d) PROVE e2[j].type = "return"
  BY <1>1, <1>4 DEF Told
<1>5. Told(e2, d, n)
  BY <1>2, <1>3, <1>4 DEF Told
<1>6. Answers(e2) = Answers(e)
  BY <1>1 DEF Answers
<1> QED
  BY <1>5, <1>6

(* It is answered when it is over. *)
LEMMA ToldAnswer ==
  ASSUME NEW e \in Seq(Event), NEW ev \in Event, NEW e2, e2 = Append(e, ev), ev.type # "return",
         NEW c, NEW d, NEW n, Told(e, c, n), ev.id \in IdsOf(c), ev.id <= n,
         IdsOf(d) = IdsOf(c) \ {ev.id}
  PROVE  Told(e2, d, n) /\ Cardinality(Answers(e2)) = Cardinality(Answers(e)) + 1
<1> DEFINE l == Len(e) + 1
<1>1. /\ l \in DOMAIN e2 /\ e2[l] = ev /\ l \notin DOMAIN e
      /\ \A i \in DOMAIN e : e2[i] = e[i] /\ i \in DOMAIN e2 /\ i < l
      /\ \A i \in DOMAIN e2 : i # l => i \in DOMAIN e /\ e2[i] = e[i]
  BY EventAppended
<1> HIDE DEF l, Event
<1>2. \A i \in DOMAIN e2 : e2[i].id <= n
  <2> TAKE i \in DOMAIN e2
  <2> QED
    BY <1>1 DEF Told
<1>3. ASSUME NEW i \in DOMAIN e2, NEW j \in DOMAIN e2, e2[i].id = e2[j].id, e2[j].type # "return"
      PROVE  i = j \/ (e2[i].type = "return" /\ i < j)
  <2>1. CASE j = l /\ i # l
    <3>1. i \in DOMAIN e /\ e2[i] = e[i] /\ i < l /\ e[i].id \in IdsOf(c)
      BY <1>1, <1>3, <2>1
    <3> QED
      BY <2>1, <3>1 DEF Told
  <2>2. CASE j # l
    <3>1. j \in DOMAIN e /\ e2[j] = e[j]
      BY <1>1, <2>2
    <3>2. e[j].id \notin IdsOf(c)
      BY <1>3, <3>1 DEF Told
    <3>3. i \in DOMAIN e /\ e2[i] = e[i]
      BY <1>1, <1>3, <3>1, <3>2
    <3> QED
      BY <1>3, <3>1, <3>3 DEF Told
  <2> QED
    BY <2>1, <2>2
<1>4. ASSUME NEW j \in DOMAIN e2, e2[j].id \in IdsOf(d) PROVE e2[j].type = "return"
  BY <1>1, <1>4 DEF Told
<1>5. Told(e2, d, n)
  BY <1>2, <1>3, <1>4 DEF Told
<1>6. Answers(e2) = Answers(e) \cup {l} /\ l \notin Answers(e)
  BY <1>1 DEF Answers
<1>7. IsFiniteSet(Answers(e)) /\ Cardinality(Answers(e)) \in Nat
  BY AnswersOf
<1>8. Cardinality(Answers(e2)) = Cardinality(Answers(e)) + 1
  BY <1>6, <1>7, FS_AddElement
<1> QED
  BY <1>5, <1>8

LEMMA TopIsBelow ==
  ASSUME TypeOK, ~Idle, ConfirmInv
  PROVE  LET c == Tail(call)
         IN  /\ Top \in Proper /\ c \in Seq(Proper)
             /\ Ordered(c, published)
             /\ Top.do \in {"confirm", "return"} => Top.id <= published
             /\ Top.do = "return" => Top.id \in IdsOf(c)
             /\ Top.do = "confirm" => Top.id \notin IdsOf(c) /\ (Top.tag # 0 => Top.tag \notin TagsOf(c))
             /\ c # <<>> => /\ c[1].do = "drained" => Top.do = "listener"
                            /\ c[1].do = "listener" => Top.do \in {"confirm", "drained"}
             /\ Top.do = "confirm" => /\ IdsOf(call) = IdsOf(c) \cup {Top.id}
                                      /\ TagsOf(call) = TagsOf(c) \cup ({Top.tag} \ {0})
             /\ Top.do # "confirm" => IdsOf(call) = IdsOf(c) /\ TagsOf(call) = TagsOf(c)
             /\ Draining(call) <=> Top.do = "drained" \/ Draining(c)
<1> DEFINE c == Tail(call)
           f == Top
<1>1. f \in Proper /\ c \in Seq(Proper) /\ call = <<f>> \o c
  BY TopAndTail
<1>2. Ordered(call, published) /\ Topped(call, f, c)
  BY <1>1 DEF ConfirmInv, Topped
<1> HIDE DEF c, f
<1>3. /\ Ordered(c, published)
      /\ f.do \in {"confirm", "return"} => f.id <= published
      /\ f.do = "return" => f.id \in IdsOf(c)
      /\ f.do = "confirm" => f.id \notin IdsOf(c) /\ (f.tag # 0 => f.tag \notin TagsOf(c))
      /\ c # <<>> => /\ c[1].do = "drained" => f.do = "listener"
                     /\ c[1].do = "listener" => f.do \in {"confirm", "drained"}
  BY <1>1, <1>2, BelowTop
<1>4. f.do = "confirm" => IdsOf(call) = IdsOf(c) \cup {f.id}
  BY <1>1, <1>2, PushedSets
<1>5. f.do = "confirm" => TagsOf(call) = TagsOf(c) \cup ({f.tag} \ {0})
  BY <1>1, <1>2, PushedSets
<1>6. f.do # "confirm" => IdsOf(call) = IdsOf(c) /\ TagsOf(call) = TagsOf(c)
  <2>1. f.do # "confirm" => IdsOf(call) = IdsOf(c)
    BY <1>1, <1>2, PushedSets
  <2>2. f.do # "confirm" => TagsOf(call) = TagsOf(c)
    BY <1>1, <1>2, PushedSets
  <2> QED
    BY <2>1, <2>2
<1>7. Draining(call) <=> f.do = "drained" \/ Draining(c)
  BY <1>1, <1>2, PushedSets
<1> QED
  BY <1>1, <1>3, <1>4, <1>5, <1>6, <1>7 DEF c, f

(* The parts of the invariant in the next state. *)
LEMMA ConfirmInvNext ==
  ASSUME Ordered(call', published'), Told(events', call', published'),
         pending' = TagsOf(call'), Cardinality(Answers(events')) + Cardinality(pending') = tagSeq',
         waiters' > 0 => pending' # {} \/ Draining(call')
  PROVE  ConfirmInv'
<1>1. Ordered(call, published)' /\ Told(events, call, published)'
  BY DEF Ordered, Told, IdsOf, Confirming
<1>2. Awaited'
  BY DEF Awaited, TagsOf, Confirming, Answers, Draining
<1> QED
  BY <1>1, <1>2 DEF ConfirmInv

LEMMA ReturnConfirmInv ==
  ASSUME TypeOK, TypeOK', ConfirmInv, ReturnStep
  PROVE  ConfirmInv'
<1> DEFINE c == Tail(call)
           ev == [type |-> "return", id |-> Top.id]
<1>1. ~Idle /\ Top.do = "return" /\ Top \in Proper
  BY TopIsBelow DEF ReturnStep
<1>2. /\ c \in Seq(Proper) /\ Ordered(c, published)
      /\ Top.id <= published /\ Top.id \in IdsOf(c)
      /\ c # <<>> => c[1].do # "drained" /\ c[1].do # "listener"
      /\ IdsOf(call) = IdsOf(c) /\ TagsOf(call) = TagsOf(c)
      /\ Draining(call) <=> Draining(c)
  BY <1>1, TopIsBelow
<1>3. Topped(call', Listener, c) /\ events' = Append(events, ev)
  BY DEF ReturnStep, Topped
<1>4. ev \in Event /\ ev.type = "return" /\ ev.id = Top.id
  <2>1. Top.id \in Ids
    BY <1>1, FrameFields
  <2> QED
    BY <2>1 DEF Event
<1>5. Listener \in Proper /\ Listener.do = "listener"
  BY DEF Listener, Proper, Frame
<1> HIDE DEF c, ev
<1>6. Ordered(call', published)
  BY <1>2, <1>3, <1>5, PushedOrdered
<1>7. /\ IdsOf(call') = IdsOf(call) /\ TagsOf(call') = TagsOf(call)
      /\ Draining(call) => Draining(call')
  BY <1>2, <1>3, <1>5, PushedSets
<1>8. events \in Seq(Event) /\ Told(events, call, published)
  BY Types DEF ConfirmInv
<1>9. Told(events', call', published) /\ Answers(events') = Answers(events)
  <2> DEFINE i == IdsOf(call)
  <2>1. ev.id \in IdsOf(call) /\ ev.id <= published
    BY <1>2, <1>4
  <2> QED
    BY <1>3, <1>4, <1>7, <1>8, <2>1, ToldReturn
<1>10. UNCHANGED <<published, pending, tagSeq, waiters>>
  BY DEF ReturnStep, confirmVars
<1>11. /\ pending' = TagsOf(call')
       /\ Cardinality(Answers(events')) + Cardinality(pending') = tagSeq'
       /\ waiters' > 0 => pending' # {} \/ Draining(call')
  BY <1>7, <1>9, <1>10 DEF ConfirmInv, Awaited
<1> QED
  BY <1>6, <1>9, <1>10, <1>11, ConfirmInvNext

LEMMA DrainedConfirmInv ==
  ASSUME TypeOK, TypeOK', ConfirmInv, DrainedStep
  PROVE  ConfirmInv'
<1> DEFINE c == Tail(call)
<1>1. ~Idle /\ Top.do = "drained" /\ call' = c
  BY DEF DrainedStep, Pop
<1>2. Ordered(c, published) /\ IdsOf(call) = IdsOf(c) /\ TagsOf(call) = TagsOf(c)
  BY <1>1, TopIsBelow
<1> HIDE DEF c
<1>3. /\ UNCHANGED <<published, pending, tagSeq, events>>
      /\ waiters' = IF pending = {} THEN 0 ELSE waiters
  BY DEF DrainedStep, historyVars
<1>4. Told(events', call', published')
  BY <1>1, <1>2, <1>3 DEF ConfirmInv, Told
<1>5. /\ pending' = TagsOf(call')
      /\ Cardinality(Answers(events')) + Cardinality(pending') = tagSeq'
      /\ waiters' > 0 => pending' # {}
  BY <1>1, <1>2, <1>3 DEF ConfirmInv, Awaited
<1> QED
  BY <1>1, <1>2, <1>3, <1>4, <1>5, ConfirmInvNext

LEMMA ConfirmConfirmInv ==
  ASSUME TypeOK, TypeOK', ConfirmInv, ConfirmStep
  PROVE  ConfirmInv'
<1> DEFINE c == Tail(call)
<1>1. ~Idle /\ Top.do = "confirm" /\ Top \in Proper /\ Top.id \in Ids /\ Top.tag \in Nat
  BY TopIsBelow, FrameFields DEF ConfirmStep
<1>2. /\ c \in Seq(Proper) /\ Ordered(c, published) /\ Top.id <= published
      /\ Top.id \notin IdsOf(c) /\ (Top.tag # 0 => Top.tag \notin TagsOf(c))
      /\ c # <<>> => c[1].do # "drained"
      /\ IdsOf(call) = IdsOf(c) \cup {Top.id}
      /\ TagsOf(call) = TagsOf(c) \cup ({Top.tag} \ {0})
      /\ Draining(call) <=> Draining(c)
  BY <1>1, TopIsBelow
<1>3. UNCHANGED <<published, tagSeq, waiters>>
  BY DEF ConfirmStep
<1>4. /\ events \in Seq(Event) /\ Told(events, call, published)
      /\ pending = TagsOf(call) /\ pending \subseteq 1 .. tagSeq /\ tagSeq \in Nat
      /\ Cardinality(Answers(events)) + Cardinality(pending) = tagSeq
      /\ waiters > 0 => pending # {} \/ Draining(call)
  BY Types DEF ConfirmInv, Awaited
<1>5. CASE Top.tag = 0
  <2>1. call' = c /\ UNCHANGED <<pending, events>>
    BY <1>1, <1>5 DEF ConfirmStep, Pop
  <2> HIDE DEF c
  <2>2. Told(events', call', published')
    BY <1>2, <1>3, <1>4, <2>1 DEF Told
  <2>3. TagsOf(call) = TagsOf(c)
    BY <1>2, <1>5
  <2> QED
    BY <1>2, <1>3, <1>4, <2>1, <2>2, <2>3, ConfirmInvNext
<1>6. CASE Top.tag # 0
  <2> DEFINE ev == [type |-> IF Top.ok THEN "ack" ELSE "nack", id |-> Top.id]
             end == [do |-> "drained"]
             d == <<end>> \o c
  <2>1. /\ pending' = pending \ {Top.tag} /\ events' = Append(events, ev)
        /\ call' = <<Listener, end>> \o c
    BY <1>6 DEF ConfirmStep, Unconfirmed
  <2>2. Listener \in Proper /\ Listener.do = "listener" /\ end \in Proper /\ end.do = "drained"
    BY DEF Listener, Proper, Frame
  <2>3. ev \in Event /\ ev.type # "return" /\ ev.id = Top.id
    BY <1>1 DEF Event
  <2> HIDE DEF c, ev, end
  <2>4. <<Listener, end>> \o c = <<Listener>> \o d
    <3>1. <<Listener>> \o <<end>> = <<Listener, end>>
      BY <2>2, TwoFrames
    <3>2. <<Listener>> \in Seq(Proper) /\ <<end>> \in Seq(Proper)
      BY <2>2, OneFrame
    <3> HIDE DEF Proper
    <3>3. (<<Listener>> \o <<end>>) \o c = <<Listener>> \o (<<end>> \o c)
      BY <1>2, <3>2, ConcatAssociative
    <3> QED
      BY <3>1, <3>3
  <2>5. d \in Seq(Proper) /\ Topped(d, end, c)
    BY <1>2, <2>2, FramedOne DEF Topped
  <2>6. Ordered(d, published) /\ d # <<>> /\ d[1].do = "drained"
    <3>1. Ordered(d, published)
      BY <1>2, <2>2, <2>5, PushedOrdered
    <3>2. d[1] = end /\ 1 \in DOMAIN d
      BY <1>2, <2>2, Pushed
    <3> QED
      BY <2>2, <3>1, <3>2
  <2>7. IdsOf(d) = IdsOf(c) /\ TagsOf(d) = TagsOf(c) /\ Draining(d)
    <3>1. end.do # "confirm"
      BY <2>2
    <3> QED
      BY <1>2, <2>2, <2>5, <3>1, PushedSets
  <2> HIDE DEF d
  <2>8. Topped(call', Listener, d)
    BY <2>1, <2>4 DEF Topped
  <2>9. Ordered(call', published)
    BY <2>2, <2>5, <2>6, <2>8, PushedOrdered
  <2>10. IdsOf(call') = IdsOf(d) /\ TagsOf(call') = TagsOf(d) /\ Draining(call')
    <3>1. IdsOf(call') = IdsOf(d) /\ TagsOf(call') = TagsOf(d)
      <4>1. Listener.do # "confirm" /\ Listener \in Proper
        BY <2>2
      <4>2. IdsOf(call') = IdsOf(d)
        BY <2>5, <2>8, <4>1, PushedSets
      <4>3. TagsOf(call') = TagsOf(d)
        BY <2>5, <2>8, <4>1, PushedSets
      <4> QED
        BY <4>2, <4>3
    <3>2. Draining(call')
      BY <2>2, <2>5, <2>7, <2>8, PushedSets
    <3> QED
      BY <3>1, <3>2
  <2>11. IdsOf(call') = IdsOf(call) \ {ev.id} /\ ev.id \in IdsOf(call) /\ ev.id <= published
    BY <1>2, <2>3, <2>7, <2>10
  <2>12. /\ Told(events', call', published)
         /\ Cardinality(Answers(events')) = Cardinality(Answers(events)) + 1
    BY <1>4, <2>1, <2>3, <2>11, ToldAnswer
  <2>13. pending' = TagsOf(call')
    BY <1>2, <1>4, <1>6, <2>1, <2>7, <2>10
  <2>14. Cardinality(pending') = Cardinality(pending) - 1 /\ Cardinality(pending) \in Nat
    <3>1. IsFiniteSet(pending)
      <4>1. IsFiniteSet(1 .. tagSeq)
        BY <1>4, FS_Interval
      <4> QED
        BY <1>4, <4>1, FS_Subset
    <3>2. Top.tag \in pending
      BY <1>2, <1>4, <1>6
    <3> QED
      BY <2>1, <3>1, <3>2, FS_RemoveElement, FS_CardinalityType
  <2>15. Cardinality(Answers(events')) + Cardinality(pending') = tagSeq
    <3>1. Cardinality(Answers(events)) \in Nat
      BY <1>4, AnswersOf
    <3> QED
      BY <1>4, <2>12, <2>14, <3>1
  <2> QED
    BY <1>3, <2>9, <2>10, <2>12, <2>13, <2>15, ConfirmInvNext
<1> QED
  BY <1>5, <1>6

LEMMA OrderedMore ==
  ASSUME NEW c \in Seq(Proper), NEW n \in Nat, Ordered(c, n)
  PROVE  Ordered(c, n + 1)
<1>1. \A i \in DOMAIN c : c[i].do \in {"confirm", "return"} => c[i].id \in Nat /\ c[i].id <= n + 1
  <2> TAKE i \in DOMAIN c
  <2> HAVE c[i].do \in {"confirm", "return"}
  <2>1. c[i] \in Proper
    <3> HIDE DEF Proper
    <3> QED
      BY LenProperties, ElementOfSeq
  <2>2. c[i].id \in Ids /\ c[i].id <= n
    BY <2>1, FrameFields DEF Ordered
  <2>3. MaxPublished \in Nat
    BY PublishingAssumption
  <2> QED
    BY <2>2, <2>3 DEF Ids
<1> QED
  BY <1>1 DEF Ordered

(* A publish puts its confirm frame on the call, and at most one frame of its
   pipeline on that. *)
LEMMA PublishPushes ==
  ASSUME TypeOK, NEW p \in Publications, Publish(p)
  PROVE  \E f \in Proper :
           /\ f.do = "confirm" /\ f.id = published + 1
           /\ f.tag = IF confirmMode THEN tagSeq + 1 ELSE 0
           /\ \/ call' = <<f>> \o call
              \/ \E g \in Proper : /\ call' = <<g>> \o (<<f>> \o call)
                                   /\ \/ g.do = "enqueue"
                                      \/ g.do = "return" /\ g.id = published + 1
<1> DEFINE tag == IF confirmMode THEN tagSeq + 1 ELSE 0
           ok == p.exchange \in exists \ Internal
           targets == Route(p.exchange, {p.key} \cup p.cc \cup p.bcc)
           id == published + 1
           f == [do |-> "confirm", id |-> id, tag |-> tag, ok |-> ok]
           returning == [do |-> "return", id |-> id]
           enqueuing == Enqueue(NewMessage(p), targets, TRUE)
           pipeline == IF ~ok THEN <<>>
                       ELSE IF targets = {} /\ p.mandatory THEN <<returning>>
                       ELSE <<enqueuing>>
<1>1. call' = pipeline \o <<f>> \o call
  BY DEF Publish
<1>2. id \in Ids /\ tag \in Nat /\ ok \in BOOLEAN
  <2>1. published \in 0 .. MaxPublished /\ published < MaxPublished /\ MaxPublished \in Nat /\ tagSeq \in Nat
    BY Types, PublishingAssumption DEF Publish
  <2> QED
    BY <2>1 DEF Ids
<1>3. f \in Proper /\ returning \in Proper
  <2> HIDE DEF id, tag, ok
  <2> QED
    BY <1>2 DEF Proper, Frame
<1>4. enqueuing \in Proper /\ enqueuing.do = "enqueue"
  <2>1. NewMessage(p) \in Message
    <3>1. published \in Nat /\ published < MaxPublished
      BY Types, PublishingAssumption DEF Publish
    <3> QED
      BY <3>1, NewMessageType
  <2>2. targets \subseteq Queues
    BY RouteInQueues
  <2> HIDE DEF targets
  <2> QED
    BY <2>1, <2>2 DEF Enqueue, Proper, Frame
<1>5. call \in Seq(Proper)
  BY Types
<1>6. f.do = "confirm" /\ f.id = published + 1 /\ f.tag = tag
  OBVIOUS
<1>7. returning.do = "return" /\ returning.id = published + 1
  OBVIOUS
<1> HIDE DEF f, returning, enqueuing, ok, targets
<1>8. <<f>> \in Seq(Proper) /\ <<returning>> \in Seq(Proper) /\ <<enqueuing>> \in Seq(Proper)
  BY <1>3, <1>4, OneFrame
<1>9. \A s \in Seq(Proper) : (s \o <<f>>) \o call = s \o (<<f>> \o call)
  <2> HIDE DEF Proper
  <2> QED
    BY <1>5, <1>8, ConcatAssociative
<1>10. <<f>> \o call \in Seq(Proper) /\ <<>> \o (<<f>> \o call) = <<f>> \o call /\ <<>> \in Seq(Proper)
  <2>1. <<f>> \o call \in Seq(Proper)
    BY <1>3, <1>5, FramedOne
  <2> HIDE DEF Proper
  <2> QED
    BY <2>1, ConcatEmptySeq, EmptySeq
<1>11. CASE ~ok
  BY <1>1, <1>3, <1>6, <1>9, <1>10, <1>11
<1>12. CASE ok /\ targets = {} /\ p.mandatory
  <2>1. call' = <<returning>> \o (<<f>> \o call)
    BY <1>1, <1>8, <1>9, <1>12
  <2> QED
    BY <1>3, <1>6, <1>7, <2>1
<1>13. CASE ok /\ ~(targets = {} /\ p.mandatory)
  <2>1. call' = <<enqueuing>> \o (<<f>> \o call)
    BY <1>1, <1>8, <1>9, <1>13
  <2> QED
    BY <1>3, <1>4, <1>6, <2>1
<1> QED
  BY <1>11, <1>12, <1>13

LEMMA PublishConfirmInv ==
  ASSUME TypeOK, TypeOK', ConfirmInv, NEW p \in Publications, Publish(p)
  PROVE  ConfirmInv'
<1>1. PICK f \in Proper :
           /\ f.do = "confirm" /\ f.id = published + 1
           /\ f.tag = IF confirmMode THEN tagSeq + 1 ELSE 0
           /\ \/ call' = <<f>> \o call
              \/ \E g \in Proper : /\ call' = <<g>> \o (<<f>> \o call)
                                   /\ \/ g.do = "enqueue"
                                      \/ g.do = "return" /\ g.id = published + 1
  BY PublishPushes
<1> DEFINE d == <<f>> \o call
           n == published + 1
<1>2. call \in Seq(Proper) /\ published \in Nat /\ tagSeq \in Nat /\ confirmMode \in BOOLEAN
      /\ pending \subseteq 1 .. tagSeq /\ waiters \in Nat /\ events \in Seq(Event)
  BY Types, PublishingAssumption
<1>3. /\ published' = n /\ UNCHANGED <<waiters, events>>
      /\ tagSeq' = IF confirmMode THEN tagSeq + 1 ELSE tagSeq
      /\ pending' = IF confirmMode THEN pending \cup {tagSeq + 1} ELSE pending
      /\ call # <<>> => call[1].do = "listener"
  BY DEF Publish, Calls, Idle, Top
<1>4. /\ Ordered(call, published) /\ Told(events, call, published)
      /\ pending = TagsOf(call)
      /\ Cardinality(Answers(events)) + Cardinality(pending) = tagSeq
      /\ waiters > 0 => pending # {} \/ Draining(call)
  BY DEF ConfirmInv, Awaited
<1>5. Ordered(call, n)
  BY <1>2, <1>4, OrderedMore
<1>6. n \notin IdsOf(call)
  <2>1. \A i \in Confirming(call) : call[i].id <= published
    BY <1>4 DEF Ordered, Confirming
  <2>2. ASSUME n \in IdsOf(call) PROVE FALSE
    <3>1. n <= published
      BY <2>1, <2>2 DEF IdsOf
    <3> QED
      BY <1>2, <3>1
  <2> QED
    BY <2>2
<1>7. f.tag # 0 => f.tag \notin TagsOf(call)
  <2>1. tagSeq + 1 \notin 1 .. tagSeq
    BY <1>2
  <2> QED
    BY <1>1, <1>2, <1>4, <2>1
<1>8. f.id <= n /\ n <= n
  BY <1>1, <1>2
<1> HIDE DEF n
<1>9. f.id = n /\ f.id \notin IdsOf(call) /\ Topped(d, f, call)
  BY <1>1, <1>6 DEF n, Topped
<1>10. Ordered(d, n)
  BY <1>1, <1>2, <1>3, <1>5, <1>7, <1>8, <1>9, PushedOrdered
<1>11. IdsOf(d) = IdsOf(call) \cup {n}
  BY <1>1, <1>2, <1>9, PushedSets
<1>12. TagsOf(d) = TagsOf(call) \cup ({f.tag} \ {0})
  BY <1>1, <1>2, <1>9, PushedSets
<1>13. Draining(call) => Draining(d)
  BY <1>1, <1>2, <1>9, PushedSets
<1>14. d \in Seq(Proper) /\ d # <<>> /\ d[1].do = "confirm"
  <2>1. d \in Seq(Proper) /\ 1 \in DOMAIN d /\ d[1] = f
    BY <1>2, Pushed
  <2> QED
    BY <1>1, <2>1
<1> HIDE DEF d
<1>15. /\ Ordered(call', n) /\ IdsOf(call') = IdsOf(d) /\ TagsOf(call') = TagsOf(d)
       /\ Draining(d) => Draining(call')
  <2>1. CASE call' = d
    BY <1>10, <2>1
  <2>2. ASSUME NEW g \in Proper, call' = <<g>> \o d,
               g.do = "enqueue" \/ (g.do = "return" /\ g.id = n)
        PROVE  /\ Ordered(call', n) /\ IdsOf(call') = IdsOf(d) /\ TagsOf(call') = TagsOf(d)
               /\ Draining(d) => Draining(call')
    <3>1. g.do # "confirm" /\ (g.do = "return" => g.id = n) /\ Topped(call', g, d)
      BY <2>2 DEF Topped
    <3>2. g.do = "return" => g.id \in IdsOf(d) /\ g.id <= n
      BY <1>8, <1>11, <3>1
    <3>3. Ordered(call', n)
      BY <1>10, <1>14, <2>2, <3>1, <3>2, PushedOrdered
    <3>4. IdsOf(call') = IdsOf(d)
      BY <1>14, <2>2, <3>1, PushedSets
    <3>5. TagsOf(call') = TagsOf(d)
      BY <1>14, <2>2, <3>1, PushedSets
    <3>6. Draining(d) => Draining(call')
      BY <1>14, <2>2, <3>1, PushedSets
    <3> QED
      BY <3>3, <3>4, <3>5, <3>6
  <2> QED
    BY <1>1, <2>1, <2>2 DEF d, n
<1>16. Told(events', call', n)
  <2>1. \A i \in DOMAIN events : events[i].id \in Nat /\ events[i].id <= published
    <3>1. \A i \in DOMAIN events : events[i] \in Event
      BY <1>2, LenProperties, ElementOfSeq
    <3>2. \A i \in DOMAIN events : events[i].id \in Nat
      BY <3>1, PublishingAssumption DEF Event, Ids
    <3> QED
      BY <1>4, <3>2 DEF Told
  <2>2. \A i \in DOMAIN events : events[i].id <= n /\ events[i].id # n
    BY <1>2, <2>1 DEF n
  <2> QED
    BY <1>3, <1>4, <1>11, <1>15, <2>2 DEF Told
<1>17. pending' = TagsOf(call')
  <2>1. CASE confirmMode
    BY <1>1, <1>2, <1>3, <1>4, <1>12, <1>15, <2>1
  <2>2. CASE ~confirmMode
    BY <1>1, <1>3, <1>4, <1>12, <1>15, <2>2
  <2> QED
    BY <2>1, <2>2
<1>18. Cardinality(Answers(events')) + Cardinality(pending') = tagSeq'
  <2>1. CASE confirmMode
    <3>1. IsFiniteSet(pending)
      <4>1. IsFiniteSet(1 .. tagSeq)
        BY <1>2, FS_Interval
      <4> QED
        BY <1>2, <4>1, FS_Subset
    <3>2. tagSeq + 1 \notin pending
      BY <1>2
    <3>3. Cardinality(pending') = Cardinality(pending) + 1 /\ Cardinality(pending) \in Nat
      BY <1>3, <2>1, <3>1, <3>2, FS_AddElement, FS_CardinalityType
    <3>4. Cardinality(Answers(events)) \in Nat
      BY <1>2, AnswersOf
    <3> QED
      BY <1>2, <1>3, <1>4, <2>1, <3>3, <3>4
  <2>2. CASE ~confirmMode
    BY <1>3, <1>4, <2>2
  <2> QED
    BY <2>1, <2>2
<1>19. waiters' > 0 => pending' # {} \/ Draining(call')
  BY <1>3, <1>4, <1>13, <1>15
<1> QED
  BY <1>3, <1>15, <1>16, <1>17, <1>18, <1>19, ConfirmInvNext

(* The operations of a client between calls. *)
LEMMA FreshCall ==
  ASSUME TypeOK, Next, ~RunCall, ~\E p \in Publications : Publish(p)
  PROVE  UNCHANGED call \/ (Idle /\ call' \in Seq(Plain))
<1> USE Types
<1>1. \A S \in SUBSET Queues : <<Dispatch(S, TRUE)>> \in Seq(Plain)
  <2> TAKE S \in SUBSET Queues
  <2>1. Dispatch(S, TRUE) \in Plain
    BY DEF Dispatch, Plain, Proper, Frame, Marks
  <2> QED
    BY <2>1, PlainOne
<1>2. ASSUME NEW q \in Queues, Consume(q) PROVE Idle /\ call' \in Seq(Plain)
  BY <1>1, <1>2 DEF Consume
<1>3. ASSUME NEW q \in Queues, Get(q) PROVE Idle /\ call' \in Seq(Plain)
  <2> DEFINE s == <<[do |-> "get", queue |-> q]>>
  <2>1. s \in Seq(Plain)
    <3>1. [do |-> "get", queue |-> q] \in Plain
      BY DEF Plain, Proper, Frame, Marks
    <3> QED
      BY <3>1, PlainOne
  <2>2. Drain(q, s) /\ Idle
    BY <1>3 DEF Get
  <2> HIDE DEF s
  <2>3. s \in Seq(Proper)
    BY <2>1, PlainAreProper
  <2>4. s \o <<>> = s /\ <<>> \in Seq(Proper)
    <3> HIDE DEF Proper
    <3> QED
      BY <2>3, ConcatEmptySeq, EmptySeq
  <2>5. Drain(q, s \o <<>>)
    BY <2>2, <2>4
  <2>6. PICK t \in Seq(Plain) : call' = t \o <<>>
    BY <2>1, <2>4, <2>5, DrainPlain
  <2>7. t \o <<>> = t
    <3> HIDE DEF Plain
    <3> QED
      BY ConcatEmptySeq
  <2> QED
    BY <2>2, <2>6, <2>7
<1>4. ASSUME NEW i \in DOMAIN unacked, NEW multiple \in BOOLEAN, Ack(i, multiple)
      PROVE  Idle /\ call' \in Seq(Plain)
  <2>1. QueuesOf(Covered(i, multiple)) \subseteq Queues
    BY UncoveredType, QueuesOfType
  <2> QED
    BY <1>1, <1>4, <2>1 DEF Ack
<1>5. ASSUME NEW i \in DOMAIN unacked, NEW multiple \in BOOLEAN, Reject(i, multiple)
      PROVE  Idle /\ call' \in Seq(Plain)
  <2> DEFINE s == Covered(i, multiple)
  <2>1. s \in Seq(Delivery) /\ QueuesOf(s) \subseteq Queues
    BY UncoveredType, QueuesOfType
  <2>2. call' = Rejections(s) \o <<Dispatch(QueuesOf(s), TRUE)>> /\ Idle
    BY <1>5 DEF Reject
  <2> HIDE DEF s
  <2>3. Rejections(s) \in Seq(Plain) /\ <<Dispatch(QueuesOf(s), TRUE)>> \in Seq(Plain)
    BY <1>1, <2>1, PlainRejections
  <2> QED
    BY <2>2, <2>3, PlainConcat
<1>6. ASSUME NEW i \in DOMAIN unacked, Requeue(i) PROVE Idle /\ call' \in Seq(Plain)
  <2>1. unacked[i].queue \in Queues
    OBVIOUS
  <2> QED
    BY <1>1, <1>6, <2>1 DEF Requeue
<1>7. ASSUME \/ ConfirmSelect \/ WaitForConfirms
             \/ \E q \in Queues : Cancel(q) \/ \E i \in DOMAIN store[q] : Expire(q, i)
             \/ \E e \in Exchanges : DeleteExchange(e)
             \/ \E i \in DOMAIN unacked : ExpireUnacked(i)
      PROVE  UNCHANGED call
  BY <1>7 DEF ConfirmSelect, WaitForConfirms, Cancel, Expire, DeleteExchange, ExpireUnacked
<1> QED
  BY <1>2, <1>3, <1>4, <1>5, <1>6, <1>7 DEF Next, ClientNext

LEMMA FreshLeaves ==
  ASSUME Next, ~RunCall, ~\E p \in Publications : Publish(p)
  PROVE  UNCHANGED <<tagSeq, pending, published, events>> /\ (waiters' > 0 => waiters' = waiters \/ pending # {})
<1>1. ASSUME NEW q \in Queues, Consume(q) \/ Cancel(q) \/ Get(q) \/ \E i \in DOMAIN store[q] : Expire(q, i)
      PROVE  UNCHANGED <<tagSeq, pending, waiters, published, events>>
  BY <1>1 DEF Consume, Cancel, Get, Expire, confirmVars, historyVars
<1>2. ASSUME NEW i \in DOMAIN unacked, NEW multiple \in BOOLEAN, Ack(i, multiple) \/ Reject(i, multiple)
      PROVE  UNCHANGED <<tagSeq, pending, waiters, published, events>>
  BY <1>2 DEF Ack, Reject, confirmVars, historyVars
<1>3. ASSUME NEW i \in DOMAIN unacked, Requeue(i) \/ ExpireUnacked(i)
      PROVE  UNCHANGED <<tagSeq, pending, waiters, published, events>>
  BY <1>3 DEF Requeue, ExpireUnacked, confirmVars, historyVars
<1>4. ASSUME NEW e \in Exchanges, DeleteExchange(e)
      PROVE  UNCHANGED <<tagSeq, pending, waiters, published, events>>
  BY <1>4 DEF DeleteExchange, confirmVars, historyVars
<1>5. ASSUME ConfirmSelect PROVE UNCHANGED <<tagSeq, pending, waiters, published, events>>
  BY <1>5 DEF ConfirmSelect, historyVars
<1>6. ASSUME WaitForConfirms PROVE UNCHANGED <<tagSeq, pending, published, events>> /\ pending # {}
  BY <1>6 DEF WaitForConfirms, historyVars
<1> QED
  BY <1>1, <1>2, <1>3, <1>4, <1>5, <1>6 DEF Next, ClientNext

LEMMA RunLeaves ==
  ASSUME \/ EnqueueStep \/ EnqueueEnd \/ DispatchStep \/ DispatchEnd
         \/ DeliverStep \/ GetStep \/ TryEnd \/ DeadStep \/ ListenerEnd
  PROVE  ~Idle /\ UNCHANGED <<tagSeq, pending, waiters, published, events>>
BY DEF EnqueueStep, EnqueueEnd, DispatchStep, DispatchEnd, DeliverStep, GetStep, TryEnd, DeadStep,
       ListenerEnd, confirmVars, historyVars

LEMMA ConfirmInvStep ==
  ASSUME TypeOK, TypeOK', ConfirmInv, [Next]_vars
  PROVE  ConfirmInv'
<1>1. CASE UNCHANGED vars
  <2>1. Moved(call, call', 0)
    BY <1>1, SameMoved DEF vars
  <2>2. UNCHANGED <<tagSeq, pending, waiters, published, events>>
    BY <1>1 DEF vars, confirmVars, historyVars
  <2> QED
    BY <2>1, <2>2, MovedConfirmInv
<1>2. ASSUME \/ EnqueueStep \/ EnqueueEnd \/ DispatchStep \/ DispatchEnd
             \/ DeliverStep \/ GetStep \/ TryEnd \/ DeadStep
      PROVE  ConfirmInv'
  <2>1. ~Idle /\ UNCHANGED <<tagSeq, pending, waiters, published, events>>
    BY <1>2, RunLeaves
  <2>2. PlainStep \/ (Top.do = "dead" /\ call' = Thrown)
    BY <1>2, PlainSteps
  <2>3. \E k \in Int : Moved(call, call', k)
    BY <2>1, <2>2, PlainMoved, ThrownMoved
  <2> QED
    BY <2>1, <2>3, MovedConfirmInv
<1>3. ASSUME ListenerEnd PROVE ConfirmInv'
  <2>1. ~Idle /\ Top.do = "listener" /\ call' = Tail(call)
    BY <1>3 DEF ListenerEnd, Pop
  <2>2. UNCHANGED <<tagSeq, pending, waiters, published, events>>
    BY <1>3, RunLeaves
  <2>3. Moved(call, call', 0 - 1) /\ 0 - 1 \in Int
    BY <2>1, ListenerMoved
  <2> QED
    BY <2>2, <2>3, MovedConfirmInv
<1>4. ASSUME RunCall PROVE ConfirmInv'
  BY <1>2, <1>3, <1>4, ReturnConfirmInv, ConfirmConfirmInv, DrainedConfirmInv DEF RunCall
<1>5. ASSUME NEW p \in Publications, Publish(p) PROVE ConfirmInv'
  BY <1>5, PublishConfirmInv
<1>6. CASE Next /\ ~RunCall /\ ~\E p \in Publications : Publish(p)
  <2>1. UNCHANGED <<tagSeq, pending, published, events>> /\ (waiters' > 0 => waiters' = waiters \/ pending # {})
    BY <1>6, FreshLeaves
  <2>2. Moved(call, call', 0)
    BY <1>6, FreshCall, FreshMoved, SameMoved
  <2>3. call \in Seq(Proper) /\ call' \in Seq(Proper)
    <3>1. call' \in Seq(Proper)
      BY ProperCall DEF TypeOK
    <3> QED
      BY <3>1, Types
  <2>4. Ordered(call', published)
    BY <2>2, <2>3, MovedOrdered DEF ConfirmInv
  <2>5. IdsOf(call') = IdsOf(call) /\ TagsOf(call') = TagsOf(call)
    BY <2>2, <2>3, MovedConfirming
  <2>6. Told(events, call', published)
    BY <2>5 DEF ConfirmInv, Told
  <2>7. waiters > 0 => pending # {} \/ Draining(call')
    BY <2>2 DEF ConfirmInv, Awaited, Moved, SameMark, Draining
  <2>8. /\ pending' = TagsOf(call')
        /\ Cardinality(Answers(events')) + Cardinality(pending') = tagSeq'
        /\ waiters' > 0 => pending' # {} \/ Draining(call')
    BY <2>1, <2>5, <2>7 DEF ConfirmInv, Awaited
  <2> QED
    BY <2>1, <2>4, <2>6, <2>8, ConfirmInvNext
<1> QED
  BY <1>1, <1>4, <1>5, <1>6

LEMMA ConfirmInvInit == Init => ConfirmInv
<1> SUFFICES ASSUME Init PROVE ConfirmInv
  OBVIOUS
<1>1. call = <<>> /\ events = <<>> /\ pending = {} /\ waiters = 0 /\ tagSeq = 0 /\ DOMAIN <<>> = {}
  BY DEF Init
<1>2. Confirming(call) = {} /\ Answers(events) = {}
  BY <1>1 DEF Confirming, Answers
<1>3. Ordered(call, published)
  BY <1>1, <1>2 DEF Ordered
<1>4. Told(events, call, published)
  BY <1>1 DEF Told
<1>5. Awaited
  <2>1. TagsOf(call) = {}
    BY <1>2 DEF TagsOf
  <2>2. Cardinality(Answers(events)) = 0 /\ Cardinality(pending) = 0
    BY <1>1, <1>2, FS_EmptySet
  <2>3. Cardinality(Answers(events)) + Cardinality(pending) = tagSeq
    BY <1>1, <2>2
  <2> QED
    BY <1>1, <2>1, <2>3 DEF Awaited
<1> QED
  BY <1>3, <1>4, <1>5 DEF ConfirmInv

LEMMA ConfirmInvComplete ==
  ASSUME TypeOK, ConfirmInv
  PROVE  ConfirmsComplete
<1>1. /\ events \in Seq(Event) /\ Told(events, call, published) /\ Awaited /\ waiters \in Nat
      /\ tagSeq \in Nat
  BY Types DEF ConfirmInv
<1>2. DOMAIN events = 1 .. Len(events) /\ Len(events) \in Nat
  BY <1>1, LenProperties
<1>3. ASSUME NEW id \in Ids PROVE Cardinality(Confirms(id)) <= 1
  <2> DEFINE S == Confirms(id)
  <2>1. \A i, j \in S : i = j
    <3> SUFFICES ASSUME NEW i \in S, NEW j \in S PROVE i = j
      OBVIOUS
    <3>1. i \in DOMAIN events /\ j \in DOMAIN events /\ events[i].id = events[j].id
          /\ events[i].type # "return" /\ events[j].type # "return"
      BY DEF Confirms
    <3> QED
      BY <1>1, <3>1 DEF Told
  <2> HIDE DEF S
  <2>2. ASSUME S = {} PROVE Cardinality(S) <= 1
    <3>1. Cardinality(S) = 0
      BY <2>2, FS_EmptySet
    <3> QED
      BY <3>1
  <2>3. ASSUME S # {} PROVE Cardinality(S) <= 1
    <3>1. PICK i \in S : TRUE
      BY <2>3
    <3>2. S = {i}
      BY <2>1, <3>1
    <3>3. Cardinality(S) = 1
      BY <3>2, FS_Singleton
    <3> QED
      BY <3>3
  <2>4. Cardinality(S) <= 1
    BY <2>2, <2>3
  <2> QED
    BY <2>4 DEF S
<1>4. ASSUME NEW i \in DOMAIN events, events[i].type = "return", NEW j \in Confirms(events[i].id)
      PROVE  i < j
  <2>1. j \in DOMAIN events /\ events[i].id = events[j].id /\ events[j].type # "return"
    BY DEF Confirms
  <2> QED
    BY <1>1, <1>4, <2>1 DEF Told
<1>5. ASSUME Idle
      PROVE  /\ pending = {} /\ waiters = 0
             /\ Cardinality(UNION {Confirms(id) : id \in Ids}) = tagSeq
  <2>1. DOMAIN call = {}
    BY <1>5 DEF Idle
  <2>2. Confirming(call) = {} /\ ~Draining(call)
    BY <2>1 DEF Confirming, Draining
  <2>3. pending = {}
    BY <1>1, <2>2 DEF Awaited, TagsOf
  <2>4. waiters = 0
    BY <1>1, <2>2, <2>3 DEF Awaited
  <2>5. UNION {Confirms(id) : id \in Ids} = Answers(events)
    <3>1. \A i \in DOMAIN events : events[i].id \in Ids
      <4>1. \A i \in DOMAIN events : events[i] \in Event
        BY <1>1, <1>2, ElementOfSeq
      <4> QED
        BY <4>1 DEF Event
    <3>2. ASSUME NEW i \in Answers(events) PROVE i \in UNION {Confirms(id) : id \in Ids}
      <4>1. i \in Confirms(events[i].id) /\ events[i].id \in Ids
        BY <3>1 DEF Answers, Confirms
      <4> QED
        BY <4>1
    <3>3. ASSUME NEW id \in Ids, NEW i \in Confirms(id) PROVE i \in Answers(events)
      BY DEF Answers, Confirms
    <3> QED
      BY <3>2, <3>3
  <2>6. Cardinality(Answers(events)) = tagSeq
    <3>1. Cardinality(Answers(events)) \in Nat
      BY <1>1, AnswersOf
    <3>2. Cardinality(pending) = 0
      BY <2>3, FS_EmptySet
    <3> QED
      BY <1>1, <3>1, <3>2 DEF Awaited
  <2> QED
    BY <2>3, <2>4, <2>5, <2>6
<1> QED
  BY <1>3, <1>4, <1>5 DEF ConfirmsComplete

(* In confirm mode every publish is answered once, after its return if it is
   returned, however listeners nest publishes and waits in it and wherever an
   exception unwinds it to; between calls nothing is pending and nothing waits. *)
THEOREM ConfirmsAreComplete == Spec => []ConfirmsComplete
<1>1. TypeOK /\ ConfirmInv => ConfirmsComplete
  BY ConfirmInvComplete
<1>2. TypeOK /\ TypeOK' /\ ConfirmInv /\ [Next]_vars => ConfirmInv'
  BY ConfirmInvStep
<1> QED
  BY <1>1, <1>2, ConfirmInvInit, PublishingTypes, PTL DEF Spec

-----------------------------------------------------------------------------
(* Consumers are served.  Within a call a message may wait for a consumer as
   long as a frame is still to dispatch its queue to one who is found: the
   publish that stored it, or the dispatch, or the deliveries of that queue. *)
Excused(m) == m.trail # <<>> /\ Last(m.trail).reason # "rejected"

Serves(f) ==
  IF f.do = "enqueue" THEN (IF f.live THEN f.stored ELSE {})
  ELSE IF f.do = "dispatch" THEN (IF f.live THEN f.queues ELSE {})
  ELSE IF f.do = "deliver" THEN (IF f.live THEN {f.queue} ELSE {})
  ELSE {}
Due(c) == UNION {Serves(f) : f \in ToSet(c)}

(* What is published without a channel to dispatch to is excused. *)
Candid(f) ==
  /\ f.do = "enqueue" /\ ~f.live => Excused(f.message)
  /\ f.do = "dead" => f.queue \in DOMAIN DeadLetterExchange /\ (f.live \/ f.reason # "rejected")
AllCandid(c) == \A f \in ToSet(c) : Candid(f)

Served(stored, q, c) == \A m \in ToSet(stored[q]) : Excused(m) \/ q \in Due(c)

ServedInv == AllCandid(call) /\ \A q \in consumed : Served(store, q, call)

(* An exception may end a call before it dispatches what it stored. *)
NoInternalDeadLetters ==
  \A q \in DOMAIN DeadLetterExchange : DeadLetterExchange[q] \notin Internal

LEMMA FramesAssociate ==
  ASSUME NEW s \in Seq(Proper), NEW t \in Seq(Proper), NEW u \in Seq(Proper)
  PROVE  s \o (t \o u) = (s \o t) \o u
<1> DEFINE S == Proper
<1>1. s \in Seq(S) /\ t \in Seq(S) /\ u \in Seq(S)
  OBVIOUS
<1> HIDE DEF S
<1> QED
  BY <1>1, ConcatAssociative, SMTT(60)

LEMMA DueConcat ==
  ASSUME NEW s \in Seq(Proper), NEW t \in Seq(Proper)
  PROVE  /\ Due(s \o t) = Due(s) \cup Due(t)
         /\ AllCandid(s \o t) <=> AllCandid(s) /\ AllCandid(t)
<1>1. ToSet(s \o t) = ToSet(s) \cup ToSet(t)
  <2> HIDE DEF Proper
  <2> QED
    BY ToSetConcat
<1> QED
  BY <1>1 DEF Due, AllCandid

LEMMA DueOne ==
  ASSUME NEW f
  PROVE  /\ Due(<<f>>) = Serves(f) /\ Due(<<>>) = {}
         /\ AllCandid(<<f>>) <=> Candid(f)
         /\ AllCandid(<<>>)
<1>1. ToSet(<<f>>) = {f} /\ ToSet(<<>>) = {}
  BY ToSetOne
<1> QED
  BY <1>1 DEF Due, AllCandid

LEMMA DueTail ==
  ASSUME NEW s \in Seq(Proper), s # <<>>
  PROVE  /\ Due(s) = Serves(s[1]) \cup Due(Tail(s))
         /\ AllCandid(s) <=> Candid(s[1]) /\ AllCandid(Tail(s))
<1>1. ToSet(s) = {s[1]} \cup ToSet(Tail(s))
  <2> HIDE DEF Proper
  <2> QED
    BY ToSetTail
<1> QED
  BY <1>1 DEF Due, AllCandid

LEMMA DeathsCandid ==
  ASSUME NEW s \in Seq(Message), NEW q \in Queues, NEW reason \in Reasons, reason # "rejected",
         NEW live \in BOOLEAN
  PROVE  AllCandid(Deaths(s, q, reason, live))
<1> DEFINE d == Deaths(s, q, reason, live)
<1>1. /\ d \in Seq(Proper)
      /\ ~DeadLetters(q, reason) => d = <<>>
      /\ DeadLetters(q, reason) =>
           /\ Len(d) = Len(s)
           /\ \A i \in 1 .. Len(s) : d[i] = Dead(s[i], q, reason, live)
  BY DeathsAre
<1> HIDE DEF d
<1>2. CASE ~DeadLetters(q, reason)
  BY <1>1, <1>2, DueOne DEF d
<1>3. CASE DeadLetters(q, reason)
  <2>1. ASSUME NEW f \in ToSet(d) PROVE Candid(f)
    <3>1. PICK i \in 1 .. Len(s) : f = d[i]
      <4> HIDE DEF Proper
      <4> QED
        BY <1>1, <1>3, <2>1, ToSetOf
    <3>2. f = Dead(s[i], q, reason, live)
      BY <1>1, <1>3, <3>1
    <3> QED
      BY <1>3, <3>2 DEF Dead, Candid, DeadLetters
  <2> QED
    BY <2>1 DEF d, AllCandid
<1> QED
  BY <1>2, <1>3

LEMMA RejectionsCandid ==
  ASSUME NEW s \in Seq(Delivery)
  PROVE  AllCandid(Rejections(s))
<1> DEFINE r == Rejections(s)
           t == Doomed(s)
<1>1. /\ t \in Seq(Delivery) /\ ToSet(t) = {d \in ToSet(s) : DeadLetters(d.queue, "rejected")}
      /\ r \in Seq(Proper) /\ Len(r) = Len(t)
      /\ \A i \in 1 .. Len(t) : r[i] = Dead(t[i].message, t[i].queue, "rejected", TRUE)
  BY RejectionsAre
<1> HIDE DEF r, t
<1>2. ASSUME NEW f \in ToSet(r) PROVE Candid(f)
  <2>1. PICK i \in 1 .. Len(t) : f = r[i]
    <3> HIDE DEF Proper
    <3> QED
      BY <1>1, <1>2, ToSetOf
  <2>2. f = Dead(t[i].message, t[i].queue, "rejected", TRUE)
    BY <1>1, <2>1
  <2>3. t[i] \in ToSet(t)
    <3> HIDE DEF Delivery
    <3> QED
      BY <1>1, <2>1, ToSetOf
  <2>4. DeadLetters(t[i].queue, "rejected")
    BY <1>1, <2>3
  <2> QED
    BY <2>2, <2>4 DEF Dead, Candid, DeadLetters
<1> QED
  BY <1>2 DEF r, AllCandid

(* Frames s take the place of those above c; a message that now waits in a
   queue is excused, or served by s, or waited before for frames of c. *)
LEMMA ServedNext ==
  ASSUME ServedInv, NEW s \in Seq(Proper), NEW c \in Seq(Proper), NEW D,
         Due(call) \subseteq D \cup Due(c), AllCandid(c),
         AllCandid(s), call' = s \o c, consumed' \subseteq consumed,
         \A q \in consumed' : \A m \in ToSet(store'[q]) :
           \/ Excused(m) \/ q \in Due(s)
           \/ m \in ToSet(store[q]) /\ q \notin D
  PROVE  ServedInv'
<1>1. Due(call') = Due(s) \cup Due(c) /\ AllCandid(call')
  BY DueConcat
<1>2. ASSUME NEW q \in consumed', NEW m \in ToSet(store'[q]), ~Excused(m)
      PROVE  q \in Due(call')
  BY <1>1, <1>2 DEF ServedInv, Served
<1> QED
  BY <1>1, <1>2 DEF ServedInv, Served

(* What the top frame served is served by the frames that take its place. *)
LEMMA ServedAfter ==
  ASSUME TypeOK, ServedInv, ~Idle, NEW s \in Seq(Proper), AllCandid(s),
         call' = s \o Tail(call), UNCHANGED consumed,
         \A q \in consumed : \A m \in ToSet(store'[q]) :
           \/ Excused(m) \/ q \in Due(s)
           \/ m \in ToSet(store[q]) /\ q \notin Serves(Top)
  PROVE  ServedInv'
<1>1. call \in Seq(Proper) /\ Tail(call) \in Seq(Proper) /\ call # <<>>
  BY Types DEF Idle
<1>2. /\ Due(call) = Serves(Top) \cup Due(Tail(call)) /\ AllCandid(Tail(call))
  BY <1>1, DueTail DEF Top, ServedInv
<1> QED
  BY <1>1, <1>2, ServedNext

LEMMA ServedPop ==
  ASSUME TypeOK, ServedInv, ~Idle, Pop, UNCHANGED consumed,
         \A q \in consumed : \A m \in ToSet(store'[q]) : m \in ToSet(store[q]) /\ q \notin Serves(Top)
  PROVE  ServedInv'
<1> DEFINE s == <<>>
<1>1. Tail(call) \in Seq(Proper)
  BY Types
<1>2. s \in Seq(Proper) /\ AllCandid(s) /\ call' = s \o Tail(call)
  <2>1. AllCandid(s)
    BY DueOne
  <2>2. s \in Seq(Proper) /\ s \o Tail(call) = Tail(call)
    <3> HIDE DEF Proper
    <3> QED
      BY <1>1, EmptySeq, ConcatEmptySeq
  <2> QED
    BY <2>1, <2>2 DEF Pop
<1> HIDE DEF s
<1> QED
  BY <1>2, ServedAfter

LEMMA StampedExcused ==
  ASSUME NEW q, NEW m \in Message, Excused(m)
  PROVE  Excused(Stamped(q, m))
<1>1. Stamped(q, m).trail = m.trail
  BY DEF Stamped, Message
<1> QED
  BY <1>1 DEF Excused

LEMMA PreparedExcused ==
  ASSUME NEW m \in Message, NEW q \in Queues, NEW reason \in Reasons, reason # "rejected"
  PROVE  Excused(PrepareDeadLetter(m, q, reason))
<1> DEFINE d == [queue |-> q, reason |-> reason]
           t == Append(m.trail, d)
<1>1. PrepareDeadLetter(m, q, reason).trail = t
  BY DEF PrepareDeadLetter, Message
<1>2. m.trail \in Seq(Death) /\ d \in Death /\ d.reason = reason
  BY DEF Message, Death
<1> HIDE DEF d
<1>3. t # <<>> /\ Last(t) = d
  <2> HIDE DEF Death
  <2>1. t \in Seq(Death) /\ Len(t) = Len(m.trail) + 1 /\ t[Len(t)] = d /\ Len(m.trail) \in Nat
    BY <1>2, AppendProperties, LenProperties
  <2> HIDE DEF t
  <2>2. t # <<>>
    BY <2>1, EmptySeq
  <2> QED
    BY <2>1, <2>2 DEF Last
<1> HIDE DEF t
<1> QED
  BY <1>1, <1>2, <1>3 DEF Excused

LEMMA DrainLeaves ==
  ASSUME TypeOK, NEW q \in Queues, NEW rest \in Seq(Proper), Drain(q, rest)
  PROVE  /\ \A p \in Queues : ToSet(store'[p]) \subseteq ToSet(store[p])
         /\ \E d \in Seq(Proper) : AllCandid(d) /\ call' = d \o rest
<1> DEFINE left == Only(store[q], ToSet(store[q]) \ Drained(q))
           gone == Only(store[q], Drained(q))
           d == Deaths(gone, q, "expired", FALSE)
<1>1. /\ left \in Seq(Message) /\ ToSet(left) \subseteq ToSet(store[q])
      /\ gone \in Seq(Message)
  <2>1. store[q] \in Seq(Message)
    BY Types
  <2> QED
    BY <2>1, OnlyHas
<1>2. store' = [store EXCEPT ![q] = left] /\ call' = d \o rest
  BY DEF Drain
<1> HIDE DEF left, gone
<1>3. d \in Seq(Proper) /\ AllCandid(d)
  BY <1>1, DeathsAre, DeathsCandid DEF Reasons
<1>4. \A p \in Queues : store'[p] = IF p = q THEN left ELSE store[p]
  BY <1>2, Types
<1> QED
  BY <1>1, <1>2, <1>3, <1>4

LEMMA TakeLeaves ==
  ASSUME TypeOK, NEW q \in Queues, NEW n \in 0 .. Len(store[q]), Take(q, n)
  PROVE  /\ \A p \in Queues : ToSet(store'[p]) \subseteq ToSet(store[p])
         /\ n = Len(store[q]) => ToSet(store'[q]) = {}
<1> DEFINE left == SubSeq(store[q], n + 1, Len(store[q]))
<1>1. store[q] \in Seq(Message) /\ Len(store[q]) \in Nat
  BY Types
<1>2. n + 1 \in 1 .. Len(store[q]) + 1 /\ Len(store[q]) \in 0 .. Len(store[q])
      /\ n + 1 <= Len(store[q]) + 1
  BY <1>1
<1>3. left \in Seq(Message) /\ ToSet(left) \subseteq ToSet(store[q]) /\ Len(left) = Len(store[q]) - n
  <2> HIDE DEF Message
  <2> QED
    BY <1>1, <1>2, ToSetPiece, Piece
<1>4. store' = [store EXCEPT ![q] = left]
  BY DEF Take
<1> HIDE DEF left
<1>5. \A p \in Queues : store'[p] = IF p = q THEN left ELSE store[p]
  BY <1>4, Types
<1>6. n = Len(store[q]) => ToSet(left) = {}
  <2> SUFFICES ASSUME n = Len(store[q]) PROVE ToSet(left) = {}
    OBVIOUS
  <2>1. 1 .. Len(left) = {}
    BY <1>1, <1>3
  <2> HIDE DEF Message
  <2> QED
    BY <1>3, <2>1, ToSetOf
<1> QED
  BY <1>3, <1>5, <1>6

LEMMA AcceptServed ==
  ASSUME TypeOK, NEW frame \in Proper, frame.do = "enqueue", Candid(frame),
         NEW q \in Queues, ~Refuses(q), NEW rest \in Seq(Proper), rest # <<>>,
         Head(rest).do = "enqueue", q \notin Head(rest).todo, Head(rest).message = frame.message,
         Head(rest).live = frame.live, Head(rest).stored = frame.stored, Accept(frame, q, rest)
  PROVE  \E s \in Seq(Proper) :
           /\ AllCandid(s) /\ call' = s \o Tail(rest)
           /\ Serves(frame) \subseteq Due(s)
           /\ \A p \in Queues : \A m \in ToSet(store'[p]) :
                Excused(m) \/ p \in Due(s) \/ m \in ToSet(store[p])
<1> DEFINE x == Stamped(q, frame.message)
           s == Enqueued(q, x)
           n == Excess(q, s)
           first == SubSeq(s, 1, n)
           last == SubSeq(s, n + 1, Len(s))
           took == [Head(rest) EXCEPT !.stored = @ \cup {q}]
           deaths == Deaths(first, q, "maxlen", frame.live)
           c == Tail(rest)
<1>1. frame.message \in Message /\ frame.live \in BOOLEAN /\ x \in Message
  BY FrameFields, StampedType
<1>2. /\ s \in Seq(Message) /\ Len(s) \in Nat /\ n \in 0 .. Len(s)
      /\ ToSet(s) \subseteq ToSet(store[q]) \cup {x}
  <2>1. PICK i \in 1 .. Len(store[q]) + 1 : s = InsertAt(store[q], i, x)
    BY <1>1, EnqueuedAt
  <2>2. s \in Seq(Message) /\ n \in 0 .. Len(s)
    BY <1>1, AcceptKeepsLimit
  <2>3. store[q] \in Seq(Message)
    BY Types
  <2>4. ToSet(s) \subseteq ToSet(store[q]) \cup {x}
    BY <1>1, <2>1, <2>3, ToSetInserted
  <2> QED
    BY <2>2, <2>4, LenProperties
<1>3. ~frame.live => Excused(x)
  BY <1>1, StampedExcused DEF Candid
<1> HIDE DEF x, s, n
<1>4. /\ first \in Seq(Message)
      /\ last \in Seq(Message) /\ ToSet(last) \subseteq ToSet(s)
  <2>1. 1 \in 1 .. Len(s) + 1 /\ n + 1 \in 1 .. Len(s) + 1 /\ Len(s) \in 0 .. Len(s)
        /\ 1 <= n + 1 /\ n + 1 <= Len(s) + 1
    BY <1>2
  <2> QED
    BY <1>2, <2>1, ToSetPiece
<1>5. /\ took \in Proper /\ c \in Seq(Proper) /\ Candid(took)
      /\ Serves(took) = IF frame.live THEN frame.stored \cup {q} ELSE {}
  <2>1. Head(rest) \in Proper /\ c \in Seq(Proper)
    <3> HIDE DEF Proper
    <3> QED
      BY HeadTailProperties
  <2>2. \A f \in Proper : f.do = "enqueue" /\ q \notin f.todo =>
          /\ [f EXCEPT !.stored = @ \cup {q}] \in Proper
          /\ [f EXCEPT !.stored = @ \cup {q}].do = "enqueue"
          /\ [f EXCEPT !.stored = @ \cup {q}].message = f.message
          /\ [f EXCEPT !.stored = @ \cup {q}].live = f.live
          /\ [f EXCEPT !.stored = @ \cup {q}].stored = f.stored \cup {q}
    BY DEF Proper, Frame
  <2>3. /\ took \in Proper /\ took.do = "enqueue" /\ took.message = frame.message
        /\ took.live = frame.live /\ took.stored = frame.stored \cup {q}
    BY <2>1, <2>2
  <2> HIDE DEF took
  <2> QED
    BY <2>1, <2>3 DEF Candid, Serves
<1>6. deaths \in Seq(Proper) /\ AllCandid(deaths)
  BY <1>1, <1>4, DeathsAre, DeathsCandid DEF Reasons
<1>7. store' = [store EXCEPT ![q] = last] /\ call' = deaths \o <<took>> \o c
  BY DEF Accept, s, n, x
<1> HIDE DEF first, last, took, deaths, c
<1> DEFINE o == <<took>>
           u == deaths \o o
<1>8. o \in Seq(Proper) /\ Due(o) = Serves(took) /\ AllCandid(o)
  BY <1>5, OneFrame, DueOne
<1>9. call' = u \o c
  BY <1>7
<1> HIDE DEF o
<1>10. u \in Seq(Proper) /\ AllCandid(u) /\ Serves(took) \subseteq Due(u)
  BY <1>6, <1>8, Framed, DueConcat
<1> HIDE DEF u
<1>11. \A p \in Queues : store'[p] = IF p = q THEN last ELSE store[p]
  BY <1>7, Types
<1>12. Serves(frame) \subseteq Due(u)
  BY <1>5, <1>10 DEF Serves
<1>13. ASSUME NEW p \in Queues, NEW m \in ToSet(store'[p])
       PROVE  Excused(m) \/ p \in Due(u) \/ m \in ToSet(store[p])
  BY <1>1, <1>2, <1>3, <1>4, <1>5, <1>10, <1>11, <1>13
<1> QED
  BY <1>9, <1>10, <1>12, <1>13 DEF c

LEMMA EnqueueStepServed ==
  ASSUME TypeOK, ServedInv, EnqueueStep
  PROVE  ServedInv'
<1> USE Types
<1>1. /\ ~Idle /\ Top \in Proper /\ Top.do = "enqueue" /\ call \in Seq(Proper) /\ call # <<>>
      /\ UNCHANGED consumed
  BY DEF EnqueueStep, Idle
<1>2. PICK q \in Top.todo :
        LET rest == [call EXCEPT ![1].todo = @ \ {q}]
        IN  \/ Refuses(q) /\ Refuse(Top, q, rest)
            \/ ~Refuses(q) /\ Accept(Top, q, rest)
  BY DEF EnqueueStep
<1> DEFINE f == [Top EXCEPT !.todo = @ \ {q}]
           rest == [call EXCEPT ![1] = f]
<1>3. /\ f \in Proper /\ q \in Queues /\ f.do = "enqueue" /\ q \notin f.todo
      /\ f.message = Top.message /\ f.live = Top.live /\ f.stored = Top.stored
  BY <1>1, FrameFields DEF Proper, Frame
<1> HIDE DEF f
<1>4. rest \in Seq(Proper) /\ Head(rest) = f /\ rest # <<>> /\ Tail(rest) = Tail(call) /\ rest[1] = f
  <2>1. rest \in Seq(Proper) /\ Head(rest) = f /\ Tail(rest) = Tail(call)
    BY <1>1, <1>3, ExceptFirst
  <2>2. 1 \in DOMAIN rest /\ rest[1] = f
    BY <1>1
  <2>3. DOMAIN <<>> = {}
    OBVIOUS
  <2> HIDE DEF rest
  <2> QED
    BY <2>1, <2>2, <2>3
<1>5. \/ Refuses(q) /\ Refuse(Top, q, rest)
      \/ ~Refuses(q) /\ Accept(Top, q, rest)
  BY <1>1, <1>2, Zenon DEF f, Top
<1> HIDE DEF rest
<1>6. Candid(Top) /\ Candid(f) /\ Serves(f) = Serves(Top)
  <2>1. Candid(Top)
    BY <1>1, DueTail DEF ServedInv, Top
  <2> QED
    BY <1>1, <1>3, <2>1 DEF Candid, Serves
<1>7. CASE Refuse(Top, q, rest)
  <2> DEFINE one == <<Top.message>>
             deaths == IF Overflow[q] = "reject-publish-dlx"
                       THEN Deaths(one, q, "maxlen", Top.live) ELSE <<>>
             o == <<f>>
             c == Tail(rest)
  <2>1. Top.message \in Message /\ Top.live \in BOOLEAN
    BY <1>1, FrameFields
  <2>2. one \in Seq(Message)
    BY <2>1
  <2> HIDE DEF one
  <2>3. deaths \in Seq(Proper) /\ AllCandid(deaths)
    <3>1. /\ Deaths(one, q, "maxlen", Top.live) \in Seq(Proper)
          /\ AllCandid(Deaths(one, q, "maxlen", Top.live))
      BY <1>3, <2>1, <2>2, DeathsAre, DeathsCandid DEF Reasons
    <3>2. <<>> \in Seq(Proper) /\ AllCandid(<<>>)
      <4>1. AllCandid(<<>>)
        BY DueOne
      <4> HIDE DEF Proper
      <4> QED
        BY <4>1, EmptySeq
    <3> QED
      BY <3>1, <3>2
  <2>4. call' = deaths \o rest /\ store' = store
    BY <1>7 DEF Refuse, one
  <2> HIDE DEF deaths
  <2>5. o \in Seq(Proper) /\ Due(o) = Serves(Top) /\ AllCandid(o) /\ c \in Seq(Proper) /\ c = Tail(call)
    BY <1>1, <1>3, <1>4, <1>6, OneFrame, DueOne
  <2>6. rest = o \o c
    BY <1>1, <1>3, <2>5, TopReplaced DEF rest, o
  <2> HIDE DEF o, c
  <2>7. deaths \o o \in Seq(Proper) /\ AllCandid(deaths \o o) /\ Serves(Top) \subseteq Due(deaths \o o)
    BY <2>3, <2>5, Framed, DueConcat
  <2>8. call' = (deaths \o o) \o Tail(call)
    <3>1. deaths \o (o \o c) = (deaths \o o) \o c
      BY <2>3, <2>5, FramesAssociate
    <3> QED
      BY <2>4, <2>5, <2>6, <3>1
  <2>9. ASSUME NEW p \in consumed, NEW m \in ToSet(store'[p])
        PROVE  p \in Due(deaths \o o) \/ (m \in ToSet(store[p]) /\ p \notin Serves(Top))
    BY <2>4, <2>7, <2>9
  <2> QED
    BY <1>1, <2>7, <2>8, <2>9, ServedAfter
<1>8. CASE ~Refuses(q) /\ Accept(Top, q, rest)
  <2>1. PICK s \in Seq(Proper) :
           /\ AllCandid(s) /\ call' = s \o Tail(rest)
           /\ Serves(Top) \subseteq Due(s)
           /\ \A p \in Queues : \A m \in ToSet(store'[p]) :
                Excused(m) \/ p \in Due(s) \/ m \in ToSet(store[p])
    <3>1. /\ Top \in Proper /\ Top.do = "enqueue" /\ Candid(Top) /\ q \in Queues /\ ~Refuses(q)
          /\ rest \in Seq(Proper) /\ rest # <<>> /\ Head(rest).do = "enqueue"
          /\ q \notin Head(rest).todo /\ Head(rest).message = Top.message
          /\ Head(rest).live = Top.live /\ Head(rest).stored = Top.stored /\ Accept(Top, q, rest)
      BY <1>1, <1>3, <1>4, <1>6, <1>8
    <3> QED
      BY <3>1, AcceptServed
  <2>2. ASSUME NEW p \in consumed, NEW m \in ToSet(store'[p])
        PROVE  Excused(m) \/ p \in Due(s) \/ (m \in ToSet(store[p]) /\ p \notin Serves(Top))
    BY <2>1
  <2> QED
    BY <1>1, <1>4, <2>1, <2>2, ServedAfter
<1> QED
  BY <1>5, <1>7, <1>8

LEMMA DispatchStepServed ==
  ASSUME TypeOK, ServedInv, DispatchStep
  PROVE  ServedInv'
<1> USE Types
<1>1. /\ ~Idle /\ Top \in Proper /\ Top.do = "dispatch" /\ call \in Seq(Proper) /\ call # <<>>
      /\ UNCHANGED consumed
  BY DEF DispatchStep, Idle
<1> DEFINE deliver(q) == [do |-> "deliver", queue |-> q, live |-> Top.live]
           f(q) == [Top EXCEPT !.queues = @ \ {q}]
           rest(q) == [call EXCEPT ![1] = f(q)]
<1>2. PICK q \in Top.queues : Drain(q, <<deliver(q)>> \o rest(q))
  BY DEF DispatchStep, Top
<1>3. /\ f(q) \in Proper /\ q \in Queues /\ deliver(q) \in Proper /\ Candid(f(q)) /\ Candid(deliver(q))
      /\ Serves(Top) = Serves(f(q)) \cup Serves(deliver(q))
  <2>1. /\ f(q) \in Proper /\ q \in Queues /\ deliver(q) \in Proper
        /\ f(q).do = "dispatch" /\ f(q).live = Top.live /\ f(q).queues = Top.queues \ {q}
        /\ deliver(q).do = "deliver" /\ deliver(q).live = Top.live /\ deliver(q).queue = q
    BY <1>1, FrameFields DEF Proper, Frame
  <2> HIDE DEF f, deliver
  <2> QED
    BY <1>1, <2>1 DEF Candid, Serves
<1> HIDE DEF f, deliver
<1>4. /\ rest(q) \in Seq(Proper) /\ Tail(rest(q)) = Tail(call) /\ Head(rest(q)) = f(q) /\ rest(q) # <<>>
  <2>1. rest(q) \in Seq(Proper) /\ Tail(rest(q)) = Tail(call) /\ Head(rest(q)) = f(q)
    BY <1>1, <1>3, ExceptFirst
  <2>2. 1 \in DOMAIN rest(q)
    BY <1>1
  <2>3. DOMAIN <<>> = {}
    OBVIOUS
  <2> HIDE DEF rest
  <2> QED
    BY <2>1, <2>2, <2>3
<1> DEFINE o == <<deliver(q)>>
           g == <<f(q)>>
           r == rest(q)
           c == Tail(call)
<1>5. /\ o \in Seq(Proper) /\ Due(o) = Serves(deliver(q)) /\ AllCandid(o)
      /\ g \in Seq(Proper) /\ Due(g) = Serves(f(q)) /\ AllCandid(g)
  BY <1>3, OneFrame, DueOne
<1>6. r = g \o c /\ c \in Seq(Proper)
  <2>1. c \in Seq(Proper)
    BY <1>1
  <2> QED
    BY <1>1, <1>3, <2>1, TopReplaced DEF g, rest
<1>7. Drain(q, o \o r)
  BY <1>2
<1> HIDE DEF o, g, r, rest
<1>8. o \o r \in Seq(Proper)
  BY <1>4, <1>5, Framed DEF r
<1>9. PICK d \in Seq(Proper) : AllCandid(d) /\ call' = d \o (o \o r)
  BY <1>3, <1>7, <1>8, DrainLeaves
<1>10. \A p \in Queues : ToSet(store'[p]) \subseteq ToSet(store[p])
  BY <1>3, <1>7, <1>8, DrainLeaves
<1> DEFINE s == d \o (o \o g)
<1>11. s \in Seq(Proper) /\ AllCandid(s) /\ Serves(Top) \subseteq Due(s)
  <2>1. o \o g \in Seq(Proper) /\ AllCandid(o \o g) /\ Due(o \o g) = Due(o) \cup Due(g)
    BY <1>5, Framed, DueConcat
  <2> DEFINE h == o \o g
  <2> HIDE DEF h
  <2>2. h \in Seq(Proper) /\ AllCandid(h) /\ Due(h) = Serves(Top)
    BY <1>3, <1>5, <2>1 DEF h
  <2>3. d \o h \in Seq(Proper) /\ AllCandid(d \o h) /\ Serves(Top) \subseteq Due(d \o h)
    BY <1>9, <2>2, Framed, DueConcat
  <2> QED
    BY <2>3 DEF h
<1>12. call' = s \o c
  <2> DEFINE h == o \o g
  <2>1. o \o (g \o c) = h \o c
    BY <1>5, <1>6, FramesAssociate, SMTT(40)
  <2>2. h \in Seq(Proper)
    BY <1>5, Framed
  <2>3. s = d \o h
    OBVIOUS
  <2> HIDE DEF h, s
  <2>4. d \o (h \o c) = (d \o h) \o c
    BY <1>6, <1>9, <2>2, FramesAssociate
  <2> QED
    BY <1>6, <1>9, <2>1, <2>3, <2>4
<1> HIDE DEF s
<1>13. ASSUME NEW p \in consumed, NEW m \in ToSet(store'[p])
       PROVE  p \in Due(s) \/ (m \in ToSet(store[p]) /\ p \notin Serves(Top))
  BY <1>10, <1>11, <1>13
<1> QED
  BY <1>1, <1>11, <1>12, <1>13, ServedAfter DEF c

LEMMA DeadStepServed ==
  ASSUME NoInternalDeadLetters, TypeOK, ServedInv, DeadStep
  PROVE  ServedInv'
<1> USE Types
<1>1. /\ ~Idle /\ Top \in Proper /\ Tail(call) \in Seq(Proper) /\ Top.do = "dead"
      /\ Top.message \in Message /\ Top.queue \in Queues /\ Top.reason \in Reasons
      /\ Top.live \in BOOLEAN /\ UNCHANGED <<store, consumed>>
  BY FrameFields DEF DeadStep, brokerVars
<1>2. Top.queue \in DOMAIN DeadLetterExchange /\ (Top.live \/ Top.reason # "rejected")
  <2>1. call \in Seq(Proper) /\ call # <<>>
    BY <1>1 DEF Idle
  <2>2. Candid(Top)
    BY <2>1, DueTail DEF ServedInv, Top
  <2> QED
    BY <1>1, <2>2 DEF Candid
<1>3. Serves(Top) = {}
  BY <1>1 DEF Serves
<1> DEFINE again == PrepareDeadLetter(Top.message, Top.queue, Top.reason)
           targets == Route(DeadLetterExchange[Top.queue], {again.key} \cup again.cc)
           publish == Enqueue(again, targets, Top.live)
           try == [do |-> "try"]
<1>4. \/ call' = Tail(call)
      \/ call' \in {<<publish, try>> \o Tail(call), <<publish>> \o Tail(call)}
  <2>1. DeadLetterExchange[Top.queue] \notin Internal
    BY <1>2 DEF NoInternalDeadLetters
  <2> QED
    BY <2>1 DEF DeadStep, Pop
<1>5. publish \in Proper /\ try \in Proper /\ Candid(publish) /\ Candid(try)
  <2>1. again \in Message /\ (~Top.live => Excused(again))
    BY <1>1, <1>2, PreparedType, PreparedExcused
  <2>2. targets \subseteq Queues
    BY RouteInQueues
  <2> HIDE DEF again, targets
  <2>3. publish \in Proper /\ try \in Proper
    BY <1>1, <2>1, <2>2 DEF Enqueue, Proper, Frame
  <2>4. publish.do = "enqueue" /\ publish.message = again /\ publish.live = Top.live /\ try.do = "try"
    BY DEF Enqueue
  <2> HIDE DEF publish, try
  <2> QED
    BY <2>1, <2>3, <2>4 DEF Candid
<1> HIDE DEF publish, try
<1>6. CASE call' = Tail(call)
  BY <1>1, <1>3, <1>6, ServedPop DEF Pop
<1> DEFINE P == <<publish>>
           T == <<try>>
<1>7. P \in Seq(Proper) /\ T \in Seq(Proper) /\ AllCandid(P) /\ AllCandid(T)
  BY <1>5, OneFrame, DueOne
<1>8. P \o T = <<publish, try>>
  BY TwoFrames
<1>9. CASE call' = P \o Tail(call)
  <2> HIDE DEF P
  <2> QED
    BY <1>1, <1>3, <1>7, <1>9, ServedAfter
<1>10. CASE call' = <<publish, try>> \o Tail(call)
  <2> DEFINE s == P \o T
  <2> HIDE DEF P, T
  <2>1. s \in Seq(Proper) /\ AllCandid(s)
    BY <1>7, Framed, DueConcat
  <2>2. call' = s \o Tail(call)
    BY <1>8, <1>10
  <2> HIDE DEF s
  <2> QED
    BY <1>1, <1>3, <2>1, <2>2, ServedAfter
<1> QED
  BY <1>4, <1>6, <1>9, <1>10

LEMMA RunCallServed ==
  ASSUME NoInternalDeadLetters, TypeOK, ServedInv, RunCall
  PROVE  ServedInv'
<1> USE Types
<1>1. CASE EnqueueStep
  BY <1>1, EnqueueStepServed
<1>2. CASE DispatchStep
  BY <1>2, DispatchStepServed
<1>3. CASE DeadStep
  BY <1>3, DeadStepServed
<1>4. CASE EnqueueEnd
  <2> DEFINE f == Dispatch(Top.stored, Top.live)
             s == <<f>>
  <2>1. /\ ~Idle /\ Top \in Proper /\ Top.do = "enqueue" /\ call' = s \o Tail(call)
        /\ UNCHANGED <<store, consumed>>
    BY <1>4 DEF EnqueueEnd, brokerVars
  <2>2. f \in Proper /\ Candid(f) /\ Serves(f) = Serves(Top)
    <3>1. f \in Proper /\ f.do = "dispatch" /\ f.queues = Top.stored /\ f.live = Top.live
      BY <2>1, FrameFields DEF Dispatch, Proper, Frame
    <3> HIDE DEF f
    <3> QED
      BY <2>1, <3>1 DEF Candid, Serves
  <2> HIDE DEF f
  <2>3. s \in Seq(Proper) /\ AllCandid(s) /\ Due(s) = Serves(Top)
    BY <2>2, OneFrame, DueOne
  <2> HIDE DEF s
  <2> QED
    BY <2>1, <2>3, ServedAfter
<1>5. CASE DispatchEnd \/ TryEnd \/ ListenerEnd \/ DrainedStep
  <2>1. ~Idle /\ Pop /\ UNCHANGED <<store, consumed>> /\ Serves(Top) = {}
    BY <1>5 DEF DispatchEnd, TryEnd, ListenerEnd, DrainedStep, brokerVars, Serves
  <2> QED
    BY <2>1, ServedPop
<1>6. CASE GetStep
  <2>1. ~Idle /\ Pop /\ UNCHANGED consumed /\ Top.do = "get" /\ Top.queue \in Queues
    BY <1>6, FrameFields DEF GetStep
  <2>2. \A p \in Queues : ToSet(store'[p]) \subseteq ToSet(store[p])
    <3>1. PICK n \in 0 .. Len(store[Top.queue]) : Take(Top.queue, n)
      BY <1>6, <2>1, GetTakes
    <3> QED
      BY <2>1, <3>1, TakeLeaves
  <2>3. Serves(Top) = {}
    BY <2>1 DEF Serves
  <2> QED
    BY <2>1, <2>2, <2>3, ServedPop
<1>7. CASE DeliverStep
  <2> DEFINE n == IF Top.live /\ Top.queue \in consumed THEN Len(store[Top.queue]) ELSE 0
  <2>1. /\ ~Idle /\ Pop /\ UNCHANGED consumed /\ Top.do = "deliver" /\ Top.queue \in Queues
        /\ Take(Top.queue, n)
    BY <1>7, FrameFields DEF DeliverStep
  <2>2. n \in 0 .. Len(store[Top.queue])
    BY <2>1
  <2>3. n = Len(store[Top.queue]) \/ ~(Top.live /\ Top.queue \in consumed)
    OBVIOUS
  <2> HIDE DEF n
  <2>4. /\ \A p \in Queues : ToSet(store'[p]) \subseteq ToSet(store[p])
        /\ n = Len(store[Top.queue]) => ToSet(store'[Top.queue]) = {}
    BY <2>1, <2>2, TakeLeaves
  <2>5. Serves(Top) = IF Top.live THEN {Top.queue} ELSE {}
    BY <2>1 DEF Serves
  <2>6. ASSUME NEW q \in consumed, NEW m \in ToSet(store'[q])
        PROVE  m \in ToSet(store[q]) /\ q \notin Serves(Top)
    BY <2>3, <2>4, <2>5, <2>6
  <2> QED
    BY <2>1, <2>6, ServedPop
<1>8. CASE ReturnStep \/ ConfirmStep
  <2> DEFINE drained == [do |-> "drained"]
             L == <<Listener>>
             d == <<drained>>
  <2>1. /\ ~Idle /\ UNCHANGED <<store, consumed>> /\ Serves(Top) = {}
        /\ call' \in {Tail(call), L \o Tail(call), <<Listener, drained>> \o Tail(call)}
    BY <1>8 DEF ReturnStep, ConfirmStep, Pop, brokerVars, Serves
  <2>2. Listener \in Proper /\ drained \in Proper /\ Candid(Listener) /\ Candid(drained)
    BY DEF Listener, Proper, Frame, Candid
  <2>3. <<Listener, drained>> = L \o d
    BY TwoFrames
  <2> HIDE DEF drained
  <2>4. L \in Seq(Proper) /\ d \in Seq(Proper) /\ AllCandid(L) /\ AllCandid(d)
    BY <2>2, OneFrame, DueOne
  <2> HIDE DEF L, d
  <2>5. L \o d \in Seq(Proper) /\ AllCandid(L \o d)
    BY <2>4, Framed, DueConcat
  <2>6. CASE call' = Tail(call)
    BY <2>1, <2>6, ServedPop DEF Pop
  <2>7. CASE call' = L \o Tail(call)
    BY <2>1, <2>4, <2>7, ServedAfter
  <2>8. CASE call' = (L \o d) \o Tail(call)
    <3> DEFINE s == L \o d
    <3>1. s \in Seq(Proper) /\ AllCandid(s) /\ call' = s \o Tail(call)
      BY <2>5, <2>8
    <3> HIDE DEF s
    <3> QED
      BY <2>1, <3>1, ServedAfter
  <2> QED
    BY <2>1, <2>3, <2>6, <2>7, <2>8
<1> QED
  BY <1>1, <1>2, <1>3, <1>4, <1>5, <1>6, <1>7, <1>8 DEF RunCall

(* An operation that is called between calls: nothing waits that is not excused. *)
LEMMA ServedFresh ==
  ASSUME TypeOK, ServedInv, Idle, NEW s \in Seq(Proper), AllCandid(s), call' = s,
         \A q \in consumed' : \A m \in ToSet(store'[q]) :
           \/ Excused(m) \/ q \in Due(s)
           \/ q \in consumed /\ m \in ToSet(store[q])
  PROVE  ServedInv'
<1>1. Due(call) = {}
  BY DueOne DEF Idle
<1>2. ASSUME NEW q \in consumed', NEW m \in ToSet(store'[q]), ~Excused(m)
      PROVE  q \in Due(call')
  BY <1>1, <1>2 DEF ServedInv, Served
<1> QED
  BY <1>2 DEF ServedInv, Served

LEMMA PublishServed ==
  ASSUME TypeOK, ServedInv, NEW p \in Publications, Publish(p)
  PROVE  ServedInv'
<1> USE Types
<1> DEFINE id == published + 1
           tag == IF confirmMode THEN tagSeq + 1 ELSE 0
           ok == p.exchange \in exists \ Internal
           targets == Route(p.exchange, {p.key} \cup p.cc \cup p.bcc)
           return == [do |-> "return", id |-> id]
           new == Enqueue(NewMessage(p), targets, TRUE)
           pipeline == IF ~ok THEN <<>>
                       ELSE IF targets = {} /\ p.mandatory THEN <<return>> ELSE <<new>>
           confirm == [do |-> "confirm", id |-> id, tag |-> tag, ok |-> ok]
           o == <<confirm>>
<1>1. id \in Ids /\ published \in Nat /\ published < MaxPublished
  BY PublishingAssumption DEF Publish, Ids
<1>2. NewMessage(p) \in Message
  BY <1>1, NewMessageType
<1>3. targets \subseteq Queues
  BY RouteInQueues
<1> HIDE DEF targets
<1>4. /\ new \in Proper /\ return \in Proper /\ confirm \in Proper
      /\ Candid(new) /\ Candid(return) /\ Candid(confirm)
  <2>1. /\ new \in Proper /\ return \in Proper /\ confirm \in Proper
    BY <1>1, <1>2, <1>3 DEF Enqueue, Proper, Frame
  <2>2. new.do = "enqueue" /\ new.live /\ return.do = "return" /\ confirm.do = "confirm"
    BY DEF Enqueue
  <2> HIDE DEF new, return, confirm
  <2> QED
    BY <2>1, <2>2 DEF Candid
<1>5. pipeline \in Seq(Proper) /\ AllCandid(pipeline)
  <2>1. <<>> \in Seq(Proper)
    <3> HIDE DEF Proper
    <3> QED
      BY EmptySeq
  <2> HIDE DEF new, return
  <2>2. AllCandid(<<>>) /\ AllCandid(<<new>>) /\ AllCandid(<<return>>)
    BY <1>4, DueOne
  <2> QED
    BY <1>4, <2>1, <2>2, OneFrame
<1>6. call' = pipeline \o o \o call /\ UNCHANGED <<store, consumed>>
  BY DEF Publish, targets, brokerVars
<1> HIDE DEF pipeline, confirm
<1>7. o \in Seq(Proper) /\ AllCandid(o)
  BY <1>4, OneFrame, DueOne
<1> HIDE DEF o
<1> DEFINE s == pipeline \o o
           D == {}
<1>8. s \in Seq(Proper) /\ AllCandid(s)
  BY <1>5, <1>7, Framed, DueConcat
<1>9. call' = s \o call /\ call \in Seq(Proper) /\ AllCandid(call) /\ Due(call) \subseteq D \cup Due(call)
  BY <1>6 DEF ServedInv
<1> HIDE DEF s
<1>10. \A q \in consumed' : \A m \in ToSet(store'[q]) : m \in ToSet(store[q]) /\ q \notin D
  BY <1>6
<1> HIDE DEF D
<1> QED
  BY <1>6, <1>8, <1>9, <1>10, ServedNext

LEMMA DispatchCandid ==
  ASSUME NEW Q \in SUBSET Queues
  PROVE  /\ <<Dispatch(Q, TRUE)>> \in Seq(Proper) /\ AllCandid(<<Dispatch(Q, TRUE)>>)
         /\ Due(<<Dispatch(Q, TRUE)>>) = Q
<1> DEFINE f == Dispatch(Q, TRUE)
<1>1. f \in Proper /\ f.do = "dispatch" /\ f.queues = Q /\ f.live
  BY DEF Dispatch, Proper, Frame
<1> HIDE DEF f
<1>2. <<f>> \in Seq(Proper) /\ AllCandid(<<f>>) /\ Due(<<f>>) = Serves(f)
  <2>1. Candid(f)
    BY <1>1 DEF Candid
  <2> QED
    BY <1>1, <2>1, OneFrame, DueOne
<1> QED
  BY <1>1, <1>2 DEF Serves, f

LEMMA AnswerServed ==
  ASSUME TypeOK, ServedInv, NEW i \in DOMAIN unacked, NEW multiple \in BOOLEAN,
         Ack(i, multiple) \/ Reject(i, multiple)
  PROVE  ServedInv'
<1> USE Types
<1> DEFINE s == Covered(i, multiple)
           Q == QueuesOf(s)
           d == <<Dispatch(Q, TRUE)>>
           r == Rejections(s)
<1>1. /\ Idle /\ UNCHANGED <<store, consumed>> /\ call' \in {d, r \o d}
  BY DEF Ack, Reject
<1>2. s \in Seq(Delivery)
  BY CoveredIn
<1> HIDE DEF s
<1>3. Q \subseteq Queues
  BY <1>2, QueuesOfType
<1> HIDE DEF Q
<1>4. d \in Seq(Proper) /\ AllCandid(d)
  BY <1>3, DispatchCandid
<1>5. r \in Seq(Proper) /\ AllCandid(r)
  BY <1>2, RejectionsAre, RejectionsCandid
<1> HIDE DEF d, r
<1>6. r \o d \in Seq(Proper) /\ AllCandid(r \o d)
  BY <1>4, <1>5, Framed, DueConcat
<1>7. call' \in Seq(Proper) /\ AllCandid(call')
  BY <1>1, <1>4, <1>6
<1> DEFINE c == call'
<1>8. c \in Seq(Proper) /\ AllCandid(c) /\ call' = c
  BY <1>7
<1> HIDE DEF c
<1> QED
  BY <1>1, <1>8, ServedFresh

LEMMA RequeueServed ==
  ASSUME TypeOK, ServedInv, NEW i \in DOMAIN unacked, Requeue(i)
  PROVE  ServedInv'
<1> USE Types
<1> DEFINE q == unacked[i].queue
           x == unacked[i].message
           t == Requeued(q, x)
           s == <<Dispatch({q}, TRUE)>>
<1>1. q \in Queues /\ x \in Message /\ store[q] \in Seq(Message)
  OBVIOUS
<1>2. Idle /\ store' = [store EXCEPT ![q] = t] /\ call' = s /\ UNCHANGED consumed
  BY DEF Requeue
<1> HIDE DEF q, x
<1>3. \A p \in Queues : p # q => store'[p] = store[p]
  BY <1>2
<1>4. s \in Seq(Proper) /\ AllCandid(s) /\ Due(s) = {q}
  <2>1. {q} \in SUBSET Queues
    BY <1>1
  <2> QED
    BY <2>1, DispatchCandid
<1> HIDE DEF s, t
<1>5. \A p \in consumed' : \A m \in ToSet(store'[p]) :
        p \in Due(s) \/ (p \in consumed /\ m \in ToSet(store[p]))
  BY <1>2, <1>3, <1>4
<1> QED
  BY <1>2, <1>4, <1>5, ServedFresh

LEMMA ExpireServed ==
  ASSUME TypeOK, ServedInv, NEW q \in Queues, NEW i \in DOMAIN store[q], Expire(q, i)
  PROVE  ServedInv'
<1> USE Types
<1> DEFINE s == store[q]
           x == [s[i] EXCEPT !.expiresAt = "past"]
           t == [s EXCEPT ![i] = x]
<1>1. s \in Seq(Message) /\ i \in 1 .. Len(s) /\ x.trail = s[i].trail /\ s[i] \in ToSet(s)
  <2>1. \A y \in Message : [y EXCEPT !.expiresAt = "past"].trail = y.trail
    BY DEF Message
  <2>2. s[i] \in ToSet(s)
    BY DEF ToSet
  <2> QED
    BY <2>1, <2>2
<1>2. store' = [store EXCEPT ![q] = t] /\ UNCHANGED <<consumed, call>>
  BY DEF Expire
<1>3. ToSet(t) \subseteq ToSet(s) \cup {x}
  BY <1>1 DEF ToSet
<1>4. \A p \in Queues : store'[p] = IF p = q THEN t ELSE store[p]
  BY <1>2
<1>5. Excused(s[i]) => Excused(x)
  BY <1>1 DEF Excused
<1> HIDE DEF t, x
<1>6. ASSUME NEW p \in consumed, NEW m \in ToSet(store'[p])
      PROVE  Excused(m) \/ p \in Due(call)
  <2>1. CASE m \in ToSet(store[p])
    BY <2>1 DEF ServedInv, Served
  <2>2. CASE m \notin ToSet(store[p])
    <3>1. p = q /\ m = x
      BY <1>3, <1>4, <1>6, <2>2
    <3> QED
      BY <1>1, <1>5, <3>1 DEF ServedInv, Served
  <2> QED
    BY <2>1, <2>2
<1> QED
  BY <1>2, <1>6 DEF ServedInv, Served

LEMMA ServedInvStep ==
  ASSUME NoInternalDeadLetters, TypeOK, ServedInv, [Next]_vars
  PROVE  ServedInv'
<1> USE Types
<1>1. CASE RunCall
  BY <1>1, RunCallServed
<1>2. ASSUME NEW p \in Publications, Publish(p) PROVE ServedInv'
  BY <1>2, PublishServed
<1>3. CASE \/ ConfirmSelect \/ WaitForConfirms \/ \E q \in Queues : Cancel(q)
           \/ \E e \in Exchanges : DeleteExchange(e)
           \/ \E i \in DOMAIN unacked : ExpireUnacked(i)
           \/ UNCHANGED vars
  <2>1. UNCHANGED <<store, call>> /\ consumed' \subseteq consumed
    BY <1>3 DEF ConfirmSelect, WaitForConfirms, Cancel, DeleteExchange, ExpireUnacked, vars, brokerVars
  <2> QED
    BY <2>1 DEF ServedInv, Served
<1>4. ASSUME NEW q \in Queues, Consume(q) PROVE ServedInv'
  <2> DEFINE s == <<Dispatch({q}, TRUE)>>
  <2>1. Idle /\ consumed' = consumed \cup {q} /\ call' = s /\ UNCHANGED store
    BY <1>4 DEF Consume
  <2>2. s \in Seq(Proper) /\ AllCandid(s) /\ Due(s) = {q}
    <3>1. {q} \in SUBSET Queues
      OBVIOUS
    <3> QED
      BY <3>1, DispatchCandid
  <2> HIDE DEF s
  <2> QED
    BY <2>1, <2>2, ServedFresh
<1>5. ASSUME NEW q \in Queues, Get(q) PROVE ServedInv'
  <2> DEFINE get == [do |-> "get", queue |-> q]
             o == <<get>>
  <2>1. get \in Proper /\ Candid(get)
    BY DEF Proper, Frame, Candid
  <2>2. Idle /\ Drain(q, o) /\ consumed' = consumed
    BY <1>5 DEF Get
  <2> HIDE DEF get
  <2>3. o \in Seq(Proper) /\ AllCandid(o)
    BY <2>1, OneFrame, DueOne
  <2> HIDE DEF o
  <2>4. PICK d \in Seq(Proper) : AllCandid(d) /\ call' = d \o o
    BY <2>2, <2>3, DrainLeaves
  <2>5. \A p \in Queues : ToSet(store'[p]) \subseteq ToSet(store[p])
    BY <2>2, <2>3, DrainLeaves
  <2> DEFINE s == d \o o
  <2>6. s \in Seq(Proper) /\ AllCandid(s) /\ call' = s
    BY <2>3, <2>4, Framed, DueConcat
  <2> HIDE DEF s
  <2> QED
    BY <2>2, <2>5, <2>6, ServedFresh
<1>6. ASSUME NEW i \in DOMAIN unacked, NEW multiple \in BOOLEAN, Ack(i, multiple) \/ Reject(i, multiple)
      PROVE  ServedInv'
  BY <1>6, AnswerServed
<1>7. ASSUME NEW i \in DOMAIN unacked, Requeue(i) PROVE ServedInv'
  BY <1>7, RequeueServed
<1>8. ASSUME NEW q \in Queues, NEW i \in DOMAIN store[q], Expire(q, i) PROVE ServedInv'
  BY <1>8, ExpireServed
<1> QED
  BY <1>1, <1>2, <1>3, <1>4, <1>5, <1>6, <1>7, <1>8 DEF Next, ClientNext

LEMMA ServedInvInit == Init => ServedInv
<1> SUFFICES ASSUME Init PROVE ServedInv
  OBVIOUS
<1>1. AllCandid(call)
  BY DueOne DEF Init
<1> QED
  BY <1>1 DEF Init, ServedInv

LEMMA ServedInvServes ==
  ASSUME TypeOK, ServedInv
  PROVE  ConsumersServed
<1> SUFFICES ASSUME Idle, NEW q \in consumed, NEW i \in DOMAIN store[q]
             PROVE  Excused(store[q][i])
  BY DEF ConsumersServed, Excused
<1>1. Due(call) = {}
  BY DueOne DEF Idle
<1>2. store[q][i] \in ToSet(store[q])
  BY DEF ToSet
<1> QED
  BY <1>1, <1>2 DEF ServedInv, Served

(* Between calls no message a client published or rejected waits in a queue that
   has a consumer (publish.ts, dispatcher.ts): each way a message comes into a
   queue is followed, in the same call, by a dispatch of that queue, whatever
   deaths, nested publishes and listeners come in between, as long as no
   exception of a dead-letter exchange that is internal ends the call early. *)
THEOREM ConsumersAreServed ==
  ASSUME NoInternalDeadLetters
  PROVE  Spec => []ConsumersServed
<1>1. TypeOK /\ ServedInv => ConsumersServed
  BY ServedInvServes
<1>2. TypeOK /\ ServedInv /\ [Next]_vars => ServedInv'
  BY ServedInvStep
<1> QED
  BY <1>1, <1>2, ServedInvInit, PublishingTypes, PTL DEF Spec
=============================================================================
