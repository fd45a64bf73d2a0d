--------------------------- MODULE RoutingProofs ---------------------------
(* Theorems about Routing, for every message, list of bindings and table: the
   types, the two laws of headers exchanges, and that topicMatchWords agrees with
   the meaning of a topic pattern, Dealt.  The last is an induction over the
   places of the pattern from its end, as sets of natural numbers. *)
EXTENDS Routing, SequenceLemmas

(* A message is not the absence of one: its key has a word. *)
LEMMA SomeMessage ==
  ASSUME NEW m \in Message(type)
  PROVE  m # None
<1>1. m.key \in {<<"">>} \cup RoutingKeys
  BY DEF Message
<1>2. <<"">> # <<>>
  OBVIOUS
<1>3. m.key # <<>>
  BY <1>1, <1>2, RoutingAssumption DEF RoutingAssumption
<1> QED
  BY <1>3 DEF None

(* What was matched is what route returns: the list has not changed since. *)
Current == (sent = None /\ matched = {}) \/ (sent # None /\ matched = Route(sent))

LEMMA CurrentInvariant == Spec => []Current
<1>1. Init => Current
  BY DEF Init, Current
<1>2. Current /\ [Next]_vars => Current'
  <2> SUFFICES ASSUME Current, [Next]_vars PROVE Current'
    OBVIOUS
  <2>1. ASSUME NEW b \in Binding(type), AddBinding(b) \/ RemoveBinding(b) PROVE Current'
    BY <2>1 DEF AddBinding, RemoveBinding, Current, None
  <2>2. ASSUME NEW m \in Message(type), Publish(m) PROVE Current'
    <3>1. m # None
      BY SomeMessage
    <3>2. sent' = m /\ matched' = Route(m) /\ type' = type /\ list' = list
      BY <2>2 DEF Publish
    <3>3. Route(sent)' = Route(m)
      BY <3>2 DEF Route, Matches
    <3> QED
      BY <3>1, <3>2, <3>3 DEF Current, None
  <2>3. CASE UNCHANGED vars
    <3>1. sent' = sent /\ matched' = matched /\ type' = type /\ list' = list
      BY <2>3 DEF vars
    <3>2. Route(sent)' = Route(sent)
      BY <3>1 DEF Route, Matches
    <3> QED
      BY <3>1, <3>2 DEF Current, None
  <2> QED
    BY <2>1, <2>2, <2>3 DEF Next
<1> QED
  BY <1>1, <1>2, PTL DEF Spec

-----------------------------------------------------------------------------
(* Topic matching.  The words of the key after the first ri are dealt out to
   those of the pattern after the first pi. *)
DealtFrom(r, p, ri, pi) ==
  \E upto \in [pi .. Len(p) -> 0 .. Len(r)] :
    /\ upto[pi] = ri /\ upto[Len(p)] = Len(r)
    /\ \A i \in pi + 1 .. Len(p) :
         /\ upto[i - 1] <= upto[i]
         /\ p[i] # Hash => upto[i] = upto[i - 1] + 1 /\ p[i] \in {Star, r[upto[i]]}

LEMMA DealtFromEnd ==
  ASSUME NEW r \in Seq(STRING), NEW p \in Seq(STRING), NEW ri \in 0 .. Len(r)
  PROVE  DealtFrom(r, p, ri, Len(p)) <=> ri >= Len(r)
<1>1. Len(p) \in Nat /\ Len(r) \in Nat
  OBVIOUS
<1>2. ASSUME DealtFrom(r, p, ri, Len(p)) PROVE ri >= Len(r)
  BY <1>1, <1>2 DEF DealtFrom
<1>3. ASSUME ri >= Len(r) PROVE DealtFrom(r, p, ri, Len(p))
  <2> DEFINE upto == [i \in Len(p) .. Len(p) |-> Len(r)]
  <2>1. upto \in [Len(p) .. Len(p) -> 0 .. Len(r)] /\ upto[Len(p)] = Len(r) /\ ri = Len(r)
    BY <1>1, <1>3
  <2>2. Len(p) + 1 .. Len(p) = {}
    BY <1>1
  <2> HIDE DEF upto
  <2> QED
    BY <2>1, <2>2 DEF DealtFrom
<1> QED
  BY <1>2, <1>3

(* The next word of the pattern takes skip words. *)
LEMMA DealtFromStep ==
  ASSUME NEW r \in Seq(STRING), NEW p \in Seq(STRING), NEW ri \in 0 .. Len(r),
         NEW pi \in 0 .. Len(p) - 1
  PROVE  DealtFrom(r, p, ri, pi) <=>
           \E skip \in 0 .. Len(r) - ri :
             /\ p[pi + 1] # Hash => skip = 1 /\ p[pi + 1] \in {Star, r[ri + 1]}
             /\ DealtFrom(r, p, ri + skip, pi + 1)
<1>1. Len(p) \in Nat /\ Len(r) \in Nat /\ pi \in Nat /\ ri \in Nat
  OBVIOUS
<1>2. ASSUME DealtFrom(r, p, ri, pi)
      PROVE  \E skip \in 0 .. Len(r) - ri :
               /\ p[pi + 1] # Hash => skip = 1 /\ p[pi + 1] \in {Star, r[ri + 1]}
               /\ DealtFrom(r, p, ri + skip, pi + 1)
  <2>1. PICK upto \in [pi .. Len(p) -> 0 .. Len(r)] :
          /\ upto[pi] = ri /\ upto[Len(p)] = Len(r)
          /\ \A i \in pi + 1 .. Len(p) :
               /\ upto[i - 1] <= upto[i]
               /\ p[i] # Hash => upto[i] = upto[i - 1] + 1 /\ p[i] \in {Star, r[upto[i]]}
    BY <1>2 DEF DealtFrom
  <2> DEFINE rest == [i \in pi + 1 .. Len(p) |-> upto[i]]
             skip == upto[pi + 1] - ri
  <2>2. /\ upto[pi + 1] \in 0 .. Len(r) /\ ri <= upto[pi + 1]
        /\ p[pi + 1] # Hash => upto[pi + 1] = ri + 1 /\ p[pi + 1] \in {Star, r[upto[pi + 1]]}
    <3>1. pi + 1 \in pi + 1 .. Len(p) /\ pi + 1 \in pi .. Len(p) /\ pi + 1 - 1 = pi
      BY <1>1
    <3> QED
      BY <2>1, <3>1
  <2>3. skip \in 0 .. Len(r) - ri /\ ri + skip = upto[pi + 1]
    BY <1>1, <2>2
  <2>4. p[pi + 1] # Hash => skip = 1 /\ p[pi + 1] \in {Star, r[ri + 1]}
    BY <1>1, <2>2
  <2>5. rest \in [pi + 1 .. Len(p) -> 0 .. Len(r)]
    BY <1>1, <2>1
  <2>6. rest[pi + 1] = ri + skip /\ rest[Len(p)] = Len(r)
    BY <1>1, <2>1, <2>3
  <2>7. \A i \in pi + 1 + 1 .. Len(p) :
          /\ rest[i - 1] <= rest[i]
          /\ p[i] # Hash => rest[i] = rest[i - 1] + 1 /\ p[i] \in {Star, r[rest[i]]}
    <3> SUFFICES ASSUME NEW i \in pi + 1 + 1 .. Len(p)
                 PROVE  /\ rest[i - 1] <= rest[i]
                        /\ p[i] # Hash => rest[i] = rest[i - 1] + 1
                                          /\ p[i] \in {Star, r[rest[i]]}
      OBVIOUS
    <3>1. rest[i - 1] = upto[i - 1] /\ rest[i] = upto[i] /\ i \in pi + 1 .. Len(p)
      BY <1>1
    <3> QED
      BY <2>1, <3>1
  <2> HIDE DEF rest, skip
  <2>8. DealtFrom(r, p, ri + skip, pi + 1)
    BY <2>5, <2>6, <2>7 DEF DealtFrom
  <2> QED
    BY <2>3, <2>4, <2>8
<1>3. ASSUME NEW skip \in 0 .. Len(r) - ri,
             p[pi + 1] # Hash => skip = 1 /\ p[pi + 1] \in {Star, r[ri + 1]},
             DealtFrom(r, p, ri + skip, pi + 1)
      PROVE  DealtFrom(r, p, ri, pi)
  <2>1. PICK rest \in [pi + 1 .. Len(p) -> 0 .. Len(r)] :
          /\ rest[pi + 1] = ri + skip /\ rest[Len(p)] = Len(r)
          /\ \A i \in pi + 1 + 1 .. Len(p) :
               /\ rest[i - 1] <= rest[i]
               /\ p[i] # Hash => rest[i] = rest[i - 1] + 1 /\ p[i] \in {Star, r[rest[i]]}
    BY <1>3 DEF DealtFrom
  <2> DEFINE upto == [i \in pi .. Len(p) |-> IF i = pi THEN ri ELSE rest[i]]
  <2>2. \A i \in pi + 1 .. Len(p) : upto[i] = rest[i] /\ rest[i] \in 0 .. Len(r)
    BY <1>1, <2>1
  <2>3. upto[pi] = ri /\ upto[Len(p)] = Len(r) /\ upto[pi + 1] = ri + skip
    BY <1>1, <2>1, <2>2
  <2>4. upto \in [pi .. Len(p) -> 0 .. Len(r)]
    BY <1>1, <2>1
  <2> HIDE DEF upto
  <2>5. ASSUME NEW i \in pi + 1 .. Len(p)
        PROVE  /\ upto[i - 1] <= upto[i]
               /\ p[i] # Hash => upto[i] = upto[i - 1] + 1 /\ p[i] \in {Star, r[upto[i]]}
    <3>1. CASE i = pi + 1
      <4>1. upto[i - 1] = ri /\ upto[i] = ri + skip
        BY <1>1, <2>3, <3>1
      <4>2. p[i] # Hash => skip = 1 /\ p[i] \in {Star, r[ri + 1]}
        BY <1>3, <3>1
      <4> QED
        BY <1>1, <4>1, <4>2
    <3>2. CASE i \in pi + 1 + 1 .. Len(p)
      <4>1. i - 1 \in pi + 1 .. Len(p)
        BY <1>1, <3>2
      <4>2. upto[i - 1] = rest[i - 1] /\ upto[i] = rest[i]
        BY <2>2, <4>1
      <4> QED
        BY <2>1, <3>2, <4>2
    <3> QED
      BY <1>1, <3>1, <3>2
  <2> QED
    BY <2>3, <2>4, <2>5 DEF DealtFrom
<1> QED
  BY <1>2, <1>3

(* What the recursion of topicMatchWords says of a table of its results. *)
Recursive(r, p, match) ==
  match = [pi \in 1 .. Len(p) + 1 |->
             {ri \in 1 .. Len(r) + 1 :
                IF pi > Len(p) THEN ri > Len(r)
                ELSE IF p[pi] = Hash
                THEN pi = Len(p) \/ \E skip \in 0 .. Len(r) + 1 - ri : ri + skip \in match[pi + 1]
                ELSE ri <= Len(r) /\ p[pi] \in {Star, r[ri]} /\ ri + 1 \in match[pi + 1]}]

DealtTable(r, p) ==
  [pi \in 1 .. Len(p) + 1 |-> {ri \in 1 .. Len(r) + 1 : DealtFrom(r, p, ri - 1, pi - 1)}]

(* The reference definition satisfies the recursion. *)
LEMMA DealtIsRecursive ==
  ASSUME NEW r \in Seq(STRING), NEW p \in Seq(STRING)
  PROVE  Recursive(r, p, DealtTable(r, p))
<1> DEFINE D == DealtTable(r, p)
<1>0. Len(p) \in Nat /\ Len(r) \in Nat
  OBVIOUS
<1>d. \A pi \in 1 .. Len(p) + 1 :
        D[pi] = {ri \in 1 .. Len(r) + 1 : DealtFrom(r, p, ri - 1, pi - 1)}
  BY DEF DealtTable
<1> HIDE DEF D
<1>1. ASSUME NEW ri \in 1 .. Len(r) + 1, NEW pi \in 1 .. Len(p) + 1
      PROVE  DealtFrom(r, p, ri - 1, pi - 1) <=>
             IF pi > Len(p) THEN ri > Len(r)
             ELSE IF p[pi] = Hash
             THEN pi = Len(p) \/ \E skip \in 0 .. Len(r) + 1 - ri : ri + skip \in D[pi + 1]
             ELSE ri <= Len(r) /\ p[pi] \in {Star, r[ri]} /\ ri + 1 \in D[pi + 1]
  <2>1. ri - 1 \in 0 .. Len(r) /\ pi - 1 \in 0 .. Len(p) /\ ri - 1 + 1 = ri /\ pi - 1 + 1 = pi
    BY <1>0
  <2>2. CASE pi > Len(p)
    <3>1. pi - 1 = Len(p)
      BY <1>0, <2>2
    <3>2. DealtFrom(r, p, ri - 1, Len(p)) <=> ri - 1 >= Len(r)
      BY <2>1, DealtFromEnd
    <3> QED
      BY <1>0, <2>2, <3>1, <3>2
  <2>3. CASE pi <= Len(p)
    <3>1. pi - 1 \in 0 .. Len(p) - 1 /\ pi + 1 \in 1 .. Len(p) + 1 /\ pi + 1 - 1 = pi
      BY <1>0, <2>3
    <3>2. DealtFrom(r, p, ri - 1, pi - 1) <=>
            \E skip \in 0 .. Len(r) - (ri - 1) :
              /\ p[pi] # Hash => skip = 1 /\ p[pi] \in {Star, r[ri]}
              /\ DealtFrom(r, p, ri - 1 + skip, pi)
      <4>1. DealtFrom(r, p, ri - 1, pi - 1) <=>
              \E skip \in 0 .. Len(r) - (ri - 1) :
                /\ p[pi - 1 + 1] # Hash => skip = 1 /\ p[pi - 1 + 1] \in {Star, r[ri - 1 + 1]}
                /\ DealtFrom(r, p, ri - 1 + skip, pi - 1 + 1)
        BY <2>1, <3>1, DealtFromStep
      <4> QED
        BY <4>1, <2>1, Zenon
    <3>3. \A at \in 1 .. Len(r) + 1 : at \in D[pi + 1] <=> DealtFrom(r, p, at - 1, pi)
      BY <1>d, <3>1
    <3>4. ASSUME NEW skip \in 0 .. Len(r) + 1 - ri
          PROVE  ri + skip \in D[pi + 1] <=> DealtFrom(r, p, ri - 1 + skip, pi)
      <4>1. ri + skip \in 1 .. Len(r) + 1 /\ ri + skip - 1 = ri - 1 + skip
        BY <1>0
      <4>2. ri + skip \in D[pi + 1] <=> DealtFrom(r, p, ri + skip - 1, pi)
        BY <3>3, <4>1
      <4> QED
        BY <4>1, <4>2
    <3>5. 0 .. Len(r) - (ri - 1) = 0 .. Len(r) + 1 - ri
      BY <1>0
    <3>6. CASE p[pi] = Hash
      <4>1. DealtFrom(r, p, ri - 1, pi - 1) <=>
              \E skip \in 0 .. Len(r) + 1 - ri : ri + skip \in D[pi + 1]
        BY <3>2, <3>4, <3>5, <3>6
      <4>2. ASSUME pi = Len(p)
            PROVE  \E skip \in 0 .. Len(r) + 1 - ri : ri + skip \in D[pi + 1]
        <5> DEFINE skip == Len(r) + 1 - ri
        <5>1. skip \in 0 .. Len(r) + 1 - ri /\ ri - 1 + skip = Len(r) /\ Len(r) \in 0 .. Len(r)
          BY <1>0
        <5>2. DealtFrom(r, p, Len(r), pi)
          BY <1>0, <4>2, <5>1, DealtFromEnd
        <5>3. ri + skip \in D[pi + 1]
          BY <3>4, <5>1, <5>2
        <5> QED
          BY <5>1, <5>3
      <4> QED
        BY <2>3, <3>6, <4>1, <4>2, <1>0
    <3>7. CASE p[pi] # Hash
      <4>1. DealtFrom(r, p, ri - 1, pi - 1) <=>
              /\ 1 \in 0 .. Len(r) + 1 - ri /\ p[pi] \in {Star, r[ri]}
              /\ DealtFrom(r, p, ri - 1 + 1, pi)
        BY <3>2, <3>5, <3>7
      <4>2. 1 \in 0 .. Len(r) + 1 - ri <=> ri <= Len(r)
        BY <1>0
      <4>3. ASSUME ri <= Len(r)
            PROVE  ri + 1 \in D[pi + 1] <=> DealtFrom(r, p, ri - 1 + 1, pi)
        BY <3>4, <4>2, <4>3
      <4> QED
        BY <1>0, <2>3, <3>7, <4>1, <4>2, <4>3
    <3> QED
      BY <3>6, <3>7
  <2> QED
    BY <1>0, <2>2, <2>3
<1> DEFINE body(pi) == {ri \in 1 .. Len(r) + 1 :
                IF pi > Len(p) THEN ri > Len(r)
                ELSE IF p[pi] = Hash
                THEN pi = Len(p) \/ \E skip \in 0 .. Len(r) + 1 - ri : ri + skip \in D[pi + 1]
                ELSE ri <= Len(r) /\ p[pi] \in {Star, r[ri]} /\ ri + 1 \in D[pi + 1]}
<1>2. ASSUME NEW pi \in 1 .. Len(p) + 1
      PROVE  {ri \in 1 .. Len(r) + 1 : DealtFrom(r, p, ri - 1, pi - 1)} = body(pi)
  BY <1>1
<1> HIDE DEF body
<1>3. D = [pi \in 1 .. Len(p) + 1 |-> body(pi)]
  BY <1>2 DEF D, DealtTable
<1> QED
  BY <1>3 DEF Recursive, D, body

(* There is one such table: each row is determined by the next. *)
LEMMA RecursiveUnique ==
  ASSUME NEW r \in Seq(STRING), NEW p \in Seq(STRING), NEW f, NEW g,
         Recursive(r, p, f), Recursive(r, p, g)
  PROVE  f = g
<1> DEFINE S == {k \in 0 .. Len(p) : f[Len(p) + 1 - k] = g[Len(p) + 1 - k]}
<1>0. Len(p) \in Nat /\ Len(r) \in Nat
  OBVIOUS
<1>1. \A pi \in 1 .. Len(p) + 1 :
        f[pi] = {ri \in 1 .. Len(r) + 1 :
                IF pi > Len(p) THEN ri > Len(r)
                ELSE IF p[pi] = Hash
                THEN pi = Len(p) \/ \E skip \in 0 .. Len(r) + 1 - ri : ri + skip \in f[pi + 1]
                ELSE ri <= Len(r) /\ p[pi] \in {Star, r[ri]} /\ ri + 1 \in f[pi + 1]}
  BY Zenon DEF Recursive
<1>2. \A pi \in 1 .. Len(p) + 1 :
        g[pi] = {ri \in 1 .. Len(r) + 1 :
                IF pi > Len(p) THEN ri > Len(r)
                ELSE IF p[pi] = Hash
                THEN pi = Len(p) \/ \E skip \in 0 .. Len(r) + 1 - ri : ri + skip \in g[pi + 1]
                ELSE ri <= Len(r) /\ p[pi] \in {Star, r[ri]} /\ ri + 1 \in g[pi + 1]}
  BY Zenon DEF Recursive
<1>3. 0 \in S
  <2>1. Len(p) + 1 - 0 = Len(p) + 1 /\ Len(p) + 1 \in 1 .. Len(p) + 1 /\ Len(p) + 1 > Len(p)
    BY <1>0
  <2>2. f[Len(p) + 1] = {ri \in 1 .. Len(r) + 1 : ri > Len(r)}
    BY <1>0, <1>1, <2>1
  <2>3. g[Len(p) + 1] = {ri \in 1 .. Len(r) + 1 : ri > Len(r)}
    BY <1>0, <1>2, <2>1
  <2>4. f[Len(p) + 1 - 0] = g[Len(p) + 1 - 0]
    BY <2>1, <2>2, <2>3, Zenon
  <2>5. 0 \in 0 .. Len(p)
    BY <1>0
  <2> QED
    BY <2>4, <2>5, Zenon
<1>4. ASSUME NEW k \in 0 .. Len(p), k < Len(p), k \in S PROVE k + 1 \in S
  <2> DEFINE pi == Len(p) + 1 - (k + 1)
  <2>1. pi \in 1 .. Len(p) + 1 /\ pi + 1 = Len(p) + 1 - k /\ ~ (pi > Len(p))
    BY <1>0, <1>4
  <2>2. f[pi + 1] = g[pi + 1]
    BY <1>4, <2>1
  <2> HIDE DEF pi
  <2>3. f[pi] = g[pi]
    <3> DEFINE A(h) == {ri \in 1 .. Len(r) + 1 :
                         IF pi > Len(p) THEN ri > Len(r)
                         ELSE IF p[pi] = Hash
                         THEN pi = Len(p) \/ \E skip \in 0 .. Len(r) + 1 - ri : ri + skip \in h
                         ELSE ri <= Len(r) /\ p[pi] \in {Star, r[ri]} /\ ri + 1 \in h}
    <3>1. f[pi] = A(f[pi + 1])
      BY <1>1, <2>1
    <3>2. g[pi] = A(g[pi + 1])
      BY <1>2, <2>1
    <3> HIDE DEF A
    <3> QED
      BY <2>2, <3>1, <3>2
  <2> QED
    BY <1>0, <1>4, <2>3 DEF pi
<1>5. 0 .. Len(p) \subseteq S
  <2> HIDE DEF S
  <2> QED
    BY <1>0, <1>3, <1>4, UpTo
<1>6. \A pi \in 1 .. Len(p) + 1 : f[pi] = g[pi]
  <2> SUFFICES ASSUME NEW pi \in 1 .. Len(p) + 1 PROVE f[pi] = g[pi]
    OBVIOUS
  <2>1. Len(p) + 1 - pi \in 0 .. Len(p) /\ Len(p) + 1 - (Len(p) + 1 - pi) = pi
    BY <1>0
  <2> QED
    BY <1>5, <2>1
<1>7. /\ f = [pi \in 1 .. Len(p) + 1 |-> f[pi]]
      /\ g = [pi \in 1 .. Len(p) + 1 |-> g[pi]]
  BY Zenon DEF Recursive
<1> QED
  BY <1>6, <1>7

(* topicMatchWords computes the meaning of a pattern. *)
LEMMA WordsDealt ==
  ASSUME NEW r \in Seq(STRING), NEW p \in Seq(STRING)
  PROVE  TopicMatchWords(r, p) <=> Dealt(r, p)
<1> DEFINE chosen == CHOOSE match : Recursive(r, p, match)
<1>1. TopicMatchWords(r, p) <=> 1 \in chosen[1]
  BY DEF TopicMatchWords, Recursive
<1>2. Recursive(r, p, chosen)
  BY DealtIsRecursive, Zenon
<1>3. chosen = DealtTable(r, p)
  <2> HIDE DEF chosen
  <2> QED
    BY <1>2, DealtIsRecursive, RecursiveUnique
<1>4. 1 \in DealtTable(r, p)[1] <=> DealtFrom(r, p, 0, 0)
  BY DEF DealtTable
<1>5. DealtFrom(r, p, 0, 0) <=> Dealt(r, p)
  BY DEF DealtFrom, Dealt
<1> QED
  BY <1>1, <1>3, <1>4, <1>5

(* So does topicMatch, with its two cases of its own. *)
LEMMA KeysDealt ==
  ASSUME NEW key \in Seq(STRING), NEW pattern \in Seq(STRING)
  PROVE  TopicMatch(key, pattern) <=> Dealt(Words(key), Words(pattern))
<1>1. Words(key) \in Seq(STRING) /\ Words(pattern) \in Seq(STRING)
  <2>1. <<>> \in Seq(STRING)
    BY EmptySeq
  <2> QED
    BY <2>1 DEF Words
<1>2. ASSUME key = <<"">>, pattern = <<"">> PROVE Dealt(Words(key), Words(pattern))
  <2>1. Words(key) = <<>> /\ Words(pattern) = <<>> /\ <<>> \in Seq(STRING) /\ Len(<<>>) = 0
    BY <1>2, EmptySeq DEF Words
  <2>2. DealtFrom(<<>>, <<>>, 0, Len(<<>>)) <=> 0 >= Len(<<>>)
    <3>1. 0 \in 0 .. Len(<<>>)
      BY <2>1
    <3> QED
      BY <2>1, <3>1, DealtFromEnd
  <2> QED
    BY <2>1, <2>2 DEF DealtFrom, Dealt
<1>3. ASSUME pattern = <<Hash>> PROVE Dealt(Words(key), Words(pattern))
  <2> DEFINE r == Words(key)
             upto == [i \in 0 .. 1 |-> IF i = 0 THEN 0 ELSE Len(r)]
  <2>1. Words(pattern) = <<Hash>> /\ Len(<<Hash>>) = 1 /\ <<Hash>>[1] = Hash
    BY <1>3 DEF Words, Hash
  <2>2. r \in Seq(STRING) /\ Len(r) \in Nat
    BY <1>1
  <2> HIDE DEF r
  <2>3. upto \in [0 .. 1 -> 0 .. Len(r)] /\ upto[0] = 0 /\ upto[1] = Len(r)
    BY <2>2
  <2> HIDE DEF upto
  <2>4. Dealt(r, <<Hash>>)
    BY <2>1, <2>2, <2>3 DEF Dealt
  <2> QED
    BY <2>1, <2>4 DEF r
<1>4. TopicMatchWords(Words(key), Words(pattern)) <=> Dealt(Words(key), Words(pattern))
  BY <1>1, WordsDealt
<1> QED
  BY <1>2, <1>3, <1>4 DEF TopicMatch

-----------------------------------------------------------------------------
(* TypeOK is inductive: a binding is listed once because it is added once. *)
THEOREM RoutingTypes == Spec => []TypeOK
<1>1. Init => TypeOK
  BY DEF Init, TypeOK, IsInjective
<1>2. TypeOK /\ [Next]_vars => TypeOK'
  <2> SUFFICES ASSUME TypeOK, [Next]_vars PROVE TypeOK'
    OBVIOUS
  <2>0. list \in Seq(Binding(type)) /\ IsInjective(list) /\ type \in Types
    BY DEF TypeOK
  <2>1. ASSUME NEW b \in Binding(type), AddBinding(b) PROVE TypeOK'
    <3>1. type' = type /\ sent' = None /\ matched' = {} /\ list' = WithBinding(b)
      BY <2>1 DEF AddBinding
    <3>2. CASE b \in ToSet(list)
      BY <2>0, <3>1, <3>2 DEF WithBinding, TypeOK, Binding
    <3>3. CASE b \notin ToSet(list)
      <4>1. list' = Append(list, b)
        BY <3>1, <3>3 DEF WithBinding
      <4>2. list' \in Seq(Binding(type))
        BY <2>0, <4>1
      <4>3. IsInjective(list')
        BY <2>0, <3>3, <4>1 DEF IsInjective, ToSet
      <4> QED
        BY <3>1, <2>0, <4>2, <4>3 DEF TypeOK, Binding
    <3> QED
      BY <3>2, <3>3
  <2>2. ASSUME NEW b \in Binding(type), RemoveBinding(b) PROVE TypeOK'
    <3>1. type' = type /\ sent' = None /\ matched' = {}
      BY <2>2 DEF RemoveBinding
    <3>2. PICK i \in 1 .. Len(list) : list' = RemoveAt(list, i)
      BY <2>0, <2>2 DEF RemoveBinding
    <3>3. /\ list' \in Seq(Binding(type)) /\ Len(list') = Len(list) - 1
          /\ \A j \in 1 .. Len(list) - 1 : list'[j] = IF j < i THEN list[j] ELSE list[j + 1]
      BY <2>0, <3>2, RemovedAt
    <3>4. IsInjective(list')
      <4> DEFINE n == Len(list)
                 at(j) == IF j < i THEN j ELSE j + 1
      <4>1. n \in Nat /\ DOMAIN list = 1 .. n /\ DOMAIN list' = 1 .. n - 1 /\ i \in 1 .. n
        BY <2>0, <3>3
      <4>2. \A j \in 1 .. n - 1 : at(j) \in 1 .. n /\ list'[j] = list[at(j)]
        BY <3>3, <4>1
      <4>3. \A g, h \in 1 .. n - 1 : at(g) = at(h) => g = h
        BY <4>1
      <4>4. \A g, h \in 1 .. n : list[g] = list[h] => g = h
        BY <2>0, <4>1, Zenon DEF IsInjective
      <4> HIDE DEF n, at
      <4>5. \A g, h \in 1 .. n - 1 : list'[g] = list'[h] => g = h
        BY <4>2, <4>3, <4>4
      <4> QED
        BY <4>1, <4>5, Zenon DEF IsInjective
    <3> QED
      BY <3>1, <2>0, <3>3, <3>4 DEF TypeOK, Binding
  <2>3. ASSUME NEW m \in Message(type), Publish(m) PROVE TypeOK'
    <3>1. sent' = m /\ matched' = Route(m) /\ type' = type /\ list' = list
      BY <2>3 DEF Publish
    <3>2. Route(m) = Error \/ Route(m) \subseteq ToSet(list)
      BY DEF Route
    <3> QED
      BY <3>1, <3>2, <2>0 DEF TypeOK, Message
  <2>4. CASE UNCHANGED vars
    BY <2>4 DEF TypeOK, vars, Message, Binding
  <2> QED
    BY <2>1, <2>2, <2>3, <2>4 DEF Next
<1> QED
  BY <1>1, <1>2, PTL DEF Spec

(* A topic exchange matches what the pattern language means, whatever the key and
   however many # the pattern has. *)
THEOREM TopicsAreDealt == Spec => []TopicsDealt
<1>1. TypeOK /\ Current => TopicsDealt
  <2> SUFFICES ASSUME TypeOK, Current, type = "topic", sent # None
               PROVE  matched = {b \in ToSet(list) : Dealt(Words(sent.key), Words(b.key))}
    BY DEF TopicsDealt
  <2>1. sent \in Message(type) /\ matched = Route(sent) /\ list \in Seq(Binding(type))
    BY DEF TypeOK, Current
  <2>2. sent.key \in Seq(STRING)
    BY <2>1, RoutingAssumption DEF Message, RoutingAssumption
  <2>3. ASSUME NEW b \in ToSet(list)
        PROVE  b.mode # Invalid /\ b.key \in Seq(STRING)
    <3>1. b \in Binding(type)
      BY <2>1 DEF ToSet
    <3> QED
      BY <3>1, RoutingAssumption DEF Binding, RoutingAssumption, Invalid
  <2>4. matched = {b \in ToSet(list) : Matches(sent, b)}
    BY <2>1, <2>3 DEF Route
  <2>5. ASSUME NEW b \in ToSet(list)
        PROVE  Matches(sent, b) <=> Dealt(Words(sent.key), Words(b.key))
    <3>1. TopicMatch(sent.key, b.key) <=> Dealt(Words(sent.key), Words(b.key))
      BY <2>2, <2>3, KeysDealt
    <3> QED
      BY <3>1 DEF Matches
  <2> QED
    BY <2>4, <2>5
<1> QED
  BY <1>1, RoutingTypes, CurrentInvariant, PTL

-----------------------------------------------------------------------------
(* Where two bindings have the same arguments, what the stricter matches the
   more lenient does. *)
LEMMA Lenient ==
  ASSUME NEW headers, NEW a, NEW b, a.table = b.table, Stricter(a, b),
         HeadersMatch(headers, a)
  PROVE  HeadersMatch(headers, b)
<1>1. CASE a.mode = "all-with-x" /\ b.mode = "all"
  BY <1>1 DEF HeadersMatch, ModeHolds, RequireAll, Met, Compared
<1>2. CASE a.mode = "any" /\ b.mode = "any-with-x"
  BY <1>2 DEF HeadersMatch, ModeHolds, RequireAll, Met, Compared
<1>3. CASE a.mode = "all" /\ b.mode = "any" /\ Compared(a) # {}
  BY <1>3 DEF HeadersMatch, ModeHolds, RequireAll, Met, Compared
<1>4. CASE a.mode = "all-with-x" /\ b.mode = "any-with-x" /\ Compared(a) # {}
  BY <1>4 DEF HeadersMatch, ModeHolds, RequireAll, Met, Compared
<1> QED
  BY <1>1, <1>2, <1>3, <1>4 DEF Stricter

(* The modes of headers exchanges are ordered from strict to lenient. *)
THEOREM ModesAreOrdered == Spec => []ModesOrdered
<1>1. Current => ModesOrdered
  <2> SUFFICES ASSUME Current, type = "headers", NEW a \in matched, NEW b \in ToSet(list),
                      matched # Error, a.table = b.table, Stricter(a, b)
               PROVE  b \in matched
    BY DEF ModesOrdered
  <2>1. matched = {c \in ToSet(list) : Matches(sent, c)}
    BY DEF Current, Route
  <2>2. HeadersMatch(sent.headers, a)
    BY <2>1 DEF Matches
  <2>3. HeadersMatch(sent.headers, b)
    BY <2>2, Lenient
  <2> QED
    BY <2>1, <2>3 DEF Matches
<1> QED
  BY <1>1, CurrentInvariant, PTL

-----------------------------------------------------------------------------
(* A message with another header is matched by all that matched it. *)
LEMMA MoreHeaders ==
  ASSUME NEW g, NEW h, NEW b, Extends(g, h), HeadersMatch(h, b)
  PROVE  HeadersMatch(g, b)
<1>1. Met(h, b) \subseteq Met(g, b)
  BY DEF Extends, Met
<1>2. Met(g, b) \subseteq Compared(b)
  BY DEF Met
<1>3. CASE RequireAll(b)
  BY <1>1, <1>2, <1>3 DEF HeadersMatch, ModeHolds
<1>4. CASE ~RequireAll(b)
  BY <1>1, <1>4 DEF HeadersMatch, ModeHolds
<1> QED
  BY <1>3, <1>4

(* Another header never takes a match away. *)
THEOREM HeadersAreMonotone == Spec => HeadersMonotone
<1> DEFINE Monotone == type = "headers" /\ None \notin {sent, sent'}
                         /\ Extends(sent'.headers, sent.headers) => matched \subseteq matched'
<1>1. Current /\ [Next]_vars => [Monotone]_vars
  <2> SUFFICES ASSUME Current, Next, type = "headers", sent # None, sent' # None,
                      Extends(sent'.headers, sent.headers)
               PROVE  matched \subseteq matched'
    BY DEF vars
  <2>1. PICK m \in Message(type) : Publish(m)
    BY DEF Next, AddBinding, RemoveBinding
  <2>2. matched = Route(sent) /\ matched' = Route(m) /\ sent' = m
    BY <2>1 DEF Current, Publish
  <2>3. ASSUME NEW b \in ToSet(list), Matches(sent, b) PROVE Matches(m, b)
    BY <2>2, <2>3, MoreHeaders DEF Matches
  <2> QED
    BY <2>2, <2>3 DEF Route
<1> QED
  BY <1>1, CurrentInvariant, PTL DEF Spec, HeadersMonotone
=============================================================================
