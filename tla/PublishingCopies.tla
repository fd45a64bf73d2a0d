-------------------------- MODULE PublishingCopies --------------------------
(***************************************************************************)
(* Proof that dead lettering in Publishing moves a message and does not    *)
(* duplicate it (DeadLetteredIsGone).  The property speaks of what queues  *)
(* and clients hold; what is inductive speaks of the frames of the call as *)
(* well, where a message is between the queue it died in and the queues it *)
(* is published to.                                                        *)
(***************************************************************************)
EXTENDS PublishingProofs

-----------------------------------------------------------------------------
(* Copies.  A copy of a message has come its way from queue to queue, by the
   queues it died in to the one it is in or about to enter.  No copy's way leads
   on from where another copy of the message is: the copies of a message are the
   leaves of a tree. *)
Copy(kind, q, i, m) == [kind |-> kind, queue |-> q, at |-> i, id |-> m.id, trail |-> m.trail]

StoredIn(q, s) == {Copy("stored", q, i, s[i]) : i \in DOMAIN s}
InStores(st) == UNION {StoredIn(q, st[q]) : q \in Queues}
InHands(un) == {Copy("unacked", un[i].queue, i, un[i].message) : i \in DOMAIN un}

(* The queues the message of a frame is in or bound for; a frame has the same
   place, counted from the bottom, whatever is called and returns above it. *)
Bound(f) == IF f.do = "dead" THEN {f.queue} ELSE IF f.do = "enqueue" THEN f.todo ELSE {}
Above(s, n) ==
  UNION {{Copy("moving", q, n + Len(s) + 1 - i, s[i].message) : q \in Bound(s[i])} : i \in DOMAIN s}

Copies == InStores(store) \cup InHands(unacked) \cup Above(call, 0)

Stop(x, i) == IF i <= Len(x.trail) THEN x.trail[i].queue ELSE x.queue
Under(x, y) ==
  /\ x.id = y.id /\ Len(x.trail) <= Len(y.trail)
  /\ \A i \in 1 .. Len(x.trail) + 1 : Stop(x, i) = Stop(y, i)

Apart(C) == \A x, y \in C : x # y => ~Under(x, y)
Numbered(C, n) == \A x \in C : x.id <= n

ACopy == [kind : {"stored", "unacked", "moving", "apart"}, queue : Queues, at : Int, id : Ids,
          trail : Seq(Death)]

(* Two ways of which one goes on along a third. *)
LEMMA UnderSame ==
  ASSUME NEW x \in ACopy, NEW y \in ACopy, NEW z \in ACopy, Under(x, z), Under(y, z)
  PROVE  Under(x, y) \/ Under(y, x)
<1>1. Len(x.trail) \in Nat /\ Len(y.trail) \in Nat /\ Len(z.trail) \in Nat
  <2>1. x.trail \in Seq(Death) /\ y.trail \in Seq(Death) /\ z.trail \in Seq(Death)
    BY DEF ACopy
  <2> HIDE DEF Death
  <2> QED
    BY <2>1, LenProperties
<1>2. CASE Len(x.trail) <= Len(y.trail)
  <2>1. \A i \in 1 .. Len(x.trail) + 1 : i \in 1 .. Len(y.trail) + 1
    BY <1>1, <1>2
  <2> QED
    BY <1>2, <2>1 DEF Under
<1>3. CASE Len(y.trail) <= Len(x.trail)
  <2>1. \A i \in 1 .. Len(y.trail) + 1 : i \in 1 .. Len(x.trail) + 1
    BY <1>1, <1>3
  <2> QED
    BY <1>3, <2>1 DEF Under
<1> QED
  BY <1>1, <1>2, <1>3

LEMMA UnderTransitive ==
  ASSUME NEW x \in ACopy, NEW y \in ACopy, NEW z \in ACopy, Under(x, y), Under(y, z)
  PROVE  Under(x, z)
<1>1. Len(x.trail) \in Nat /\ Len(y.trail) \in Nat /\ Len(z.trail) \in Nat
  <2>1. x.trail \in Seq(Death) /\ y.trail \in Seq(Death) /\ z.trail \in Seq(Death)
    BY DEF ACopy
  <2> HIDE DEF Death
  <2> QED
    BY <2>1, LenProperties
<1>2. \A i \in 1 .. Len(x.trail) + 1 : i \in 1 .. Len(y.trail) + 1
  BY <1>1 DEF Under
<1>3. Len(x.trail) <= Len(z.trail)
  BY <1>1 DEF Under
<1> QED
  BY <1>2, <1>3 DEF Under

(* The copies of D come from those of C, each on its own or further on from the
   one it comes from than the others that do. *)
Follows(C, D, F) ==
  /\ F \in [D -> C]
  /\ \A x \in D : Under(F[x], x)
  /\ \A x, y \in D : x # y /\ F[x] = F[y] => ~Under(x, y)

LEMMA FollowsApart ==
  ASSUME NEW C \in SUBSET ACopy, NEW D \in SUBSET ACopy, NEW F, Follows(C, D, F), Apart(C)
  PROVE  Apart(D)
<1> SUFFICES ASSUME NEW x \in D, NEW y \in D, x # y, Under(x, y) PROVE FALSE
  BY DEF Apart
<1>1. F[x] \in C /\ F[y] \in C /\ Under(F[x], x) /\ Under(F[y], y) /\ F[x] # F[y]
  BY DEF Follows
<1>2. Under(F[x], y)
  BY <1>1, UnderTransitive
<1>3. Under(F[x], F[y]) \/ Under(F[y], F[x])
  BY <1>1, <1>2, UnderSame
<1> QED
  BY <1>1, <1>3 DEF Apart

LEMMA FollowsNumbered ==
  ASSUME NEW C \in SUBSET ACopy, NEW D \in SUBSET ACopy, NEW F, Follows(C, D, F), NEW n, Numbered(C, n)
  PROVE  Numbered(D, n)
BY DEF Follows, Under, Numbered

(* Copies that change their places only. *)
Same(x, y) == x.id = y.id /\ x.trail = y.trail /\ x.queue = y.queue
Moves(C, D) ==
  \E F \in [D -> C] : /\ \A x \in D : Same(F[x], x)
                      /\ \A x, y \in D : F[x] = F[y] => x = y

LEMMA MovesApart ==
  ASSUME NEW C \in SUBSET ACopy, NEW D \in SUBSET ACopy, Moves(C, D), Apart(C), NEW n, Numbered(C, n)
  PROVE  Apart(D) /\ Numbered(D, n)
<1>1. PICK F \in [D -> C] : /\ \A x \in D : Same(F[x], x)
                            /\ \A x, y \in D : F[x] = F[y] => x = y
  BY DEF Moves
<1>2. \A x \in D : Under(F[x], x)
  <2> SUFFICES ASSUME NEW x \in D PROVE Under(F[x], x)
    OBVIOUS
  <2>1. F[x] \in ACopy /\ x \in ACopy /\ Same(F[x], x)
    BY <1>1
  <2>2. Len(x.trail) \in Nat
    <3>1. x.trail \in Seq(Death)
      BY DEF ACopy
    <3> HIDE DEF Death
    <3> QED
      BY <3>1, LenProperties
  <2> QED
    BY <2>1, <2>2 DEF Same, Under, Stop
<1>3. Follows(C, D, F)
  BY <1>1, <1>2 DEF Follows
<1> QED
  BY <1>3, FollowsApart, FollowsNumbered

LEMMA MovesInto ==
  ASSUME NEW C, NEW D, D \subseteq C
  PROVE  Moves(C, D)
<1> DEFINE F == [x \in D |-> x]
<1>1. F \in [D -> C] /\ \A x \in D : F[x] = x
  OBVIOUS
<1> HIDE DEF F
<1>2. \A x \in D : Same(F[x], x)
  BY <1>1 DEF Same
<1> QED
  BY <1>1, <1>2 DEF Moves

LEMMA MovesTogether ==
  ASSUME NEW A, NEW B, NEW C, NEW D, Moves(A, C), Moves(B, D), A \cap B = {}
  PROVE  Moves(A \cup B, C \cup D)
<1>1. PICK F \in [C -> A] : /\ \A x \in C : Same(F[x], x)
                            /\ \A x, y \in C : F[x] = F[y] => x = y
  BY DEF Moves
<1>2. PICK G \in [D -> B] : /\ \A x \in D : Same(G[x], x)
                            /\ \A x, y \in D : G[x] = G[y] => x = y
  BY DEF Moves
<1> DEFINE H == [x \in C \cup D |-> IF x \in C THEN F[x] ELSE G[x]]
<1>3. H \in [C \cup D -> A \cup B]
  BY <1>1, <1>2
<1>4. \A x \in C \cup D : H[x] = IF x \in C THEN F[x] ELSE G[x]
  OBVIOUS
<1> HIDE DEF H
<1>5. \A x \in C \cup D : Same(H[x], x)
  BY <1>1, <1>2, <1>4
<1>6. \A x, y \in C \cup D : H[x] = H[y] => x = y
  <2> SUFFICES ASSUME NEW x \in C \cup D, NEW y \in C \cup D, H[x] = H[y] PROVE x = y
    OBVIOUS
  <2>1. /\ x \in C => H[x] \in A /\ H[x] = F[x]
        /\ x \notin C => H[x] \in B /\ H[x] = G[x] /\ x \in D
        /\ y \in C => H[y] \in A /\ H[y] = F[y]
        /\ y \notin C => H[y] \in B /\ H[y] = G[y] /\ y \in D
    BY <1>1, <1>2, <1>4
  <2>2. CASE x \in C /\ y \in C
    BY <1>1, <2>1, <2>2
  <2>3. CASE x \notin C /\ y \notin C
    BY <1>2, <2>1, <2>3
  <2> QED
    BY <2>1, <2>2, <2>3
<1> QED
  BY <1>3, <1>5, <1>6 DEF Moves

LEMMA MovesOn ==
  ASSUME NEW B, NEW C, NEW D, Moves(B, C), Moves(C, D)
  PROVE  Moves(B, D)
<1>1. PICK F \in [C -> B] : /\ \A x \in C : Same(F[x], x)
                            /\ \A x, y \in C : F[x] = F[y] => x = y
  BY DEF Moves
<1>2. PICK G \in [D -> C] : /\ \A x \in D : Same(G[x], x)
                            /\ \A x, y \in D : G[x] = G[y] => x = y
  BY DEF Moves
<1> DEFINE H == [x \in D |-> F[G[x]]]
<1>3. H \in [D -> B] /\ \A x \in D : H[x] = F[G[x]] /\ G[x] \in C
  BY <1>1, <1>2
<1> HIDE DEF H
<1>4. \A x \in D : Same(H[x], x)
  BY <1>1, <1>2, <1>3 DEF Same
<1>5. \A x, y \in D : H[x] = H[y] => x = y
  BY <1>1, <1>2, <1>3
<1> QED
  BY <1>3, <1>4, <1>5 DEF Moves

(* Copies that are listed: those at the places e of a list, each listed once. *)
Along(I, J, L, M, e) ==
  /\ e \in [J -> I]
  /\ \A i, j \in I : L[i] = L[j] => i = j
  /\ \A i, j \in J : e[i] = e[j] => i = j
  /\ \A j \in J : Same(L[e[j]], M[j])

LEMMA MovesAlong ==
  ASSUME NEW I, NEW J, NEW L, NEW M, NEW e, Along(I, J, L, M, e)
  PROVE  Moves({L[e[j]] : j \in J}, {M[j] : j \in J})
<1> DEFINE C == {L[e[j]] : j \in J}
           D == {M[j] : j \in J}
           n(x) == CHOOSE j \in J : M[j] = x
           F == [x \in D |-> L[e[n(x)]]]
<1>0. /\ e \in [J -> I]
      /\ \A i, j \in I : L[i] = L[j] => i = j
      /\ \A i, j \in J : e[i] = e[j] => i = j
      /\ \A j \in J : Same(L[e[j]], M[j])
  BY DEF Along
<1>1. \A x \in D : n(x) \in J /\ M[n(x)] = x
  OBVIOUS
<1>2. \A x \in D : F[x] = L[e[n(x)]]
  OBVIOUS
<1> HIDE DEF n
<1>3. F \in [D -> C]
  BY <1>1
<1> HIDE DEF F, C
<1>4. \A x \in D : Same(F[x], x)
  BY <1>0, <1>1, <1>2
<1>5. \A x, y \in D : F[x] = F[y] => x = y
  <2> SUFFICES ASSUME NEW x \in D, NEW y \in D, F[x] = F[y] PROVE x = y
    OBVIOUS
  <2>1. n(x) \in J /\ n(y) \in J /\ M[n(x)] = x /\ M[n(y)] = y /\ L[e[n(x)]] = L[e[n(y)]]
    BY <1>1, <1>2
  <2>2. e[n(x)] = e[n(y)]
    BY <1>0, <2>1
  <2>3. n(x) = n(y)
    BY <1>0, <2>1, <2>2
  <2> QED
    BY <2>1, <2>3
<1>6. Moves(C, D)
  BY <1>3, <1>4, <1>5 DEF Moves
<1> QED
  BY <1>6 DEF C

Part(X, Y, R, C, D) == X \cap R = {} /\ C = X \cup R /\ D \subseteq Y \cup R

LEMMA MovesPart ==
  ASSUME NEW X, NEW Y, NEW R, NEW C, NEW D, Moves(X, Y), Part(X, Y, R, C, D)
  PROVE  Moves(C, D)
<1>0. X \cap R = {} /\ C = X \cup R /\ D \subseteq Y \cup R
  BY DEF Part
<1>1. Moves(R, R)
  BY MovesInto
<1>2. Moves(C, Y \cup R)
  BY <1>0, <1>1, MovesTogether
<1>3. Moves(Y \cup R, D)
  BY <1>0, MovesInto
<1> QED
  BY <1>2, <1>3, MovesOn

(* a and b are at different places of s. *)
SplitsAlong(s, a, b, e, f) ==
  /\ e \in [1 .. Len(a) -> 1 .. Len(s)] /\ f \in [1 .. Len(b) -> 1 .. Len(s)]
  /\ \A i, j \in 1 .. Len(a) : e[i] = e[j] => i = j
  /\ \A i, j \in 1 .. Len(b) : f[i] = f[j] => i = j
  /\ \A i \in 1 .. Len(a) : \A j \in 1 .. Len(b) : e[i] # f[j]
  /\ \A i \in 1 .. Len(a) : a[i] = s[e[i]]
  /\ \A j \in 1 .. Len(b) : b[j] = s[f[j]]

Splits(s, a, b) == \E e, f : SplitsAlong(s, a, b, e, f)

Listed(s, a, b, L, M, N) ==
  /\ \A i, j \in 1 .. Len(s) : L[i] = L[j] => i = j
  /\ \A i \in 1 .. Len(a) : \A k \in 1 .. Len(s) : a[i] = s[k] => Same(L[k], M[i])
  /\ \A j \in 1 .. Len(b) : \A k \in 1 .. Len(s) : b[j] = s[k] => Same(L[k], N[j])

LEMMA SplitsMove ==
  ASSUME NEW s, NEW a, NEW b, Splits(s, a, b), NEW L, NEW M, NEW N, Listed(s, a, b, L, M, N)
  PROVE  Moves({L[k] : k \in 1 .. Len(s)}, {M[i] : i \in 1 .. Len(a)} \cup {N[j] : j \in 1 .. Len(b)})
<1> DEFINE I == 1 .. Len(s)
           A == 1 .. Len(a)
           B == 1 .. Len(b)
<1>1. PICK e \in [A -> I], f \in [B -> I] :
        /\ \A i, j \in A : e[i] = e[j] => i = j
        /\ \A i, j \in B : f[i] = f[j] => i = j
        /\ \A i \in A : \A j \in B : e[i] # f[j]
        /\ \A i \in A : a[i] = s[e[i]]
        /\ \A j \in B : b[j] = s[f[j]]
  BY DEF Splits, SplitsAlong
<1>0. /\ \A i, j \in 1 .. Len(s) : L[i] = L[j] => i = j
      /\ \A i \in 1 .. Len(a) : \A k \in 1 .. Len(s) : a[i] = s[k] => Same(L[k], M[i])
      /\ \A j \in 1 .. Len(b) : \A k \in 1 .. Len(s) : b[j] = s[k] => Same(L[k], N[j])
  BY DEF Listed
<1> HIDE DEF I, A, B
<1>2. \A i, j \in I : L[i] = L[j] => i = j
  BY <1>0 DEF I
<1>3. \A i \in A : Same(L[e[i]], M[i])
  BY <1>0, <1>1 DEF I, A
<1>4. \A j \in B : Same(L[f[j]], N[j])
  BY <1>0, <1>1 DEF I, B
<1> DEFINE C == {L[e[i]] : i \in A}
           D == {L[f[j]] : j \in B}
<1>5. Moves(C, {M[i] : i \in A})
  <2>1. Along(I, A, L, M, e)
    BY <1>1, <1>2, <1>3 DEF Along
  <2> QED
    BY <2>1, MovesAlong
<1>6. Moves(D, {N[j] : j \in B})
  <2>1. Along(I, B, L, N, f)
    BY <1>1, <1>2, <1>4 DEF Along
  <2> QED
    BY <2>1, MovesAlong
<1>7. C \cap D = {}
  <2> SUFFICES ASSUME NEW i \in A, NEW j \in B, L[e[i]] = L[f[j]] PROVE FALSE
    OBVIOUS
  <2>1. e[i] \in I /\ f[j] \in I
    BY <1>1
  <2> QED
    BY <1>1, <1>2, <2>1
<1>8. C \cup D \subseteq {L[k] : k \in I}
  BY <1>1
<1> HIDE DEF C, D
<1>9. Moves(C \cup D, {M[i] : i \in A} \cup {N[j] : j \in B})
  BY <1>5, <1>6, <1>7, MovesTogether
<1>10. Moves({L[k] : k \in I}, C \cup D)
  BY <1>8, MovesInto
<1>11. Moves({L[k] : k \in I}, {M[i] : i \in A} \cup {N[j] : j \in B})
  BY <1>9, <1>10, MovesOn
<1> QED
  BY <1>11 DEF I, A, B

LEMMA SplitsAt ==
  ASSUME NEW T, NEW s \in Seq(T), NEW n \in 0 .. Len(s)
  PROVE  Splits(s, SubSeq(s, n + 1, Len(s)), SubSeq(s, 1, n))
<1> DEFINE a == SubSeq(s, n + 1, Len(s))
           b == SubSeq(s, 1, n)
           e == [i \in 1 .. Len(s) - n |-> n + i]
           f == [i \in 1 .. n |-> i]
<1>1. Len(s) \in Nat
  BY LenProperties
<1>2. /\ 1 \in 1 .. Len(s) + 1 /\ n + 1 \in 1 .. Len(s) + 1 /\ 1 <= n + 1
      /\ Len(s) \in 0 .. Len(s) /\ n + 1 <= Len(s) + 1
  BY <1>1
<1>3. Len(a) = Len(s) - (n + 1) + 1 /\ \A i \in 1 .. Len(a) : a[i] = s[n + 1 + i - 1]
  BY <1>2, Piece
<1>4. Len(b) = n - 1 + 1 /\ \A i \in 1 .. Len(b) : b[i] = s[1 + i - 1]
  BY <1>2, Piece
<1> HIDE DEF a, b
<1>5. Len(a) = Len(s) - n /\ Len(b) = n
  <2>1. Len(a) = Len(s) - n
    BY <1>1, <1>3
  <2>2. Len(b) = n
    BY <1>1, <1>4
  <2> QED
    BY <2>1, <2>2
<1>6. \A i \in 1 .. Len(a) : n + 1 + i - 1 = n + i /\ n + i \in 1 .. Len(s) /\ n + i > n
  BY <1>1, <1>5
<1>7. \A i \in 1 .. Len(b) : 1 + i - 1 = i /\ i \in 1 .. Len(s) /\ i <= n
  BY <1>1, <1>5
<1>8. e \in [1 .. Len(a) -> 1 .. Len(s)] /\ f \in [1 .. Len(b) -> 1 .. Len(s)]
  BY <1>5, <1>6, <1>7
<1>9. (\A i \in 1 .. Len(a) : e[i] = n + i) /\ (\A i \in 1 .. Len(b) : f[i] = i)
  BY <1>5
<1> HIDE DEF e, f
<1>10. \A i \in 1 .. Len(a) : a[i] = s[e[i]]
  BY <1>3, <1>6, <1>9
<1>11. \A i \in 1 .. Len(b) : b[i] = s[f[i]]
  BY <1>4, <1>7, <1>9
<1>12. \A i, j \in 1 .. Len(a) : e[i] = e[j] => i = j
  BY <1>1, <1>5, <1>9
<1>13. \A i, j \in 1 .. Len(b) : f[i] = f[j] => i = j
  BY <1>9
<1>14. \A i \in 1 .. Len(a) : \A j \in 1 .. Len(b) : e[i] # f[j]
  <2> SUFFICES ASSUME NEW i \in 1 .. Len(a), NEW j \in 1 .. Len(b) PROVE n + i # j
    BY <1>9
  <2>1. n + i > n /\ j <= n
    BY <1>6, <1>7
  <2> QED
    BY <1>1, <2>1
<1>15. SplitsAlong(s, a, b, e, f)
  BY <1>8, <1>10, <1>11, <1>12, <1>13, <1>14 DEF SplitsAlong
<1> QED
  BY <1>15 DEF Splits, a, b

LEMMA SplitsByOnly ==
  ASSUME NEW T, NEW s \in Seq(T), NEW A, NEW B, A \cap B = {}
  PROVE  Splits(s, Only(s, A), Only(s, B))
<1> DEFINE a == Only(s, A)
           b == Only(s, B)
<1>1. PICK e : Picks(e, a, s, Len(s), A)
  BY OnlyPicks
<1>2. PICK f : Picks(f, b, s, Len(s), B)
  BY OnlyPicks
<1>3. Len(a) \in Nat /\ Len(b) \in Nat /\ Len(s) \in Nat
  BY OnlyHas, LenProperties
<1> HIDE DEF a, b
<1>4. e \in [1 .. Len(a) -> 1 .. Len(s)] /\ f \in [1 .. Len(b) -> 1 .. Len(s)]
  BY <1>1, <1>2 DEF Picks
<1>5. \A i \in 1 .. Len(a) : e[i] \in 1 .. Len(s) /\ a[i] = s[e[i]] /\ a[i] \in A
  BY <1>1, <1>4 DEF Picks
<1>6. \A i \in 1 .. Len(b) : f[i] \in 1 .. Len(s) /\ b[i] = s[f[i]] /\ b[i] \in B
  BY <1>2, <1>4 DEF Picks
<1>7. \A i, j \in 1 .. Len(a) : i < j => e[i] < e[j]
  BY <1>1 DEF Picks
<1>8. \A i, j \in 1 .. Len(b) : i < j => f[i] < f[j]
  BY <1>2 DEF Picks
<1>9. \A i, j \in 1 .. Len(a) : e[i] = e[j] => i = j
  <2> SUFFICES ASSUME NEW i \in 1 .. Len(a), NEW j \in 1 .. Len(a), e[i] = e[j], i # j PROVE FALSE
    OBVIOUS
  <2>1. e[i] \in Int /\ e[j] \in Int
    BY <1>5
  <2>2. i < j \/ j < i
    BY <1>3
  <2> QED
    BY <1>7, <2>1, <2>2
<1>10. \A i, j \in 1 .. Len(b) : f[i] = f[j] => i = j
  <2> SUFFICES ASSUME NEW i \in 1 .. Len(b), NEW j \in 1 .. Len(b), f[i] = f[j], i # j PROVE FALSE
    OBVIOUS
  <2>1. f[i] \in Int /\ f[j] \in Int
    BY <1>6
  <2>2. i < j \/ j < i
    BY <1>3
  <2> QED
    BY <1>8, <2>1, <2>2
<1>11. \A i \in 1 .. Len(a) : \A j \in 1 .. Len(b) : e[i] # f[j]
  BY <1>5, <1>6, SMTT(30)
<1>12. SplitsAlong(s, a, b, e, f)
  BY <1>4, <1>5, <1>6, <1>9, <1>10, <1>11 DEF SplitsAlong
<1> QED
  BY <1>12 DEF Splits, a, b

LEMMA SplitsOut ==
  ASSUME NEW T, NEW s \in Seq(T), NEW n \in 1 .. Len(s)
  PROVE  Splits(s, RemoveAt(s, n), <<s[n]>>)
<1> DEFINE a == RemoveAt(s, n)
           b == <<s[n]>>
           e == [i \in 1 .. Len(s) - 1 |-> IF i < n THEN i ELSE i + 1]
           f == [i \in 1 .. 1 |-> n]
<1>1. Len(s) \in Nat
  BY LenProperties
<1>2. Len(a) = Len(s) - 1 /\ \A i \in 1 .. Len(s) - 1 : a[i] = IF i < n THEN s[i] ELSE s[i + 1]
  BY RemovedAt
<1>3. Len(b) = 1 /\ b[1] = s[n] /\ \A i \in 1 .. 1 : i = 1
  OBVIOUS
<1> HIDE DEF a, b
<1>4. \A i \in 1 .. Len(a) : (IF i < n THEN i ELSE i + 1) \in 1 .. Len(s)
  BY <1>1, <1>2
<1>5. e \in [1 .. Len(a) -> 1 .. Len(s)] /\ f \in [1 .. Len(b) -> 1 .. Len(s)]
  BY <1>2, <1>3, <1>4
<1>6. (\A i \in 1 .. Len(a) : e[i] = IF i < n THEN i ELSE i + 1) /\ (\A i \in 1 .. Len(b) : f[i] = n)
  BY <1>2, <1>3
<1> HIDE DEF e, f
<1>7. \A i \in 1 .. Len(a) : a[i] = s[e[i]] /\ e[i] # n
  BY <1>2, <1>6
<1>8. \A i, j \in 1 .. Len(a) : e[i] = e[j] => i = j
  BY <1>1, <1>2, <1>6
<1>9. /\ \A i \in 1 .. Len(b) : b[i] = s[f[i]] /\ f[i] = n
      /\ \A i, j \in 1 .. Len(b) : i = j
  BY <1>3, <1>6
<1>10. SplitsAlong(s, a, b, e, f)
  <2>1. \A i \in 1 .. Len(a) : \A j \in 1 .. Len(b) : e[i] # f[j]
    BY <1>7, <1>9
  <2>2. \A i, j \in 1 .. Len(b) : f[i] = f[j] => i = j
    BY <1>9
  <2> QED
    BY <1>5, <1>7, <1>8, <1>9, <2>1, <2>2 DEF SplitsAlong
<1> QED
  BY <1>10 DEF Splits, a, b

LEMMA SplitsOnly ==
  ASSUME NEW T, NEW s, NEW a, NEW b \in Seq(T), Splits(s, a, b), NEW S
  PROVE  Splits(s, a, Only(b, S))
<1> DEFINE d == Only(b, S)
<1>1. PICK e \in [1 .. Len(a) -> 1 .. Len(s)], f \in [1 .. Len(b) -> 1 .. Len(s)] :
        /\ \A i, j \in 1 .. Len(a) : e[i] = e[j] => i = j
        /\ \A i, j \in 1 .. Len(b) : f[i] = f[j] => i = j
        /\ \A i \in 1 .. Len(a) : \A j \in 1 .. Len(b) : e[i] # f[j]
        /\ \A i \in 1 .. Len(a) : a[i] = s[e[i]]
        /\ \A j \in 1 .. Len(b) : b[j] = s[f[j]]
  BY DEF Splits, SplitsAlong
<1>2. Splits(b, Only(b, {}), d)
  BY SplitsByOnly
<1>3. PICK g \in [1 .. Len(d) -> 1 .. Len(b)] :
        /\ \A i, j \in 1 .. Len(d) : g[i] = g[j] => i = j
        /\ \A j \in 1 .. Len(d) : d[j] = b[g[j]]
  BY <1>2 DEF Splits, SplitsAlong
<1> HIDE DEF d
<1> DEFINE h == [j \in 1 .. Len(d) |-> f[g[j]]]
<1>4. h \in [1 .. Len(d) -> 1 .. Len(s)] /\ \A j \in 1 .. Len(d) : h[j] = f[g[j]] /\ g[j] \in 1 .. Len(b)
  BY <1>1, <1>3
<1> HIDE DEF h
<1>5. \A i, j \in 1 .. Len(d) : h[i] = h[j] => i = j
  BY <1>1, <1>3, <1>4
<1>6. \A i \in 1 .. Len(a) : \A j \in 1 .. Len(d) : e[i] # h[j]
  BY <1>1, <1>4
<1>7. \A j \in 1 .. Len(d) : d[j] = s[h[j]]
  <2> TAKE j \in 1 .. Len(d)
  <2>1. d[j] = b[g[j]] /\ h[j] = f[g[j]] /\ g[j] \in 1 .. Len(b)
    BY <1>3, <1>4
  <2> QED
    BY <1>1, <2>1
<1>8. SplitsAlong(s, a, d, e, h)
  BY <1>1, <1>4, <1>5, <1>6, <1>7 DEF SplitsAlong
<1> QED
  BY <1>8 DEF Splits, d

LEMMA CopyFields ==
  ASSUME NEW kind, NEW q, NEW i, NEW m
  PROVE  LET x == Copy(kind, q, i, m)
         IN  x.kind = kind /\ x.queue = q /\ x.at = i /\ x.id = m.id /\ x.trail = m.trail
BY DEF Copy

LEMMA CopyType ==
  ASSUME NEW kind \in {"stored", "unacked", "moving", "apart"}, NEW q \in Queues, NEW i \in Int,
         NEW m \in Message
  PROVE  Copy(kind, q, i, m) \in ACopy
<1>1. m.id \in Ids /\ m.trail \in Seq(Death)
  BY DEF Message
<1> QED
  BY <1>1 DEF Copy, ACopy

LEMMA StoredInAre ==
  ASSUME NEW q \in Queues, NEW s \in Seq(Message)
  PROVE  /\ StoredIn(q, s) \subseteq ACopy
         /\ \A x \in StoredIn(q, s) : x.kind = "stored" /\ x.queue = q
         /\ StoredIn(q, s) = {[i \in 1 .. Len(s) |-> Copy("stored", q, i, s[i])][k] : k \in 1 .. Len(s)}
<1>1. DOMAIN s = 1 .. Len(s) /\ Len(s) \in Nat /\ \A i \in 1 .. Len(s) : s[i] \in Message
  BY LenProperties, ElementOfSeq
<1>2. \A x \in StoredIn(q, s) : x.kind = "stored" /\ x.queue = q
  BY CopyFields DEF StoredIn
<1>3. \A i \in 1 .. Len(s) : Copy("stored", q, i, s[i]) \in ACopy
  BY <1>1, CopyType
<1>4. StoredIn(q, s) \subseteq ACopy
  BY <1>1, <1>3 DEF StoredIn
<1>5. StoredIn(q, s) = {[i \in 1 .. Len(s) |-> Copy("stored", q, i, s[i])][k] : k \in 1 .. Len(s)}
  BY <1>1 DEF StoredIn
<1> QED
  BY <1>2, <1>4, <1>5

LEMMA InHandsAre ==
  ASSUME NEW s \in Seq(Delivery)
  PROVE  /\ InHands(s) \subseteq ACopy
         /\ \A x \in InHands(s) : x.kind = "unacked" /\ x.at \in 1 .. Len(s)
         /\ InHands(s) = {[i \in 1 .. Len(s) |-> Copy("unacked", s[i].queue, i, s[i].message)][k] : k \in 1 .. Len(s)}
<1>1. DOMAIN s = 1 .. Len(s) /\ Len(s) \in Nat /\ \A i \in 1 .. Len(s) : s[i] \in Delivery
  BY LenProperties, ElementOfSeq
<1>2. \A x \in InHands(s) : x.kind = "unacked" /\ x.at \in 1 .. Len(s)
  BY <1>1, CopyFields DEF InHands
<1>3. \A i \in 1 .. Len(s) : Copy("unacked", s[i].queue, i, s[i].message) \in ACopy
  <2> TAKE i \in 1 .. Len(s)
  <2>1. s[i].queue \in Queues /\ s[i].message \in Message
    BY <1>1 DEF Delivery
  <2> QED
    BY <2>1, CopyType
<1>4. InHands(s) \subseteq ACopy
  BY <1>1, <1>3 DEF InHands
<1>5. InHands(s) = {[i \in 1 .. Len(s) |-> Copy("unacked", s[i].queue, i, s[i].message)][k] : k \in 1 .. Len(s)}
  BY <1>1 DEF InHands
<1> QED
  BY <1>2, <1>4, <1>5

InFrame(x, f, n) == \E q \in Bound(f) : x = Copy("moving", q, n, f.message)

LEMMA AboveAre ==
  ASSUME NEW s \in Seq(Proper), NEW n \in Int
  PROVE  /\ Above(s, n) \subseteq ACopy
         /\ \A x \in Above(s, n) : /\ x.kind = "moving" /\ x.at \in Int
                                   /\ n + 1 <= x.at /\ x.at <= n + Len(s)
         /\ \A x : x \in Above(s, n) <=>
              \E i \in 1 .. Len(s) : InFrame(x, s[i], n + Len(s) + 1 - i)
<1>1. DOMAIN s = 1 .. Len(s) /\ Len(s) \in Nat /\ \A i \in 1 .. Len(s) : s[i] \in Proper
  <2> HIDE DEF Proper
  <2> QED
    BY LenProperties, ElementOfSeq
<1>2. \A x : x \in Above(s, n) <=>
              \E i \in 1 .. Len(s) : InFrame(x, s[i], n + Len(s) + 1 - i)
  <2> TAKE x
  <2>1. ASSUME x \in Above(s, n)
        PROVE  \E i \in 1 .. Len(s) : InFrame(x, s[i], n + Len(s) + 1 - i)
    <3>1. PICK i \in DOMAIN s : x \in {Copy("moving", q, n + Len(s) + 1 - i, s[i].message) : q \in Bound(s[i])}
      BY <2>1, Zenon DEF Above
    <3>2. InFrame(x, s[i], n + Len(s) + 1 - i)
      BY <3>1, Zenon DEF InFrame
    <3> QED
      BY <1>1, <3>2
  <2>2. ASSUME NEW i \in 1 .. Len(s), InFrame(x, s[i], n + Len(s) + 1 - i)
        PROVE  x \in Above(s, n)
    <3>1. x \in {Copy("moving", q, n + Len(s) + 1 - i, s[i].message) : q \in Bound(s[i])}
      BY <2>2, Zenon DEF InFrame
    <3>2. i \in DOMAIN s
      BY <1>1
    <3> QED
      BY <3>1, <3>2, Zenon DEF Above
  <2> QED
    BY <2>1, <2>2
<1>3. ASSUME NEW x \in Above(s, n)
      PROVE  x \in ACopy /\ x.kind = "moving" /\ x.at \in Int /\ n + 1 <= x.at /\ x.at <= n + Len(s)
  <2>1. PICK i \in 1 .. Len(s) : InFrame(x, s[i], n + Len(s) + 1 - i)
    BY <1>2
  <2>2. PICK q \in Bound(s[i]) : x = Copy("moving", q, n + Len(s) + 1 - i, s[i].message)
    BY <2>1 DEF InFrame
  <2>3. q \in Queues /\ s[i].message \in Message
    <3>1. s[i] \in Proper
      BY <1>1
    <3> QED
      BY <3>1, FrameFields DEF Bound
  <2>4. n + Len(s) + 1 - i \in Int /\ n + 1 <= n + Len(s) + 1 - i /\ n + Len(s) + 1 - i <= n + Len(s)
    BY <1>1
  <2>5. x \in ACopy
    BY <2>2, <2>3, <2>4, CopyType
  <2>6. x.kind = "moving" /\ x.at = n + Len(s) + 1 - i
    BY <2>2, CopyFields
  <2> QED
    BY <2>4, <2>5, <2>6
<1> QED
  BY <1>2, <1>3

LEMMA AboveNone == \A n : Above(<<>>, n) = {}
BY DEF Above

LEMMA AboveConcat ==
  ASSUME NEW s \in Seq(Proper), NEW t \in Seq(Proper), NEW n \in Int
  PROVE  Above(s \o t, n) = Above(s, n + Len(t)) \cup Above(t, n)
<1> DEFINE u == s \o t
<1>1. /\ u \in Seq(Proper) /\ Len(u) = Len(s) + Len(t) /\ Len(s) \in Nat /\ Len(t) \in Nat
      /\ \A i \in 1 .. Len(s) + Len(t) : u[i] = IF i <= Len(s) THEN s[i] ELSE t[i - Len(s)]
  <2> HIDE DEF Proper
  <2> QED
    BY ConcatProperties, LenProperties
<1> HIDE DEF u
<1>2. n + Len(t) \in Int
  BY <1>1
<1>3. ASSUME NEW x \in Above(u, n) PROVE x \in Above(s, n + Len(t)) \cup Above(t, n)
  <2>1. PICK i \in 1 .. Len(u) : InFrame(x, u[i], n + Len(u) + 1 - i)
    BY <1>1, AboveAre
  <2>2. CASE i <= Len(s)
    <3>1. i \in 1 .. Len(s) /\ u[i] = s[i] /\ n + Len(u) + 1 - i = n + Len(t) + Len(s) + 1 - i
      BY <1>1, <2>2
    <3> QED
      BY <1>2, <2>1, <3>1, AboveAre
  <2>3. CASE i > Len(s)
    <3> DEFINE k == i - Len(s)
    <3>1. k \in 1 .. Len(t) /\ u[i] = t[k] /\ n + Len(u) + 1 - i = n + Len(t) + 1 - k
      BY <1>1, <2>3
    <3> HIDE DEF k
    <3> QED
      BY <2>1, <3>1, AboveAre
  <2> QED
    BY <1>1, <2>2, <2>3
<1>4. ASSUME NEW x \in Above(s, n + Len(t)) PROVE x \in Above(u, n)
  <2>1. PICK i \in 1 .. Len(s) : InFrame(x, s[i], n + Len(t) + Len(s) + 1 - i)
    BY <1>2, AboveAre
  <2>2. i \in 1 .. Len(u) /\ u[i] = s[i] /\ n + Len(u) + 1 - i = n + Len(t) + Len(s) + 1 - i
    BY <1>1
  <2> QED
    BY <1>1, <2>1, <2>2, AboveAre
<1>5. ASSUME NEW x \in Above(t, n) PROVE x \in Above(u, n)
  <2>1. PICK i \in 1 .. Len(t) : InFrame(x, t[i], n + Len(t) + 1 - i)
    BY AboveAre
  <2> DEFINE k == i + Len(s)
  <2>2. k \in 1 .. Len(u) /\ u[k] = t[i] /\ n + Len(u) + 1 - k = n + Len(t) + 1 - i
    <3>1. k \in 1 .. Len(s) + Len(t) /\ ~(k <= Len(s)) /\ k - Len(s) = i
      BY <1>1
    <3> QED
      BY <1>1, <3>1
  <2> HIDE DEF k
  <2> QED
    BY <1>1, <2>1, <2>2, AboveAre
<1> QED
  BY <1>3, <1>4, <1>5 DEF u

LEMMA AboveOne ==
  ASSUME NEW f \in Proper, NEW n \in Int
  PROVE  Above(<<f>>, n) = {Copy("moving", q, n + 1, f.message) : q \in Bound(f)}
<1>1. Len(<<f>>) = 1 /\ <<f>>[1] = f /\ 1 .. 1 = {1} /\ n + 1 + 1 - 1 = n + 1 /\ DOMAIN <<f>> = {1}
  OBVIOUS
<1> HIDE DEF Proper
<1> DEFINE s == <<f>>
<1>2. Len(s) = 1 /\ s[1] = f /\ DOMAIN s = {1}
  BY <1>1
<1> HIDE DEF s
<1>3. Above(s, n) = {Copy("moving", q, n + 1, f.message) : q \in Bound(f)}
  BY <1>1, <1>2 DEF Above
<1> QED
  BY <1>3 DEF s

LEMMA AboveFramed ==
  ASSUME NEW f \in Proper, NEW t \in Seq(Proper), NEW n \in Int
  PROVE  Above(<<f>> \o t, n)
           = {Copy("moving", q, n + Len(t) + 1, f.message) : q \in Bound(f)} \cup Above(t, n)
<1>1. <<f>> \in Seq(Proper)
  BY OneFrame
<1>2. n + Len(t) \in Int
  <2> HIDE DEF Proper
  <2>1. Len(t) \in Nat
    BY LenProperties
  <2> QED
    BY <2>1
<1>3. Above(<<f>> \o t, n) = Above(<<f>>, n + Len(t)) \cup Above(t, n)
  BY <1>1, AboveConcat, ZenonT(40)
<1>4. Above(<<f>>, n + Len(t)) = {Copy("moving", q, n + Len(t) + 1, f.message) : q \in Bound(f)}
  BY <1>2, AboveOne
<1> QED
  BY <1>3, <1>4

(* What becomes of copies when their message is put into a store or leaves it. *)
LEMMA InsertMoves ==
  ASSUME NEW q \in Queues, NEW s \in Seq(Message), NEW m \in Message, NEW k \in 1 .. Len(s) + 1,
         NEW x, x.kind # "stored", x.id = m.id, x.trail = m.trail, x.queue = q
  PROVE  Moves(StoredIn(q, s) \cup {x}, StoredIn(q, InsertAt(s, k, m)))
<1>1. Len(s) \in Nat
  BY LenProperties
<1> DEFINE t == InsertAt(s, k, m)
<1>2. /\ t \in Seq(Message) /\ Len(t) = Len(s) + 1
      /\ \A j \in 1 .. Len(s) + 1 : t[j] = IF j < k THEN s[j] ELSE IF j = k THEN m ELSE s[j - 1]
  <2> HIDE DEF Message
  <2>1. t \in Seq(Message) /\ Len(t) = Len(s) + 1
    BY InsertedAt
  <2>2. ASSUME NEW j \in 1 .. Len(s) + 1
        PROVE  t[j] = IF j < k THEN s[j] ELSE IF j = k THEN m ELSE s[j - 1]
    BY InsertedAtIndex
  <2> QED
    BY <2>1, <2>2
<1> HIDE DEF t
<1> DEFINE I == 0 .. Len(s)
           J == 1 .. Len(s) + 1
           L == [j \in I |-> IF j = 0 THEN x ELSE Copy("stored", q, j, s[j])]
           M == [j \in J |-> Copy("stored", q, j, t[j])]
           e == [j \in J |-> IF j < k THEN j ELSE IF j = k THEN 0 ELSE j - 1]
<1>3. StoredIn(q, t) = {M[j] : j \in J}
  <2>1. DOMAIN t = J
    BY <1>2, LenProperties
  <2> QED
    BY <2>1 DEF StoredIn
<1>4. e \in [J -> I] /\ \A j \in J : e[j] = IF j < k THEN j ELSE IF j = k THEN 0 ELSE j - 1
  BY <1>1
<1>5. /\ L[0] = x
      /\ \A j \in I : j # 0 => L[j] = Copy("stored", q, j, s[j]) /\ L[j].kind = "stored" /\ L[j].at = j
  BY <1>1 DEF Copy
<1>6. \A j \in J : M[j] = Copy("stored", q, j, t[j])
  OBVIOUS
<1> HIDE DEF M, e, L
<1>7. \A i, j \in I : L[i] = L[j] => i = j
  BY <1>5
<1>8. \A i, j \in J : e[i] = e[j] => i = j
  BY <1>1, <1>4
<1>9. \A j \in J : Same(L[e[j]], M[j])
  <2> TAKE j \in J
  <2>1. M[j].id = t[j].id /\ M[j].trail = t[j].trail /\ M[j].queue = q
    BY <1>6, CopyFields
  <2>2. CASE j = k
    <3>1. e[j] = 0 /\ t[j] = m
      BY <1>1, <1>2, <1>4, <2>2
    <3> QED
      BY <1>5, <2>1, <3>1 DEF Same
  <2>3. CASE j # k
    <3>1. e[j] # 0 /\ e[j] \in I /\ t[j] = s[e[j]]
      BY <1>1, <1>2, <1>4, <2>3
    <3>2. L[e[j]] = Copy("stored", q, e[j], s[e[j]])
      BY <1>5, <3>1
    <3> QED
      BY <2>1, <3>1, <3>2, CopyFields DEF Same
  <2> QED
    BY <2>2, <2>3
<1> DEFINE C == {L[e[j]] : j \in J}
<1>10. Moves(C, StoredIn(q, t))
  <2>1. Along(I, J, L, M, e)
    BY <1>4, <1>7, <1>8, <1>9 DEF Along
  <2> QED
    BY <1>3, <2>1, MovesAlong
<1>11. C \subseteq StoredIn(q, s) \cup {x}
  <2>1. \A j \in I : L[j] \in StoredIn(q, s) \cup {x}
    <3> TAKE j \in I
    <3>1. CASE j = 0
      BY <1>5, <3>1
    <3>2. CASE j # 0
      <4>1. j \in DOMAIN s
        BY <1>1, <3>2, LenProperties
      <4> QED
        BY <1>5, <3>2, <4>1 DEF StoredIn
    <3> QED
      BY <3>1, <3>2
  <2> QED
    BY <1>4, <2>1
<1> HIDE DEF C
<1>12. Moves(StoredIn(q, s) \cup {x}, C)
  BY <1>11, MovesInto
<1> QED
  BY <1>10, <1>12, MovesOn DEF t

LEMMA AboveDeaths ==
  ASSUME NEW s \in Seq(Message), NEW q \in Queues, NEW reason \in Reasons, NEW live \in BOOLEAN,
         NEW n \in Int
  PROVE  Above(Deaths(s, q, reason, live), n)
           \subseteq {[j \in 1 .. Len(s) |-> Copy("moving", q, n + Len(s) + 1 - j, s[j])][k] :
                        k \in 1 .. Len(s)}
<1> DEFINE d == Deaths(s, q, reason, live)
           N == [j \in 1 .. Len(s) |-> Copy("moving", q, n + Len(s) + 1 - j, s[j])]
<1>1. /\ d \in Seq(Proper)
      /\ ~DeadLetters(q, reason) => d = <<>>
      /\ DeadLetters(q, reason) =>
           /\ Len(d) = Len(s)
           /\ \A i \in 1 .. Len(s) : d[i] = Dead(s[i], q, reason, live)
  BY DeathsAre
<1> HIDE DEF d
<1>2. CASE ~DeadLetters(q, reason)
  BY <1>1, <1>2, AboveNone DEF d
<1>3. CASE DeadLetters(q, reason)
  <2>1. ASSUME NEW x \in Above(d, n) PROVE x \in {N[k] : k \in 1 .. Len(s)}
    <3>1. PICK i \in 1 .. Len(d) : InFrame(x, d[i], n + Len(d) + 1 - i)
      BY <1>1, AboveAre
    <3>2. i \in 1 .. Len(s) /\ d[i] = Dead(s[i], q, reason, live)
      BY <1>1, <1>3
    <3>3. Bound(d[i]) = {q} /\ d[i].message = s[i]
      BY <3>2 DEF Bound, Dead
    <3>4. x = Copy("moving", q, n + Len(s) + 1 - i, s[i])
      BY <1>1, <1>3, <3>1, <3>3 DEF InFrame
    <3> QED
      BY <3>2, <3>4
  <2> QED
    BY <2>1 DEF d
<1> QED
  BY <1>2, <1>3

LEMMA DeathsMove ==
  ASSUME NEW q \in Queues, NEW s \in Seq(Message), NEW a \in Seq(Message), NEW b \in Seq(Message),
         Splits(s, a, b), NEW reason \in Reasons, NEW live \in BOOLEAN, NEW n \in Int
  PROVE  Moves(StoredIn(q, s), StoredIn(q, a) \cup Above(Deaths(b, q, reason, live), n))
<1> DEFINE L == [k \in 1 .. Len(s) |-> Copy("stored", q, k, s[k])]
           M == [i \in 1 .. Len(a) |-> Copy("stored", q, i, a[i])]
           N == [j \in 1 .. Len(b) |-> Copy("moving", q, n + Len(b) + 1 - j, b[j])]
           D == {M[i] : i \in 1 .. Len(a)} \cup {N[j] : j \in 1 .. Len(b)}
<1>1. StoredIn(q, s) = {L[k] : k \in 1 .. Len(s)} /\ StoredIn(q, a) = {M[i] : i \in 1 .. Len(a)}
  BY StoredInAre
<1>2. Above(Deaths(b, q, reason, live), n) \subseteq {N[j] : j \in 1 .. Len(b)}
  BY AboveDeaths
<1>3. /\ \A k \in 1 .. Len(s) : L[k] = Copy("stored", q, k, s[k])
      /\ \A i \in 1 .. Len(a) : M[i] = Copy("stored", q, i, a[i])
      /\ \A j \in 1 .. Len(b) : N[j] = Copy("moving", q, n + Len(b) + 1 - j, b[j])
  OBVIOUS
<1> HIDE DEF L, M, N
<1>4. \A i, j \in 1 .. Len(s) : L[i] = L[j] => i = j
  <2>1. \A k \in 1 .. Len(s) : L[k].at = k
    BY <1>3, CopyFields
  <2> QED
    BY <2>1
<1>5. \A i \in 1 .. Len(a) : \A k \in 1 .. Len(s) : a[i] = s[k] => Same(L[k], M[i])
  BY <1>3, CopyFields DEF Same
<1>6. \A j \in 1 .. Len(b) : \A k \in 1 .. Len(s) : b[j] = s[k] => Same(L[k], N[j])
  BY <1>3, CopyFields DEF Same
<1>7. Moves({L[k] : k \in 1 .. Len(s)}, D)
  <2>1. Listed(s, a, b, L, M, N)
    BY <1>4, <1>5, <1>6 DEF Listed
  <2> QED
    BY <2>1, SplitsMove
<1>8. StoredIn(q, a) \cup Above(Deaths(b, q, reason, live), n) \subseteq D
  BY <1>1, <1>2
<1> HIDE DEF D
<1>9. Moves(D, StoredIn(q, a) \cup Above(Deaths(b, q, reason, live), n))
  BY <1>8, MovesInto
<1> QED
  BY <1>1, <1>7, <1>9, MovesOn

LEMMA AboveRejections ==
  ASSUME NEW s \in Seq(Delivery), NEW n \in Int
  PROVE  LET t == Doomed(s)
         IN  Above(Rejections(s), n)
               \subseteq {[j \in 1 .. Len(t) |-> Copy("moving", t[j].queue, n + Len(t) + 1 - j, t[j].message)][k] :
                            k \in 1 .. Len(t)}
<1> DEFINE r == Rejections(s)
           t == Doomed(s)
           N == [j \in 1 .. Len(t) |-> Copy("moving", t[j].queue, n + Len(t) + 1 - j, t[j].message)]
<1>1. /\ r \in Seq(Proper) /\ Len(r) = Len(t)
      /\ \A i \in 1 .. Len(t) : r[i] = Dead(t[i].message, t[i].queue, "rejected", TRUE)
  BY RejectionsAre
<1> HIDE DEF r, t
<1>2. ASSUME NEW x \in Above(r, n) PROVE x \in {N[k] : k \in 1 .. Len(t)}
  <2>1. PICK i \in 1 .. Len(r) : InFrame(x, r[i], n + Len(r) + 1 - i)
    BY <1>1, AboveAre
  <2>2. i \in 1 .. Len(t) /\ r[i] = Dead(t[i].message, t[i].queue, "rejected", TRUE)
    BY <1>1
  <2>3. Bound(r[i]) = {t[i].queue} /\ r[i].message = t[i].message
    BY <2>2 DEF Bound, Dead
  <2>4. x = Copy("moving", t[i].queue, n + Len(t) + 1 - i, t[i].message)
    BY <1>1, <2>1, <2>3 DEF InFrame
  <2> QED
    BY <2>2, <2>4
<1> QED
  BY <1>2 DEF r, t

LEMMA RejectionsMove ==
  ASSUME NEW s \in Seq(Delivery), NEW a \in Seq(Delivery), NEW b \in Seq(Delivery),
         Splits(s, a, b), NEW n \in Int
  PROVE  Moves(InHands(s), InHands(a) \cup Above(Rejections(b), n))
<1> DEFINE t == Doomed(b)
           L == [k \in 1 .. Len(s) |-> Copy("unacked", s[k].queue, k, s[k].message)]
           M == [i \in 1 .. Len(a) |-> Copy("unacked", a[i].queue, i, a[i].message)]
           N == [j \in 1 .. Len(t) |-> Copy("moving", t[j].queue, n + Len(t) + 1 - j, t[j].message)]
           D == {M[i] : i \in 1 .. Len(a)} \cup {N[j] : j \in 1 .. Len(t)}
<1>1. InHands(s) = {L[k] : k \in 1 .. Len(s)} /\ InHands(a) = {M[i] : i \in 1 .. Len(a)}
  BY InHandsAre
<1>2. Above(Rejections(b), n) \subseteq {N[j] : j \in 1 .. Len(t)}
  BY AboveRejections
<1>3. Splits(s, a, t)
  <2> HIDE DEF Delivery
  <2> QED
    BY SplitsOnly DEF Doomed
<1>4. /\ \A k \in 1 .. Len(s) : L[k] = Copy("unacked", s[k].queue, k, s[k].message)
      /\ \A i \in 1 .. Len(a) : M[i] = Copy("unacked", a[i].queue, i, a[i].message)
      /\ \A j \in 1 .. Len(t) : N[j] = Copy("moving", t[j].queue, n + Len(t) + 1 - j, t[j].message)
  OBVIOUS
<1> HIDE DEF L, M, N, t
<1>5. \A i, j \in 1 .. Len(s) : L[i] = L[j] => i = j
  <2>1. \A k \in 1 .. Len(s) : L[k].at = k
    BY <1>4, CopyFields
  <2> QED
    BY <2>1
<1>6. \A i \in 1 .. Len(a) : \A k \in 1 .. Len(s) : a[i] = s[k] => Same(L[k], M[i])
  BY <1>4, CopyFields DEF Same
<1>7. \A j \in 1 .. Len(t) : \A k \in 1 .. Len(s) : t[j] = s[k] => Same(L[k], N[j])
  <2> SUFFICES ASSUME NEW j \in 1 .. Len(t), NEW k \in 1 .. Len(s), t[j] = s[k]
               PROVE  Same(L[k], N[j])
    OBVIOUS
  <2>1. L[k].id = s[k].message.id /\ L[k].trail = s[k].message.trail /\ L[k].queue = s[k].queue
    BY <1>4, CopyFields
  <2>2. N[j].id = t[j].message.id /\ N[j].trail = t[j].message.trail /\ N[j].queue = t[j].queue
    BY <1>4, CopyFields
  <2> QED
    BY <2>1, <2>2 DEF Same
<1>8. Moves({L[k] : k \in 1 .. Len(s)}, D)
  <2>1. Listed(s, a, t, L, M, N)
    BY <1>5, <1>6, <1>7 DEF Listed
  <2> QED
    BY <1>3, <2>1, SplitsMove
<1>9. InHands(a) \cup Above(Rejections(b), n) \subseteq D
  BY <1>1, <1>2
<1> HIDE DEF D
<1>10. Moves(D, InHands(a) \cup Above(Rejections(b), n))
  BY <1>9, MovesInto
<1> QED
  BY <1>1, <1>8, <1>10, MovesOn

LEMMA OneAnswerMoves ==
  ASSUME NEW s \in Seq(Delivery), NEW i \in 1 .. Len(s), NEW x,
         x = Copy("apart", s[i].queue, 0, s[i].message)
  PROVE  Moves(InHands(s), InHands(RemoveAt(s, i)) \cup {x})
<1> DEFINE a == RemoveAt(s, i)
           b == <<s[i]>>
           L == [k \in 1 .. Len(s) |-> Copy("unacked", s[k].queue, k, s[k].message)]
           M == [j \in 1 .. Len(a) |-> Copy("unacked", a[j].queue, j, a[j].message)]
           N == [j \in 1 .. Len(b) |-> x]
           D == {M[j] : j \in 1 .. Len(a)} \cup {N[j] : j \in 1 .. Len(b)}
<1>1. a \in Seq(Delivery) /\ Splits(s, a, b)
  <2> HIDE DEF Delivery
  <2> QED
    BY SplitsOut, RemovedAt
<1>2. Len(b) = 1 /\ 1 \in 1 .. 1 /\ (\A j \in 1 .. 1 : j = 1) /\ b[1] = s[i]
  OBVIOUS
<1> HIDE DEF a, b
<1>3. InHands(s) = {L[k] : k \in 1 .. Len(s)} /\ InHands(a) = {M[j] : j \in 1 .. Len(a)}
  BY <1>1, InHandsAre
<1>4. /\ \A k \in 1 .. Len(s) : L[k] = Copy("unacked", s[k].queue, k, s[k].message)
      /\ \A j \in 1 .. Len(a) : M[j] = Copy("unacked", a[j].queue, j, a[j].message)
      /\ \A j \in 1 .. Len(b) : N[j] = x
  OBVIOUS
<1> HIDE DEF L, M, N
<1>5. \A k, j \in 1 .. Len(s) : L[k] = L[j] => k = j
  <2>1. \A k \in 1 .. Len(s) : L[k].at = k
    BY <1>4, CopyFields
  <2> QED
    BY <2>1
<1>6. \A j \in 1 .. Len(a) : \A k \in 1 .. Len(s) : a[j] = s[k] => Same(L[k], M[j])
  BY <1>4, CopyFields DEF Same
<1>7. \A j \in 1 .. Len(b) : \A k \in 1 .. Len(s) : b[j] = s[k] => Same(L[k], N[j])
  <2> SUFFICES ASSUME NEW j \in 1 .. Len(b), NEW k \in 1 .. Len(s), b[j] = s[k]
               PROVE  Same(L[k], N[j])
    OBVIOUS
  <2>1. s[k] = s[i]
    BY <1>2
  <2> QED
    BY <1>4, <2>1, CopyFields DEF Same
<1>8. Moves({L[k] : k \in 1 .. Len(s)}, D)
  <2>1. Listed(s, a, b, L, M, N)
    BY <1>5, <1>6, <1>7 DEF Listed
  <2> QED
    BY <1>1, <2>1, SplitsMove
<1>9. D = InHands(a) \cup {x}
  <2>1. {N[j] : j \in 1 .. Len(b)} = {x}
    BY <1>2, <1>4
  <2> QED
    BY <1>3, <2>1
<1> QED
  BY <1>3, <1>8, <1>9 DEF a

(* The copies of the messages of b, from q, delivered after n others. *)
Taken(q, n, b) == {Copy("unacked", q, n + j, b[j]) : j \in 1 .. Len(b)}

LEMMA TakenMove ==
  ASSUME NEW q \in Queues, NEW s \in Seq(Message), NEW a \in Seq(Message), NEW b \in Seq(Message),
         Splits(s, a, b), NEW n
  PROVE  Moves(StoredIn(q, s), StoredIn(q, a) \cup Taken(q, n, b))
<1> DEFINE L == [k \in 1 .. Len(s) |-> Copy("stored", q, k, s[k])]
           M == [i \in 1 .. Len(a) |-> Copy("stored", q, i, a[i])]
           N == [j \in 1 .. Len(b) |-> Copy("unacked", q, n + j, b[j])]
<1>1. StoredIn(q, s) = {L[k] : k \in 1 .. Len(s)} /\ StoredIn(q, a) = {M[i] : i \in 1 .. Len(a)}
  BY StoredInAre
<1>2. /\ \A k \in 1 .. Len(s) : L[k] = Copy("stored", q, k, s[k])
      /\ \A i \in 1 .. Len(a) : M[i] = Copy("stored", q, i, a[i])
      /\ \A j \in 1 .. Len(b) : N[j] = Copy("unacked", q, n + j, b[j])
  OBVIOUS
<1> HIDE DEF L, M, N
<1>3. \A i, j \in 1 .. Len(s) : L[i] = L[j] => i = j
  <2>1. \A k \in 1 .. Len(s) : L[k].at = k
    BY <1>2, CopyFields
  <2> QED
    BY <2>1
<1>4. \A i \in 1 .. Len(a) : \A k \in 1 .. Len(s) : a[i] = s[k] => Same(L[k], M[i])
  BY <1>2, CopyFields DEF Same
<1>5. \A j \in 1 .. Len(b) : \A k \in 1 .. Len(s) : b[j] = s[k] => Same(L[k], N[j])
  BY <1>2, CopyFields DEF Same
<1> DEFINE D == {M[i] : i \in 1 .. Len(a)} \cup {N[j] : j \in 1 .. Len(b)}
<1>6. Moves({L[k] : k \in 1 .. Len(s)}, D)
  <2>1. Listed(s, a, b, L, M, N)
    BY <1>3, <1>4, <1>5 DEF Listed
  <2> QED
    BY <2>1, SplitsMove
<1>7. D = StoredIn(q, a) \cup Taken(q, n, b)
  BY <1>1, <1>2 DEF Taken
<1> QED
  BY <1>1, <1>6, <1>7

Holds(w, q, b) == Len(w) = Len(b) /\ \A j \in 1 .. Len(b) : w[j].queue = q /\ w[j].message = b[j]

LEMMA TakenInHands ==
  ASSUME NEW q, NEW un \in Seq(Delivery), NEW w \in Seq(Delivery), NEW b, Holds(w, q, b)
  PROVE  InHands(un \o w) = InHands(un) \cup Taken(q, Len(un), b)
<1> DEFINE v == un \o w
<1>0. Len(w) = Len(b) /\ \A j \in 1 .. Len(b) : w[j].queue = q /\ w[j].message = b[j]
  BY DEF Holds
<1>8. /\ v \in Seq(Delivery) /\ Len(v) = Len(un) + Len(b) /\ Len(un) \in Nat /\ Len(b) \in Nat
      /\ \A i \in 1 .. Len(un) + Len(b) : v[i] = IF i <= Len(un) THEN un[i] ELSE w[i - Len(un)]
  <2> HIDE DEF Delivery
  <2>1. /\ v \in Seq(Delivery) /\ Len(v) = Len(un) + Len(w)
        /\ \A i \in 1 .. Len(un) + Len(w) : v[i] = IF i <= Len(un) THEN un[i] ELSE w[i - Len(un)]
    BY ConcatProperties
  <2>2. Len(un) \in Nat /\ Len(w) \in Nat
    BY LenProperties
  <2> QED
    BY <1>0, <2>1, <2>2
<1> HIDE DEF v
<1> DEFINE Y == {Copy("unacked", q, Len(un) + j, b[j]) : j \in 1 .. Len(b)}
           H(i) == Copy("unacked", v[i].queue, i, v[i].message)
<1>9. DOMAIN v = 1 .. Len(v) /\ DOMAIN un = 1 .. Len(un)
  BY <1>8, LenProperties
<1>10. \A i \in 1 .. Len(un) : i \in 1 .. Len(v) /\ H(i) = Copy("unacked", un[i].queue, i, un[i].message)
  <2> TAKE i \in 1 .. Len(un)
  <2>1. i \in 1 .. Len(v) /\ i <= Len(un)
    BY <1>8
  <2>2. v[i] = un[i]
    BY <1>8, <2>1
  <2> QED
    BY <2>1, <2>2
<1>11. \A j \in 1 .. Len(b) : Len(un) + j \in 1 .. Len(v) /\ H(Len(un) + j) = Copy("unacked", q, Len(un) + j, b[j])
  <2> TAKE j \in 1 .. Len(b)
  <2>1. Len(un) + j \in 1 .. Len(un) + Len(b) /\ ~(Len(un) + j <= Len(un)) /\ Len(un) + j - Len(un) = j
    BY <1>8
  <2>2. v[Len(un) + j] = w[j]
    BY <1>8, <2>1
  <2>3. v[Len(un) + j].queue = q /\ v[Len(un) + j].message = b[j]
    BY <1>0, <2>2
  <2> QED
    BY <1>8, <2>1, <2>3
<1>12. \A i \in 1 .. Len(v) : i \in 1 .. Len(un) \/ \E j \in 1 .. Len(b) : i = Len(un) + j
  <2> TAKE i \in 1 .. Len(v)
  <2>1. i \in 1 .. Len(un) \/ (i - Len(un) \in 1 .. Len(b) /\ i = Len(un) + (i - Len(un)))
    BY <1>8
  <2> QED
    BY <2>1
<1>13. InHands(v) = {H(i) : i \in 1 .. Len(v)}
  BY <1>9 DEF InHands
<1>14. InHands(un) = {Copy("unacked", un[i].queue, i, un[i].message) : i \in 1 .. Len(un)}
  BY <1>9 DEF InHands
<1> HIDE DEF H
<1>15. InHands(v) = InHands(un) \cup Y
  <2>1. ASSUME NEW x \in InHands(v) PROVE x \in InHands(un) \cup Y
    <3>1. PICK i \in 1 .. Len(v) : x = H(i)
      BY <1>13
    <3>2. CASE i \in 1 .. Len(un)
      BY <1>10, <1>14, <3>1, <3>2
    <3>3. ASSUME NEW j \in 1 .. Len(b), i = Len(un) + j PROVE x \in Y
      BY <1>11, <3>1, <3>3
    <3> QED
      BY <1>12, <3>2, <3>3
  <2>2. ASSUME NEW x \in InHands(un) PROVE x \in InHands(v)
    <3>1. PICK i \in 1 .. Len(un) : x = Copy("unacked", un[i].queue, i, un[i].message)
      BY <1>14
    <3> QED
      BY <1>10, <1>13, <3>1
  <2>3. ASSUME NEW x \in Y PROVE x \in InHands(v)
    BY <1>11, <1>13
  <2> QED
    BY <2>1, <2>2, <2>3
<1> QED
  BY <1>15 DEF v, Taken

LEMMA UncoveredSplits ==
  ASSUME TypeOK, NEW i \in DOMAIN unacked, NEW multiple \in BOOLEAN
  PROVE  Splits(unacked, Uncovered(i, multiple), Covered(i, multiple))
<1>1. unacked \in Seq(Delivery) /\ i \in 1 .. Len(unacked) /\ i \in 0 .. Len(unacked)
  BY Types
<1> HIDE DEF Delivery
<1>2. Splits(unacked, SubSeq(unacked, i + 1, Len(unacked)), SubSeq(unacked, 1, i))
  BY <1>1, SplitsAt
<1>3. Splits(unacked, RemoveAt(unacked, i), <<unacked[i]>>)
  BY <1>1, SplitsOut
<1> QED
  BY <1>2, <1>3 DEF Covered, Uncovered

Others(st, q) == UNION {StoredIn(p, st[p]) : p \in Queues \ {q}}

LEMMA InStoresAre ==
  ASSUME NEW st \in [Queues -> Seq(Message)]
  PROVE  /\ InStores(st) \subseteq ACopy
         /\ \A x \in InStores(st) : x.kind = "stored"
<1>1. \A q \in Queues : st[q] \in Seq(Message)
  OBVIOUS
<1>2. \A q \in Queues : /\ StoredIn(q, st[q]) \subseteq ACopy
                        /\ \A x \in StoredIn(q, st[q]) : x.kind = "stored"
  BY <1>1, StoredInAre
<1> QED
  BY <1>2 DEF InStores

LEMMA StoresApart ==
  ASSUME NEW st \in [Queues -> Seq(Message)], NEW q \in Queues
  PROVE  /\ InStores(st) = StoredIn(q, st[q]) \cup Others(st, q)
         /\ \A x \in Others(st, q) : x.kind = "stored" /\ x.queue # q
<1>1. InStores(st) = StoredIn(q, st[q]) \cup Others(st, q)
  BY DEF InStores, Others
<1>2. \A p \in Queues : st[p] \in Seq(Message)
  OBVIOUS
<1>3. \A p \in Queues : \A x \in StoredIn(p, st[p]) : x.kind = "stored" /\ x.queue = p
  BY <1>2, StoredInAre
<1>4. \A x \in Others(st, q) : x.kind = "stored" /\ x.queue # q
  BY <1>3 DEF Others
<1> QED
  BY <1>1, <1>4

LEMMA StoresExcept ==
  ASSUME NEW st \in [Queues -> Seq(Message)], NEW q \in Queues, NEW t \in Seq(Message)
  PROVE  InStores([st EXCEPT ![q] = t]) = StoredIn(q, t) \cup Others(st, q)
<1> DEFINE u == [st EXCEPT ![q] = t]
<1>1. u \in [Queues -> Seq(Message)] /\ u[q] = t /\ \A p \in Queues \ {q} : u[p] = st[p]
  OBVIOUS
<1> HIDE DEF u
<1>2. InStores(u) = StoredIn(q, u[q]) \cup Others(u, q)
  BY <1>1, StoresApart
<1>3. Others(u, q) = Others(st, q)
  BY <1>1 DEF Others
<1> QED
  BY <1>1, <1>2, <1>3 DEF u

LEMMA CopiesAre ==
  ASSUME NEW st \in [Queues -> Seq(Message)], NEW un \in Seq(Delivery), NEW c \in Seq(Proper)
  PROVE  InStores(st) \cup InHands(un) \cup Above(c, 0) \subseteq ACopy
<1>1. InStores(st) \subseteq ACopy
  BY InStoresAre
<1>2. InHands(un) \subseteq ACopy
  BY InHandsAre
<1>3. Above(c, 0) \subseteq ACopy
  BY AboveAre
<1> QED
  BY <1>1, <1>2, <1>3

CopyInv == Apart(Copies) /\ Numbered(Copies, published)

LEMMA CopiesMoved ==
  ASSUME TypeOK, TypeOK', CopyInv, Moves(Copies, Copies'), published' = published
  PROVE  CopyInv'
<1>1. Copies \subseteq ACopy
  BY Types, CopiesAre DEF Copies
<1>2. Copies' \subseteq ACopy
  <2>1. store' \in [Queues -> Seq(Message)] /\ unacked' \in Seq(Delivery) /\ call' \in Seq(Proper)
    BY ProperCall DEF TypeOK
  <2> QED
    BY <2>1, CopiesAre DEF Copies
<1> DEFINE C == Copies
           D == Copies'
<1>3. Apart(C) /\ Numbered(C, published) /\ Moves(C, D) /\ C \subseteq ACopy /\ D \subseteq ACopy
  BY <1>1, <1>2 DEF CopyInv
<1> HIDE DEF C, D
<1>4. Apart(D) /\ Numbered(D, published)
  BY <1>3, MovesApart
<1> QED
  BY <1>4 DEF CopyInv, D, Apart, Numbered

LEMMA FewerCopies ==
  ASSUME TypeOK, TypeOK', CopyInv, Copies' \subseteq Copies, published' = published
  PROVE  CopyInv'
BY MovesInto, CopiesMoved

LEMMA MovesOne ==
  ASSUME NEW x, NEW y, Same(x, y)
  PROVE  Moves({x}, {y})
<1> DEFINE F == [z \in {y} |-> x]
<1>1. F \in [{y} -> {x}] /\ F[y] = x
  OBVIOUS
<1> HIDE DEF F
<1> QED
  BY <1>1 DEF Moves

(* What a step does to the copies, for each kind of step. *)
LEMMA DrainMoves ==
  ASSUME TypeOK, NEW q \in Queues, NEW rest \in Seq(Proper), Drain(q, rest),
         unacked' = unacked, Above(rest, 0) \subseteq Above(call, 0)
  PROVE  Moves(Copies, Copies')
<1>1. store[q] \in Seq(Message) /\ store \in [Queues -> Seq(Message)] /\ call \in Seq(Proper)
      /\ unacked \in Seq(Delivery)
  BY Types
<1> DEFINE s == store[q]
           left == Only(s, ToSet(s) \ Drained(q))
           gone == Only(s, Drained(q))
           dead == Deaths(gone, q, "expired", FALSE)
           n == Len(rest)
           X == StoredIn(q, s)
           Y == StoredIn(q, left) \cup Above(dead, n)
           R == Others(store, q) \cup InHands(unacked) \cup Above(call, 0)
<1>2. left \in Seq(Message) /\ gone \in Seq(Message)
  BY <1>1, OnlyHas
<1>3. Splits(s, left, gone)
  <2>1. (ToSet(s) \ Drained(q)) \cap Drained(q) = {}
    OBVIOUS
  <2> QED
    BY <1>1, <2>1, SplitsByOnly
<1>4. store' = [store EXCEPT ![q] = left] /\ call' = dead \o rest
  BY DEF Drain
<1>5. n \in Int /\ 0 + n = n
  <2>1. Len(rest) \in Nat
    <3> HIDE DEF Proper
    <3> QED
      BY LenProperties
  <2> QED
    BY <2>1
<1>6. dead \in Seq(Proper)
  BY <1>2, DeathsAre DEF Reasons
<1>7. Moves(X, Y)
  BY <1>1, <1>2, <1>3, <1>5, DeathsMove DEF Reasons
<1> HIDE DEF s, left, gone, dead, n
<1>8. InStores(store) = X \cup Others(store, q) /\ InStores(store') = StoredIn(q, left) \cup Others(store, q)
  BY <1>1, <1>2, <1>4, StoresApart, StoresExcept DEF s
<1>9. Above(call', 0) = Above(dead, n) \cup Above(rest, 0)
  BY <1>4, <1>5, <1>6, AboveConcat DEF n
<1>10. X \cap R = {}
  <2>1. \A x \in X : x.kind = "stored" /\ x.queue = q
    BY <1>1, StoredInAre DEF s
  <2>2. \A x \in Others(store, q) : x.queue # q
    BY <1>1, StoresApart
  <2>3. \A x \in InHands(unacked) : x.kind = "unacked"
    BY <1>1, InHandsAre
  <2>4. \A x \in Above(call, 0) : x.kind = "moving"
    BY <1>1, AboveAre
  <2> HIDE DEF X
  <2> QED
    BY <2>1, <2>2, <2>3, <2>4
<1> HIDE DEF X
<1>11. Copies = X \cup R
  BY <1>8 DEF Copies
<1>12. Copies' \subseteq Y \cup R
  BY <1>8, <1>9 DEF Copies
<1> DEFINE C == Copies
           D == Copies'
<1>13. C = X \cup R /\ D \subseteq Y \cup R
  BY <1>11, <1>12
<1> HIDE DEF Y, R, C, D
<1>14. Part(X, Y, R, C, D)
  BY <1>10, <1>13 DEF Part
<1>15. Moves(C, D)
  BY <1>7, <1>14, MovesPart
<1> QED
  BY <1>15 DEF C, D

LEMMA TakeMoves ==
  ASSUME TypeOK, NEW q \in Queues, NEW n \in 0 .. Len(store[q]), Take(q, n),
         Above(call', 0) \subseteq Above(call, 0)
  PROVE  Moves(Copies, Copies')
<1>1. /\ store[q] \in Seq(Message) /\ store \in [Queues -> Seq(Message)] /\ call \in Seq(Proper)
      /\ unacked \in Seq(Delivery) /\ Len(store[q]) \in Nat /\ Len(unacked) \in Nat
  BY Types
<1> DEFINE s == store[q]
           left == SubSeq(s, n + 1, Len(s))
           b == SubSeq(s, 1, n)
           w == [i \in 1 .. n |-> [queue |-> q, message |-> s[i]]]
           T == Taken(q, Len(unacked), b)
           X == StoredIn(q, s)
           Y == StoredIn(q, left) \cup T
           R == Others(store, q) \cup InHands(unacked) \cup Above(call, 0)
<1>2. Splits(s, left, b)
  <2> HIDE DEF Message
  <2> QED
    BY <1>1, SplitsAt
<1>3. left \in Seq(Message)
  <2>1. n + 1 \in 1 .. Len(s) + 1 /\ Len(s) \in 0 .. Len(s) /\ n + 1 <= Len(s) + 1
    BY <1>1
  <2> HIDE DEF Message
  <2> QED
    BY <1>1, <2>1, Piece
<1>4. b \in Seq(Message) /\ Len(b) = n /\ \A j \in 1 .. Len(b) : b[j] = s[j]
  <2>1. 1 \in 1 .. Len(s) + 1 /\ n \in 0 .. Len(s) /\ 1 <= n + 1
    BY <1>1
  <2>2. b \in Seq(Message) /\ Len(b) = n - 1 + 1 /\ \A j \in 1 .. Len(b) : b[j] = s[1 + j - 1]
    <3> HIDE DEF Message
    <3> QED
      BY <1>1, <2>1, Piece
  <2>3. n - 1 + 1 = n /\ \A j \in 1 .. Len(b) : 1 + j - 1 = j
    BY <1>1, <2>2
  <2> QED
    BY <2>2, <2>3
<1>5. w \in Seq(Delivery)
  <2>1. \A i \in 1 .. n : [queue |-> q, message |-> s[i]] \in Delivery
    BY <1>1 DEF Delivery
  <2> HIDE DEF Delivery
  <2> QED
    BY <1>1, <2>1
<1>6. Holds(w, q, b)
  <2>1. Len(w) = n /\ \A j \in 1 .. n : w[j].queue = q /\ w[j].message = s[j]
    BY <1>1
  <2> QED
    BY <1>4, <2>1 DEF Holds
<1>7. store' = [store EXCEPT ![q] = left] /\ unacked' = unacked \o w
  BY DEF Take
<1> HIDE DEF left, b, w
<1>8. Moves(X, Y)
  BY <1>1, <1>2, <1>3, <1>4, TakenMove
<1>9. InHands(unacked') = InHands(unacked) \cup T
  BY <1>1, <1>5, <1>6, <1>7, TakenInHands
<1> HIDE DEF s, T
<1>10. InStores(store) = X \cup Others(store, q) /\ InStores(store') = StoredIn(q, left) \cup Others(store, q)
  BY <1>1, <1>3, <1>7, StoresApart, StoresExcept DEF s
<1>11. X \cap R = {}
  <2>1. \A x \in X : x.kind = "stored" /\ x.queue = q
    BY <1>1, StoredInAre DEF s
  <2>2. \A x \in Others(store, q) : x.queue # q
    BY <1>1, StoresApart
  <2>3. \A x \in InHands(unacked) : x.kind = "unacked"
    BY <1>1, InHandsAre
  <2>4. \A x \in Above(call, 0) : x.kind = "moving"
    BY <1>1, AboveAre
  <2> HIDE DEF X
  <2> QED
    BY <2>1, <2>2, <2>3, <2>4
<1> HIDE DEF X
<1>12. Copies = X \cup R
  BY <1>10 DEF Copies
<1>13. Copies' \subseteq Y \cup R
  BY <1>9, <1>10 DEF Copies
<1> DEFINE C == Copies
           D == Copies'
<1>14. C = X \cup R /\ D \subseteq Y \cup R
  BY <1>12, <1>13
<1> HIDE DEF Y, R, C, D
<1>15. Part(X, Y, R, C, D)
  BY <1>11, <1>14 DEF Part
<1>16. Moves(C, D)
  BY <1>8, <1>15, MovesPart
<1> QED
  BY <1>16 DEF C, D

LEMMA AnswerMoves ==
  ASSUME TypeOK, Idle, NEW a \in Seq(Delivery), NEW b \in Seq(Delivery), Splits(unacked, a, b),
         unacked' = a, store' = store,
         Above(call', 0) \subseteq Above(Rejections(b), 1)
  PROVE  Moves(Copies, Copies')
<1> DEFINE X == InHands(unacked)
           Y == InHands(a) \cup Above(Rejections(b), 1)
           R == InStores(store)
           C == Copies
           D == Copies'
<1>1. unacked \in Seq(Delivery) /\ store \in [Queues -> Seq(Message)]
  BY Types
<1>2. Moves(X, Y)
  BY <1>1, RejectionsMove
<1>3. X \cap R = {}
  <2>1. \A x \in X : x.kind = "unacked"
    BY <1>1, InHandsAre
  <2>2. \A x \in R : x.kind = "stored"
    BY <1>1, InStoresAre
  <2> HIDE DEF X, R
  <2> QED
    BY <2>1, <2>2
<1>4. C = X \cup R
  <2>1. Above(call, 0) = {}
    BY AboveNone DEF Idle
  <2> QED
    BY <2>1 DEF Copies
<1>5. D \subseteq Y \cup R
  BY DEF Copies
<1> HIDE DEF X, Y, R, C, D
<1>6. Part(X, Y, R, C, D)
  BY <1>3, <1>4, <1>5 DEF Part
<1>7. Moves(C, D)
  BY <1>2, <1>6, MovesPart
<1> QED
  BY <1>7 DEF C, D

LEMMA RequeueMoves ==
  ASSUME TypeOK, Idle, NEW i \in 1 .. Len(unacked), NEW q, q = unacked[i].queue,
         NEW m, m = unacked[i].message,
         unacked' = RemoveAt(unacked, i), store' = [store EXCEPT ![q] = Requeued(q, m)],
         Above(call', 0) = {}
  PROVE  Moves(Copies, Copies')
<1>1. /\ store \in [Queues -> Seq(Message)] /\ unacked \in Seq(Delivery)
      /\ q \in Queues /\ m \in Message /\ store[q] \in Seq(Message)
  BY Types
<1> DEFINE x == Copy("apart", q, 0, m)
           s == store[q]
           t == Requeued(q, m)
           a == RemoveAt(unacked, i)
           R1 == InStores(store)
           C1 == InHands(unacked) \cup R1
           D1 == InHands(a) \cup {x} \cup R1
           X2 == StoredIn(q, s) \cup {x}
           R2 == Others(store, q) \cup InHands(a)
           D2 == StoredIn(q, t) \cup R2
<1>2. Moves(InHands(unacked), InHands(a) \cup {x})
  BY <1>1, OneAnswerMoves
<1>3. a \in Seq(Delivery)
  <2> HIDE DEF Delivery
  <2> QED
    BY <1>1, RemovedAt
<1>4. x.kind = "apart" /\ x.id = m.id /\ x.trail = m.trail /\ x.queue = q
  BY CopyFields
<1>5. PICK k \in 1 .. Len(s) + 1 : t = InsertAt(s, k, m)
  BY <1>1, RequeuedAt
<1>6. t \in Seq(Message)
  <2> HIDE DEF Message
  <2> QED
    BY <1>1, <1>5, InsertedAt
<1>7. store' = [store EXCEPT ![q] = t] /\ unacked' = a
  OBVIOUS
<1> HIDE DEF x, s, t, a
<1>8. Moves(X2, StoredIn(q, t))
  <2>1. s \in Seq(Message) /\ x.kind # "stored"
    BY <1>1, <1>4 DEF s
  <2> QED
    BY <1>1, <1>4, <1>5, <2>1, InsertMoves
<1>9. InStores(store) = StoredIn(q, s) \cup Others(store, q) /\ InStores(store') = StoredIn(q, t) \cup Others(store, q)
  <2>1. InStores(store) = StoredIn(q, s) \cup Others(store, q)
    BY <1>1, StoresApart DEF s
  <2>2. InStores([store EXCEPT ![q] = t]) = StoredIn(q, t) \cup Others(store, q)
    BY <1>1, <1>6, StoresExcept
  <2> QED
    BY <1>7, <2>1, <2>2
<1>10. /\ \A y \in StoredIn(q, s) : y.kind = "stored" /\ y.queue = q
       /\ \A y \in Others(store, q) : y.kind = "stored" /\ y.queue # q
       /\ \A y \in InHands(unacked) \cup InHands(a) : y.kind = "unacked"
       /\ \A y \in R1 : y.kind = "stored"
  BY <1>1, <1>3, StoredInAre, StoresApart, InHandsAre, InStoresAre DEF s
<1>11. Part(InHands(unacked), InHands(a) \cup {x}, R1, C1, D1)
  BY <1>10 DEF Part
<1>12. Part(X2, StoredIn(q, t), R2, D1, D2)
  <2>1. X2 \cap R2 = {}
    BY <1>4, <1>10
  <2>2. D1 = X2 \cup R2
    BY <1>9
  <2> QED
    BY <2>1, <2>2 DEF Part
<1>13. Copies = C1
  <2>1. Above(call, 0) = {}
    BY AboveNone DEF Idle
  <2> QED
    BY <2>1 DEF Copies
<1>14. Copies' = D2
  BY <1>7, <1>9 DEF Copies
<1> HIDE DEF C1, D1, X2, R1, R2, D2
<1>15. Moves(C1, D1)
  BY <1>2, <1>11, MovesPart
<1>16. Moves(D1, D2)
  BY <1>8, <1>12, MovesPart
<1>17. Moves(C1, D2)
  BY <1>15, <1>16, MovesOn
<1> QED
  BY <1>13, <1>14, <1>17

(* What is above the call when a target is struck off the top frame. *)
LEMMA AboveStruck ==
  ASSUME NEW f \in Proper, f.do = "enqueue", NEW c \in Seq(Proper),
         NEW g \in Proper, g.do = "enqueue", g.message = f.message,
         NEW q \in f.todo, g.todo = f.todo \ {q}
  PROVE  LET x == Copy("moving", q, Len(c) + 1, f.message)
         IN  Above(<<f>> \o c, 0) = {x} \cup Above(<<g>> \o c, 0) /\ x \notin Above(<<g>> \o c, 0)
<1>1. Len(c) \in Nat
  <2> HIDE DEF Proper
  <2> QED
    BY LenProperties
<1> DEFINE x == Copy("moving", q, Len(c) + 1, f.message)
           K(r) == Copy("moving", r, Len(c) + 1, f.message)
<1>2. 0 + Len(c) + 1 = Len(c) + 1 /\ 0 + Len(c) = Len(c)
  BY <1>1
<1>3. Above(<<f>> \o c, 0) = {K(r) : r \in f.todo} \cup Above(c, 0)
  <2>1. Above(<<f>> \o c, 0) = {Copy("moving", r, 0 + Len(c) + 1, f.message) : r \in Bound(f)} \cup Above(c, 0)
    BY AboveFramed
  <2>2. Bound(f) = f.todo
    BY DEF Bound
  <2> QED
    BY <1>2, <2>1, <2>2
<1>4. Above(<<g>> \o c, 0) = {K(r) : r \in f.todo \ {q}} \cup Above(c, 0)
  <2>1. Above(<<g>> \o c, 0) = {Copy("moving", r, 0 + Len(c) + 1, g.message) : r \in Bound(g)} \cup Above(c, 0)
    BY AboveFramed
  <2>2. Bound(g) = f.todo \ {q}
    BY DEF Bound
  <2> QED
    BY <1>2, <2>1, <2>2
<1>5. x = K(q) /\ x.queue = q /\ x.at = Len(c) + 1 /\ \A r : K(r).queue = r
  BY CopyFields
<1>6. \A y \in Above(c, 0) : y.at <= 0 + Len(c)
  BY AboveAre
<1>7. x \notin Above(c, 0)
  BY <1>1, <1>2, <1>5, <1>6
<1> HIDE DEF K, x
<1> QED
  BY <1>3, <1>4, <1>5, <1>7 DEF x

(* The message of an enqueue frame is put into one more queue, or refused. *)
LEMMA AbovePlaced ==
  ASSUME NEW t \in Proper, NEW c \in Seq(Proper), NEW d \in Seq(Proper)
  PROVE  /\ Above(d \o <<t>> \o c, 0) = Above(d, Len(c) + 1) \cup Above(<<t>> \o c, 0)
         /\ Len(c) \in Nat
<1>1. Len(c) \in Nat /\ 0 + Len(c) = Len(c) /\ Len(c) \in Int
  <2> HIDE DEF Proper
  <2> QED
    BY LenProperties
<1> DEFINE o == <<t>>
           e == d \o o
<1>2. o \in Seq(Proper) /\ Len(o) = 1
  BY OneFrame
<1> HIDE DEF o
<1>3. e \in Seq(Proper)
  BY <1>2, Framed
<1>4. Above(e, Len(c)) = Above(d, Len(c) + 1) \cup Above(o, Len(c))
  <2>1. ASSUME NEW k \in Int
        PROVE  Above(d \o o, k) = Above(d, k + Len(o)) \cup Above(o, k)
    <3>1. o \in Seq(Proper) /\ d \in Seq(Proper) /\ k \in Int
      BY <1>2
    <3> QED
      BY <3>1, AboveConcat, ZenonT(40)
  <2>2. Above(e, Len(c)) = Above(d, Len(c) + Len(o)) \cup Above(o, Len(c))
    BY <1>1, <2>1
  <2> QED
    BY <1>2, <2>2
<1> HIDE DEF e
<1>5. Above(e \o c, 0) = Above(e, Len(c)) \cup Above(c, 0)
  BY <1>1, <1>3, AboveConcat
<1>6. Above(o \o c, 0) = Above(o, Len(c)) \cup Above(c, 0)
  BY <1>1, <1>2, AboveConcat
<1>7. Above(e \o c, 0) = Above(d, Len(c) + 1) \cup Above(o \o c, 0)
  BY <1>4, <1>5, <1>6
<1> QED
  BY <1>1, <1>7 DEF e, o

LEMMA AboveAlike ==
  ASSUME NEW t \in Proper, NEW g \in Proper, Bound(t) = Bound(g), t.message = g.message,
         NEW c \in Seq(Proper)
  PROVE  Above(<<t>> \o c, 0) = Above(<<g>> \o c, 0)
<1>1. Above(<<t>> \o c, 0)
        = {Copy("moving", r, 0 + Len(c) + 1, t.message) : r \in Bound(t)} \cup Above(c, 0)
  BY AboveFramed
<1>2. Above(<<g>> \o c, 0)
        = {Copy("moving", r, 0 + Len(c) + 1, g.message) : r \in Bound(g)} \cup Above(c, 0)
  BY AboveFramed
<1> QED
  BY <1>1, <1>2

LEMMA TookAlike ==
  ASSUME NEW g \in Proper, g.do = "enqueue", NEW q \in Queues, q \notin g.todo
  PROVE  LET t == [g EXCEPT !.stored = @ \cup {q}]
         IN  t \in Proper /\ Bound(t) = Bound(g) /\ t.message = g.message
<1>1. \A f \in Proper : f.do = "enqueue" /\ q \notin f.todo =>
        /\ [f EXCEPT !.stored = @ \cup {q}] \in Proper
        /\ [f EXCEPT !.stored = @ \cup {q}].do = "enqueue"
        /\ [f EXCEPT !.stored = @ \cup {q}].todo = f.todo
        /\ [f EXCEPT !.stored = @ \cup {q}].message = f.message
  BY DEF Proper, Frame
<1> DEFINE t == [g EXCEPT !.stored = @ \cup {q}]
<1>2. t \in Proper /\ t.do = "enqueue" /\ t.todo = g.todo /\ t.message = g.message
  BY <1>1
<1> HIDE DEF t
<1>3. Bound(t) = Bound(g)
  BY <1>2 DEF Bound
<1> QED
  BY <1>2, <1>3 DEF t

(* rest is the call when q is struck off the targets of its top frame. *)
Strikes(q, f, g, c, rest) ==
  /\ f \in Proper /\ f.do = "enqueue" /\ q \in f.todo /\ c \in Seq(Proper)
  /\ g \in Proper /\ g.do = "enqueue" /\ g.message = f.message /\ g.todo = f.todo \ {q}
  /\ call = <<f>> \o c /\ rest = <<g>> \o c /\ rest \in Seq(Proper)
  /\ Head(rest) = g /\ Tail(rest) = c

LEMMA StrikesMoves ==
  ASSUME NEW f, NEW g, NEW q, NEW c, NEW rest, Strikes(q, f, g, c, rest)
  PROVE  /\ LET x == Copy("moving", q, Len(c) + 1, f.message)
            IN  Above(call, 0) = {x} \cup Above(rest, 0) /\ x \notin Above(rest, 0)
         /\ \A y \in Above(rest, 0) : y.kind = "moving"
<1>1. /\ f \in Proper /\ f.do = "enqueue" /\ q \in f.todo /\ c \in Seq(Proper)
      /\ g \in Proper /\ g.do = "enqueue" /\ g.message = f.message /\ g.todo = f.todo \ {q}
      /\ call = <<f>> \o c /\ rest = <<g>> \o c /\ rest \in Seq(Proper)
  BY DEF Strikes
<1> DEFINE x == Copy("moving", q, Len(c) + 1, f.message)
<1>2. Above(<<f>> \o c, 0) = {x} \cup Above(<<g>> \o c, 0) /\ x \notin Above(<<g>> \o c, 0)
  BY <1>1, AboveStruck
<1> HIDE DEF x
<1>3. \A y \in Above(rest, 0) : y.kind = "moving"
  <2>1. 0 \in Int
    OBVIOUS
  <2> QED
    BY <1>1, <2>1, AboveAre
<1> QED
  BY <1>1, <1>2, <1>3 DEF x

LEMMA AcceptMoves ==
  ASSUME TypeOK, NEW f, NEW g, NEW q, NEW c, NEW rest, Strikes(q, f, g, c, rest),
         ~Refuses(q), Accept(f, q, rest), unacked' = unacked
  PROVE  Moves(Copies, Copies')
<1>1. /\ f \in Proper /\ f.do = "enqueue" /\ q \in f.todo /\ c \in Seq(Proper)
      /\ g \in Proper /\ g.do = "enqueue" /\ g.message = f.message /\ g.todo = f.todo \ {q}
      /\ call = <<f>> \o c /\ rest = <<g>> \o c /\ rest \in Seq(Proper)
      /\ Head(rest) = g /\ Tail(rest) = c
  BY DEF Strikes
<1>2. q \in Queues /\ f.message \in Message /\ f.live \in BOOLEAN
  BY <1>1, FrameFields
<1>3. /\ store \in [Queues -> Seq(Message)] /\ unacked \in Seq(Delivery)
      /\ store[q] \in Seq(Message)
  BY <1>2, Types
<1>9. LET x == Copy("moving", q, Len(c) + 1, f.message)
      IN  Above(call, 0) = {x} \cup Above(rest, 0) /\ x \notin Above(rest, 0)
  BY StrikesMoves
<1>15. \A y \in Above(rest, 0) : y.kind = "moving"
  BY StrikesMoves
<1> DEFINE m == Stamped(q, f.message)
           s == Enqueued(q, m)
           k == Excess(q, s)
           first == SubSeq(s, 1, k)
           last == SubSeq(s, k + 1, Len(s))
           took == [g EXCEPT !.stored = @ \cup {q}]
           dead == Deaths(first, q, "maxlen", f.live)
           n == Len(c)
           x == Copy("moving", q, n + 1, f.message)
           X == StoredIn(q, store[q]) \cup {x}
           Y == StoredIn(q, last) \cup Above(dead, n + 1)
           R == Others(store, q) \cup InHands(unacked) \cup Above(rest, 0)
           C == Copies
           D == Copies'
<1>4. store' = [store EXCEPT ![q] = last] /\ call' = dead \o <<took>> \o c
  BY <1>1 DEF Accept
<1>5. /\ Above(dead \o <<took>> \o c, 0) = Above(dead, n + 1) \cup Above(rest, 0)
      /\ n \in Nat /\ n + 1 \in Int /\ dead \in Seq(Proper)
      /\ s \in Seq(Message) /\ k \in 0 .. Len(s) /\ first \in Seq(Message) /\ last \in Seq(Message)
  <2>1. m \in Message
    BY <1>2, StampedType
  <2>2. PICK i \in 1 .. Len(store[q]) + 1 : s = InsertAt(store[q], i, m)
    BY <1>2, <2>1, EnqueuedAt
  <2>3. s \in Seq(Message) /\ k \in 0 .. Len(s)
    BY <1>2, <2>1, AcceptKeepsLimit
  <2> HIDE DEF s, k, m
  <2>4. first \in Seq(Message) /\ last \in Seq(Message)
    <3>1. Len(s) \in Nat
      BY <2>3, LenProperties
    <3>2. 1 \in 1 .. Len(s) + 1 /\ k + 1 \in 1 .. Len(s) + 1 /\ Len(s) \in 0 .. Len(s)
          /\ 1 <= k + 1 /\ k + 1 <= Len(s) + 1
      BY <2>3, <3>1
    <3> HIDE DEF Message
    <3>3. first \in Seq(Message)
      BY <2>3, <3>2, Piece
    <3>4. last \in Seq(Message)
      BY <2>3, <3>2, Piece
    <3> QED
      BY <3>3, <3>4
  <2> HIDE DEF first, last
  <2>5. dead \in Seq(Proper)
    BY <1>2, <2>4, DeathsAre DEF Reasons
  <2>6. took \in Proper /\ Bound(took) = Bound(g) /\ took.message = g.message
    BY <1>1, <1>2, TookAlike
  <2> HIDE DEF dead, took
  <2>7. Above(dead \o <<took>> \o c, 0) = Above(dead, Len(c) + 1) \cup Above(<<took>> \o c, 0) /\ Len(c) \in Nat
    BY <1>1, <2>5, <2>6, AbovePlaced
  <2>8. Above(<<took>> \o c, 0) = Above(rest, 0)
    BY <1>1, <2>6, AboveAlike
  <2>9. n \in Nat /\ n + 1 \in Int
    BY <2>7
  <2> HIDE DEF n
  <2> QED
    BY <2>3, <2>4, <2>5, <2>7, <2>8, <2>9 DEF n
<1>6. Moves(X, Y)
  <2>1. m \in Message /\ m.id = f.message.id /\ m.trail = f.message.trail
    <3>1. \A y \in Message : Stamped(q, y).id = y.id /\ Stamped(q, y).trail = y.trail
      BY DEF Stamped, Message
    <3> QED
      BY <1>2, <3>1, StampedType
  <2>2. PICK i \in 1 .. Len(store[q]) + 1 : s = InsertAt(store[q], i, m)
    BY <1>2, <2>1, EnqueuedAt
  <2>3. x.kind = "moving" /\ x.id = m.id /\ x.trail = m.trail /\ x.queue = q
    BY <2>1, CopyFields
  <2>4. Moves(X, StoredIn(q, s))
    <3> HIDE DEF x, m, s
    <3>1. x.kind # "stored"
      BY <2>3
    <3> QED
      BY <1>2, <1>3, <2>1, <2>2, <2>3, <3>1, InsertMoves
  <2>5. Splits(s, last, first)
    <3> HIDE DEF s, k, Message
    <3> QED
      BY <1>5, SplitsAt
  <2>6. Moves(StoredIn(q, s), Y)
    <3> HIDE DEF s, first, last
    <3> QED
      BY <1>2, <1>5, <2>5, DeathsMove DEF Reasons
  <2> HIDE DEF X, Y, s
  <2> QED
    BY <2>4, <2>6, MovesOn
<1>16. Above(call, 0) = {x} \cup Above(rest, 0) /\ x \notin Above(rest, 0)
  BY <1>9
<1> HIDE DEF m, s, k, first, last, took, dead
<1>7. InStores(store) = StoredIn(q, store[q]) \cup Others(store, q)
  BY <1>2, <1>3, StoresApart
<1>8. InStores(store') = StoredIn(q, last) \cup Others(store, q)
  <2>1. InStores([store EXCEPT ![q] = last]) = StoredIn(q, last) \cup Others(store, q)
    BY <1>2, <1>3, <1>5, StoresExcept
  <2> QED
    BY <1>4, <2>1
<1>10. X \cap R = {}
  <2>1. \A y \in StoredIn(q, store[q]) : y.kind = "stored" /\ y.queue = q
    BY <1>2, <1>3, StoredInAre
  <2>2. \A y \in Others(store, q) : y.kind = "stored" /\ y.queue # q
    BY <1>2, <1>3, StoresApart
  <2>3. \A y \in InHands(unacked) : y.kind = "unacked"
    BY <1>3, InHandsAre
  <2>5. x.kind = "moving"
    BY CopyFields
  <2> HIDE DEF x
  <2>6. \A y \in StoredIn(q, store[q]) : y \notin R
    BY <1>15, <2>1, <2>2, <2>3
  <2>7. x \notin R
    BY <1>16, <2>2, <2>3, <2>5
  <2> QED
    BY <2>6, <2>7
<1> HIDE DEF x
<1>11. C = X \cup R
  BY <1>7, <1>16 DEF Copies
<1>12. D \subseteq Y \cup R
  BY <1>4, <1>5, <1>8 DEF Copies
<1> HIDE DEF X, Y, R, C, D
<1>13. Part(X, Y, R, C, D)
  BY <1>10, <1>11, <1>12 DEF Part
<1>14. Moves(C, D)
  BY <1>6, <1>13, MovesPart
<1> QED
  BY <1>14 DEF C, D

LEMMA AboveOneDeath ==
  ASSUME NEW m \in Message, NEW q \in Queues, NEW reason \in Reasons, NEW live \in BOOLEAN,
         NEW n \in Int
  PROVE  /\ Deaths(<<m>>, q, reason, live) \in Seq(Proper)
         /\ Above(Deaths(<<m>>, q, reason, live), n) \subseteq {Copy("moving", q, n + 1, m)}
<1> DEFINE one == <<m>>
           d == Deaths(one, q, reason, live)
           z == Copy("moving", q, n + 1, m)
<1>1. one \in Seq(Message) /\ Len(one) = 1 /\ one[1] = m
  OBVIOUS
<1> HIDE DEF one
<1>2. /\ d \in Seq(Proper)
      /\ ~DeadLetters(q, reason) => d = <<>>
      /\ DeadLetters(q, reason) => Len(d) = 1 /\ d[1] = Dead(m, q, reason, live)
  <2>1. d \in Seq(Proper)
    BY <1>1, DeathsAre
  <2>2. ~DeadLetters(q, reason) => d = <<>>
    BY <1>1, DeathsAre
  <2>3. DeadLetters(q, reason) =>
          /\ Len(d) = Len(one)
          /\ \A i \in 1 .. Len(one) : d[i] = Dead(one[i], q, reason, live)
    BY <1>1, DeathsAre
  <2>4. 1 \in 1 .. Len(one)
    BY <1>1
  <2> QED
    BY <1>1, <2>1, <2>2, <2>3, <2>4
<1> HIDE DEF d
<1>3. CASE ~DeadLetters(q, reason)
  <2>1. d = <<>>
    BY <1>2, <1>3
  <2> QED
    BY <1>2, <2>1, AboveNone DEF d, one
<1>4. CASE DeadLetters(q, reason)
  <2>1. ASSUME NEW x \in Above(d, n) PROVE x = z
    <3>1. PICK i \in 1 .. Len(d) : InFrame(x, d[i], n + Len(d) + 1 - i)
      BY <1>2, AboveAre
    <3>2. i = 1 /\ n + Len(d) + 1 - i = n + 1
      <4>1. Len(d) = 1
        BY <1>2, <1>4
      <4>2. i = 1
        BY <4>1
      <4>3. n + 1 + 1 - 1 = n + 1
        OBVIOUS
      <4> QED
        BY <4>1, <4>2, <4>3
    <3>3. Bound(d[1]) = {q} /\ d[1].message = m
      BY <1>2, <1>4 DEF Bound, Dead
    <3> QED
      BY <3>1, <3>2, <3>3 DEF InFrame
  <2> QED
    BY <1>2, <2>1 DEF d, one
<1> QED
  BY <1>3, <1>4

LEMMA RefuseMoves ==
  ASSUME TypeOK, NEW f, NEW g, NEW q, NEW c, NEW rest, Strikes(q, f, g, c, rest),
         Refuse(f, q, rest), unacked' = unacked
  PROVE  Moves(Copies, Copies')
<1>1. /\ f \in Proper /\ f.do = "enqueue" /\ q \in f.todo /\ rest \in Seq(Proper)
  BY DEF Strikes
<1>2. q \in Queues /\ f.message \in Message /\ f.live \in BOOLEAN
  BY <1>1, FrameFields
<1>3. store \in [Queues -> Seq(Message)] /\ unacked \in Seq(Delivery)
  BY Types
<1>4. LET x == Copy("moving", q, Len(c) + 1, f.message)
      IN  Above(call, 0) = {x} \cup Above(rest, 0) /\ x \notin Above(rest, 0)
  BY StrikesMoves
<1>5. Len(rest) \in Int /\ 0 + Len(rest) = Len(rest)
  <2>1. Len(rest) \in Nat
    <3> HIDE DEF Proper
    <3> QED
      BY <1>1, LenProperties
  <2> QED
    BY <2>1
<1> DEFINE one == <<f.message>>
           all == Deaths(one, q, "maxlen", f.live)
           dead == IF Overflow[q] = "reject-publish-dlx" THEN all ELSE <<>>
           x == Copy("moving", q, Len(c) + 1, f.message)
           z == Copy("moving", q, Len(rest) + 1, f.message)
           Y == Above(dead, Len(rest))
           R == InStores(store) \cup InHands(unacked) \cup Above(rest, 0)
           C == Copies
           D == Copies'
<1>6. store' = store /\ call' = dead \o rest
  BY DEF Refuse
<1>7. dead \in Seq(Proper) /\ Y \subseteq {z}
  <2>1. all \in Seq(Proper) /\ Above(all, Len(rest)) \subseteq {z}
    BY <1>2, <1>5, AboveOneDeath DEF Reasons
  <2>2. <<>> \in Seq(Proper)
    <3> HIDE DEF Proper
    <3> QED
      BY EmptySeq
  <2> QED
    BY <2>1, <2>2, AboveNone
<1>8. Moves({x}, Y)
  <2>1. Same(x, z)
    BY CopyFields DEF Same
  <2> HIDE DEF x, z, Y
  <2>2. Moves({x}, {z})
    BY <2>1, MovesOne
  <2>3. Moves({z}, Y)
    BY <1>7, MovesInto
  <2> QED
    BY <2>2, <2>3, MovesOn
<1>9. Above(call', 0) = Y \cup Above(rest, 0)
  <2> HIDE DEF dead
  <2>1. Above(dead \o rest, 0) = Above(dead, 0 + Len(rest)) \cup Above(rest, 0)
    BY <1>1, <1>7, AboveConcat
  <2> QED
    BY <1>5, <1>6, <2>1
<1>10. Above(call, 0) = {x} \cup Above(rest, 0) /\ x \notin Above(rest, 0)
  BY <1>4
<1>11. x.kind = "moving"
  BY CopyFields
<1> HIDE DEF x, z, Y, dead
<1>12. {x} \cap R = {}
  <2>1. \A y \in InStores(store) : y.kind = "stored"
    BY <1>3, InStoresAre
  <2>2. \A y \in InHands(unacked) : y.kind = "unacked"
    BY <1>3, InHandsAre
  <2> QED
    BY <1>10, <1>11, <2>1, <2>2
<1>13. C = {x} \cup R
  BY <1>10 DEF Copies
<1>14. D \subseteq Y \cup R
  BY <1>6, <1>9 DEF Copies
<1> HIDE DEF R, C, D
<1>15. Part({x}, Y, R, C, D)
  BY <1>12, <1>13, <1>14 DEF Part
<1>16. Moves(C, D)
  BY <1>8, <1>15, MovesPart
<1> QED
  BY <1>16 DEF C, D

LEMMA EnqueueMoves ==
  ASSUME TypeOK, EnqueueStep
  PROVE  Moves(Copies, Copies')
<1> USE Types
<1>1. ~Idle /\ Top \in Proper /\ Top.do = "enqueue" /\ Tail(call) \in Seq(Proper)
  BY DEF EnqueueStep
<1>2. PICK q \in Top.todo :
        LET rest == [call EXCEPT ![1].todo = @ \ {q}]
        IN  \/ Refuses(q) /\ Refuse(Top, q, rest)
            \/ ~Refuses(q) /\ Accept(Top, q, rest)
  BY DEF EnqueueStep
<1> DEFINE f == [Top EXCEPT !.todo = @ \ {q}]
           rest == [call EXCEPT ![1] = f]
<1>3. f \in Proper /\ q \in Queues /\ f.do = "enqueue" /\ f.todo = Top.todo \ {q} /\ f.message = Top.message
  BY <1>1, FrameFields DEF Proper, Frame
<1>4. \/ Refuse(Top, q, rest)
      \/ ~Refuses(q) /\ Accept(Top, q, rest)
  BY <1>1, <1>2, Zenon DEF f, Top
<1> HIDE DEF f
<1>5. rest = <<f>> \o Tail(call) /\ rest \in Seq(Proper) /\ Head(rest) = f /\ Tail(rest) = Tail(call)
  BY <1>1, <1>3, TopReplaced
<1> HIDE DEF rest
<1>6. call = <<Top>> \o Tail(call)
  BY <1>1, TopAndTail
<1>7. Strikes(q, Top, f, Tail(call), rest)
  BY <1>1, <1>3, <1>5, <1>6 DEF Strikes
<1>8. unacked' = unacked
  BY DEF EnqueueStep
<1> QED
  BY <1>4, <1>7, <1>8, RefuseMoves, AcceptMoves

(* A dead letter is published again: its copies go on from the one that died. *)
LEMMA UnderItself ==
  ASSUME NEW x \in ACopy
  PROVE  Under(x, x)
<1>1. Len(x.trail) \in Nat
  <2>1. x.trail \in Seq(Death)
    BY DEF ACopy
  <2> HIDE DEF Death
  <2> QED
    BY <2>1, LenProperties
<1> QED
  BY <1>1 DEF Under

LEMMA UnderDead ==
  ASSUME NEW x \in ACopy, NEW y \in ACopy, NEW d \in Death, d.queue = x.queue,
         y.id = x.id, y.trail = Append(x.trail, d)
  PROVE  Under(x, y)
<1>1. /\ Len(x.trail) \in Nat /\ Len(y.trail) = Len(x.trail) + 1
      /\ y.trail[Len(x.trail) + 1] = d
      /\ \A i \in 1 .. Len(x.trail) : y.trail[i] = x.trail[i]
  <2>1. x.trail \in Seq(Death)
    BY DEF ACopy
  <2> HIDE DEF Death
  <2> QED
    BY <2>1, LenProperties, AppendProperties
<1> SUFFICES ASSUME NEW i \in 1 .. Len(x.trail) + 1 PROVE Stop(x, i) = Stop(y, i)
  BY <1>1 DEF Under
<1>2. i <= Len(y.trail) /\ Stop(y, i) = y.trail[i].queue
  BY <1>1 DEF Stop
<1>3. CASE i <= Len(x.trail)
  BY <1>1, <1>2, <1>3 DEF Stop
<1>4. CASE ~(i <= Len(x.trail))
  <2>1. i = Len(x.trail) + 1
    BY <1>1, <1>4
  <2> QED
    BY <1>1, <1>2, <1>4, <2>1 DEF Stop
<1> QED
  BY <1>3, <1>4

LEMMA UnderForked ==
  ASSUME NEW x \in ACopy, NEW y \in ACopy, x.trail = y.trail, Under(x, y)
  PROVE  x.queue = y.queue
<1>1. Len(x.trail) \in Nat
  <2>1. x.trail \in Seq(Death)
    BY DEF ACopy
  <2> HIDE DEF Death
  <2> QED
    BY <2>1, LenProperties
<1>2. Len(x.trail) + 1 \in 1 .. Len(x.trail) + 1 /\ ~(Len(x.trail) + 1 <= Len(x.trail))
  BY <1>1
<1>3. Stop(x, Len(x.trail) + 1) = Stop(y, Len(x.trail) + 1)
  BY <1>2 DEF Under
<1> QED
  BY <1>2, <1>3 DEF Stop

(* The copies of N are those x has become, R those that stay. *)
Forks(C, D, x, N, R, d) ==
  /\ R \subseteq C /\ D \subseteq N \cup R
  /\ d \in Death /\ d.queue = x.queue
  /\ \A y \in N : y.id = x.id /\ y.trail = Append(x.trail, d)
  /\ \A y, z \in N : y.queue = z.queue => y = z
  /\ x \notin R /\ N \cap R = {}

LEMMA ForkFollows ==
  ASSUME NEW C \in SUBSET ACopy, NEW D \in SUBSET ACopy, NEW x \in C, NEW N, NEW R, NEW d,
         Forks(C, D, x, N, R, d), NEW n, Apart(C), Numbered(C, n)
  PROVE  Apart(D) /\ Numbered(D, n)
<1> DEFINE F == [y \in D |-> IF y \in N THEN x ELSE y]
<1>1. /\ R \subseteq C /\ D \subseteq N \cup R
      /\ d \in Death /\ d.queue = x.queue
      /\ \A y \in N : y.id = x.id /\ y.trail = Append(x.trail, d)
      /\ \A y, z \in N : y.queue = z.queue => y = z
      /\ x \notin R /\ N \cap R = {}
  BY DEF Forks
<1>2. \A y \in D : /\ y \in ACopy /\ F[y] = IF y \in N THEN x ELSE y
                   /\ y \notin N => y \in R
  BY <1>1
<1>3. F \in [D -> C]
  BY <1>1, <1>2
<1> HIDE DEF F
<1>4. \A y \in D : Under(F[y], y)
  <2> SUFFICES ASSUME NEW y \in D PROVE Under(F[y], y)
    OBVIOUS
  <2>1. CASE y \in N
    <3>1. F[y] = x /\ y.id = x.id /\ y.trail = Append(x.trail, d) /\ y \in ACopy /\ x \in ACopy
      BY <1>1, <1>2, <2>1
    <3> QED
      BY <1>1, <3>1, UnderDead
  <2>2. CASE y \notin N
    BY <1>2, <2>2, UnderItself
  <2> QED
    BY <2>1, <2>2
<1>5. \A y, z \in D : y # z /\ F[y] = F[z] => ~Under(y, z)
  <2> SUFFICES ASSUME NEW y \in D, NEW z \in D, y # z, F[y] = F[z], Under(y, z) PROVE FALSE
    OBVIOUS
  <2>1. y \in N /\ z \in N
    <3>1. y \notin N => F[y] = y /\ y \in R
      BY <1>2
    <3>2. z \notin N => F[z] = z /\ z \in R
      BY <1>2
    <3>3. y \in N => F[y] = x
      BY <1>2
    <3>4. z \in N => F[z] = x
      BY <1>2
    <3> QED
      BY <1>1, <3>1, <3>2, <3>3, <3>4
  <2>2. y.trail = z.trail
    BY <1>1, <2>1
  <2>3. y.queue = z.queue
    BY <1>2, <2>2, UnderForked
  <2> QED
    BY <1>1, <2>1, <2>3
<1>6. Follows(C, D, F)
  BY <1>3, <1>4, <1>5 DEF Follows
<1> QED
  BY <1>6, FollowsApart, FollowsNumbered

LEMMA AboveEnd ==
  ASSUME NEW s \in Seq(Proper), NEW k \in 1 .. Len(s), NEW t, t = SubSeq(s, k + 1, Len(s))
  PROVE  t \in Seq(Proper) /\ Above(t, 0) \subseteq Above(s, 0)
<1>1. Len(s) \in Nat
  <2> HIDE DEF Proper
  <2> QED
    BY LenProperties
<1>2. k + 1 \in 1 .. Len(s) + 1 /\ Len(s) \in 0 .. Len(s) /\ k + 1 <= Len(s) + 1
  BY <1>1
<1>3. t \in Seq(Proper) /\ Len(t) = Len(s) - (k + 1) + 1 /\ \A j \in 1 .. Len(t) : t[j] = s[k + 1 + j - 1]
  <2> HIDE DEF Proper
  <2> QED
    BY <1>2, Piece
<1>4. ASSUME NEW x \in Above(t, 0) PROVE x \in Above(s, 0)
  <2>0. 0 \in Int
    OBVIOUS
  <2>1. PICK j \in 1 .. Len(t) : InFrame(x, t[j], 0 + Len(t) + 1 - j)
    BY <1>3, <1>4, <2>0, AboveAre, ZenonT(40)
  <2> DEFINE i == k + j
  <2>2. Len(t) \in Int /\ Len(t) = Len(s) - k
    BY <1>1, <1>3
  <2>3. i \in 1 .. Len(s) /\ k + 1 + j - 1 = i /\ 0 + Len(t) + 1 - j = 0 + Len(s) + 1 - i
    BY <1>1, <2>2
  <2>4. t[j] = s[i]
    BY <1>3, <2>3
  <2> HIDE DEF i
  <2>5. InFrame(x, s[i], 0 + Len(s) + 1 - i)
    BY <2>1, <2>3, <2>4
  <2> QED
    BY <2>3, <2>5, AboveAre
<1> QED
  BY <1>3, <1>4

LEMMA AboveThrown ==
  ASSUME TypeOK
  PROVE  Above(Thrown, 0) \subseteq Above(call, 0)
<1> DEFINE catching == {i \in DOMAIN call : call[i].do \in {"try", "confirm"}}
           i == Min(catching)
           rest == SubSeq(call, i + 1, Len(call))
           caught == [call[i] EXCEPT !.ok = FALSE]
<1>1. call \in Seq(Proper) /\ Len(call) \in Nat /\ DOMAIN call = 1 .. Len(call)
  BY Types
<1>2. Thrown = IF catching = {} THEN <<>>
               ELSE IF call[i].do = "try" THEN rest ELSE <<caught>> \o rest
  BY DEF Thrown
<1>3. ASSUME catching # {}
      PROVE  /\ rest \in Seq(Proper) /\ Above(rest, 0) \subseteq Above(call, 0)
             /\ call[i].do # "try" => caught \in Proper /\ Bound(caught) = {}
  <2>1. catching \in SUBSET (1 .. Len(call)) /\ catching \in SUBSET Nat
    BY <1>1
  <2>2. i \in catching
    <3> HIDE DEF catching
    <3> QED
      BY <1>3, <2>1, MinProperties
  <2>3. i \in 1 .. Len(call) /\ call[i].do \in {"try", "confirm"}
    BY <1>1, <2>2
  <2> HIDE DEF catching, i
  <2>4. rest \in Seq(Proper) /\ Above(rest, 0) \subseteq Above(call, 0)
    BY <1>1, <2>3, AboveEnd
  <2>5. call[i] \in Proper
    BY <2>3, Types
  <2>6. \A f \in Proper : f.do = "confirm" => /\ [f EXCEPT !.ok = FALSE] \in Proper
                                              /\ [f EXCEPT !.ok = FALSE].do = "confirm"
    BY DEF Proper, Frame
  <2>7. call[i].do # "try" => caught \in Proper /\ caught.do = "confirm"
    BY <2>3, <2>5, <2>6
  <2> QED
    BY <2>4, <2>7 DEF Bound
<1>4. CASE catching = {}
  BY <1>2, <1>4, AboveNone
<1>5. CASE catching # {} /\ call[i].do = "try"
  BY <1>2, <1>3, <1>5
<1>6. CASE catching # {} /\ call[i].do # "try"
  <2>1. Thrown = <<caught>> \o rest /\ rest \in Seq(Proper) /\ caught \in Proper /\ Bound(caught) = {}
        /\ Above(rest, 0) \subseteq Above(call, 0)
    BY <1>2, <1>3, <1>6
  <2> HIDE DEF caught, rest, catching, i
  <2>2. Above(<<caught>> \o rest, 0)
          = {Copy("moving", r, 0 + Len(rest) + 1, caught.message) : r \in Bound(caught)} \cup Above(rest, 0)
    BY <2>1, AboveFramed
  <2> QED
    BY <2>1, <2>2
<1> QED
  BY <1>4, <1>5, <1>6

(* Frames that bear no message are put on the call, or taken off. *)
LEMMA AboveQuiet ==
  ASSUME TypeOK, ~Idle, NEW s \in Seq(Proper), \A n \in Int : Above(s, n) = {}
  PROVE  /\ Above(s \o Tail(call), 0) \subseteq Above(call, 0)
         /\ Above(Tail(call), 0) \subseteq Above(call, 0)
<1>1. Top \in Proper /\ Tail(call) \in Seq(Proper) /\ call = <<Top>> \o Tail(call)
  BY TopAndTail
<1> DEFINE c == Tail(call)
           f == Top
<1> HIDE DEF c, f
<1>2. 0 + Len(c) \in Int /\ f \in Proper /\ c \in Seq(Proper) /\ call = <<f>> \o c
  <2>1. c \in Seq(Proper)
    BY <1>1 DEF c
  <2>2. Len(c) \in Nat
    <3> HIDE DEF Proper
    <3> QED
      BY <2>1, LenProperties
  <2> QED
    BY <1>1, <2>1, <2>2 DEF c, f
<1>3. Above(<<f>> \o c, 0)
        = {Copy("moving", r, 0 + Len(c) + 1, f.message) : r \in Bound(f)} \cup Above(c, 0)
  BY <1>2, AboveFramed
<1>4. Above(s \o c, 0) = Above(s, 0 + Len(c)) \cup Above(c, 0)
  BY <1>2, AboveConcat
<1>5. Above(c, 0) \subseteq Above(call, 0)
  BY <1>2, <1>3
<1> QED
  BY <1>2, <1>4, <1>5 DEF c

(* s is c and, above it, p and perhaps another frame. *)
Crowned(s, p, c) ==
  \E k \in {Len(c) + 1, Len(c) + 2} :
    Above(s, 0) = {Copy("moving", q, k, p.message) : q \in Bound(p)} \cup Above(c, 0)

LEMMA AboveTwo ==
  ASSUME NEW p \in Proper, NEW t \in Proper, Bound(t) = {}, NEW c \in Seq(Proper), NEW s,
         s \in {<<p>> \o c, <<p, t>> \o c}
  PROVE  Crowned(s, p, c)
<1>0. 0 \in Int
  OBVIOUS
<1>1. Len(c) \in Nat
  <2> HIDE DEF Proper
  <2> QED
    BY LenProperties
<1> DEFINE P == <<p>>
           O == <<t>>
           u == O \o c
<1>2. P \in Seq(Proper) /\ O \in Seq(Proper) /\ Len(O) = 1
  OBVIOUS
<1>3. <<p, t>> = P \o O
  BY TwoFrames
<1>4. Above(P \o c, 0) = {Copy("moving", q, 0 + Len(c) + 1, p.message) : q \in Bound(p)} \cup Above(c, 0)
  BY <1>0, AboveFramed, ZenonT(40)
<1>5. Above(O \o c, 0) = {Copy("moving", q, 0 + Len(c) + 1, t.message) : q \in Bound(t)} \cup Above(c, 0)
  BY <1>0, AboveFramed, ZenonT(40)
<1> HIDE DEF O
<1>6. u \in Seq(Proper) /\ Len(u) = Len(O) + Len(c)
  <2> HIDE DEF Proper
  <2> QED
    BY <1>2, ConcatProperties
<1> HIDE DEF u
<1>7. Above(P \o u, 0) = {Copy("moving", q, 0 + Len(u) + 1, p.message) : q \in Bound(p)} \cup Above(u, 0)
  BY <1>0, <1>6, AboveFramed, ZenonT(40)
<1> HIDE DEF P
<1>8. (P \o O) \o c = P \o u
  <2> HIDE DEF Proper
  <2> QED
    BY <1>2, ConcatAssociative DEF u
<1>9. 0 + Len(c) + 1 = Len(c) + 1 /\ 0 + Len(u) + 1 = Len(c) + 2
  BY <1>1, <1>2, <1>6
<1>10. Above(u, 0) = Above(c, 0)
  BY <1>5 DEF u
<1>11. CASE s = P \o c
  BY <1>1, <1>4, <1>9, <1>11 DEF Crowned
<1>12. CASE s = (P \o O) \o c
  <2>1. Above(s, 0) = {Copy("moving", q, Len(c) + 2, p.message) : q \in Bound(p)} \cup Above(c, 0)
    BY <1>7, <1>8, <1>9, <1>10, <1>12
  <2> QED
    BY <1>1, <2>1 DEF Crowned
<1> QED
  BY <1>3, <1>11, <1>12 DEF P

LEMMA DeadForks ==
  ASSUME TypeOK, TypeOK', CopyInv, NEW f \in Proper, f.do = "dead", NEW c \in Seq(Proper),
         call = <<f>> \o c, NEW d \in Death, d.queue = f.queue,
         NEW g \in Proper, g.message.id = f.message.id,
         g.message.trail = Append(f.message.trail, d),
         NEW t \in Proper, Bound(t) = {}, call' \in {<<g>> \o c, <<g, t>> \o c},
         store' = store, unacked' = unacked, published' = published
  PROVE  CopyInv'
<1>1. Len(c) \in Nat
  <2> HIDE DEF Proper
  <2> QED
    BY LenProperties
<1>2. PICK k \in {Len(c) + 1, Len(c) + 2} :
        Above(call', 0) = {Copy("moving", r, k, g.message) : r \in Bound(g)} \cup Above(c, 0)
  <2> DEFINE s == call'
  <2>1. s \in {<<g>> \o c, <<g, t>> \o c}
    OBVIOUS
  <2> HIDE DEF s
  <2>2. Crowned(s, g, c)
    BY <2>1, AboveTwo
  <2> QED
    BY <2>2 DEF s, Crowned
<1> DEFINE x == Copy("moving", f.queue, 0 + Len(c) + 1, f.message)
           N == {Copy("moving", r, k, g.message) : r \in Bound(g)}
           R == InStores(store) \cup InHands(unacked) \cup Above(c, 0)
           C == Copies
           D == Copies'
<1>3. store \in [Queues -> Seq(Message)] /\ unacked \in Seq(Delivery) /\ call \in Seq(Proper)
      /\ store' \in [Queues -> Seq(Message)] /\ unacked' \in Seq(Delivery) /\ call' \in Seq(Proper)
  BY Types, ProperCall DEF TypeOK
<1>4. C \subseteq ACopy /\ D \subseteq ACopy
  BY <1>3, CopiesAre DEF Copies
<1>5. Bound(f) = {f.queue}
  BY DEF Bound
<1>6. Above(call, 0) = {x} \cup Above(c, 0)
  <2>1. 0 \in Int
    OBVIOUS
  <2>2. Above(<<f>> \o c, 0)
          = {Copy("moving", r, 0 + Len(c) + 1, f.message) : r \in Bound(f)} \cup Above(c, 0)
    BY <2>1, AboveFramed, ZenonT(40)
  <2>3. {Copy("moving", r, 0 + Len(c) + 1, f.message) : r \in {f.queue}} = {x}
    OBVIOUS
  <2> QED
    BY <1>5, <2>2, <2>3
<1>7. x \in C /\ R \subseteq C
  BY <1>6 DEF Copies
<1>8. x.kind = "moving" /\ x.at = 0 + Len(c) + 1 /\ x.queue = f.queue /\ x.id = f.message.id
      /\ x.trail = f.message.trail
  BY DEF Copy
<1>9. \A y \in N : y.kind = "moving" /\ y.at = k /\ y.id = g.message.id /\ y.trail = g.message.trail
  BY DEF Copy
<1>10. ASSUME NEW y \in N, NEW z \in N, y.queue = z.queue PROVE y = z
  <2>1. PICK q \in Bound(g) : y = Copy("moving", q, k, g.message)
    OBVIOUS
  <2>2. PICK r \in Bound(g) : z = Copy("moving", r, k, g.message)
    OBVIOUS
  <2>3. y.queue = q /\ z.queue = r
    BY <2>1, <2>2 DEF Copy
  <2> QED
    BY <1>10, <2>1, <2>2, <2>3
<1>11. \A y \in R : y.kind = "moving" => y.at \in Int /\ y.at <= Len(c)
  <2>1. \A y \in InStores(store) : y.kind = "stored"
    BY <1>3, InStoresAre
  <2>2. \A y \in InHands(unacked) : y.kind = "unacked"
    BY <1>3, InHandsAre
  <2>3. \A y \in Above(c, 0) : y.at \in Int /\ y.at <= Len(c)
    <3>1. 0 \in Int /\ 0 + Len(c) = Len(c)
      BY <1>1
    <3>2. \A y \in Above(c, 0) : y.at \in Int /\ y.at <= 0 + Len(c)
      BY <3>1, AboveAre, ZenonT(40)
    <3> QED
      BY <3>1, <3>2
  <2> QED
    BY <2>1, <2>2, <2>3
<1>12. D \subseteq N \cup R
  BY <1>2 DEF Copies
<1>13. Apart(C) /\ Numbered(C, published)
  BY DEF CopyInv
<1> HIDE DEF x, N, R, C, D
<1>14. x \notin R
  <2>1. 0 + Len(c) + 1 \in Int /\ ~(0 + Len(c) + 1 <= Len(c))
    BY <1>1
  <2> QED
    BY <1>8, <1>11, <2>1
<1>15. ASSUME NEW y \in N, y \in R PROVE FALSE
  <2>1. k \in Int /\ ~(k <= Len(c))
    BY <1>1
  <2> QED
    BY <1>9, <1>11, <1>15, <2>1
<1>16. Forks(C, D, x, N, R, d)
  BY <1>7, <1>8, <1>9, <1>10, <1>12, <1>14, <1>15 DEF Forks
<1>17. Apart(D) /\ Numbered(D, published)
  BY <1>4, <1>7, <1>13, <1>16, ForkFollows
<1> QED
  BY <1>17 DEF CopyInv, D, Apart, Numbered

LEMMA DeadStepCopies ==
  ASSUME TypeOK, TypeOK', CopyInv, DeadStep
  PROVE  CopyInv'
<1>1. /\ ~Idle /\ Top \in Proper /\ Tail(call) \in Seq(Proper) /\ Top.do = "dead"
      /\ Top.message \in Message /\ Top.queue \in Queues /\ Top.reason \in Reasons
      /\ Top.live \in BOOLEAN
  BY Types, FrameFields DEF DeadStep
<1>2. store' = store /\ unacked' = unacked /\ published' = published
  BY DEF DeadStep, brokerVars, historyVars
<1> DEFINE again == PrepareDeadLetter(Top.message, Top.queue, Top.reason)
           targets == Route(DeadLetterExchange[Top.queue], {again.key} \cup again.cc)
           publish == Enqueue(again, targets, Top.live)
           try == [do |-> "try"]
           d == [queue |-> Top.queue, reason |-> Top.reason]
           c == Tail(call)
<1>3. again \in Message
  BY <1>1, PreparedType
<1>4. again.id = Top.message.id /\ again.trail = Append(Top.message.trail, d)
  BY <1>1 DEF PrepareDeadLetter, Message
<1>5. publish \in Proper /\ publish.message = again
  <2>1. targets \subseteq Queues
    BY RouteInQueues
  <2> HIDE DEF again, targets
  <2> QED
    BY <1>1, <1>3, <2>1 DEF Enqueue, Proper, Frame
<1>6. try \in Proper /\ Bound(try) = {}
  BY DEF Bound, Proper, Frame
<1>7. d \in Death /\ d.queue = Top.queue
  BY <1>1 DEF Death
<1>8. call' \in {c, Thrown, <<publish, try>> \o c, <<publish>> \o c}
  BY DEF DeadStep, Pop
<1>9. call = <<Top>> \o c /\ c \in Seq(Proper)
  BY <1>1, TopAndTail
<1> DEFINE f == Top
<1> HIDE DEF again, targets, publish, try, d, c, f
<1>10. f \in Proper /\ f.do = "dead" /\ d.queue = f.queue /\ publish.message.id = f.message.id
       /\ publish.message.trail = Append(f.message.trail, d) /\ call = <<f>> \o c
  BY <1>1, <1>4, <1>5, <1>7, <1>9 DEF f
<1>11. CASE call' \in {<<publish>> \o c, <<publish, try>> \o c}
  BY <1>2, <1>5, <1>6, <1>7, <1>9, <1>10, <1>11, DeadForks
<1>12. CASE call' \in {c, Thrown}
  <2>1. Above(c, 0) \subseteq Above(call, 0)
    <3>1. 0 \in Int
      OBVIOUS
    <3>2. Above(<<f>> \o c, 0)
            = {Copy("moving", q, 0 + Len(c) + 1, f.message) : q \in Bound(f)} \cup Above(c, 0)
      BY <1>9, <1>10, <3>1, AboveFramed, ZenonT(40)
    <3> QED
      BY <1>10, <3>2
  <2>2. Above(Thrown, 0) \subseteq Above(call, 0)
    BY AboveThrown
  <2>3. Copies' \subseteq Copies
    BY <1>2, <1>12, <2>1, <2>2 DEF Copies
  <2> QED
    BY <1>2, <2>3, FewerCopies
<1> QED
  BY <1>8, <1>11, <1>12

(* A client's message is new, and its copies are in queues of their own. *)
LEMMA PublishCopies ==
  ASSUME TypeOK, TypeOK', CopyInv, NEW p \in Publications, Publish(p)
  PROVE  CopyInv'
<1> DEFINE id == published + 1
           tag == IF confirmMode THEN tagSeq + 1 ELSE 0
           ok == p.exchange \in exists \ Internal
           targets == Route(p.exchange, {p.key} \cup p.cc \cup p.bcc)
           return == [do |-> "return", id |-> id]
           m == NewMessage(p)
           new == Enqueue(m, targets, TRUE)
           pipeline == IF ~ok THEN <<>>
                       ELSE IF targets = {} /\ p.mandatory THEN <<return>> ELSE <<new>>
           confirm == [do |-> "confirm", id |-> id, tag |-> tag, ok |-> ok]
<1>1. id \in Ids /\ published \in Nat /\ published < MaxPublished /\ published' = id
  BY Types, PublishingAssumption DEF Publish, Ids
<1>2. m \in Message /\ m.id = id /\ m.trail = <<>>
  <2>1. NewMessage(p) \in Message
    BY <1>1, NewMessageType
  <2> QED
    BY <2>1 DEF NewMessage
<1>3. store' = store /\ unacked' = unacked /\ call' = pipeline \o <<confirm>> \o call
  BY DEF Publish, brokerVars
<1>4. new \in Proper /\ new.message = m
  <2>1. targets \subseteq Queues
    BY RouteInQueues
  <2> HIDE DEF targets, m
  <2> QED
    BY <1>2, <2>1 DEF Enqueue, Proper, Frame
<1>5. /\ return \in Proper /\ Bound(return) = {}
      /\ confirm \in Proper /\ Bound(confirm) = {}
  <2>1. tag \in Nat /\ ok \in BOOLEAN
    BY Types
  <2> HIDE DEF tag, ok
  <2> QED
    BY <1>1, <2>1 DEF Bound, Proper, Frame
<1>6. call \in Seq(Proper) /\ store \in [Queues -> Seq(Message)] /\ unacked \in Seq(Delivery)
      /\ call' \in Seq(Proper) /\ store' \in [Queues -> Seq(Message)] /\ unacked' \in Seq(Delivery)
  BY Types, ProperCall DEF TypeOK
<1> DEFINE N == {Copy("moving", q, k, m) : q \in Bound(new), k \in {Len(call) + 1, Len(call) + 2}}
           C == Copies
           D == Copies'
<1>7. call' \in {<<confirm>> \o call, <<return, confirm>> \o call, <<new, confirm>> \o call}
  <2> HIDE DEF confirm, return, new, targets, ok
  <2>1. <<confirm>> \in Seq(Proper) /\ <<>> \o <<confirm>> = <<confirm>>
    <3>1. <<confirm>> \in Seq(Proper)
      BY <1>5, OneFrame
    <3> DEFINE o == <<confirm>>
    <3> HIDE DEF Proper, o
    <3>2. <<>> \o o = o
      BY <3>1, ConcatEmptySeq DEF o
    <3> QED
      BY <3>1, <3>2 DEF o
  <2>2. <<return>> \o <<confirm>> = <<return, confirm>> /\ <<new>> \o <<confirm>> = <<new, confirm>>
    BY TwoFrames
  <2> QED
    BY <1>3, <2>1, <2>2
<1> HIDE DEF confirm, return, new, m, pipeline, targets, ok, tag, id
<1>8. Crowned(call', confirm, call) \/ Crowned(call', return, call) \/ Crowned(call', new, call)
  <2> DEFINE s == call'
             c == call
  <2>1. s \in {<<confirm>> \o c, <<return, confirm>> \o c, <<new, confirm>> \o c} /\ c \in Seq(Proper)
    BY <1>6, <1>7
  <2> HIDE DEF s, c
  <2>2. CASE s = <<confirm>> \o c
    BY <1>5, <2>1, <2>2, AboveTwo DEF s, c
  <2>3. CASE s = <<return, confirm>> \o c
    BY <1>5, <2>1, <2>3, AboveTwo DEF s, c
  <2>4. CASE s = <<new, confirm>> \o c
    BY <1>4, <1>5, <2>1, <2>4, AboveTwo DEF s, c
  <2> QED
    BY <2>1, <2>2, <2>3, <2>4
<1>9. \E k \in {Len(call) + 1, Len(call) + 2} :
        Above(call', 0) \subseteq {Copy("moving", q, k, m) : q \in Bound(new)} \cup Above(call, 0)
  BY <1>4, <1>5, <1>8 DEF Crowned
<1>10. PICK k \in {Len(call) + 1, Len(call) + 2} :
         Above(call', 0) \subseteq {Copy("moving", q, k, m) : q \in Bound(new)} \cup Above(call, 0)
  BY <1>9
<1> DEFINE M == {Copy("moving", q, k, m) : q \in Bound(new)}
<1>11. D \subseteq M \cup C
  BY <1>3, <1>10 DEF Copies
<1>12. C \subseteq ACopy /\ D \subseteq ACopy
  BY <1>6, CopiesAre DEF Copies
<1>13. \A y \in M : y.id = id /\ y.trail = <<>>
  BY <1>2 DEF Copy
<1>14. ASSUME NEW y \in M, NEW z \in M, y.queue = z.queue PROVE y = z
  <2>1. PICK q \in Bound(new) : y = Copy("moving", q, k, m)
    OBVIOUS
  <2>2. PICK r \in Bound(new) : z = Copy("moving", r, k, m)
    OBVIOUS
  <2>3. y.queue = q /\ z.queue = r
    BY <2>1, <2>2 DEF Copy
  <2> QED
    BY <1>14, <2>1, <2>2, <2>3
<1>15. Apart(C) /\ Numbered(C, published)
  BY DEF CopyInv
<1> HIDE DEF C, D, M
<1>16. \A y \in C : y.id \in Nat /\ y.id <= published /\ y.id # id
  BY <1>1, <1>12, <1>15 DEF Numbered, ACopy, Ids, id
<1>17. ASSUME NEW x \in D, NEW y \in D, x # y, Under(x, y) PROVE FALSE
  <2>1. x.id = y.id
    BY <1>17 DEF Under
  <2>2. CASE x \in C /\ y \in C
    BY <1>15, <1>17, <2>2 DEF Apart
  <2>3. CASE x \in M /\ y \in M
    <3>1. x.queue = y.queue
      BY <1>12, <1>13, <1>17, <2>3, UnderForked
    <3> QED
      BY <1>14, <1>17, <2>3, <3>1
  <2> QED
    BY <1>11, <1>13, <1>16, <2>1, <2>2, <2>3
<1>18. \A y \in D : y.id <= id
  BY <1>1, <1>11, <1>13, <1>16 DEF id
<1>19. Apart(D) /\ Numbered(D, id)
  BY <1>17, <1>18 DEF Apart, Numbered
<1> QED
  BY <1>1, <1>19 DEF CopyInv, D, Apart, Numbered

(* Frames that bear no message take the place of the top of the call. *)
LEMMA AboveBare ==
  ASSUME TypeOK, ~Idle, NEW f \in Proper, Bound(f) = {}, NEW t \in Proper, Bound(t) = {}, NEW s,
         s \in {Tail(call), <<f>> \o Tail(call), <<f, t>> \o Tail(call)}
  PROVE  Above(s, 0) \subseteq Above(call, 0)
<1> DEFINE c == Tail(call)
           u == Top
<1>1. u \in Proper /\ c \in Seq(Proper) /\ call = <<u>> \o c
  BY TopAndTail
<1>2. s \in {c, <<f>> \o c, <<f, t>> \o c}
  OBVIOUS
<1> HIDE DEF c, u
<1>3. Above(c, 0) \subseteq Above(call, 0)
  <2>1. 0 \in Int
    OBVIOUS
  <2>2. Above(<<u>> \o c, 0)
          = {Copy("moving", r, 0 + Len(c) + 1, u.message) : r \in Bound(u)} \cup Above(c, 0)
    BY <1>1, <2>1, AboveFramed
  <2> QED
    BY <1>1, <2>2
<1>4. CASE s # c
  <2>1. Crowned(s, f, c)
    BY <1>1, <1>2, <1>4, AboveTwo
  <2> QED
    BY <1>3, <2>1 DEF Crowned
<1> QED
  BY <1>3, <1>4

LEMMA AboveBareOne ==
  ASSUME NEW f \in Proper, Bound(f) = {}
  PROVE  Above(<<f>>, 0) = {}
<1>1. 0 \in Int
  OBVIOUS
<1>2. Above(<<f>>, 0) = {Copy("moving", q, 0 + 1, f.message) : q \in Bound(f)}
  BY <1>1, AboveOne, ZenonT(40)
<1> QED
  BY <1>2

LEMMA BareFrames ==
  /\ \A Q \in SUBSET Queues, l \in BOOLEAN : Dispatch(Q, l) \in Proper /\ Bound(Dispatch(Q, l)) = {}
  /\ Listener \in Proper /\ Bound(Listener) = {}
  /\ [do |-> "drained"] \in Proper /\ Bound([do |-> "drained"]) = {}
  /\ \A q \in Queues : [do |-> "get", queue |-> q] \in Proper /\ Bound([do |-> "get", queue |-> q]) = {}
<1>1. ASSUME NEW Q \in SUBSET Queues, NEW l \in BOOLEAN
      PROVE  Dispatch(Q, l) \in Proper /\ Bound(Dispatch(Q, l)) = {}
  BY DEF Dispatch, Bound, Proper, Frame
<1>2. Listener \in Proper /\ Bound(Listener) = {}
  BY DEF Listener, Bound, Proper, Frame
<1>3. [do |-> "drained"] \in Proper /\ Bound([do |-> "drained"]) = {}
  BY DEF Bound, Proper, Frame
<1>4. ASSUME NEW q \in Queues
      PROVE  [do |-> "get", queue |-> q] \in Proper /\ Bound([do |-> "get", queue |-> q]) = {}
  BY DEF Bound, Proper, Frame
<1> QED
  BY <1>1, <1>2, <1>3, <1>4

LEMMA AboveDispatch ==
  ASSUME NEW q \in Queues
  PROVE  Above(<<Dispatch({q}, TRUE)>>, 0) = {}
<1> DEFINE f == Dispatch({q}, TRUE)
<1>1. f \in Proper /\ Bound(f) = {}
  <2>1. {q} \in SUBSET Queues /\ TRUE \in BOOLEAN
    OBVIOUS
  <2> QED
    BY <2>1, BareFrames
<1> HIDE DEF f
<1>2. Above(<<f>>, 0) = {}
  BY <1>1, AboveBareOne
<1> QED
  BY <1>2 DEF f

LEMMA TwoAndRest ==
  ASSUME NEW d \in Proper, NEW f \in Proper, NEW c \in Seq(Proper)
  PROVE  /\ <<d>> \o (<<f>> \o c) = <<d, f>> \o c
         /\ <<d>> \o (<<f>> \o c) \in Seq(Proper)
<1> DEFINE o == <<d>>
           p == <<f>>
<1>1. o \in Seq(Proper) /\ p \in Seq(Proper)
  OBVIOUS
<1>2. <<d, f>> = o \o p
  BY TwoFrames
<1> HIDE DEF o, p, Proper
<1>3. (o \o p) \o c = o \o (p \o c)
  BY <1>1, ConcatAssociative
<1>4. p \o c \in Seq(Proper)
  BY <1>1, ConcatProperties
<1>5. o \o (p \o c) \in Seq(Proper)
  BY <1>1, <1>4, ConcatProperties
<1> QED
  BY <1>2, <1>3, <1>5 DEF o, p

LEMMA StepCopiesRunCall ==
  ASSUME TypeOK, TypeOK', CopyInv, RunCall
  PROVE  CopyInv'
<1> USE Types
<1>1. CASE EnqueueStep
  BY <1>1, EnqueueMoves, CopiesMoved DEF EnqueueStep
<1>2. CASE DeadStep
  BY <1>2, DeadStepCopies
<1>3. ASSUME ~Idle, Above(call', 0) \subseteq Above(call, 0), UNCHANGED <<store, unacked, published>>
      PROVE  CopyInv'
  <2>1. Copies' \subseteq Copies
    BY <1>3 DEF Copies
  <2> QED
    BY <1>3, <2>1, FewerCopies
<1>4. CASE EnqueueEnd
  <2> DEFINE f == Dispatch(Top.stored, Top.live)
  <2>1. /\ ~Idle /\ Top \in Proper /\ Top.do = "enqueue" /\ UNCHANGED <<store, unacked, published>>
        /\ call' = <<f>> \o Tail(call)
    BY <1>4 DEF EnqueueEnd, brokerVars, historyVars
  <2>2. f \in Proper /\ Bound(f) = {}
    BY <2>1, FrameFields, BareFrames
  <2> HIDE DEF f
  <2>3. Above(<<f>> \o Tail(call), 0) \subseteq Above(call, 0)
    BY <2>1, <2>2, AboveBare
  <2> QED
    BY <1>3, <2>1, <2>3
<1>5. CASE DispatchEnd \/ TryEnd \/ ListenerEnd \/ DrainedStep
  <2>1. ~Idle /\ call' = Tail(call) /\ UNCHANGED <<store, unacked, published>>
    BY <1>5 DEF DispatchEnd, TryEnd, ListenerEnd, DrainedStep, Pop, brokerVars, historyVars
  <2>2. Above(Tail(call), 0) \subseteq Above(call, 0)
    BY <2>1, BareFrames, AboveBare
  <2> QED
    BY <1>3, <2>1, <2>2
<1>6. CASE ReturnStep \/ ConfirmStep
  <2> DEFINE end == [do |-> "drained"]
             c == Tail(call)
  <2>1. ~Idle /\ call' \in {c, <<Listener>> \o c, <<Listener, end>> \o c}
        /\ UNCHANGED <<store, unacked, published>>
    BY <1>6 DEF ReturnStep, ConfirmStep, Pop, brokerVars, historyVars
  <2>2. end \in Proper /\ Bound(end) = {} /\ Listener \in Proper /\ Bound(Listener) = {}
    BY BareFrames
  <2> HIDE DEF end
  <2>3. \A s \in {c, <<Listener>> \o c, <<Listener, end>> \o c} : Above(s, 0) \subseteq Above(call, 0)
    BY <2>1, <2>2, AboveBare
  <2> QED
    BY <1>3, <2>1, <2>3
<1>7. CASE DeliverStep \/ GetStep
  <2>1. call' = Tail(call) /\ ~Idle /\ Top.queue \in Queues /\ published' = published
    BY <1>7, FrameFields DEF DeliverStep, GetStep, Pop, historyVars
  <2>2. \E n \in 0 .. Len(store[Top.queue]) : Take(Top.queue, n)
    <3>1. Len(store[Top.queue]) \in Nat
      BY <2>1
    <3>2. ASSUME DeliverStep PROVE \E n \in 0 .. Len(store[Top.queue]) : Take(Top.queue, n)
      BY <3>1, <3>2 DEF DeliverStep
    <3>3. ASSUME GetStep PROVE \E n \in 0 .. Len(store[Top.queue]) : Take(Top.queue, n)
      BY <2>1, <3>3, GetTakes
    <3> QED
      BY <1>7, <3>2, <3>3
  <2>3. Above(Tail(call), 0) \subseteq Above(call, 0)
    BY <2>1, BareFrames, AboveBare
  <2>4. Moves(Copies, Copies')
    BY <2>1, <2>2, <2>3, TakeMoves
  <2> QED
    BY <2>1, <2>4, CopiesMoved
<1>8. CASE DispatchStep
  <2>1. ~Idle /\ Top \in Proper /\ Top.do = "dispatch" /\ call \in Seq(Proper) /\ call # <<>>
        /\ Tail(call) \in Seq(Proper)
    BY <1>8 DEF DispatchStep, Idle
  <2> DEFINE deliver(q) == [do |-> "deliver", queue |-> q, live |-> Top.live]
             g(q) == [Top EXCEPT !.queues = @ \ {q}]
             rest(q) == [call EXCEPT ![1] = g(q)]
  <2>2. PICK q \in Top.queues : Drain(q, <<deliver(q)>> \o rest(q))
    BY <1>8 DEF DispatchStep, Top
  <2> DEFINE d == deliver(q)
             f == g(q)
             r == rest(q)
             c == Tail(call)
  <2>3. f \in Proper /\ q \in Queues /\ d \in Proper /\ Bound(f) = {} /\ Bound(d) = {}
    BY <2>1, FrameFields DEF Proper, Frame, Bound
  <2>4. Drain(q, <<d>> \o r) /\ c \in Seq(Proper)
    BY <2>1, <2>2
  <2> HIDE DEF deliver, g, d, f
  <2>5. r = <<f>> \o c
    BY <2>1, <2>3, TopReplaced DEF f
  <2> HIDE DEF rest, r
  <2>6. <<d>> \o (<<f>> \o c) = <<d, f>> \o c /\ <<d>> \o (<<f>> \o c) \in Seq(Proper)
    BY <2>3, <2>4, TwoAndRest
  <2>7. Above(<<d, f>> \o c, 0) \subseteq Above(call, 0)
    BY <2>1, <2>3, AboveBare
  <2> DEFINE s == <<d>> \o r
  <2>8. s \in Seq(Proper) /\ Drain(q, s) /\ Above(s, 0) \subseteq Above(call, 0)
    BY <2>4, <2>5, <2>6, <2>7
  <2>9. unacked' = unacked /\ published' = published
    BY <1>8 DEF DispatchStep, historyVars
  <2> HIDE DEF s
  <2>10. Moves(Copies, Copies')
    BY <2>3, <2>8, <2>9, DrainMoves
  <2> QED
    BY <2>9, <2>10, CopiesMoved
<1> QED
  BY <1>1, <1>2, <1>4, <1>5, <1>6, <1>7, <1>8 DEF RunCall

LEMMA ExpireCopies ==
  ASSUME TypeOK, NEW q \in Queues, NEW i \in DOMAIN store[q], Expire(q, i)
  PROVE  Copies' \subseteq Copies
<1> DEFINE s == store[q]
           x == [s[i] EXCEPT !.expiresAt = "past"]
           t == [s EXCEPT ![i] = x]
<1>1. s \in Seq(Message) /\ i \in DOMAIN s /\ i \in 1 .. Len(s) /\ store \in [Queues -> Seq(Message)]
  BY Types
<1>2. x \in Message /\ x.id = s[i].id /\ x.trail = s[i].trail
  <2>1. \A y \in Message : /\ [y EXCEPT !.expiresAt = "past"] \in Message
                           /\ [y EXCEPT !.expiresAt = "past"].id = y.id
                           /\ [y EXCEPT !.expiresAt = "past"].trail = y.trail
    BY DEF Message
  <2> QED
    BY <1>1, <2>1
<1>3. store' = [store EXCEPT ![q] = t] /\ UNCHANGED <<unacked, call>>
  BY DEF Expire
<1> HIDE DEF x
<1>4. t \in Seq(Message) /\ DOMAIN t = DOMAIN s /\ \A j \in DOMAIN s : t[j] = IF j = i THEN x ELSE s[j]
  BY <1>1, <1>2
<1> HIDE DEF t
<1>5. \A j \in DOMAIN s : Copy("stored", q, j, t[j]) = Copy("stored", q, j, s[j])
  BY <1>2, <1>4 DEF Copy
<1>6. StoredIn(q, t) \subseteq StoredIn(q, s)
  BY <1>4, <1>5 DEF StoredIn
<1> HIDE DEF s
<1>7. InStores(store') = StoredIn(q, t) \cup Others(store, q)
  BY <1>1, <1>3, <1>4, StoresExcept
<1>8. InStores(store) = StoredIn(q, s) \cup Others(store, q)
  BY <1>1, StoresApart DEF s
<1> QED
  BY <1>3, <1>6, <1>7, <1>8 DEF Copies

LEMMA ExpireUnackedCopies ==
  ASSUME TypeOK, NEW i \in DOMAIN unacked, ExpireUnacked(i)
  PROVE  Copies' \subseteq Copies
<1> DEFINE d == [unacked[i] EXCEPT !.message.expiresAt = "past"]
<1>1. unacked \in Seq(Delivery) /\ unacked[i] \in Delivery
  BY Types
<1>2. d.queue = unacked[i].queue /\ d.message.id = unacked[i].message.id
      /\ d.message.trail = unacked[i].message.trail
  <2>1. \A y \in Delivery : /\ [y EXCEPT !.message.expiresAt = "past"].queue = y.queue
                            /\ [y EXCEPT !.message.expiresAt = "past"].message.id = y.message.id
                            /\ [y EXCEPT !.message.expiresAt = "past"].message.trail = y.message.trail
    BY DEF Delivery, Message
  <2> QED
    BY <1>1, <2>1
<1>3. unacked' = [unacked EXCEPT ![i] = d] /\ UNCHANGED <<store, call>>
  BY DEF ExpireUnacked
<1> HIDE DEF d
<1>4. DOMAIN unacked' = DOMAIN unacked
      /\ \A j \in DOMAIN unacked : unacked'[j] = IF j = i THEN d ELSE unacked[j]
  BY <1>1, <1>3
<1>5. \A j \in DOMAIN unacked : Copy("unacked", unacked'[j].queue, j, unacked'[j].message)
                                  = Copy("unacked", unacked[j].queue, j, unacked[j].message)
  BY <1>2, <1>4 DEF Copy
<1>6. InHands(unacked') \subseteq InHands(unacked)
  BY <1>4, <1>5 DEF InHands
<1> QED
  BY <1>3, <1>6 DEF Copies

LEMMA StepCopiesClient ==
  ASSUME TypeOK, TypeOK', CopyInv, ~RunCall, [Next]_vars
  PROVE  CopyInv'
<1> USE Types
<1>1. ASSUME NEW p \in Publications, Publish(p) PROVE CopyInv'
  BY <1>1, PublishCopies
<1>2. ASSUME \/ ConfirmSelect \/ WaitForConfirms
             \/ \E q \in Queues : Cancel(q)
             \/ \E e \in Exchanges : DeleteExchange(e)
             \/ UNCHANGED vars
      PROVE  CopyInv'
  <2>1. UNCHANGED <<store, unacked, call, published>>
    BY <1>2 DEF ConfirmSelect, WaitForConfirms, Cancel, DeleteExchange, vars, brokerVars, historyVars
  <2>2. Copies' \subseteq Copies
    BY <2>1 DEF Copies
  <2> QED
    BY <2>1, <2>2, FewerCopies
<1>3. ASSUME NEW q \in Queues, Consume(q) PROVE CopyInv'
  <2>1. UNCHANGED <<store, unacked, published>> /\ call' = <<Dispatch({q}, TRUE)>>
    BY <1>3 DEF Consume, historyVars
  <2>2. Above(call', 0) = {}
    BY <2>1, AboveDispatch
  <2>3. Copies' \subseteq Copies
    BY <2>1, <2>2 DEF Copies
  <2> QED
    BY <2>1, <2>3, FewerCopies
<1>4. ASSUME NEW q \in Queues, Get(q) PROVE CopyInv'
  <2> DEFINE get == [do |-> "get", queue |-> q]
             o == <<get>>
  <2>1. get \in Proper /\ Bound(get) = {}
    BY BareFrames
  <2>2. Drain(q, o) /\ unacked' = unacked /\ published' = published
    BY <1>4 DEF Get, historyVars
  <2> HIDE DEF get
  <2>3. o \in Seq(Proper) /\ Above(o, 0) \subseteq Above(call, 0)
    BY <2>1, OneFrame, AboveBareOne
  <2> HIDE DEF o
  <2>4. Moves(Copies, Copies')
    BY <2>2, <2>3, DrainMoves
  <2> QED
    BY <2>2, <2>4, CopiesMoved
<1>5. ASSUME NEW i \in DOMAIN unacked, NEW multiple \in BOOLEAN, Ack(i, multiple) \/ Reject(i, multiple)
      PROVE  CopyInv'
  <2> DEFINE a == Uncovered(i, multiple)
             s == Covered(i, multiple)
             f == Dispatch(QueuesOf(s), TRUE)
             o == <<f>>
  <2>1. Splits(unacked, a, s) /\ a \in Seq(Delivery) /\ s \in Seq(Delivery)
    BY UncoveredSplits, UncoveredType
  <2>2. QueuesOf(s) \subseteq Queues
    BY <2>1, QueuesOfType
  <2>3. Idle /\ unacked' = a /\ store' = store /\ published' = published
        /\ call' \in {o, Rejections(s) \o o}
    BY <1>5 DEF Ack, Reject, historyVars
  <2>4. f \in Proper /\ Bound(f) = {}
    BY <2>2, BareFrames
  <2>5. Rejections(s) \in Seq(Proper)
    BY <2>1, RejectionsAre
  <2> HIDE DEF s, a, f
  <2>6. Above(o, 0) = {} /\ o \in Seq(Proper) /\ 0 + Len(o) = 1
    BY <2>4, AboveBareOne, OneFrame
  <2> HIDE DEF o
  <2>7. Above(Rejections(s) \o o, 0) = Above(Rejections(s), 0 + Len(o)) \cup Above(o, 0)
    <3> DEFINE r == Rejections(s)
    <3>1. r \in Seq(Proper)
      BY <2>5
    <3> HIDE DEF r
    <3>2. Above(r \o o, 0) = Above(r, 0 + Len(o)) \cup Above(o, 0)
      BY <2>6, <3>1, AboveConcat
    <3> QED
      BY <3>2 DEF r
  <2>8. Above(call', 0) \subseteq Above(Rejections(s), 1)
    BY <2>3, <2>6, <2>7
  <2>9. Moves(Copies, Copies')
    BY <2>1, <2>3, <2>8, AnswerMoves
  <2> QED
    BY <2>3, <2>9, CopiesMoved
<1>6. ASSUME NEW i \in DOMAIN unacked, Requeue(i) PROVE CopyInv'
  <2> DEFINE q == unacked[i].queue
             m == unacked[i].message
  <2>1. /\ Idle /\ unacked' = RemoveAt(unacked, i) /\ published' = published
        /\ store' = [store EXCEPT ![q] = Requeued(q, m)]
        /\ call' = <<Dispatch({q}, TRUE)>>
    BY <1>6 DEF Requeue, historyVars
  <2>2. i \in 1 .. Len(unacked) /\ q \in Queues
    OBVIOUS
  <2>3. q = unacked[i].queue /\ m = unacked[i].message
    OBVIOUS
  <2> HIDE DEF q, m
  <2>4. Above(call', 0) = {}
    BY <2>1, <2>2, AboveDispatch
  <2>5. Moves(Copies, Copies')
    BY <2>1, <2>2, <2>3, <2>4, RequeueMoves
  <2> QED
    BY <2>1, <2>5, CopiesMoved
<1>7. ASSUME NEW q \in Queues, NEW i \in DOMAIN store[q], Expire(q, i) PROVE CopyInv'
  <2>1. Copies' \subseteq Copies /\ published' = published
    BY <1>7, ExpireCopies DEF Expire, historyVars
  <2> QED
    BY <2>1, FewerCopies
<1>8. ASSUME NEW i \in DOMAIN unacked, ExpireUnacked(i) PROVE CopyInv'
  <2>1. Copies' \subseteq Copies /\ published' = published
    BY <1>8, ExpireUnackedCopies DEF ExpireUnacked, historyVars
  <2> QED
    BY <2>1, FewerCopies
<1> QED
  BY <1>1, <1>2, <1>3, <1>4, <1>5, <1>6, <1>7, <1>8 DEF Next, ClientNext

LEMMA StepCopies ==
  ASSUME TypeOK, CopyInv, [Next]_vars
  PROVE  CopyInv'
<1>1. TypeOK'
  BY TypesStep
<1> QED
  BY <1>1, StepCopiesRunCall, StepCopiesClient

LEMMA InitCopies ==
  ASSUME Init
  PROVE  CopyInv
<1>1. Copies = {}
  BY DEF Init, Copies, InStores, StoredIn, InHands, Above
<1> QED
  BY <1>1 DEF CopyInv, Apart, Numbered

(* What a queue or a client holds is a copy, and the copy says where it is. *)
Place(x) ==
  IF x.kind = "stored"
  THEN [at |-> <<x.at, x.queue>>, queue |-> x.queue, message |-> store[x.queue][x.at]]
  ELSE [at |-> <<x.at>>, queue |-> unacked[x.at].queue, message |-> unacked[x.at].message]
Shows(x, g) ==
  x \in Copies /\ g = Place(x)
    /\ x.queue = g.queue /\ x.id = g.message.id /\ x.trail = g.message.trail

LEMMA HeldAreCopies ==
  ASSUME NEW g \in Held
  PROVE  \E x : Shows(x, g)
<1>1. ASSUME NEW q \in Queues, NEW i \in DOMAIN store[q],
             g = [at |-> <<i, q>>, queue |-> q, message |-> store[q][i]]
      PROVE  \E x : Shows(x, g)
  <2> DEFINE x == Copy("stored", q, i, store[q][i])
  <2>1. x \in Copies
    BY DEF Copies, InStores, StoredIn
  <2>2. x.kind = "stored" /\ x.queue = q /\ x.at = i /\ x.id = store[q][i].id
        /\ x.trail = store[q][i].trail
    BY DEF Copy
  <2>3. g.queue = q /\ g.message = store[q][i]
    BY <1>1
  <2> HIDE DEF x
  <2>4. g = Place(x)
    BY <1>1, <2>2 DEF Place
  <2> QED
    BY <2>1, <2>2, <2>3, <2>4 DEF Shows
<1>2. ASSUME NEW i \in DOMAIN unacked,
             g = [at |-> <<i>>, queue |-> unacked[i].queue, message |-> unacked[i].message]
      PROVE  \E x : Shows(x, g)
  <2> DEFINE x == Copy("unacked", unacked[i].queue, i, unacked[i].message)
  <2>1. x \in Copies
    BY DEF Copies, InHands
  <2>2. x.kind = "unacked" /\ x.queue = unacked[i].queue /\ x.at = i
        /\ x.id = unacked[i].message.id /\ x.trail = unacked[i].message.trail
    BY DEF Copy
  <2>3. g.queue = unacked[i].queue /\ g.message = unacked[i].message
    BY <1>2
  <2> HIDE DEF x
  <2>4. g = Place(x)
    BY <1>2, <2>2 DEF Place
  <2> QED
    BY <2>1, <2>2, <2>3, <2>4 DEF Shows
<1> QED
  BY <1>1, <1>2 DEF Held

LEMMA PrefixAgrees ==
  ASSUME NEW T, NEW s \in Seq(T), NEW t \in Seq(T), IsPrefix(s, t)
  PROVE  Len(s) <= Len(t) /\ \A i \in 1 .. Len(s) : s[i] = t[i]
<1>1. Len(s) \in Nat /\ Len(t) \in Nat /\ Len(s) <= Len(t)
      /\ SubSeq(s, 1, Len(s)) = SubSeq(t, 1, Len(s))
  BY LenProperties DEF IsPrefix
<1>2. 1 \in 1 .. Len(s) + 1 /\ 1 \in 1 .. Len(t) + 1 /\ Len(s) \in 0 .. Len(s) /\ Len(s) \in 0 .. Len(t)
      /\ 1 <= Len(s) + 1
  BY <1>1
<1>3. ASSUME NEW i \in 1 .. Len(s) PROVE s[i] = t[i]
  <2> DEFINE a == SubSeq(s, 1, Len(s))
             b == SubSeq(t, 1, Len(s))
  <2>1. Len(a) = Len(s) - 1 + 1 /\ \A j \in 1 .. Len(a) : a[j] = s[1 + j - 1]
    BY <1>2, Piece
  <2>2. Len(b) = Len(s) - 1 + 1 /\ \A j \in 1 .. Len(b) : b[j] = t[1 + j - 1]
    BY <1>2, Piece
  <2>3. a = b
    BY <1>1
  <2> HIDE DEF a, b
  <2>4. i \in 1 .. Len(a) /\ i \in 1 .. Len(b) /\ 1 + i - 1 = i
    BY <1>1, <2>1, <2>2
  <2> QED
    BY <2>1, <2>2, <2>3, <2>4
<1> QED
  BY <1>1, <1>3

LEMMA CopiesGone ==
  ASSUME TypeOK, CopyInv
  PROVE  DeadLetteredIsGone
<1> SUFFICES ASSUME NEW g \in Held, NEW h \in Held, g # h, g.message.id = h.message.id,
                    IsPrefix(g.message.trail, h.message.trail)
             PROVE  IF Len(h.message.trail) = Len(g.message.trail) THEN g.queue # h.queue
                    ELSE h.message.trail[Len(g.message.trail) + 1].queue # g.queue
  BY DEF DeadLetteredIsGone
<1>1. PICK x : Shows(x, g)
  BY HeldAreCopies
<1>2. PICK y : Shows(y, h)
  BY HeldAreCopies
<1>3. x # y /\ x \in Copies /\ y \in Copies /\ x.id = y.id
      /\ x.queue = g.queue /\ y.queue = h.queue
      /\ x.trail = g.message.trail /\ y.trail = h.message.trail
  BY <1>1, <1>2 DEF Shows
<1>4. ~Under(x, y)
  BY <1>3 DEF CopyInv, Apart
<1>5. x.trail \in Seq(Death) /\ y.trail \in Seq(Death)
  BY <1>3, Types, CopiesAre DEF Copies, ACopy
<1>6. Len(x.trail) \in Nat /\ Len(y.trail) \in Nat
  <2> HIDE DEF Death
  <2> QED
    BY <1>5, LenProperties
<1>7. Len(x.trail) <= Len(y.trail) /\ \A i \in 1 .. Len(x.trail) : x.trail[i] = y.trail[i]
  <2>1. IsPrefix(x.trail, y.trail)
    BY <1>3
  <2> HIDE DEF Death
  <2> QED
    BY <1>5, <2>1, PrefixAgrees
<1>8. PICK i \in 1 .. Len(x.trail) + 1 : Stop(x, i) # Stop(y, i)
  BY <1>3, <1>4, <1>7 DEF Under
<1>9. i = Len(x.trail) + 1
  <2>1. CASE i <= Len(x.trail)
    <3>1. i <= Len(y.trail) /\ x.trail[i] = y.trail[i]
      BY <1>6, <1>7, <2>1
    <3> QED
      BY <1>8, <2>1, <3>1 DEF Stop
  <2> QED
    BY <1>6, <2>1
<1>10. Stop(x, i) = x.queue
  BY <1>6, <1>9 DEF Stop
<1>11. CASE Len(y.trail) = Len(x.trail)
  BY <1>3, <1>6, <1>8, <1>9, <1>10, <1>11 DEF Stop
<1>12. CASE Len(y.trail) # Len(x.trail)
  <2>1. i <= Len(y.trail)
    BY <1>6, <1>7, <1>9, <1>12
  <2> QED
    BY <1>3, <1>8, <1>9, <1>10, <1>12, <2>1 DEF Stop
<1> QED
  BY <1>3, <1>11, <1>12

(* Dead-lettering (dead-letter.ts, and the publish it makes) moves a message: no
   copy of it stays behind in the queue it died in, or in the hands of that
   queue's consumers, and no two copies of it are held for the same route. *)
THEOREM DeadLettersAreMoved == Spec => []DeadLetteredIsGone
<1>1. TypeOK /\ CopyInv /\ [Next]_vars => CopyInv'
  BY StepCopies
<1>2. Init => CopyInv
  BY InitCopies
<1>3. TypeOK /\ CopyInv => DeadLetteredIsGone
  BY CopiesGone
<1> QED
  BY <1>1, <1>2, <1>3, PublishingTypes, PTL DEF Spec
=============================================================================
