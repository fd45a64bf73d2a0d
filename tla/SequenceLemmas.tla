--------------------------- MODULE SequenceLemmas ---------------------------
(***************************************************************************)
(* What the proofs of several modules need of the natural numbers and of   *)
(* sequences, whatever these hold: induction and recursion, in a form      *)
(* without operator parameters, and the sequences that concatenation,      *)
(* SubSeq, RemoveAt and InsertAt make.                                     *)
(***************************************************************************)
EXTENDS Naturals, SequencesExt, SequenceTheorems, FiniteSetTheorems, TLAPS

(* A set of natural numbers has a smallest element: by the well-founded order of
   the finite sets 1 .. n. *)
LEMMA Smallest ==
  ASSUME NEW T, T \subseteq Nat, T # {}
  PROVE  \E x \in T : \A y \in T : x <= y
<1> DEFINE I == {1 .. n : n \in T}
<1>1. \A n \in T : 1 .. n \in FiniteSubsetsOf(Nat)
  <2>1. \A n \in T : IsFiniteSet(1 .. n)
    BY FS_Interval
  <2> QED
    BY <2>1 DEF FiniteSubsetsOf
<1>2. I \subseteq FiniteSubsetsOf(Nat) /\ I # {}
  BY <1>1
<1>3. PICK s \in I : \A t \in I : ~ (<<t, s>> \in StrictSubsetOrdering(Nat))
  <2>1. IsWellFoundedOn(StrictSubsetOrdering(Nat), FiniteSubsetsOf(Nat))
    BY FS_StrictSubsetOrderingWellFounded
  <2> HIDE DEF I
  <2> QED
    BY <1>2, <2>1, WFMin
<1>4. PICK x \in T : s = 1 .. x
  BY <1>3
<1>5. ASSUME NEW y \in T, ~ (x <= y) PROVE FALSE
  <2>1. 1 .. y \subseteq 1 .. x /\ 1 .. y # 1 .. x
    <3>1. x \in 1 .. x /\ x \notin 1 .. y
      BY <1>5
    <3> QED
      BY <1>5, <3>1
  <2>2. 1 .. y \in SUBSET Nat /\ 1 .. x \in SUBSET Nat
    OBVIOUS
  <2>3. <<1 .. y, 1 .. x>> \in StrictSubsetOrdering(Nat)
    BY <2>1, <2>2 DEF StrictSubsetOrdering
  <2> QED
    BY <2>3, <1>3, <1>4
<1> QED
  BY <1>5

(* Induction up to n. *)
LEMMA UpTo ==
  ASSUME NEW n \in Nat, NEW S, 0 \in S, \A i \in 0 .. n : i < n /\ i \in S => i + 1 \in S
  PROVE  0 .. n \subseteq S
<1> DEFINE T == (0 .. n) \ S
<1> SUFFICES ASSUME T # {} PROVE FALSE
  OBVIOUS
<1>1. PICK x \in T : \A y \in T : x <= y
  <2>1. T \subseteq Nat
    OBVIOUS
  <2> HIDE DEF T
  <2> QED
    BY <2>1, Smallest
<1>2. x # 0 /\ x - 1 \in 0 .. n /\ x - 1 < n
  BY <1>1
<1>3. x - 1 \in S
  BY <1>1, <1>2
<1> QED
  BY <1>1, <1>2, <1>3

(* Recursion up to n: the function that starts with b and goes on by step. *)
Recurs(f, n, S, b, step) ==
  f \in [0 .. n -> S] /\ f[0] = b /\ \A i \in 1 .. n : f[i] = step[<<i, f[i - 1]>>]

LEMMA Recursion ==
  ASSUME NEW n \in Nat, NEW S, NEW b \in S, NEW step \in [(1 .. n) \X S -> S]
  PROVE  \E f : Recurs(f, n, S, b, step)
<1> DEFINE Upto(k) == \E f \in [0 .. k -> S] :
                        f[0] = b /\ \A i \in 1 .. k : f[i] = step[<<i, f[i - 1]>>]
           T == {k \in 0 .. n : Upto(k)}
<1>1. 0 \in T
  <2>1. [i \in 0 .. 0 |-> b] \in [0 .. 0 -> S]
    OBVIOUS
  <2>2. [i \in 0 .. 0 |-> b][0] = b /\ 1 .. 0 = {}
    OBVIOUS
  <2>3. Upto(0)
    BY <2>1, <2>2
  <2> QED
    BY <2>3
<1>2. ASSUME NEW k \in 0 .. n, k < n, k \in T PROVE k + 1 \in T
  <2>1. PICK f \in [0 .. k -> S] : f[0] = b /\ \A i \in 1 .. k : f[i] = step[<<i, f[i - 1]>>]
    BY <1>2
  <2> DEFINE g == [i \in 0 .. k + 1 |-> IF i = k + 1 THEN step[<<k + 1, f[k]>>] ELSE f[i]]
  <2>2. step[<<k + 1, f[k]>>] \in S
    BY <1>2
  <2>3. \A i \in 0 .. k : g[i] = f[i] /\ f[i] \in S
    OBVIOUS
  <2>4. g[k + 1] = step[<<k + 1, g[k]>>]
    <3>1. k + 1 \in 0 .. k + 1 /\ k \in 0 .. k
      OBVIOUS
    <3>2. g[k + 1] = step[<<k + 1, f[k]>>]
      BY <3>1
    <3> QED
      BY <2>3, <3>1, <3>2
  <2>5. g \in [0 .. k + 1 -> S]
    BY <2>2, <2>3
  <2>6. \A i \in 1 .. k + 1 : g[i] = step[<<i, g[i - 1]>>]
    <3> SUFFICES ASSUME NEW i \in 1 .. k + 1 PROVE g[i] = step[<<i, g[i - 1]>>]
      OBVIOUS
    <3> HIDE DEF g
    <3>1. CASE i = k + 1
      BY <2>4, <3>1
    <3>2. CASE i \in 1 .. k
      <4>1. g[i] = f[i] /\ g[i - 1] = f[i - 1]
        BY <2>3, <3>2
      <4> QED
        BY <2>1, <3>2, <4>1
    <3> QED
      BY <3>1, <3>2
  <2>7. g[0] = b
    BY <2>1, <2>3
  <2> HIDE DEF g
  <2>8. Upto(k + 1)
    BY <2>5, <2>6, <2>7
  <2>9. k + 1 \in 0 .. n
    BY <1>2
  <2> HIDE DEF Upto
  <2> QED
    BY <2>8, <2>9
<1> HIDE DEF Upto
<1>3. 0 .. n \subseteq T
  <2> HIDE DEF T
  <2> QED
    BY <1>1, <1>2, UpTo
<1>4. Upto(n)
  BY <1>3
<1> QED
  BY <1>4 DEF Upto, Recurs

-----------------------------------------------------------------------------
(* Sequences, position by position. *)

(* A nonempty set of naturals contains its Min. *)
LEMMA MinProperties ==
  ASSUME NEW S \in SUBSET Nat, S # {}
  PROVE  Min(S) \in S /\ \A y \in S : Min(S) <= y
<1>1. PICK s \in S : TRUE
  OBVIOUS
<1> DEFINE T == {0 .. x : x \in S \cap (0 .. s)}
<1>2. FiniteSubsetsOf(0 .. s) = SUBSET (0 .. s)
  <2>1. IsFiniteSet(0 .. s)
    BY FS_Interval
  <2> QED
    BY <2>1, FS_FiniteSubsetsOfFinite
<1>3. IsWellFoundedOn(StrictSubsetOrdering(0 .. s), SUBSET (0 .. s))
  BY <1>2, FS_StrictSubsetOrderingWellFounded
<1>4. T \subseteq SUBSET (0 .. s) /\ T # {}
  BY <1>1
<1> HIDE DEF T
<1>5. \E x \in T : \A y \in T : ~ (<<y, x>> \in StrictSubsetOrdering(0 .. s))
  BY <1>3, <1>4, WFMin
<1>6. PICK m \in S \cap (0 .. s) :
        \A y \in T : ~ (<<y, 0 .. m>> \in StrictSubsetOrdering(0 .. s))
  BY <1>5 DEF T
<1>7. \A y \in S : m <= y
  <2> SUFFICES ASSUME NEW y \in S, y < m PROVE FALSE
    BY <1>6
  <2>1. y \in 0 .. s /\ 0 .. y \in T
    BY <1>6 DEF T
  <2>2. 0 .. y \subseteq 0 .. m /\ 0 .. y # 0 .. m
    <3>1. m \in 0 .. m /\ m \notin 0 .. y
      BY <1>6
    <3> QED
      BY <3>1, <1>6
  <2>3. <<0 .. y, 0 .. m>> \in StrictSubsetOrdering(0 .. s)
    <3>1. 0 .. y \subseteq 0 .. s /\ 0 .. m \subseteq 0 .. s
      BY <1>6, <2>1
    <3> QED
      BY <2>2, <3>1 DEF StrictSubsetOrdering
  <2> QED
    BY <1>6, <2>1, <2>3
<1> QED
  BY <1>6, <1>7 DEF Min

(* A nonempty set of naturals that has a bound contains its Max. *)
LEMMA MaxProperties ==
  ASSUME NEW n \in Nat, NEW S \in SUBSET (0 .. n), S # {}
  PROVE  Max(S) \in S /\ \A y \in S : Max(S) >= y
<1> DEFINE T == {n - y : y \in S}
<1>1. T \subseteq Nat /\ T # {}
  <2>1. \A y \in 0 .. n : n - y \in Nat
    OBVIOUS
  <2> QED
    BY <2>1
<1> HIDE DEF T
<1>2. PICK x \in T : \A y \in T : x <= y
  BY <1>1, Smallest
<1>3. PICK m \in S : x = n - m
  BY <1>2 DEF T
<1>4. \A y \in S : n - y \in T
  BY DEF T
<1>5. \A y \in S : m >= y
  <2> TAKE y \in S
  <2>1. n - m <= n - y
    BY <1>2, <1>3, <1>4
  <2> QED
    BY <2>1
<1> QED
  BY <1>5 DEF Max

(* Requeueing and the frames of a call put an element before a sequence. *)
LEMMA Prepended ==
  ASSUME NEW S, NEW e \in S, NEW s \in Seq(S)
  PROVE  /\ <<e>> \o s \in Seq(S)
         /\ Len(<<e>> \o s) = Len(s) + 1
         /\ \A i \in 1 .. Len(s) + 1 :
              (<<e>> \o s)[i] = IF i = 1 THEN e ELSE s[i - 1]
<1>1. <<e>> \in Seq(S) /\ Len(<<e>>) = 1 /\ <<e>>[1] = e
  OBVIOUS
<1> QED
  BY <1>1, ConcatProperties

LEMMA SeqOfSubset ==
  ASSUME NEW S, NEW s \in Seq(S), NEW T, \A i \in 1 .. Len(s) : s[i] \in T
  PROVE  s \in Seq(T)
<1>1. s \in [1 .. Len(s) -> S] /\ Len(s) \in Nat
  BY LenProperties
<1>2. s \in [1 .. Len(s) -> T]
  BY <1>1
<1> QED
  BY <1>1, <1>2, SeqDef

LEMMA ReplacedFirst ==
  ASSUME NEW S, NEW s \in Seq(S), s # <<>>, NEW e \in S
  PROVE  [s EXCEPT ![1] = e] = <<e>> \o Tail(s)
<1> DEFINE t == [s EXCEPT ![1] = e]
           u == <<e>> \o Tail(s)
<1>1. Len(s) \in Nat /\ Len(s) >= 1 /\ DOMAIN s = 1 .. Len(s)
  BY EmptySeq, LenProperties
<1>2. /\ Tail(s) \in Seq(S) /\ Len(Tail(s)) = Len(s) - 1
      /\ \A i \in 1 .. Len(s) - 1 : Tail(s)[i] = s[i + 1]
  BY HeadTailProperties
<1>3. /\ u \in Seq(S) /\ Len(u) = Len(s)
      /\ \A i \in 1 .. Len(s) : u[i] = IF i = 1 THEN e ELSE Tail(s)[i - 1]
  BY <1>1, <1>2, Prepended
<1>4. t \in Seq(S) /\ Len(t) = Len(s) /\ \A i \in 1 .. Len(s) : t[i] = IF i = 1 THEN e ELSE s[i]
  BY <1>1, ExceptSeq
<1>5. \A i \in 1 .. Len(s) : i # 1 => Tail(s)[i - 1] = s[i]
  <2> TAKE i \in 1 .. Len(s)
  <2> HAVE i # 1
  <2>1. i - 1 \in 1 .. Len(s) - 1 /\ i - 1 + 1 = i
    BY <1>1
  <2> QED
    BY <1>2, <2>1
<1> HIDE DEF t, u
<1>6. t = u
  BY <1>1, <1>3, <1>4, <1>5, SeqEqual
<1> QED
  BY <1>6 DEF t, u

LEMMA Piece ==
  ASSUME NEW S, NEW s \in Seq(S), NEW m \in 1 .. Len(s) + 1, NEW n \in 0 .. Len(s),
         m <= n + 1, NEW h, h = SubSeq(s, m, n)
  PROVE  /\ h \in Seq(S)
         /\ Len(h) = n - m + 1
         /\ \A j \in 1 .. Len(h) : h[j] = s[m + j - 1]
<1>1. Len(s) \in Nat
  BY LenProperties
<1>2. \A j \in m .. n : s[j] \in S
  BY <1>1
<1>3. /\ h \in Seq(S)
      /\ Len(h) = IF m <= n THEN n - m + 1 ELSE 0
      /\ \A j \in 1 .. n - m + 1 : h[j] = s[m + j - 1]
  BY <1>1, <1>2, SubSeqProperties
<1> QED
  BY <1>1, <1>3

LEMMA RemovedAt ==
  ASSUME NEW S, NEW s \in Seq(S), NEW i \in 1 .. Len(s)
  PROVE  /\ RemoveAt(s, i) \in Seq(S)
         /\ Len(RemoveAt(s, i)) = Len(s) - 1
         /\ \A j \in 1 .. Len(s) - 1 :
              RemoveAt(s, i)[j] = IF j < i THEN s[j] ELSE s[j + 1]
<1> DEFINE l == SubSeq(s, 1, i - 1)
           r == SubSeq(s, i + 1, Len(s))
           h == RemoveAt(s, i)
<1>1. Len(s) \in Nat /\ i \in Nat /\ 1 <= i /\ i <= Len(s)
  BY LenProperties
<1>2. l \in Seq(S) /\ Len(l) = i - 1 /\ \A j \in 1 .. i - 1 : l[j] = s[j]
  BY <1>1, Piece
<1>3. r \in Seq(S) /\ Len(r) = Len(s) - i /\ \A j \in 1 .. Len(s) - i : r[j] = s[i + j]
  BY <1>1, Piece
<1>4. h = l \o r
  BY DEF RemoveAt
<1> HIDE DEF l, r, h
<1>5. /\ l \o r \in Seq(S)
      /\ Len(l \o r) = Len(l) + Len(r)
      /\ \A j \in 1 .. Len(l) + Len(r) :
           (l \o r)[j] = IF j <= Len(l) THEN l[j] ELSE r[j - Len(l)]
  BY <1>2, <1>3, ConcatProperties
<1>6. /\ h \in Seq(S)
      /\ Len(h) = Len(s) - 1
      /\ \A j \in 1 .. Len(s) - 1 : h[j] = IF j <= i - 1 THEN l[j] ELSE r[j - (i - 1)]
  BY <1>1, <1>2, <1>3, <1>4, <1>5
<1>7. ASSUME NEW j \in 1 .. Len(s) - 1
      PROVE  h[j] = IF j < i THEN s[j] ELSE s[j + 1]
  <2>1. CASE j < i
    <3>1. j \in 1 .. i - 1 /\ j <= i - 1
      BY <1>1, <2>1
    <3> QED
      BY <2>1, <3>1, <1>2, <1>6
  <2>2. CASE ~(j < i)
    <3>1. j - (i - 1) \in 1 .. Len(s) - i /\ i + (j - (i - 1)) = j + 1 /\ ~(j <= i - 1)
      BY <1>1, <2>2
    <3>2. h[j] = r[j - (i - 1)]
      BY <3>1, <1>6
    <3> QED
      BY <2>2, <3>1, <3>2, <1>3
  <2> QED
    BY <2>1, <2>2
<1> QED
  BY <1>6, <1>7 DEF h

LEMMA InsertedAt ==
  ASSUME NEW S, NEW s \in Seq(S), NEW i \in 1 .. Len(s) + 1, NEW e \in S
  PROVE  /\ InsertAt(s, i, e) \in Seq(S)
         /\ Len(InsertAt(s, i, e)) = Len(s) + 1
         /\ \A j \in 1 .. Len(s) + 1 :
              InsertAt(s, i, e)[j] =
                IF j < i THEN s[j] ELSE IF j = i THEN e ELSE s[j - 1]
<1> DEFINE l == SubSeq(s, 1, i - 1)
           r == SubSeq(s, i, Len(s))
           f == <<e>>
           g == l \o f
           h == InsertAt(s, i, e)
<1>1. Len(s) \in Nat /\ i \in Nat /\ 1 <= i /\ i <= Len(s) + 1
  BY LenProperties
<1>2. l \in Seq(S) /\ Len(l) = i - 1 /\ \A j \in 1 .. i - 1 : l[j] = s[j]
  BY <1>1, Piece
<1>3. /\ r \in Seq(S) /\ Len(r) = Len(s) - i + 1
      /\ \A j \in 1 .. Len(s) - i + 1 : r[j] = s[i + j - 1]
  BY <1>1, Piece
<1>4. f \in Seq(S) /\ Len(f) = 1 /\ f[1] = e
  OBVIOUS
<1>5. h = g \o r /\ g = l \o f
  BY DEF InsertAt
<1> HIDE DEF l, r, f, g, h
<1>6. /\ l \o f \in Seq(S)
      /\ Len(l \o f) = Len(l) + Len(f)
      /\ \A j \in 1 .. Len(l) + Len(f) :
           (l \o f)[j] = IF j <= Len(l) THEN l[j] ELSE f[j - Len(l)]
  BY <1>2, <1>4, ConcatProperties
<1>7. /\ g \in Seq(S)
      /\ Len(g) = i
      /\ \A j \in 1 .. i : g[j] = IF j <= i - 1 THEN l[j] ELSE f[j - (i - 1)]
  BY <1>1, <1>2, <1>4, <1>5, <1>6
<1>8. /\ g \o r \in Seq(S)
      /\ Len(g \o r) = Len(g) + Len(r)
      /\ \A j \in 1 .. Len(g) + Len(r) :
           (g \o r)[j] = IF j <= Len(g) THEN g[j] ELSE r[j - Len(g)]
  BY <1>3, <1>7, ConcatProperties
<1>9. /\ h \in Seq(S)
      /\ Len(h) = Len(s) + 1
      /\ \A j \in 1 .. Len(s) + 1 : h[j] = IF j <= i THEN g[j] ELSE r[j - i]
  BY <1>1, <1>3, <1>5, <1>7, <1>8
<1>10. ASSUME NEW j \in 1 .. Len(s) + 1
       PROVE  h[j] = IF j < i THEN s[j] ELSE IF j = i THEN e ELSE s[j - 1]
  <2>1. CASE j < i
    <3>1. j \in 1 .. i - 1 /\ j \in 1 .. i /\ j <= i - 1 /\ j <= i
      BY <1>1, <2>1
    <3> QED
      BY <2>1, <3>1, <1>2, <1>7, <1>9
  <2>2. CASE j = i
    <3>1. j - (i - 1) = 1 /\ j \in 1 .. i /\ ~(j <= i - 1) /\ j <= i /\ ~(j < i)
      BY <1>1, <2>2
    <3>2. h[j] = f[j - (i - 1)]
      BY <3>1, <1>7, <1>9
    <3> QED
      BY <2>2, <3>1, <3>2, <1>4
  <2>3. CASE j > i
    <3>1. /\ j - i \in 1 .. Len(s) - i + 1 /\ i + (j - i) - 1 = j - 1
          /\ ~(j <= i) /\ ~(j < i) /\ j # i
      BY <1>1, <2>3
    <3>2. h[j] = r[j - i]
      BY <3>1, <1>9
    <3> QED
      BY <3>1, <3>2, <1>3
  <2> QED
    BY <1>1, <2>1, <2>2, <2>3
<1> QED
  BY <1>9, <1>10 DEF h

LEMMA InsertedAtIndex ==
  ASSUME NEW S, NEW s \in Seq(S), NEW i \in 1 .. Len(s) + 1, NEW e \in S, NEW j \in 1 .. Len(s) + 1
  PROVE  InsertAt(s, i, e)[j] = IF j < i THEN s[j] ELSE IF j = i THEN e ELSE s[j - 1]
BY InsertedAt

(* A sequence that is not empty keeps its first element when one is added at the
   end. *)
LEMMA InsertedLast ==
  ASSUME NEW S, NEW s \in Seq(S), s # <<>>, NEW e \in S
  PROVE  InsertAt(s, Len(s) + 1, e)[1] = s[1]
<1>1. Len(s) \in Nat /\ Len(s) # 0
  BY LenProperties, EmptySeq
<1> DEFINE n == Len(s) + 1
<1>2. n \in 1 .. Len(s) + 1 /\ 1 \in 1 .. Len(s) + 1 /\ 1 < n
  BY <1>1
<1> HIDE DEF n
<1>3. InsertAt(s, n, e)[1] = s[1]
  BY <1>2, InsertedAtIndex
<1> QED
  BY <1>3 DEF n

-----------------------------------------------------------------------------
(* The elements of a sequence, as a set. *)

LEMMA ToSetOf ==
  ASSUME NEW S, NEW s \in Seq(S)
  PROVE  /\ \A x : x \in ToSet(s) <=> \E i \in 1 .. Len(s) : s[i] = x
         /\ ToSet(s) \subseteq S
  BY LenProperties, ElementOfSeq DEF ToSet

LEMMA ToSetConcat ==
  ASSUME NEW S, NEW s \in Seq(S), NEW t \in Seq(S)
  PROVE  ToSet(s \o t) = ToSet(s) \cup ToSet(t)
<1> DEFINE u == s \o t
<1>1. Len(s) \in Nat /\ Len(t) \in Nat
  BY LenProperties
<1>2. /\ u \in Seq(S) /\ Len(u) = Len(s) + Len(t)
      /\ \A i \in 1 .. Len(s) + Len(t) : u[i] = IF i <= Len(s) THEN s[i] ELSE t[i - Len(s)]
  BY ConcatProperties
<1> HIDE DEF u
<1>3. ASSUME NEW x \in ToSet(u) PROVE x \in ToSet(s) \cup ToSet(t)
  <2>1. PICK i \in 1 .. Len(u) : u[i] = x
    BY <1>2, <1>3, ToSetOf
  <2>2. CASE i <= Len(s)
    <3>1. i \in 1 .. Len(s) /\ s[i] = x
      BY <1>1, <1>2, <2>1, <2>2
    <3> QED
      BY <3>1, ToSetOf
  <2>3. CASE ~(i <= Len(s))
    <3>1. i - Len(s) \in 1 .. Len(t) /\ t[i - Len(s)] = x
      BY <1>1, <1>2, <2>1, <2>3
    <3> QED
      BY <3>1, ToSetOf
  <2> QED
    BY <2>2, <2>3
<1>4. ASSUME NEW x \in ToSet(s) PROVE x \in ToSet(u)
  <2>1. PICK i \in 1 .. Len(s) : s[i] = x
    BY <1>4, ToSetOf
  <2>2. i \in 1 .. Len(u) /\ u[i] = x
    BY <1>1, <1>2, <2>1
  <2> QED
    BY <1>2, <2>2, ToSetOf
<1>5. ASSUME NEW x \in ToSet(t) PROVE x \in ToSet(u)
  <2>1. PICK i \in 1 .. Len(t) : t[i] = x
    BY <1>5, ToSetOf
  <2>2. i + Len(s) \in 1 .. Len(u) /\ ~(i + Len(s) <= Len(s)) /\ i + Len(s) - Len(s) = i
    BY <1>1, <1>2
  <2>3. u[i + Len(s)] = x
    BY <1>2, <2>1, <2>2
  <2> QED
    BY <1>2, <2>2, <2>3, ToSetOf
<1> QED
  BY <1>3, <1>4, <1>5 DEF u

LEMMA ToSetOne ==
  ASSUME NEW x
  PROVE  ToSet(<<x>>) = {x} /\ ToSet(<<>>) = {}
  BY DEF ToSet

LEMMA ToSetPiece ==
  ASSUME NEW S, NEW s \in Seq(S), NEW m \in 1 .. Len(s) + 1, NEW n \in 0 .. Len(s), m <= n + 1
  PROVE  SubSeq(s, m, n) \in Seq(S) /\ ToSet(SubSeq(s, m, n)) \subseteq ToSet(s)
<1> DEFINE t == SubSeq(s, m, n)
<1>0. Len(s) \in Nat
  BY LenProperties
<1>1. /\ t \in Seq(S) /\ Len(t) = n - m + 1
      /\ \A j \in 1 .. Len(t) : t[j] = s[m + j - 1]
  BY Piece
<1> HIDE DEF t
<1>2. \A j \in 1 .. Len(t) : m + j - 1 \in 1 .. Len(s)
  BY <1>0, <1>1
<1>3. ASSUME NEW x \in ToSet(t) PROVE x \in ToSet(s)
  <2>1. PICK j \in 1 .. Len(t) : t[j] = x
    BY <1>1, <1>3, ToSetOf
  <2>2. m + j - 1 \in 1 .. Len(s) /\ x = s[m + j - 1]
    BY <1>1, <1>2, <2>1
  <2> QED
    BY <2>2, ToSetOf
<1> QED
  BY <1>1, <1>3 DEF t

LEMMA ToSetRemoved ==
  ASSUME NEW S, NEW s \in Seq(S), NEW i \in 1 .. Len(s)
  PROVE  ToSet(RemoveAt(s, i)) \subseteq ToSet(s)
<1> DEFINE t == RemoveAt(s, i)
<1>0. Len(s) \in Nat
  BY LenProperties
<1>1. /\ t \in Seq(S) /\ Len(t) = Len(s) - 1
      /\ \A j \in 1 .. Len(s) - 1 : t[j] = IF j < i THEN s[j] ELSE s[j + 1]
  BY RemovedAt
<1> HIDE DEF t
<1>2. ASSUME NEW x \in ToSet(t) PROVE x \in ToSet(s)
  <2>1. PICK j \in 1 .. Len(t) : t[j] = x
    BY <1>1, <1>2, ToSetOf
  <2>2. j \in 1 .. Len(s) /\ j + 1 \in 1 .. Len(s)
    BY <1>0, <1>1
  <2>3. x = s[j] \/ x = s[j + 1]
    BY <1>1, <2>1
  <2> QED
    BY <2>2, <2>3, ToSetOf
<1> QED
  BY <1>2 DEF t

LEMMA ToSetInserted ==
  ASSUME NEW S, NEW s \in Seq(S), NEW i \in 1 .. Len(s) + 1, NEW e \in S
  PROVE  ToSet(InsertAt(s, i, e)) \subseteq ToSet(s) \cup {e}
<1> DEFINE t == InsertAt(s, i, e)
<1>0. Len(s) \in Nat
  BY LenProperties
<1>1. t \in Seq(S) /\ Len(t) = Len(s) + 1
  BY InsertedAt
<1>3. ASSUME NEW j \in 1 .. Len(s) + 1
      PROVE  t[j] = IF j < i THEN s[j] ELSE IF j = i THEN e ELSE s[j - 1]
  BY InsertedAtIndex
<1> HIDE DEF t
<1>2. ASSUME NEW x \in ToSet(t), x # e PROVE x \in ToSet(s)
  <2>1. PICK j \in 1 .. Len(t) : t[j] = x
    BY <1>1, <1>2, ToSetOf
  <2>2. CASE j < i
    <3>1. j \in 1 .. Len(s) /\ x = s[j]
      BY <1>0, <1>1, <1>3, <2>1, <2>2
    <3> QED
      BY <3>1, ToSetOf
  <2>3. CASE ~(j < i)
    <3>1. j - 1 \in 1 .. Len(s) /\ x = s[j - 1]
      BY <1>0, <1>1, <1>2, <1>3, <2>1, <2>3
    <3> QED
      BY <3>1, ToSetOf
  <2> QED
    BY <2>2, <2>3
<1> QED
  BY <1>2 DEF t

LEMMA ToSetTail ==
  ASSUME NEW S, NEW s \in Seq(S), s # <<>>
  PROVE  ToSet(s) = {s[1]} \cup ToSet(Tail(s))
<1> DEFINE t == Tail(s)
<1>1. Len(s) \in Nat /\ Len(s) >= 1
  BY EmptySeq, LenProperties
<1>2. t \in Seq(S) /\ Len(t) = Len(s) - 1 /\ \A j \in 1 .. Len(t) : t[j] = s[j + 1]
  BY HeadTailProperties
<1> HIDE DEF t
<1>3. ASSUME NEW x \in ToSet(s), x # s[1] PROVE x \in ToSet(t)
  <2>1. PICK j \in 1 .. Len(s) : s[j] = x
    BY <1>3, ToSetOf
  <2>2. j - 1 \in 1 .. Len(t) /\ j - 1 + 1 = j
    BY <1>1, <1>2, <1>3, <2>1
  <2>3. t[j - 1] = x
    BY <1>2, <2>1, <2>2
  <2> QED
    BY <1>2, <2>2, <2>3, ToSetOf
<1>4. ASSUME NEW x \in ToSet(t) PROVE x \in ToSet(s)
  <2>1. PICK j \in 1 .. Len(t) : t[j] = x
    BY <1>2, <1>4, ToSetOf
  <2>2. j + 1 \in 1 .. Len(s)
    BY <1>1, <1>2
  <2> QED
    BY <1>2, <2>1, <2>2, ToSetOf
<1>5. s[1] \in ToSet(s)
  BY <1>1, ToSetOf
<1> QED
  BY <1>3, <1>4, <1>5 DEF t
=============================================================================
