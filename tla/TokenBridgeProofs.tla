-------------------------- MODULE TokenBridgeProofs --------------------------
(***************************************************************************)
(* Proofs about TokenBridge, for any text and any way it is cut into deltas *)
(* and sentences, and a queue of any size.                                 *)
(*                                                                         *)
(* What the queue carries is a concatenation of deltas, FlattenSeq, which the *)
(* community modules define by a recursive function.  Its laws (type, append, *)
(* tail) need induction, which is had here from the least element of a set of *)
(* numbers: an induction over sets takes no operator as its parameter.     *)
(***************************************************************************)
EXTENDS TokenBridge, SequenceTheorems, WellFoundedInduction, TLAPS

(***************************************************************************)
(* Induction over sets of numbers                                          *)
(***************************************************************************)
NatLess == {ss \in Nat \X Nat : ss[1] < ss[2]}

\* A set of numbers has a least element, so one that holds 0 and the successor of each of
\* its members is Nat; and likewise for the indices of a sequence.
LEMMA NatLessWF == IsWellFoundedOn(NatLess, Nat)
<1>1. NatLess = OpToRel(<, Nat)
  BY DEF NatLess, OpToRel
<1> QED
  BY <1>1, NatLessThanWellFounded

LEMMA LeastOf ==
    ASSUME NEW T \in SUBSET Nat, T # {}
    PROVE  \E x \in T : \A y \in T : x <= y
<1>1. PICK x \in T : \A y \in T : ~ (<<y, x>> \in NatLess)
  BY NatLessWF, WFMin, T \subseteq Nat
<1>2. ASSUME NEW y \in T PROVE x <= y
  <2>1. <<y, x>> \in Nat \X Nat
    OBVIOUS
  <2>2. ~(y < x)
    BY <1>1, <2>1, SMT DEF NatLess
  <2> QED
    BY <2>2, SMT
<1> QED
  BY <1>2

LEMMA SetInduction ==
    ASSUME NEW S \in SUBSET Nat, 0 \in S, \A n \in S : n + 1 \in S
    PROVE  S = Nat
<1>1. SUFFICES ASSUME Nat \ S # {} PROVE FALSE
  OBVIOUS
<1>2. PICK m \in Nat \ S : \A k \in Nat \ S : m <= k
  BY <1>1, LeastOf, Nat \ S \in SUBSET Nat
<1>3. m # 0 /\ m - 1 \in Nat
  BY SMT
<1>4. m - 1 \in S
  BY <1>2, <1>3, SMT
<1> QED
  BY <1>3, <1>4, SMT

LEMMA IndexInduction ==
    ASSUME NEW n \in Nat, NEW S, n # 0 => 1 \in S,
           \A i \in 1..n : i \in S /\ i # n => i + 1 \in S
    PROVE  \A i \in 1..n : i \in S
<1> DEFINE K == {k \in Nat : k + 1 \in 1..n => k + 1 \in S}
<1>1. 0 \in K
  BY SMT
<1>2. ASSUME NEW k \in K PROVE k + 1 \in K
  <2>1. SUFFICES ASSUME (k + 1) + 1 \in 1..n PROVE (k + 1) + 1 \in S
    BY SMT
  <2>2. k + 1 \in 1..n /\ k + 1 # n
    BY <2>1, SMT
  <2> QED
    BY <2>2
<1>3. K = Nat
  <2> HIDE DEF K
  <2>1. K \in SUBSET Nat
    BY DEF K
  <2> QED
    BY <1>1, <1>2, <2>1, SetInduction
<1>4. ASSUME NEW i \in 1..n PROVE i \in S
  <2>1. i - 1 \in Nat /\ (i - 1) + 1 = i
    BY SMT
  <2> QED
    BY <1>3, <2>1, Zenon
<1> QED
  BY <1>4

(***************************************************************************)
(* FlattenSeq                                                              *)
(***************************************************************************)
\* f is the recursive function of FlattenSeq, as far as n.
Unfolds(f, s, n) == f = [i \in 1..n |-> IF i = 1 THEN s[i] ELSE f[i - 1] \o s[i]]

\* There is such a function, so FlattenSeq chooses one; it takes the values its recursion
\* says, and two of them agree where their sequences do.
LEMMA UnfoldingExists ==
    ASSUME NEW s
    PROVE  \A n \in Nat : \E f : Unfolds(f, s, n)
<1> DEFINE S == {n \in Nat : \E f : Unfolds(f, s, n)}
<1>1. 0 \in S
  <2>1. Unfolds([i \in 1..0 |-> <<>>], s, 0)
    BY SMT DEF Unfolds
  <2> QED
    BY <2>1
<1>2. ASSUME NEW n \in S PROVE n + 1 \in S
  <2>1. PICK f : Unfolds(f, s, n)
    OBVIOUS
  <2> DEFINE g == [i \in 1..(n + 1) |-> IF i <= n THEN f[i]
                                       ELSE IF i = 1 THEN s[i] ELSE f[i - 1] \o s[i]]
             h == [i \in 1..(n + 1) |-> IF i = 1 THEN s[i] ELSE g[i - 1] \o s[i]]
  <2>2. ASSUME NEW i \in 1..(n + 1) PROVE g[i] = h[i]
    <3>1. CASE i <= n
      <4>1. g[i] = f[i] /\ (i # 1 => g[i - 1] = f[i - 1])
        BY <3>1, SMT
      <4>2. f[i] = IF i = 1 THEN s[i] ELSE f[i - 1] \o s[i]
        <5>1. i \in 1..n
          BY <3>1, SMT
        <5> QED
          BY <2>1, <5>1, Zenon DEF Unfolds
      <4> QED
        BY <4>1, <4>2
    <3>2. CASE i = n + 1
      <4>1. g[i] = IF i = 1 THEN s[i] ELSE f[i - 1] \o s[i]
        BY <3>2, SMT
      <4>2. i # 1 => g[i - 1] = f[i - 1]
        BY <3>2, SMT
      <4> QED
        BY <4>1, <4>2
    <3> QED
      BY <3>1, <3>2, SMT
  <2>3. g = h
    BY <2>2, Zenon
  <2>4. Unfolds(g, s, n + 1)
    BY <2>3, Zenon DEF Unfolds
  <2> HIDE DEF g, h
  <2> QED
    BY <2>4, SMT
<1>3. S = Nat
  <2> HIDE DEF S
  <2>1. S \in SUBSET Nat
    BY DEF S
  <2> QED
    BY <1>1, <1>2, <2>1, SetInduction
<1> QED
  BY <1>3

LEMMA FlattenUnfolds ==
    ASSUME NEW s, Len(s) \in Nat, Len(s) # 0
    PROVE  \E f : Unfolds(f, s, Len(s)) /\ FlattenSeq(s) = f[Len(s)]
<1> DEFINE f == CHOOSE f : Unfolds(f, s, Len(s))
<1>1. Unfolds(f, s, Len(s))
  BY UnfoldingExists, Zenon
<1>2. FlattenSeq(s) = f[Len(s)]
  BY Zenon DEF FlattenSeq, Unfolds
<1> QED
  BY <1>1, <1>2

LEMMA UnfoldingAt ==
    ASSUME NEW f, NEW s, NEW n \in Nat, Unfolds(f, s, n)
    PROVE  \A i \in 1..n : f[i] = IF i = 1 THEN s[i] ELSE f[i - 1] \o s[i]
  BY Zenon DEF Unfolds

LEMMA UnfoldingFirst ==
    ASSUME NEW f, NEW s, NEW n \in Nat, n # 0, Unfolds(f, s, n)
    PROVE  f[1] = s[1]
<1>1. 1 \in 1..n
  BY SMT
<1> QED
  BY <1>1, UnfoldingAt

LEMMA UnfoldingNext ==
    ASSUME NEW f, NEW s, NEW n \in Nat, Unfolds(f, s, n), NEW i \in 1..n, i # n
    PROVE  f[i + 1] = f[i] \o s[i + 1]
<1>1. i + 1 \in 1..n /\ i + 1 # 1 /\ (i + 1) - 1 = i
  BY SMT
<1>2. \A j \in 1..n : f[j] = IF j = 1 THEN s[j] ELSE f[j - 1] \o s[j]
  BY UnfoldingAt
<1>3. f[i + 1] = IF i + 1 = 1 THEN s[i + 1] ELSE f[(i + 1) - 1] \o s[i + 1]
  BY <1>1, <1>2, Zenon
<1> QED
  BY <1>1, <1>3

\* Concatenation of texts.
LEMMA ConcatLaws ==
    ASSUME NEW T
    PROVE  /\ \A x, y \in Seq(T) : x \o y \in Seq(T)
           /\ \A x, y, z \in Seq(T) : (x \o y) \o z = x \o (y \o z)
           /\ \A x \in Seq(T) : x \o <<>> = x /\ <<>> \o x = x
           /\ <<>> \in Seq(T)
<1>1. ASSUME NEW x \in Seq(T), NEW y \in Seq(T) PROVE x \o y \in Seq(T)
  BY SMT
<1>2. ASSUME NEW x \in Seq(T), NEW y \in Seq(T), NEW z \in Seq(T)
      PROVE  (x \o y) \o z = x \o (y \o z)
  BY SMT
<1>3. ASSUME NEW x \in Seq(T) PROVE x \o <<>> = x /\ <<>> \o x = x
  BY SMT
<1>4. <<>> \in Seq(T)
  BY SMT
<1> QED
  BY <1>1, <1>2, <1>3, <1>4, Zenon

LEMMA UnfoldingType ==
    ASSUME NEW T, NEW s \in Seq(Seq(T)), NEW f, Unfolds(f, s, Len(s))
    PROVE  \A i \in 1..Len(s) : f[i] \in Seq(T)
<1> DEFINE n == Len(s)
           S == {i \in 1..n : f[i] \in Seq(T)}
<1>1. n \in Nat /\ \A i \in 1..n : s[i] \in Seq(T)
  BY LenProperties, ElementOfSeq
<1> HIDE DEF n
<1>2. n # 0 => 1 \in S
  <2>1. n # 0 => 1 \in 1..n
    BY <1>1, SMT
  <2> QED
    BY <1>1, <2>1, UnfoldingFirst DEF n
<1>3. ASSUME NEW i \in 1..n, i \in S, i # n PROVE i + 1 \in S
  <2>1. i + 1 \in 1..n
    BY <1>1, <1>3, SMT
  <2>2. f[i + 1] = f[i] \o s[i + 1]
    BY <1>1, <1>3, UnfoldingNext DEF n
  <2> QED
    <3>1. f[i] \in Seq(T) /\ s[i + 1] \in Seq(T)
      BY <1>1, <1>3, <2>1
    <3>2. f[i] \o s[i + 1] \in Seq(T)
      BY <3>1, ConcatLaws, Zenon
    <3> QED
      BY <2>1, <2>2, <3>2
<1> HIDE DEF S
<1>4. \A i \in 1..n : i \in S
  BY <1>1, <1>2, <1>3, IndexInduction
<1> QED
  BY <1>4 DEF S, n

LEMMA UnfoldingsAgree ==
    ASSUME NEW n \in Nat, NEW f, NEW s, Unfolds(f, s, n),
           NEW g, NEW t, Unfolds(g, t, n + 1), \A i \in 1..n : t[i] = s[i]
    PROVE  \A i \in 1..n : g[i] = f[i]
<1> DEFINE S == {i \in 1..n : g[i] = f[i]}
<1>0. n + 1 \in Nat /\ n + 1 # 0
  BY SMT
<1>1. n # 0 => 1 \in S
  <2>1. n # 0 => 1 \in 1..n
    BY SMT
  <2> QED
    BY <1>0, <2>1, UnfoldingFirst
<1>2. ASSUME NEW i \in 1..n, i \in S, i # n PROVE i + 1 \in S
  <2>1. i + 1 \in 1..n /\ i \in 1..(n + 1) /\ i # n + 1
    BY <1>2, SMT
  <2>2. f[i + 1] = f[i] \o s[i + 1]
    BY <1>2, UnfoldingNext, Zenon
  <2>3. g[i + 1] = g[i] \o t[i + 1]
    <3>1. n + 1 \in Nat /\ Unfolds(g, t, n + 1) /\ i \in 1..(n + 1) /\ i # n + 1
      BY <1>0, <2>1
    <3> QED
      BY <3>1, UnfoldingNext, Zenon
  <2> QED
    BY <1>2, <2>1, <2>2, <2>3
<1> HIDE DEF S
<1>3. \A i \in 1..n : i \in S
  BY <1>1, <1>2, IndexInduction
<1> QED
  BY <1>3 DEF S

LEMMA TailFacts ==
    ASSUME NEW T, NEW s \in Seq(Seq(T)), s # <<>>
    PROVE  /\ Tail(s) \in Seq(Seq(T)) /\ Head(s) \in Seq(T) /\ Head(s) = s[1]
           /\ Len(Tail(s)) \in Nat /\ Len(s) = Len(Tail(s)) + 1 /\ Len(s) \in Nat /\ Len(s) # 0
           /\ \A i \in 1..Len(Tail(s)) : s[i + 1] = Tail(s)[i]
<1>1. /\ Tail(s) \in Seq(Seq(T)) /\ Head(s) \in Seq(T) /\ Head(s) = s[1]
      /\ Len(Tail(s)) = Len(s) - 1
      /\ \A i \in 1..Len(Tail(s)) : s[i + 1] = Tail(s)[i]
  BY HeadTailProperties, SMT
<1>2. Len(Tail(s)) \in Nat /\ Len(s) = Len(Tail(s)) + 1 /\ Len(s) \in Nat /\ Len(s) # 0
  BY <1>1, LenProperties, SMT
<1> QED
  BY <1>1, <1>2

\* Unfolding a sequence is unfolding its tail behind its head.
LEMMA UnfoldingsShift ==
    ASSUME NEW T, NEW s \in Seq(Seq(T)), s # <<>>,
           NEW f, Unfolds(f, Tail(s), Len(Tail(s))), NEW g, Unfolds(g, s, Len(s))
    PROVE  \A i \in 1..Len(Tail(s)) : g[i + 1] = Head(s) \o f[i]
<1> DEFINE t == Tail(s)
           n == Len(t)
           S == {i \in 1..n : g[i + 1] = Head(s) \o f[i]}
<1>1. /\ t \in Seq(Seq(T)) /\ Head(s) \in Seq(T) /\ Head(s) = s[1]
      /\ n \in Nat /\ Len(s) = n + 1 /\ n + 1 \in Nat /\ n + 1 # 0
      /\ \A i \in 1..n : s[i + 1] = t[i]
  BY TailFacts
<1>2. (\A i \in 1..n : f[i] \in Seq(T)) /\ (\A i \in 1..n : t[i] \in Seq(T))
  BY <1>1, UnfoldingType, ElementOfSeq
<1>3. Unfolds(f, t, n) /\ Unfolds(g, s, n + 1)
  BY <1>1
<1> HIDE DEF t, n
<1>4. ASSUME n # 0 PROVE 1 \in S
  <2>1. 1 \in 1..n /\ 1 \in 1..(n + 1) /\ 1 # n + 1
    BY <1>1, <1>4, SMT
  <2>2. g[1] = Head(s) /\ f[1] = t[1]
    BY <1>1, <1>3, <1>4, UnfoldingFirst
  <2>3. g[1 + 1] = g[1] \o s[1 + 1]
    <3>1. n + 1 \in Nat /\ Unfolds(g, s, n + 1)
      BY <1>1, <1>3
    <3>2. \A i \in 1..(n + 1) : i # n + 1 => g[i + 1] = g[i] \o s[i + 1]
      BY <3>1, UnfoldingNext, Zenon
    <3> QED
      BY <2>1, <3>2, Zenon
  <2> QED
    BY <1>1, <2>1, <2>2, <2>3
<1>5. ASSUME NEW i \in 1..n, i \in S, i # n PROVE i + 1 \in S
  <2>1. i + 1 \in 1..n /\ i + 1 \in 1..(n + 1) /\ i + 1 # n + 1
    BY <1>1, <1>5, SMT
  <2>2. f[i + 1] = f[i] \o t[i + 1]
    <3>1. n \in Nat /\ Unfolds(f, t, n) /\ i \in 1..n /\ i # n
      BY <1>1, <1>3, <1>5
    <3> QED
      BY <3>1, UnfoldingNext, Zenon
  <2>3. g[(i + 1) + 1] = g[i + 1] \o s[(i + 1) + 1] /\ s[(i + 1) + 1] = t[i + 1]
    <3>1. g[(i + 1) + 1] = g[i + 1] \o s[(i + 1) + 1]
      <4>1. n + 1 \in Nat /\ Unfolds(g, s, n + 1)
        BY <1>1, <1>3
      <4> QED
        BY <2>1, <4>1, UnfoldingNext, Zenon
    <3> QED
      BY <1>1, <2>1, <3>1, Zenon
  <2>4. g[i + 1] = Head(s) \o f[i]
    BY <1>5
  <2>5. (Head(s) \o f[i]) \o t[i + 1] = Head(s) \o (f[i] \o t[i + 1])
    <3>1. f[i] \in Seq(T) /\ t[i + 1] \in Seq(T) /\ Head(s) \in Seq(T)
      BY <1>1, <1>2, <2>1
    <3>2. \A x, y, z \in Seq(T) : (x \o y) \o z = x \o (y \o z)
      BY ConcatLaws, Zenon
    <3> QED
      BY <3>1, <3>2, Zenon
  <2> QED
    BY <2>1, <2>2, <2>3, <2>4, <2>5
<1> HIDE DEF S
<1>6. \A i \in 1..n : i \in S
  BY <1>1, <1>4, <1>5, IndexInduction
<1> QED
  BY <1>6 DEF S, t, n

\* The laws of FlattenSeq.
LEMMA FlattenEmpty == FlattenSeq(<<>>) = <<>>
  BY SMT DEF FlattenSeq

LEMMA FlattenType ==
    ASSUME NEW T, NEW s \in Seq(Seq(T))
    PROVE  FlattenSeq(s) \in Seq(T)
<1>1. CASE Len(s) = 0
  <2>1. s = <<>>
    BY <1>1, EmptySeq
  <2> QED
    BY <2>1, FlattenEmpty, EmptySeq
<1>2. CASE Len(s) # 0
  <2>1. Len(s) \in Nat
    BY LenProperties
  <2>2. Len(s) \in 1..Len(s)
    BY <1>2, <2>1, SMT
  <2>3. PICK f : Unfolds(f, s, Len(s)) /\ FlattenSeq(s) = f[Len(s)]
    BY <1>2, <2>1, FlattenUnfolds
  <2> QED
    BY <2>2, <2>3, UnfoldingType
<1> QED
  BY <1>1, <1>2

LEMMA FlattenAppend ==
    ASSUME NEW T, NEW s \in Seq(Seq(T)), NEW e \in Seq(T)
    PROVE  FlattenSeq(Append(s, e)) = FlattenSeq(s) \o e
<1>1. PICK n \in Nat, t \in Seq(Seq(T)) :
        /\ n = Len(s) /\ t = Append(s, e)
        /\ Len(t) = n + 1 /\ t[n + 1] = e
        /\ \A i \in 1..n : t[i] = s[i]
  <2>1. Append(s, e) \in Seq(Seq(T)) /\ Len(s) \in Nat
    BY AppendProperties, LenProperties
  <2>2. /\ Len(Append(s, e)) = Len(s) + 1 /\ Append(s, e)[Len(s) + 1] = e
        /\ \A i \in 1..Len(s) : Append(s, e)[i] = s[i]
    BY AppendProperties
  <2> QED
    BY <2>1, <2>2
<1>2. n + 1 \in Nat /\ n + 1 # 0
  BY SMT
<1>3. PICK g : Unfolds(g, t, n + 1) /\ FlattenSeq(t) = g[n + 1]
  BY <1>1, <1>2, FlattenUnfolds
<1>4. CASE n = 0
  <2>1. s = <<>>
    BY <1>1, <1>4, EmptySeq
  <2>2. g[1] = e
    BY <1>1, <1>2, <1>3, <1>4, UnfoldingFirst, 0 + 1 = 1
  <2>3. FlattenSeq(t) = e
    BY <1>3, <1>4, <2>2, 0 + 1 = 1
  <2> QED
    BY <1>1, <2>1, <2>3, FlattenEmpty, ConcatEmptySeq
<1>5. CASE n # 0
  <2>1. PICK f : Unfolds(f, s, n) /\ FlattenSeq(s) = f[n]
    BY <1>1, <1>5, FlattenUnfolds
  <2>2. n \in 1..n /\ n \in 1..(n + 1) /\ n # n + 1
    BY <1>5, SMT
  <2>3. g[n] = f[n]
    <3>1. \A i \in 1..n : t[i] = s[i]
      BY <1>1
    <3>2. \A i \in 1..n : g[i] = f[i]
      BY <1>3, <2>1, <3>1, UnfoldingsAgree
    <3> QED
      BY <2>2, <3>2
  <2>4. g[n + 1] = g[n] \o t[n + 1]
    BY <1>2, <1>3, <2>2, UnfoldingNext
  <2> QED
    BY <1>1, <1>3, <2>1, <2>3, <2>4
<1> QED
  BY <1>4, <1>5

LEMMA FlattenTail ==
    ASSUME NEW T, NEW s \in Seq(Seq(T)), s # <<>>
    PROVE  FlattenSeq(s) = Head(s) \o FlattenSeq(Tail(s))
<1> DEFINE t == Tail(s)
           n == Len(t)
<1>1. /\ t \in Seq(Seq(T)) /\ Head(s) \in Seq(T) /\ Head(s) = s[1]
      /\ n \in Nat /\ Len(s) = n + 1 /\ n + 1 \in Nat /\ n + 1 # 0
  BY TailFacts
<1>2. PICK g : Unfolds(g, s, Len(s)) /\ FlattenSeq(s) = g[Len(s)]
  BY <1>1, FlattenUnfolds
<1>3. CASE n = 0
  <2>1. t = <<>>
    BY <1>1, <1>3, EmptySeq
  <2>2. Len(s) = 1
    BY <1>1, <1>3, 0 + 1 = 1
  <2>3. FlattenSeq(s) = Head(s)
    BY <1>1, <1>2, <2>2, UnfoldingFirst
  <2> QED
    BY <1>1, <2>1, <2>3, FlattenEmpty, ConcatEmptySeq
<1>4. CASE n # 0
  <2>1. PICK f : Unfolds(f, t, n) /\ FlattenSeq(t) = f[n]
    BY <1>1, <1>4, FlattenUnfolds
  <2>2. n \in 1..n
    BY <1>1, <1>4, SMT
  <2>3. \A i \in 1..n : g[i + 1] = Head(s) \o f[i]
    <3>1. Unfolds(f, Tail(s), Len(Tail(s))) /\ Unfolds(g, s, Len(s))
      BY <1>2, <2>1
    <3> QED
      BY <3>1, UnfoldingsShift
  <2> QED
    BY <1>1, <1>2, <2>1, <2>2, <2>3
<1> QED
  BY <1>3, <1>4

(***************************************************************************)
(* What the queue carries                                                  *)
(***************************************************************************)
Carry(q) == [i \in DOMAIN q |-> Carried(q[i])]

\* The deltas on the queue, and the text they make: put at the end, taken from the front.
LEMMA CarriedType ==
    ASSUME NEW d \in 0..Len(Deltas)
    PROVE  Carried(d) \in Seq(Nat) /\ (d # None => Carried(d) = Deltas[d])
<1>1. Len(Deltas) \in Nat
  BY BridgeAssumption, LenProperties
<1>2. CASE d = None
  BY <1>2, EmptySeq DEF Carried
<1>3. CASE d # None
  <2>1. d \in 1..Len(Deltas)
    BY <1>1, <1>3, SMT DEF None
  <2>2. Deltas[d] \in Seq(Nat \ {0})
    BY <2>1, BridgeAssumption, ElementOfSeq
  <2>3. Deltas[d] \in Seq(Nat)
    BY <2>2, SeqMonotonic, Nat \ {0} \subseteq Nat
  <2> QED
    BY <1>3, <2>3 DEF Carried
<1> QED
  BY <1>2, <1>3

LEMMA CarryType ==
    ASSUME NEW q \in Seq(0..Len(Deltas))
    PROVE  /\ Carry(q) \in Seq(Seq(Nat)) /\ Len(Carry(q)) = Len(q)
           /\ \A i \in 1..Len(q) : Carry(q)[i] = Carried(q[i])
<1>1. Len(q) \in Nat /\ DOMAIN q = 1..Len(q)
  BY LenProperties
<1>2. \A i \in 1..Len(q) : Carried(q[i]) \in Seq(Nat)
  BY ElementOfSeq, CarriedType
<1>3. Carry(q) \in [1..Len(q) -> Seq(Nat)]
  BY <1>1, <1>2 DEF Carry
<1>4. Carry(q) \in Seq(Seq(Nat)) /\ Len(Carry(q)) = Len(q)
  BY <1>1, <1>3, SMT
<1>5. \A i \in 1..Len(q) : Carry(q)[i] = Carried(q[i])
  BY <1>1 DEF Carry
<1> QED
  BY <1>4, <1>5

LEMMA TextOfEmpty == TextOf(<<>>) = <<>>
<1>1. <<>> \in Seq(0..Len(Deltas)) /\ Len(<<>>) = 0
  BY EmptySeq
<1>2. Carry(<<>>) = <<>>
  BY <1>1, CarryType, EmptySeq
<1> QED
  BY <1>2, FlattenEmpty DEF TextOf, Carry

LEMMA TextOfType ==
    ASSUME NEW q \in Seq(0..Len(Deltas))
    PROVE  TextOf(q) \in Seq(Nat)
  BY CarryType, FlattenType DEF TextOf, Carry

LEMMA TextOfAppend ==
    ASSUME NEW q \in Seq(0..Len(Deltas)), NEW d \in 0..Len(Deltas)
    PROVE  TextOf(Append(q, d)) = TextOf(q) \o Carried(d)
<1> DEFINE r == Append(q, d)
<1>1. /\ r \in Seq(0..Len(Deltas)) /\ Len(r) = Len(q) + 1 /\ r[Len(q) + 1] = d
      /\ \A i \in 1..Len(q) : r[i] = q[i]
  BY AppendProperties
<1>2. Len(q) \in Nat /\ Carried(d) \in Seq(Nat)
  BY LenProperties, CarriedType
<1> HIDE DEF r
<1>3. /\ Carry(r) \in Seq(Seq(Nat)) /\ Len(Carry(r)) = Len(q) + 1
      /\ \A i \in 1..(Len(q) + 1) : Carry(r)[i] = Carried(r[i])
  BY <1>1, CarryType
<1>4. /\ Carry(q) \in Seq(Seq(Nat)) /\ Len(Carry(q)) = Len(q)
      /\ \A i \in 1..Len(q) : Carry(q)[i] = Carried(q[i])
  BY CarryType
<1> DEFINE t == Append(Carry(q), Carried(d))
<1>5. /\ t \in Seq(Seq(Nat)) /\ Len(t) = Len(q) + 1 /\ t[Len(q) + 1] = Carried(d)
      /\ \A i \in 1..Len(q) : t[i] = Carry(q)[i]
  BY <1>2, <1>4, AppendProperties
<1> HIDE DEF t
<1>6. ASSUME NEW i \in 1..(Len(q) + 1) PROVE Carry(r)[i] = t[i]
  <2>1. CASE i = Len(q) + 1
    BY <1>1, <1>3, <1>5, <2>1
  <2>2. CASE i # Len(q) + 1
    <3>1. i \in 1..Len(q)
      <4>1. \A n \in Nat : \A k \in 1..(n + 1) : k # n + 1 => k \in 1..n
        BY SMT
      <4>2. Len(q) \in Nat
        BY LenProperties
      <4> QED
        BY <2>2, <4>1, <4>2, Zenon
    <3> QED
      BY <1>1, <1>3, <1>4, <1>5, <3>1
  <2> QED
    BY <2>1, <2>2
<1>7. Carry(r) = t
  BY <1>3, <1>5, <1>6, SeqEqual
<1> QED
  BY <1>2, <1>4, <1>7, FlattenAppend DEF TextOf, Carry, t, r

LEMMA TextOfTail ==
    ASSUME NEW q \in Seq(0..Len(Deltas)), q # <<>>
    PROVE  /\ TextOf(q) = Carried(Head(q)) \o TextOf(Tail(q))
           /\ Head(q) \in 0..Len(Deltas) /\ Tail(q) \in Seq(0..Len(Deltas))
<1>1. /\ Tail(q) \in Seq(0..Len(Deltas)) /\ Head(q) \in 0..Len(Deltas)
      /\ Len(Tail(q)) = Len(q) - 1 /\ \A i \in 1..Len(Tail(q)) : Tail(q)[i] = q[i + 1]
  BY HeadTailProperties
<1>2. Head(q) = q[1] /\ Len(q) \in Nat /\ Len(q) # 0
  BY EmptySeq, LenProperties, SMT
<1>3. /\ Carry(q) \in Seq(Seq(Nat)) /\ Len(Carry(q)) = Len(q)
      /\ \A i \in 1..Len(q) : Carry(q)[i] = Carried(q[i])
  BY CarryType
<1>4. /\ Carry(Tail(q)) \in Seq(Seq(Nat)) /\ Len(Carry(Tail(q))) = Len(Tail(q))
      /\ \A i \in 1..Len(Tail(q)) : Carry(Tail(q))[i] = Carried(Tail(q)[i])
  BY <1>1, CarryType
<1>5. Carry(q) # <<>>
  BY <1>2, <1>3, EmptySeq
<1>6. /\ Tail(Carry(q)) \in Seq(Seq(Nat)) /\ Len(Tail(Carry(q))) = Len(q) - 1
      /\ \A i \in 1..(Len(q) - 1) : Tail(Carry(q))[i] = Carry(q)[i + 1]
      /\ Head(Carry(q)) = Carry(q)[1]
  BY <1>3, <1>5, HeadTailProperties, SMT
<1>7. Head(Carry(q)) = Carried(Head(q))
  <2>1. 1 \in 1..Len(q)
    BY <1>2, SMT
  <2> QED
    BY <1>2, <1>3, <1>6, <2>1
<1>8. ASSUME NEW i \in 1..(Len(q) - 1) PROVE Tail(Carry(q))[i] = Carry(Tail(q))[i]
  <2>1. i + 1 \in 1..Len(q)
    BY <1>2, SMT
  <2> QED
    BY <1>1, <1>3, <1>4, <1>6, <2>1
<1>9. Tail(Carry(q)) = Carry(Tail(q))
  BY <1>1, <1>4, <1>6, <1>8, SeqEqual
<1>10. FlattenSeq(Carry(q)) = Head(Carry(q)) \o FlattenSeq(Tail(Carry(q)))
  BY <1>3, <1>5, FlattenTail
<1> QED
  BY <1>1, <1>7, <1>9, <1>10 DEF TextOf, Carry

(***************************************************************************)
(* Sentences                                                               *)
(***************************************************************************)
\* _split_at_boundary (tts.py:52-74) finds the first end of a sentence, or none.
LEMMA BoundaryFirst ==
    ASSUME NEW s \in Seq(Nat)
    PROVE  /\ Boundary(s) \in 0..Len(s)
           /\ Boundary(s) = 0 => \A i \in DOMAIN s : s[i] \notin Ends
           /\ Boundary(s) # 0 => s[Boundary(s)] \in Ends
                                 /\ \A i \in 1..(Boundary(s) - 1) : s[i] \notin Ends
<1> DEFINE found == {i \in DOMAIN s : s[i] \in Ends}
<1>1. Len(s) \in Nat /\ DOMAIN s = 1..Len(s)
  BY LenProperties
<1>2. CASE found = {}
  <2>1. Boundary(s) = 0
    BY <1>2 DEF Boundary
  <2> QED
    BY <1>1, <1>2, <2>1, SMT
<1>3. CASE found # {}
  <2>1. found \in SUBSET Nat
    BY <1>1, SMT
  <2>2. \E i \in found : \A j \in found : i <= j
    BY <1>3, <2>1, LeastOf
  <2>3. Boundary(s) \in found /\ \A j \in found : Boundary(s) <= j
    <3>1. Boundary(s) = CHOOSE i \in found : \A j \in found : i <= j
      BY <1>3 DEF Boundary
    <3> QED
      BY <2>2, <3>1
  <2>4. Boundary(s) \in 1..Len(s) /\ s[Boundary(s)] \in Ends
    BY <1>1, <2>3
  <2>5. \A i \in 1..(Boundary(s) - 1) : s[i] \notin Ends
    BY <1>1, <2>3, <2>4, SMT
  <2> QED
    BY <1>1, <2>4, <2>5, SMT
<1> QED
  BY <1>2, <1>3

\* Cutting the buffer there loses nothing.
LEMMA Split ==
    ASSUME NEW T, NEW s \in Seq(T), NEW b \in 0..Len(s)
    PROVE  /\ SubSeq(s, 1, b) \in Seq(T) /\ SubSeq(s, b + 1, Len(s)) \in Seq(T)
           /\ Len(SubSeq(s, b + 1, Len(s))) = Len(s) - b
           /\ \A i \in 1..(Len(s) - b) : SubSeq(s, b + 1, Len(s))[i] = s[b + i]
           /\ SubSeq(s, 1, b) \o SubSeq(s, b + 1, Len(s)) = s
<1>1. Len(s) \in Nat /\ b \in Nat /\ b <= Len(s) /\ \A i \in 1..Len(s) : s[i] \in T
  BY LenProperties, ElementOfSeq, SMT
<1>2. SubSeq(s, 1, b) \in Seq(T)
  <2>1. \A i \in 1..b : s[i] \in T
    BY <1>1, SMT
  <2> QED
    BY <1>1, <2>1, SubSeqProperties, 1 \in Int, b \in Int
<1>3. /\ SubSeq(s, b + 1, Len(s)) \in Seq(T)
      /\ Len(SubSeq(s, b + 1, Len(s))) = IF b + 1 <= Len(s) THEN Len(s) - (b + 1) + 1 ELSE 0
      /\ \A i \in 1..(Len(s) - (b + 1) + 1) : SubSeq(s, b + 1, Len(s))[i] = s[(b + 1) + i - 1]
  <2>1. \A i \in (b + 1)..Len(s) : s[i] \in T
    BY <1>1, SMT
  <2>2. b + 1 \in Int /\ Len(s) \in Int
    BY <1>1, SMT
  <2> QED
    BY <2>1, <2>2, SubSeqProperties
<1>4. Len(SubSeq(s, b + 1, Len(s))) = Len(s) - b
  BY <1>1, <1>3, SMT
<1>5. ASSUME NEW i \in 1..(Len(s) - b) PROVE SubSeq(s, b + 1, Len(s))[i] = s[b + i]
  <2>1. i \in 1..(Len(s) - (b + 1) + 1) /\ (b + 1) + i - 1 = b + i
    BY <1>1, SMT
  <2> QED
    BY <1>3, <2>1
<1>6. SubSeq(s, 1, b) \o SubSeq(s, b + 1, Len(s)) = s
  <2>1. 1 \in 1..(Len(s) + 1) /\ b \in (1 - 1)..Len(s) /\ Len(s) \in b..Len(s)
    BY <1>1, SMT
  <2>2. SubSeq(s, 1, b) \o SubSeq(s, b + 1, Len(s)) = SubSeq(s, 1, Len(s))
    BY <2>1, ConcatAdjacentSubSeq
  <2> QED
    BY <2>2, SubSeqFull
<1> QED
  BY <1>2, <1>3, <1>4, <1>5, <1>6

LEMMA PrefixOfConcat ==
    ASSUME NEW T, NEW s \in Seq(T), NEW r \in Seq(T)
    PROVE  IsPrefix(s, s \o r)
<1>1. /\ s \o r \in Seq(T) /\ Len(s \o r) = Len(s) + Len(r)
      /\ \A i \in 1..(Len(s) + Len(r)) : (s \o r)[i] = IF i <= Len(s) THEN s[i] ELSE r[i - Len(s)]
  BY ConcatProperties
<1>2. Len(s) \in Nat /\ Len(r) \in Nat
  BY LenProperties
<1>3. SubSeq(s, 1, Len(s)) = SubSeq(s \o r, 1, Len(s))
  BY <1>1, <1>2, SMT
<1> QED
  BY <1>1, <1>2, <1>3, SMT DEF IsPrefix

(***************************************************************************)
(* The inductive invariant                                                 *)
(***************************************************************************)
\* None is the last thing queued; a speech that is over was given all its text.
QueueInv ==
    /\ \A i \in DOMAIN queue : queue[i] = None => llm = "done" /\ i = Len(queue)
    /\ llm = "put" => got # 0
    /\ stop => interrupted
    /\ audio = "over" => tts = "done"
    /\ tts = "done" => buffer = <<>>
    /\ turn = "streamed" => audio = "over" /\ llm = "done"

\* Until the user barges in nothing ends before what it waits for.
EndInv ==
    ~interrupted =>
      /\ tts \in {"tail", "done"} => queue = <<>> /\ llm = "done"
      /\ audio # "receive" => tts = "done" /\ played = Len(pushed)

OnTheWay == pushed \o buffer \o TextOf(queue) \o InHand

\* The whole text is on its way, and what was taken for speaking is a part of it.
TextInv ==
    /\ tts \in {"get", "flush"} \/ ~interrupted => OnTheWay = text
    /\ \E rest \in Seq(Nat) : (pushed \o buffer) \o rest = text

IInv == TypeOK /\ QueueInv /\ EndInv /\ TextInv

LEMMA Cat ==
    /\ \A x, y \in Seq(Nat) : x \o y \in Seq(Nat)
    /\ \A x, y, z \in Seq(Nat) : (x \o y) \o z = x \o (y \o z)
    /\ \A x \in Seq(Nat) : x \o <<>> = x /\ <<>> \o x = x
    /\ <<>> \in Seq(Nat)
  BY ConcatLaws, Zenon

LEMMA Regroup ==
    ASSUME NEW x \in Seq(Nat), NEW y \in Seq(Nat), NEW z \in Seq(Nat)
    PROVE  (x \o y) \o z = x \o (y \o z)
  BY SMT

LEMMA Start == Init => IInv
<1> SUFFICES ASSUME Init PROVE IInv
  OBVIOUS
<1>1. /\ text = <<>> /\ buffer = <<>> /\ pushed = <<>> /\ queue = <<>> /\ llm = "next"
      /\ tts = "get" /\ turn = "running" /\ audio = "receive" /\ stop = FALSE /\ got = 0 /\ played = 0
      /\ why = "none" /\ interrupted = FALSE
  BY DEF Init
<1>2. Len(Deltas) \in Nat /\ Capacity \in Nat
  BY BridgeAssumption, LenProperties
<1>3. <<>> \in Seq(Nat) /\ <<>> \in Seq(0..Len(Deltas)) /\ Len(<<>>) = 0
  BY EmptySeq
<1>4. TypeOK
  <2>1. 0 \in 0..Len(Deltas) /\ 0 \in 0..Len(pushed) /\ Len(queue) <= Capacity
    BY <1>1, <1>2, <1>3, SMT
  <2> QED
    BY <1>1, <1>3, <2>1 DEF TypeOK
<1>5. QueueInv /\ EndInv
  <2>1. DOMAIN queue = {}
    BY <1>1, SMT
  <2> QED
    BY <1>1, <2>1 DEF QueueInv, EndInv
<1>6. TextInv
  <2>1. TextOf(queue) = <<>> /\ InHand = <<>>
    BY <1>1, TextOfEmpty DEF InHand
  <2>2. OnTheWay = text /\ (pushed \o buffer) \o <<>> = text
    BY <1>1, <2>1, Cat DEF OnTheWay
  <2> QED
    BY <2>2, Cat DEF TextInv
<1> QED
  BY <1>4, <1>5, <1>6 DEF IInv

(***************************************************************************)
(* Every step preserves it                                                 *)
(***************************************************************************)
\* A step of one _produce leaves the type of what the other one and the player have.
LEMMA LoopType ==
    ASSUME TypeOK, UNCHANGED <<tts, buffer, pushed, audio, played, stop, interrupted, turn>>,
           llm' \in {"next", "put", "sentinel", "done"}, why' \in {"none", "api", "unsupported"},
           text' \in Seq(Nat), got' \in 0..Len(Deltas),
           queue' \in Seq(0..Len(Deltas)), Len(queue') <= Capacity
    PROVE  TypeOK'
<1>1. /\ tts' \in {"get", "flush", "tail", "done"} /\ buffer' \in Seq(Nat)
      /\ pushed' \in Seq(Nat) /\ audio' \in {"receive", "done", "over"}
  BY Zenon DEF TypeOK
<1>2. /\ played' \in 0..Len(pushed') /\ stop' \in BOOLEAN /\ interrupted' \in BOOLEAN
      /\ turn' \in {"running", "streamed", "fallback", "failed"}
  BY Zenon DEF TypeOK
<1> QED
  BY <1>1, <1>2, Zenon DEF TypeOK

LEMMA TtsType ==
    ASSUME TypeOK, UNCHANGED <<llm, why, text, got, audio, played, stop, interrupted, turn>>,
           tts' \in {"get", "flush", "tail", "done"}, buffer' \in Seq(Nat),
           pushed' \in Seq(Nat), played \in 0..Len(pushed'),
           queue' \in Seq(0..Len(Deltas)), Len(queue') <= Capacity
    PROVE  TypeOK'
<1>1. /\ llm' \in {"next", "put", "sentinel", "done"} /\ why' \in {"none", "api", "unsupported"}
      /\ text' \in Seq(Nat) /\ got' \in 0..Len(Deltas)
  BY Zenon DEF TypeOK
<1>2. /\ audio' \in {"receive", "done", "over"} /\ stop' \in BOOLEAN /\ interrupted' \in BOOLEAN
      /\ turn' \in {"running", "streamed", "fallback", "failed"}
  BY Zenon DEF TypeOK
<1>3. played' \in 0..Len(pushed')
  BY Zenon
<1> QED
  BY <1>1, <1>2, <1>3, Zenon DEF TypeOK

\* Steps that move no text.
LEMMA TextFrame ==
    TextInv /\ UNCHANGED <<pushed, buffer, queue, text>> /\ InHand' = InHand
      /\ (tts' \in {"get", "flush"} \/ ~interrupted' => tts \in {"get", "flush"} \/ ~interrupted)
    => TextInv'
  BY DEF TextInv, OnTheWay, TextOf, Carried

\* A delta joins the text and is in hand (loop.py:237-241).
LEMMA DeltaStep == IInv /\ Delta => IInv'
<1> SUFFICES ASSUME IInv, Delta PROVE IInv'
  OBVIOUS
<1> USE DEF loopVars, ttsVars, audioVars
<1>1. /\ llm = "next" /\ got < Len(Deltas) /\ got' = got + 1 /\ llm' = "put"
      /\ text' = text \o Deltas[got + 1]
      /\ why' = why /\ queue' = queue /\ tts' = tts /\ buffer' = buffer /\ pushed' = pushed
      /\ audio' = audio /\ played' = played /\ stop' = stop /\ interrupted' = interrupted
      /\ turn' = turn
  BY DEF Delta
<1>2. TypeOK /\ QueueInv /\ EndInv /\ TextInv
  BY DEF IInv
<1>3. Len(Deltas) \in Nat /\ got' \in 0..Len(Deltas) /\ got' # 0
  BY <1>1, <1>2, BridgeAssumption, LenProperties, SMT DEF TypeOK
<1>4. Deltas[got'] \in Seq(Nat)
  BY <1>3, CarriedType DEF None
<1>5. TypeOK'
  <2>1. text' \in Seq(Nat)
    <3>1. text \in Seq(Nat)
      BY <1>2 DEF TypeOK
    <3>2. text' = text \o Deltas[got']
      BY <1>1
    <3> QED
      BY <1>4, <3>1, <3>2, SMT
  <2>2. queue' \in Seq(0..Len(Deltas)) /\ Len(queue') <= Capacity
    BY <1>1, <1>2, Zenon DEF TypeOK
  <2>3. why' \in {"none", "api", "unsupported"} /\ llm' \in {"next", "put", "sentinel", "done"}
    BY <1>1, <1>2, Zenon DEF TypeOK
  <2> QED
    BY <1>1, <1>2, <1>3, <2>1, <2>2, <2>3, LoopType, Zenon
<1>6. QueueInv' /\ EndInv'
  BY <1>1, <1>2, <1>3 DEF QueueInv, EndInv
<1>7. TextInv'
  <2>1. /\ pushed \in Seq(Nat) /\ buffer \in Seq(Nat) /\ TextOf(queue) \in Seq(Nat)
        /\ text \in Seq(Nat)
    BY <1>2, TextOfType DEF TypeOK
  <2>2. OnTheWay = pushed \o buffer \o TextOf(queue)
    BY <1>1, <2>1, Cat DEF OnTheWay, InHand
  <2>3. OnTheWay' = pushed \o buffer \o TextOf(queue) \o Deltas[got']
    BY <1>1 DEF OnTheWay, InHand, TextOf, Carried
  <2>4. text' = text \o Deltas[got']
    BY <1>1
  <2>5. tts' \in {"get", "flush"} \/ ~interrupted' => OnTheWay' = text'
    BY <1>1, <1>2, <2>2, <2>3, <2>4 DEF TextInv
  <2>6. PICK rest \in Seq(Nat) : (pushed \o buffer) \o rest = text
    BY <1>2 DEF TextInv
  <2>7. rest \o Deltas[got'] \in Seq(Nat) /\ (pushed \o buffer) \o (rest \o Deltas[got']) = text'
    <3>1. pushed \o buffer \in Seq(Nat) /\ rest \o Deltas[got'] \in Seq(Nat)
      BY <1>4, <2>1, SMT
    <3>2. ((pushed \o buffer) \o rest) \o Deltas[got'] = (pushed \o buffer) \o (rest \o Deltas[got'])
      <4>1. /\ pushed \o buffer \in Seq(Nat) /\ rest \in Seq(Nat)
            /\ Deltas[got'] \in Seq(Nat)
        BY <1>4, <3>1, Zenon
      <4> QED
        BY <4>1, Regroup, Zenon
    <3> QED
      BY <2>4, <2>6, <3>1, <3>2
  <2> QED
    BY <1>1, <2>5, <2>7 DEF TextInv
<1> QED
  BY <1>5, <1>6, <1>7 DEF IInv

\* What was in hand is on the queue.
LEMMA PutStep == IInv /\ Put => IInv'
<1> SUFFICES ASSUME IInv, Put PROVE IInv'
  OBVIOUS
<1> USE DEF loopVars, ttsVars, audioVars
<1>1. /\ llm = "put" /\ Len(queue) < Capacity /\ queue' = Append(queue, got) /\ llm' = "next"
      /\ why' = why /\ text' = text /\ got' = got /\ tts' = tts /\ buffer' = buffer
      /\ pushed' = pushed /\ audio' = audio /\ played' = played /\ stop' = stop
      /\ interrupted' = interrupted /\ turn' = turn
  BY DEF Put
<1>2. TypeOK /\ QueueInv /\ EndInv /\ TextInv
  BY DEF IInv
<1>3. got # None /\ got \in 0..Len(Deltas) /\ queue \in Seq(0..Len(Deltas))
  BY <1>1, <1>2 DEF QueueInv, TypeOK, None
<1>4. /\ queue' \in Seq(0..Len(Deltas)) /\ Len(queue') = Len(queue) + 1
      /\ queue'[Len(queue) + 1] = got /\ \A i \in 1..Len(queue) : queue'[i] = queue[i]
  BY <1>1, <1>3, AppendProperties
<1>5. Len(queue) \in Nat /\ DOMAIN queue = 1..Len(queue) /\ DOMAIN queue' = 1..(Len(queue) + 1)
  BY <1>3, <1>4, LenProperties
<1>6. TypeOK'
  <2>1. Len(queue') <= Capacity
    BY <1>1, <1>4, <1>5, BridgeAssumption, SMT
  <2>2. /\ text' \in Seq(Nat) /\ got' \in 0..Len(Deltas)
        /\ why' \in {"none", "api", "unsupported"} /\ llm' \in {"next", "put", "sentinel", "done"}
    BY <1>1, <1>2, Zenon DEF TypeOK
  <2> QED
    BY <1>1, <1>2, <1>4, <2>1, <2>2, LoopType, Zenon
<1>7. QueueInv' /\ EndInv'
  <2>1. \A i \in DOMAIN queue' : queue'[i] # None
    <3>1. ASSUME NEW i \in DOMAIN queue' PROVE queue'[i] # None
      <4>1. CASE i = Len(queue) + 1
        BY <1>3, <1>4, <4>1
      <4>2. CASE i # Len(queue) + 1
        <5>1. i \in 1..Len(queue)
          BY <1>5, <4>2, SMT
        <5> QED
          BY <1>1, <1>2, <1>4, <1>5, <5>1 DEF QueueInv
      <4> QED
        BY <4>1, <4>2
    <3> QED
      BY <3>1
  <2> QED
    BY <1>1, <1>2, <2>1 DEF QueueInv, EndInv
<1>8. TextInv'
  <2>1. /\ pushed \in Seq(Nat) /\ buffer \in Seq(Nat) /\ TextOf(queue) \in Seq(Nat)
        /\ text \in Seq(Nat) /\ Carried(got) \in Seq(Nat) /\ Carried(got) = Deltas[got]
    BY <1>2, <1>3, TextOfType, CarriedType DEF TypeOK
  <2>2. OnTheWay = pushed \o buffer \o TextOf(queue) \o Deltas[got]
    BY <1>1 DEF OnTheWay, InHand
  <2>3. TextOf(queue)' = TextOf(queue) \o Deltas[got]
    <3>1. TextOf(queue') = TextOf(queue) \o Deltas[got]
      BY <1>1, <1>3, <2>1, TextOfAppend
    <3> QED
      BY <3>1 DEF TextOf, Carried
  <2>4. OnTheWay' = pushed \o buffer \o (TextOf(queue) \o Deltas[got]) \o <<>>
    BY <1>1, <2>3 DEF OnTheWay, InHand
  <2>5. OnTheWay' = OnTheWay
    <3>1. pushed \o buffer \in Seq(Nat) /\ TextOf(queue) \o Deltas[got] \in Seq(Nat)
      BY <2>1, SMT
    <3>2. OnTheWay' = (pushed \o buffer) \o (TextOf(queue) \o Deltas[got])
      BY <2>4, <3>1, SMT
    <3>3. (pushed \o buffer) \o (TextOf(queue) \o Deltas[got])
            = ((pushed \o buffer) \o TextOf(queue)) \o Deltas[got]
      <4>1. Deltas[got] \in Seq(Nat) /\ TextOf(queue) \in Seq(Nat)
        BY <2>1
      <4> QED
        BY <3>1, <4>1, Regroup, Zenon
    <3> QED
      BY <2>2, <3>2, <3>3
  <2> QED
    BY <1>1, <1>2, <2>5 DEF TextInv
<1> QED
  BY <1>6, <1>7, <1>8 DEF IInv

LEMMA StreamEndsStep == IInv /\ StreamEnds => IInv'
<1> SUFFICES ASSUME IInv, StreamEnds PROVE IInv'
  OBVIOUS
<1> USE DEF loopVars, ttsVars, audioVars
<1>1. /\ llm = "next" /\ llm' = "sentinel" /\ why' \in {"none", "api", "unsupported"}
      /\ text' = text /\ got' = got /\ queue' = queue /\ tts' = tts /\ buffer' = buffer
      /\ pushed' = pushed /\ audio' = audio /\ played' = played /\ stop' = stop
      /\ interrupted' = interrupted /\ turn' = turn
  BY DEF StreamEnds
<1>2. TypeOK /\ QueueInv /\ EndInv /\ TextInv
  BY DEF IInv
<1>3. TypeOK'
  <2>1. /\ text' \in Seq(Nat) /\ got' \in 0..Len(Deltas)
        /\ queue' \in Seq(0..Len(Deltas)) /\ Len(queue') <= Capacity
    BY <1>1, <1>2, Zenon DEF TypeOK
  <2>2. llm' \in {"next", "put", "sentinel", "done"}
    BY <1>1
  <2> QED
    BY <1>1, <1>2, <2>1, <2>2, LoopType, Zenon
<1>4. QueueInv' /\ EndInv'
  BY <1>1, <1>2 DEF QueueInv, EndInv
<1>5. InHand' = InHand
  BY <1>1 DEF InHand
<1>6. TextInv'
  BY <1>1, <1>2, <1>5, TextFrame
<1> QED
  BY <1>3, <1>4, <1>6 DEF IInv

LEMMA SentinelStep == IInv /\ Sentinel => IInv'
<1> SUFFICES ASSUME IInv, Sentinel PROVE IInv'
  OBVIOUS
<1> USE DEF loopVars, ttsVars, audioVars
<1>1. /\ llm = "sentinel" /\ Len(queue) < Capacity /\ queue' = Append(queue, None)
      /\ llm' = "done" /\ why' = why /\ text' = text /\ got' = got /\ tts' = tts
      /\ buffer' = buffer /\ pushed' = pushed /\ audio' = audio /\ played' = played
      /\ stop' = stop /\ interrupted' = interrupted /\ turn' = turn
  BY DEF Sentinel
<1>2. TypeOK /\ QueueInv /\ EndInv /\ TextInv
  BY DEF IInv
<1>3. None \in 0..Len(Deltas) /\ queue \in Seq(0..Len(Deltas))
  BY <1>2, BridgeAssumption, LenProperties, SMT DEF TypeOK, None
<1>4. /\ queue' \in Seq(0..Len(Deltas)) /\ Len(queue') = Len(queue) + 1
      /\ \A i \in 1..Len(queue) : queue'[i] = queue[i]
  BY <1>1, <1>3, AppendProperties
<1>5. Len(queue) \in Nat /\ DOMAIN queue = 1..Len(queue) /\ DOMAIN queue' = 1..(Len(queue) + 1)
  BY <1>3, <1>4, LenProperties
<1>6. TypeOK'
  <2>1. Len(queue') <= Capacity
    BY <1>1, <1>4, <1>5, BridgeAssumption, SMT
  <2>2. /\ text' \in Seq(Nat) /\ got' \in 0..Len(Deltas)
        /\ why' \in {"none", "api", "unsupported"} /\ llm' \in {"next", "put", "sentinel", "done"}
    BY <1>1, <1>2, Zenon DEF TypeOK
  <2> QED
    BY <1>1, <1>2, <1>4, <2>1, <2>2, LoopType, Zenon
<1>7. QueueInv' /\ EndInv'
  <2>1. ASSUME NEW i \in DOMAIN queue', queue'[i] = None PROVE i = Len(queue')
    <3>1. CASE i = Len(queue) + 1
      BY <1>4, <3>1
    <3>2. CASE i # Len(queue) + 1
      <4>1. i \in 1..Len(queue)
        BY <1>5, <3>2, SMT
      <4> QED
        BY <1>1, <1>2, <1>4, <1>5, <2>1, <4>1 DEF QueueInv
    <3> QED
      BY <3>1, <3>2
  <2> QED
    BY <1>1, <1>2, <2>1 DEF QueueInv, EndInv
<1>8. TextInv'
  <2>1. /\ pushed \o buffer \in Seq(Nat) /\ TextOf(queue) \in Seq(Nat)
        /\ pushed \o buffer \o TextOf(queue) \in Seq(Nat)
    BY <1>2, <1>3, TextOfType, Cat DEF TypeOK
  <2>2. TextOf(queue)' = TextOf(queue)
    <3>1. TextOf(queue') = TextOf(queue) \o <<>>
      BY <1>1, <1>3, TextOfAppend DEF Carried
    <3> QED
      BY <2>1, <3>1, Cat DEF TextOf, Carried
  <2>3. OnTheWay' = OnTheWay
    BY <1>1, <2>2 DEF OnTheWay, InHand
  <2> QED
    BY <1>1, <1>2, <2>3 DEF TextInv
<1> QED
  BY <1>6, <1>7, <1>8 DEF IInv

\* The next delta goes from the queue to the buffer; None, or after a barge-in any item,
\* ends the taking (tts.py:258-264).
LEMMA TakeStep == IInv /\ Take => IInv'
<1> SUFFICES ASSUME IInv, Take PROVE IInv'
  OBVIOUS
<1> USE DEF loopVars, ttsVars, audioVars
<1>1. /\ tts = "get" /\ queue # <<>> /\ queue' = Tail(queue)
      /\ llm' = llm /\ why' = why /\ text' = text /\ got' = got /\ pushed' = pushed
      /\ audio' = audio /\ played' = played /\ stop' = stop /\ interrupted' = interrupted
      /\ turn' = turn
  BY DEF Take
<1>2. TypeOK /\ QueueInv /\ EndInv /\ TextInv
  BY DEF IInv
<1>3. /\ queue \in Seq(0..Len(Deltas)) /\ Head(queue) \in 0..Len(Deltas)
      /\ queue' \in Seq(0..Len(Deltas)) /\ Len(queue') = Len(queue) - 1
      /\ Head(queue) = queue[1] /\ \A i \in 1..Len(queue') : queue'[i] = queue[i + 1]
      /\ TextOf(queue) = Carried(Head(queue)) \o TextOf(Tail(queue))
  <2>1. queue \in Seq(0..Len(Deltas))
    BY <1>2 DEF TypeOK
  <2>2. Head(queue) = queue[1]
    BY <1>1, <2>1, SMT
  <2> QED
    BY <1>1, <2>1, <2>2, HeadTailProperties, TextOfTail
<1>4. /\ Len(queue) \in Nat /\ Len(queue) # 0 /\ Len(queue') \in Nat
      /\ DOMAIN queue = 1..Len(queue) /\ DOMAIN queue' = 1..Len(queue')
  BY <1>1, <1>3, LenProperties, EmptySeq
<1>5. /\ pushed \in Seq(Nat) /\ buffer \in Seq(Nat) /\ text \in Seq(Nat)
      /\ Carried(Head(queue)) \in Seq(Nat) /\ TextOf(queue') \in Seq(Nat)
  BY <1>2, <1>3, CarriedType, TextOfType DEF TypeOK
<1>6. \A i \in DOMAIN queue' : queue'[i] = None => llm = "done" /\ i = Len(queue')
  <2>1. ASSUME NEW i \in DOMAIN queue', queue'[i] = None PROVE llm = "done" /\ i = Len(queue')
    <3>1. i + 1 \in DOMAIN queue /\ queue[i + 1] = None
      <4>1. queue'[i] = queue[i + 1]
        BY <1>3, <1>4, <2>1, Zenon
      <4>2. \A n \in Nat : \A k \in 1..(n - 1) : k + 1 \in 1..n
        BY SMT
      <4>3. i \in 1..(Len(queue) - 1)
        BY <1>3, <1>4, <2>1, Zenon
      <4>4. i + 1 \in 1..Len(queue)
        BY <1>4, <4>2, <4>3, Zenon
      <4> QED
        BY <1>4, <2>1, <4>1, <4>4, Zenon
    <3>2. llm = "done" /\ i + 1 = Len(queue)
      BY <1>2, <3>1 DEF QueueInv
    <3> QED
      BY <1>3, <1>4, <3>2, SMT
  <2> QED
    BY <2>1
<1>7. Len(queue') <= Capacity
  BY <1>2, <1>3, <1>4, BridgeAssumption, SMT DEF TypeOK
<1>8. TextOf(queue)' = TextOf(queue') /\ InHand' = InHand /\ InHand \in Seq(Nat)
  <2>1. llm = "put" => Deltas[got] \in Seq(Nat)
    BY <1>2, CarriedType DEF TypeOK, QueueInv, None
  <2> QED
    BY <1>1, <2>1, Cat DEF TextOf, Carried, InHand
<1>9. OnTheWay = text
  BY <1>1, <1>2 DEF TextInv
<1>10. CASE Head(queue) = None \/ stop
  <2>1. tts' = "tail" /\ buffer' = buffer
    BY <1>1, <1>10 DEF Take
  <2>2. TypeOK'
    <3>1. /\ buffer' \in Seq(Nat) /\ pushed' \in Seq(Nat) /\ played \in 0..Len(pushed')
          /\ tts' \in {"get", "flush", "tail", "done"}
      BY <1>1, <1>2, <2>1, Zenon DEF TypeOK
    <3> QED
      BY <1>1, <1>2, <1>3, <1>7, <3>1, TtsType, Zenon
  <2>3. ~interrupted => Head(queue) = None /\ queue' = <<>> /\ llm = "done"
    <3>1. ASSUME ~interrupted PROVE Head(queue) = None /\ queue' = <<>> /\ llm = "done"
      <4>1. Head(queue) = None
        BY <1>2, <1>10, <3>1 DEF QueueInv
      <4>2. 1 \in DOMAIN queue /\ queue[1] = None
        BY <1>3, <1>4, <4>1, SMT
      <4>3. llm = "done" /\ Len(queue) = 1
        BY <1>2, <4>2 DEF QueueInv
      <4>4. Len(queue') = 0
        BY <1>3, <4>3, SMT
      <4> QED
        BY <1>3, <4>1, <4>3, <4>4, EmptySeq
    <3> QED
      BY <3>1
  <2>4. QueueInv' /\ EndInv'
    BY <1>1, <1>2, <1>6, <2>1, <2>3 DEF QueueInv, EndInv
  <2>5. TextInv'
    <3>1. ~interrupted => OnTheWay' = OnTheWay
      <4>1. ASSUME ~interrupted PROVE TextOf(queue) = TextOf(queue')
        BY <1>1, <1>3, <1>5, <2>3, <4>1, Cat DEF Carried
      <4> QED
        BY <1>1, <1>8, <2>1, <4>1 DEF OnTheWay
    <3> QED
      BY <1>1, <1>2, <2>1, <3>1 DEF TextInv
  <2> QED
    BY <2>2, <2>4, <2>5 DEF IInv
<1>11. CASE ~(Head(queue) = None \/ stop)
  <2>1. tts' = "flush" /\ buffer' = buffer \o Carried(Head(queue))
    BY <1>1, <1>11 DEF Take, Carried
  <2>2. TypeOK'
    <3>1. buffer' \in Seq(Nat)
      BY <1>5, <2>1, SMT
    <3>2. /\ pushed' \in Seq(Nat) /\ played \in 0..Len(pushed')
          /\ tts' \in {"get", "flush", "tail", "done"}
      BY <1>1, <1>2, <2>1, Zenon DEF TypeOK
    <3> QED
      BY <1>1, <1>2, <1>3, <1>7, <3>1, <3>2, TtsType, Zenon
  <2>3. QueueInv' /\ EndInv'
    BY <1>1, <1>2, <1>6, <2>1 DEF QueueInv, EndInv
  <2>4. pushed \o (buffer \o Carried(Head(queue))) \o TextOf(queue')
          = pushed \o buffer \o (Carried(Head(queue)) \o TextOf(queue'))
    <3>1. pushed \o (buffer \o Carried(Head(queue))) = (pushed \o buffer) \o Carried(Head(queue))
      <4>1. /\ pushed \in Seq(Nat) /\ buffer \in Seq(Nat)
            /\ Carried(Head(queue)) \in Seq(Nat)
        BY <1>5, Zenon
      <4>2. (pushed \o buffer) \o Carried(Head(queue))
              = pushed \o (buffer \o Carried(Head(queue)))
        BY <4>1, Regroup, Zenon
      <4> QED
        BY <4>2, Zenon
    <3>2. pushed \o buffer \in Seq(Nat)
      BY <1>5, SMT
    <3>3. ((pushed \o buffer) \o Carried(Head(queue))) \o TextOf(queue')
            = (pushed \o buffer) \o (Carried(Head(queue)) \o TextOf(queue'))
      <4>1. /\ pushed \o buffer \in Seq(Nat) /\ Carried(Head(queue)) \in Seq(Nat)
            /\ TextOf(queue') \in Seq(Nat)
        BY <1>5, <3>2, Zenon
      <4> QED
        BY <4>1, Regroup, Zenon
    <3> QED
      BY <3>1, <3>3
  <2>5. OnTheWay' = OnTheWay
    <3>1. OnTheWay' = pushed \o (buffer \o Carried(Head(queue))) \o TextOf(queue') \o InHand
      BY <1>1, <1>8, <2>1 DEF OnTheWay
    <3>2. OnTheWay = pushed \o buffer \o (Carried(Head(queue)) \o TextOf(queue')) \o InHand
      BY <1>1, <1>3 DEF OnTheWay
    <3> QED
      BY <2>4, <3>1, <3>2
  <2>6. \E rest \in Seq(Nat) : (pushed' \o buffer') \o rest = text'
    <3>1. pushed' \o buffer' \in Seq(Nat) /\ TextOf(queue') \o InHand \in Seq(Nat)
      BY <1>1, <1>5, <1>8, <2>1, Cat
    <3>2. (pushed' \o buffer') \o (TextOf(queue') \o InHand) = OnTheWay'
      <4>1. OnTheWay' = ((pushed' \o buffer') \o TextOf(queue')) \o InHand
        BY <1>8 DEF OnTheWay
      <4>2. ((pushed' \o buffer') \o TextOf(queue')) \o InHand
              = (pushed' \o buffer') \o (TextOf(queue') \o InHand)
        <5>1. pushed' \o buffer' \in Seq(Nat) /\ TextOf(queue') \in Seq(Nat) /\ InHand \in Seq(Nat)
          BY <1>5, <1>8, <3>1
        <5> QED
          BY <5>1, Regroup, Zenon
      <4> QED
        BY <4>1, <4>2
    <3> QED
      BY <1>1, <1>9, <2>5, <3>1, <3>2
  <2> QED
    BY <1>1, <1>9, <2>2, <2>3, <2>5, <2>6 DEF TextInv, IInv
<1> QED
  BY <1>10, <1>11

\* A sentence goes from the buffer to Cartesia.
LEMMA FlushStep == IInv /\ Flush => IInv'
<1> SUFFICES ASSUME IInv, Flush PROVE IInv'
  OBVIOUS
<1> USE DEF loopVars, ttsVars, audioVars
<1>1. /\ tts = "flush" /\ queue' = queue
      /\ llm' = llm /\ why' = why /\ text' = text /\ got' = got
      /\ audio' = audio /\ played' = played /\ stop' = stop /\ interrupted' = interrupted
      /\ turn' = turn
  BY DEF Flush
<1>2. TypeOK /\ QueueInv /\ EndInv /\ TextInv
  BY DEF IInv
<1>3. pushed \in Seq(Nat) /\ buffer \in Seq(Nat) /\ Boundary(buffer) \in 0..Len(buffer)
  BY <1>2, BoundaryFirst DEF TypeOK
<1>4. InHand' = InHand
  BY <1>1 DEF InHand
<1>5. CASE Boundary(buffer) = 0
  <2>1. tts' = "get" /\ buffer' = buffer /\ pushed' = pushed
    BY <1>5 DEF Flush
  <2>2. TypeOK'
    <3>1. /\ buffer' \in Seq(Nat) /\ pushed' \in Seq(Nat) /\ played \in 0..Len(pushed')
          /\ queue' \in Seq(0..Len(Deltas)) /\ Len(queue') <= Capacity
          /\ tts' \in {"get", "flush", "tail", "done"}
      BY <1>1, <1>2, <2>1, Zenon DEF TypeOK
    <3> QED
      BY <1>1, <1>2, <3>1, TtsType, Zenon
  <2>3. QueueInv' /\ EndInv'
    BY <1>1, <1>2, <2>1 DEF QueueInv, EndInv
  <2>4. TextInv'
    BY <1>1, <1>2, <1>4, <2>1, TextFrame
  <2> QED
    BY <2>2, <2>3, <2>4 DEF IInv
<1>6. CASE Boundary(buffer) # 0
  <2> DEFINE b == Boundary(buffer)
             first == SubSeq(buffer, 1, b)
             rest == SubSeq(buffer, b + 1, Len(buffer))
  <2>1. tts' = tts /\ pushed' = pushed \o first /\ buffer' = rest
    BY <1>6 DEF Flush
  <2>2. first \in Seq(Nat) /\ rest \in Seq(Nat) /\ first \o rest = buffer
    BY <1>3, Split
  <2> HIDE DEF first, rest
  <2>3. pushed' \o buffer' = pushed \o buffer /\ pushed' \in Seq(Nat)
    <3>1. pushed \o first \in Seq(Nat)
      BY <1>3, <2>2, ConcatLaws, Zenon
    <3>2. (pushed \o first) \o rest = pushed \o (first \o rest)
      <4>1. pushed \in Seq(Nat) /\ first \in Seq(Nat) /\ rest \in Seq(Nat)
        BY <1>3, <2>2, Zenon
      <4> QED
        BY <4>1, Regroup, Zenon
    <3> QED
      BY <2>1, <2>2, <3>1, <3>2, Zenon
  <2>4. played \in 0..Len(pushed')
    <3>1. Len(pushed') = Len(pushed) + Len(first) /\ Len(pushed) \in Nat /\ Len(first) \in Nat
      BY <1>3, <2>1, <2>2, ConcatProperties, LenProperties
    <3> QED
      BY <1>2, <3>1, SMT DEF TypeOK
  <2>5. TypeOK'
    <3>1. /\ queue' \in Seq(0..Len(Deltas)) /\ Len(queue') <= Capacity
          /\ tts' \in {"get", "flush", "tail", "done"}
      BY <1>1, <1>2, <2>1, Zenon DEF TypeOK
    <3> QED
      BY <1>1, <1>2, <2>1, <2>2, <2>3, <2>4, <3>1, TtsType, Zenon
  <2>6. QueueInv' /\ EndInv'
    BY <1>1, <1>2, <2>1 DEF QueueInv, EndInv
  <2>7. TextInv'
    <3>1. OnTheWay' = OnTheWay
      BY <1>1, <1>4, <2>3 DEF OnTheWay, TextOf, Carried
    <3> QED
      BY <1>1, <1>2, <2>1, <2>3, <3>1 DEF TextInv
  <2> QED
    BY <2>5, <2>6, <2>7 DEF IInv
<1> QED
  BY <1>5, <1>6

LEMMA PushTailStep == IInv /\ PushTail => IInv'
<1> SUFFICES ASSUME IInv, PushTail PROVE IInv'
  OBVIOUS
<1> USE DEF loopVars, ttsVars, audioVars
<1>1. /\ tts = "tail" /\ tts' = "done" /\ pushed' = pushed \o buffer /\ buffer' = <<>>
      /\ llm' = llm /\ why' = why /\ text' = text /\ got' = got /\ queue' = queue
      /\ audio' = audio /\ played' = played /\ stop' = stop /\ interrupted' = interrupted
      /\ turn' = turn
  BY DEF PushTail
<1>2. TypeOK /\ QueueInv /\ EndInv /\ TextInv
  BY DEF IInv
<1>3. /\ pushed \in Seq(Nat) /\ buffer \in Seq(Nat) /\ pushed' \in Seq(Nat) /\ buffer' \in Seq(Nat)
      /\ pushed' \o buffer' = pushed \o buffer
  BY <1>1, <1>2, Cat DEF TypeOK
<1>4. played \in 0..Len(pushed')
  <2>1. Len(pushed') = Len(pushed) + Len(buffer) /\ Len(pushed) \in Nat /\ Len(buffer) \in Nat
    BY <1>1, <1>3, ConcatProperties, LenProperties
  <2> QED
    BY <1>2, <2>1, SMT DEF TypeOK
<1>5. TypeOK'
  <2>1. /\ queue' \in Seq(0..Len(Deltas)) /\ Len(queue') <= Capacity
        /\ tts' \in {"get", "flush", "tail", "done"}
    BY <1>1, <1>2, Zenon DEF TypeOK
  <2> QED
    BY <1>1, <1>2, <1>3, <1>4, <2>1, TtsType, Zenon
<1>6. QueueInv' /\ EndInv'
  BY <1>1, <1>2 DEF QueueInv, EndInv
<1>7. TextInv'
  <2>1. OnTheWay' = OnTheWay
    BY <1>1, <1>3 DEF OnTheWay, TextOf, Carried, InHand
  <2> QED
    BY <1>1, <1>2, <1>3, <2>1 DEF TextInv
<1> QED
  BY <1>5, <1>6, <1>7 DEF IInv

\* The audio touches no text, and without a barge-in it ends only when all was played.
LEMMA AudioStep == IInv /\ (Play \/ Silence \/ SpeechEnds) => IInv'
<1> SUFFICES ASSUME IInv, Play \/ Silence \/ SpeechEnds PROVE IInv'
  OBVIOUS
<1> USE DEF loopVars, ttsVars, audioVars
<1>1. TypeOK /\ QueueInv /\ EndInv /\ TextInv
  BY DEF IInv
<1>2. /\ llm' = llm /\ why' = why /\ text' = text /\ got' = got /\ queue' = queue /\ tts' = tts
      /\ buffer' = buffer /\ pushed' = pushed /\ interrupted' = interrupted /\ turn' = turn
      /\ stop' \in {stop, FALSE} /\ audio' \in {"receive", "done", "over"}
  BY DEF Play, Silence, SpeechEnds
<1>3. Len(pushed) \in Nat /\ played' \in 0..Len(pushed)
  <2>1. Len(pushed) \in Nat /\ played \in 0..Len(pushed)
    BY <1>1, LenProperties DEF TypeOK
  <2>2. CASE Play
    <3>1. played' = played + 1 /\ played < Len(pushed)
      BY <2>2 DEF Play
    <3> QED
      BY <2>1, <3>1, SMT
  <2>3. CASE Silence \/ SpeechEnds
    BY <2>1, <2>3 DEF Silence, SpeechEnds
  <2> QED
    BY <2>2, <2>3
<1>4. TypeOK'
  BY <1>1, <1>2, <1>3 DEF TypeOK
<1>5. QueueInv'
  BY <1>1, <1>2 DEF QueueInv, Play, Silence, SpeechEnds
<1>6. EndInv'
  <2>1. CASE Play
    BY <1>1, <1>2, <2>1 DEF EndInv, Play, QueueInv
  <2>2. CASE Silence
    BY <1>1, <1>2, <2>2 DEF EndInv, Silence
  <2>3. CASE SpeechEnds
    BY <1>1, <1>2, <2>3 DEF EndInv, SpeechEnds
  <2> QED
    BY <2>1, <2>2, <2>3
<1>7. InHand' = InHand
  BY <1>2 DEF InHand
<1>8. TextInv'
  BY <1>1, <1>2, <1>7, TextFrame
<1> QED
  BY <1>4, <1>5, <1>6, <1>8 DEF IInv

LEMMA BargeInStep == IInv /\ BargeIn => IInv'
<1> SUFFICES ASSUME IInv, BargeIn PROVE IInv'
  OBVIOUS
<1> USE DEF loopVars, ttsVars, audioVars
<1>1. TypeOK /\ QueueInv /\ TextInv
  BY DEF IInv
<1>2. /\ llm' = llm /\ why' = why /\ text' = text /\ got' = got /\ queue' = queue /\ tts' = tts
      /\ buffer' = buffer /\ pushed' = pushed /\ audio' = audio /\ played' = played
      /\ stop' = TRUE /\ interrupted' = TRUE /\ turn' = turn
  BY DEF BargeIn
<1>3. TypeOK'
  BY <1>1, <1>2 DEF TypeOK
<1>4. QueueInv' /\ EndInv'
  BY <1>1, <1>2 DEF QueueInv, EndInv
<1>5. InHand' = InHand
  BY <1>2 DEF InHand
<1>6. TextInv'
  BY <1>1, <1>2, <1>5, TextFrame
<1> QED
  BY <1>3, <1>4, <1>6 DEF IInv

LEMMA GatheredStep == IInv /\ (Gathered \/ UNCHANGED vars) => IInv'
<1> SUFFICES ASSUME IInv, Gathered \/ UNCHANGED vars PROVE IInv'
  OBVIOUS
<1> USE DEF loopVars, ttsVars, audioVars, vars
<1>1. TypeOK /\ QueueInv /\ EndInv /\ TextInv
  BY DEF IInv
<1>2. /\ llm' = llm /\ why' = why /\ text' = text /\ got' = got /\ queue' = queue /\ tts' = tts
      /\ buffer' = buffer /\ pushed' = pushed /\ audio' = audio /\ played' = played
      /\ stop' = stop /\ interrupted' = interrupted
      /\ turn' \in {turn, "streamed", "fallback", "failed"}
      /\ turn' # turn /\ turn' = "streamed" => audio = "over" /\ llm = "done"
  BY DEF Gathered
<1>3. TypeOK'
  BY <1>1, <1>2 DEF TypeOK
<1>4. QueueInv' /\ EndInv'
  BY <1>1, <1>2 DEF QueueInv, EndInv
<1>5. InHand' = InHand
  BY <1>2 DEF InHand
<1>6. TextInv'
  BY <1>1, <1>2, <1>5, TextFrame
<1> QED
  BY <1>3, <1>4, <1>6 DEF IInv

LEMMA Step == IInv /\ [Next]_vars => IInv'
  BY DeltaStep, PutStep, StreamEndsStep, SentinelStep, TakeStep, FlushStep, PushTailStep,
   AudioStep, BargeInStep, GatheredStep DEF Next, Produce, PushSentences, Consume

LEMMA Invariance == Spec => []IInv
  BY Start, Step, PTL DEF Spec

\* The state of a streamed turn keeps its type, for any capacity: the queue never holds more
\* than its maxsize and no more audio is played than text was pushed (loop.py:235,
\* tts.py:277-283).
THEOREM TypeCorrect == Spec => []TypeOK
<1>1. IInv => TypeOK
  BY DEF IInv
<1> QED
  BY <1>1, Invariance, PTL

\* "tee the LLM token stream to both" (loop.py:233): no delta is lost, doubled or reordered
\* between the stream and Cartesia, however the two coroutines interleave and wherever the
\* queue fills, and after a barge-in what was pushed is still the beginning of the text.
THEOREM NothingLost == Spec => []NothingLostOnTheWay
<1>1. IInv => NothingLostOnTheWay
  <2> SUFFICES ASSUME IInv PROVE NothingLostOnTheWay
    OBVIOUS
  <2>1. TypeOK /\ TextInv
    BY DEF IInv
  <2>2. pushed \in Seq(Nat) /\ buffer \in Seq(Nat)
    BY <2>1 DEF TypeOK
  <2>3. PICK rest \in Seq(Nat) : (pushed \o buffer) \o rest = text
    BY <2>1 DEF TextInv
  <2>4. buffer \o rest \in Seq(Nat) /\ pushed \o (buffer \o rest) = text
    <3>1. buffer \o rest \in Seq(Nat)
      BY <2>2, ConcatLaws, Zenon
    <3>2. (pushed \o buffer) \o rest = pushed \o (buffer \o rest)
      BY <2>2, Regroup, Zenon
    <3> QED
      BY <2>3, <3>1, <3>2, Zenon
  <2>5. IsPrefix(pushed, text)
    BY <2>2, <2>4, PrefixOfConcat
  <2>6. (interrupted /\ tts \in {"tail", "done"}) \/ OnTheWay = text
    BY <2>1 DEF TextInv, TypeOK
  <2> QED
    BY <2>5, <2>6 DEF NothingLostOnTheWay, OnTheWay
<1> QED
  BY <1>1, Invariance, PTL

\* A turn that gather() reports as streamed and nobody interrupted has been spoken to its
\* last piece (loop.py:253-264, tts.py:285-289).
THEOREM WholeReply == Spec => []WholeReplySpoken
<1>1. IInv => WholeReplySpoken
  <2> SUFFICES ASSUME IInv, turn = "streamed", ~interrupted
               PROVE  pushed = text /\ played = Len(text)
    BY DEF WholeReplySpoken
  <2>1. TypeOK /\ QueueInv /\ EndInv /\ TextInv
    BY DEF IInv
  <2>2. /\ audio = "over" /\ llm = "done" /\ tts = "done" /\ buffer = <<>> /\ queue = <<>>
        /\ played = Len(pushed)
    BY <2>1 DEF QueueInv, EndInv
  <2>3. OnTheWay = text
    BY <2>1 DEF TextInv
  <2>4. OnTheWay = pushed
    <3>1. TextOf(queue) = <<>> /\ InHand = <<>> /\ pushed \in Seq(Nat)
      BY <2>1, <2>2, TextOfEmpty DEF InHand, TypeOK
    <3> QED
      BY <2>2, <3>1, Cat DEF OnTheWay
  <2> QED
    BY <2>2, <2>3, <2>4
<1> QED
  BY <1>1, Invariance, PTL

(***************************************************************************)
(* The sentinel and the sentences                                          *)
(***************************************************************************)
\* None waits at the end of the queue until it is taken.
NoneWaits == llm = "done" /\ tts \in {"get", "flush"} => queue # <<>> /\ queue[Len(queue)] = None

\* A complete sentence waits for nothing, and only whole ones are pushed before the tail.
WholeSentences ==
    /\ tts # "flush" => \A i \in DOMAIN buffer : buffer[i] \notin Ends
    /\ tts # "done" => pushed = <<>> \/ pushed[Len(pushed)] \in Ends

\* What some step other than a barge-in needs; the guards of Produce, PushSentences,
\* Consume, SpeechEnds and Gathered.
CanMove ==
    \/ llm = "next" \/ (llm \in {"put", "sentinel"} /\ Len(queue) < Capacity)
    \/ tts \in {"flush", "tail"} \/ (tts = "get" /\ queue # <<>>)
    \/ audio = "receive" /\ (tts = "done" \/ played < Len(pushed))
    \/ tts = "done" /\ audio = "done"
    \/ turn = "running" /\ llm = "done" /\ (why # "none" \/ audio = "over")

\* A turn nobody interrupted moves on until it is over and its speech too.
NobodyStuck == interrupted \/ (turn # "running" /\ audio = "over") \/ CanMove

LEMMA NoneWaitsStep == IInv /\ NoneWaits /\ [Next]_vars => NoneWaits'
<1> SUFFICES ASSUME IInv, NoneWaits, [Next]_vars PROVE NoneWaits'
  OBVIOUS
<1> USE DEF loopVars, ttsVars, audioVars
<1>1. TypeOK /\ QueueInv /\ queue \in Seq(0..Len(Deltas)) /\ Len(Deltas) \in Nat
  BY BridgeAssumption, LenProperties DEF IInv, TypeOK
<1>2. CASE Delta \/ Put \/ StreamEnds
  BY <1>2 DEF Delta, Put, StreamEnds, NoneWaits
<1>3. CASE Sentinel
  <2>1. queue' = Append(queue, None) /\ None \in 0..Len(Deltas)
    BY <1>1, <1>3, SMT DEF Sentinel, None
  <2>2. Len(queue') = Len(queue) + 1 /\ queue'[Len(queue) + 1] = None /\ queue' # <<>>
    BY <1>1, <2>1, SMT
  <2> QED
    BY <2>2 DEF NoneWaits
<1>4. CASE Take
  <2>1. CASE Head(queue) = None \/ stop
    BY <1>4, <2>1 DEF Take, NoneWaits
  <2>2. CASE Head(queue) # None /\ llm = "done"
    <3>1. queue # <<>> /\ queue' = Tail(queue) /\ queue[Len(queue)] = None
      BY <1>4, <2>2 DEF Take, NoneWaits
    <3>2. Len(queue) # 1
      BY <1>1, <2>2, <3>1, SMT
    <3>3. /\ Len(queue) \in Nat /\ Len(queue') = Len(queue) - 1 /\ Len(queue') # 0
          /\ \A i \in 1..Len(queue') : queue'[i] = queue[i + 1]
      BY <1>1, <3>1, <3>2, HeadTailProperties, LenProperties, EmptySeq, SMT
    <3>4. queue' # <<>> /\ queue'[Len(queue')] = None
      BY <3>1, <3>3, SMT
    <3> QED
      BY <3>4 DEF NoneWaits
  <2>3. CASE llm # "done"
    BY <1>4, <2>3 DEF Take, NoneWaits
  <2> QED
    BY <2>1, <2>2, <2>3
<1>5. CASE Flush \/ PushTail
  BY <1>5 DEF Flush, PushTail, NoneWaits
<1>6. CASE Play \/ Silence \/ SpeechEnds \/ Gathered \/ BargeIn \/ UNCHANGED vars
  BY <1>6 DEF Play, Silence, SpeechEnds, Gathered, BargeIn, vars, NoneWaits
<1> QED
  BY <1>2, <1>3, <1>4, <1>5, <1>6 DEF Next, Produce, PushSentences, Consume

LEMMA SentenceStep == IInv /\ WholeSentences /\ [Next]_vars => WholeSentences'
<1> SUFFICES ASSUME IInv, WholeSentences, [Next]_vars PROVE WholeSentences'
  OBVIOUS
<1> USE DEF loopVars, ttsVars, audioVars
<1>1. pushed \in Seq(Nat) /\ buffer \in Seq(Nat) /\ tts \in {"get", "flush", "tail", "done"}
  BY DEF IInv, TypeOK
<1>2. CASE Take
  BY <1>2 DEF Take, WholeSentences
<1>3. CASE Flush
  <2>1. CASE Boundary(buffer) = 0
    BY <1>1, <1>3, <2>1, BoundaryFirst DEF Flush, WholeSentences
  <2>2. CASE Boundary(buffer) # 0
    <3> DEFINE b == Boundary(buffer)
               first == SubSeq(buffer, 1, b)
    <3>1. b \in 1..Len(buffer) /\ buffer[b] \in Ends
      BY <1>1, <2>2, BoundaryFirst, LenProperties, SMT
    <3>2. tts' = "flush" /\ pushed' = pushed \o first
      BY <1>3, <2>2 DEF Flush
    <3> HIDE DEF b
    <3>3. first \in Seq(Nat) /\ Len(first) = b /\ first[b] = buffer[b]
      BY <1>1, <3>1, SMT
    <3> HIDE DEF first
    <3>4. pushed'[Len(pushed')] = first[b]
      BY <1>1, <3>1, <3>2, <3>3, SMT
    <3> QED
      BY <3>1, <3>2, <3>3, <3>4 DEF WholeSentences
  <2> QED
    BY <2>1, <2>2
<1>4. CASE PushTail
  BY <1>4, DOMAIN <<>> = {} DEF PushTail, WholeSentences
<1>5. CASE UNCHANGED ttsVars
  BY <1>5 DEF WholeSentences
<1>6. Produce \/ Consume \/ SpeechEnds \/ Gathered \/ BargeIn \/ UNCHANGED vars => UNCHANGED ttsVars
  BY DEF Produce, Delta, Put, StreamEnds, Sentinel, Consume, Play, Silence, SpeechEnds,
         Gathered, BargeIn, vars
<1> QED
  BY <1>2, <1>3, <1>4, <1>5, <1>6 DEF Next, PushSentences

\* One sentence at a time (tts.py:265-271): until the text is over Cartesia has been given
\* whole sentences only, and no sentence that is complete waits for a later delta.
THEOREM SentencesWhole == Spec => []WholeSentences
<1>1. Init => WholeSentences
  BY DOMAIN <<>> = {} DEF Init, WholeSentences
<1> QED
  BY <1>1, SentenceStep, Invariance, PTL DEF Spec

\* With a queue of any size the two coroutines never wait for each other: in a turn that
\* nobody interrupted and that is not over, _produce has room or _tts_iter something to
\* take, audio is left to play, or gather can return (loop.py:237-253, tts.py:258-289).
THEOREM NoDeadlock == Spec => []NobodyStuck
<1>1. Init => NoneWaits
  BY DEF Init, NoneWaits
<1>2. IInv /\ NoneWaits => NobodyStuck
  <2> SUFFICES ASSUME IInv, NoneWaits, ~interrupted, ~(turn # "running" /\ audio = "over"),
                      ~CanMove
               PROVE  FALSE
    BY DEF NobodyStuck
  <2>1. TypeOK /\ QueueInv /\ EndInv
    BY DEF IInv
  <2>2. /\ llm \in {"put", "sentinel", "done"} /\ tts \in {"get", "done"}
        /\ audio \in {"receive", "done", "over"}
    BY <2>1 DEF CanMove, TypeOK
  <2>3. CASE tts = "get"
    <3>1. queue = <<>> /\ Len(queue) = 0
      BY <2>3 DEF CanMove
    <3>2. Len(queue) < Capacity
      BY <3>1, BridgeAssumption
    <3>3. llm = "done"
      BY <2>2, <3>2 DEF CanMove
    <3> QED
      BY <2>3, <3>1, <3>3 DEF NoneWaits
  <2>4. CASE tts = "done"
    <3>1. llm = "done" /\ audio = "over"
      BY <2>1, <2>2, <2>4 DEF EndInv, CanMove
    <3>2. turn = "running"
      BY <3>1
    <3> QED
      BY <3>1, <3>2 DEF CanMove
  <2> QED
    BY <2>2, <2>3, <2>4
<1>3. Spec => []NoneWaits
  BY <1>1, NoneWaitsStep, Invariance, PTL DEF Spec
<1> QED
  BY <1>2, <1>3, Invariance, PTL
=============================================================================
