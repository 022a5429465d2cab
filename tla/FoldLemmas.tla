----------------------------- MODULE FoldLemmas ----------------------------
(***************************************************************************)
(* What FoldLeft computes, for the operator and the start value that an    *)
(* instance of this module gives.  FoldLeft is a recursive function on the *)
(* sets of indices of the sequence, with the largest index applied last:   *)
(* that such a function exists, and that it does not depend on what lies   *)
(* behind a prefix, is shown by looking at the least length for which it   *)
(* would fail.                                                             *)
(***************************************************************************)
EXTENDS Integers, SequencesExt, TLAPS, SequenceTheorems,
        WellFoundedInduction

CONSTANTS Op(_, _), Base

Folded(s) == FoldLeft(Op, Base, s)

\* f is the function that FoldLeft defines on the subsets of D.
Iterates(f, s, D) ==
    f = [S \in SUBSET D |->
           IF S = {} THEN Base ELSE Op(f[S \ {Max(S)}], s[Max(S)])]
Iterated(s) == CHOOSE f : Iterates(f, s, DOMAIN s)

LEMMA FoldIs ==
  ASSUME NEW s
  PROVE  Folded(s) = Iterated(s)[DOMAIN s]
BY Zenon DEF Folded, FoldLeft, MapThenFoldSet, Iterated, Iterates

LEMMA SmallestNat ==
  ASSUME NEW T \in SUBSET Nat, T # {}
  PROVE  \E x \in T : \A y \in T : x <= y
<1>1. PICK x \in T : \A y \in T : <<y, x>> \notin OpToRel(<, Nat)
  BY NatLessThanWellFounded, WFMin
<1>2. \A y \in T : ~(y < x)
  BY <1>1 DEF OpToRel
<1> QED
  BY <1>2

LEMMA LargestIndex ==
  ASSUME NEW n \in Nat, NEW S \in SUBSET (1 .. n), S # {}
  PROVE  Max(S) \in S /\ \A y \in S : y <= Max(S)
<1> DEFINE T == {n - e : e \in S}
<1>0. \A e \in S : e \in Int /\ e >= 1 /\ e <= n
  OBVIOUS
<1>1. T \in SUBSET Nat /\ T # {}
  <2>1. \A e \in S : n - e \in Nat
    BY <1>0
  <2>2. PICK e \in S : TRUE
    OBVIOUS
  <2>3. n - e \in T
    BY <2>2
  <2> QED
    BY <2>1, <2>3
<1>2. PICK x \in T : \A y \in T : x <= y
  BY <1>1, SmallestNat
<1>3. PICK e \in S : x = n - e
  BY <1>2
<1>4. \A f \in S : e >= f
  <2> SUFFICES ASSUME NEW f \in S PROVE e >= f
    OBVIOUS
  <2>1. n - f \in T
    OBVIOUS
  <2>2. n - e <= n - f /\ e \in Int /\ f \in Int
    <3>1. x <= n - f
      BY <1>2, <2>1
    <3> QED
      BY <1>0, <1>3, <3>1
  <2> QED
    BY <2>2
<1>5. \E z \in S : \A y \in S : z >= y
  BY <1>4
<1>6. Max(S) \in S /\ \A y \in S : Max(S) >= y
  BY <1>5 DEF Max
<1> QED
  BY <1>6

\* The function exists, however long the sequence.
LEMMA IterateExists ==
  ASSUME NEW s, NEW n \in Nat
  PROVE  \E f : Iterates(f, s, 1 .. n)
<1> DEFINE T == {k \in Nat : ~\E f : Iterates(f, s, 1 .. k)}
<1> SUFFICES ASSUME T # {} PROVE FALSE
  OBVIOUS
<1>1. PICK k \in T : \A y \in T : k <= y
  BY SmallestNat
<1>2. k \in Nat /\ ~\E f : Iterates(f, s, 1 .. k)
  OBVIOUS
<1>3. CASE k = 0
  <2> DEFINE f == [S \in SUBSET (1 .. 0) |-> Base]
  <2>1. \A S \in SUBSET (1 .. 0) : S = {}
    OBVIOUS
  <2>2. Iterates(f, s, 1 .. 0)
    BY <2>1 DEF Iterates
  <2> QED
    BY <1>2, <1>3, <2>2
<1>4. CASE k # 0
  <2>1. k - 1 \in Nat /\ k - 1 \notin T
    BY <1>1, <1>2, <1>4
  <2>2. PICK f : Iterates(f, s, 1 .. k - 1)
    BY <2>1
  <2> DEFINE g == [S \in SUBSET (1 .. k) |->
                     IF k \in S THEN Op(f[S \ {k}], s[k]) ELSE f[S]]
             h == [S \in SUBSET (1 .. k) |->
                     IF S = {} THEN Base
                     ELSE Op(g[S \ {Max(S)}], s[Max(S)])]
  <2>3. \A S \in SUBSET (1 .. k) : k \notin S => S \in SUBSET (1 .. k - 1)
    BY <1>2
  <2>4. ASSUME NEW S \in SUBSET (1 .. k) PROVE g[S] = h[S]
    <3>1. CASE k \in S
      <4>1. Max(S) = k
        <5>1. Max(S) \in S /\ k <= Max(S)
          BY <1>2, <3>1, LargestIndex
        <5>2. Max(S) \in 1 .. k
          BY <5>1
        <5> QED
          BY <1>2, <5>1, <5>2
      <4>2. S \ {k} \in SUBSET (1 .. k) /\ k \notin S \ {k}
        OBVIOUS
      <4>3. g[S \ {k}] = f[S \ {k}]
        BY <4>2
      <4> QED
        BY <3>1, <4>1, <4>3
    <3>2. CASE k \notin S /\ S # {}
      <4>1. S \in SUBSET (1 .. k - 1) /\ S \ {Max(S)} \in SUBSET (1 .. k - 1)
        BY <2>3, <3>2
      <4>2. f[S] = Op(f[S \ {Max(S)}], s[Max(S)])
        BY <2>2, <3>2, <4>1 DEF Iterates
      <4>3. g[S] = f[S] /\ g[S \ {Max(S)}] = f[S \ {Max(S)}]
        BY <3>2, <4>1
      <4> QED
        BY <3>2, <4>2, <4>3
    <3>3. CASE S = {}
      <4>1. g[S] = f[S] /\ S \in SUBSET (1 .. k - 1)
        BY <2>3, <3>3
      <4>2. f[S] = Base
        BY <2>2, <3>3, <4>1 DEF Iterates
      <4> QED
        BY <3>3, <4>1, <4>2
    <3> QED
      BY <3>1, <3>2, <3>3
  <2>5. g = h
    BY <2>4
  <2>6. Iterates(g, s, 1 .. k)
    BY <2>5 DEF Iterates
  <2> QED
    BY <1>2, <2>6
<1> QED
  BY <1>3, <1>4

LEMMA IteratedIs ==
  ASSUME NEW S, NEW s \in Seq(S)
  PROVE  Iterates(Iterated(s), s, 1 .. Len(s))
<1>1. DOMAIN s = 1 .. Len(s) /\ Len(s) \in Nat
  BY LenProperties
<1>2. \E f : Iterates(f, s, DOMAIN s)
  BY <1>1, IterateExists
<1> QED
  BY <1>1, <1>2, Zenon DEF Iterated

\* One index more is one application more.
LEMMA OneMore ==
  ASSUME NEW f, NEW s, NEW n \in Nat, Iterates(f, s, 1 .. n)
  PROVE  /\ f[{}] = Base
         /\ \A k \in 1 .. n : f[1 .. k] = Op(f[1 .. k - 1], s[k])
<1>1. {} \in SUBSET (1 .. n)
  OBVIOUS
<1>2. f[{}] = Base
  BY <1>1 DEF Iterates
<1>3. ASSUME NEW k \in 1 .. n
      PROVE  f[1 .. k] = Op(f[1 .. k - 1], s[k])
  <2>0. k \in Int /\ 1 <= k /\ k <= n
    OBVIOUS
  <2>1. 1 .. k \in SUBSET (1 .. n) /\ k \in 1 .. k /\ 1 .. k # {}
    <3>1. \A i \in 1 .. k : i \in 1 .. n
      BY <2>0
    <3>2. k \in 1 .. k
      BY <2>0
    <3> QED
      BY <3>1, <3>2
  <2>2. Max(1 .. k) \in 1 .. k /\ k <= Max(1 .. k)
    BY <2>1, LargestIndex
  <2>3. Max(1 .. k) = k
    BY <2>2
  <2>4. (1 .. k) \ {k} = 1 .. k - 1
    <3>1. k \in Int
      OBVIOUS
    <3>2. \A i : i \in (1 .. k) \ {k} <=> i \in 1 .. k - 1
      BY <3>1
    <3> QED
      BY <3>2
  <2>5. f[1 .. k] = Op(f[(1 .. k) \ {Max(1 .. k)}], s[Max(1 .. k)])
    BY <2>1 DEF Iterates
  <2> QED
    BY <2>3, <2>4, <2>5
<1> QED
  BY <1>2, <1>3

\* Sequences with a common prefix have the same iterates of it.
LEMMA SamePrefix ==
  ASSUME NEW f, NEW g, NEW s, NEW t, NEW n \in Nat, NEW m \in Nat, n <= m,
         Iterates(f, s, 1 .. n), Iterates(g, t, 1 .. m),
         \A k \in 1 .. n : s[k] = t[k]
  PROVE  f[1 .. n] = g[1 .. n]
<1> DEFINE T == {k \in 0 .. n : f[1 .. k] # g[1 .. k]}
<1> SUFFICES ASSUME T # {} PROVE FALSE
  OBVIOUS
<1>1. T \in SUBSET Nat
  OBVIOUS
<1>2. PICK k \in T : \A y \in T : k <= y
  BY <1>1, SmallestNat
<1>3. k \in 0 .. n /\ f[1 .. k] # g[1 .. k]
  OBVIOUS
<1>4. k # 0
  <2>1. 1 .. 0 = {}
    OBVIOUS
  <2> QED
    BY <1>3, <2>1, OneMore
<1>5. f[1 .. k - 1] = g[1 .. k - 1]
  <2>1. k - 1 \in 0 .. n /\ k - 1 \notin T
    BY <1>2, <1>3, <1>4
  <2> QED
    BY <2>1
<1>6. /\ f[1 .. k] = Op(f[1 .. k - 1], s[k])
      /\ g[1 .. k] = Op(g[1 .. k - 1], t[k])
  <2>1. k \in 1 .. n /\ k \in 1 .. m
    BY <1>3, <1>4
  <2>2. \A i \in 1 .. n : f[1 .. i] = Op(f[1 .. i - 1], s[i])
    BY OneMore
  <2>3. \A i \in 1 .. m : g[1 .. i] = Op(g[1 .. i - 1], t[i])
    BY OneMore
  <2> QED
    BY <2>1, <2>2, <2>3
<1>7. s[k] = t[k]
  BY <1>3, <1>4
<1> QED
  BY <1>3, <1>5, <1>6, <1>7

\* Folding no elements gives the start value: a log of which no line has been
\* reduced leaves the zero state (scanFile), an item without events no text.
LEMMA FoldEmpty == Folded(<<>>) = Base
<1>1. <<>> \in Seq({}) /\ Len(<<>>) = 0
  BY EmptySeq
<1>2. Iterates(Iterated(<<>>), <<>>, 1 .. 0)
  BY <1>1, IteratedIs
<1>3. Iterated(<<>>)[{}] = Base
  BY <1>2, OneMore
<1>4. DOMAIN <<>> = {}
  BY <1>1, LenProperties
<1> QED
  BY <1>3, <1>4, FoldIs

\* Folding one more element applies the operator once more to what the others
\* gave, which is what the code does line by line (reduceLine).
LEMMA FoldAppend ==
  ASSUME NEW S, NEW s \in Seq(S), NEW e \in S
  PROVE  Folded(Append(s, e)) = Op(Folded(s), e)
<1> DEFINE t == Append(s, e)
           n == Len(s)
<1>1. /\ t \in Seq(S) /\ Len(t) = n + 1 /\ n \in Nat /\ t[n + 1] = e
      /\ \A k \in 1 .. n : t[k] = s[k]
      /\ DOMAIN s = 1 .. n /\ DOMAIN t = 1 .. n + 1
  BY AppendProperties, LenProperties
<1> HIDE DEF t, n
<1>2. Iterates(Iterated(s), s, 1 .. n) /\ Iterates(Iterated(t), t, 1 .. n + 1)
  BY <1>1, IteratedIs DEF n
<1>3. Iterated(s)[1 .. n] = Iterated(t)[1 .. n]
  <2>1. n + 1 \in Nat /\ n <= n + 1 /\ \A k \in 1 .. n : s[k] = t[k]
    BY <1>1
  <2> QED
    BY <1>1, <1>2, <2>1, SamePrefix
<1>4. Iterated(t)[1 .. n + 1] = Op(Iterated(t)[1 .. n], t[n + 1])
  <2>1. n + 1 \in Nat /\ n + 1 \in 1 .. n + 1 /\ (n + 1) - 1 = n
    BY <1>1
  <2>2. \A k \in 1 .. n + 1 :
           Iterated(t)[1 .. k] = Op(Iterated(t)[1 .. k - 1], t[k])
    BY <1>2, <2>1, OneMore
  <2> QED
    BY <2>1, <2>2
<1>5. Folded(t) = Op(Folded(s), e)
  BY <1>1, <1>3, <1>4, FoldIs
<1> QED
  BY <1>5 DEF t

\* What the start value has and every application keeps, every fold has.
LEMMA FoldKeeps ==
  ASSUME NEW S, NEW T, Base \in T, \A x \in T, e \in S : Op(x, e) \in T,
         NEW s \in Seq(S)
  PROVE  Folded(s) \in T
<1> DEFINE Bad == {n \in Nat : \E t \in Seq(S) : Len(t) = n /\ Folded(t) \notin T}
<1> SUFFICES ASSUME Bad # {} PROVE FALSE
  BY LenProperties
<1>1. PICK n \in Bad : \A m \in Bad : n <= m
  BY SmallestNat
<1>2. PICK t \in Seq(S) : Len(t) = n /\ Folded(t) \notin T
  BY <1>1
<1>3. t # <<>>
  BY <1>2, FoldEmpty
<1>4. PICK u \in Seq(S), e \in S : t = Append(u, e)
  BY <1>3, SequenceEmptyOrAppend
<1>5. Len(u) \in Nat /\ n = Len(u) + 1
  BY <1>2, <1>4, AppendProperties, LenProperties
<1>6. Folded(u) \in T
  <2>1. ~(n <= Len(u))
    BY <1>5
  <2>2. Len(u) \notin Bad
    BY <1>1, <2>1
  <2> QED
    BY <1>5, <2>2
<1> QED
  BY <1>2, <1>4, <1>6, FoldAppend
=============================================================================
