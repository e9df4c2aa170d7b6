---------------------------- MODULE SequenceLemmas --------------------------
(***************************************************************************)
(* Lemmas about sequences that the proofs of several modules need: what    *)
(* the operators of the community modules return, and induction and        *)
(* recursion over the natural numbers, as facts about sets (the induction  *)
(* theorems of the library have an operator as a parameter).               *)
(***************************************************************************)
EXTENDS SequencesExt, SequenceTheorems, WellFoundedInduction, TLAPS

----------------------------------------------------------------------------
(* Induction                                                               *)

\* A set of numbers that has 0, and with each number the next, has them all:
\* the least number it has not would be the next of one it has.
LEMMA Induction ==
    ASSUME NEW S, 0 \in S, \A n \in Nat : n \in S => n + 1 \in S
    PROVE  Nat \subseteq S
<1> SUFFICES ASSUME Nat \ S # {} PROVE FALSE
  OBVIOUS
<1> DEFINE less == OpToRel(<, Nat)
           rest == Nat \ S
<1>1. \E x \in rest : \A y \in rest : ~(<<y, x>> \in less)
  <2>1. IsWellFoundedOn(less, Nat)
    BY NatLessThanWellFounded
  <2>2. rest \subseteq Nat /\ rest # {}
    OBVIOUS
  <2> HIDE DEF less, rest
  <2> QED
    BY <2>1, <2>2, WFMin
<1>2. PICK x \in rest : \A y \in rest : ~(<<y, x>> \in less)
  BY <1>1
<1>3. x \in Nat /\ x # 0
  OBVIOUS
<1>4. x - 1 \in rest
  <2>1. x - 1 \in Nat /\ x = (x - 1) + 1
    BY <1>3
  <2> QED
    BY <2>1
<1>5. <<x - 1, x>> \in less
  BY <1>3, <1>4 DEF OpToRel
<1> QED
  BY <1>2, <1>4, <1>5

\* The same for the numbers up to a bound.
LEMMA InductionUpTo ==
    ASSUME NEW N \in Nat, NEW S, 0 \in S, \A n \in 0..(N - 1) : n \in S => n + 1 \in S
    PROVE  0..N \subseteq S
<1> DEFINE T == {n \in Nat : n <= N => n \in S}
<1>1. 0 \in T
  OBVIOUS
<1>2. ASSUME NEW n \in Nat, n \in T PROVE n + 1 \in T
  <2>1. CASE n + 1 <= N
    <3>1. n \in 0..(N - 1) /\ n \in S
      BY <1>2, <2>1
    <3> QED
      BY <3>1
  <2> QED
    BY <2>1
<1> HIDE DEF T
<1>3. Nat \subseteq T
  BY <1>1, <1>2, Induction
<1>4. ASSUME NEW n \in 0..N PROVE n \in S
  BY <1>3 DEF T
<1> QED
  BY <1>4

\* A set of numbers up to a bound has a greatest one, unless it is empty.
LEMMA Greatest ==
    ASSUME NEW N \in Nat, NEW S, S \subseteq 0..N, S # {}
    PROVE  \E x \in S : \A y \in S : y <= x
<1> DEFINE T == {n \in 0..N : \/ \A y \in S : ~(y <= n)
                             \/ \E x \in S : \A y \in S : y <= n => y <= x}
<1>1. 0 \in T
  <2>1. CASE 0 \in S
    BY <2>1
  <2>2. CASE 0 \notin S
    BY <2>2
  <2> QED
    BY <2>1, <2>2
<1>2. ASSUME NEW n \in 0..(N - 1), n \in T PROVE n + 1 \in T
  <2>1. n + 1 \in 0..N /\ \A y \in S : y <= n + 1 <=> y <= n \/ y = n + 1
    OBVIOUS
  <2>2. CASE n + 1 \in S
    <3>1. \A y \in S : y <= n + 1 => y <= n + 1
      OBVIOUS
    <3> QED
      BY <2>1, <2>2, <3>1
  <2>3. CASE n + 1 \notin S
    BY <1>2, <2>1, <2>3
  <2> QED
    BY <2>2, <2>3
<1> HIDE DEF T
<1>3. N \in T
  <2>1. 0..N \subseteq T
    BY <1>1, <1>2, InductionUpTo
  <2> QED
    BY <2>1
<1>4. \A y \in S : y <= N
  OBVIOUS
<1> QED
  BY <1>3, <1>4 DEF T

----------------------------------------------------------------------------
(* Recursion                                                               *)

\* g is the function of the recursion from a, with step[<<k, x>>] for the k-th
\* step from x.
Recursive(g, N, a, step) ==
    g = [k \in 0..N |-> IF k = 0 THEN a ELSE step[<<k, g[k - 1]>>]]

\* There is such a function, with its values among those of the steps.
LEMMA RecursionExists ==
    ASSUME NEW X, NEW a \in X, NEW step \in [Nat \X X -> X], NEW N \in Nat
    PROVE  \E g \in [0..N -> X] : Recursive(g, N, a, step)
<1> DEFINE S == {n \in Nat : \E g \in [0..n -> X] : Recursive(g, n, a, step)}
<1>1. 0 \in S
  <2> DEFINE g == [k \in 0..0 |-> a]
  <2>1. g \in [0..0 -> X] /\ g = [k \in 0..0 |-> IF k = 0 THEN a ELSE step[<<k, g[k - 1]>>]]
    OBVIOUS
  <2> HIDE DEF g
  <2> QED
    BY <2>1 DEF Recursive
<1>2. ASSUME NEW n \in Nat, n \in S PROVE n + 1 \in S
  <2>1. PICK g \in [0..n -> X] : Recursive(g, n, a, step)
    BY <1>2
  <2> DEFINE next == step[<<n + 1, g[n]>>]
             G == [k \in 0..(n + 1) |-> IF k = n + 1 THEN next ELSE g[k]]
  <2>2. g[n] \in X /\ next \in X
    OBVIOUS
  <2>3. G \in [0..(n + 1) -> X]
    BY <2>2
  <2>4. /\ G[0] = a
        /\ \A k \in 1..(n + 1) : G[k] = step[<<k, G[k - 1]>>]
    <3>1. g[0] = a /\ \A k \in 1..n : g[k] = step[<<k, g[k - 1]>>]
      BY <2>1 DEF Recursive
    <3>2. ASSUME NEW k \in 1..(n + 1) PROVE G[k] = step[<<k, G[k - 1]>>]
      <4>1. CASE k = n + 1
        <5>1. n \in 0..(n + 1) /\ n # n + 1 /\ k - 1 = n /\ k \in 0..(n + 1)
          BY <4>1
        <5>2. G[k] = next /\ G[n] = g[n]
          BY <4>1, <5>1
        <5> QED
          BY <4>1, <5>1, <5>2
      <4>2. CASE k # n + 1
        <5>1. k \in 1..n /\ k - 1 \in 0..n /\ k - 1 # n + 1
          BY <4>2
        <5> QED
          BY <3>1, <4>2, <5>1
      <4> QED
        BY <4>1, <4>2
    <3>3. 0 \in 0..(n + 1) /\ 0 # n + 1
      OBVIOUS
    <3>4. G[0] = a
      BY <3>1, <3>3
    <3> HIDE DEF G
    <3> QED
      BY <3>2, <3>4
  <2>5. Recursive(G, n + 1, a, step)
    <3> HIDE DEF G
    <3>1. \A k \in 0..(n + 1) :
             G[k] = IF k = 0 THEN a ELSE step[<<k, G[k - 1]>>]
      BY <2>4
    <3> QED
      BY <2>3, <3>1 DEF Recursive
  <2> HIDE DEF G
  <2> QED
    BY <2>3, <2>5
<1> HIDE DEF S
<1>3. N \in S
  BY <1>1, <1>2, Induction
<1> QED
  BY <1>3 DEF S

\* And only one.
LEMMA RecursionUnique ==
    ASSUME NEW a, NEW step, NEW N \in Nat, NEW f, NEW g,
           Recursive(f, N, a, step), Recursive(g, N, a, step)
    PROVE  f = g
<1> DEFINE S == {n \in 0..N : f[n] = g[n]}
<1>1. 0 \in S
  BY DEF Recursive
<1>2. ASSUME NEW n \in 0..(N - 1), n \in S PROVE n + 1 \in S
  <2>1. n + 1 \in 0..N /\ n + 1 # 0 /\ (n + 1) - 1 = n
    OBVIOUS
  <2>2. f[n + 1] = step[<<n + 1, f[n]>>] /\ g[n + 1] = step[<<n + 1, g[n]>>]
    BY <2>1 DEF Recursive
  <2> QED
    BY <1>2, <2>1, <2>2
<1> HIDE DEF S
<1>3. 0..N \subseteq S
  BY <1>1, <1>2, InductionUpTo
<1>4. \A n \in 0..N : f[n] = g[n]
  BY <1>3 DEF S
<1> QED
  BY <1>4 DEF Recursive

----------------------------------------------------------------------------
(* Sequences                                                               *)

\* A list without one of its members.
LEMMA RemoveAtFacts ==
    ASSUME NEW S, NEW s \in Seq(S), NEW i \in DOMAIN s
    PROVE  /\ RemoveAt(s, i) \in Seq(S)
           /\ Len(RemoveAt(s, i)) = Len(s) - 1
           /\ \A j \in 1..(Len(s) - 1) :
                 RemoveAt(s, i)[j] = IF j < i THEN s[j] ELSE s[j + 1]
<1>1. i \in 1..Len(s) /\ Len(s) \in Nat
  OBVIOUS
<1> DEFINE l == SubSeq(s, 1, i - 1)
           r == SubSeq(s, i + 1, Len(s))
<1>2. /\ l \in Seq(S) /\ Len(l) = i - 1
      /\ \A j \in 1..(i - 1) : l[j] = s[j]
  BY <1>1
<1>3. /\ r \in Seq(S) /\ Len(r) = Len(s) - i
      /\ \A j \in 1..(Len(s) - i) : r[j] = s[i + j]
  BY <1>1
<1>4. RemoveAt(s, i) = l \o r
  BY DEF RemoveAt
<1> HIDE DEF l, r
<1>5. /\ l \o r \in Seq(S) /\ Len(l \o r) = Len(l) + Len(r)
      /\ \A j \in 1..(Len(l) + Len(r)) :
            (l \o r)[j] = IF j <= Len(l) THEN l[j] ELSE r[j - Len(l)]
  BY <1>2, <1>3, ConcatProperties
<1>6. Len(l) + Len(r) = Len(s) - 1
  BY <1>1, <1>2, <1>3
<1>7. ASSUME NEW j \in 1..(Len(s) - 1)
      PROVE  (l \o r)[j] = IF j < i THEN s[j] ELSE s[j + 1]
  <2>1. (l \o r)[j] = IF j <= i - 1 THEN l[j] ELSE r[j - (i - 1)]
    BY <1>2, <1>5, <1>6
  <2>2. ASSUME j < i PROVE (l \o r)[j] = s[j]
    BY <1>1, <1>2, <2>1, <2>2
  <2>3. ASSUME ~(j < i) PROVE (l \o r)[j] = s[j + 1]
    <3>1. j - (i - 1) \in 1..(Len(s) - i) /\ i + (j - (i - 1)) = j + 1
      BY <1>1, <2>3
    <3>2. (l \o r)[j] = r[j - (i - 1)] /\ r[j - (i - 1)] = s[i + (j - (i - 1))]
      BY <1>1, <1>3, <2>1, <2>3, <3>1, SMTT(40)
    <3> QED
      BY <1>1, <2>3, <3>1, <3>2
  <2> QED
    BY <2>2, <2>3
<1> QED
  BY <1>4, <1>5, <1>6, <1>7

\* A function over the indices of a sequence is a sequence.
LEMMA MappedSeq ==
    ASSUME NEW S, NEW T, NEW s \in Seq(S), NEW t, DOMAIN t = DOMAIN s,
           t = [i \in DOMAIN t |-> t[i]], \A i \in DOMAIN t : t[i] \in T
    PROVE  t \in Seq(T) /\ Len(t) = Len(s)
<1>1. DOMAIN t = 1..Len(s) /\ Len(s) \in Nat
  OBVIOUS
<1>2. t \in [1..Len(s) -> T]
  BY <1>1
<1>3. t \in Seq(T)
  BY <1>1, <1>2, SeqDef
<1> QED
  BY <1>1, <1>3

\* FlattenSeq as the last of the sequences so far: g[k] is what the first k of
\* the lists give.
LEMMA FlattenSeqFacts ==
    ASSUME NEW S, NEW ss \in Seq(Seq(S))
    PROVE  \E g \in [0..Len(ss) -> Seq(S)] :
              /\ g[0] = <<>>
              /\ \A k \in 1..Len(ss) : g[k] = g[k - 1] \o ss[k]
              /\ FlattenSeq(ss) = g[Len(ss)]
<1> DEFINE N == Len(ss)
           step == [p \in Nat \X Seq(S) |->
                        IF p[1] \in 1..N THEN p[2] \o ss[p[1]] ELSE p[2]]
<1>1. N \in Nat /\ \A k \in 1..N : ss[k] \in Seq(S)
  OBVIOUS
<1>2. step \in [Nat \X Seq(S) -> Seq(S)]
  <2>1. ASSUME NEW p \in Nat \X Seq(S) PROVE step[p] \in Seq(S)
    BY <1>1, ConcatProperties
  <2> QED
    BY <2>1
<1>3. <<>> \in Seq(S)
  OBVIOUS
<1>4. PICK g \in [0..N -> Seq(S)] : Recursive(g, N, <<>>, step)
  <2> HIDE DEF step, N
  <2> QED
    BY <1>1, <1>2, <1>3, RecursionExists
<1>5. g[0] = <<>> /\ \A k \in 1..N : g[k] = g[k - 1] \o ss[k]
  <2>1. g[0] = <<>>
    BY <1>1, <1>4 DEF Recursive
  <2>2. ASSUME NEW k \in 1..N PROVE g[k] = g[k - 1] \o ss[k]
    <3>1. k \in 0..N /\ k # 0 /\ k \in Nat /\ k - 1 \in 0..N
      BY <1>1
    <3>2. g[k] = step[<<k, g[k - 1]>>]
      <4> HIDE DEF step
      <4> QED
        BY <1>4, <3>1 DEF Recursive
    <3>3. <<k, g[k - 1]>> \in Nat \X Seq(S)
      BY <3>1
    <3> QED
      BY <3>2, <3>3
  <2> QED
    BY <2>1, <2>2
<1>6. FlattenSeq(ss) = g[N]
  <2>1. CASE N = 0
    <3>1. ss = <<>>
      BY <2>1
    <3> QED
      BY <1>5, <2>1, <3>1 DEF FlattenSeq
  <2>2. CASE N # 0
    <3> DEFINE IsFlatten(f) ==
                  f = [i \in 1..N |-> IF i = 1 THEN ss[i] ELSE f[i - 1] \o ss[i]]
               flatten == CHOOSE f : IsFlatten(f)
               h == [i \in 1..N |-> g[i]]
    <3>1. IsFlatten(h)
      <4>1. ASSUME NEW i \in 1..N PROVE h[i] = IF i = 1 THEN ss[i] ELSE h[i - 1] \o ss[i]
        <5>1. CASE i = 1
          <6>1. h[i] = g[0] \o ss[i]
            <7>1. i - 1 = 0
              BY <5>1
            <7>2. g[i] = g[i - 1] \o ss[i]
              BY <1>5
            <7> QED
              BY <7>1, <7>2
          <6>2. ss[i] \in Seq(S)
            BY <1>1
          <6> QED
            BY <1>5, <5>1, <6>1, <6>2, ConcatEmptySeq
        <5>2. CASE i # 1
          <6>1. i - 1 \in 1..N
            BY <1>1, <5>2
          <6> QED
            BY <1>5, <5>2, <6>1
        <5> QED
          BY <5>1, <5>2
      <4>2. h = [i \in 1..N |-> h[i]]
        OBVIOUS
      <4> HIDE DEF h
      <4> QED
        BY <4>1, <4>2
    <3>2. IsFlatten(flatten)
      <4> HIDE DEF h, IsFlatten
      <4> QED
        BY <3>1
    <3>3. FlattenSeq(ss) = flatten[N]
      BY <2>2 DEF FlattenSeq
    <3> HIDE DEF flatten
    <3> DEFINE T == {i \in 0..N : i # 0 => flatten[i] = g[i]}
    <3>4. 0..N \subseteq T
      <4>1. 0 \in T
        BY <1>1
      <4>2. ASSUME NEW i \in 0..(N - 1), i \in T PROVE i + 1 \in T
        <5>1. i + 1 \in 1..N /\ (i + 1) - 1 = i /\ i + 1 \in 0..N
          BY <1>1
        <5>2. flatten[i + 1] = IF i + 1 = 1 THEN ss[i + 1] ELSE flatten[i] \o ss[i + 1]
          BY <3>2, <5>1
        <5>3. g[i + 1] = g[i] \o ss[i + 1]
          BY <1>5, <5>1
        <5>4. CASE i = 0
          <6>1. ss[i + 1] \in Seq(S)
            BY <1>1, <5>1
          <6>2. flatten[i + 1] = ss[i + 1]
            BY <5>2, <5>4
          <6>3. g[i + 1] = <<>> \o ss[i + 1]
            BY <1>5, <5>3, <5>4
          <6> QED
            BY <5>1, <6>1, <6>2, <6>3, ConcatEmptySeq
        <5>5. CASE i # 0
          <6>1. flatten[i] = g[i] /\ i + 1 # 1
            BY <4>2, <5>5
          <6> QED
            BY <5>1, <5>2, <5>3, <6>1
        <5> QED
          BY <5>4, <5>5
      <4> HIDE DEF T
      <4> QED
        BY <1>1, <4>1, <4>2, InductionUpTo
    <3>5. N \in 0..N
      BY <1>1
    <3> QED
      BY <2>2, <3>3, <3>4, <3>5
  <2> QED
    BY <2>1, <2>2
<1> QED
  BY <1>5, <1>6

\* The concatenation of sequences over a set is a sequence over it.
LEMMA FlattenSeqType ==
    ASSUME NEW S, NEW N \in Nat, NEW ss \in [1..N -> Seq(S)]
    PROVE  FlattenSeq(ss) \in Seq(S)
<1>1. ss \in Seq(Seq(S)) /\ Len(ss) \in 0..Len(ss)
  <2>1. ss \in Seq(Seq(S))
    BY SeqDef
  <2> QED
    BY <2>1
<1>2. PICK g \in [0..Len(ss) -> Seq(S)] : FlattenSeq(ss) = g[Len(ss)]
  BY <1>1, FlattenSeqFacts
<1> QED
  BY <1>1, <1>2

=============================================================================
