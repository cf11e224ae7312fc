---------------------------- MODULE CommonLemmas ----------------------------
(***************************************************************************)
(* Lemmas the proofs about several components need: the least and the      *)
(* greatest element of a finite set of integers, induction on sets of      *)
(* naturals, what FlattenSeq makes of its sequences, one by one, functions *)
(* defined by recursion, and quotients.                                    *)
(***************************************************************************)
EXTENDS Integers, SequencesExt, FiniteSetTheorems, SequenceTheorems, TLAPS

\* A finite set of integers that is not empty has a least element: the one below
\* which there are fewest.
LEMMA LeastExists ==
  ASSUME NEW S \in SUBSET Int, IsFiniteSet(S), S # {}
  PROVE  \E x \in S : \A y \in S : x <= y
<1>. DEFINE Below(x) == {y \in S : y <= x}
            T == {Below(x) : x \in S}
            R == StrictSubsetOrdering(S)
<1>1. IsWellFoundedOn(R, FiniteSubsetsOf(S))
  BY FS_StrictSubsetOrderingWellFounded
<1>2. T \subseteq FiniteSubsetsOf(S) /\ T # {}
  <2>1. FiniteSubsetsOf(S) = SUBSET S
    BY FS_FiniteSubsetsOfFinite
  <2>2. T \subseteq SUBSET S
    OBVIOUS
  <2>3. PICK x \in S : TRUE
    OBVIOUS
  <2>4. Below(x) \in T
    OBVIOUS
  <2>5. T # {}
    BY <2>4
  <2>. HIDE DEF T
  <2>. QED BY <2>1, <2>2, <2>5
<1>3. \E B \in T : \A C \in T : ~ (<<C, B>> \in R)
  <2>. HIDE DEF T, R
  <2>. QED BY <1>1, <1>2, WFMin
<1>4. PICK x \in S : \A C \in T : ~ (<<C, Below(x)>> \in R)
  BY <1>3
<1>5. ASSUME NEW y \in S, ~(x <= y) PROVE FALSE
  <2>1. Below(y) \in T
    OBVIOUS
  <2>2. Below(y) \subseteq Below(x) /\ x \in Below(x) /\ x \notin Below(y)
    <3>1. x \in Int /\ y \in Int /\ y < x
      BY <1>5
    <3>2. \A z \in S : z <= y => z <= x
      BY <3>1
    <3>3. x \notin Below(y) /\ x \in Below(x)
      BY <3>1
    <3>4. Below(y) \subseteq Below(x)
      BY <3>2
    <3>. QED BY <3>3, <3>4
  <2>3. <<Below(y), Below(x)>> \in R
    <3>. HIDE DEF T
    <3>1. Below(y) \in SUBSET S /\ Below(x) \in SUBSET S /\ Below(y) # Below(x)
      BY <2>2
    <3>. HIDE DEF Below
    <3>. QED BY <2>2, <3>1 DEF StrictSubsetOrdering
  <2>. QED BY <1>4, <2>1, <2>3
<1>. QED BY <1>5

\* It has a greatest one as well.
LEMMA GreatestExists ==
  ASSUME NEW S \in SUBSET Int, IsFiniteSet(S), S # {}
  PROVE  \E x \in S : \A y \in S : y <= x
<1>. DEFINE f == [x \in S |-> 0 - x]
            T == {f[x] : x \in S}
<1>1. T \in SUBSET Int /\ T # {}
  <2>1. PICK x \in S : TRUE
    OBVIOUS
  <2>2. f[x] \in T
    OBVIOUS
  <2>3. \A y \in S : f[y] \in Int
    OBVIOUS
  <2>. QED BY <2>2, <2>3
<1>2. IsFiniteSet(T)
  <2>1. f \in Surjection(S, T)
    BY DEF Surjection
  <2>. HIDE DEF T
  <2>. QED BY <2>1, FS_Surjection
<1>3. PICK z \in T : \A y \in T : z <= y
  <2>. HIDE DEF T
  <2>. QED BY <1>1, <1>2, LeastExists
<1>4. PICK x \in S : z = 0 - x
  OBVIOUS
<1>5. \A y \in S : y <= x
  <2>1. \A y \in S : 0 - x <= 0 - y
    BY <1>3, <1>4
  <2>. QED BY <2>1
<1>. QED BY <1>5

\* A set of positions in a queue that is not empty has a last one.
LEMMA LastExists ==
  ASSUME NEW n \in Nat, NEW S \in SUBSET (1 .. n), S # {}
  PROVE  \E x \in S : \A y \in S : y <= x
<1>1. IsFiniteSet(S)
  <2>1. IsFiniteSet(1 .. n)
    BY FS_Interval
  <2>. QED BY <2>1, FS_Subset
<1>. QED BY <1>1, GreatestExists

\* A set of naturals that holds 0, and with every number the next one, holds all of them:
\* otherwise there would be a least number it lacks.
LEMMA Induction ==
  ASSUME NEW A \in SUBSET Nat, 0 \in A, \A n \in A : n + 1 \in A
  PROVE  A = Nat
<1>1. SUFFICES ASSUME NEW m \in Nat, m \notin A PROVE FALSE
  OBVIOUS
<1>. DEFINE S == {n \in 0 .. m : n \notin A}
<1>2. S \in SUBSET Int /\ IsFiniteSet(S) /\ m \in S
  <2>1. IsFiniteSet(0 .. m)
    BY FS_Interval
  <2>. QED BY <1>1, <2>1, FS_Subset
<1>3. PICK x \in S : \A y \in S : x <= y
  <2>. HIDE DEF S
  <2>. QED BY <1>2, LeastExists
<1>4. x \in 1 .. m /\ x - 1 \notin S
  BY <1>3
<1>5. x - 1 \in A
  BY <1>4
<1>. QED BY <1>3, <1>4, <1>5

\* The same up to a bound.
LEMMA InductionTo ==
  ASSUME NEW n \in Nat, NEW A, 0 \in A, \A k \in 0 .. n - 1 : k \in A => k + 1 \in A
  PROVE  \A k \in 0 .. n : k \in A
<1>. DEFINE B == {k \in Nat : k <= n => k \in A}
<1>1. 0 \in B
  OBVIOUS
<1>2. ASSUME NEW k \in B PROVE k + 1 \in B
  <2>1. CASE k + 1 <= n
    <3>1. k \in 0 .. n - 1 /\ k \in A
      BY <2>1
    <3>. QED BY <3>1
  <2>2. CASE ~(k + 1 <= n)
    BY <2>2
  <2>. QED BY <2>1, <2>2
<1>3. B = Nat
  <2>. HIDE DEF B
  <2>1. B \in SUBSET Nat
    BY DEF B
  <2>. QED BY <1>1, <1>2, <2>1, Induction
<1>. QED BY <1>3

-----------------------------------------------------------------------------
(* One sequence after the other *)

\* c is a, and b after it.
Joins(X, c, a, b) ==
  /\ c \in Seq(X) /\ Len(c) = Len(a) + Len(b)
  /\ \A j \in 1 .. Len(a) : c[j] = a[j]
  /\ \A j \in 1 .. Len(b) : c[Len(a) + j] = b[j]

\* What two sequences put together are.
LEMMA Joined ==
  ASSUME NEW X, NEW a \in Seq(X), NEW b \in Seq(X)
  PROVE  Joins(X, a \o b, a, b)
<1>1. a \o b \in Seq(X) /\ Len(a \o b) = Len(a) + Len(b)
  BY ConcatProperties
<1>2. \A j \in 1 .. Len(a) : (a \o b)[j] = a[j]
  OBVIOUS
<1>3. \A j \in 1 .. Len(b) : (a \o b)[Len(a) + j] = b[j]
  OBVIOUS
<1>. QED BY <1>1, <1>2, <1>3 DEF Joins

\* What FlattenSeq computes: the sequences up to each of them, put together.
FlatParts(c, seqs, n) ==
  [i \in 1 .. n |-> IF i = 1 THEN seqs[i] ELSE c[i - 1] \o seqs[i]]

\* FlattenSeq, one sequence after the other.
LEMMA FlatPartsExist ==
  ASSUME NEW seqs, NEW n \in Nat
  PROVE  \E c : c = FlatParts(c, seqs, n)
<1> DEFINE A == {k \in Nat : \E c : c = FlatParts(c, seqs, k)}
<1>1. 0 \in A
  <2>1. PICK c : c = [i \in 1 .. 0 |-> 0]
    OBVIOUS
  <2>2. c = FlatParts(c, seqs, 0)
    BY <2>1 DEF FlatParts
  <2> QED
    BY <2>2
<1>2. ASSUME NEW k \in A PROVE k + 1 \in A
  <2>1. PICK c : c = FlatParts(c, seqs, k)
    OBVIOUS
  <2>2. PICK d : d = [i \in 1 .. k + 1 |->
                        IF i = 1 THEN seqs[i]
                        ELSE IF i = k + 1 THEN c[k] \o seqs[i] ELSE c[i]]
    OBVIOUS
  <2>3. k \in Nat
    OBVIOUS
  <2>4. ASSUME NEW i \in 1 .. k + 1
        PROVE  d[i] = IF i = 1 THEN seqs[i] ELSE d[i - 1] \o seqs[i]
    <3>1. CASE i = 1
      BY <2>2, <2>3, <3>1
    <3>2. CASE i # 1
      <4>1. i - 1 \in 1 .. k + 1 /\ i - 1 \in 1 .. k /\ i - 1 # k + 1
        BY <2>3, <3>2
      <4>2. PICK j : j = i - 1
        OBVIOUS
      <4>3. d[j] = c[j]
        <5>1. CASE j = 1
          <6>1. 1 \in 1 .. k /\ 1 \in 1 .. k + 1
            BY <2>3, <4>1, <4>2, <5>1
          <6>2. d[1] = seqs[1] /\ c[1] = seqs[1]
            BY <2>1, <2>2, <6>1 DEF FlatParts
          <6> QED
            BY <5>1, <6>2
        <5>2. CASE j # 1
          BY <2>2, <4>1, <4>2, <5>2
        <5> QED
          BY <5>1, <5>2
      <4>4. CASE i = k + 1
        <5>1. j = k
          BY <2>3, <4>2, <4>4
        <5>2. d[i] = c[j] \o seqs[i]
          <6>1. i \in 1 .. k + 1 /\ i # 1 /\ i = k + 1
            BY <3>2, <4>4
          <6> QED
            BY <2>2, <5>1, <6>1
        <5> QED
          BY <3>2, <4>2, <4>3, <5>2
      <4>5. CASE i # k + 1
        <5>1. i \in 1 .. k
          BY <2>3, <4>5
        <5>2. d[i] = c[i]
          BY <2>2, <3>2, <4>5
        <5>3. c[i] = c[i - 1] \o seqs[i]
          BY <2>1, <3>2, <5>1 DEF FlatParts
        <5> QED
          BY <3>2, <4>2, <4>3, <5>2, <5>3
      <4> QED
        BY <4>4, <4>5
    <3> QED
      BY <3>1, <3>2
  <2>5. d = FlatParts(d, seqs, k + 1)
    BY <2>2, <2>4 DEF FlatParts
  <2> QED
    BY <2>3, <2>5
<1>3. A = Nat
  <2> HIDE DEF A
  <2>1. A \in SUBSET Nat
    BY DEF A
  <2> QED
    BY <1>1, <1>2, <2>1, Induction
<1> QED
  BY <1>3

Flattens(c, S, seqs, n) ==
  /\ c \in [0 .. n -> Seq(S)]
  /\ c[0] = <<>>
  /\ \A i \in 1 .. n : c[i] = c[i - 1] \o seqs[i]
  /\ FlattenSeq(seqs) = c[n]

\* What it yields up to each of them.
LEMMA FlattenSteps ==
  ASSUME NEW S, NEW seqs \in Seq(Seq(S)), NEW n, n = Len(seqs)
  PROVE  \E c : Flattens(c, S, seqs, n)
<1>1. n \in Nat /\ DOMAIN seqs = 1 .. n /\ \A i \in 1 .. n : seqs[i] \in Seq(S)
  BY LenProperties
<1> DEFINE d == CHOOSE g : g = FlatParts(g, seqs, n)
<1>2. FlattenSeq(seqs) = IF n = 0 THEN seqs ELSE d[n]
  BY DEF FlattenSeq, FlatParts
<1>3. d = FlatParts(d, seqs, n)
  BY <1>1, FlatPartsExist
<1> HIDE DEF d
<1>4. PICK c : c = [i \in 0 .. n |-> IF i = 0 THEN <<>> ELSE d[i]]
  OBVIOUS
<1>5. c[0] = <<>>
  BY <1>1, <1>4
<1>6. \A i \in 1 .. n : c[i] = d[i]
  BY <1>1, <1>4
<1>7. ASSUME NEW i \in 1 .. n
      PROVE  c[i] = c[i - 1] \o seqs[i]
  <2>1. CASE i = 1
    <3>1. c[1] = seqs[1]
      BY <1>3, <1>6, <2>1 DEF FlatParts
    <3>2. <<>> \o seqs[1] = seqs[1]
      BY <1>1, <2>1, ConcatEmptySeq
    <3>3. PICK j : j = i - 1
      OBVIOUS
    <3>4. c[j] = <<>>
      <4>1. j = 0
        BY <2>1, <3>3
      <4> QED
        BY <1>5, <4>1
    <3>5. c[i] = c[j] \o seqs[i]
      BY <2>1, <3>1, <3>2, <3>4
    <3> QED
      BY <3>3, <3>5
  <2>2. CASE i # 1
    <3>1. PICK j : j = i - 1
      OBVIOUS
    <3>2. j \in 1 .. n
      BY <1>1, <2>2, <3>1
    <3>3. d[i] = d[j] \o seqs[i]
      BY <1>3, <2>2, <3>1 DEF FlatParts
    <3> QED
      BY <1>6, <3>1, <3>2, <3>3
  <2> QED
    BY <2>1, <2>2
<1>8. c \in [0 .. n -> Seq(S)]
  <2> DEFINE A == {k \in Nat : k <= n => c[k] \in Seq(S)}
  <2>1. 0 \in A
    BY <1>5, EmptySeq
  <2>2. ASSUME NEW k \in A PROVE k + 1 \in A
    <3>1. SUFFICES ASSUME k + 1 <= n PROVE c[k + 1] \in Seq(S)
      OBVIOUS
    <3>2. k \in Nat /\ c[k] \in Seq(S) /\ k + 1 \in 1 .. n /\ k + 1 - 1 = k
      BY <1>1, <3>1
    <3>3. PICK i \in 1 .. n : i = k + 1
      BY <3>2
    <3>4. PICK j : j = i - 1
      OBVIOUS
    <3>5. j = k
      BY <3>2, <3>3, <3>4
    <3>6. c[i] = c[j] \o seqs[i] /\ seqs[i] \in Seq(S)
      BY <1>1, <1>7, <3>4
    <3>7. c[j] \o seqs[i] \in Seq(S)
      BY <3>2, <3>5, <3>6, ConcatProperties
    <3> QED
      BY <3>3, <3>6, <3>7
  <2>3. A = Nat
    <3> HIDE DEF A
    <3>1. A \in SUBSET Nat
      BY DEF A
    <3> QED
      BY <2>1, <2>2, <3>1, Induction
  <2>4. \A k \in 0 .. n : c[k] \in Seq(S)
    BY <1>1, <2>3
  <2> QED
    BY <1>4, <2>4
<1>9. FlattenSeq(seqs) = c[n]
  <2>1. CASE n = 0
    <3>1. seqs = <<>>
      BY <2>1, EmptySeq
    <3> QED
      BY <1>2, <1>5, <2>1, <3>1
  <2>2. CASE n # 0
    BY <1>1, <1>2, <1>6, <2>2
  <2> QED
    BY <2>1, <2>2
<1> QED
  BY <1>5, <1>7, <1>8, <1>9 DEF Flattens

\* One more sequence goes to the end.
LEMMA FlattenAppend ==
  ASSUME NEW S, NEW seqs \in Seq(Seq(S)), NEW s \in Seq(S)
  PROVE  /\ FlattenSeq(seqs) \in Seq(S)
         /\ FlattenSeq(Append(seqs, s)) = FlattenSeq(seqs) \o s
<1>. DEFINE n == Len(seqs)
            more == Append(seqs, s)
<1>1. n \in Nat /\ more \in Seq(Seq(S)) /\ Len(more) = n + 1 /\ more[n + 1] = s
      /\ \A i \in 1 .. n : more[i] = seqs[i]
  OBVIOUS
<1>. HIDE DEF more
<1>2. PICK c : Flattens(c, S, seqs, n)
  BY FlattenSteps
<1>3. PICK d : Flattens(d, S, more, n + 1)
  BY <1>1, FlattenSteps
<1>. HIDE DEF n
<1>. DEFINE A == {k \in Nat : k <= n => d[k] = c[k]}
<1>4. 0 \in A
  BY <1>2, <1>3 DEF Flattens
<1>5. ASSUME NEW k \in A PROVE k + 1 \in A
  <2>1. SUFFICES ASSUME k + 1 <= n PROVE d[k + 1] = c[k + 1]
    OBVIOUS
  <2>2. PICK i \in 1 .. n : i = k + 1 /\ i - 1 = k
    BY <1>1, <2>1
  <2>3. d[i] = d[i - 1] \o more[i] /\ c[i] = c[i - 1] \o seqs[i]
    <3>1. i \in 1 .. n + 1
      BY <1>1
    <3>2. d[i] = d[i - 1] \o more[i]
      BY <1>3, <3>1 DEF Flattens
    <3>3. c[i] = c[i - 1] \o seqs[i]
      BY <1>2 DEF Flattens
    <3>. QED BY <3>2, <3>3
  <2>4. d[k] = c[k] /\ more[i] = seqs[i]
    BY <1>1, <2>1, <2>2
  <2>. QED BY <2>2, <2>3, <2>4
<1>6. A = Nat
  <2>. HIDE DEF A
  <2>1. A \in SUBSET Nat
    BY DEF A
  <2>. QED BY <1>4, <1>5, <2>1, Induction
<1>7. d[n] = c[n]
  BY <1>1, <1>6
<1>8. d[n + 1] = d[n] \o s
  <2>1. n + 1 \in 1 .. n + 1 /\ n + 1 - 1 = n
    BY <1>1
  <2>2. PICK i \in 1 .. n + 1 : i = n + 1 /\ i - 1 = n
    BY <1>1, <2>1
  <2>3. d[i] = d[i - 1] \o more[i]
    BY <1>3 DEF Flattens
  <2>. QED BY <1>1, <2>2, <2>3
<1>9. c[n] \in Seq(S)
  BY <1>1, <1>2 DEF Flattens
<1>. QED BY <1>2, <1>3, <1>7, <1>8, <1>9 DEF Flattens, more

-----------------------------------------------------------------------------
(* Recursive functions on 0 .. n *)

Stepping(g, X, b, n, step) ==
  /\ g \in [0 .. n -> X]
  /\ g[0] = b
  /\ \A i \in 1 .. n : g[i] = step[i][g[i - 1]]

\* Whatever a step makes of the value before, there is a function that takes the steps
\* one after the other.
LEMMA Recursion ==
  ASSUME NEW X, NEW b \in X, NEW n \in Nat, NEW step \in [1 .. n -> [X -> X]]
  PROVE  \E g : Stepping(g, X, b, n, step)
<1>. DEFINE Goes(g, k) == /\ g \in [0 .. k -> X]
                          /\ g[0] = b
                          /\ \A i \in 1 .. k : g[i] = step[i][g[i - 1]]
            Holds(k) == k <= n => \E g : Goes(g, k)
            A == {k \in Nat : Holds(k)}
<1>1. Holds(0)
  <2>1. Goes([i \in 0 .. 0 |-> b], 0)
    OBVIOUS
  <2>. QED BY <2>1
<1>2. ASSUME NEW k \in Nat, Holds(k) PROVE Holds(k + 1)
  <2>1. SUFFICES ASSUME k + 1 <= n PROVE \E g : Goes(g, k + 1)
    OBVIOUS
  <2>2. k \in Nat /\ k <= n /\ k + 1 \in 1 .. n
    BY <2>1
  <2>3. PICK g : Goes(g, k)
    BY <1>2, <2>2
  <2>4. g[k] \in X /\ step[k + 1] \in [X -> X]
    BY <2>2, <2>3
  <2>5. step[k + 1][g[k]] \in X
    BY <2>4
  <2>6. PICK f : f = [i \in 0 .. k + 1 |-> IF i = k + 1 THEN step[k + 1][g[k]] ELSE g[i]]
    OBVIOUS
  <2>7. f \in [0 .. k + 1 -> X]
    BY <2>2, <2>3, <2>5, <2>6
  <2>8. f[0] = b
    BY <2>2, <2>3, <2>6
  <2>9. ASSUME NEW i \in 1 .. k + 1 PROVE f[i] = step[i][f[i - 1]]
    <3>1. f[i - 1] = g[i - 1]
      <4>1. PICK j \in 0 .. k : j = i - 1
        BY <2>2
      <4>2. f[j] = g[j]
        BY <2>2, <2>6
      <4>. QED BY <4>1, <4>2
    <3>2. CASE i = k + 1
      <4>1. f[k + 1] = step[k + 1][g[k]] /\ i - 1 = k
        BY <2>2, <2>6, <3>2
      <4>. QED BY <3>1, <3>2, <4>1
    <3>3. CASE i # k + 1
      <4>1. i \in 1 .. k /\ f[i] = g[i]
        BY <2>2, <2>6, <3>3
      <4>. QED BY <2>3, <3>1, <4>1
    <3>. QED BY <3>2, <3>3
  <2>. QED BY <2>7, <2>8, <2>9
<1>3. A = Nat
  <2>. HIDE DEF Holds
  <2>1. A \in SUBSET Nat /\ 0 \in A /\ \A k \in A : k + 1 \in A
    BY <1>1, <1>2
  <2>. HIDE DEF A
  <2>. QED BY <2>1, Induction
<1>4. Holds(n)
  <2>. HIDE DEF Holds
  <2>. QED BY <1>3
<1>. QED BY <1>4 DEF Stepping

\* Whatever takes those steps from values of X, and begins in one, never leaves X.
LEMMA StepsStay ==
  ASSUME NEW X, NEW b \in X, NEW n \in Nat, NEW step \in [1 .. n -> [X -> X]], NEW c,
         c = [i \in 0 .. n |-> c[i]], c[0] = b,
         \A i \in 1 .. n : c[i - 1] \in X => c[i] = step[i][c[i - 1]]
  PROVE  Stepping(c, X, b, n, step)
<1>. DEFINE A == {i \in 0 .. n : c[i] \in X}
<1>1. 0 \in A
  OBVIOUS
<1>2. ASSUME NEW k \in 0 .. n - 1, k \in A PROVE k + 1 \in A
  <2>1. PICK m \in 1 .. n : m = k + 1 /\ m - 1 = k
    OBVIOUS
  <2>2. c[m] = step[m][c[k]] /\ c[k] \in X /\ step[m] \in [X -> X]
    BY <1>2, <2>1
  <2>3. c[m] \in X
    BY <2>2
  <2>. QED BY <2>1, <2>3
<1>3. \A i \in 0 .. n : i \in A
  <2>. HIDE DEF A
  <2>. QED BY <1>1, <1>2, InductionTo
<1>4. \A i \in 0 .. n : c[i] \in X
  BY <1>3
<1>5. c \in [0 .. n -> X]
  BY <1>4
<1>6. ASSUME NEW i \in 1 .. n PROVE c[i] = step[i][c[i - 1]]
  <2>1. i - 1 \in 0 .. n
    OBVIOUS
  <2>2. c[i - 1] \in X
    BY <1>4, <2>1
  <2>. QED BY <2>2
<1>. QED BY <1>5, <1>6 DEF Stepping

\* A function defined by recursion up to n.
ByRecursion(g, b, n, step) == g = [i \in 0 .. n |-> IF i = 0 THEN b ELSE step[i][g[i - 1]]]

\* There is one, and each of them takes those steps.
LEMMA RecursionSteps ==
  ASSUME NEW X, NEW b \in X, NEW n \in Nat, NEW step \in [1 .. n -> [X -> X]]
  PROVE  /\ \E g : ByRecursion(g, b, n, step)
         /\ \A g : ByRecursion(g, b, n, step) => Stepping(g, X, b, n, step)
<1>1. PICK g : Stepping(g, X, b, n, step)
  BY Recursion
<1>2. ByRecursion(g, b, n, step)
  <2>1. g = [i \in 0 .. n |-> g[i]]
    BY <1>1 DEF Stepping
  <2>2. \A i \in 0 .. n : g[i] = IF i = 0 THEN b ELSE step[i][g[i - 1]]
    BY <1>1 DEF Stepping
  <2>. QED BY <2>1, <2>2 DEF ByRecursion
<1>3. ASSUME NEW c, ByRecursion(c, b, n, step) PROVE Stepping(c, X, b, n, step)
  <2>1. /\ c = [i \in 0 .. n |-> c[i]] /\ c[0] = b
        /\ \A i \in 1 .. n : c[i] = step[i][c[i - 1]]
    <3>1. PICK d : d = [i \in 0 .. n |-> IF i = 0 THEN b ELSE step[i][c[i - 1]]]
      OBVIOUS
    <3>2. c = d
      BY <1>3, <3>1 DEF ByRecursion
    <3>3. d = [i \in 0 .. n |-> d[i]] /\ d[0] = b /\ \A i \in 1 .. n : d[i] = step[i][c[i - 1]]
      BY <3>1
    <3>. QED BY <3>2, <3>3
  <2>. QED BY <2>1, StepsStay
<1>. QED BY <1>2, <1>3

Grown(X, c, x, n, l) ==
  /\ \A i \in 0 .. n : c[i] \in Seq(X) /\ Len(c[i]) = l + i
  /\ \A i \in 0 .. n : \A j \in 1 .. l + i : c[n][j] = c[i][j]
  /\ \A i \in 1 .. n : c[n][l + i] = x[i]

\* A sequence that grows by one element in every step only ever has elements added.
LEMMA Grows ==
  ASSUME NEW X, NEW n \in Nat, NEW c, NEW x, NEW l \in Nat, c[0] \in Seq(X), Len(c[0]) = l,
         \A i \in 1 .. n : x[i] \in X /\ c[i] = Append(c[i - 1], x[i])
  PROVE  Grown(X, c, x, n, l)
<1>. DEFINE Holds(k) == k <= n => /\ c[k] \in Seq(X) /\ Len(c[k]) = l + k
                                  /\ \A i \in 0 .. k : \A j \in 1 .. l + i : c[k][j] = c[i][j]
                                  /\ \A i \in 1 .. k : c[k][l + i] = x[i]
            A == {k \in Nat : Holds(k)}
<1>0. l \in Nat
  OBVIOUS
<1>1. Holds(0)
  BY <1>0
<1>2. ASSUME NEW k \in Nat, Holds(k) PROVE Holds(k + 1)
  <2>1. SUFFICES ASSUME k + 1 <= n
                 PROVE  /\ c[k + 1] \in Seq(X) /\ Len(c[k + 1]) = l + (k + 1)
                        /\ \A i \in 0 .. k + 1 : \A j \in 1 .. l + i : c[k + 1][j] = c[i][j]
                        /\ \A i \in 1 .. k + 1 : c[k + 1][l + i] = x[i]
    OBVIOUS
  <2>2. PICK m \in 1 .. n : m = k + 1 /\ m - 1 = k
    BY <2>1
  <2>3. c[m] = Append(c[k], x[m]) /\ x[m] \in X
    BY <2>2
  <2>4. /\ c[k] \in Seq(X) /\ Len(c[k]) = l + k
        /\ \A i \in 0 .. k : \A j \in 1 .. l + i : c[k][j] = c[i][j]
        /\ \A i \in 1 .. k : c[k][l + i] = x[i]
    <3>1. k <= n
      BY <2>1
    <3>. QED BY <1>2, <3>1
  <2>5. c[m] \in Seq(X) /\ Len(c[m]) = l + m /\ c[m][l + m] = x[m]
        /\ \A j \in 1 .. l + k : c[m][j] = c[k][j]
    <3>1. PICK s \in Seq(X), y \in X : s = c[k] /\ y = x[m]
      BY <2>3, <2>4
    <3>2. PICK t : t = Append(s, y)
      OBVIOUS
    <3>3. t \in Seq(X) /\ Len(t) = Len(s) + 1 /\ t[Len(s) + 1] = y
          /\ \A j \in 1 .. Len(s) : t[j] = s[j]
      BY <3>2, AppendProperties
    <3>4. t = c[m] /\ Len(s) = l + k /\ Len(s) + 1 = l + m
      <4>1. t = c[m] /\ Len(s) = l + k
        BY <2>3, <2>4, <3>1, <3>2
      <4>2. k \in Int /\ m = k + 1
        BY <2>2
      <4>3. Len(s) + 1 = l + m
        BY <1>0, <4>1, <4>2
      <4>. QED BY <4>1, <4>3
    <3>. QED BY <3>1, <3>3, <3>4
  <2>6. ASSUME NEW i \in 0 .. m, NEW j \in 1 .. l + i PROVE c[m][j] = c[i][j]
    <3>1. CASE i = m
      BY <3>1
    <3>2. CASE i # m
      <4>1. i \in 0 .. k /\ j \in 1 .. l + k
        BY <1>0, <2>2, <3>2
      <4>. QED BY <2>4, <2>5, <4>1
    <3>. QED BY <3>1, <3>2
  <2>7. ASSUME NEW i \in 1 .. m PROVE c[m][l + i] = x[i]
    <3>1. CASE i = m
      BY <2>5, <3>1
    <3>2. CASE i # m
      <4>1. i \in 1 .. k /\ l + i \in 1 .. l + k
        BY <1>0, <2>2, <3>2
      <4>. QED BY <2>4, <2>5, <4>1
    <3>. QED BY <3>1, <3>2
  <2>. QED BY <2>2, <2>5, <2>6, <2>7
<1>3. A = Nat
  <2>. HIDE DEF Holds
  <2>1. A \in SUBSET Nat /\ 0 \in A /\ \A k \in A : k + 1 \in A
    BY <1>1, <1>2
  <2>. HIDE DEF A
  <2>. QED BY <2>1, Induction
<1>4. \A i \in 0 .. n : Holds(i)
  <2>. HIDE DEF Holds
  <2>. QED BY <1>3
<1>5. \A i \in 0 .. n : c[i] \in Seq(X) /\ Len(c[i]) = l + i
  BY <1>4
<1>6. Holds(n)
  <2>. HIDE DEF Holds
  <2>. QED BY <1>4
<1>. QED BY <1>5, <1>6 DEF Grown

-----------------------------------------------------------------------------
(* Quotients and remainders *)

\* A number by its quotient and its remainder.
LEMMA Quotient ==
  ASSUME NEW x \in Nat, NEW r \in Nat \ {0}
  PROVE  x \div r \in Nat /\ x % r \in 0 .. r - 1 /\ x = r * (x \div r) + (x % r)
OBVIOUS

\* Both of them by name.
LEMMA QuotientParts ==
  ASSUME NEW x \in Nat, NEW r \in Nat \ {0}
  PROVE  \E q \in Nat, d \in 0 .. r - 1 : q = x \div r /\ d = x % r /\ x = r * q + d
<1>1. x \div r \in Nat /\ x % r \in 0 .. r - 1 /\ x = r * (x \div r) + (x % r)
  BY Quotient
<1>. QED BY <1>1

\* What a number is made of, it is made of in one way.
LEMMA QuotientIs ==
  ASSUME NEW m \in Nat \ {0}, NEW s \in Nat, NEW f \in 0 .. m - 1, NEW y, y = m * s + f
  PROVE  y \div m = s /\ y % m = f
<1>1. y \in Nat
  OBVIOUS
<1>2. PICK t \in Nat, g \in 0 .. m - 1 : t = y \div m /\ g = y % m /\ y = m * t + g
  BY <1>1, Quotient
<1>3. ASSUME t < s PROVE FALSE
  <2>1. m * s >= m * (t + 1) /\ m * (t + 1) = m * t + m
    BY <1>3
  <2>. QED BY <1>2, <2>1
<1>4. ASSUME s < t PROVE FALSE
  <2>1. m * t >= m * (s + 1) /\ m * (s + 1) = m * s + m
    BY <1>4
  <2>. QED BY <1>2, <2>1
<1>5. t = s
  BY <1>3, <1>4
<1>. QED BY <1>2, <1>5

\* What is less than a divisor is its own remainder.
LEMMA SmallRemainder ==
  ASSUME NEW m \in Nat \ {0}, NEW v \in 0 .. m - 1
  PROVE  v % m = v
<1>1. v \in Nat /\ v < m
  OBVIOUS
<1>2. PICK q \in Nat, r \in 0 .. m - 1 : q = v \div m /\ r = v % m /\ v = m * q + r
  BY <1>1, Quotient
<1>3. q = 0
  <2>1. q # 0 => m * q >= m
    OBVIOUS
  <2>2. PICK x \in Nat : x = m * q
    OBVIOUS
  <2>. QED BY <1>1, <1>2, <2>1, <2>2
<1>4. m * q = 0
  BY <1>3
<1>. QED BY <1>2, <1>4

\* Dividing twice.
LEMMA DivDiv ==
  ASSUME NEW x \in Nat, NEW a \in Nat \ {0}, NEW b \in Nat \ {0}
  PROVE  x \div (a * b) = (x \div a) \div b
<1>1. PICK q \in Nat, d \in 0 .. a - 1 : q = x \div a /\ x = a * q + d
  <2>1. x \div a \in Nat /\ x % a \in 0 .. a - 1 /\ x = a * (x \div a) + (x % a)
    OBVIOUS
  <2>. QED BY <2>1
<1>2. PICK r \in Nat, e \in 0 .. b - 1 : r = q \div b /\ q = b * r + e
  <2>1. q \div b \in Nat /\ q % b \in 0 .. b - 1 /\ q = b * (q \div b) + (q % b)
    OBVIOUS
  <2>. QED BY <2>1
<1>3. PICK c \in Nat : c = a * b /\ c > 0
  <2>1. a * b \in Nat /\ a * b > 0
    OBVIOUS
  <2>. QED BY <2>1
<1>4. x = c * r + (a * e + d)
  <2>1. PICK u \in Nat, v \in Nat : u = b * r /\ v = a * e
    BY <1>2
  <2>2. a * (u + e) = a * u + v
    BY <2>1
  <2>3. a * (b * r) = (a * b) * r
    OBVIOUS
  <2>4. a * q = c * r + v
    BY <1>2, <1>3, <2>1, <2>2, <2>3
  <2>. QED BY <1>1, <2>1, <2>4
<1>5. a * e + d \in 0 .. c - 1
  <2>1. a * e <= a * (b - 1) /\ a * e \in Nat
    BY <1>2
  <2>2. a * (b - 1) = a * b - a
    OBVIOUS
  <2>. QED BY <1>1, <1>3, <2>1, <2>2
<1>6. x \div c = r
  BY <1>3, <1>4, <1>5, QuotientIs
<1>. QED BY <1>1, <1>2, <1>3, <1>6
=============================================================================
