----------------------------- MODULE ListLemmas -----------------------------
(***************************************************************************)
(* Lemmas about numbers, lists and folds that the proofs share.            *)
(***************************************************************************)
EXTENDS Integers, SequencesExt, FiniteSetTheorems, WellFoundedInduction, TLAPS

-----------------------------------------------------------------------------
(* Numbers.                                                                *)

\* A set of natural numbers that is not empty has a least element.
LEMMA Least ==
  ASSUME NEW T \in SUBSET Nat, T # {}
  PROVE  \E x \in T : \A y \in T : x <= y
  <1> DEFINE R == {ss \in Nat \X Nat : ss[1] < ss[2]}
  <1>1. IsWellFoundedOn(R, Nat)
    BY NatLessThanWellFounded, Zenon DEF OpToRel
  <1>2. \A x \in T, y \in T : y < x => <<y, x>> \in R
    OBVIOUS
  <1> HIDE DEF R
  <1>3. PICK x \in T : \A y \in T : ~(<<y, x>> \in R)
    BY <1>1, WFMin, Zenon
  <1>4. \A y \in T : ~(y < x)
    BY <1>2, <1>3
  <1> QED BY <1>4

\* If it is bounded it has a greatest, which is its Max.
LEMMA Greatest ==
  ASSUME NEW T \in SUBSET Nat, T # {}, NEW m \in Nat, \A x \in T : x <= m
  PROVE  Max(T) \in T /\ \A x \in T : x <= Max(T)
  <1> DEFINE U == {n \in Nat : \A x \in T : x <= n}
  <1>1. U \in SUBSET Nat /\ U # {}
    OBVIOUS
  <1>2. PICK n \in U : \A u \in U : n <= u
    BY <1>1, Least
  <1>3. n \in Nat /\ \A x \in T : x <= n /\ x \in Nat
    OBVIOUS
  <1>4. n \in T
    <2>1. SUFFICES ASSUME n \notin T PROVE FALSE
      OBVIOUS
    <2>2. \A x \in T : x <= n - 1 /\ n - 1 \in Nat
      BY <2>1, <1>3
    <2>3. n - 1 \in U
      BY <2>2
    <2> QED BY <2>3, <1>2, <1>3
  <1>5. \E x \in T : \A y \in T : x >= y
    BY <1>3, <1>4
  <1>6. Max(T) = CHOOSE x \in T : \A y \in T : x >= y
    BY Zenon DEF Max
  <1>7. Max(T) \in T /\ \A y \in T : Max(T) >= y
    BY <1>5, <1>6, Zenon
  <1> QED BY <1>3, <1>7

\* The greatest of the first numbers.
LEMMA MaxOfFirst ==
  ASSUME NEW n \in Nat \ {0}
  PROVE  Max(1 .. n) = n
  <1>1. /\ 1 .. n \in SUBSET Nat /\ 1 .. n # {}
        /\ \A x \in 1 .. n : x <= n
    OBVIOUS
  <1>2. Max(1 .. n) \in 1 .. n /\ \A x \in 1 .. n : x <= Max(1 .. n)
    BY <1>1, Greatest
  <1>3. n \in 1 .. n
    OBVIOUS
  <1> DEFINE m == Max(1 .. n)
  <1>4. m \in 1 .. n /\ n <= m
    BY <1>2, <1>3
  <1>5. m = n
    <2> HIDE DEF m
    <2> QED BY <1>4
  <1> QED BY <1>5

\* Induction along the first numbers, for what holds of the members of a set.
LEMMA Climb ==
  ASSUME NEW n \in Nat, NEW Good, 0 \in Good,
         \A i \in 1 .. n : i - 1 \in Good => i \in Good
  PROVE  0 .. n \subseteq Good
  <1> DEFINE Bad == {i \in 0 .. n : i \notin Good}
  <1>1. SUFFICES ASSUME Bad # {} PROVE FALSE
    OBVIOUS
  <1>2. Bad \in SUBSET Nat
    OBVIOUS
  <1>3. PICK i \in Bad : \A j \in Bad : i <= j
    <2> HIDE DEF Bad
    <2> QED BY <1>1, <1>2, Least
  <1>4. i \in 1 .. n /\ i - 1 \in 0 .. n /\ i - 1 \notin Bad
    BY <1>3
  <1> QED BY <1>3, <1>4

\* Induction along the first numbers, from all the earlier ones.
LEMMA ClimbAll ==
  ASSUME NEW n \in Nat, NEW Good, 0 \in Good,
         \A i \in 1 .. n : (\A j \in 0 .. i - 1 : j \in Good) => i \in Good
  PROVE  n \in Good
  <1> DEFINE Bad == {i \in 0 .. n : i \notin Good}
  <1>1. SUFFICES ASSUME Bad # {} PROVE FALSE
    <2>1. n \in 0 .. n
      OBVIOUS
    <2> QED BY <2>1
  <1>2. Bad \in SUBSET Nat
    OBVIOUS
  <1>3. PICK i \in Bad : \A j \in Bad : i <= j
    <2> HIDE DEF Bad
    <2> QED BY <1>1, <1>2, Least
  <1>4. i \in 1 .. n /\ \A j \in 0 .. i - 1 : j \in Good
    BY <1>3
  <1> QED BY <1>3, <1>4

\* The lesser of two numbers is one of them and above neither.
LEMMA MinOfTwo ==
  ASSUME NEW a \in Nat, NEW b \in Nat
  PROVE  Min({a, b}) = IF a <= b THEN a ELSE b
  <1>1. Min({a, b}) = CHOOSE x \in {a, b} : \A y \in {a, b} : x <= y
    BY Zenon DEF Min
  <1>2. \E x \in {a, b} : \A y \in {a, b} : x <= y
    OBVIOUS
  <1>3. /\ Min({a, b}) \in {a, b}
        /\ \A y \in {a, b} : Min({a, b}) <= y
    BY <1>1, <1>2, Zenon
  <1> QED BY <1>3

\* A bounded set of numbers is finite.
LEMMA BoundedFinite ==
  ASSUME NEW m \in Nat, NEW keys \in SUBSET (1 .. m)
  PROVE  IsFiniteSet(keys) /\ Cardinality(keys) \in Nat
  <1>1. IsFiniteSet(1 .. m)
    BY FS_Interval
  <1> QED BY <1>1, FS_Subset, FS_CardinalityType

-----------------------------------------------------------------------------
(* Sequences of the members of a set.                                      *)

\* SetToSeqs leaves no member out.
LEMMA Permuted ==
  ASSUME NEW S, IsFiniteSet(S), NEW f \in SetToSeqs(S)
  PROVE  f \in Seq(S) /\ \A x \in S : \E i \in DOMAIN f : f[i] = x
  <1> DEFINE D == 1 .. Cardinality(S)
  <1>1. Cardinality(S) \in Nat
    BY FS_CardinalityType
  <1>2. f \in [D -> S] /\ \A i, j \in D : i # j => f[i] # f[j]
    BY DEF SetToSeqs
  <1>3. f \in Injection(D, S)
    BY <1>2, Zenon DEF Injection, IsInjective
  <1>4. Cardinality(D) = Cardinality(S)
    BY <1>1, FS_Interval
  <1>5. f \in Surjection(D, S)
    BY <1>3, <1>4, FS_Injection
  <1>6. \A x \in S : \E i \in DOMAIN f : f[i] = x
    BY <1>2, <1>5 DEF Surjection
  <1>7. f \in Seq(S)
    BY <1>1, <1>2
  <1> QED BY <1>6, <1>7

\* Functions of the first numbers are sequences, which are put together.
LEMMA FunctionIsSeq ==
  ASSUME NEW S, NEW n \in Nat, NEW f \in [1 .. n -> S]
  PROVE  f \in Seq(S) /\ Len(f) = n /\ DOMAIN f = 1 .. n
  OBVIOUS

\* What a concatenation holds at each of its places.
LEMMA ConcatIs ==
  ASSUME NEW S, NEW f \in Seq(S), NEW g \in Seq(S), NEW h, h = f \o g
  PROVE  /\ h \in Seq(S) /\ Len(h) = Len(f) + Len(g)
         /\ \A i \in 1 .. Len(f) : h[i] = f[i]
         /\ \A i \in 1 .. Len(h) : i > Len(f) => h[i] = g[i - Len(f)] /\ i - Len(f) \in 1 .. Len(g)
  OBVIOUS

\* What a sequence is.
LEMMA SeqIs ==
  ASSUME NEW S, NEW s \in Seq(S)
  PROVE  Len(s) \in Nat /\ DOMAIN s = 1 .. Len(s) /\ \A i \in 1 .. Len(s) : s[i] \in S
  OBVIOUS

-----------------------------------------------------------------------------
(* Folds.  FoldLeft is a recursion over sets of indices; its value is the  *)
(* last of its accumulators.                                               *)

\* f is the recursion of a left fold over all sets of the first n indices.
Folds(f, n, step, base, s) ==
  f = [S \in SUBSET (1 .. n) |->
         IF S = {} THEN base ELSE step[<<f[S \ {Max(S)}], s[Max(S)]>>]]

\* That recursion has a solution, whose values are accumulators.
LEMMA FoldExists ==
  ASSUME NEW A, NEW E, NEW step \in [A \X E -> A], NEW base \in A, NEW s \in Seq(E)
  PROVE  \E f \in [SUBSET DOMAIN s -> A] : Folds(f, Len(s), step, base, s)
  <1> DEFINE Bad == {n \in 0 .. Len(s) :
                       ~\E f \in [SUBSET (1 .. n) -> A] : Folds(f, n, step, base, s)}
  <1>1. SUFFICES ASSUME Bad # {} PROVE FALSE
    <2>1. Len(s) \in 0 .. Len(s) /\ DOMAIN s = 1 .. Len(s)
      OBVIOUS
    <2> QED BY <2>1
  <1>0. Bad \in SUBSET Nat
    OBVIOUS
  <1>2. PICK n \in Bad : \A m \in Bad : n <= m
    <2> HIDE DEF Bad
    <2> QED BY <1>0, <1>1, Least
  <1>3. CASE n = 0
    <2> DEFINE f == [S \in SUBSET (1 .. 0) |-> base]
    <2>1. f \in [SUBSET (1 .. n) -> A] /\ \A S \in SUBSET (1 .. n) : S = {}
      BY <1>3
    <2>2. Folds(f, n, step, base, s)
      BY <1>3, <2>1 DEF Folds
    <2> QED BY <2>1, <2>2
  <1>4. CASE n # 0
    <2>0. n \in 0 .. Len(s) /\ n - 1 \notin Bad
      <3>1. n \in 0 .. Len(s)
        OBVIOUS
      <3> HIDE DEF Bad
      <3> QED BY <1>2, <3>1
    <2>1. n - 1 \in 0 .. Len(s) /\ n - 1 \notin Bad /\ n \in 1 .. Len(s)
      <3> HIDE DEF Bad
      <3>1. Len(s) \in Nat
        OBVIOUS
      <3> QED BY <2>0, <3>1, <1>4
    <2>2. PICK f \in [SUBSET (1 .. (n - 1)) -> A] : Folds(f, n - 1, step, base, s)
      BY <2>1
    <2> HIDE DEF Bad
    <2> DEFINE g == [S \in SUBSET (1 .. n) |->
                       IF n \in S THEN step[<<f[S \ {n}], s[n]>>] ELSE f[S]]
    <2>3. /\ \A S \in SUBSET (1 .. n) : S \ {n} \in SUBSET (1 .. (n - 1))
          /\ \A S \in SUBSET (1 .. n) : n \notin S => S \in SUBSET (1 .. (n - 1))
      BY <2>1
    <2>4. s[n] \in E
      BY <2>1
    <2>5. g \in [SUBSET (1 .. n) -> A]
      <3>1. ASSUME NEW S \in SUBSET (1 .. n)
            PROVE  (IF n \in S THEN step[<<f[S \ {n}], s[n]>>] ELSE f[S]) \in A
        BY <2>3, <2>4
      <3> QED BY <3>1
    <2>6. ASSUME NEW S \in SUBSET (1 .. n), S # {}
          PROVE  g[S] = step[<<g[S \ {Max(S)}], s[Max(S)]>>]
      <3>1. S \in SUBSET Nat /\ (\A x \in S : x <= n) /\ n \in Nat
        BY <2>1
      <3>2. Max(S) \in S /\ \A x \in S : x <= Max(S)
        BY <2>6, <3>1, Greatest
      <3>3. CASE n \in S
        <4>1. Max(S) = n
          <5> DEFINE m == Max(S)
          <5>1. m \in Nat /\ n \in Nat /\ m <= n /\ n <= m
            BY <3>1, <3>2, <3>3
          <5>2. m = n
            <6> HIDE DEF m
            <6> QED BY <5>1
          <5> QED BY <5>2
        <4>2. g[S \ {n}] = f[S \ {n}]
          BY <2>3
        <4> QED BY <3>3, <4>1, <4>2
      <3>4. CASE n \notin S
        <4>1. /\ S \in SUBSET (1 .. (n - 1)) /\ S \ {Max(S)} \in SUBSET (1 .. (n - 1))
              /\ n \notin S \ {Max(S)}
          BY <2>3, <3>4
        <4>2. g[S] = f[S] /\ g[S \ {Max(S)}] = f[S \ {Max(S)}]
          BY <3>4, <4>1
        <4>3. f[S] = step[<<f[S \ {Max(S)}], s[Max(S)]>>]
          BY <2>2, <2>6, <4>1 DEF Folds
        <4> QED BY <4>2, <4>3
      <3> QED BY <3>3, <3>4
    <2>7. g[{}] = base
      <3>1. {} \in SUBSET (1 .. (n - 1)) /\ {} \in SUBSET (1 .. n)
        OBVIOUS
      <3>2. f[{}] = base
        BY <2>2, <3>1 DEF Folds
      <3> QED BY <3>1, <3>2
    <2> HIDE DEF g
    <2>8. Folds(g, n, step, base, s)
      <3>1. g = [S \in SUBSET (1 .. n) |-> g[S]]
        BY <2>5
      <3>2. [S \in SUBSET (1 .. n) |-> g[S]]
              = [S \in SUBSET (1 .. n) |->
                   IF S = {} THEN base ELSE step[<<g[S \ {Max(S)}], s[Max(S)]>>]]
        BY <2>6, <2>7
      <3> QED BY <3>1, <3>2 DEF Folds
    <2> QED BY <2>5, <2>8 DEF Bad
  <1> QED BY <1>3, <1>4

\* The values of a recursion over sets of indices along the sequence.
Samples(acc, iter, n) == \A i \in 0 .. n : acc[i] = iter[1 .. i]

FoldSteps(acc, iter, n) ==
  /\ acc[0] = iter[{}]
  /\ \A i \in 1 .. n :
       /\ 1 .. i \in SUBSET (1 .. n) /\ 1 .. i # {} /\ Max(1 .. i) = i
       /\ acc[i] = iter[1 .. i]
       /\ acc[i - 1] = iter[(1 .. i) \ {Max(1 .. i)}]

\* The samples of a fold are its steps, each made from the one before.
LEMMA FoldAccumulates ==
  ASSUME NEW n \in Nat, NEW iter, NEW acc, Samples(acc, iter, n)
  PROVE  FoldSteps(acc, iter, n)
  <1> USE DEF Samples, FoldSteps
  <1>1. 1 .. 0 = {} /\ 0 \in 0 .. n
    OBVIOUS
  <1>2. ASSUME NEW i \in 1 .. n
        PROVE  /\ 1 .. i \in SUBSET (1 .. n) /\ 1 .. i # {} /\ Max(1 .. i) = i
               /\ acc[i] = iter[1 .. i]
               /\ acc[i - 1] = iter[(1 .. i) \ {Max(1 .. i)}]
    <2>1. i \in Nat \ {0} /\ i \in 0 .. n /\ i - 1 \in 0 .. n
      OBVIOUS
    <2>2. Max(1 .. i) = i
      BY <2>1, MaxOfFirst
    <2>3. (1 .. i) \ {i} = 1 .. (i - 1)
      OBVIOUS
    <2>4. 1 .. i \in SUBSET (1 .. n) /\ 1 .. i # {}
      OBVIOUS
    <2> QED BY <2>1, <2>2, <2>3, <2>4
  <1> QED BY <1>1, <1>2

\* The accumulators of a fold, whose recursion over sets of indices is iter.
RunsOver(acc, A, step, base, s) ==
  /\ acc \in [0 .. Len(s) -> A] /\ acc[0] = base
  /\ \A i \in 1 .. Len(s) : acc[i] = step[<<acc[i - 1], s[i]>>]

Accumulates(iter, A, step, base, s) ==
  \E acc : RunsOver(acc, A, step, base, s) /\ acc[Len(s)] = iter[DOMAIN s]

FoldOf(iter, A, E, step, base, s) ==
  /\ step \in [A \X E -> A] /\ base \in A /\ s \in Seq(E)
  /\ iter[{}] = base
  /\ \A S \in SUBSET DOMAIN s :
       S # {} /\ iter[S \ {Max(S)}] \in A =>
         iter[S] = step[<<iter[S \ {Max(S)}], s[Max(S)]>>]

LEMMA FoldRuns ==
  ASSUME NEW A, NEW E, NEW step, NEW base, NEW s, NEW iter, FoldOf(iter, A, E, step, base, s)
  PROVE  Accumulates(iter, A, step, base, s)
  <1> DEFINE n == Len(s)
             acc == [i \in 0 .. n |-> iter[1 .. i]]
             Good == {i \in 0 .. n : acc[i] \in A}
  <1>0. base \in A /\ s \in Seq(E) /\ step \in [A \X E -> A]
    BY DEF FoldOf
  <1>1. n \in Nat /\ DOMAIN s = 1 .. n /\ \A i \in 1 .. n : s[i] \in E
    BY <1>0, SeqIs
  <1>2. FoldSteps(acc, iter, n)
    <2>1. Samples(acc, iter, n)
      BY DEF Samples
    <2> HIDE DEF n, acc
    <2> QED BY <1>1, <2>1, FoldAccumulates
  <1>3. acc[n] = iter[DOMAIN s] /\ acc = [i \in 0 .. n |-> acc[i]]
    BY <1>1
  <1> HIDE DEF acc, n
  <1>4. acc[0] = base
    BY <1>2 DEF FoldSteps, FoldOf
  <1>5. ASSUME NEW i \in 1 .. n, acc[i - 1] \in A
        PROVE  acc[i] = step[<<acc[i - 1], s[i]>>]
    <2>1. /\ 1 .. i \in SUBSET DOMAIN s /\ 1 .. i # {} /\ Max(1 .. i) = i
          /\ acc[i] = iter[1 .. i] /\ acc[i - 1] = iter[(1 .. i) \ {Max(1 .. i)}]
      BY <1>1, <1>2 DEF FoldSteps
    <2>2. iter[1 .. i] = step[<<iter[(1 .. i) \ {Max(1 .. i)}], s[Max(1 .. i)]>>]
      BY <1>5, <2>1 DEF FoldOf
    <2> QED BY <2>1, <2>2
  <1>6. 0 .. n \subseteq Good
    <2>1. 0 \in Good
      BY <1>0, <1>1, <1>4
    <2>2. ASSUME NEW i \in 1 .. n, i - 1 \in Good PROVE i \in Good
      <3>1. acc[i - 1] \in A /\ s[i] \in E /\ i \in 0 .. n
        BY <1>1, <2>2
      <3>2. acc[i] = step[<<acc[i - 1], s[i]>>]
        BY <1>5, <3>1
      <3> QED BY <1>0, <3>1, <3>2
    <2> HIDE DEF Good
    <2> QED BY <1>1, <2>1, <2>2, Climb
  <1>7. acc \in [0 .. n -> A]
    BY <1>3, <1>6
  <1>8. \A i \in 1 .. n : acc[i] = step[<<acc[i - 1], s[i]>>]
    <2> TAKE i \in 1 .. n
    <2>1. i - 1 \in 0 .. n
      BY <1>1
    <2> QED BY <1>5, <1>7, <2>1
  <1>9. RunsOver(acc, A, step, base, s)
    BY <1>4, <1>7, <1>8 DEF RunsOver, n
  <1>10. acc[Len(s)] = iter[DOMAIN s]
    BY <1>3 DEF n
  <1> QED BY <1>9, <1>10 DEF Accumulates

=============================================================================
