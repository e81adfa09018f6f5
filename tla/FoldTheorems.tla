------------------------------ MODULE FoldTheorems -----------------------------
(***************************************************************************)
(* FoldLeft on sequences, for every operator: what it gives for the empty   *)
(* sequence, for one more element and for a concatenation, and what it      *)
(* stays in.  A module that folds with an operator of its own takes an      *)
(* INSTANCE with that operator for Op; c is whatever the operator depends   *)
(* on besides the accumulator and the element.                              *)
(***************************************************************************)
EXTENDS Integers, Sequences, Folds

LOCAL INSTANCE TLAPS

CONSTANT Op(_, _, _)

\* The largest of a set of indices, as FoldLeft takes it.
Top(S) == CHOOSE x \in S : \A y \in S : x >= y

\* FoldLeft(LAMBDA a, e : Op(c, a, e), base, s), one definition further down.
Fold(c, base, s) == MapThenFoldSet(LAMBDA e, a : Op(c, a, e), base, LAMBDA i : s[i], Top, DOMAIN s)

--------------------------------------------------------------------------------
(* Induction.                                                               *)

\* Induction on the naturals.  The theorems ask for it as a hypothesis, so that an INSTANCE
\* of this module does not carry the theorems that it is proved from; a module that takes
\* one proves it from WellFoundedInduction.
Inductive == \A I : 0 \in I /\ (\A n \in Nat : n \in I => n + 1 \in I) => Nat \subseteq I

\* A set of naturals that is not empty has a smallest element.
LEMMA LeastElement ==
  ASSUME Inductive, NEW S, S \subseteq Nat, S # {}
  PROVE  \E m \in S : \A n \in S : m <= n
  <1> DEFINE I == {n \in Nat : \A m \in 0 .. n : m \notin S}
  <1>1. SUFFICES ASSUME \A m \in S : \E n \in S : ~(m <= n) PROVE FALSE
    OBVIOUS
  <1>2. 0 \in I
    BY <1>1
  <1>3. ASSUME NEW n \in Nat, n \in I PROVE n + 1 \in I
    <2>1. \A m \in 0 .. n + 1 : m \in 0 .. n \/ m = n + 1
      OBVIOUS
    <2>2. n + 1 \notin S
      BY <1>1, <1>3
    <2> QED BY <1>3, <2>1, <2>2
  <1>4. Nat \subseteq I
    BY <1>2, <1>3 DEF Inductive
  <1>5. PICK x \in S : x \in Nat
    OBVIOUS
  <1>6. x \in I /\ x \in 0 .. x
    BY <1>4, <1>5
  <1> QED BY <1>5, <1>6

--------------------------------------------------------------------------------
(* The function that MapThenFoldSet defines by recursion on sets of indices. *)

\* A bounded set of indices that is not empty has a largest, which Max chooses.
LEMMA MaxOf ==
  ASSUME Inductive, NEW n \in Nat, NEW S, S \subseteq 1 .. n, S # {}
  PROVE  Top(S) \in S /\ \A x \in S : x <= Top(S)
  <1> DEFINE D == {d \in Nat : n - d \in S}
  <1>1. \A x \in S : n - x \in D
    OBVIOUS
  <1>2. PICK d \in D : \A e \in D : d <= e
    BY <1>1, LeastElement
  <1>3. n - d \in S /\ \A x \in S : n - d >= x
    BY <1>1, <1>2
  <1> QED BY <1>3 DEF Top

\* There is only one.
LEMMA MaxIsMax ==
  ASSUME Inductive, NEW n \in Nat, NEW S, S \subseteq 1 .. n, NEW m \in S, \A x \in S : x <= m
  PROVE  Top(S) = m
  <1>1. Top(S) \in S /\ \A x \in S : x <= Top(S)
    BY MaxOf
  <1>2. m <= Top(S) /\ Top(S) <= m
    BY <1>1
  <1>3. Top(S) \in 1 .. n /\ m \in 1 .. n
    BY <1>1
  <1> HIDE DEF Top
  <1> QED BY <1>2, <1>3

\* The equation of that function, for the sequence s and indices up to n.
IsIter(c, it, base, s, n) ==
  it = [S \in SUBSET (1 .. n) |-> IF S = {} THEN base ELSE Op(c, it[S \ {Top(S)}], s[Top(S)])]

\* For every n a function satisfies it: the next one adds the sets that have n + 1.
LEMMA IterExists ==
  ASSUME Inductive, NEW c, NEW base, NEW s
  PROVE  \A n \in Nat : \E it : IsIter(c, it, base, s, n)
  <1> DEFINE I == {n \in Nat : \E it : IsIter(c, it, base, s, n)}
  <1>1. 0 \in I
    <2> DEFINE it == [S \in SUBSET (1 .. 0) |-> base]
    <2>1. 1 .. 0 = {}
      OBVIOUS
    <2>2. \A S \in SUBSET (1 .. 0) : S = {}
      BY <2>1
    <2>3. IsIter(c, it, base, s, 0)
      BY <2>2 DEF IsIter
    <2> QED BY <2>3
  <1>2. ASSUME NEW n \in Nat, n \in I
        PROVE  n + 1 \in I
    <2>1. PICK it : IsIter(c, it, base, s, n)
      BY <1>2
    <2> DEFINE nx == [S \in SUBSET (1 .. n + 1) |->
                        IF n + 1 \in S THEN Op(c, it[S \ {n + 1}], s[n + 1]) ELSE it[S]]
    <2>2. ASSUME NEW S \in SUBSET (1 .. n + 1)
          PROVE  nx[S] = IF S = {} THEN base ELSE Op(c, nx[S \ {Top(S)}], s[Top(S)])
      <3>1. CASE n + 1 \in S
        <4>1. Top(S) = n + 1
          BY <3>1, MaxIsMax, n + 1 \in Nat, \A x \in S : x <= n + 1
        <4>2. nx[S \ {n + 1}] = it[S \ {n + 1}]
          OBVIOUS
        <4> QED BY <3>1, <4>1, <4>2
      <3>2. CASE n + 1 \notin S
        <4>1. S \in SUBSET (1 .. n)
          BY <3>2
        <4>2. nx[S] = it[S]
          BY <3>2
        <4>3. it[S] = IF S = {} THEN base ELSE Op(c, it[S \ {Top(S)}], s[Top(S)])
          BY <2>1, <4>1 DEF IsIter
        <4>4. n + 1 \notin S \ {Top(S)} /\ S \ {Top(S)} \in SUBSET (1 .. n + 1)
          BY <3>2
        <4>5. nx[S \ {Top(S)}] = it[S \ {Top(S)}]
          BY <4>4
        <4> QED BY <4>2, <4>3, <4>5
      <3> QED BY <3>1, <3>2
    <2>3. IsIter(c, nx, base, s, n + 1)
      BY <2>2 DEF IsIter
    <2> QED BY <2>3
  <1> QED BY <1>1, <1>2, Inductive DEF Inductive

\* Functions that satisfy it agree as far as their sequences do.
LEMMA IterUnique ==
  ASSUME Inductive, NEW c, NEW base, NEW s, NEW u, NEW n \in Nat, NEW m \in Nat, NEW a, NEW b,
         IsIter(c, a, base, s, n), IsIter(c, b, base, u, m),
         n <= m, \A i \in 1 .. n : s[i] = u[i]
  PROVE  \A S \in SUBSET (1 .. n) : a[S] = b[S]
  <1> DEFINE I == {k \in Nat : k <= n => \A S \in SUBSET (1 .. k) : a[S] = b[S]}
  <1>0. \A S \in SUBSET (1 .. n) :
          /\ a[S] = IF S = {} THEN base ELSE Op(c, a[S \ {Top(S)}], s[Top(S)])
          /\ b[S] = IF S = {} THEN base ELSE Op(c, b[S \ {Top(S)}], u[Top(S)])
    <2>1. \A S \in SUBSET (1 .. n) : S \in SUBSET (1 .. m)
      OBVIOUS
    <2> QED BY <2>1 DEF IsIter
  <1>1. 0 \in I
    <2>1. \A S \in SUBSET (1 .. 0) : S = {} /\ S \in SUBSET (1 .. n)
      OBVIOUS
    <2> QED BY <2>1, <1>0
  <1>2. ASSUME NEW k \in Nat, k \in I
        PROVE  k + 1 \in I
    <2>0. SUFFICES ASSUME k + 1 <= n, NEW S \in SUBSET (1 .. k + 1)
                   PROVE  a[S] = b[S]
      <3>1. (k + 1 <= n => \A S \in SUBSET (1 .. k + 1) : a[S] = b[S]) => k + 1 \in I
        OBVIOUS
      <3> QED BY <3>1
    <2>1. S \in SUBSET (1 .. n)
      BY <2>0
    <2>2. CASE S = {}
      BY <1>0, <2>1, <2>2
    <2>3. CASE S # {}
      <3>1. Top(S) \in S /\ \A x \in S : x <= Top(S)
        BY <2>1, <2>3, MaxOf
      <3>2. S \ {Top(S)} \in SUBSET (1 .. k)
        <4>1. ASSUME NEW x \in S, x # Top(S)
              PROVE  x \in 1 .. k
          <5>1. x \in 1 .. k + 1 /\ Top(S) \in 1 .. k + 1 /\ x <= Top(S)
            BY <3>1
          <5> QED BY <4>1, <5>1
        <4> QED BY <4>1
      <3>3. a[S \ {Top(S)}] = b[S \ {Top(S)}]
        BY <2>0, <3>2, <1>2
      <3>4. s[Top(S)] = u[Top(S)]
        BY <2>1, <3>1
      <3> QED BY <1>0, <2>1, <2>3, <3>3, <3>4
    <2> QED BY <2>2, <2>3
  <1>3. n \in I
    BY <1>1, <1>2, Inductive DEF Inductive
  <1> QED BY <1>3

\* A fold is the value of such a function at the set of all indices.
LEMMA FoldIsIter ==
  ASSUME Inductive, NEW c, NEW E, NEW base, NEW s \in Seq(E)
  PROVE  \E it : IsIter(c, it, base, s, Len(s)) /\ Fold(c, base, s) = it[1 .. Len(s)]
  <1> DEFINE n == Len(s)
             it == CHOOSE it :
                     it = [S \in SUBSET (1 .. n) |->
                             IF S = {} THEN base ELSE Op(c, it[S \ {Top(S)}], s[Top(S)])]
  <1>1. DOMAIN s = 1 .. n /\ n \in Nat
    OBVIOUS
  <1>2. Fold(c, base, s) = it[1 .. n]
    BY <1>1 DEF Fold, MapThenFoldSet
  <1>3. \E x : IsIter(c, x, base, s, n)
    BY <1>1, IterExists
  <1>4. IsIter(c, it, base, s, n)
    BY <1>3 DEF IsIter
  <1> QED BY <1>2, <1>4

\* The empty sequence leaves the base.
THEOREM FoldEmpty ==
  ASSUME Inductive, NEW c, NEW base
  PROVE  Fold(c, base, <<>>) = base
  <1>1. ASSUME NEW E, NEW s \in Seq(E), Len(s) = 0
        PROVE  Fold(c, base, s) = base
    <2>1. PICK it : IsIter(c, it, base, s, Len(s)) /\ Fold(c, base, s) = it[1 .. Len(s)]
      BY FoldIsIter
    <2>2. 1 .. Len(s) = {} /\ 1 .. Len(s) \in SUBSET (1 .. Len(s))
      BY <1>1
    <2> QED BY <2>1, <2>2 DEF IsIter
  <1> QED BY <1>1, <<>> \in Seq(Nat), Len(<<>>) = 0

\* An element at the end is folded last.
THEOREM FoldAppend ==
  ASSUME Inductive, NEW c, NEW E, NEW base, NEW s \in Seq(E), NEW e \in E
  PROVE  Fold(c, base, Append(s, e)) = Op(c, Fold(c, base, s), e)
  <1> DEFINE n == Len(s)
             u == Append(s, e)
  <1>0. u \in Seq(E) /\ Len(u) = n + 1 /\ u[n + 1] = e /\ n \in Nat /\ \A i \in 1 .. n : u[i] = s[i]
    OBVIOUS
  <1> HIDE DEF u, n
  <1>1. PICK a : IsIter(c, a, base, s, n) /\ Fold(c, base, s) = a[1 .. n]
    BY FoldIsIter DEF n
  <1>2. PICK b : IsIter(c, b, base, u, n + 1) /\ Fold(c, base, u) = b[1 .. n + 1]
    BY <1>0, FoldIsIter 
  <1>3. Top(1 .. n + 1) = n + 1
    BY <1>0, MaxIsMax, n + 1 \in Nat, n + 1 \in 1 .. n + 1, \A x \in 1 .. n + 1 : x <= n + 1
  <1>4. (1 .. n + 1) \ {n + 1} = 1 .. n
    BY <1>0
  <1>5. b[1 .. n + 1] = Op(c, b[1 .. n], e)
    <2> DEFINE D == 1 .. n + 1
    <2>0. Top(D) = n + 1 /\ D \ {n + 1} = 1 .. n
      BY <1>3, <1>4
    <2>1. D \in SUBSET D /\ D # {}
      BY <1>0
    <2>2. b = [S \in SUBSET D |-> IF S = {} THEN base ELSE Op(c, b[S \ {Top(S)}], u[Top(S)])]
      BY <1>2 DEF IsIter
    <2> HIDE DEF D
    <2>3. b[D] = Op(c, b[D \ {Top(D)}], u[Top(D)])
      BY <2>1, <2>2
    <2>4. b[D] = Op(c, b[1 .. n], e)
      BY <1>0, <2>0, <2>3
    <2> QED BY <2>4 DEF D
  <1>6. a[1 .. n] = b[1 .. n]
    BY <1>0, <1>1, <1>2, IterUnique, 1 .. n \in SUBSET (1 .. n), n <= n + 1
  <1> QED BY <1>1, <1>2, <1>5, <1>6 DEF u

--------------------------------------------------------------------------------
(* Induction on sequences, and what follows for folds.                      *)

\* A set that has the empty sequence and, with a sequence, each one longer by an
\* element, has all sequences.
THEOREM SequenceInduction ==
  ASSUME Inductive, NEW E, NEW I, <<>> \in I,
         \A s \in Seq(E), e \in E : s \in I => Append(s, e) \in I
  PROVE  Seq(E) \subseteq I
  <1> DEFINE N == {n \in Nat : \A s \in Seq(E) : Len(s) = n => s \in I}
  <1>1. 0 \in N
    OBVIOUS
  <1>2. ASSUME NEW n \in Nat, n \in N
        PROVE  n + 1 \in N
    <2>1. ASSUME NEW s \in Seq(E), Len(s) = n + 1
          PROVE  s \in I
      <3> DEFINE f == SubSeq(s, 1, n)
      <3>1. f \in Seq(E) /\ Len(f) = n /\ s[n + 1] \in E
        BY <2>1
      <3>2. s = Append(f, s[n + 1])
        BY <2>1
      <3>3. f \in I
        BY <1>2, <3>1
      <3> HIDE DEF f
      <3> QED BY <3>1, <3>2, <3>3
    <2> QED BY <2>1
  <1>3. Nat \subseteq N
    BY <1>1, <1>2, Inductive DEF Inductive
  <1> QED BY <1>3

\* What holds of the base and is kept by every element holds of the result.
THEOREM FoldType ==
  ASSUME Inductive, NEW c, NEW E, NEW D, NEW base \in D, NEW s \in Seq(E),
         \A a \in D, e \in E : Op(c, a, e) \in D
  PROVE  Fold(c, base, s) \in D
  <1> DEFINE I == {u \in Seq(E) : Fold(c, base, u) \in D}
  <1>1. <<>> \in I
    BY FoldEmpty
  <1>2. ASSUME NEW u \in Seq(E), NEW e \in E, u \in I
        PROVE  Append(u, e) \in I
    BY <1>2, FoldAppend
  <1>3. Seq(E) \subseteq I
    BY <1>1, <1>2, SequenceInduction
  <1> QED BY <1>3

\* A concatenation is folded part by part.
THEOREM FoldConcat ==
  ASSUME Inductive, NEW c, NEW E, NEW base, NEW s \in Seq(E), NEW u \in Seq(E)
  PROVE  Fold(c, base, s \o u) = Fold(c, Fold(c, base, s), u)
  <1> DEFINE I == {x \in Seq(E) : Fold(c, base, s \o x) = Fold(c, Fold(c, base, s), x)}
  <1>1. <<>> \in I
    BY FoldEmpty, s \o <<>> = s
  <1>2. ASSUME NEW x \in Seq(E), NEW e \in E, x \in I
        PROVE  Append(x, e) \in I
    <2> DEFINE y == s \o x
    <2>1. s \o Append(x, e) = Append(y, e) /\ y \in Seq(E) /\ Append(x, e) \in Seq(E)
      OBVIOUS
    <2>2. Fold(c, base, y) = Fold(c, Fold(c, base, s), x)
      BY <1>2
    <2> HIDE DEF y
    <2>3. Fold(c, base, Append(y, e)) = Op(c, Fold(c, base, y), e)
      BY <2>1, FoldAppend
    <2>4. Fold(c, Fold(c, base, s), Append(x, e)) = Op(c, Fold(c, Fold(c, base, s), x), e)
      BY FoldAppend
    <2>5. Fold(c, base, s \o Append(x, e)) = Fold(c, Fold(c, base, s), Append(x, e))
      BY <2>1, <2>2, <2>3, <2>4
    <2> QED BY <2>1, <2>5
  <1>3. Seq(E) \subseteq I
    BY <1>1, <1>2, SequenceInduction
  <1> QED BY <1>3

--------------------------------------------------------------------------------
(* Functions on the naturals that are defined by their value at the number  *)
(* before.                                                                  *)

\* The numbers up to n, as a sequence.
UpFrom0(n) == [i \in 1 .. n + 1 |-> i - 1]

\* It has the next number behind those up to n.
LEMMA UpFrom0Next ==
  /\ UpFrom0(0) = Append(<<>>, 0)
  /\ \A n \in Nat : /\ UpFrom0(n) \in Seq(Nat)
                    /\ UpFrom0(n + 1) = Append(UpFrom0(n), n + 1)
  <1>1. UpFrom0(0) = Append(<<>>, 0)
    BY DEF UpFrom0
  <1>2. ASSUME NEW n \in Nat
        PROVE  UpFrom0(n) \in Seq(Nat) /\ UpFrom0(n + 1) = Append(UpFrom0(n), n + 1)
    <2>1. UpFrom0(n) \in Seq(Nat) /\ Len(UpFrom0(n)) = n + 1
      BY DEF UpFrom0
    <2>2. UpFrom0(n + 1) \in Seq(Nat) /\ Len(UpFrom0(n + 1)) = n + 2
      BY DEF UpFrom0
    <2>3. Append(UpFrom0(n), n + 1) \in Seq(Nat) /\ Len(Append(UpFrom0(n), n + 1)) = n + 2
      BY <2>1
    <2>4. \A i \in 1 .. n + 2 : UpFrom0(n + 1)[i] = Append(UpFrom0(n), n + 1)[i]
      BY <2>1 DEF UpFrom0
    <2> HIDE DEF UpFrom0
    <2> QED BY <2>1, <2>2, <2>3, <2>4
  <1> QED BY <1>1, <1>2

\* A function defined by recursion on the naturals exists when its value at 0 depends on nothing else.
THEOREM RecursionExists ==
  ASSUME Inductive, NEW c, \A x, y : Op(c, x, 0) = Op(c, y, 0)
  PROVE  \E f : f = [n \in Nat |-> Op(c, f[n - 1], n)]
  <1> DEFINE g(n) == Fold(c, {}, UpFrom0(n))
             f == [n \in Nat |-> g(n)]
  <1>1. g(0) = Op(c, {}, 0)
    <2>1. ASSUME NEW s \in Seq(Nat), NEW e \in Nat
          PROVE  Fold(c, {}, Append(s, e)) = Op(c, Fold(c, {}, s), e)
      BY FoldAppend
    <2>2. <<>> \in Seq(Nat) /\ 0 \in Nat
      OBVIOUS
    <2>3. Fold(c, {}, Append(<<>>, 0)) = Op(c, Fold(c, {}, <<>>), 0)
      BY <2>1, <2>2, Zenon
    <2> QED BY <2>3, UpFrom0Next, FoldEmpty, Zenon
  <1>2. ASSUME NEW n \in Nat PROVE g(n + 1) = Op(c, g(n), n + 1)
    <2>0. n + 1 \in Nat
      OBVIOUS
    <2>1. UpFrom0(n) \in Seq(Nat) /\ UpFrom0(n + 1) = Append(UpFrom0(n), n + 1) /\ n + 1 \in Nat
      BY <2>0, UpFrom0Next, Zenon
    <2>2. Fold(c, {}, Append(UpFrom0(n), n + 1)) = Op(c, Fold(c, {}, UpFrom0(n)), n + 1)
      BY <2>1, FoldAppend
    <2> QED BY <2>1, <2>2
  <1> HIDE DEF g
  <1>3. ASSUME NEW n \in Nat PROVE f[n] = Op(c, f[n - 1], n)
    <2>1. CASE n = 0
      BY <1>1, <2>1
    <2>2. CASE n # 0
      <3>1. n - 1 \in Nat /\ n - 1 + 1 = n
        BY <2>2
      <3>2. g(n - 1 + 1) = Op(c, g(n - 1), n - 1 + 1)
        BY <1>2, <3>1
      <3> QED BY <3>1, <3>2
    <2> QED BY <2>1, <2>2
  <1>4. f = [n \in Nat |-> Op(c, f[n - 1], n)]
    BY <1>3
  <1> QED BY <1>4

================================================================================
