-------------------------- MODULE BufferManagerProofs --------------------------
(***************************************************************************)
(* What holds of the buffer pool for every capacity, every set of keys and  *)
(* every contents of the rows, and of the selections it is built from.      *)
(***************************************************************************)
EXTENDS BufferManager, FiniteSetTheorems, TLAPS

--------------------------------------------------------------------------------
(* Induction, for the folds of FoldTheorems too.                            *)

\* A set of naturals that is not empty has a smallest element.
LEMMA LeastElement ==
  ASSUME NEW S, S \subseteq Nat, S # {}
  PROVE  \E m \in S : \A n \in S : m <= n
  <1>1. \E m \in S : \A n \in S : ~ (<<n, m>> \in OpToRel(<, Nat))
    BY NatLessThanWellFounded, WFMin
  <1>2. \A n, m \in S : ~ (<<n, m>> \in OpToRel(<, Nat)) => m <= n
    BY DEF OpToRel
  <1> QED BY <1>1, <1>2

\* A set with 0 and, with a number, its successor, has all naturals.
LEMMA NaturalInduction ==
  ASSUME NEW I, 0 \in I, \A n \in Nat : n \in I => n + 1 \in I
  PROVE  Nat \subseteq I
  <1> SUFFICES ASSUME Nat \ I # {} PROVE FALSE
    OBVIOUS
  <1>1. PICK m \in Nat \ I : \A n \in Nat \ I : m <= n
    BY LeastElement
  <1> QED BY <1>1, m - 1 \in Nat

F == INSTANCE FoldTheorems
       WITH Op <- LAMBDA S, kept, e : IF e \in S THEN Append(kept, e) ELSE kept

\* Induction, for the theorems about the folds of F.
LEMMA FInductive == F!Inductive
  BY NaturalInduction DEF F!Inductive

--------------------------------------------------------------------------------
(* Only.                                                                    *)

\* It is a fold of FoldTheorems.
LEMMA OnlyIsFold ==
  ASSUME NEW s, NEW S
  PROVE  Only(s, S) = F!Fold(S, <<>>, s)
  BY DEF Only, F!Fold, FoldLeft, MapThenFoldSet, F!MapThenFoldSet, Max, F!Top

\* Nothing of nothing.
LEMMA OnlyEmpty ==
  ASSUME NEW S
  PROVE  Only(<<>>, S) = <<>>
  BY OnlyIsFold, F!FoldEmpty, FInductive

\* An element at the end comes last if it is in the set.
LEMMA OnlyAppend ==
  ASSUME NEW E, NEW s \in Seq(E), NEW e \in E, NEW S
  PROVE  Only(Append(s, e), S) = IF e \in S THEN Append(Only(s, S), e) ELSE Only(s, S)
  BY OnlyIsFold, F!FoldAppend, FInductive

\* The elements are those of the sequence that are in the set.
LEMMA OnlyType ==
  ASSUME NEW E, NEW s \in Seq(E), NEW S
  PROVE  Only(s, S) \in Seq(E) /\ Only(s, S) \in Seq(E \cap S)
  <1> DEFINE I == {u \in Seq(E) : Only(u, S) \in Seq(E) /\ Only(u, S) \in Seq(E \cap S)}
  <1>1. <<>> \in I
    <2>1. <<>> \in Seq(E) /\ <<>> \in Seq(E \cap S)
      OBVIOUS
    <2>2. Only(<<>>, S) = <<>>
      BY OnlyEmpty, Zenon
    <2> QED BY <2>1, <2>2, Zenon
  <1>2. ASSUME NEW u \in Seq(E), NEW e \in E, u \in I
        PROVE  Append(u, e) \in I
    <2>1. ASSUME NEW o \in Seq(E), o \in Seq(E \cap S), e \in S
          PROVE  Append(o, e) \in Seq(E) /\ Append(o, e) \in Seq(E \cap S)
      BY <2>1
    <2>2. Append(u, e) \in Seq(E)
      OBVIOUS
    <2>3. Only(Append(u, e), S) = IF e \in S THEN Append(Only(u, S), e) ELSE Only(u, S)
      BY OnlyAppend, Zenon
    <2> QED BY <1>2, <2>1, <2>2, <2>3, Zenon
  <1> HIDE DEF I
  <1>3. Seq(E) \subseteq I
    BY <1>1, <1>2, F!SequenceInduction, FInductive
  <1> QED BY <1>3 DEF I

\* h gives the place in s of each element of o, in order, and leaves none in S out.
Selects(h, s, o, S) ==
  /\ h \in [1 .. Len(o) -> 1 .. Len(s)]
  /\ \A i, j \in 1 .. Len(o) : i < j => h[i] < h[j]
  /\ \A i \in 1 .. Len(o) : o[i] = s[h[i]]
  /\ \A j \in 1 .. Len(s) : s[j] \in S => \E i \in 1 .. Len(o) : h[i] = j

\* v is u with e at its end.
Appends(v, u, e) ==
  /\ Len(v) = Len(u) + 1
  /\ v[Len(v)] = e
  /\ \A j \in 1 .. Len(u) : v[j] = u[j]

\* Append extends a sequence by its last element.
LEMMA AppendAppends ==
  ASSUME NEW E, NEW u \in Seq(E), NEW e \in E
  PROVE  /\ Append(u, e) \in Seq(E) /\ Len(u) \in Nat
         /\ Appends(Append(u, e), u, e)
         /\ \A v \in Seq(E) : Appends(v, u, e) => v = Append(u, e)
  BY DEF Appends

\* One more element, chosen ...
LEMMA SelectsOneMore ==
  ASSUME NEW s, NEW o, NEW v, NEW p, NEW e, NEW S, NEW h, Selects(h, s, o, S),
         Len(s) \in Nat, Len(o) \in Nat, Appends(v, s, e), Appends(p, o, e)
  PROVE  \E g : Selects(g, v, p, S)
  <1> DEFINE n == Len(o)
             m == Len(s)
             g == [i \in 1 .. n + 1 |-> IF i = n + 1 THEN m + 1 ELSE h[i]]
  <1>1. /\ Len(v) = m + 1 /\ v[m + 1] = e /\ \A j \in 1 .. m : v[j] = s[j]
        /\ Len(p) = n + 1 /\ p[n + 1] = e /\ \A i \in 1 .. n : p[i] = o[i]
    BY DEF Appends
  <1>2. /\ n \in Nat /\ m \in Nat
        /\ h \in [1 .. n -> 1 .. m]
        /\ \A i, j \in 1 .. n : i < j => h[i] < h[j]
        /\ \A i \in 1 .. n : o[i] = s[h[i]]
        /\ \A j \in 1 .. m : s[j] \in S => \E i \in 1 .. n : h[i] = j
    BY DEF Selects
  <1> HIDE DEF n, m
  <1>3. g \in [1 .. n + 1 -> 1 .. m + 1]
    BY <1>2
  <1>4. g[n + 1] = m + 1 /\ \A i \in 1 .. n : g[i] = h[i] /\ h[i] \in 1 .. m
    BY <1>2
  <1> HIDE DEF g
  <1>5. ASSUME NEW i \in 1 .. n + 1, NEW j \in 1 .. n + 1, i < j
        PROVE  g[i] < g[j]
    <2>1. CASE j = n + 1
      BY <1>2, <1>4, <1>5, <2>1
    <2>2. CASE j # n + 1
      BY <1>2, <1>4, <1>5, <2>2
    <2> QED BY <2>1, <2>2
  <1>6. ASSUME NEW i \in 1 .. n + 1
        PROVE  p[i] = v[g[i]]
    <2>1. CASE i = n + 1
      BY <1>1, <1>4, <2>1
    <2>2. CASE i # n + 1
      <3>1. i \in 1 .. n
        BY <1>2, <2>2
      <3>2. p[i] = o[i] /\ g[i] = h[i] /\ o[i] = s[h[i]]
        BY <1>1, <1>2, <1>4, <3>1
      <3>3. h[i] \in 1 .. m /\ v[h[i]] = s[h[i]]
        BY <1>1, <1>4, <3>1
      <3> QED BY <3>2, <3>3
    <2> QED BY <2>1, <2>2
  <1>7. ASSUME NEW j \in 1 .. m + 1, v[j] \in S
        PROVE  \E i \in 1 .. n + 1 : g[i] = j
    <2>1. CASE j = m + 1
      BY <1>2, <1>4, <2>1
    <2>2. CASE j # m + 1
      <3>1. j \in 1 .. m
        BY <1>2, <2>2
      <3>2. PICK i \in 1 .. n : h[i] = j
        BY <1>1, <1>2, <1>7, <3>1
      <3>3. i \in 1 .. n + 1 /\ g[i] = j
        BY <1>2, <1>4, <3>2
      <3> QED BY <3>3
    <2> QED BY <2>1, <2>2
  <1>8. Selects(g, v, p, S)
    BY <1>1, <1>3, <1>5, <1>6, <1>7 DEF Selects
  <1> QED BY <1>8

\* ... or not.
LEMMA SelectsNoMore ==
  ASSUME NEW s, NEW o, NEW v, NEW e, NEW S, e \notin S, NEW h, Selects(h, s, o, S),
         Len(s) \in Nat, Len(o) \in Nat, Appends(v, s, e)
  PROVE  Selects(h, v, o, S)
  <1>1. /\ h \in [1 .. Len(o) -> 1 .. Len(s)]
        /\ \A i, j \in 1 .. Len(o) : i < j => h[i] < h[j]
        /\ \A i \in 1 .. Len(o) : o[i] = s[h[i]]
        /\ \A j \in 1 .. Len(s) : s[j] \in S => \E i \in 1 .. Len(o) : h[i] = j
    BY DEF Selects
  <1>2. Len(v) = Len(s) + 1 /\ v[Len(v)] = e /\ \A j \in 1 .. Len(s) : v[j] = s[j]
    BY DEF Appends
  <1>3. h \in [1 .. Len(o) -> 1 .. Len(v)]
    BY <1>1, <1>2
  <1>4. \A i \in 1 .. Len(o) : o[i] = v[h[i]]
    BY <1>1, <1>2
  <1>5. \A j \in 1 .. Len(v) : v[j] \in S => \E i \in 1 .. Len(o) : h[i] = j
    BY <1>1, <1>2
  <1> QED BY <1>1, <1>3, <1>4, <1>5 DEF Selects

\* Only keeps the order and every element that is in the set.
LEMMA OnlySelects ==
  ASSUME NEW E, NEW s \in Seq(E), NEW S
  PROVE  \E h : Selects(h, s, Only(s, S), S)
  <1> DEFINE I == {u \in Seq(E) : \E h : Selects(h, u, Only(u, S), S)}
  <1>1. <<>> \in I
    <2>1. Selects([i \in 1 .. 0 |-> 0], <<>>, <<>>, S)
      BY DEF Selects
    <2>2. Only(<<>>, S) = <<>>
      BY OnlyEmpty, Zenon
    <2>3. <<>> \in Seq(E)
      OBVIOUS
    <2> QED BY <2>1, <2>2, <2>3, Zenon
  <1>2. ASSUME NEW u \in Seq(E), NEW e \in E, u \in I
        PROVE  Append(u, e) \in I
    <2>1. PICK h : Selects(h, u, Only(u, S), S)
      BY <1>2
    <2>2. Only(u, S) \in Seq(E)
      BY OnlyType
    <2>3. Only(Append(u, e), S) = IF e \in S THEN Append(Only(u, S), e) ELSE Only(u, S)
      BY OnlyAppend, Zenon
    <2>4. /\ Append(u, e) \in Seq(E) /\ Len(u) \in Nat /\ Appends(Append(u, e), u, e)
          /\ Len(Only(u, S)) \in Nat /\ Appends(Append(Only(u, S), e), Only(u, S), e)
      BY <2>2, AppendAppends, Zenon
    <2>5. CASE e \in S
      <3>1. \E g : Selects(g, Append(u, e), Append(Only(u, S), e), S)
        BY <2>1, <2>4, SelectsOneMore, Zenon
      <3> QED BY <2>3, <2>4, <2>5, <3>1, Zenon
    <2>6. CASE e \notin S
      <3>1. Selects(h, Append(u, e), Only(u, S), S)
        BY <2>1, <2>4, <2>6, SelectsNoMore, Zenon
      <3> QED BY <2>3, <2>4, <2>6, <3>1, Zenon
    <2> QED BY <2>5, <2>6
  <1> HIDE DEF I
  <1>3. Seq(E) \subseteq I
    BY <1>1, <1>2, F!SequenceInduction, FInductive
  <1> QED BY <1>3 DEF I

\* Without the last element, when it was chosen ...
LEMMA SelectsOneLess ==
  ASSUME NEW s, NEW o, NEW v, NEW p, NEW e, NEW S, NEW h, Selects(h, v, p, S),
         Len(s) \in Nat, Len(o) \in Nat, Appends(v, s, e), Appends(p, o, e),
         h[Len(p)] = Len(v)
  PROVE  \E g : Selects(g, s, o, S)
  <1> DEFINE n == Len(o)
             m == Len(s)
             g == [i \in 1 .. n |-> h[i]]
  <1>1. /\ Len(v) = m + 1 /\ v[m + 1] = e /\ \A j \in 1 .. m : v[j] = s[j]
        /\ Len(p) = n + 1 /\ p[n + 1] = e /\ \A i \in 1 .. n : p[i] = o[i]
    BY DEF Appends
  <1>2. /\ n \in Nat /\ m \in Nat
        /\ h \in [1 .. n + 1 -> 1 .. m + 1]
        /\ \A i, j \in 1 .. n + 1 : i < j => h[i] < h[j]
        /\ \A i \in 1 .. n + 1 : p[i] = v[h[i]]
        /\ \A j \in 1 .. m + 1 : v[j] \in S => \E i \in 1 .. n + 1 : h[i] = j
        /\ h[n + 1] = m + 1
    BY <1>1 DEF Selects
  <1> HIDE DEF n, m
  <1>3. \A i \in 1 .. n : i \in 1 .. n + 1 /\ i < n + 1 /\ n + 1 \in 1 .. n + 1
    BY <1>2
  <1>4. ASSUME NEW i \in 1 .. n
        PROVE  h[i] \in 1 .. m
    BY <1>2, <1>3
  <1>5. g \in [1 .. n -> 1 .. m] /\ \A i \in 1 .. n : g[i] = h[i]
    BY <1>4
  <1> HIDE DEF g
  <1>6. \A i, j \in 1 .. n : i < j => g[i] < g[j]
    BY <1>2, <1>3, <1>5
  <1>7. ASSUME NEW i \in 1 .. n
        PROVE  o[i] = s[g[i]]
    BY <1>1, <1>2, <1>3, <1>4, <1>5
  <1>8. ASSUME NEW j \in 1 .. m, s[j] \in S
        PROVE  \E i \in 1 .. n : g[i] = j
    <2>1. PICK i \in 1 .. n + 1 : h[i] = j
      BY <1>1, <1>2, <1>8
    <2>2. i # n + 1
      <3>1. j # m + 1
        BY <1>2
      <3> QED BY <1>2, <2>1, <3>1
    <2>3. i \in 1 .. n
      BY <1>2, <2>1, <2>2
    <2> QED BY <1>5, <2>1, <2>3
  <1>9. Selects(g, s, o, S)
    BY <1>5, <1>6, <1>7, <1>8 DEF Selects, n, m
  <1> QED BY <1>9

\* ... and when it was not.
LEMMA SelectsNoLess ==
  ASSUME NEW s, NEW o, NEW v, NEW e, NEW S, NEW h, Selects(h, v, o, S),
         Len(s) \in Nat, Len(o) \in Nat, Appends(v, s, e),
         Len(o) > 0 => h[Len(o)] # Len(v)
  PROVE  Selects(h, s, o, S) /\ e \notin S
  <1> DEFINE n == Len(o)
             m == Len(s)
  <1>1. Len(v) = m + 1 /\ v[m + 1] = e /\ \A j \in 1 .. m : v[j] = s[j]
    BY DEF Appends
  <1>2. /\ n \in Nat /\ m \in Nat
        /\ h \in [1 .. n -> 1 .. m + 1]
        /\ \A i, j \in 1 .. n : i < j => h[i] < h[j]
        /\ \A i \in 1 .. n : o[i] = v[h[i]]
        /\ \A j \in 1 .. m + 1 : v[j] \in S => \E i \in 1 .. n : h[i] = j
        /\ n > 0 => h[n] # m + 1
    BY <1>1 DEF Selects
  <1> HIDE DEF n, m
  <1>3. ASSUME NEW i \in 1 .. n
        PROVE  h[i] \in 1 .. m
    <2>1. n \in 1 .. n /\ h[n] \in 1 .. m
      BY <1>2
    <2>2. i = n \/ i < n
      BY <1>2
    <2> QED BY <1>2, <2>1, <2>2
  <1>4. h \in [1 .. n -> 1 .. m]
    BY <1>2, <1>3
  <1>5. \A i \in 1 .. n : o[i] = s[h[i]]
    BY <1>1, <1>2, <1>3
  <1>6. \A j \in 1 .. m : s[j] \in S => \E i \in 1 .. n : h[i] = j
    BY <1>1, <1>2
  <1>7. e \notin S
    <2>1. m + 1 \in 1 .. m + 1 /\ \A i \in 1 .. n : h[i] # m + 1
      BY <1>2, <1>3
    <2> QED BY <1>1, <1>2, <2>1
  <1> QED BY <1>2, <1>4, <1>5, <1>6, <1>7 DEF Selects, n, m

\* A sequence is what comes before its last element, and that element.
LEMMA AllButLast ==
  ASSUME NEW E, NEW q \in Seq(E), Len(q) > 0
  PROVE  \E o \in Seq(E) : Len(o) = Len(q) - 1 /\ \A i \in 1 .. Len(o) : o[i] = q[i]
  <1> DEFINE o == [i \in 1 .. Len(q) - 1 |-> q[i]]
  <1>1. Len(q) \in Nat /\ Len(q) - 1 \in Nat /\ \A i \in 1 .. Len(q) - 1 : q[i] \in E
    OBVIOUS
  <1>2. o \in Seq(E) /\ Len(o) = Len(q) - 1 /\ \A i \in 1 .. Len(q) - 1 : o[i] = q[i]
    BY <1>1
  <1> QED BY <1>2

\* Taking elements out that are not in the set changes nothing.
LEMMA OnlySelected ==
  ASSUME NEW E, NEW s \in Seq(E), NEW o \in Seq(E), NEW S, NEW h, Selects(h, s, o, S)
  PROVE  Only(o, S) = Only(s, S)
  <1> DEFINE I == {u \in Seq(E) : \A q \in Seq(E) :
                     (\E g : Selects(g, u, q, S)) => Only(q, S) = Only(u, S)}
  <1>1. <<>> \in I
    <2>1. ASSUME NEW q \in Seq(E), NEW g, NEW u \in Seq(E), u = <<>>, Selects(g, u, q, S)
          PROVE  q = u
      <3>1. Len(q) \in Nat /\ g \in [1 .. Len(q) -> 1 .. 0]
        BY <2>1 DEF Selects
      <3>2. Len(q) = 0
        <4>1. CASE 1 \in 1 .. Len(q)
          <5>1. g[1] \in 1 .. 0
            BY <3>1, <4>1
          <5> QED BY <5>1
        <4> QED BY <3>1, <4>1
      <3> QED BY <2>1, <3>2
    <2>2. <<>> \in Seq(E)
      OBVIOUS
    <2> QED BY <2>1, <2>2, Zenon
  <1>2. ASSUME NEW u \in Seq(E), NEW e \in E, u \in I
        PROVE  Append(u, e) \in I
    <2>1. ASSUME NEW q \in Seq(E), NEW g, NEW v \in Seq(E), Appends(v, u, e), Selects(g, v, q, S),
                 Only(v, S) = IF e \in S THEN Append(Only(u, S), e) ELSE Only(u, S)
          PROVE  Only(q, S) = Only(v, S)
      <3>1. Len(u) \in Nat /\ Len(q) \in Nat /\ Len(v) = Len(u) + 1 /\ v[Len(v)] = e
        BY <2>1 DEF Appends
      <3>2. CASE Len(q) > 0 /\ g[Len(q)] = Len(v)
        <4>1. PICK o1 \in Seq(E) : Len(o1) = Len(q) - 1 /\ \A i \in 1 .. Len(o1) : o1[i] = q[i]
          BY <3>2, AllButLast, Zenon
        <4>2. Len(o1) = Len(q) - 1 /\ \A i \in 1 .. Len(o1) : o1[i] = q[i]
          BY <4>1
        <4>3. q[Len(q)] = e
          <5>1. Len(q) \in 1 .. Len(q)
            BY <3>1, <3>2
          <5>2. q[Len(q)] = v[g[Len(q)]]
            BY <2>1, <5>1 DEF Selects
          <5> QED BY <3>1, <3>2, <5>2
        <4>4. Appends(q, o1, e) /\ Len(o1) \in Nat
          BY <3>1, <3>2, <4>2, <4>3 DEF Appends
        <4>5. \E k : Selects(k, u, o1, S)
          BY <2>1, <3>1, <3>2, <4>4, SelectsOneLess, Zenon
        <4>6. Only(o1, S) = Only(u, S)
          BY <1>2, <4>1, <4>5, Zenon
        <4>7. q = Append(o1, e)
          BY <4>1, <4>4, AppendAppends, Zenon
        <4>8. Only(q, S) = IF e \in S THEN Append(Only(o1, S), e) ELSE Only(o1, S)
          BY <4>1, <4>7, OnlyAppend, Zenon
        <4>9. CASE e \in S
          BY <2>1, <4>6, <4>8, <4>9, Zenon
        <4>10. CASE e \notin S
          BY <2>1, <4>6, <4>8, <4>10, Zenon
        <4> QED BY <4>9, <4>10
      <3>3. CASE ~(Len(q) > 0 /\ g[Len(q)] = Len(v))
        <4>1. Selects(g, u, q, S) /\ e \notin S
          <5>1. Len(q) > 0 => g[Len(q)] # Len(v)
            BY <3>3
          <5> QED BY <2>1, <3>1, <5>1, SelectsNoLess
        <4>2. Only(q, S) = Only(u, S)
          BY <1>2, <4>1, Zenon
        <4> QED BY <2>1, <4>1, <4>2, Zenon
      <3> QED BY <3>2, <3>3
    <2>2. Append(u, e) \in Seq(E) /\ Appends(Append(u, e), u, e)
      BY AppendAppends, Zenon
    <2>3. Only(Append(u, e), S) = IF e \in S THEN Append(Only(u, S), e) ELSE Only(u, S)
      BY OnlyAppend, Zenon
    <2> QED BY <2>1, <2>2, <2>3, Zenon
  <1> HIDE DEF I
  <1>3. Seq(E) \subseteq I
    BY <1>1, <1>2, F!SequenceInduction, FInductive
  <1>4. s \in I
    BY <1>3
  <1> QED BY <1>4 DEF I

\* The choice from two sequences in a row.
LEMMA OnlyConcat ==
  ASSUME NEW E, NEW s \in Seq(E), NEW u \in Seq(E), NEW S
  PROVE  Only(s \o u, S) = Only(s, S) \o Only(u, S)
  <1> DEFINE I == {x \in Seq(E) : Only(s \o x, S) = Only(s, S) \o Only(x, S)}
  <1>1. <<>> \in I
    <2>1. \A q \in Seq(E) : q \o <<>> = q
      OBVIOUS
    <2>2. Only(s, S) \in Seq(E)
      BY OnlyType
    <2>3. <<>> \in Seq(E) /\ Only(<<>>, S) = <<>>
      BY OnlyEmpty, <<>> \in Seq(E), Zenon
    <2> QED BY <2>1, <2>2, <2>3, Zenon
  <1>2. ASSUME NEW x \in Seq(E), NEW e \in E, x \in I
        PROVE  Append(x, e) \in I
    <2>1. Only(s, S) \in Seq(E) /\ Only(x, S) \in Seq(E)
      BY OnlyType
    <2>2. \A q \in Seq(E), y \in Seq(E) : q \o Append(y, e) = Append(q \o y, e) /\ q \o y \in Seq(E)
      OBVIOUS
    <2>3. Only(Append(x, e), S) = IF e \in S THEN Append(Only(x, S), e) ELSE Only(x, S)
      BY OnlyAppend, Zenon
    <2>4. s \o x \in Seq(E)
      BY <2>2, Zenon
    <2>5. Only(Append(s \o x, e), S) = IF e \in S THEN Append(Only(s \o x, S), e) ELSE Only(s \o x, S)
      BY <2>4, OnlyAppend, Zenon
    <2>6. Append(x, e) \in Seq(E)
      OBVIOUS
    <2>7. Only(s \o x, S) = Only(s, S) \o Only(x, S)
      BY <1>2
    <2>8. s \o Append(x, e) = Append(s \o x, e)
      BY <2>2, Zenon
    <2>9. Only(s, S) \o Append(Only(x, S), e) = Append(Only(s, S) \o Only(x, S), e)
      BY <2>1, <2>2, Zenon
    <2>10. Only(s \o Append(x, e), S) = Only(s, S) \o Only(Append(x, e), S)
      <3>1. CASE e \in S
        BY <2>3, <2>5, <2>7, <2>8, <2>9, <3>1, Zenon
      <3>2. CASE e \notin S
        BY <2>3, <2>5, <2>7, <2>8, <2>9, <3>2, Zenon
      <3> QED BY <3>1, <3>2
    <2> QED BY <2>6, <2>10, Zenon
  <1> HIDE DEF I
  <1>3. Seq(E) \subseteq I
    BY <1>1, <1>2, F!SequenceInduction, FInductive
  <1> QED BY <1>3 DEF I

\* Only what is in the sequence matters of the set.
LEMMA OnlyCongruent ==
  ASSUME NEW E, NEW s \in Seq(E), NEW S, NEW T, \A e \in E : e \in S <=> e \in T
  PROVE  Only(s, S) = Only(s, T)
  <1> DEFINE I == {x \in Seq(E) : Only(x, S) = Only(x, T)}
  <1>1. <<>> \in I
    BY OnlyEmpty, <<>> \in Seq(E), Zenon
  <1>2. ASSUME NEW x \in Seq(E), NEW e \in E, x \in I
        PROVE  Append(x, e) \in I
    <2>1. /\ Only(Append(x, e), S) = IF e \in S THEN Append(Only(x, S), e) ELSE Only(x, S)
          /\ Only(Append(x, e), T) = IF e \in T THEN Append(Only(x, T), e) ELSE Only(x, T)
      BY OnlyAppend, Zenon
    <2>2. Append(x, e) \in Seq(E)
      OBVIOUS
    <2>3. e \in S <=> e \in T
      OBVIOUS
    <2> QED BY <1>2, <2>1, <2>2, <2>3, Zenon
  <1> HIDE DEF I
  <1>3. Seq(E) \subseteq I
    BY <1>1, <1>2, F!SequenceInduction, FInductive
  <1> QED BY <1>3 DEF I

\* The elements chosen are those that are in the set.
LEMMA OnlyRange ==
  ASSUME NEW E, NEW s \in Seq(E), NEW S
  PROVE  ToSet(Only(s, S)) = ToSet(s) \cap S
  <1>1. s \in Seq(ToSet(s))
    BY DEF ToSet
  <1>2. Only(s, S) \in Seq(ToSet(s) \cap S)
    BY <1>1, OnlyType, Zenon
  <1>3. ToSet(Only(s, S)) \subseteq ToSet(s) \cap S
    <2>1. \A A : \A q \in Seq(A) : \A i \in DOMAIN q : q[i] \in A
      OBVIOUS
    <2> QED BY <1>2, <2>1, Zenon DEF ToSet
  <1>4. ASSUME NEW e \in ToSet(s) \cap S
        PROVE  e \in ToSet(Only(s, S))
    <2> DEFINE o == Only(s, S)
    <2>1. o \in Seq(E)
      BY OnlyType
    <2>2. PICK h : Selects(h, s, o, S)
      BY OnlySelects
    <2> HIDE DEF o
    <2>3. PICK j \in 1 .. Len(s) : s[j] = e
      BY DEF ToSet
    <2>4. PICK i \in 1 .. Len(o) : h[i] = j
      BY <2>2, <2>3 DEF Selects
    <2>5. o[i] = e /\ i \in DOMAIN o
      BY <2>1, <2>2, <2>3, <2>4 DEF Selects
    <2>6. e \in ToSet(o)
      BY <2>5, Zenon DEF ToSet
    <2> QED BY <2>6 DEF o
  <1> QED BY <1>3, <1>4

\* No more is chosen than there is.
LEMMA OnlyLength ==
  ASSUME NEW E, NEW s \in Seq(E), NEW S
  PROVE  Len(Only(s, S)) <= Len(s)
  <1> DEFINE I == {x \in Seq(E) : Len(Only(x, S)) <= Len(x)}
  <1>1. <<>> \in I
    <2>1. Only(<<>>, S) = <<>>
      BY OnlyEmpty, Zenon
    <2>2. <<>> \in Seq(E) /\ Len(<<>>) <= Len(<<>>)
      OBVIOUS
    <2> QED BY <2>1, <2>2, Zenon
  <1>2. ASSUME NEW x \in Seq(E), NEW e \in E, x \in I
        PROVE  Append(x, e) \in I
    <2>1. Only(Append(x, e), S) = Append(Only(x, S), e) \/ Only(Append(x, e), S) = Only(x, S)
      BY OnlyAppend, Zenon
    <2>2. Only(x, S) \in Seq(E)
      BY OnlyType
    <2>3. \A q \in Seq(E) : Len(q) \in Nat /\ Len(Append(q, e)) = Len(q) + 1 /\ Append(q, e) \in Seq(E)
      OBVIOUS
    <2> QED BY <1>2, <2>1, <2>2, <2>3
  <1> HIDE DEF I
  <1>3. Seq(E) \subseteq I
    BY <1>1, <1>2, F!SequenceInduction, FInductive
  <1> QED BY <1>3 DEF I

\* Nothing is chosen where nothing is in the set.
LEMMA OnlyNone ==
  ASSUME NEW E, NEW s \in Seq(E), NEW S, \A e \in E : e \notin S
  PROVE  Only(s, S) = <<>>
  <1>1. Only(s, S) \in Seq(E \cap S)
    BY OnlyType
  <1>2. \A q \in Seq({}) : q = <<>>
    <2> TAKE q \in Seq({})
    <2>1. Len(q) \in Nat /\ \A i \in 1 .. Len(q) : q[i] \in {}
      OBVIOUS
    <2>2. Len(q) = 0
      BY <2>1, 1 \in 1 .. Len(q) \/ Len(q) = 0
    <2> QED BY <2>2
  <1>3. E \cap S = {}
    OBVIOUS
  <1> QED BY <1>1, <1>2, <1>3, Zenon

\* Everything is chosen where everything is in the set.
LEMMA OnlyAll ==
  ASSUME NEW E, NEW s \in Seq(E), NEW S, ToSet(s) \subseteq S
  PROVE  Only(s, S) = s
  <1> DEFINE I == {x \in Seq(E \cap S) : Only(x, S) = x}
  <1>1. <<>> \in I
    <2>1. <<>> \in Seq(E \cap S)
      OBVIOUS
    <2> QED BY <2>1, OnlyEmpty, Zenon
  <1>2. ASSUME NEW x \in Seq(E \cap S), NEW e \in E \cap S, x \in I
        PROVE  Append(x, e) \in I
    <2>1. Append(x, e) \in Seq(E \cap S) /\ e \in S
      OBVIOUS
    <2>2. Only(x, S) = x
      BY <1>2
    <2>3. Only(Append(x, e), S) = IF e \in S THEN Append(Only(x, S), e) ELSE Only(x, S)
      <3> DEFINE D == E \cap S
      <3>1. x \in Seq(D) /\ e \in D
        OBVIOUS
      <3> HIDE DEF D, I
      <3> QED BY <3>1, OnlyAppend
    <2>4. Only(Append(x, e), S) = Append(x, e)
      BY <2>1, <2>2, <2>3, Zenon
    <2> QED BY <2>1, <2>4, Zenon
  <1> HIDE DEF I
  <1>3. Seq(E \cap S) \subseteq I
    BY <1>1, <1>2, F!SequenceInduction, FInductive
  <1>4. s \in Seq(E \cap S)
    BY DEF ToSet
  <1> QED BY <1>3, <1>4 DEF I

--------------------------------------------------------------------------------
(* Reverse.                                                                 *)

\* Reversal gives a sequence of the same elements,
LEMMA ReverseType ==
  ASSUME NEW E, NEW s \in Seq(E)
  PROVE  /\ Reverse(s) \in Seq(E) /\ Len(Reverse(s)) = Len(s)
         /\ \A i \in 1 .. Len(s) : Reverse(s)[i] = s[Len(s) - i + 1]
         /\ ToSet(Reverse(s)) = ToSet(s)
  <1> DEFINE n == Len(s)
             r == Reverse(s)
  <1>1. n \in Nat /\ DOMAIN s = 1 .. n /\ \A i \in 1 .. n : s[i] \in E /\ n - i + 1 \in 1 .. n
    OBVIOUS
  <1>2. r = [i \in 1 .. n |-> s[n - i + 1]]
    BY DEF Reverse
  <1> HIDE DEF r
  <1>3. r \in Seq(E) /\ Len(r) = n /\ DOMAIN r = 1 .. n /\ \A i \in 1 .. n : r[i] = s[n - i + 1]
    BY <1>1, <1>2
  <1>4. ToSet(r) = ToSet(s)
    <2>1. \A i \in 1 .. n : r[n - i + 1] = s[i]
      BY <1>1, <1>3
    <2> QED BY <1>1, <1>3, <2>1 DEF ToSet
  <1> QED BY <1>3, <1>4 DEF r

\* the last of them first.
LEMMA ReverseAppend ==
  ASSUME NEW E, NEW s \in Seq(E), NEW e \in E
  PROVE  Reverse(Append(s, e)) = <<e>> \o Reverse(s)
  <1> DEFINE n == Len(s)
             v == Append(s, e)
             r == Reverse(s)
  <1>1. n \in Nat /\ v \in Seq(E) /\ Len(v) = n + 1 /\ v[n + 1] = e /\ \A i \in 1 .. n : v[i] = s[i]
    OBVIOUS
  <1>2. r \in Seq(E) /\ Len(r) = n /\ \A i \in 1 .. n : r[i] = s[n - i + 1]
    BY ReverseType
  <1>3. Reverse(v) = [i \in 1 .. n + 1 |-> v[n - i + 2]]
    BY <1>1 DEF Reverse
  <1> HIDE DEF v, r, n
  <1>4. <<e>> \o r = [i \in 1 .. n + 1 |-> IF i = 1 THEN e ELSE r[i - 1]]
    BY <1>1, <1>2
  <1>5. \A i \in 1 .. n + 1 : v[n - i + 2] = IF i = 1 THEN e ELSE r[i - 1]
    BY <1>1, <1>2
  <1>6. Reverse(v) = <<e>> \o r
    BY <1>3, <1>4, <1>5
  <1> QED BY <1>6 DEF v, r

\* Choosing and reversing commute.
LEMMA OnlyReverse ==
  ASSUME NEW E, NEW s \in Seq(E), NEW S
  PROVE  Only(Reverse(s), S) = Reverse(Only(s, S))
  <1> DEFINE I == {x \in Seq(E) : Only(Reverse(x), S) = Reverse(Only(x, S))}
  <1>1. <<>> \in I
    <2>1. Reverse(<<>>) = <<>> /\ <<>> \in Seq(E)
      BY DEF Reverse
    <2> QED BY <2>1, OnlyEmpty, Zenon
  <1>2. ASSUME NEW x \in Seq(E), NEW e \in E, x \in I
        PROVE  Append(x, e) \in I
    <2>1. Only(Append(x, e), S) = IF e \in S THEN Append(Only(x, S), e) ELSE Only(x, S)
      BY OnlyAppend, Zenon
    <2>2. Only(x, S) \in Seq(E)
      BY OnlyType
    <2>3. Reverse(x) \in Seq(E) /\ <<e>> \in Seq(E) /\ <<e>> = Append(<<>>, e) /\ <<>> \in Seq(E)
      BY ReverseType
    <2>4. Only(Reverse(Append(x, e)), S) = Only(<<e>>, S) \o Only(Reverse(x), S)
      <3>1. Reverse(Append(x, e)) = <<e>> \o Reverse(x)
        BY ReverseAppend, Zenon
      <3>2. Only(<<e>> \o Reverse(x), S) = Only(<<e>>, S) \o Only(Reverse(x), S)
        <4>1. \A a, b \in Seq(E) : Only(a \o b, S) = Only(a, S) \o Only(b, S)
          <5> TAKE a, b \in Seq(E)
          <5> QED BY OnlyConcat, SMTT(30)
        <4> QED BY <2>3, <4>1, Zenon
      <3> QED BY <3>1, <3>2, Zenon
    <2>5. Only(<<e>>, S) = IF e \in S THEN <<e>> ELSE <<>>
      <3>1. Only(Append(<<>>, e), S) = IF e \in S THEN Append(Only(<<>>, S), e) ELSE Only(<<>>, S)
        BY <2>3, OnlyAppend, Zenon
      <3>2. Only(<<>>, S) = <<>>
        BY OnlyEmpty, Zenon
      <3>3. CASE e \in S
        BY <2>3, <3>1, <3>2, <3>3, Zenon
      <3>4. CASE e \notin S
        BY <2>3, <3>1, <3>2, <3>4, Zenon
      <3> QED BY <3>3, <3>4
    <2>6. Append(x, e) \in Seq(E)
      OBVIOUS
    <2>7. CASE e \in S
      <3>1. Only(Append(x, e), S) = Append(Only(x, S), e)
        BY <2>1, <2>7
      <3>2. Reverse(Append(Only(x, S), e)) = <<e>> \o Reverse(Only(x, S))
        BY <2>2, ReverseAppend, Zenon
      <3>3. Only(<<e>>, S) = <<e>>
        BY <2>5, <2>7
      <3> QED BY <1>2, <2>4, <2>6, <3>1, <3>2, <3>3, Zenon
    <2>8. CASE e \notin S
      <3>1. Only(Append(x, e), S) = Only(x, S)
        BY <2>1, <2>8
      <3>2. Only(<<e>>, S) = <<>>
        BY <2>5, <2>8
      <3>3. \A q \in Seq(E) : <<>> \o q = q
        OBVIOUS
      <3>4. Reverse(Only(x, S)) \in Seq(E)
        BY <2>2, ReverseType
      <3> QED BY <1>2, <2>4, <2>6, <3>1, <3>2, <3>3, <3>4, Zenon
    <2> QED BY <2>7, <2>8
  <1> HIDE DEF I
  <1>3. Seq(E) \subseteq I
    BY <1>1, <1>2, F!SequenceInduction, FInductive
  <1> QED BY <1>3 DEF I

--------------------------------------------------------------------------------
(* Stores.                                                                  *)

\* Stores as the operations leave them.
Good(s) == s \in Store /\ StoreOK(s) /\ CleanOnDisk(s)

Value(row) == IF row.is_deleted THEN NoRow ELSE row.data

\* No key twice.
Distinct(q) == \A i, j \in DOMAIN q : q[i].key = q[j].key => i = j

\* What is chosen has no key twice either.
LEMMA OnlyDistinct ==
  ASSUME NEW E, NEW s \in Seq(E), NEW S, Distinct(s)
  PROVE  Distinct(Only(s, S))
  <1> DEFINE o == Only(s, S)
  <1>1. o \in Seq(E)
    BY OnlyType
  <1>2. PICK h : Selects(h, s, o, S)
    BY OnlySelects
  <1> HIDE DEF o
  <1>3. /\ DOMAIN o = 1 .. Len(o) /\ DOMAIN s = 1 .. Len(s) /\ Len(o) \in Nat /\ Len(s) \in Nat
        /\ \A i \in 1 .. Len(o) : h[i] \in 1 .. Len(s) /\ o[i] = s[h[i]]
        /\ \A i, j \in 1 .. Len(o) : i < j => h[i] < h[j]
    BY <1>1, <1>2 DEF Selects
  <1>4. ASSUME NEW i \in DOMAIN o, NEW j \in DOMAIN o, o[i].key = o[j].key
        PROVE  i = j
    <2>1. h[i] = h[j]
      BY <1>3, <1>4 DEF Distinct
    <2> QED BY <1>3, <2>1
  <1> QED BY <1>4 DEF Distinct, o

\* A store, field by field.
LEMMA StoreFields ==
  ASSUME NEW s, s \in Store, StoreOK(s)
  PROVE  /\ s = [capacity |-> s.capacity, disk |-> s.disk, buffer |-> s.buffer]
         /\ s.capacity \in Nat \ {0} /\ s.disk \in [Key -> Row \cup {NoRow}]
         /\ s.buffer \in Seq(BufferedRow) /\ ToSet(s.buffer) \subseteq BufferedRow
         /\ Len(s.buffer) <= s.capacity /\ Distinct(s.buffer)
  <1>1. ToSet(s.buffer) \subseteq BufferedRow
    BY DEF Store, ToSet
  <1> QED BY <1>1 DEF Store, StoreOK, Distinct

\* The row of a key is the only one with it.
LEMMA BufferedIsTheRow ==
  ASSUME NEW s, s \in Store, StoreOK(s)
  PROVE  /\ \A row \in ToSet(s.buffer) : row.key \in Keys(s) /\ Buffered(s, row.key) = row
         /\ \A k \in Keys(s) : Buffered(s, k) \in ToSet(s.buffer) /\ Buffered(s, k).key = k
         /\ Keys(s) \subseteq Key
  <1>1. \A r1, r2 \in ToSet(s.buffer) : r1.key = r2.key => r1 = r2
    BY DEF StoreOK, ToSet
  <1>2. ASSUME NEW k \in Keys(s)
        PROVE  Buffered(s, k) \in ToSet(s.buffer) /\ Buffered(s, k).key = k
    BY <1>2 DEF Keys, Buffered
  <1>3. ASSUME NEW row \in ToSet(s.buffer)
        PROVE  row.key \in Keys(s) /\ Buffered(s, row.key) = row
    <2>1. row.key \in Keys(s)
      BY DEF Keys
    <2> QED BY <1>1, <1>2, <2>1
  <1>4. Keys(s) \subseteq Key
    BY StoreFields DEF Keys, BufferedRow
  <1> QED BY <1>2, <1>3, <1>4

\* What is visible is what the row of the key says.
LEMMA VisibleOfRow ==
  ASSUME NEW s, s \in Store, StoreOK(s)
  PROVE  /\ \A row \in ToSet(s.buffer) : Visible(s, row.key) = Value(row)
         /\ \A k \in Key : k \notin Keys(s) => Visible(s, k) = s.disk[k]
         /\ \A k \in Key : Visible(s, k) \in Row \cup {NoRow}
  <1>1. \A row \in ToSet(s.buffer) : Visible(s, row.key) = Value(row)
    BY BufferedIsTheRow DEF Visible, Value
  <1>2. \A k \in Key : k \notin Keys(s) => Visible(s, k) = s.disk[k]
    BY DEF Visible
  <1>3. \A row \in ToSet(s.buffer) : Value(row) \in Row \cup {NoRow}
    BY StoreFields DEF Value, BufferedRow
  <1>4. ASSUME NEW k \in Key
        PROVE  Visible(s, k) \in Row \cup {NoRow}
    <2>1. CASE k \in Keys(s)
      BY <1>1, <1>3, <2>1, BufferedIsTheRow
    <2>2. CASE k \notin Keys(s)
      BY <1>2, <2>2, StoreFields
    <2> QED BY <2>1, <2>2
  <1> QED BY <1>1, <1>2, <1>4

\* Conversely, a store is known by its rows.
LEMMA VisibleIs ==
  ASSUME NEW s, s \in Store, StoreOK(s), NEW k \in Key, NEW x,
         \/ \E row \in ToSet(s.buffer) : row.key = k /\ Value(row) = x
         \/ (\A row \in ToSet(s.buffer) : row.key # k) /\ s.disk[k] = x
  PROVE  Visible(s, k) = x
  <1>1. CASE \E row \in ToSet(s.buffer) : row.key = k /\ Value(row) = x
    BY <1>1, VisibleOfRow
  <1>2. CASE (\A row \in ToSet(s.buffer) : row.key # k) /\ s.disk[k] = x
    <2>1. k \notin Keys(s)
      BY <1>2 DEF Keys
    <2> QED BY <1>2, <2>1, VisibleOfRow
  <1> QED BY <1>1, <1>2

\* What a clean store says of a key is on disk unless its row is dirty.
LEMMA CleanVisible ==
  ASSUME NEW s, Good(s), NEW k \in Key,
         \A row \in ToSet(s.buffer) : row.key = k => ~row.is_dirty
  PROVE  Visible(s, k) = s.disk[k]
  <1>1. CASE k \in Keys(s)
    <2>1. PICK row \in ToSet(s.buffer) : row.key = k
      BY <1>1 DEF Keys
    <2>2. s.disk[k] = Value(row)
      BY <2>1 DEF Good, CleanOnDisk, Value
    <2> QED BY <2>1, <2>2, VisibleOfRow DEF Good
  <1>2. CASE k \notin Keys(s)
    BY <1>2, VisibleOfRow DEF Good
  <1> QED BY <1>1, <1>2

--------------------------------------------------------------------------------
(* The operations: each keeps a store good, and changes what is visible of  *)
(* the key it is about only.                                                *)

Cleaned(row) == [row EXCEPT !.is_dirty = FALSE]

\* A flush with something to write.
LEMMA FlushWrites ==
  ASSUME NEW s, Good(s), NEW r \in ToSet(s.buffer), r.is_dirty
  PROVE  /\ Flushed(s) = [capacity |-> s.capacity,
                          disk |-> [k \in Key |-> Visible(s, k)],
                          buffer |-> [i \in DOMAIN s.buffer |-> Cleaned(s.buffer[i])]]
         /\ Good(Flushed(s))
         /\ \A k \in Key : Visible(Flushed(s), k) = Visible(s, k)
  <1> DEFINE b == [i \in DOMAIN s.buffer |-> Cleaned(s.buffer[i])]
             d == [k \in Key |-> Visible(s, k)]
             f == [capacity |-> s.capacity, disk |-> d, buffer |-> b]
  <1>1. s \in Store /\ StoreOK(s)
    BY DEF Good
  <1>2. ASSUME NEW k \in Key
        PROVE  Merged(s, k) = Visible(s, k)
    <2>1. CASE k \in Keys(s) /\ Buffered(s, k).is_dirty
      BY <2>1 DEF Merged, Visible
    <2>2. CASE ~(k \in Keys(s) /\ Buffered(s, k).is_dirty)
      <3>1. \A row \in ToSet(s.buffer) : row.key = k => ~row.is_dirty
        BY <1>1, <2>2, BufferedIsTheRow
      <3> QED BY <2>2, <3>1, CleanVisible DEF Merged
    <2> QED BY <2>1, <2>2
  <1>3. Flushed(s) = f
    <2>1. ~ \A row \in ToSet(s.buffer) : ~row.is_dirty
      OBVIOUS
    <2>2. Flushed(s) = [s EXCEPT !.disk = [k \in Key |-> Merged(s, k)],
                                 !.buffer = [i \in DOMAIN @ |-> [@[i] EXCEPT !.is_dirty = FALSE]]]
      BY <2>1 DEF Flushed
    <2>3. [k \in Key |-> Merged(s, k)] = d
      BY <1>2
    <2>4. s = [capacity |-> s.capacity, disk |-> s.disk, buffer |-> s.buffer]
      BY <1>1, StoreFields
    <2> QED BY <2>2, <2>3, <2>4 DEF Cleaned
  <1>4. b \in Seq(BufferedRow) /\ Len(b) = Len(s.buffer) /\ DOMAIN b = DOMAIN s.buffer
    <2>1. s.buffer \in Seq(BufferedRow)
      BY <1>1, StoreFields
    <2>2. \A row \in BufferedRow : Cleaned(row) \in BufferedRow
      BY DEF Cleaned, BufferedRow
    <2> QED BY <2>1, <2>2
  <1>5. d \in [Key -> Row \cup {NoRow}]
    BY <1>1, VisibleOfRow
  <1>6. \A i \in DOMAIN s.buffer : /\ s.buffer[i] \in BufferedRow /\ s.buffer[i] \in ToSet(s.buffer)
                                  /\ b[i].key = s.buffer[i].key
                                  /\ Value(b[i]) = Value(s.buffer[i])
    <2>1. ASSUME NEW i \in DOMAIN s.buffer
          PROVE  s.buffer[i] \in BufferedRow /\ s.buffer[i] \in ToSet(s.buffer)
      BY <1>1, StoreFields DEF ToSet
    <2>2. \A row \in BufferedRow : Cleaned(row).key = row.key /\ Value(Cleaned(row)) = Value(row)
      BY DEF Cleaned, BufferedRow, Value
    <2> QED BY <2>1, <2>2
  <1> HIDE DEF b, d
  <1>7. f \in Store /\ StoreOK(f)
    <2>1. f.capacity = s.capacity /\ f.disk = d /\ f.buffer = b
      OBVIOUS
    <2>2. f \in Store
      BY <1>1, <1>4, <1>5, StoreFields DEF Store
    <2>3. StoreOK(f)
      BY <1>1, <1>4, <1>6, <2>1 DEF StoreOK
    <2> QED BY <2>2, <2>3
  <1>8. \A row \in ToSet(b) : \E r0 \in ToSet(s.buffer) : row.key = r0.key /\ Value(row) = Value(r0)
    <2> TAKE row \in ToSet(b)
    <2>1. PICK i \in DOMAIN b : b[i] = row
      BY DEF ToSet
    <2>2. i \in DOMAIN s.buffer /\ s.buffer[i] \in ToSet(s.buffer)
      BY <1>4, <2>1 DEF ToSet
    <2> QED BY <1>6, <2>1, <2>2
  <1>9. \A r0 \in ToSet(s.buffer) : \E row \in ToSet(b) : row.key = r0.key /\ Value(row) = Value(r0)
    <2> TAKE r0 \in ToSet(s.buffer)
    <2>1. PICK i \in DOMAIN s.buffer : s.buffer[i] = r0
      BY DEF ToSet
    <2>2. b[i] \in ToSet(b)
      BY <1>4 DEF ToSet
    <2> QED BY <1>6, <2>1, <2>2
  <1>10. CleanOnDisk(f)
    <2>1. ASSUME NEW row \in ToSet(b)
          PROVE  d[row.key] = Value(row)
      <3>1. PICK r0 \in ToSet(s.buffer) : row.key = r0.key /\ Value(row) = Value(r0)
        BY <1>8
      <3>2. r0.key \in Key /\ Visible(s, r0.key) = Value(r0)
        BY <1>1, VisibleOfRow, StoreFields DEF BufferedRow
      <3> QED BY <3>1, <3>2 DEF d
    <2> QED BY <2>1 DEF CleanOnDisk, Value
  <1>11. ASSUME NEW k \in Key
         PROVE  Visible(f, k) = Visible(s, k)
    <2>1. CASE \E r0 \in ToSet(s.buffer) : r0.key = k
      <3>1. PICK r0 \in ToSet(s.buffer) : r0.key = k
        BY <2>1
      <3>2. PICK row \in ToSet(b) : row.key = k /\ Value(row) = Value(r0)
        BY <1>9, <3>1
      <3>3. Visible(s, k) = Value(r0)
        BY <1>1, <3>1, VisibleOfRow
      <3>4. Visible(f, k) = Value(row)
        BY <1>7, <3>2, VisibleIs
      <3> QED BY <3>2, <3>3, <3>4
    <2>2. CASE ~ \E r0 \in ToSet(s.buffer) : r0.key = k
      <3>1. \A row \in ToSet(f.buffer) : row.key # k
        BY <1>8, <2>2
      <3>2. f.disk[k] = Visible(s, k)
        BY DEF d
      <3> QED BY <1>7, <3>1, <3>2, VisibleIs
    <2> QED BY <2>1, <2>2
  <1> QED BY <1>3, <1>7, <1>10, <1>11 DEF Good, b, d

\* After a flush the disk holds what was visible, and nothing else is to be seen.
LEMMA FlushedGood ==
  ASSUME NEW s, Good(s)
  PROVE  /\ Good(Flushed(s)) /\ Flushed(s).capacity = s.capacity
         /\ Len(Flushed(s).buffer) <= Len(s.buffer)
         /\ \A k \in Key : /\ Flushed(s).disk[k] = Visible(s, k)
                           /\ Visible(Flushed(s), k) = Visible(s, k)
  <1>1. CASE \A row \in ToSet(s.buffer) : ~row.is_dirty
    <2> DEFINE f == [capacity |-> s.capacity, disk |-> s.disk, buffer |-> <<>>]
    <2>1. s \in Store /\ StoreOK(s)
      BY DEF Good
    <2>2. Flushed(s) = f
      <3>1. Flushed(s) = [s EXCEPT !.buffer = <<>>]
        BY <1>1 DEF Flushed
      <3> QED BY <2>1, <3>1, StoreFields
    <2>3. f \in Store
      BY <2>1, StoreFields DEF Store
    <2>4. ToSet(f.buffer) = {} /\ Len(f.buffer) = 0
      BY DEF ToSet
    <2>5. StoreOK(f)
      BY <2>1, StoreFields DEF StoreOK
    <2>6. Good(f)
      BY <2>3, <2>4, <2>5 DEF Good, CleanOnDisk
    <2>7. ASSUME NEW k \in Key
          PROVE  f.disk[k] = Visible(s, k) /\ Visible(f, k) = Visible(s, k)
      <3>1. Visible(s, k) = s.disk[k]
        BY <1>1, CleanVisible
      <3>2. Visible(f, k) = f.disk[k]
        BY <2>4, <2>6, CleanVisible
      <3> QED BY <3>1, <3>2
    <2>8. Len(s.buffer) \in Nat
      BY <2>1, StoreFields
    <2> QED BY <2>2, <2>4, <2>6, <2>7, <2>8
  <1>2. CASE \E row \in ToSet(s.buffer) : row.is_dirty
    <2>1. PICK r \in ToSet(s.buffer) : r.is_dirty
      BY <1>2
    <2>2. Flushed(s) = [capacity |-> s.capacity,
                        disk |-> [k \in Key |-> Visible(s, k)],
                        buffer |-> [i \in DOMAIN s.buffer |-> Cleaned(s.buffer[i])]]
      BY <2>1, FlushWrites
    <2>3. Good(Flushed(s)) /\ \A k \in Key : Visible(Flushed(s), k) = Visible(s, k)
      BY <2>1, FlushWrites
    <2>4. s.buffer \in Seq(BufferedRow)
      BY StoreFields DEF Good
    <2>5. Len([i \in DOMAIN s.buffer |-> Cleaned(s.buffer[i])]) = Len(s.buffer)
      BY <2>4
    <2> QED BY <2>2, <2>3, <2>4, <2>5
  <1> QED BY <1>1, <1>2

\* Forgetting rows shows what is on disk of their keys.
LEMMA FewerRows ==
  ASSUME NEW s, Good(s), NEW q, q \in Seq(BufferedRow), Distinct(q),
         Len(q) <= Len(s.buffer), ToSet(q) \subseteq ToSet(s.buffer)
  PROVE  /\ Good([s EXCEPT !.buffer = q])
         /\ \A k \in Key :
              IF \E row \in ToSet(s.buffer) \ ToSet(q) : row.key = k
                THEN Visible([s EXCEPT !.buffer = q], k) = s.disk[k]
                ELSE Visible([s EXCEPT !.buffer = q], k) = Visible(s, k)
  <1> DEFINE u == [capacity |-> s.capacity, disk |-> s.disk, buffer |-> q]
  <1>1. s \in Store /\ StoreOK(s)
    BY DEF Good
  <1>2. [s EXCEPT !.buffer = q] = u
    BY <1>1, StoreFields
  <1>3. Len(q) \in Nat /\ Len(s.buffer) \in Nat /\ s.capacity \in Nat /\ Len(s.buffer) <= s.capacity
    BY <1>1, StoreFields
  <1>4. u \in Store /\ StoreOK(u)
    BY <1>1, <1>3, StoreFields DEF Store, StoreOK, Distinct
  <1>5. CleanOnDisk(u)
    BY DEF Good, CleanOnDisk
  <1>6. ASSUME NEW k \in Key, NEW row \in ToSet(s.buffer) \ ToSet(q), row.key = k
        PROVE  Visible(u, k) = s.disk[k]
    <2>1. \A r \in ToSet(q) : r.key # k
      BY <1>1, <1>6, BufferedIsTheRow
    <2>2. u.buffer = q /\ u.disk[k] = s.disk[k]
      OBVIOUS
    <2> HIDE DEF u
    <2> QED BY <1>4, <2>1, <2>2, VisibleIs
  <1>7. ASSUME NEW k \in Key, ~ \E row \in ToSet(s.buffer) \ ToSet(q) : row.key = k
        PROVE  Visible(u, k) = Visible(s, k)
    <2>1. CASE \E row \in ToSet(q) : row.key = k
      <3>1. PICK row \in ToSet(q) : row.key = k
        BY <2>1
      <3>2. Visible(s, k) = Value(row)
        BY <1>1, <3>1, VisibleOfRow
      <3>3. u.buffer = q
        OBVIOUS
      <3> HIDE DEF u
      <3> QED BY <1>4, <3>1, <3>2, <3>3, VisibleOfRow
    <2>2. CASE ~ \E row \in ToSet(q) : row.key = k
      <3>1. \A row \in ToSet(s.buffer) : row.key # k
        BY <1>7, <2>2
      <3>2. Visible(s, k) = s.disk[k]
        BY <1>1, <3>1, VisibleIs
      <3>3. u.buffer = q /\ u.disk[k] = s.disk[k]
        OBVIOUS
      <3> HIDE DEF u
      <3> QED BY <1>4, <2>2, <3>2, <3>3, VisibleIs
    <2> QED BY <2>1, <2>2
  <1> QED BY <1>2, <1>4, <1>5, <1>6, <1>7 DEF Good

\* The row that goes is no longer dirty: nothing is lost.
LEMMA EvictedGood ==
  ASSUME NEW s, Good(s), Len(s.buffer) > 0
  PROVE  /\ Good(Evicted(s)) /\ Evicted(s).capacity = s.capacity
         /\ Len(Evicted(s).buffer) = Len(s.buffer) - 1
         /\ Keys(Evicted(s)) \subseteq Keys(s)
         /\ \A k \in Key : /\ Visible(Evicted(s), k) = Visible(s, k)
                           /\ Evicted(s).disk[k] \in {s.disk[k], Visible(s, k)}
  <1>1. s \in Store /\ StoreOK(s) /\ s.buffer \in Seq(BufferedRow) /\ Len(s.buffer) \in Nat
    BY StoreFields DEF Good
  <1>2. 1 \in DOMAIN s.buffer /\ Head(s.buffer) = s.buffer[1] /\ Head(s.buffer) \in ToSet(s.buffer)
    BY <1>1 DEF ToSet
  <1> DEFINE c == IF Head(s.buffer).is_dirty THEN Flushed(s) ELSE s
  <1>3. /\ Good(c) /\ c.capacity = s.capacity /\ Len(c.buffer) = Len(s.buffer)
        /\ ~ c.buffer[1].is_dirty /\ Keys(c) \subseteq Keys(s)
        /\ \A k \in Key : Visible(c, k) = Visible(s, k) /\ c.disk[k] \in {s.disk[k], Visible(s, k)}
    <2>1. CASE Head(s.buffer).is_dirty
      <3> DEFINE b == [i \in DOMAIN s.buffer |-> Cleaned(s.buffer[i])]
      <3>1. c = [capacity |-> s.capacity, disk |-> [k \in Key |-> Visible(s, k)], buffer |-> b]
        BY <1>2, <2>1, FlushWrites
      <3>2. Good(c) /\ \A k \in Key : Visible(c, k) = Visible(s, k)
        BY <1>2, <2>1, FlushWrites
      <3>3. \A i \in DOMAIN s.buffer : s.buffer[i] \in BufferedRow
        BY <1>1
      <3>4. Len(b) = Len(s.buffer) /\ DOMAIN b = DOMAIN s.buffer
        BY <1>1
      <3>5. \A i \in DOMAIN s.buffer : b[i].key = s.buffer[i].key /\ ~b[i].is_dirty
        BY <3>3 DEF Cleaned, BufferedRow
      <3>6. c.buffer = b /\ c.capacity = s.capacity /\ \A k \in Key : c.disk[k] = Visible(s, k)
        BY <3>1
      <3> HIDE DEF b, c
      <3>7. Keys(c) \subseteq Keys(s)
        BY <3>4, <3>5, <3>6 DEF Keys, ToSet
      <3> QED BY <1>2, <3>2, <3>4, <3>5, <3>6, <3>7
    <2>2. CASE ~Head(s.buffer).is_dirty
      BY <1>2, <2>2
    <2> QED BY <2>1, <2>2
  <1>4. Evicted(s) = [c EXCEPT !.buffer = Tail(c.buffer)]
    BY <1>3, StoreFields DEF Evicted, Good
  <1> HIDE DEF c
  <1> DEFINE q == Tail(c.buffer)
             u == [c EXCEPT !.buffer = q]
  <1>5. c \in Store /\ StoreOK(c) /\ c.buffer \in Seq(BufferedRow)
    BY <1>3, StoreFields DEF Good
  <1>6. /\ q \in Seq(BufferedRow) /\ Len(q) = Len(s.buffer) - 1
        /\ \A i \in DOMAIN q : i + 1 \in DOMAIN c.buffer /\ q[i] = c.buffer[i + 1]
        /\ \A i \in DOMAIN c.buffer : i # 1 => i - 1 \in DOMAIN q /\ q[i - 1] = c.buffer[i]
        /\ DOMAIN q \subseteq Nat /\ DOMAIN c.buffer \subseteq Nat
    BY <1>1, <1>3, <1>5
  <1> HIDE DEF q
  <1>7. Distinct(q)
    <2> SUFFICES ASSUME NEW i \in DOMAIN q, NEW j \in DOMAIN q, q[i].key = q[j].key
                 PROVE  i = j
      BY DEF Distinct
    <2>1. /\ i + 1 \in DOMAIN c.buffer /\ j + 1 \in DOMAIN c.buffer
          /\ c.buffer[i + 1].key = c.buffer[j + 1].key
      BY <1>6
    <2>2. i + 1 = j + 1
      BY <1>5, <2>1 DEF StoreOK
    <2>3. i \in Nat /\ j \in Nat
      BY <1>6
    <2> QED BY <2>2, <2>3
  <1>8. ToSet(q) \subseteq ToSet(c.buffer)
    <2> SUFFICES ASSUME NEW i \in DOMAIN q
                 PROVE  q[i] \in ToSet(c.buffer)
      BY DEF ToSet
    <2>1. i + 1 \in DOMAIN c.buffer /\ q[i] = c.buffer[i + 1]
      BY <1>6
    <2> QED BY <2>1 DEF ToSet
  <1>9. \A row \in ToSet(c.buffer) \ ToSet(q) : row = c.buffer[1]
    BY <1>6 DEF ToSet
  <1>10. c.buffer[1] \in ToSet(c.buffer)
    BY <1>1, <1>3, <1>5 DEF ToSet
  <1>11. Len(q) <= Len(c.buffer)
    BY <1>1, <1>3, <1>6
  <1>12. /\ Good(u)
         /\ \A k \in Key : IF \E row \in ToSet(c.buffer) \ ToSet(q) : row.key = k
                             THEN Visible(u, k) = c.disk[k] ELSE Visible(u, k) = Visible(c, k)
    BY <1>3, <1>6, <1>7, <1>8, <1>11, FewerRows
  <1>13. ASSUME NEW k \in Key
         PROVE  Visible(u, k) = Visible(c, k)
    <2>1. CASE \E row \in ToSet(c.buffer) \ ToSet(q) : row.key = k
      <3>1. c.buffer[1].key = k
        BY <1>9, <2>1
      <3>2. \A row \in ToSet(c.buffer) : row.key = k => row = c.buffer[1]
        BY <1>5, <1>10, <3>1, BufferedIsTheRow
      <3>3. Visible(c, k) = c.disk[k]
        BY <1>3, <3>2, CleanVisible
      <3> QED BY <1>12, <2>1, <3>3
    <2>2. CASE ~ \E row \in ToSet(c.buffer) \ ToSet(q) : row.key = k
      BY <1>12, <2>2
    <2> QED BY <2>1, <2>2
  <1>14. u.capacity = c.capacity /\ u.disk = c.disk /\ u.buffer = q
    BY <1>5, StoreFields
  <1>15. Keys(u) \subseteq Keys(c)
    BY <1>8, <1>14 DEF Keys
  <1>16. Evicted(s) = u
    BY <1>4 DEF q
  <1> HIDE DEF u
  <1> QED BY <1>3, <1>6, <1>12, <1>13, <1>14, <1>15, <1>16

\* From s to u only k changes in what is visible, to x; what reaches the disk was visible.
Shows(s, u, k, x) ==
  /\ Good(u) /\ u.capacity = s.capacity
  /\ Visible(u, k) = x
  /\ \A j \in Key \ {k} : Visible(u, j) = Visible(s, j)
  /\ \A j \in Key : u.disk[j] \in {s.disk[j], Visible(s, j)}

\* A row in a place that is free.
LEMMA OneMoreRow ==
  ASSUME NEW s, Good(s), NEW row \in BufferedRow, Len(s.buffer) < s.capacity,
         row.key \notin Keys(s), row.is_dirty \/ Value(row) = s.disk[row.key]
  PROVE  /\ Shows(s, [s EXCEPT !.buffer = Append(@, row)], row.key, Value(row))
         /\ row \in ToSet([s EXCEPT !.buffer = Append(@, row)].buffer)
  <1> DEFINE q == Append(s.buffer, row)
             u == [capacity |-> s.capacity, disk |-> s.disk, buffer |-> q]
  <1>1. s \in Store /\ StoreOK(s)
    BY DEF Good
  <1>2. [s EXCEPT !.buffer = Append(@, row)] = u
    BY <1>1, StoreFields
  <1>3. /\ q \in Seq(BufferedRow) /\ Len(q) = Len(s.buffer) + 1 /\ Len(s.buffer) \in Nat
        /\ \A i \in DOMAIN s.buffer : i \in DOMAIN q /\ q[i] = s.buffer[i]
        /\ \A i \in DOMAIN q : i \in DOMAIN s.buffer \/ i = Len(s.buffer) + 1
        /\ q[Len(s.buffer) + 1] = row /\ Len(s.buffer) + 1 \in DOMAIN q
    BY <1>1, StoreFields
  <1> HIDE DEF q
  <1>4. ToSet(q) = ToSet(s.buffer) \cup {row}
    BY <1>3 DEF ToSet
  <1>5. \A r \in ToSet(s.buffer) : r.key # row.key
    BY DEF Keys
  <1>6. Distinct(q)
    <2> SUFFICES ASSUME NEW i \in DOMAIN q, NEW j \in DOMAIN q, q[i].key = q[j].key
                 PROVE  i = j
      BY DEF Distinct
    <2>1. \A l \in DOMAIN s.buffer : s.buffer[l] \in ToSet(s.buffer)
      BY DEF ToSet
    <2>2. CASE i \in DOMAIN s.buffer /\ j \in DOMAIN s.buffer
      BY <1>1, <1>3, <2>2 DEF StoreOK
    <2>3. CASE i \notin DOMAIN s.buffer \/ j \notin DOMAIN s.buffer
      BY <1>3, <1>5, <2>1, <2>3
    <2> QED BY <2>2, <2>3
  <1>7. u \in Store /\ StoreOK(u)
    <2>1. s.capacity \in Nat
      BY <1>1, StoreFields
    <2>2. Len(q) <= s.capacity
      BY <1>3, <2>1
    <2> QED BY <1>1, <1>3, <1>6, <2>2, StoreFields DEF Store, StoreOK, Distinct
  <1>8. u.buffer = q /\ u.disk = s.disk /\ u.capacity = s.capacity
    OBVIOUS
  <1> HIDE DEF u
  <1>9. CleanOnDisk(u)
    BY <1>4, <1>8 DEF Good, CleanOnDisk, Value
  <1>10. Visible(u, row.key) = Value(row)
    BY <1>4, <1>7, <1>8, VisibleOfRow
  <1>11. ASSUME NEW j \in Key \ {row.key}
         PROVE  Visible(u, j) = Visible(s, j)
    <2>1. CASE \E r \in ToSet(s.buffer) : r.key = j
      <3>1. PICK r \in ToSet(s.buffer) : r.key = j
        BY <2>1
      <3>2. r \in ToSet(u.buffer)
        BY <1>4, <1>8
      <3> QED BY <1>1, <1>7, <3>1, <3>2, VisibleOfRow
    <2>2. CASE ~ \E r \in ToSet(s.buffer) : r.key = j
      <3>1. \A r \in ToSet(u.buffer) : r.key # j
        BY <1>4, <1>8, <2>2
      <3>2. Visible(u, j) = u.disk[j]
        BY <1>7, <3>1, VisibleIs
      <3>3. Visible(s, j) = s.disk[j]
        BY <1>1, <2>2, VisibleIs
      <3> QED BY <1>8, <3>2, <3>3
    <2> QED BY <2>1, <2>2
  <1>12. Good(u)
    BY <1>7, <1>9 DEF Good
  <1>13. row \in ToSet(u.buffer)
    BY <1>4, <1>8
  <1>14. Shows(s, u, row.key, Value(row))
    BY <1>8, <1>10, <1>11, <1>12 DEF Shows
  <1> QED BY <1>2, <1>13, <1>14

\* Room is made first where there is none.
LEMMA AddedGood ==
  ASSUME NEW s, Good(s), NEW row \in BufferedRow, row.key \notin Keys(s),
         row.is_dirty \/ Value(row) = s.disk[row.key]
  PROVE  Shows(s, Added(s, row), row.key, Value(row)) /\ row \in ToSet(Added(s, row).buffer)
  <1>1. /\ s \in Store /\ StoreOK(s) /\ Len(s.buffer) \in Nat /\ s.capacity \in Nat \ {0}
        /\ Len(s.buffer) <= s.capacity /\ row.key \in Key
    BY StoreFields DEF Good, BufferedRow
  <1>2. CASE Len(s.buffer) >= s.capacity
    <2> DEFINE e == Evicted(s)
               u == [e EXCEPT !.buffer = Append(@, row)]
    <2>1. Len(s.buffer) > 0
      BY <1>1, <1>2
    <2>2. /\ Good(e) /\ e.capacity = s.capacity
          /\ Len(e.buffer) = Len(s.buffer) - 1
          /\ Keys(e) \subseteq Keys(s)
          /\ \A k \in Key : /\ Visible(e, k) = Visible(s, k)
                            /\ e.disk[k] \in {s.disk[k], Visible(s, k)}
      BY <2>1, EvictedGood
    <2>3. Added(s, row) = u
      BY <1>2 DEF Added
    <2> HIDE DEF e
    <2>4. Visible(s, row.key) = s.disk[row.key]
      BY <1>1, VisibleOfRow
    <2>5. row.is_dirty \/ Value(row) = e.disk[row.key]
      BY <1>1, <2>2, <2>4
    <2>6. Len(e.buffer) < e.capacity /\ row.key \notin Keys(e)
      BY <1>1, <2>2
    <2>7. Shows(e, u, row.key, Value(row)) /\ row \in ToSet(u.buffer)
      BY <2>2, <2>5, <2>6, OneMoreRow
    <2> HIDE DEF u
    <2>8. Shows(s, u, row.key, Value(row))
      BY <2>2, <2>7 DEF Shows
    <2> QED BY <2>3, <2>7, <2>8
  <1>3. CASE ~ (Len(s.buffer) >= s.capacity)
    <2>1. Added(s, row) = [s EXCEPT !.buffer = Append(@, row)]
      BY <1>3 DEF Added
    <2>2. Len(s.buffer) < s.capacity
      BY <1>1, <1>3
    <2> QED BY <2>1, <2>2, OneMoreRow
  <1> QED BY <1>2, <1>3

\* A choice that leaves one place out is shorter.
LEMMA GapInChoice ==
  ASSUME NEW n \in Nat, NEW m \in Nat, NEW h \in [1 .. n -> 1 .. m],
         \A i, j \in 1 .. n : i < j => h[i] < h[j],
         NEW g \in 1 .. m, \A i \in 1 .. n : h[i] # g
  PROVE  n < m
  <1>1. \A i, j \in 1 .. n : h[i] = h[j] => i = j
    OBVIOUS
  <1>2. IsFiniteSet(1 .. n) /\ IsFiniteSet(1 .. m) /\ Cardinality(1 .. n) = n /\ Cardinality(1 .. m) = m
    BY FS_Interval
  <1>3. h \in [1 .. n -> (1 .. m) \ {g}]
    OBVIOUS
  <1>4. h \in Injection(1 .. n, (1 .. m) \ {g})
    BY <1>1, <1>3 DEF Injection, IsInjective
  <1>5. IsFiniteSet((1 .. m) \ {g}) /\ Cardinality((1 .. m) \ {g}) = m - 1
    BY <1>2, FS_RemoveElement
  <1>6. n <= m - 1
    BY <1>2, <1>4, <1>5, FS_Injection
  <1> QED BY <1>6

\* Without the row of k the disk shows.
LEMMA DroppedGood ==
  ASSUME NEW s, Good(s), NEW k \in Key
  PROVE  /\ Shows(s, Dropped(s, k), k, s.disk[k])
         /\ k \notin Keys(Dropped(s, k)) /\ Dropped(s, k).disk = s.disk
         /\ Dropped(s, k).buffer = Others(s, k)
         /\ Len(Others(s, k)) <= Len(s.buffer)
         /\ k \in Keys(s) => Len(Others(s, k)) < Len(s.buffer)
  <1> DEFINE S == {row \in ToSet(s.buffer) : row.key # k}
             q == Others(s, k)
             u == [s EXCEPT !.buffer = q]
  <1>1. s \in Store /\ StoreOK(s) /\ s.buffer \in Seq(BufferedRow)
    BY StoreFields DEF Good
  <1>2. q = Only(s.buffer, S)
    BY DEF Others
  <1>3. q \in Seq(BufferedRow)
    BY <1>1, <1>2, OnlyType, Zenon
  <1>4. PICK h : Selects(h, s.buffer, q, S)
    BY <1>1, <1>2, OnlySelects, Zenon
  <1>5. ToSet(q) = S
    <2>1. ToSet(q) = ToSet(s.buffer) \cap S
      BY <1>1, <1>2, OnlyRange, Zenon
    <2> QED BY <2>1
  <1>6. Len(q) <= Len(s.buffer) /\ Len(q) \in Nat /\ Len(s.buffer) \in Nat
    BY <1>1, <1>2, <1>3, OnlyLength
  <1> HIDE DEF q
  <1>7. /\ DOMAIN q = 1 .. Len(q) /\ DOMAIN s.buffer = 1 .. Len(s.buffer)
        /\ h \in [1 .. Len(q) -> 1 .. Len(s.buffer)]
        /\ \A i, j \in 1 .. Len(q) : i < j => h[i] < h[j]
        /\ \A i \in 1 .. Len(q) : q[i] = s.buffer[h[i]]
    BY <1>1, <1>3, <1>4 DEF Selects
  <1>8. \A i, j \in 1 .. Len(q) : h[i] = h[j] => i = j
    BY <1>6, <1>7
  <1>9. Distinct(q)
    BY <1>1, <1>7, <1>8 DEF Distinct, StoreOK
  <1>10. /\ Good(u)
         /\ \A j \in Key : IF \E row \in ToSet(s.buffer) \ ToSet(q) : row.key = j
                             THEN Visible(u, j) = s.disk[j]
                             ELSE Visible(u, j) = Visible(s, j)
    BY <1>3, <1>5, <1>6, <1>9, FewerRows
  <1>11. \A row \in ToSet(s.buffer) \ ToSet(q) : row.key = k
    BY <1>5
  <1>12. u.capacity = s.capacity /\ u.disk = s.disk /\ u.buffer = q
    BY <1>1, StoreFields
  <1>13. k \notin Keys(u)
    BY <1>5, <1>12 DEF Keys
  <1>14. Dropped(s, k) = u
    BY DEF Dropped, q
  <1>15. ASSUME k \in Keys(s)
         PROVE  Len(q) < Len(s.buffer)
    <2>1. PICK m \in 1 .. Len(s.buffer) : s.buffer[m].key = k
      BY <1>1, <1>15 DEF Keys, ToSet
    <2>2. \A i \in 1 .. Len(q) : q[i].key # k
      BY <1>3, <1>5, <1>7 DEF ToSet
    <2>3. \A i \in 1 .. Len(q) : h[i] # m
      BY <1>7, <2>1, <2>2
    <2> DEFINE n == Len(q)
               w == Len(s.buffer)
    <2>4. n \in Nat /\ w \in Nat /\ h \in [1 .. n -> 1 .. w] /\ m \in 1 .. w
      BY <1>6, <1>7
    <2>5. \A i, j \in 1 .. n : i < j => h[i] < h[j]
      BY <1>7
    <2>6. \A i \in 1 .. n : h[i] # m
      BY <2>3
    <2> HIDE DEF n, w
    <2>7. n < w
      BY <2>4, <2>5, <2>6, GapInChoice
    <2> QED BY <2>7 DEF n, w
  <1> HIDE DEF u, S
  <1>16. Visible(u, k) = u.disk[k]
    BY <1>10, <1>13, VisibleOfRow DEF Good
  <1>17. Shows(s, u, k, s.disk[k])
    BY <1>10, <1>11, <1>12, <1>16 DEF Shows
  <1> QED BY <1>6, <1>12, <1>13, <1>14, <1>15, <1>17 DEF q

\* A dirty row, in place of the one its key had or in a new place.
LEMMA PutGood ==
  ASSUME NEW s, Good(s), NEW row \in BufferedRow, row.is_dirty
  PROVE  Shows(s, Put(s, row), row.key, Value(row)) /\ row \in ToSet(Put(s, row).buffer)
  <1>1. s \in Store /\ StoreOK(s) /\ row.key \in Key
    BY DEF Good, BufferedRow
  <1>2. CASE row.key \in Keys(s)
    <2> DEFINE d == Dropped(s, row.key)
               u == [d EXCEPT !.buffer = Append(@, row)]
    <2>1. /\ Shows(s, d, row.key, s.disk[row.key])
          /\ row.key \notin Keys(d) /\ d.disk = s.disk
          /\ d.buffer = Others(s, row.key) /\ Len(Others(s, row.key)) < Len(s.buffer)
      BY <1>1, <1>2, DroppedGood
    <2>2. Put(s, row) = u
      BY <1>1, <1>2, StoreFields DEF Put, Dropped
    <2> HIDE DEF d
    <2>3. Len(d.buffer) < d.capacity
      <3>1. Len(d.buffer) \in Nat
        BY <2>1, StoreFields DEF Good, Shows
      <3> QED BY <1>1, <2>1, <3>1, StoreFields DEF Shows
    <2>4. Shows(d, u, row.key, Value(row)) /\ row \in ToSet(u.buffer)
      BY <2>1, <2>3, OneMoreRow DEF Shows
    <2> HIDE DEF u
    <2>5. \A j \in Key \ {row.key} : d.disk[j] = s.disk[j] /\ Visible(d, j) = Visible(s, j)
      BY <2>1 DEF Shows
    <2>6. u.disk[row.key] \in {s.disk[row.key], Visible(s, row.key)}
      <3>1. Visible(d, row.key) = s.disk[row.key] /\ d.disk[row.key] = s.disk[row.key]
        BY <2>1 DEF Shows
      <3> QED BY <1>1, <2>4, <3>1 DEF Shows
    <2>7. Shows(s, u, row.key, Value(row))
      BY <2>1, <2>4, <2>5, <2>6 DEF Shows
    <2> QED BY <2>2, <2>4, <2>7
  <1>3. CASE row.key \notin Keys(s)
    BY <1>3, AddedGood DEF Put
  <1> QED BY <1>2, <1>3

\* Reading a row changes nothing that is visible, and buffers the row.
LEMMA FetchedGood ==
  ASSUME NEW s, Good(s), NEW k \in Key
  PROVE  /\ Shows(s, Fetched(s, k), k, Visible(s, k))
         /\ k \in Keys(Fetched(s, k))
         /\ Buffered(Fetched(s, k), k) \in BufferedRow
         /\ Buffered(Fetched(s, k), k).key = k
         /\ Value(Buffered(Fetched(s, k), k)) = Visible(s, k)
  <1>1. s \in Store /\ StoreOK(s) /\ s.disk[k] \in Row \cup {NoRow}
    BY StoreFields DEF Good
  <1>2. Shows(s, Fetched(s, k), k, Visible(s, k)) /\ k \in Keys(Fetched(s, k))
    <2>1. CASE k \in Keys(s)
      BY <2>1 DEF Fetched, Shows
    <2>2. CASE k \notin Keys(s)
      <3> DEFINE row == [key |-> k, data |-> s.disk[k], is_dirty |-> s.disk[k] = NoRow,
                         is_deleted |-> FALSE]
      <3>1. row \in BufferedRow /\ row.key = k /\ Value(row) = s.disk[k]
        BY <1>1 DEF BufferedRow, Value
      <3>2. Fetched(s, k) = Added(s, row)
        BY <2>2 DEF Fetched
      <3>3. Visible(s, k) = s.disk[k]
        BY <1>1, <2>2, VisibleOfRow
      <3> HIDE DEF row
      <3>4. Shows(s, Added(s, row), k, s.disk[k]) /\ row \in ToSet(Added(s, row).buffer)
        BY <2>2, <3>1, AddedGood
      <3> QED BY <3>1, <3>2, <3>3, <3>4 DEF Keys
    <2> QED BY <2>1, <2>2
  <1> DEFINE f == Fetched(s, k)
  <1>3. f \in Store /\ StoreOK(f)
    BY <1>2 DEF Shows, Good
  <1>4. Buffered(f, k) \in ToSet(f.buffer) /\ Buffered(f, k).key = k
    BY <1>2, <1>3, BufferedIsTheRow
  <1>5. Buffered(f, k) \in BufferedRow
    BY <1>3, <1>4, StoreFields
  <1>6. Value(Buffered(f, k)) = Visible(f, k)
    BY <1>3, <1>4, VisibleOfRow
  <1> QED BY <1>2, <1>4, <1>5, <1>6 DEF Shows

\* One change after another, of the same key.
LEMMA ShowsAgain ==
  ASSUME NEW s, NEW f, NEW u, NEW k \in Key, NEW x,
         Shows(s, f, k, Visible(s, k)), Shows(f, u, k, x)
  PROVE  Shows(s, u, k, x)
  <1>1. \A j \in Key : Visible(f, j) = Visible(s, j)
    BY DEF Shows
  <1>2. \A j \in Key : u.disk[j] \in {s.disk[j], Visible(s, j)}
    BY <1>1 DEF Shows
  <1> QED BY <1>1, <1>2 DEF Shows

\* A row that is visible shows what is written to it, and is its own before
\* image; a new one shows what is written where no deleted row is buffered.
LEMMA WrittenGood ==
  ASSUME NEW s, Good(s), NEW k \in Key, NEW new \in Row \cup {NoRow}
  PROVE  /\ BeforeImage(s, k) \in Row \cup {NoRow}
         /\ \E x \in Row \cup {NoRow} : Shows(s, Written(s, k, new), k, x)
         /\ Visible(s, k) # NoRow => /\ Shows(s, Written(s, k, new), k, new)
                                     /\ BeforeImage(s, k) = Visible(s, k)
  <1> DEFINE f == Fetched(s, k)
             b == Buffered(f, k)
             row == [b EXCEPT !.data = new, !.is_dirty = TRUE]
  <1>1. /\ Shows(s, f, k, Visible(s, k)) /\ k \in Keys(f) /\ b \in BufferedRow /\ b.key = k
        /\ Value(b) = Visible(s, k)
    BY FetchedGood
  <1>2. Written(s, k, new) = Put(f, row) /\ BeforeImage(s, k) = b.data
    BY DEF Written, BeforeImage
  <1> HIDE DEF f, b
  <1>3. /\ row \in BufferedRow /\ row.is_dirty /\ row.key = k
        /\ Value(row) = IF b.is_deleted THEN NoRow ELSE new
    BY <1>1 DEF BufferedRow, Value
  <1> HIDE DEF row
  <1>4. Shows(f, Put(f, row), k, Value(row))
    BY <1>1, <1>3, PutGood DEF Shows
  <1>5. Shows(s, Put(f, row), k, Value(row))
    BY <1>1, <1>4, ShowsAgain
  <1>6. Value(row) \in Row \cup {NoRow} /\ b.data \in Row \cup {NoRow}
    BY <1>1, <1>3 DEF BufferedRow
  <1>7. Visible(s, k) # NoRow => Value(row) = new /\ b.data = Visible(s, k)
    BY <1>1, <1>3 DEF Value
  <1> QED BY <1>2, <1>5, <1>6, <1>7

\* delete_block hides the row of its key and no other.
LEMMA DeletedGood ==
  ASSUME NEW s, Good(s), NEW k \in Key
  PROVE  Shows(s, Deleted(s, k), k, NoRow)
  <1> DEFINE f == Fetched(s, k)
             b == Buffered(f, k)
             row == [b EXCEPT !.is_deleted = TRUE, !.is_dirty = TRUE]
  <1>1. /\ Shows(s, f, k, Visible(s, k)) /\ k \in Keys(f) /\ b \in BufferedRow /\ b.key = k
    BY FetchedGood
  <1>2. Deleted(s, k) = Put(f, row)
    BY DEF Deleted
  <1> HIDE DEF f, b
  <1>3. row \in BufferedRow /\ row.is_dirty /\ row.key = k /\ Value(row) = NoRow
    BY <1>1 DEF BufferedRow, Value
  <1> HIDE DEF row
  <1>4. Shows(f, Put(f, row), k, NoRow)
    BY <1>1, <1>3, PutGood DEF Shows
  <1> QED BY <1>1, <1>2, <1>4, ShowsAgain

--------------------------------------------------------------------------------
(* A pool with more frames than there are keys evicts nothing: the disk     *)
(* changes when the pool is flushed and not before.                         *)

Roomy(s) ==
  /\ Good(s)
  /\ IsFiniteSet(Key) /\ s.capacity > Cardinality(Key)
  /\ \A row \in ToSet(s.buffer) : row.data \in Row

\* s with the buffered row of a key exchanged, or one more.
Renews(s, u, row) ==
  /\ u.disk = s.disk /\ u.capacity = s.capacity
  /\ ToSet(u.buffer) = {r \in ToSet(s.buffer) : r.key # row.key} \cup {row}

\* Keys are buffered once, so there is always a frame left.
LEMMA NeverFull ==
  ASSUME NEW s, Good(s), IsFiniteSet(Key), s.capacity > Cardinality(Key)
  PROVE  Len(s.buffer) < s.capacity
  <1> DEFINE n == Len(s.buffer)
             f == [i \in 1 .. n |-> s.buffer[i].key]
  <1>1. n \in Nat /\ DOMAIN s.buffer = 1 .. n /\ s.capacity \in Nat /\ Cardinality(Key) \in Nat
    BY StoreFields, FS_CardinalityType DEF Good
  <1>2. \A i \in 1 .. n : s.buffer[i].key \in Key
    <2>1. \A i \in 1 .. n : s.buffer[i] \in BufferedRow
      BY StoreFields DEF Good
    <2> QED BY <2>1 DEF BufferedRow
  <1>3. f \in Injection(1 .. n, Key)
    BY <1>1, <1>2, StoreFields DEF Good, Distinct, Injection, IsInjective
  <1>4. Cardinality(1 .. n) = n
    <2>1. n \in Int /\ 1 \in Int /\ n - 1 + 1 = n /\ (1 > n => n = 0)
      BY <1>1
    <2> HIDE DEF n
    <2>2. Cardinality(1 .. n) = IF 1 > n THEN 0 ELSE n - 1 + 1
      BY <2>1, FS_Interval
    <2> QED BY <2>1, <2>2
  <1>5. Cardinality(1 .. n) <= Cardinality(Key)
    BY <1>3, FS_Injection, Zenon
  <1> HIDE DEF n
  <1> QED BY <1>1, <1>4, <1>5 DEF n

\* The elements of a sequence and those of it with one more at its end.
LEMMA SetOfAppend ==
  ASSUME NEW E, NEW q \in Seq(E), NEW e \in E
  PROVE  ToSet(Append(q, e)) = ToSet(q) \cup {e}
  <1>1. /\ DOMAIN Append(q, e) = 1 .. Len(q) + 1 /\ DOMAIN q = 1 .. Len(q) /\ Len(q) \in Nat
        /\ Append(q, e)[Len(q) + 1] = e /\ \A i \in 1 .. Len(q) : Append(q, e)[i] = q[i]
    OBVIOUS
  <1>2. \A i \in 1 .. Len(q) + 1 : i \in 1 .. Len(q) \/ i = Len(q) + 1
    BY <1>1
  <1>3. Len(q) + 1 \in 1 .. Len(q) + 1 /\ \A i \in 1 .. Len(q) : i \in 1 .. Len(q) + 1
    BY <1>1
  <1> DEFINE u == Append(q, e)
  <1> HIDE DEF u
  <1> QED BY <1>1, <1>2, <1>3 DEF ToSet, u

\* write_to_buffer_for_recovery exchanges one row,
LEMMA PutRenews ==
  ASSUME NEW s, Good(s), NEW row \in BufferedRow, row.key \in Keys(s)
  PROVE  Renews(s, Put(s, row), row)
  <1>1. s.buffer \in Seq(BufferedRow) /\ s \in Store
    BY DEF Good, Store
  <1>2. /\ Others(s, row.key) \in Seq(BufferedRow)
        /\ ToSet(Others(s, row.key)) = {r \in ToSet(s.buffer) : r.key # row.key}
    <2> DEFINE S == {r \in ToSet(s.buffer) : r.key # row.key}
    <2>1. ToSet(Only(s.buffer, S)) = ToSet(s.buffer) \cap S /\ Only(s.buffer, S) \in Seq(BufferedRow)
      BY <1>1, OnlyType, OnlyRange
    <2> QED BY <2>1 DEF Others
  <1>3. Put(s, row) = [s EXCEPT !.buffer = Append(Others(s, row.key), row)]
    BY DEF Put
  <1> QED BY <1>1, <1>2, <1>3, SetOfAppend DEF Renews, Store

\* What a read buffers of a key that is not buffered.
Loaded(s, k) ==
  [key |-> k, data |-> s.disk[k], is_dirty |-> s.disk[k] = NoRow, is_deleted |-> FALSE]

\* and a fetch adds at most one.
LEMMA FetchedRenews ==
  ASSUME NEW s, Good(s), IsFiniteSet(Key), s.capacity > Cardinality(Key), NEW k \in Key
  PROVE  /\ k \in Keys(s) => Fetched(s, k) = s
         /\ k \notin Keys(s) => Renews(s, Fetched(s, k), Loaded(s, k))
  <1>1. k \in Keys(s) => Fetched(s, k) = s
    BY DEF Fetched
  <1>2. ASSUME k \notin Keys(s) PROVE Renews(s, Fetched(s, k), Loaded(s, k))
    <2>1. Len(s.buffer) < s.capacity /\ Len(s.buffer) \in Nat /\ s.capacity \in Nat
      BY NeverFull, StoreFields DEF Good
    <2>2. Fetched(s, k) = [s EXCEPT !.buffer = Append(s.buffer, Loaded(s, k))]
      BY <1>2, <2>1 DEF Fetched, Added, Loaded
    <2>3. s \in Store /\ s.buffer \in Seq(BufferedRow) /\ Loaded(s, k) \in BufferedRow /\ Loaded(s, k).key = k
      BY DEF Good, Store, Loaded, BufferedRow
    <2>4. \A r \in ToSet(s.buffer) : r.key # Loaded(s, k).key
      BY <1>2, <2>3 DEF Keys
    <2>5. ToSet(Append(s.buffer, Loaded(s, k))) = ToSet(s.buffer) \cup {Loaded(s, k)}
      BY <2>3, SetOfAppend
    <2> QED BY <2>2, <2>3, <2>4, <2>5 DEF Renews, Store
  <1> QED BY <1>1, <1>2

\* One after the other, for the same key.
LEMMA RenewsAgain ==
  ASSUME NEW s, NEW f, NEW u, NEW a, NEW b, a.key = b.key, Renews(s, f, a), Renews(f, u, b)
  PROVE  Renews(s, u, b)
  BY DEF Renews

\* The row of the key is then the new one, those of the others are as they were.
LEMMA RenewedRoomy ==
  ASSUME NEW s, Roomy(s), NEW u, Good(u), NEW row \in BufferedRow, row.data \in Row, Renews(s, u, row)
  PROVE  /\ Roomy(u) /\ u.disk = s.disk /\ Keys(u) = Keys(s) \cup {row.key}
         /\ Buffered(u, row.key) = row /\ Visible(u, row.key) = Value(row)
         /\ \A j \in Key \ {row.key} : /\ j \in Keys(s) => Buffered(u, j) = Buffered(s, j)
                                       /\ Visible(u, j) = Visible(s, j)
  <1>1. Roomy(u)
    BY DEF Roomy, Renews
  <1>2. Keys(u) = Keys(s) \cup {row.key}
    BY DEF Renews, Keys
  <1>3. Buffered(u, row.key) = row /\ Visible(u, row.key) = Value(row)
    BY BufferedIsTheRow, VisibleOfRow DEF Good, Renews
  <1>4. ASSUME NEW j \in Key \ {row.key}
        PROVE  (j \in Keys(s) => Buffered(u, j) = Buffered(s, j)) /\ Visible(u, j) = Visible(s, j)
    <2>1. CASE j \in Keys(s)
      <3>1. Buffered(s, j) \in ToSet(s.buffer) /\ Buffered(s, j).key = j
        BY <2>1, BufferedIsTheRow DEF Roomy, Good
      <3>2. Buffered(s, j) \in ToSet(u.buffer)
        BY <3>1 DEF Renews
      <3>3. Buffered(u, j) = Buffered(s, j)
        BY <3>1, <3>2, BufferedIsTheRow DEF Good
      <3> QED BY <2>1, <3>3, <1>2 DEF Visible
    <2>2. CASE j \notin Keys(s)
      BY <1>2, <2>2 DEF Visible, Renews
    <2> QED BY <2>1, <2>2
  <1> QED BY <1>1, <1>2, <1>3, <1>4 DEF Renews

\* A write, of a key that a statement sees or that is nowhere in the buffer, shows;
\* under a deleted row it does not.
LEMMA WrittenRoomy ==
  ASSUME NEW s, Roomy(s), NEW k \in Key, NEW new \in Row
  PROVE  /\ Roomy(Written(s, k, new)) /\ Written(s, k, new).disk = s.disk
         /\ Written(s, k, new).capacity = s.capacity
         /\ Keys(Written(s, k, new)) = Keys(s) \cup {k}
         /\ Visible(Written(s, k, new), k) =
              IF k \in Keys(s) /\ Buffered(s, k).is_deleted THEN NoRow ELSE new
         /\ \A j \in Key \ {k} : Visible(Written(s, k, new), j) = Visible(s, j)
  <1> DEFINE f == Fetched(s, k)
             b == Buffered(f, k)
             row == [b EXCEPT !.data = new, !.is_dirty = TRUE]
             u == Put(f, row)
  <1>0. Good(s) /\ IsFiniteSet(Key) /\ s.capacity > Cardinality(Key)
    BY DEF Roomy
  <1>1. Good(f) /\ k \in Keys(f) /\ b \in BufferedRow /\ b.key = k
    BY <1>0, FetchedGood DEF Shows
  <1>2. Written(s, k, new) = u
    BY DEF Written
  <1>3. b.is_deleted <=> k \in Keys(s) /\ Buffered(s, k).is_deleted
    <2>1. CASE k \in Keys(s)
      BY <2>1, <1>0, FetchedRenews
    <2>2. CASE k \notin Keys(s)
      <3>1. Loaded(s, k) \in ToSet(f.buffer) /\ Loaded(s, k).key = k /\ ~Loaded(s, k).is_deleted
        BY <2>2, <1>0, FetchedRenews DEF Renews, Loaded
      <3>2. b = Loaded(s, k)
        BY <1>1, <3>1, BufferedIsTheRow DEF Good
      <3> QED BY <2>2, <3>1, <3>2
    <2> QED BY <2>1, <2>2
  <1>4. /\ row \in BufferedRow /\ row.key = k /\ row.data = new /\ row.is_dirty
        /\ Value(row) = IF b.is_deleted THEN NoRow ELSE new
    BY <1>1 DEF BufferedRow, Value
  <1> HIDE DEF row, b
  <1>5. Good(u) /\ Renews(f, u, row)
    BY <1>1, <1>4, PutGood, PutRenews DEF Shows
  <1>6. Renews(s, u, row)
    <2>1. CASE k \in Keys(s)
      BY <2>1, <1>0, <1>5, FetchedRenews
    <2>2. CASE k \notin Keys(s)
      <3>1. Renews(s, f, Loaded(s, k)) /\ Loaded(s, k).key = k
        BY <2>2, <1>0, FetchedRenews DEF Loaded
      <3> QED BY <3>1, <1>4, <1>5, RenewsAgain
    <2> QED BY <2>1, <2>2
  <1> HIDE DEF u
  <1> QED BY <1>2, <1>3, <1>4, <1>5, <1>6, RenewedRoomy DEF Renews

\* A deletion of a key that a statement sees.
LEMMA DeletedRoomy ==
  ASSUME NEW s, Roomy(s), NEW k \in Key, Visible(s, k) # NoRow
  PROVE  /\ Roomy(Deleted(s, k)) /\ Deleted(s, k).disk = s.disk
         /\ Deleted(s, k).capacity = s.capacity
         /\ Visible(Deleted(s, k), k) = NoRow
         /\ \A j \in Key \ {k} : Visible(Deleted(s, k), j) = Visible(s, j)
  <1> DEFINE f == Fetched(s, k)
             b == Buffered(f, k)
             row == [b EXCEPT !.is_deleted = TRUE, !.is_dirty = TRUE]
             u == Put(f, row)
  <1>0. Good(s) /\ IsFiniteSet(Key) /\ s.capacity > Cardinality(Key)
    BY DEF Roomy
  <1>1. Good(f) /\ k \in Keys(f) /\ b \in BufferedRow /\ b.key = k /\ Value(b) = Visible(s, k)
    BY <1>0, FetchedGood DEF Shows
  <1>2. Deleted(s, k) = u
    BY DEF Deleted
  <1>3. b.data \in Row
    BY <1>1 DEF Value, BufferedRow
  <1>4. row \in BufferedRow /\ row.key = k /\ row.data \in Row /\ row.is_dirty /\ Value(row) = NoRow
    BY <1>1, <1>3 DEF BufferedRow, Value
  <1> HIDE DEF row, b
  <1>5. Good(u) /\ Renews(f, u, row)
    BY <1>1, <1>4, PutGood, PutRenews DEF Shows
  <1>6. Renews(s, u, row)
    <2>1. CASE k \in Keys(s)
      BY <2>1, <1>0, <1>5, FetchedRenews
    <2>2. CASE k \notin Keys(s)
      <3>1. Renews(s, f, Loaded(s, k)) /\ Loaded(s, k).key = k
        BY <2>2, <1>0, FetchedRenews DEF Loaded
      <3> QED BY <3>1, <1>4, <1>5, RenewsAgain
    <2> QED BY <2>1, <2>2
  <1> HIDE DEF u
  <1> QED BY <1>2, <1>4, <1>5, <1>6, RenewedRoomy DEF Renews

\* A flush brings to disk what statements see.
LEMMA FlushedRoomy ==
  ASSUME NEW s, Roomy(s)
  PROVE  /\ Roomy(Flushed(s)) /\ Flushed(s).capacity = s.capacity
         /\ \A k \in Key : Flushed(s).disk[k] = Visible(s, k) /\ Visible(Flushed(s), k) = Visible(s, k)
  <1>1. /\ Good(Flushed(s)) /\ Flushed(s).capacity = s.capacity
        /\ \A k \in Key : Flushed(s).disk[k] = Visible(s, k) /\ Visible(Flushed(s), k) = Visible(s, k)
    BY FlushedGood DEF Roomy
  <1>2. \A row \in ToSet(Flushed(s).buffer) : row.data \in Row
    <2>1. CASE \A row \in ToSet(s.buffer) : ~row.is_dirty
      <3>1. Flushed(s).buffer = <<>>
        BY <2>1, StoreFields DEF Flushed, Roomy, Good, Store
      <3>2. ToSet(<<>>) = {}
        BY DEF ToSet
      <3> QED BY <3>1, <3>2
    <2>2. ASSUME NEW r \in ToSet(s.buffer), r.is_dirty
          PROVE  \A row \in ToSet(Flushed(s).buffer) : row.data \in Row
      <3>1. Flushed(s).buffer = [i \in DOMAIN s.buffer |-> Cleaned(s.buffer[i])]
        BY <2>2, FlushWrites DEF Roomy
      <3>2. \A i \in DOMAIN s.buffer : s.buffer[i] \in BufferedRow /\ s.buffer[i].data \in Row
        BY DEF ToSet, Roomy, Good, Store
      <3>3. \A i \in DOMAIN s.buffer : Cleaned(s.buffer[i]).data \in Row
        BY <3>2 DEF Cleaned, BufferedRow
      <3> QED BY <3>1, <3>3 DEF ToSet
    <2> QED BY <2>1, <2>2
  <1> QED BY <1>1, <1>2 DEF Roomy

================================================================================
