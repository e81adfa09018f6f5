---------------------------- MODULE BPlusTreeProofs ----------------------------
(***************************************************************************)
(* What holds of the B+ tree for every order of at least three, every tree  *)
(* and every sequence of insertions and removals: what they do to its       *)
(* order and to its entries, and what its searches find.                    *)
(***************************************************************************)
EXTENDS BPlusTree, WellFoundedInduction, TLAPS

--------------------------------------------------------------------------------
(* Induction, for the folds of FoldTheorems too.                            *)

\* A set of naturals that is not empty has a smallest element.
LEMMA LeastElement ==
  ASSUME NEW S, S \subseteq Nat, S # {}
  PROVE  \E m \in S : \A n \in S : m <= n
  <1>1. \E m \in S : \A n \in S : ~ (<<n, m>> \in OpToRel(<, Nat))
    BY NatLessThanWellFounded, WFMin
  <1>2. \A n, m \in S : ~ (<<n, m>> \in OpToRel(<, Nat)) => m <= n
    BY DEF OpToRel
  <1> QED BY <1>1, <1>2

\* A set with 0 and, with a number, its successor, has all naturals.
LEMMA NaturalInduction ==
  ASSUME NEW I, 0 \in I, \A n \in Nat : n \in I => n + 1 \in I
  PROVE  Nat \subseteq I
  <1> SUFFICES ASSUME Nat \ I # {} PROVE FALSE
    OBVIOUS
  <1>1. PICK m \in Nat \ I : \A n \in Nat \ I : m <= n
    BY LeastElement
  <1> QED BY <1>1, m - 1 \in Nat

L == INSTANCE FoldTheorems WITH Op <- LAMBDA c, flat, s : flat \o s

\* Induction, for the theorems about the folds of L.
LEMMA LInductive == L!Inductive
  BY NaturalInduction DEF L!Inductive

--------------------------------------------------------------------------------
(* FlattenSeq.                                                              *)

\* A prefix is one shorter and its last element.
LEMMA Prefix ==
  ASSUME NEW E, NEW s \in Seq(E), NEW i \in 1 .. Len(s)
  PROVE  /\ SubSeq(s, 1, i) = Append(SubSeq(s, 1, i - 1), s[i])
         /\ SubSeq(s, 1, i - 1) \in Seq(E) /\ s[i] \in E /\ Len(SubSeq(s, 1, i - 1)) = i - 1
         /\ SubSeq(s, 1, 0) = <<>> /\ SubSeq(s, 1, Len(s)) = s
  OBVIOUS

\* The concatenation of a prefix, one element at a time.
LEMMA FoldOfPrefix ==
  ASSUME NEW E, NEW s \in Seq(Seq(E)), NEW i \in 1 .. Len(s)
  PROVE  /\ L!Fold(0, <<>>, SubSeq(s, 1, i)) = L!Fold(0, <<>>, SubSeq(s, 1, i - 1)) \o s[i]
         /\ L!Fold(0, <<>>, SubSeq(s, 1, 0)) = <<>>
  <1>1. /\ SubSeq(s, 1, i) = Append(SubSeq(s, 1, i - 1), s[i])
        /\ SubSeq(s, 1, i - 1) \in Seq(Seq(E)) /\ s[i] \in Seq(E) /\ SubSeq(s, 1, 0) = <<>>
    BY Prefix, Zenon
  <1>2. ASSUME NEW q \in Seq(Seq(E)), NEW e \in Seq(E)
        PROVE  L!Fold(0, <<>>, Append(q, e)) = L!Fold(0, <<>>, q) \o e
    BY L!FoldAppend, LInductive
  <1> QED BY <1>1, <1>2, L!FoldEmpty, LInductive

\* FlattenSeq, which the library defines by a recursive function, is a fold.
LEMMA FlattenIsFold ==
  ASSUME NEW E, NEW s \in Seq(Seq(E))
  PROVE  FlattenSeq(s) = L!Fold(0, <<>>, s)
  <1> DEFINE n == Len(s)
             cat(a, b) == a \o b
             p == [i \in 0 .. n |-> L!Fold(0, <<>>, SubSeq(s, 1, i))]
             g == [i \in 1 .. n |-> p[i]]
             f == CHOOSE f : f = [i \in 1 .. n |-> IF i = 1 THEN s[i] ELSE cat(f[i - 1], s[i])]
  <1>0. n \in Nat /\ \A i \in 1 .. n : s[i] \in Seq(E)
    OBVIOUS
  <1>1. \A i \in 1 .. n : p[i] = cat(p[i - 1], s[i]) /\ p[0] = <<>>
    <2>1. \A i \in 1 .. n : i \in 0 .. n /\ i - 1 \in 0 .. n /\ 0 \in 0 .. n
      OBVIOUS
    <2> QED BY <2>1, FoldOfPrefix
  <1>2. \A q \in Seq(E) : cat(<<>>, q) = q
    OBVIOUS
  <1>3. p[n] = L!Fold(0, <<>>, s) /\ p[0] = <<>>
    <2>0. n \in 0 .. n /\ 0 \in 0 .. n
      BY <1>0
    <2>1. SubSeq(s, 1, n) = s /\ SubSeq(s, 1, 0) = <<>>
      OBVIOUS
    <2> QED BY <2>0, <2>1, L!FoldEmpty, LInductive, Zenon
  <1>4. n # 0 => FlattenSeq(s) = f[n]
    BY Zenon DEF FlattenSeq
  <1> HIDE DEF p, cat
  <1>5. \A i \in 1 .. n : i = 1 => p[i] = s[i]
    BY <1>0, <1>1, <1>2
  <1>6. g = [i \in 1 .. n |-> IF i = 1 THEN s[i] ELSE cat(g[i - 1], s[i])]
    BY <1>0, <1>1, <1>5
  <1>7. f = [i \in 1 .. n |-> IF i = 1 THEN s[i] ELSE cat(f[i - 1], s[i])]
    BY <1>6, Zenon
  <1> HIDE DEF f, g
  <1>8. \A i \in Nat : i \in 1 .. n => f[i] = p[i]
    <2> DEFINE I == {i \in Nat : i \in 1 .. n => f[i] = p[i]}
    <2>1. 0 \in I
      BY <1>0
    <2>2. ASSUME NEW i \in Nat, i \in I PROVE i + 1 \in I
      <3>1. CASE i = 0
        BY <1>0, <1>5, <1>7, <3>1
      <3>2. CASE i > 0 /\ i + 1 \in 1 .. n
        <4>1. f[i] = p[i]
          BY <1>0, <2>2, <3>2
        <4>2. f[i + 1] = cat(f[i], s[i + 1]) /\ p[i + 1] = cat(p[i], s[i + 1])
          BY <1>0, <1>1, <1>7, <3>2
        <4> QED BY <4>1, <4>2
      <3> QED BY <3>1, <3>2, <1>0
    <2> QED BY <2>1, <2>2, NaturalInduction
  <1>9. CASE n = 0
    <2>1. s = <<>>
      BY <1>9
    <2>2. FlattenSeq(s) = s
      BY <1>9 DEF FlattenSeq
    <2> QED BY <2>1, <2>2, L!FoldEmpty, LInductive
  <1>10. CASE n # 0
    <2>1. n \in Nat /\ n \in 1 .. n
      BY <1>0, <1>10
    <2> HIDE DEF n
    <2>2. f[n] = p[n]
      BY <1>8, <2>1, Zenon
    <2> QED BY <1>3, <1>4, <1>10, <2>2, Zenon
  <1> QED BY <1>9, <1>10, Zenon

\* Flattening nothing,
LEMMA FlattenEmpty ==
  FlattenSeq(<<>>) = <<>>
  BY DEF FlattenSeq

\* one sequence more,
LEMMA FlattenAppend ==
  ASSUME NEW E, NEW s \in Seq(Seq(E)), NEW e \in Seq(E)
  PROVE  FlattenSeq(Append(s, e)) = FlattenSeq(s) \o e
  <1>1. Append(s, e) \in Seq(Seq(E))
    OBVIOUS
  <1>2. L!Fold(0, <<>>, Append(s, e)) = L!Fold(0, <<>>, s) \o e
    BY L!FoldAppend, LInductive
  <1> QED BY <1>1, <1>2, FlattenIsFold

\* sequences of one kind,
LEMMA FlattenType ==
  ASSUME NEW E, NEW s \in Seq(Seq(E))
  PROVE  FlattenSeq(s) \in Seq(E)
  <1>1. \A a \in Seq(E), e \in Seq(E) : a \o e \in Seq(E)
    OBVIOUS
  <1>2. <<>> \in Seq(E)
    OBVIOUS
  <1>3. L!Fold(0, <<>>, s) \in Seq(E)
    BY <1>1, <1>2, L!FoldType, LInductive
  <1> QED BY <1>3, FlattenIsFold

\* two lists of sequences,
LEMMA FlattenConcat ==
  ASSUME NEW E, NEW s \in Seq(Seq(E)), NEW u \in Seq(Seq(E))
  PROVE  FlattenSeq(s \o u) = FlattenSeq(s) \o FlattenSeq(u)
  <1> DEFINE I == {x \in Seq(Seq(E)) : FlattenSeq(s \o x) = FlattenSeq(s) \o FlattenSeq(x)}
  <1>0. FlattenSeq(s) \in Seq(E)
    BY FlattenType
  <1>1. <<>> \in I
    <2>1. s \o <<>> = s /\ \A q \in Seq(E) : q \o <<>> = q
      OBVIOUS
    <2>2. <<>> \in Seq(Seq(E))
      OBVIOUS
    <2> QED BY <1>0, <2>1, <2>2, FlattenEmpty, Zenon
  <1>2. ASSUME NEW x \in Seq(Seq(E)), NEW e \in Seq(E), x \in I
        PROVE  Append(x, e) \in I
    <2>1. s \o Append(x, e) = Append(s \o x, e) /\ s \o x \in Seq(Seq(E)) /\ Append(x, e) \in Seq(Seq(E))
      OBVIOUS
    <2>2. FlattenSeq(Append(s \o x, e)) = FlattenSeq(s \o x) \o e
      BY <2>1, FlattenAppend, Zenon
    <2>3. FlattenSeq(Append(x, e)) = FlattenSeq(x) \o e
      BY FlattenAppend, Zenon
    <2>4. FlattenSeq(x) \in Seq(E)
      BY FlattenType
    <2>5. \A a, b, c \in Seq(E) : (a \o b) \o c = a \o (b \o c)
      OBVIOUS
    <2>6. (FlattenSeq(s) \o FlattenSeq(x)) \o e = FlattenSeq(s) \o (FlattenSeq(x) \o e)
      BY <1>0, <2>4, <2>5, Zenon
    <2> QED BY <1>2, <2>1, <2>2, <2>3, <2>6, Zenon
  <1> HIDE DEF I
  <1>3. Seq(Seq(E)) \subseteq I
    BY <1>1, <1>2, L!SequenceInduction, LInductive
  <1> QED BY <1>3 DEF I

\* and a single sequence.
LEMMA FlattenOne ==
  ASSUME NEW E, NEW e \in Seq(E)
  PROVE  FlattenSeq(<<e>>) = e
  <1>1. <<e>> = Append(<<>>, e) /\ <<>> \in Seq(Seq(E)) /\ <<>> \o e = e
    OBVIOUS
  <1> QED BY <1>1, FlattenAppend, FlattenEmpty, Zenon

--------------------------------------------------------------------------------
(* Lists without repetitions, and first places.                             *)

\* No element twice.
Once(q) == \A i, j \in DOMAIN q : q[i] = q[j] => i = j

\* One element more, which is new.
LEMMA OnceAppend ==
  ASSUME NEW E, NEW q \in Seq(E), NEW e \in E
  PROVE  /\ Once(Append(q, e)) <=> Once(q) /\ e \notin ToSet(q)
         /\ ToSet(Append(q, e)) = ToSet(q) \cup {e}
  <1> DEFINE u == Append(q, e)
             n == Len(q)
  <1>1. /\ n \in Nat /\ DOMAIN u = 1 .. n + 1 /\ DOMAIN q = 1 .. n
        /\ u[n + 1] = e /\ \A i \in 1 .. n : u[i] = q[i]
    OBVIOUS
  <1> HIDE DEF u, n
  <1>2. n + 1 \in 1 .. n + 1 /\ \A i \in 1 .. n : i \in 1 .. n + 1 /\ i # n + 1
    BY <1>1
  <1>3. \A i \in 1 .. n + 1 : i \in 1 .. n \/ i = n + 1
    BY <1>1
  <1>4. Once(u) => Once(q) /\ e \notin ToSet(q)
    BY <1>1, <1>2 DEF Once, ToSet
  <1>5. Once(q) /\ e \notin ToSet(q) => Once(u)
    BY <1>1, <1>3 DEF Once, ToSet
  <1>6. ToSet(u) = ToSet(q) \cup {e}
    BY <1>1, <1>2, <1>3 DEF ToSet
  <1> QED BY <1>4, <1>5, <1>6 DEF u

\* A set of places that is not empty has a first one, which Min chooses.
LEMMA MinOf ==
  ASSUME NEW S, S \subseteq Nat, S # {}
  PROVE  Min(S) \in S /\ \A x \in S : Min(S) <= x
  <1>1. \E m \in S : \A n \in S : m <= n
    BY LeastElement
  <1> QED BY <1>1 DEF Min

--------------------------------------------------------------------------------
(* The functions on the nodes of a height, unfolded.                        *)

NF == INSTANCE FoldTheorems
        WITH Op <- LAMBDA c, x, h : [height : {h}, keys : Seq(Nat), children : Seq(IF h = 0 THEN Nat ELSE x)]

\* Induction, for the theorems about the folds of NF.
LEMMA NFInductive == NF!Inductive
  BY NaturalInduction DEF NF!Inductive

\* BPlusTreeNode: the children of a leaf are numbers, those of others are nodes.
LEMMA NodesAre ==
  /\ Nodes[0] = [height : {0}, keys : Seq(Nat), children : Seq(Nat)]
  /\ \A h \in Nat : Nodes[h + 1] = [height : {h + 1}, keys : Seq(Nat), children : Seq(Nodes[h])]
  <1>1. \E f : f = [h \in Nat |-> [height : {h}, keys : Seq(Nat), children : Seq(IF h = 0 THEN Nat ELSE f[h - 1])]]
    BY NF!RecursionExists, NFInductive
  <1>2. Nodes = [h \in Nat |-> [height : {h}, keys : Seq(Nat), children : Seq(IF h = 0 THEN Nat ELSE Nodes[h - 1])]]
    BY <1>1, Zenon DEF Nodes
  <1>3. \A h \in Nat : Nodes[h] = [height : {h}, keys : Seq(Nat), children : Seq(IF h = 0 THEN Nat ELSE Nodes[h - 1])]
    BY <1>2, Zenon
  <1>4. \A h \in Nat : h + 1 \in Nat /\ h + 1 # 0 /\ h + 1 - 1 = h
    OBVIOUS
  <1>5. 0 \in Nat
    OBVIOUS
  <1>6. ASSUME NEW h \in Nat
        PROVE  Nodes[h + 1] = [height : {h + 1}, keys : Seq(Nat), children : Seq(Nodes[h])]
    <2> DEFINE g == h + 1
    <2>1. g \in Nat /\ g # 0 /\ g - 1 = h /\ g = h + 1
      OBVIOUS
    <2> HIDE DEF g
    <2>2. Nodes[g] = [height : {g}, keys : Seq(Nat), children : Seq(IF g = 0 THEN Nat ELSE Nodes[g - 1])]
      BY <1>3, <2>1, Zenon
    <2>3. (IF g = 0 THEN Nat ELSE Nodes[g - 1]) = Nodes[h]
      BY <2>1, Zenon
    <2>4. Nodes[g] = [height : {g}, keys : Seq(Nat), children : Seq(Nodes[h])]
      BY <2>2, <2>3, Zenon
    <2> QED BY <2>1, <2>4, Zenon
  <1>7. Nodes[0] = [height : {0}, keys : Seq(Nat), children : Seq(Nat)]
    <2>1. Nodes[0] = [height : {0}, keys : Seq(Nat), children : Seq(IF 0 = 0 THEN Nat ELSE Nodes[0 - 1])]
      BY <1>3, <1>5, Zenon
    <2> QED BY <2>1, Zenon
  <1> QED BY <1>6, <1>7

\* The fields of a node, and that a leaf or an inner node with such fields is one.
LEMMA NodeFields ==
  /\ \A n \in Nodes[0] : /\ n.height = 0 /\ n.keys \in Seq(Nat) /\ n.children \in Seq(Nat)
                         /\ n = Leaf(n.keys, n.children)
  /\ \A h \in Nat : \A n \in Nodes[h + 1] :
       /\ n.height = h + 1 /\ n.keys \in Seq(Nat) /\ n.children \in Seq(Nodes[h])
       /\ n = [height |-> h + 1, keys |-> n.keys, children |-> n.children]
  /\ \A h \in Nat : \A n \in Nodes[h] : n.height = h /\ n.keys \in Seq(Nat)
  /\ \A keys \in Seq(Nat), children \in Seq(Nat) : Leaf(keys, children) \in Nodes[0]
  /\ \A h \in Nat : \A keys \in Seq(Nat), children \in Seq(Nodes[h]) :
       Len(children) > 0 =>
         /\ Internal(keys, children) \in Nodes[h + 1]
         /\ Internal(keys, children) = [height |-> h + 1, keys |-> keys, children |-> children]
  <1>1. \A n \in Nodes[0] : /\ n.height = 0 /\ n.keys \in Seq(Nat) /\ n.children \in Seq(Nat)
                         /\ n = Leaf(n.keys, n.children)
    BY NodesAre DEF Leaf
  <1>2. \A h \in Nat : \A n \in Nodes[h + 1] :
       /\ n.height = h + 1 /\ n.keys \in Seq(Nat) /\ n.children \in Seq(Nodes[h])
       /\ n = [height |-> h + 1, keys |-> n.keys, children |-> n.children]
    <2> SUFFICES ASSUME NEW h \in Nat, NEW n \in Nodes[h + 1]
                 PROVE  /\ n.height = h + 1 /\ n.keys \in Seq(Nat) /\ n.children \in Seq(Nodes[h])
                        /\ n = [height |-> h + 1, keys |-> n.keys, children |-> n.children]
      OBVIOUS
    <2>1. n \in [height : {h + 1}, keys : Seq(Nat), children : Seq(Nodes[h])]
      BY NodesAre
    <2> QED BY <2>1
  <1>3. \A h \in Nat : \A n \in Nodes[h] : n.height = h /\ n.keys \in Seq(Nat)
    <2> SUFFICES ASSUME NEW h \in Nat, NEW n \in Nodes[h] PROVE n.height = h /\ n.keys \in Seq(Nat)
      OBVIOUS
    <2>1. CASE h = 0
      BY <1>1, <2>1
    <2>2. CASE h # 0
      <3>1. h - 1 \in Nat /\ h - 1 + 1 = h
        BY <2>2
      <3>2. \A m \in Nodes[h - 1 + 1] : m.height = h - 1 + 1 /\ m.keys \in Seq(Nat)
        BY <1>2, <3>1, Zenon
      <3> QED BY <3>1, <3>2
    <2> QED BY <2>1, <2>2
  <1>4. \A keys \in Seq(Nat), children \in Seq(Nat) : Leaf(keys, children) \in Nodes[0]
    BY NodesAre DEF Leaf
  <1>5. ASSUME NEW h \in Nat, NEW keys \in Seq(Nat), NEW children \in Seq(Nodes[h]), Len(children) > 0
        PROVE  /\ Internal(keys, children) \in Nodes[h + 1]
               /\ Internal(keys, children) = [height |-> h + 1, keys |-> keys, children |-> children]
    <2>1. children[1] \in Nodes[h]
      BY <1>5
    <2>2. 1 + children[1].height = h + 1
      BY <1>3, <2>1
    <2>3. Internal(keys, children) = [height |-> h + 1, keys |-> keys, children |-> children]
      BY <2>2 DEF Internal
    <2> QED BY <2>3, NodesAre
  <1> QED BY <1>1, <1>2, <1>3, <1>4, <1>5

LF2 == INSTANCE FoldTheorems
         WITH Op <- LAMBDA c, x, h : [node \in Nodes[h] |->
                      IF h = 0 THEN <<node>>
                      ELSE FlattenSeq([i \in DOMAIN node.children |-> x[node.children[i]]])]

\* Induction, for the theorems about the folds of LF2.
LEMMA LF2Inductive == LF2!Inductive
  BY NaturalInduction DEF LF2!Inductive

\* _rebuild_leaf_links: a leaf is the only one under itself.
LEMMA LeavesAre ==
  /\ \A n \in Nodes[0] : Leaves(n) = <<n>>
  /\ \A h \in Nat : \A n \in Nodes[h + 1] :
       Leaves(n) = FlattenSeq([i \in DOMAIN n.children |-> Leaves(n.children[i])])
  <1>1. \E f : f = [h \in Nat |-> [node \in Nodes[h] |->
                      IF h = 0 THEN <<node>>
                      ELSE FlattenSeq([i \in DOMAIN node.children |-> f[h - 1][node.children[i]]])]]
    BY LF2!RecursionExists, LF2Inductive
  <1>2. LeavesUnder = [h \in Nat |-> [node \in Nodes[h] |->
                      IF h = 0 THEN <<node>>
                      ELSE FlattenSeq([i \in DOMAIN node.children |-> LeavesUnder[h - 1][node.children[i]]])]]
    BY <1>1, Zenon DEF LeavesUnder
  <1>3. ASSUME NEW h \in Nat, NEW n \in Nodes[h]
        PROVE  LeavesUnder[h][n] =
                      IF h = 0 THEN <<n>>
                      ELSE FlattenSeq([i \in DOMAIN n.children |-> LeavesUnder[h - 1][n.children[i]]])
    <2>1. LeavesUnder[h] = [node \in Nodes[h] |->
                      IF h = 0 THEN <<node>>
                      ELSE FlattenSeq([i \in DOMAIN node.children |-> LeavesUnder[h - 1][node.children[i]]])]
      BY <1>2, Zenon
    <2> QED BY <2>1, Zenon
  <1>4. \A n \in Nodes[0] : Leaves(n) = <<n>>
    <2>1. \A n \in Nodes[0] : n.height = 0 /\ 0 \in Nat
      BY NodeFields
    <2> QED BY <1>3, <2>1, Zenon DEF Leaves
  <1>5. ASSUME NEW h \in Nat, NEW n \in Nodes[h + 1]
        PROVE  Leaves(n) = FlattenSeq([i \in DOMAIN n.children |-> Leaves(n.children[i])])
    <2>1. h + 1 \in Nat /\ h + 1 # 0 /\ h + 1 - 1 = h
      OBVIOUS
    <2>2. Leaves(n) = FlattenSeq([i \in DOMAIN n.children |-> LeavesUnder[h][n.children[i]]])
      <3>1. n.height = h + 1
        BY NodeFields
      <3> DEFINE g == h + 1
      <3>2. g \in Nat /\ n \in Nodes[g] /\ g # 0 /\ n.height = g /\ g - 1 = h
        BY <3>1
      <3> HIDE DEF g
      <3>3. LeavesUnder[g][n] = FlattenSeq([i \in DOMAIN n.children |-> LeavesUnder[g - 1][n.children[i]]])
        BY <1>3, <3>2, Zenon
      <3> QED BY <3>2, <3>3, Zenon DEF Leaves
    <2>3. \A i \in DOMAIN n.children : n.children[i].height = h
      <3>1. n.children \in Seq(Nodes[h])
        BY NodeFields
      <3>2. \A i \in DOMAIN n.children : n.children[i] \in Nodes[h]
        BY <3>1
      <3> QED BY <3>2, NodeFields
    <2>4. [i \in DOMAIN n.children |-> LeavesUnder[h][n.children[i]]] = [i \in DOMAIN n.children |-> Leaves(n.children[i])]
      BY <2>3, Zenon DEF Leaves
    <2> QED BY <2>2, <2>4, Zenon
  <1> QED BY <1>4, <1>5

--------------------------------------------------------------------------------
(* The entries under a node.                                                *)

\* Whatever a leaf may hold beside a key.
Held == {n.children[j] : n \in Nodes[0], j \in Nat}
Entry == [key : Nat, value : Held]

\* The entries of a leaf, from its keys and its numbers.
Pairs(keys, children) == [j \in DOMAIN keys |-> [key |-> keys[j], value |-> children[j]]]

\* The entries in the leaves under a node, and under all nodes of a list.
Under(n) == Entries(Leaves(n))
UnderAll(q) == FlattenSeq([i \in DOMAIN q |-> Under(q[i])])

\* A leaf has one entry for each key.
LEMMA PairsType ==
  ASSUME NEW n \in Nodes[0]
  PROVE  Pairs(n.keys, n.children) \in Seq(Entry) /\ Len(Pairs(n.keys, n.children)) = Len(n.keys)
  <1>1. n.keys \in Seq(Nat) /\ DOMAIN n.keys = 1 .. Len(n.keys) /\ Len(n.keys) \in Nat
    BY NodeFields
  <1>2. \A j \in DOMAIN n.keys : j \in Nat /\ n.keys[j] \in Nat
    BY <1>1
  <1>3. \A j \in DOMAIN n.keys : [key |-> n.keys[j], value |-> n.children[j]] \in Entry
    BY <1>2 DEF Entry, Held
  <1> DEFINE e(j) == [key |-> n.keys[j], value |-> n.children[j]]
  <1> HIDE DEF e
  <1>4. \A j \in 1 .. Len(n.keys) : e(j) \in Entry
    BY <1>1, <1>3 DEF e
  <1>5. [j \in 1 .. Len(n.keys) |-> e(j)] \in Seq(Entry) /\ Len([j \in 1 .. Len(n.keys) |-> e(j)]) = Len(n.keys)
    BY <1>1, <1>4
  <1>6. Pairs(n.keys, n.children) = [j \in 1 .. Len(n.keys) |-> e(j)]
    BY <1>1, Zenon DEF Pairs, e
  <1> QED BY <1>5, <1>6

\* The entries of one leaf more.
LEMMA EntriesAppend ==
  /\ Entries(<<>>) = <<>>
  /\ \A q \in Seq(Nodes[0]) : Entries(q) \in Seq(Entry)
  /\ \A q \in Seq(Nodes[0]), n \in Nodes[0] :
       Entries(Append(q, n)) = Entries(q) \o Pairs(n.keys, n.children)
  <1> DEFINE P(n) == Pairs(n.keys, n.children)
             m(q) == [i \in DOMAIN q |-> P(q[i])]
  <1>1. \A q : Entries(q) = FlattenSeq(m(q))
    BY DEF Entries, Pairs
  <1>2. \A n \in Nodes[0] : P(n) \in Seq(Entry)
    BY PairsType
  <1> HIDE DEF P
  <1>3. m(<<>>) = <<>>
    OBVIOUS
  <1>4. ASSUME NEW q \in Seq(Nodes[0]) PROVE m(q) \in Seq(Seq(Entry))
    <2>1. DOMAIN q = 1 .. Len(q) /\ Len(q) \in Nat /\ \A i \in 1 .. Len(q) : q[i] \in Nodes[0]
      OBVIOUS
    <2>2. \A i \in 1 .. Len(q) : P(q[i]) \in Seq(Entry)
      BY <1>2, <2>1
    <2> QED BY <2>1, <2>2
  <1>5. ASSUME NEW q \in Seq(Nodes[0]), NEW n \in Nodes[0] PROVE m(Append(q, n)) = Append(m(q), P(n))
    <2>1. /\ DOMAIN q = 1 .. Len(q) /\ Len(q) \in Nat /\ DOMAIN Append(q, n) = 1 .. Len(q) + 1
          /\ Append(q, n)[Len(q) + 1] = n /\ \A i \in 1 .. Len(q) : Append(q, n)[i] = q[i]
      OBVIOUS
    <2>2. Append(m(q), P(n)) = [i \in 1 .. Len(q) + 1 |-> IF i = Len(q) + 1 THEN P(n) ELSE m(q)[i]]
      BY <1>2, <1>4, <2>1
    <2>3. \A i \in 1 .. Len(q) + 1 : P(Append(q, n)[i]) = IF i = Len(q) + 1 THEN P(n) ELSE m(q)[i]
      BY <2>1
    <2> QED BY <2>1, <2>2, <2>3
  <1> HIDE DEF m
  <1>6. Entries(<<>>) = <<>>
    BY <1>1, <1>3, FlattenEmpty
  <1>7. \A q \in Seq(Nodes[0]) : Entries(q) \in Seq(Entry)
    BY <1>1, <1>4, FlattenType
  <1>8. ASSUME NEW q \in Seq(Nodes[0]), NEW n \in Nodes[0] PROVE Entries(Append(q, n)) = Entries(q) \o P(n)
    <2>1. FlattenSeq(Append(m(q), P(n))) = FlattenSeq(m(q)) \o P(n)
      BY <1>2, <1>4, FlattenAppend
    <2> QED BY <1>1, <1>5, <2>1
  <1> QED BY <1>6, <1>7, <1>8 DEF P

\* The entries of one list of leaves and another.
LEMMA EntriesConcat ==
  ASSUME NEW a \in Seq(Nodes[0]), NEW b \in Seq(Nodes[0])
  PROVE  Entries(a \o b) = Entries(a) \o Entries(b)
  <1> DEFINE I == {x \in Seq(Nodes[0]) : Entries(a \o x) = Entries(a) \o Entries(x)}
  <1>0. Entries(a) \in Seq(Entry)
    BY EntriesAppend
  <1>1. <<>> \in I
    <2>1. a \o <<>> = a /\ \A q \in Seq(Entry) : q \o <<>> = q
      OBVIOUS
    <2>2. <<>> \in Seq(Nodes[0])
      OBVIOUS
    <2> QED BY <1>0, <2>1, <2>2, EntriesAppend, Zenon
  <1>2. ASSUME NEW x \in Seq(Nodes[0]), NEW n \in Nodes[0], x \in I
        PROVE  Append(x, n) \in I
    <2> DEFINE p == Pairs(n.keys, n.children)
    <2>1. a \o Append(x, n) = Append(a \o x, n) /\ a \o x \in Seq(Nodes[0]) /\ Append(x, n) \in Seq(Nodes[0])
      OBVIOUS
    <2>2. Entries(Append(a \o x, n)) = Entries(a \o x) \o p
      BY <2>1, EntriesAppend, Zenon
    <2>3. Entries(Append(x, n)) = Entries(x) \o p
      BY EntriesAppend, Zenon
    <2>4. Entries(x) \in Seq(Entry) /\ p \in Seq(Entry)
      BY EntriesAppend, PairsType
    <2>5. \A u, v, w \in Seq(Entry) : (u \o v) \o w = u \o (v \o w)
      OBVIOUS
    <2> HIDE DEF p
    <2>6. (Entries(a) \o Entries(x)) \o p = Entries(a) \o (Entries(x) \o p)
      BY <1>0, <2>4, <2>5, Zenon
    <2> QED BY <1>2, <2>1, <2>2, <2>3, <2>6, Zenon
  <1> HIDE DEF I
  <1>3. Seq(Nodes[0]) \subseteq I
    BY <1>1, <1>2, L!SequenceInduction, LInductive
  <1> QED BY <1>3 DEF I

\* The leaves below some nodes, and the entries in them.
LEMMA EntriesFlatten ==
  ASSUME NEW s \in Seq(Seq(Nodes[0]))
  PROVE  Entries(FlattenSeq(s)) = FlattenSeq([i \in DOMAIN s |-> Entries(s[i])])
  <1> DEFINE m(q) == [i \in DOMAIN q |-> Entries(q[i])]
             I == {q \in Seq(Seq(Nodes[0])) : Entries(FlattenSeq(q)) = FlattenSeq(m(q))}
  <1>0. \A q \in Seq(Nodes[0]) : Entries(q) \in Seq(Entry)
    BY EntriesAppend
  <1>1. <<>> \in I
    <2>1. m(<<>>) = <<>> /\ <<>> \in Seq(Seq(Nodes[0]))
      OBVIOUS
    <2> QED BY <2>1, FlattenEmpty, EntriesAppend
  <1>2. ASSUME NEW q \in Seq(Seq(Nodes[0])), NEW e \in Seq(Nodes[0]), q \in I
        PROVE  Append(q, e) \in I
    <2>1. FlattenSeq(Append(q, e)) = FlattenSeq(q) \o e /\ FlattenSeq(q) \in Seq(Nodes[0])
      BY FlattenAppend, FlattenType
    <2>2. Entries(FlattenSeq(q) \o e) = Entries(FlattenSeq(q)) \o Entries(e)
      BY <2>1, EntriesConcat
    <2>3. /\ DOMAIN q = 1 .. Len(q) /\ Len(q) \in Nat /\ DOMAIN Append(q, e) = 1 .. Len(q) + 1
          /\ Append(q, e)[Len(q) + 1] = e /\ \A i \in 1 .. Len(q) : Append(q, e)[i] = q[i]
          /\ \A i \in 1 .. Len(q) : q[i] \in Seq(Nodes[0])
      OBVIOUS
    <2>4. m(q) \in Seq(Seq(Entry)) /\ Len(m(q)) = Len(q)
      BY <1>0, <2>3
    <2>5. m(Append(q, e)) = Append(m(q), Entries(e))
      <3>1. Append(m(q), Entries(e)) = [i \in 1 .. Len(q) + 1 |-> IF i = Len(q) + 1 THEN Entries(e) ELSE m(q)[i]]
        BY <1>0, <2>3, <2>4
      <3>2. \A i \in 1 .. Len(q) + 1 : Entries(Append(q, e)[i]) = IF i = Len(q) + 1 THEN Entries(e) ELSE m(q)[i]
        BY <2>3
      <3> QED BY <2>3, <3>1, <3>2
    <2> HIDE DEF m
    <2>6. FlattenSeq(Append(m(q), Entries(e))) = FlattenSeq(m(q)) \o Entries(e)
      BY <1>0, <2>4, FlattenAppend
    <2>7. Append(q, e) \in Seq(Seq(Nodes[0]))
      OBVIOUS
    <2> QED BY <1>2, <2>1, <2>2, <2>5, <2>6, <2>7
  <1> HIDE DEF I
  <1>3. Seq(Seq(Nodes[0])) \subseteq I
    BY <1>1, <1>2, L!SequenceInduction, LInductive
  <1> QED BY <1>3 DEF I

\* What is under a node is a list of leaves.
LEMMA LeavesType ==
  \A h \in Nat : \A n \in Nodes[h] : Leaves(n) \in Seq(Nodes[0])
  <1> DEFINE I == {h \in Nat : \A n \in Nodes[h] : Leaves(n) \in Seq(Nodes[0])}
  <1>1. 0 \in I
    <2>1. ASSUME NEW n \in Nodes[0] PROVE Leaves(n) \in Seq(Nodes[0])
      <3>1. Leaves(n) = <<n>>
        BY LeavesAre
      <3> DEFINE N == Nodes[0]
      <3>2. n \in N
        OBVIOUS
      <3> HIDE DEF N
      <3>3. <<n>> \in Seq(N)
        BY <3>2
      <3> QED BY <3>1, <3>3 DEF N
    <2> QED BY <2>1
  <1>2. ASSUME NEW h \in Nat, h \in I PROVE h + 1 \in I
    <2>1. ASSUME NEW n \in Nodes[h + 1] PROVE Leaves(n) \in Seq(Nodes[0])
      <3> DEFINE s == [i \in DOMAIN n.children |-> Leaves(n.children[i])]
      <3>1. Leaves(n) = FlattenSeq(s)
        BY LeavesAre
      <3>2. n.children \in Seq(Nodes[h])
        BY NodeFields
      <3>3. s \in Seq(Seq(Nodes[0]))
        <4>1. DOMAIN n.children = 1 .. Len(n.children) /\ Len(n.children) \in Nat
              /\ \A i \in 1 .. Len(n.children) : n.children[i] \in Nodes[h]
          BY <3>2
        <4>2. \A i \in 1 .. Len(n.children) : Leaves(n.children[i]) \in Seq(Nodes[0])
          BY <1>2, <4>1
        <4> DEFINE l(i) == Leaves(n.children[i])
                   k == Len(n.children)
                   N == Seq(Nodes[0])
        <4>3. k \in Nat /\ \A i \in 1 .. k : l(i) \in N
          BY <4>1, <4>2
        <4>4. s = [i \in 1 .. k |-> l(i)]
          BY <4>1, Zenon
        <4> HIDE DEF l, k, N, s
        <4>5. s \in Seq(N)
          BY <4>3, <4>4
        <4> QED BY <4>5 DEF N
      <3> HIDE DEF s
      <3> QED BY <3>1, <3>3, FlattenType
    <2>2. h + 1 \in Nat
      OBVIOUS
    <2> QED BY <2>1, <2>2
  <1> HIDE DEF I
  <1>3. Nat \subseteq I
    BY <1>1, <1>2, NaturalInduction
  <1> QED BY <1>3 DEF I

\* The entries under a leaf are its own, those under other nodes are their children's.
LEMMA UnderIs ==
  /\ \A n \in Nodes[0] : Under(n) = Pairs(n.keys, n.children)
  /\ \A h \in Nat : \A n \in Nodes[h] : Under(n) \in Seq(Entry)
  /\ \A h \in Nat : \A n \in Nodes[h + 1] : Under(n) = UnderAll(n.children)
  <1>1. ASSUME NEW n \in Nodes[0] PROVE Under(n) = Pairs(n.keys, n.children)
    <2>1. Leaves(n) = Append(<<>>, n) /\ <<>> \in Seq(Nodes[0])
      <3>1. Leaves(n) = <<n>>
        BY LeavesAre
      <3> QED BY <3>1
    <2>2. Entries(Append(<<>>, n)) = Entries(<<>>) \o Pairs(n.keys, n.children)
      BY <2>1, EntriesAppend, Zenon
    <2>3. \A q \in Seq(Entry) : <<>> \o q = q
      OBVIOUS
    <2> QED BY <2>1, <2>2, <2>3, PairsType, EntriesAppend, Zenon DEF Under
  <1>2. ASSUME NEW h \in Nat, NEW n \in Nodes[h] PROVE Under(n) \in Seq(Entry)
    BY LeavesType, EntriesAppend DEF Under
  <1>3. ASSUME NEW h \in Nat, NEW n \in Nodes[h + 1] PROVE Under(n) = UnderAll(n.children)
    <2> DEFINE s == [i \in DOMAIN n.children |-> Leaves(n.children[i])]
    <2>1. Leaves(n) = FlattenSeq(s)
      BY LeavesAre
    <2>2. n.children \in Seq(Nodes[h])
      BY NodeFields
    <2>3. s \in Seq(Seq(Nodes[0]))
      <3>1. DOMAIN n.children = 1 .. Len(n.children) /\ Len(n.children) \in Nat
            /\ \A i \in 1 .. Len(n.children) : n.children[i] \in Nodes[h]
        BY <2>2
      <3>2. \A i \in 1 .. Len(n.children) : Leaves(n.children[i]) \in Seq(Nodes[0])
        BY <3>1, LeavesType
      <3> DEFINE l(i) == Leaves(n.children[i])
                 k == Len(n.children)
                 N == Seq(Nodes[0])
      <3>3. k \in Nat /\ \A i \in 1 .. k : l(i) \in N
        BY <3>1, <3>2
      <3>4. s = [i \in 1 .. k |-> l(i)]
        BY <3>1, Zenon
      <3> HIDE DEF l, k, N, s
      <3>5. s \in Seq(N)
        BY <3>3, <3>4
      <3> QED BY <3>5 DEF N
    <2>4. [i \in DOMAIN s |-> Entries(s[i])] = [i \in DOMAIN n.children |-> Under(n.children[i])]
      BY DEF Under
    <2> HIDE DEF s
    <2>5. Entries(FlattenSeq(s)) = FlattenSeq([i \in DOMAIN s |-> Entries(s[i])])
      BY <2>3, EntriesFlatten
    <2> QED BY <2>1, <2>4, <2>5 DEF Under, UnderAll
  <1> QED BY <1>1, <1>2, <1>3

\* The entries under one node more.
LEMMA UnderAllAppend ==
  ASSUME NEW h \in Nat
  PROVE  /\ UnderAll(<<>>) = <<>>
         /\ \A q \in Seq(Nodes[h]) : UnderAll(q) \in Seq(Entry)
         /\ \A q \in Seq(Nodes[h]), n \in Nodes[h] : UnderAll(Append(q, n)) = UnderAll(q) \o Under(n)
  <1> DEFINE m(q) == [i \in DOMAIN q |-> Under(q[i])]
  <1>1. \A q : UnderAll(q) = FlattenSeq(m(q))
    BY DEF UnderAll
  <1>2. \A n \in Nodes[h] : Under(n) \in Seq(Entry)
    BY UnderIs
  <1>3. m(<<>>) = <<>>
    OBVIOUS
  <1>4. ASSUME NEW q \in Seq(Nodes[h]) PROVE m(q) \in Seq(Seq(Entry))
    <2>1. DOMAIN q = 1 .. Len(q) /\ Len(q) \in Nat /\ \A i \in 1 .. Len(q) : q[i] \in Nodes[h]
      OBVIOUS
    <2>2. \A i \in 1 .. Len(q) : Under(q[i]) \in Seq(Entry)
      BY <1>2, <2>1
    <2> QED BY <2>1, <2>2
  <1>5. ASSUME NEW q \in Seq(Nodes[h]), NEW n \in Nodes[h] PROVE m(Append(q, n)) = Append(m(q), Under(n))
    <2>1. /\ DOMAIN q = 1 .. Len(q) /\ Len(q) \in Nat /\ DOMAIN Append(q, n) = 1 .. Len(q) + 1
          /\ Append(q, n)[Len(q) + 1] = n /\ \A i \in 1 .. Len(q) : Append(q, n)[i] = q[i]
      OBVIOUS
    <2>2. Append(m(q), Under(n)) = [i \in 1 .. Len(q) + 1 |-> IF i = Len(q) + 1 THEN Under(n) ELSE m(q)[i]]
      BY <1>2, <1>4, <2>1
    <2>3. \A i \in 1 .. Len(q) + 1 : Under(Append(q, n)[i]) = IF i = Len(q) + 1 THEN Under(n) ELSE m(q)[i]
      BY <2>1
    <2> QED BY <2>1, <2>2, <2>3
  <1> HIDE DEF m
  <1>6. UnderAll(<<>>) = <<>>
    BY <1>1, <1>3, FlattenEmpty
  <1>7. \A q \in Seq(Nodes[h]) : UnderAll(q) \in Seq(Entry)
    BY <1>1, <1>4, FlattenType
  <1>8. ASSUME NEW q \in Seq(Nodes[h]), NEW n \in Nodes[h] PROVE UnderAll(Append(q, n)) = UnderAll(q) \o Under(n)
    <2>1. FlattenSeq(Append(m(q), Under(n))) = FlattenSeq(m(q)) \o Under(n)
      BY <1>2, <1>4, FlattenAppend
    <2> QED BY <1>1, <1>5, <2>1
  <1> QED BY <1>6, <1>7, <1>8

\* The entries under one list of nodes and another.
LEMMA UnderAllConcat ==
  ASSUME NEW h \in Nat, NEW a \in Seq(Nodes[h])
  PROVE  /\ \A b \in Seq(Nodes[h]) : UnderAll(a \o b) = UnderAll(a) \o UnderAll(b)
         /\ \A n \in Nodes[h] : UnderAll(<<n>>) = Under(n)
  <1> DEFINE N == Nodes[h]
             I == {x \in Seq(N) : UnderAll(a \o x) = UnderAll(a) \o UnderAll(x)}
  <1>0. /\ UnderAll(a) \in Seq(Entry) /\ UnderAll(<<>>) = <<>>
        /\ \A q \in Seq(N) : UnderAll(q) \in Seq(Entry)
        /\ \A q \in Seq(N), n \in N : UnderAll(Append(q, n)) = UnderAll(q) \o Under(n)
        /\ \A n \in N : Under(n) \in Seq(Entry)
    BY UnderAllAppend, UnderIs
  <1> HIDE DEF N
  <1>00. a \in Seq(N)
    BY DEF N
  <1>1. <<>> \in I
    <2>1. a \o <<>> = a /\ \A q \in Seq(Entry) : q \o <<>> = q
      BY <1>00
    <2>2. <<>> \in Seq(N)
      OBVIOUS
    <2> QED BY <1>0, <2>1, <2>2, Zenon
  <1>2. ASSUME NEW x \in Seq(N), NEW n \in N, x \in I
        PROVE  Append(x, n) \in I
    <2>1. a \o Append(x, n) = Append(a \o x, n) /\ a \o x \in Seq(N) /\ Append(x, n) \in Seq(N)
      BY <1>00
    <2>5. \A u, v, w \in Seq(Entry) : (u \o v) \o w = u \o (v \o w)
      OBVIOUS
    <2>6. (UnderAll(a) \o UnderAll(x)) \o Under(n) = UnderAll(a) \o (UnderAll(x) \o Under(n))
      BY <1>0, <2>5, Zenon
    <2> QED BY <1>0, <1>2, <2>1, <2>6, Zenon
  <1> HIDE DEF I
  <1>3. Seq(N) \subseteq I
    BY <1>1, <1>2, L!SequenceInduction, LInductive
  <1>4. \A b \in Seq(N) : UnderAll(a \o b) = UnderAll(a) \o UnderAll(b)
    BY <1>3 DEF I
  <1>5. ASSUME NEW n \in N PROVE UnderAll(<<n>>) = Under(n)
    <2>1. <<n>> = Append(<<>>, n) /\ <<>> \in Seq(N) /\ \A q \in Seq(Entry) : <<>> \o q = q
      OBVIOUS
    <2> QED BY <1>0, <2>1, ZenonT(40)
  <1> QED BY <1>4, <1>5 DEF N

--------------------------------------------------------------------------------
(* Search trees, with what keeps the children of a node apart.              *)

\* A tree without equal keys, one from which nothing was removed, and any tree.
Modes == {"strict", "tight", "any"}

\* The keys under a node.
KeysUnder(n) == {e.key : e \in ToSet(Under(n))}

\* Of the nodes beside a key: all keys of the left one are smaller, or the right one
\* has the key.
Apart(mode, key, left, right) ==
  /\ mode = "strict" => \A k \in KeysUnder(left) : k < key
  /\ mode = "tight" => key \in KeysUnder(right) /\ KeysUnder(left) # {}

\* Without equal keys those of a leaf ascend.
Ascending(mode, keys) == mode = "strict" => \A i, j \in DOMAIN keys : i < j => keys[i] < keys[j]

\* The bounds of the keys under a child.
Lo(keys, i, low) == IF i = 1 THEN low ELSE keys[i - 1]
Hi(keys, i, high) == IF i = Len(keys) + 1 THEN high ELSE keys[i]

\* A node that is to be a tree with its keys between two bounds.
Spanned(n, low, high, mode) == [node |-> n, low |-> low, high |-> high, mode |-> mode]

\* The keys and the children of an inner node, each child one of X.
RowIn(X, keys, children, low, high, mode) ==
  /\ Len(children) = Len(keys) + 1 /\ Sorted(keys, low, high)
  /\ \A i \in DOMAIN children : Spanned(children[i], Lo(keys, i, low), Hi(keys, i, high), mode) \in X
  /\ \A i \in DOMAIN keys : Apart(mode, keys[i], children[i], children[i + 1])

\* The trees of a height.
Trees[h \in Nat] ==
  {s \in [node : Nodes[h], low : Nat, high : Nat, mode : Modes] :
     /\ Len(s.node.keys) < Order
     /\ h = 0 => Len(s.node.children) = Len(s.node.keys) /\ Sorted(s.node.keys, s.low, s.high) /\ Ascending(s.mode, s.node.keys)
     /\ h # 0 => RowIn(Trees[h - 1], s.node.keys, s.node.children, s.low, s.high, s.mode)}

Tree(h, n, low, high, mode) == Spanned(n, low, high, mode) \in Trees[h]

\* Keys and the trees between them: the inside of a node, whether or not it is overfull.
Inside(h, keys, children, low, high, mode) ==
  /\ keys \in Seq(Nat) /\ children \in Seq(Nodes[h]) /\ Len(children) = Len(keys) + 1
  /\ low \in Nat /\ high \in Nat /\ mode \in Modes /\ Sorted(keys, low, high)
  /\ \A i \in DOMAIN children : Tree(h, children[i], Lo(keys, i, low), Hi(keys, i, high), mode)
  /\ \A i \in DOMAIN keys : Apart(mode, keys[i], children[i], children[i + 1])

TR == INSTANCE FoldTheorems
        WITH Op <- LAMBDA c, x, h :
          {s \in [node : Nodes[h], low : Nat, high : Nat, mode : Modes] :
             /\ Len(s.node.keys) < Order
             /\ h = 0 => Len(s.node.children) = Len(s.node.keys) /\ Sorted(s.node.keys, s.low, s.high) /\ Ascending(s.mode, s.node.keys)
             /\ h # 0 => RowIn(x, s.node.keys, s.node.children, s.low, s.high, s.mode)}

\* Induction, for the theorems about the folds of TR.
LEMMA TRInductive == TR!Inductive
  BY NaturalInduction DEF TR!Inductive

\* The recursion of Trees, unfolded.
LEMMA TreesAre ==
  \A h \in Nat : Trees[h] =
    {s \in [node : Nodes[h], low : Nat, high : Nat, mode : Modes] :
       /\ Len(s.node.keys) < Order
       /\ h = 0 => Len(s.node.children) = Len(s.node.keys) /\ Sorted(s.node.keys, s.low, s.high) /\ Ascending(s.mode, s.node.keys)
       /\ h # 0 => RowIn(Trees[h - 1], s.node.keys, s.node.children, s.low, s.high, s.mode)}
  <1> DEFINE T(x, h) == {s \in [node : Nodes[h], low : Nat, high : Nat, mode : Modes] :
             /\ Len(s.node.keys) < Order
             /\ h = 0 => Len(s.node.children) = Len(s.node.keys) /\ Sorted(s.node.keys, s.low, s.high) /\ Ascending(s.mode, s.node.keys)
             /\ h # 0 => RowIn(x, s.node.keys, s.node.children, s.low, s.high, s.mode)}
  <1>1. \A x, y : T(x, 0) = T(y, 0)
    OBVIOUS
  <1>2. \E f : f = [h \in Nat |-> T(f[h - 1], h)]
    BY <1>1, TR!RecursionExists, TRInductive
  <1>3. Trees = [h \in Nat |-> T(Trees[h - 1], h)]
    BY <1>2, Zenon DEF Trees
  <1> HIDE DEF T
  <1>4. \A h \in Nat : Trees[h] = T(Trees[h - 1], h)
    BY <1>3, Zenon
  <1> QED BY <1>4 DEF T

\* A tree is a leaf in order, or a node over a row of trees one lower.
LEMMA TreeIs ==
  /\ \A n, low, high, mode : Tree(0, n, low, high, mode) <=>
       /\ n \in Nodes[0] /\ low \in Nat /\ high \in Nat /\ mode \in Modes
       /\ Len(n.keys) < Order /\ Len(n.children) = Len(n.keys) /\ Sorted(n.keys, low, high) /\ Ascending(mode, n.keys)
  /\ \A h \in Nat : \A n, low, high, mode : Tree(h + 1, n, low, high, mode) <=>
       n \in Nodes[h + 1] /\ Len(n.keys) < Order /\ Inside(h, n.keys, n.children, low, high, mode)
  /\ \A h \in Nat : \A n, low, high, mode : Tree(h, n, low, high, mode) =>
       n \in Nodes[h] /\ low \in Nat /\ high \in Nat /\ mode \in Modes /\ Len(n.keys) < Order
  <1>1. ASSUME NEW n, NEW low, NEW high, NEW mode, NEW g \in Nat
        PROVE  /\ Tree(g, n, low, high, mode) <=>
                    /\ n \in Nodes[g] /\ low \in Nat /\ high \in Nat /\ mode \in Modes /\ Len(n.keys) < Order
                    /\ g = 0 => Len(n.children) = Len(n.keys) /\ Sorted(n.keys, low, high) /\ Ascending(mode, n.keys)
                    /\ g # 0 => RowIn(Trees[g - 1], n.keys, n.children, low, high, mode)
    <2> DEFINE s == Spanned(n, low, high, mode)
    <2>1. s \in [node : Nodes[g], low : Nat, high : Nat, mode : Modes] <=>
            n \in Nodes[g] /\ low \in Nat /\ high \in Nat /\ mode \in Modes
      BY DEF Spanned
    <2>2. s.node = n /\ s.low = low /\ s.high = high /\ s.mode = mode
      BY DEF Spanned
    <2> HIDE DEF s
    <2>3. s \in Trees[g] <=>
             /\ s \in [node : Nodes[g], low : Nat, high : Nat, mode : Modes]
             /\ Len(s.node.keys) < Order
             /\ g = 0 => Len(s.node.children) = Len(s.node.keys) /\ Sorted(s.node.keys, s.low, s.high) /\ Ascending(s.mode, s.node.keys)
             /\ g # 0 => RowIn(Trees[g - 1], s.node.keys, s.node.children, s.low, s.high, s.mode)
      <3> DEFINE T == {x \in [node : Nodes[g], low : Nat, high : Nat, mode : Modes] :
             /\ Len(x.node.keys) < Order
             /\ g = 0 => Len(x.node.children) = Len(x.node.keys) /\ Sorted(x.node.keys, x.low, x.high) /\ Ascending(x.mode, x.node.keys)
             /\ g # 0 => RowIn(Trees[g - 1], x.node.keys, x.node.children, x.low, x.high, x.mode)}
      <3>1. Trees[g] = T
        BY TreesAre, Zenon
      <3>2. s \in T <=>
             /\ s \in [node : Nodes[g], low : Nat, high : Nat, mode : Modes]
             /\ Len(s.node.keys) < Order
             /\ g = 0 => Len(s.node.children) = Len(s.node.keys) /\ Sorted(s.node.keys, s.low, s.high) /\ Ascending(s.mode, s.node.keys)
             /\ g # 0 => RowIn(Trees[g - 1], s.node.keys, s.node.children, s.low, s.high, s.mode)
        BY Zenon
      <3> QED BY <3>1, <3>2, Zenon
    <2>4. Tree(g, n, low, high, mode) <=> s \in Trees[g]
      BY DEF Tree, s
    <2> QED BY <2>1, <2>2, <2>3, <2>4, Zenon
  <1>2. ASSUME NEW n, NEW low, NEW high, NEW mode, NEW h \in Nat
        PROVE  Tree(h + 1, n, low, high, mode) <=>
                 n \in Nodes[h + 1] /\ Len(n.keys) < Order /\ Inside(h, n.keys, n.children, low, high, mode)
    <2> DEFINE g == h + 1
    <2>1. g \in Nat /\ g # 0 /\ g - 1 = h /\ g = h + 1
      OBVIOUS
    <2> HIDE DEF g
    <2>2. n \in Nodes[g] => n.keys \in Seq(Nat) /\ n.children \in Seq(Nodes[h])
      BY <2>1, NodeFields
    <2>3. Inside(h, n.keys, n.children, low, high, mode) <=>
            /\ n.keys \in Seq(Nat) /\ n.children \in Seq(Nodes[h]) /\ low \in Nat /\ high \in Nat /\ mode \in Modes
            /\ RowIn(Trees[h], n.keys, n.children, low, high, mode)
      BY DEF Inside, RowIn, Tree
    <2>4. Tree(g, n, low, high, mode) <=>
            /\ n \in Nodes[g] /\ low \in Nat /\ high \in Nat /\ mode \in Modes /\ Len(n.keys) < Order
            /\ RowIn(Trees[h], n.keys, n.children, low, high, mode)
      BY <1>1, <2>1, Zenon
    <2>5. Tree(g, n, low, high, mode) <=>
            n \in Nodes[g] /\ Len(n.keys) < Order /\ Inside(h, n.keys, n.children, low, high, mode)
      BY <2>2, <2>3, <2>4, Zenon
    <2> QED BY <2>1, <2>5, Zenon
  <1>3. ASSUME NEW n, NEW low, NEW high, NEW mode
        PROVE  Tree(0, n, low, high, mode) <=>
                 /\ n \in Nodes[0] /\ low \in Nat /\ high \in Nat /\ mode \in Modes
                 /\ Len(n.keys) < Order /\ Len(n.children) = Len(n.keys) /\ Sorted(n.keys, low, high) /\ Ascending(mode, n.keys)
    <2>1. 0 \in Nat
      OBVIOUS
    <2> QED BY <1>1, <2>1, Zenon
  <1> QED BY <1>1, <1>2, <1>3, Zenon

--------------------------------------------------------------------------------
(* Lists of entries.                                                        *)

\* Entries in the order of their keys, and entries without equal keys.
InOrder(q) == \A i, j \in DOMAIN q : i < j => q[i].key <= q[j].key
KeysOnce(q) == \A i, j \in DOMAIN q : q[i].key = q[j].key => i = j

\* A list and another after it.
Cat(a, b) == a \o b

\* What is in a list and another after it.
LEMMA ConcatSet ==
  ASSUME NEW E, NEW a \in Seq(E), NEW b \in Seq(E)
  PROVE  Cat(a, b) \in Seq(E) /\ ToSet(Cat(a, b)) = ToSet(a) \cup ToSet(b)
  <1>1. a \o b \in Seq(E) /\ Len(a \o b) = Len(a) + Len(b) /\ Len(a) \in Nat /\ Len(b) \in Nat
    OBVIOUS
  <1>2. \A i \in 1 .. Len(a) + Len(b) : (a \o b)[i] = IF i <= Len(a) THEN a[i] ELSE b[i - Len(a)]
    OBVIOUS
  <1>3. DOMAIN a = 1 .. Len(a) /\ DOMAIN b = 1 .. Len(b) /\ DOMAIN (a \o b) = 1 .. Len(a) + Len(b)
    BY <1>1
  <1> DEFINE c == a \o b
  <1> HIDE DEF c
  <1>4. \A x \in ToSet(c) : x \in ToSet(a) \cup ToSet(b)
    <2> SUFFICES ASSUME NEW i \in DOMAIN c PROVE c[i] \in ToSet(a) \cup ToSet(b)
      BY DEF ToSet
    <2>1. CASE i <= Len(a)
      <3>1. i \in DOMAIN a /\ c[i] = a[i]
        BY <1>1, <1>2, <1>3, <2>1 DEF c
      <3> QED BY <3>1 DEF ToSet
    <2>2. CASE ~ i <= Len(a)
      <3>1. i - Len(a) \in DOMAIN b /\ c[i] = b[i - Len(a)]
        BY <1>1, <1>2, <1>3, <2>2 DEF c
      <3> QED BY <3>1 DEF ToSet
    <2> QED BY <2>1, <2>2
  <1>5. ASSUME NEW i \in DOMAIN a PROVE a[i] \in ToSet(c)
    <2>1. i \in DOMAIN c /\ c[i] = a[i]
      BY <1>1, <1>2, <1>3 DEF c
    <2> QED BY <2>1 DEF ToSet
  <1>6. ASSUME NEW i \in DOMAIN b PROVE b[i] \in ToSet(c)
    <2>1. i + Len(a) \in DOMAIN c /\ c[i + Len(a)] = b[i]
      BY <1>1, <1>2, <1>3 DEF c
    <2> QED BY <2>1 DEF ToSet
  <1>7. ToSet(a) \cup ToSet(b) \subseteq ToSet(c)
    BY <1>5, <1>6 DEF ToSet
  <1> QED BY <1>1, <1>4, <1>7 DEF c, Cat

\* Two lists are in order, one after the other, when no key of the first is above
\* one of the second.
LEMMA InOrderConcat ==
  ASSUME NEW a \in Seq(Entry), NEW b \in Seq(Entry)
  PROVE  /\ InOrder(Cat(a, b)) <=> /\ InOrder(a) /\ InOrder(b)
                                /\ \A x \in ToSet(a), y \in ToSet(b) : x.key <= y.key
         /\ KeysOnce(Cat(a, b)) <=> /\ KeysOnce(a) /\ KeysOnce(b)
                                 /\ \A x \in ToSet(a), y \in ToSet(b) : x.key # y.key
  <1> DEFINE c == a \o b
             m == Len(a)
             n == Len(b)
  <1>1. /\ m \in Nat /\ n \in Nat /\ DOMAIN a = 1 .. m /\ DOMAIN b = 1 .. n /\ DOMAIN c = 1 .. m + n
        /\ \A i \in 1 .. m : c[i] = a[i]
        /\ \A i \in 1 .. n : c[m + i] = b[i]
        /\ \A i \in 1 .. m : a[i].key \in Nat
        /\ \A i \in 1 .. n : b[i].key \in Nat
    <2>1. \A e \in Entry : e.key \in Nat
      BY DEF Entry
    <2>2. (\A i \in 1 .. m : a[i] \in Entry) /\ \A i \in 1 .. n : b[i] \in Entry
      OBVIOUS
    <2>3. m \in Nat /\ n \in Nat /\ DOMAIN a = 1 .. m /\ DOMAIN b = 1 .. n /\ DOMAIN c = 1 .. m + n
      OBVIOUS
    <2>4. (\A i \in 1 .. m : c[i] = a[i]) /\ \A i \in 1 .. n : c[m + i] = b[i]
      OBVIOUS
    <2> QED BY <2>1, <2>2, <2>3, <2>4, Zenon
  <1>2. \A x \in ToSet(a) : \E i \in 1 .. m : x = a[i]
    BY <1>1 DEF ToSet
  <1>3. \A x \in ToSet(b) : \E i \in 1 .. n : x = b[i]
    BY <1>1 DEF ToSet
  <1>4. \A i \in 1 .. m : a[i] \in ToSet(a)
    BY <1>1 DEF ToSet
  <1>5. \A i \in 1 .. n : b[i] \in ToSet(b)
    BY <1>1 DEF ToSet
  <1>6. \A i \in 1 .. m + n : i \in 1 .. m \/ \E j \in 1 .. n : i = m + j
    <2> SUFFICES ASSUME NEW i \in 1 .. m + n, i \notin 1 .. m PROVE \E j \in 1 .. n : i = m + j
      OBVIOUS
    <2>1. i - m \in 1 .. n /\ i = m + (i - m)
      BY <1>1
    <2> QED BY <2>1
  <1>7. \A i \in 1 .. m + n, j \in 1 .. m + n : i < j => i \in 1 .. m \/ (\E x \in 1 .. n, y \in 1 .. n : i = m + x /\ j = m + y /\ x < y)
    <2> SUFFICES ASSUME NEW i \in 1 .. m + n, NEW j \in 1 .. m + n, i < j, i \notin 1 .. m
                 PROVE  \E x \in 1 .. n, y \in 1 .. n : i = m + x /\ j = m + y /\ x < y
      OBVIOUS
    <2>1. i - m \in 1 .. n /\ i = m + (i - m) /\ j - m \in 1 .. n /\ j = m + (j - m) /\ i - m < j - m
      BY <1>1
    <2> QED BY <2>1
  <1> HIDE DEF c, m, n
  <1>8. InOrder(c) => InOrder(a)
    <2> SUFFICES ASSUME InOrder(c), NEW i \in DOMAIN a, NEW j \in DOMAIN a, i < j PROVE a[i].key <= a[j].key
      BY DEF InOrder
    <2>1. i \in DOMAIN c /\ j \in DOMAIN c
      BY <1>1
    <2>2. c[i].key <= c[j].key
      BY <2>1 DEF InOrder
    <2> QED BY <1>1, <2>2
  <1>9. InOrder(c) => InOrder(b)
    <2> SUFFICES ASSUME InOrder(c), NEW i \in DOMAIN b, NEW j \in DOMAIN b, i < j PROVE b[i].key <= b[j].key
      BY DEF InOrder
    <2>1. m + i \in DOMAIN c /\ m + j \in DOMAIN c /\ m + i < m + j
      BY <1>1
    <2>2. c[m + i].key <= c[m + j].key
      BY <2>1 DEF InOrder
    <2> QED BY <1>1, <2>2
  <1>10. ASSUME InOrder(c), NEW x \in ToSet(a), NEW y \in ToSet(b) PROVE x.key <= y.key
    <2>1. PICK i \in 1 .. m : x = a[i]
      BY <1>2
    <2>2. PICK j \in 1 .. n : y = b[j]
      BY <1>3
    <2>3. i \in DOMAIN c /\ m + j \in DOMAIN c /\ i < m + j
      BY <1>1
    <2>4. c[i].key <= c[m + j].key
      BY <1>10, <2>3 DEF InOrder
    <2> QED BY <1>1, <2>1, <2>2, <2>4
  <1>11. ASSUME InOrder(a), InOrder(b), \A x \in ToSet(a), y \in ToSet(b) : x.key <= y.key
         PROVE  InOrder(c)
    <2> SUFFICES ASSUME NEW i \in 1 .. m + n, NEW j \in 1 .. m + n, i < j PROVE c[i].key <= c[j].key
      BY <1>1 DEF InOrder
    <2>1. CASE i \in 1 .. m /\ j \in 1 .. m
      BY <1>1, <1>11, <2>1 DEF InOrder
    <2>2. CASE i \in 1 .. m /\ j \notin 1 .. m
      <3>1. PICK y \in 1 .. n : j = m + y
        BY <1>6, <2>2
      <3> QED BY <1>1, <1>4, <1>5, <1>11, <2>2, <3>1
    <2>3. CASE i \notin 1 .. m
      <3>1. PICK x \in 1 .. n, y \in 1 .. n : i = m + x /\ j = m + y /\ x < y
        BY <1>7, <2>3
      <3>2. b[x].key <= b[y].key
        BY <1>1, <1>11, <3>1 DEF InOrder
      <3> QED BY <1>1, <3>1, <3>2
    <2> QED BY <2>1, <2>2, <2>3
  <1>12. KeysOnce(c) => KeysOnce(a)
    BY <1>1 DEF KeysOnce
  <1>13. KeysOnce(c) => KeysOnce(b)
    <2> SUFFICES ASSUME KeysOnce(c), NEW i \in DOMAIN b, NEW j \in DOMAIN b, b[i].key = b[j].key PROVE i = j
      BY DEF KeysOnce
    <2>1. m + i \in DOMAIN c /\ m + j \in DOMAIN c /\ c[m + i].key = c[m + j].key
      BY <1>1
    <2>2. m + i = m + j
      BY <2>1 DEF KeysOnce
    <2> QED BY <1>1, <2>2
  <1>14. ASSUME KeysOnce(c), NEW x \in ToSet(a), NEW y \in ToSet(b) PROVE x.key # y.key
    <2>1. PICK i \in 1 .. m : x = a[i]
      BY <1>2
    <2>2. PICK j \in 1 .. n : y = b[j]
      BY <1>3
    <2>3. i \in DOMAIN c /\ m + j \in DOMAIN c /\ i # m + j
      BY <1>1
    <2>4. c[i].key # c[m + j].key
      BY <1>14, <2>3 DEF KeysOnce
    <2> QED BY <1>1, <2>1, <2>2, <2>4
  <1>15. ASSUME KeysOnce(a), KeysOnce(b), \A x \in ToSet(a), y \in ToSet(b) : x.key # y.key
         PROVE  KeysOnce(c)
    <2> SUFFICES ASSUME NEW i \in 1 .. m + n, NEW j \in 1 .. m + n, c[i].key = c[j].key PROVE i = j
      BY <1>1 DEF KeysOnce
    <2>1. CASE i \in 1 .. m /\ j \in 1 .. m
      BY <1>1, <1>15, <2>1 DEF KeysOnce
    <2>2. CASE i \in 1 .. m /\ j \notin 1 .. m
      <3>1. PICK y \in 1 .. n : j = m + y
        BY <1>6, <2>2
      <3> QED BY <1>1, <1>4, <1>5, <1>15, <2>2, <3>1
    <2>3. CASE i \notin 1 .. m /\ j \in 1 .. m
      <3>1. PICK y \in 1 .. n : i = m + y
        BY <1>6, <2>3
      <3> QED BY <1>1, <1>4, <1>5, <1>15, <2>3, <3>1
    <2>4. CASE i \notin 1 .. m /\ j \notin 1 .. m
      <3>1. PICK x \in 1 .. n : i = m + x
        BY <1>6, <2>4
      <3>2. PICK y \in 1 .. n : j = m + y
        BY <1>6, <2>4
      <3>3. b[x].key = b[y].key
        BY <1>1, <3>1, <3>2
      <3>4. x = y
        BY <1>1, <1>15, <3>3 DEF KeysOnce
      <3> QED BY <3>1, <3>2, <3>4
    <2> QED BY <2>1, <2>2, <2>3, <2>4
  <1> QED BY <1>8, <1>9, <1>10, <1>11, <1>12, <1>13, <1>14, <1>15 DEF c, Cat

\* Lists of one length that agree in each place are one.
LEMMA SameList ==
  ASSUME NEW E, NEW a \in Seq(E), NEW b \in Seq(E), Len(a) = Len(b), \A i \in 1 .. Len(a) : a[i] = b[i]
  PROVE  a = b
  OBVIOUS

\* The places of a list and another after it.
LEMMA CatIs ==
  ASSUME NEW E, NEW a \in Seq(E), NEW b \in Seq(E)
  PROVE  \A m, n \in Nat : Len(a) = m /\ Len(b) = n =>
           /\ Cat(a, b) \in Seq(E) /\ Len(Cat(a, b)) = m + n
           /\ \A i \in 1 .. m : Cat(a, b)[i] = a[i]
           /\ \A i \in 1 .. n : Cat(a, b)[m + i] = b[i]
  BY DEF Cat

\* What is before and after an element of a list.
LEMMA AroundIs ==
  ASSUME NEW E, NEW s \in Seq(E), NEW l \in Seq(E), NEW x \in E, NEW r \in Seq(E),
         Len(s) = Len(l) + 1 + Len(r), \A j \in 1 .. Len(l) : s[j] = l[j],
         s[Len(l) + 1] = x, \A j \in 1 .. Len(r) : s[Len(l) + 1 + j] = r[j]
  PROVE  s = Append(l, x) \o r
  <1> DEFINE p == Len(l) + 1
             q == Len(r)
             a == Append(l, x)
  <1>1. Len(l) \in Nat /\ p \in Nat /\ q \in Nat /\ p = Len(l) + 1 /\ Len(s) = p + q
    OBVIOUS
  <1>2. a \in Seq(E) /\ Len(a) = p /\ a[p] = x /\ \A j \in 1 .. Len(l) : a[j] = l[j]
    OBVIOUS
  <1>3. \A j \in 1 .. p : a[j] = s[j]
    <2> HIDE DEF a
    <2>1. \A j \in 1 .. p : j \in 1 .. Len(l) \/ j = Len(l) + 1
      BY <1>1
    <2>2. a[Len(l) + 1] = s[Len(l) + 1]
      BY <1>2
    <2>3. \A j \in 1 .. Len(l) : a[j] = s[j]
      BY <1>2, Zenon
    <2> QED BY <2>1, <2>2, <2>3, Zenon
  <1>4. \A j \in 1 .. q : s[p + j] = r[j]
    OBVIOUS
  <1> HIDE DEF a, p
  <1>5. /\ a \o r \in Seq(E) /\ Len(a \o r) = p + q
        /\ \A i \in 1 .. p : (a \o r)[i] = a[i]
        /\ \A i \in 1 .. q : (a \o r)[p + i] = r[i]
    <2> HIDE DEF q
    <2>1. a \in Seq(E) /\ r \in Seq(E) /\ p \in Nat /\ q \in Nat /\ Len(a) = p /\ Len(r) = q
      BY <1>1, <1>2 DEF q
    <2>3. \A m, n \in Nat : Len(a) = m /\ Len(r) = n =>
           /\ Cat(a, r) \in Seq(E) /\ Len(Cat(a, r)) = m + n
           /\ \A i \in 1 .. m : Cat(a, r)[i] = a[i]
           /\ \A i \in 1 .. n : Cat(a, r)[m + i] = r[i]
      BY <2>1, CatIs
    <2>2. /\ Cat(a, r) \in Seq(E) /\ Len(Cat(a, r)) = p + q
          /\ \A i \in 1 .. p : Cat(a, r)[i] = a[i]
          /\ \A i \in 1 .. q : Cat(a, r)[p + i] = r[i]
      BY <2>1, <2>3, Zenon
    <2> QED BY <2>2 DEF Cat
  <1> DEFINE t == a \o r
  <1> HIDE DEF q, t
  <1>6. ASSUME NEW j \in 1 .. Len(s) PROVE s[j] = t[j]
    <2>1. CASE j \in 1 .. p
      BY <1>3, <1>5, <2>1 DEF t
    <2>2. CASE j \notin 1 .. p
      <3> DEFINE i == j - p
      <3>1. i \in 1 .. q /\ j = p + i
        BY <1>1, <2>2
      <3> HIDE DEF i
      <3>2. t[p + i] = r[i] /\ s[p + i] = r[i]
        BY <1>4, <1>5, <3>1, Zenon DEF t
      <3> QED BY <3>1, <3>2, Zenon
    <2> QED BY <2>1, <2>2
  <1>7. t \in Seq(E) /\ Len(s) = Len(t)
    BY <1>1, <1>5 DEF t
  <1>8. s = t
    BY <1>6, <1>7, SameList
  <1> QED BY <1>8 DEF t, a

LEMMA Around ==
  ASSUME NEW E, NEW s \in Seq(E), NEW i \in 1 .. Len(s)
  PROVE  /\ s = Append(SubSeq(s, 1, i - 1), s[i]) \o SubSeq(s, i + 1, Len(s))
         /\ SubSeq(s, 1, i - 1) \in Seq(E) /\ SubSeq(s, i + 1, Len(s)) \in Seq(E) /\ s[i] \in E
         /\ Len(SubSeq(s, 1, i - 1)) = i - 1 /\ Len(SubSeq(s, i + 1, Len(s))) = Len(s) - i
         /\ \A j \in 1 .. i - 1 : SubSeq(s, 1, i - 1)[j] = s[j]
         /\ \A j \in 1 .. Len(s) - i : SubSeq(s, i + 1, Len(s))[j] = s[i + j]
  <1> DEFINE n == Len(s)
             l == SubSeq(s, 1, i - 1)
             r == SubSeq(s, i + 1, Len(s))
  <1>1. n \in Nat /\ DOMAIN s = 1 .. n /\ s[i] \in E /\ i \in Nat
    OBVIOUS
  <1>2. l \in Seq(E) /\ Len(l) = i - 1 /\ \A j \in 1 .. i - 1 : l[j] = s[j]
    OBVIOUS
  <1>3. r \in Seq(E) /\ Len(r) = n - i /\ \A j \in 1 .. n - i : r[j] = s[i + j]
    OBVIOUS
  <1> HIDE DEF l, r
  <1>4. Len(s) = Len(l) + 1 + Len(r) /\ Len(l) + 1 = i
    BY <1>1, <1>2, <1>3
  <1>5. s = Append(l, s[i]) \o r
    <2>1. \A j \in 1 .. Len(l) : s[j] = l[j]
      BY <1>2
    <2>2. \A j \in 1 .. Len(r) : s[Len(l) + 1 + j] = r[j]
      BY <1>3, <1>4
    <2>3. s[Len(l) + 1] = s[i]
      BY <1>4
    <2> QED BY <1>1, <1>2, <1>3, <1>4, <2>1, <2>2, <2>3, AroundIs
  <1> QED BY <1>2, <1>3, <1>5, <1>1 DEF l, r

\* Joining lists is associative ...
LEMMA CatAssoc ==
  ASSUME NEW E, NEW a \in Seq(E), NEW b \in Seq(E), NEW c \in Seq(E)
  PROVE  Cat(Cat(a, b), c) = Cat(a, Cat(b, c))
  BY DEF Cat

\* ... with the empty list as its unit.
LEMMA CatEnds ==
  ASSUME NEW E, NEW a \in Seq(E), NEW e \in E
  PROVE  /\ Cat(a, <<>>) = a /\ Cat(<<>>, a) = a /\ Append(a, e) = Cat(a, <<e>>)
         /\ <<e>> \in Seq(E) /\ <<>> \in Seq(E) /\ ToSet(<<e>>) = {e} /\ ToSet(<<>>) = {}
         /\ Cat(<<e>>, a) \in Seq(E) /\ Head(Cat(<<e>>, a)) = e
  BY DEF Cat, ToSet

\* An entry is under some nodes when it is under one of them.
LEMMA UnderAllHas ==
  ASSUME NEW h \in Nat
  PROVE  \A q \in Seq(Nodes[h]) : \A x : x \in ToSet(UnderAll(q)) <=> \E j \in DOMAIN q : x \in ToSet(Under(q[j]))
  <1> DEFINE N == Nodes[h]
             I == {q \in Seq(N) : \A x : x \in ToSet(UnderAll(q)) <=> \E j \in DOMAIN q : x \in ToSet(Under(q[j]))}
  <1>0. /\ UnderAll(<<>>) = <<>> /\ \A q \in Seq(N) : UnderAll(q) \in Seq(Entry)
        /\ \A q \in Seq(N), n \in N : UnderAll(Append(q, n)) = Cat(UnderAll(q), Under(n))
        /\ \A n \in N : Under(n) \in Seq(Entry)
    BY UnderAllAppend, UnderIs DEF Cat
  <1> HIDE DEF N
  <1>1. <<>> \in I
    <2>1. ToSet(<<>>) = {} /\ DOMAIN <<>> = {} /\ <<>> \in Seq(N)
      BY DEF ToSet
    <2> QED BY <1>0, <2>1
  <1>2. ASSUME NEW q \in Seq(N), NEW n \in N, q \in I PROVE Append(q, n) \in I
    <2>1. ToSet(UnderAll(Append(q, n))) = ToSet(UnderAll(q)) \cup ToSet(Under(n))
      <3>1. UnderAll(q) \in Seq(Entry) /\ Under(n) \in Seq(Entry)
        BY <1>0
      <3>2. UnderAll(Append(q, n)) = Cat(UnderAll(q), Under(n))
        BY <1>0
      <3>3. ToSet(Cat(UnderAll(q), Under(n))) = ToSet(UnderAll(q)) \cup ToSet(Under(n))
        BY <3>1, ConcatSet
      <3> QED BY <3>2, <3>3, Zenon
    <2>2. /\ Append(q, n) \in Seq(N) /\ Len(q) + 1 \in DOMAIN Append(q, n) /\ Append(q, n)[Len(q) + 1] = n
          /\ \A j \in DOMAIN q : j \in DOMAIN Append(q, n) /\ Append(q, n)[j] = q[j]
          /\ \A j \in DOMAIN Append(q, n) : j \in DOMAIN q \/ j = Len(q) + 1
      OBVIOUS
    <2> QED BY <1>2, <2>1, <2>2
  <1> HIDE DEF I
  <1>3. Seq(N) \subseteq I
    BY <1>1, <1>2, L!SequenceInduction, LInductive
  <1> QED BY <1>3 DEF I, N

\* All entries under a node have keys in its span.
LEMMA TreeKeys ==
  \A h \in Nat : \A n, low, high, mode : Tree(h, n, low, high, mode) =>
    \A x \in ToSet(Under(n)) : x \in Entry /\ x.key \in Nat /\ low <= x.key /\ x.key <= high
  <1> DEFINE I == {h \in Nat : \A n, low, high, mode : Tree(h, n, low, high, mode) =>
                     \A x \in ToSet(Under(n)) : x \in Entry /\ x.key \in Nat /\ low <= x.key /\ x.key <= high}
  <1>0. ASSUME NEW h \in Nat, NEW n \in Nodes[h], NEW x \in ToSet(Under(n)) PROVE x \in Entry /\ x.key \in Nat
    <2>1. Under(n) \in Seq(Entry)
      BY UnderIs
    <2>2. x \in Entry
      BY <2>1 DEF ToSet
    <2> QED BY <2>2 DEF Entry
  <1>1. 0 \in I
    <2> SUFFICES ASSUME NEW n, NEW low, NEW high, NEW mode, Tree(0, n, low, high, mode), NEW x \in ToSet(Under(n))
                 PROVE  low <= x.key /\ x.key <= high /\ n \in Nodes[0]
      BY <1>0
    <2>1. n \in Nodes[0] /\ Sorted(n.keys, low, high)
      BY TreeIs
    <2>2. Under(n) = Pairs(n.keys, n.children)
      BY <2>1, UnderIs
    <2>3. PICK j \in DOMAIN n.keys : x = [key |-> n.keys[j], value |-> n.children[j]]
      BY <2>2 DEF Pairs, ToSet
    <2> QED BY <2>1, <2>3 DEF Sorted
  <1>2. ASSUME NEW h \in Nat, h \in I PROVE h + 1 \in I
    <2> SUFFICES ASSUME NEW n, NEW low, NEW high, NEW mode, Tree(h + 1, n, low, high, mode), NEW x \in ToSet(Under(n))
                 PROVE  n \in Nodes[h + 1] /\ low <= x.key /\ x.key <= high
      <3>1. h + 1 \in Nat
        OBVIOUS
      <3> QED BY <1>0, <3>1
    <2>1. n \in Nodes[h + 1] /\ Inside(h, n.keys, n.children, low, high, mode)
      BY TreeIs
    <2>2. Under(n) = UnderAll(n.children) /\ n.children \in Seq(Nodes[h])
      BY <2>1, UnderIs, NodeFields
    <2>3. PICK j \in DOMAIN n.children : x \in ToSet(Under(n.children[j]))
      BY <2>2, UnderAllHas
    <2>4. Tree(h, n.children[j], Lo(n.keys, j, low), Hi(n.keys, j, high), mode)
      BY <2>1 DEF Inside
    <2>5. x.key \in Nat /\ Lo(n.keys, j, low) <= x.key /\ x.key <= Hi(n.keys, j, high)
      BY <1>2, <2>3, <2>4
    <2>6. low \in Nat /\ high \in Nat /\ low <= Lo(n.keys, j, low) /\ Hi(n.keys, j, high) <= high
          /\ Lo(n.keys, j, low) \in Nat /\ Hi(n.keys, j, high) \in Nat
      <3>1. /\ low \in Nat /\ high \in Nat /\ n.keys \in Seq(Nat) /\ Len(n.children) = Len(n.keys) + 1
            /\ j \in 1 .. Len(n.keys) + 1 /\ Len(n.keys) \in Nat /\ DOMAIN n.keys = 1 .. Len(n.keys)
            /\ Sorted(n.keys, low, high)
        BY <2>1, <2>2 DEF Inside
      <3>2. j # 1 => j - 1 \in DOMAIN n.keys
        BY <3>1
      <3>3. j # Len(n.keys) + 1 => j \in DOMAIN n.keys
        BY <3>1
      <3>4. j # 1 => low <= n.keys[j - 1] /\ n.keys[j - 1] \in Nat
        <4>1. Sorted(n.keys, low, high) /\ \A i \in DOMAIN n.keys : n.keys[i] \in Nat
          BY <3>1, SMTT(30)
        <4> QED BY <3>2, <4>1, Zenon DEF Sorted
      <3>5. j # Len(n.keys) + 1 => n.keys[j] <= high /\ n.keys[j] \in Nat
        <4>1. Sorted(n.keys, low, high) /\ \A i \in DOMAIN n.keys : n.keys[i] \in Nat
          BY <3>1, SMTT(30)
        <4> QED BY <3>3, <4>1, Zenon DEF Sorted
      <3>6. low \in Nat /\ high \in Nat /\ low <= low /\ high <= high
        BY <3>1
      <3>7. low <= Lo(n.keys, j, low) /\ Lo(n.keys, j, low) \in Nat
        BY <3>4, <3>6, Zenon DEF Lo
      <3>8. Hi(n.keys, j, high) <= high /\ Hi(n.keys, j, high) \in Nat
        BY <3>5, <3>6, Zenon DEF Hi
      <3> QED BY <3>6, <3>7, <3>8, Zenon
    <2> QED BY <2>1, <2>5, <2>6
  <1> HIDE DEF I
  <1>3. Nat \subseteq I
    BY <1>1, <1>2, NaturalInduction
  <1> QED BY <1>3 DEF I

\* The keys under the children of a node, beside the keys between them.
LEMMA RowKeys ==
  ASSUME NEW h \in Nat, NEW keys, NEW children, NEW low, NEW high, NEW mode, Inside(h, keys, children, low, high, mode)
  PROVE  /\ \A j \in DOMAIN children : \A x \in ToSet(Under(children[j])) :
              /\ x \in Entry /\ x.key \in Nat /\ low <= x.key /\ x.key <= high
              /\ \A i \in DOMAIN keys : i < j => keys[i] <= x.key
              /\ \A i \in DOMAIN keys : j <= i => x.key <= keys[i] /\ (mode = "strict" => x.key < keys[i])
  <1> SUFFICES ASSUME NEW j \in DOMAIN children, NEW x \in ToSet(Under(children[j]))
               PROVE  /\ x \in Entry /\ x.key \in Nat /\ low <= x.key /\ x.key <= high
                      /\ \A i \in DOMAIN keys : i < j => keys[i] <= x.key
                      /\ \A i \in DOMAIN keys : j <= i => x.key <= keys[i] /\ (mode = "strict" => x.key < keys[i])
    OBVIOUS
  <1>1. /\ keys \in Seq(Nat) /\ Len(children) = Len(keys) + 1 /\ children \in Seq(Nodes[h])
        /\ low \in Nat /\ high \in Nat /\ Sorted(keys, low, high)
        /\ Tree(h, children[j], Lo(keys, j, low), Hi(keys, j, high), mode)
        /\ \A i \in DOMAIN keys : Apart(mode, keys[i], children[i], children[i + 1])
    BY DEF Inside
  <1>2. DOMAIN keys = 1 .. Len(keys) /\ Len(keys) \in Nat /\ j \in 1 .. Len(keys) + 1 /\ \A i \in DOMAIN keys : keys[i] \in Nat
    BY <1>1
  <1>3. x \in Entry /\ x.key \in Nat /\ Lo(keys, j, low) <= x.key /\ x.key <= Hi(keys, j, high)
    BY <1>1, TreeKeys
  <1>4. ASSUME NEW i \in DOMAIN keys, i < j PROVE keys[i] <= x.key
    <2>1. j # 1 /\ j - 1 \in DOMAIN keys /\ keys[j - 1] <= x.key
      BY <1>2, <1>3, <1>4 DEF Lo
    <2>2. keys[i] <= keys[j - 1]
      <3>1. i = j - 1 \/ i < j - 1
        BY <1>2, <1>4
      <3> QED BY <1>1, <1>2, <2>1, <3>1 DEF Sorted
    <2> QED BY <1>2, <1>3, <2>1, <2>2
  <1>5. ASSUME NEW i \in DOMAIN keys, j <= i PROVE x.key <= keys[i] /\ (mode = "strict" => x.key < keys[i])
    <2>1. j # Len(keys) + 1 /\ j \in DOMAIN keys /\ x.key <= keys[j]
      BY <1>2, <1>3, <1>5 DEF Hi
    <2>2. keys[j] <= keys[i]
      <3>1. i = j \/ j < i
        BY <1>2, <1>5
      <3> QED BY <1>1, <1>2, <2>1, <3>1 DEF Sorted
    <2>3. mode = "strict" => x.key < keys[j]
      BY <1>1, <2>1 DEF Apart, KeysUnder
    <2> QED BY <1>2, <1>3, <2>1, <2>2, <2>3
  <1>6. low <= x.key
    <2>1. CASE j = 1
      BY <1>3, <2>1 DEF Lo
    <2>2. CASE j # 1
      <3>1. j - 1 \in DOMAIN keys /\ keys[j - 1] <= x.key
        BY <1>2, <1>3, <2>2 DEF Lo
      <3> QED BY <1>1, <1>2, <1>3, <3>1 DEF Sorted
    <2> QED BY <2>1, <2>2
  <1>7. x.key <= high
    <2>1. CASE j = Len(keys) + 1
      BY <1>3, <2>1 DEF Hi
    <2>2. CASE j # Len(keys) + 1
      <3>1. j \in DOMAIN keys /\ x.key <= keys[j]
        BY <1>2, <1>3, <2>2 DEF Hi
      <3> QED BY <1>1, <1>2, <1>3, <3>1 DEF Sorted
    <2> QED BY <2>1, <2>2
  <1> QED BY <1>3, <1>4, <1>5, <1>6, <1>7

\* What is before an element of a list, and what is after it.
Before(s, i) == SubSeq(s, 1, i - 1)
After(s, i) == SubSeq(s, i + 1, Len(s))

\* The entries under a child, and those before and after it.
LEMMA RowAround ==
  ASSUME NEW h \in Nat, NEW keys, NEW children, NEW low, NEW high, NEW mode, Inside(h, keys, children, low, high, mode),
         NEW i \in DOMAIN children
  PROVE  /\ children = Cat(Append(Before(children, i), children[i]), After(children, i))
         /\ Before(children, i) \in Seq(Nodes[h]) /\ After(children, i) \in Seq(Nodes[h]) /\ children[i] \in Nodes[h]
         /\ UnderAll(Before(children, i)) \in Seq(Entry) /\ UnderAll(After(children, i)) \in Seq(Entry) /\ Under(children[i]) \in Seq(Entry)
         /\ UnderAll(children) = Cat(Cat(UnderAll(Before(children, i)), Under(children[i])), UnderAll(After(children, i)))
         /\ \A x \in ToSet(UnderAll(Before(children, i))) : i - 1 \in DOMAIN keys /\ x.key <= keys[i - 1] /\ (mode = "strict" => x.key < keys[i - 1])
         /\ \A x \in ToSet(UnderAll(After(children, i))) : i \in DOMAIN keys /\ keys[i] <= x.key
  <1> DEFINE l == Before(children, i)
             r == After(children, i)
  <1> DEFINE N == Nodes[h]
  <1>1. children \in Seq(N) /\ keys \in Seq(Nat) /\ Len(children) = Len(keys) + 1
    BY DEF Inside
  <1>2. i \in 1 .. Len(children) /\ DOMAIN children = 1 .. Len(children) /\ Len(children) \in Nat /\ DOMAIN keys = 1 .. Len(keys)
    BY <1>1
  <1>3. /\ children = Cat(Append(l, children[i]), r)
        /\ l \in Seq(N) /\ r \in Seq(N) /\ children[i] \in N
        /\ Len(l) = i - 1 /\ Len(r) = Len(children) - i
        /\ \A j \in 1 .. i - 1 : l[j] = children[j]
        /\ \A j \in 1 .. Len(children) - i : r[j] = children[i + j]
    <2> HIDE DEF N
    <2> QED BY <1>1, <1>2, Around DEF Cat, Before, After
  <1> HIDE DEF l, r
  <1>4. UnderAll(l) \in Seq(Entry) /\ UnderAll(r) \in Seq(Entry) /\ Under(children[i]) \in Seq(Entry)
    BY <1>3, UnderAllAppend, UnderIs
  <1>5. UnderAll(children) = Cat(Cat(UnderAll(l), Under(children[i])), UnderAll(r))
    <2>1. Append(l, children[i]) \in Seq(N)
      <3> HIDE DEF N
      <3> QED BY <1>3
    <2>2. UnderAll(Append(l, children[i])) = Cat(UnderAll(l), Under(children[i]))
      BY <1>3, UnderAllAppend DEF Cat
    <2>3. UnderAll(Cat(Append(l, children[i]), r)) = Cat(UnderAll(Append(l, children[i])), UnderAll(r))
      BY <1>3, <2>1, UnderAllConcat DEF Cat
    <2> QED BY <1>3, <2>2, <2>3
  <1>6. ASSUME NEW x \in ToSet(UnderAll(l))
        PROVE  i - 1 \in DOMAIN keys /\ x.key <= keys[i - 1] /\ (mode = "strict" => x.key < keys[i - 1])
    <2>1. PICK j \in DOMAIN l : x \in ToSet(Under(l[j]))
      BY <1>3, UnderAllHas
    <2>2. j \in 1 .. i - 1
      BY <1>3
    <2>3. i - 1 \in DOMAIN keys /\ j <= i - 1 /\ j \in DOMAIN children /\ x \in ToSet(Under(children[j]))
      <3>1. l[j] = children[j]
        BY <1>3, <2>2
      <3>2. i - 1 \in DOMAIN keys /\ j <= i - 1 /\ j \in DOMAIN children
        BY <1>1, <1>2, <2>2
      <3> QED BY <2>1, <3>1, <3>2
    <2> QED BY <2>3, RowKeys
  <1>7. ASSUME NEW x \in ToSet(UnderAll(r)) PROVE i \in DOMAIN keys /\ keys[i] <= x.key
    <2>1. PICK j \in DOMAIN r : x \in ToSet(Under(r[j]))
      BY <1>3, UnderAllHas
    <2>2. j \in 1 .. Len(children) - i
      BY <1>3
    <2>3. i \in DOMAIN keys /\ i < i + j /\ i + j \in DOMAIN children /\ x \in ToSet(Under(children[i + j]))
      <3>1. r[j] = children[i + j]
        BY <1>3, <2>2
      <3>2. i \in DOMAIN keys /\ i < i + j /\ i + j \in DOMAIN children
        BY <1>1, <1>2, <2>2
      <3> QED BY <2>1, <3>1, <3>2
    <2> QED BY <2>3, RowKeys
  <1> QED BY <1>3, <1>4, <1>5, <1>6, <1>7 DEF l, r

\* Lists in order, one after the other.
LEMMA UnderAllInOrder ==
  ASSUME NEW h \in Nat
  PROVE  \A q \in Seq(Nodes[h]) :
           /\ (/\ \A j \in DOMAIN q : InOrder(Under(q[j]))
               /\ \A i, j \in DOMAIN q : i < j => \A x \in ToSet(Under(q[i])), y \in ToSet(Under(q[j])) : x.key <= y.key)
              => InOrder(UnderAll(q))
           /\ (/\ \A j \in DOMAIN q : KeysOnce(Under(q[j]))
               /\ \A i, j \in DOMAIN q : i < j => \A x \in ToSet(Under(q[i])), y \in ToSet(Under(q[j])) : x.key # y.key)
              => KeysOnce(UnderAll(q))
  <1> DEFINE N == Nodes[h]
             P(q) == /\ \A j \in DOMAIN q : InOrder(Under(q[j]))
                     /\ \A i, j \in DOMAIN q : i < j => \A x \in ToSet(Under(q[i])), y \in ToSet(Under(q[j])) : x.key <= y.key
             Q(q) == /\ \A j \in DOMAIN q : KeysOnce(Under(q[j]))
                     /\ \A i, j \in DOMAIN q : i < j => \A x \in ToSet(Under(q[i])), y \in ToSet(Under(q[j])) : x.key # y.key
             I == {q \in Seq(N) : (P(q) => InOrder(UnderAll(q))) /\ (Q(q) => KeysOnce(UnderAll(q)))}
  <1>0. /\ UnderAll(<<>>) = <<>> /\ \A q \in Seq(N) : UnderAll(q) \in Seq(Entry)
        /\ \A q \in Seq(N), n \in N : UnderAll(Append(q, n)) = Cat(UnderAll(q), Under(n))
        /\ \A n \in N : Under(n) \in Seq(Entry)
        /\ \A q \in Seq(N) : \A x : x \in ToSet(UnderAll(q)) <=> \E j \in DOMAIN q : x \in ToSet(Under(q[j]))
    BY UnderAllAppend, UnderIs, UnderAllHas DEF Cat
  <1> HIDE DEF N
  <1>1. <<>> \in I
    <2>1. DOMAIN <<>> = {} /\ <<>> \in Seq(N)
      OBVIOUS
    <2> QED BY <1>0, <2>1 DEF InOrder, KeysOnce
  <1>2. ASSUME NEW q \in Seq(N), NEW n \in N, q \in I PROVE Append(q, n) \in I
    <2> DEFINE w == Append(q, n)
               a == UnderAll(q)
               b == Under(n)
    <2>1. /\ w \in Seq(N) /\ Len(q) + 1 \in DOMAIN w /\ w[Len(q) + 1] = n
          /\ \A j \in DOMAIN q : j \in DOMAIN w /\ w[j] = q[j] /\ j < Len(q) + 1
      OBVIOUS
    <2>2. a \in Seq(Entry) /\ b \in Seq(Entry)
      BY <1>0
    <2>3. UnderAll(w) = Cat(a, b)
      BY <1>0
    <2>4. /\ InOrder(Cat(a, b)) <=> /\ InOrder(a) /\ InOrder(b)
                                 /\ \A x \in ToSet(a), y \in ToSet(b) : x.key <= y.key
          /\ KeysOnce(Cat(a, b)) <=> /\ KeysOnce(a) /\ KeysOnce(b)
                                  /\ \A x \in ToSet(a), y \in ToSet(b) : x.key # y.key
      BY <2>2, InOrderConcat
    <2>5. \A x \in ToSet(a) : \E j \in DOMAIN q : x \in ToSet(Under(q[j]))
      BY <1>0
    <2> HIDE DEF w, a
    <2>6. ASSUME P(w) PROVE InOrder(Cat(a, b))
      <3>1. P(q) /\ InOrder(b)
        BY <2>1, <2>6
      <3>2. ASSUME NEW x \in ToSet(a), NEW y \in ToSet(b) PROVE x.key <= y.key
        <4>1. PICK j \in DOMAIN q : x \in ToSet(Under(q[j]))
          BY <2>5
        <4> QED BY <2>1, <2>6, <4>1
      <3>3. InOrder(a)
        BY <1>2, <3>1 DEF a
      <3> QED BY <2>4, <3>1, <3>2, <3>3
    <2>7. ASSUME Q(w) PROVE KeysOnce(Cat(a, b))
      <3>1. Q(q) /\ KeysOnce(b)
        BY <2>1, <2>7
      <3>2. ASSUME NEW x \in ToSet(a), NEW y \in ToSet(b) PROVE x.key # y.key
        <4>1. PICK j \in DOMAIN q : x \in ToSet(Under(q[j]))
          BY <2>5
        <4> QED BY <2>1, <2>7, <4>1
      <3>3. KeysOnce(a)
        BY <1>2, <3>1 DEF a
      <3> QED BY <2>4, <3>1, <3>2, <3>3
    <2> HIDE DEF P, Q
    <2> QED BY <2>1, <2>3, <2>6, <2>7 DEF w
  <1> HIDE DEF I
  <1>3. Seq(N) \subseteq I
    BY <1>1, <1>2, L!SequenceInduction, LInductive
  <1> QED BY <1>3 DEF I, N

\* The leaves of a search tree are in order.
LEMMA TreeInOrder ==
  \A h \in Nat : \A n, low, high, mode : Tree(h, n, low, high, mode) =>
    InOrder(Under(n)) /\ (mode = "strict" => KeysOnce(Under(n)))
  <1> DEFINE I == {h \in Nat : \A n, low, high, mode : Tree(h, n, low, high, mode) =>
                     InOrder(Under(n)) /\ (mode = "strict" => KeysOnce(Under(n)))}
  <1>1. 0 \in I
    <2> SUFFICES ASSUME NEW n, NEW low, NEW high, NEW mode, Tree(0, n, low, high, mode)
                 PROVE  InOrder(Under(n)) /\ (mode = "strict" => KeysOnce(Under(n)))
      OBVIOUS
    <2>1. n \in Nodes[0] /\ Sorted(n.keys, low, high) /\ Ascending(mode, n.keys)
      BY TreeIs
    <2>2. Under(n) = Pairs(n.keys, n.children) /\ n.keys \in Seq(Nat)
      BY <2>1, UnderIs, NodeFields
    <2>3. DOMAIN Under(n) = DOMAIN n.keys /\ \A j \in DOMAIN n.keys : Under(n)[j].key = n.keys[j]
      BY <2>2 DEF Pairs
    <2>4. InOrder(Under(n))
      BY <2>1, <2>3 DEF InOrder, Sorted
    <2>5. ASSUME mode = "strict", NEW i \in DOMAIN n.keys, NEW j \in DOMAIN n.keys, n.keys[i] = n.keys[j] PROVE i = j
      <3>1. i \in Nat /\ j \in Nat /\ n.keys[i] \in Nat /\ n.keys[j] \in Nat
        BY <2>2
      <3> QED BY <2>1, <2>5, <3>1 DEF Ascending
    <2>6. mode = "strict" => KeysOnce(Under(n))
      BY <2>3, <2>5 DEF KeysOnce
    <2> QED BY <2>4, <2>6
  <1>2. ASSUME NEW h \in Nat, h \in I PROVE h + 1 \in I
    <2> SUFFICES ASSUME NEW n, NEW low, NEW high, NEW mode, Tree(h + 1, n, low, high, mode)
                 PROVE  InOrder(Under(n)) /\ (mode = "strict" => KeysOnce(Under(n)))
      OBVIOUS
    <2> DEFINE keys == n.keys
               children == n.children
    <2>1. n \in Nodes[h + 1] /\ Inside(h, keys, children, low, high, mode)
      BY TreeIs
    <2>2. Under(n) = UnderAll(children)
      BY <2>1, UnderIs
    <2> HIDE DEF keys, children
    <2>3. keys \in Seq(Nat) /\ children \in Seq(Nodes[h]) /\ Len(children) = Len(keys) + 1
      BY <2>1 DEF Inside
    <2>4. \A j \in DOMAIN children : InOrder(Under(children[j])) /\ (mode = "strict" => KeysOnce(Under(children[j])))
      BY <1>2, <2>1 DEF Inside
    <2>5. ASSUME NEW i \in DOMAIN children, NEW j \in DOMAIN children, i < j,
                 NEW x \in ToSet(Under(children[i])), NEW y \in ToSet(Under(children[j]))
          PROVE  x.key <= y.key /\ (mode = "strict" => x.key # y.key)
      <3>1. i \in DOMAIN keys /\ keys[i] \in Nat /\ i <= i
        BY <2>3, <2>5
      <3>2. keys[i] <= y.key /\ y.key \in Nat
        BY <2>1, <2>5, <3>1, RowKeys
      <3>3. x.key \in Nat /\ x.key <= keys[i] /\ (mode = "strict" => x.key < keys[i])
        BY <2>1, <2>5, <3>1, RowKeys
      <3> QED BY <3>1, <3>2, <3>3
    <2>6. InOrder(UnderAll(children))
      BY <2>3, <2>4, <2>5, UnderAllInOrder
    <2>7. mode = "strict" => KeysOnce(UnderAll(children))
      BY <2>3, <2>4, <2>5, UnderAllInOrder
    <2> QED BY <2>2, <2>6, <2>7
  <1> HIDE DEF I
  <1>3. Nat \subseteq I
    BY <1>1, <1>2, NaturalInduction
  <1> QED BY <1>3 DEF I

ST == INSTANCE FoldTheorems
        WITH Op <- LAMBDA c, x, h :
          {s \in Span(h) :
             /\ Len(s.node.keys) < Order /\ Sorted(s.node.keys, s.low, s.high)
             /\ Len(s.node.children) = Len(s.node.keys) + (IF h = 0 THEN 0 ELSE 1)
             /\ h # 0 => \A i \in DOMAIN s.node.children : Below(s, i) \in x}

\* Induction, for the theorems about the folds of ST.
LEMMA STInductive == ST!Inductive
  BY NaturalInduction DEF ST!Inductive

\* The trees that keep their order are those the property describes.
LEMMA TreeIsSearchTree ==
  \A h \in Nat : \A n, low, high, mode : Tree(h, n, low, high, mode) =>
    [node |-> n, low |-> low, high |-> high] \in SearchTrees[h]
  <1> DEFINE T(x, h) == {s \in Span(h) :
             /\ Len(s.node.keys) < Order /\ Sorted(s.node.keys, s.low, s.high)
             /\ Len(s.node.children) = Len(s.node.keys) + (IF h = 0 THEN 0 ELSE 1)
             /\ h # 0 => \A i \in DOMAIN s.node.children : Below(s, i) \in x}
             S(n, low, high) == [node |-> n, low |-> low, high |-> high]
             I == {h \in Nat : \A n, low, high, mode : Tree(h, n, low, high, mode) => S(n, low, high) \in SearchTrees[h]}
  <1>1. \E f : f = [h \in Nat |-> T(f[h - 1], h)]
    <2>1. \A x, y : T(x, 0) = T(y, 0)
      OBVIOUS
    <2> QED BY <2>1, ST!RecursionExists, STInductive
  <1>2. SearchTrees = [h \in Nat |-> T(SearchTrees[h - 1], h)]
    BY <1>1, Zenon DEF SearchTrees
  <1>3. \A h \in Nat : SearchTrees[h] = T(SearchTrees[h - 1], h)
    <2> HIDE DEF T
    <2> QED BY <1>2, Zenon
  <1>4. 0 \in I
    <2> SUFFICES ASSUME NEW n, NEW low, NEW high, NEW mode, Tree(0, n, low, high, mode)
                 PROVE  S(n, low, high) \in SearchTrees[0]
      OBVIOUS
    <2>1. /\ n \in Nodes[0] /\ low \in Nat /\ high \in Nat
          /\ Len(n.keys) < Order /\ Len(n.children) = Len(n.keys) /\ Sorted(n.keys, low, high)
      BY TreeIs
    <2>2. Len(n.keys) \in Nat
      BY <2>1, NodeFields
    <2>3. S(n, low, high) \in T(SearchTrees[0 - 1], 0)
      BY <2>1, <2>2 DEF Span
    <2> HIDE DEF T
    <2> QED BY <1>3, <2>3
  <1>5. ASSUME NEW h \in Nat, h \in I PROVE h + 1 \in I
    <2> SUFFICES ASSUME NEW n, NEW low, NEW high, NEW mode, Tree(h + 1, n, low, high, mode)
                 PROVE  S(n, low, high) \in SearchTrees[h + 1]
      OBVIOUS
    <2> DEFINE g == h + 1
               s == S(n, low, high)
    <2>1. g \in Nat /\ g # 0 /\ g - 1 = h
      OBVIOUS
    <2>2. n \in Nodes[g] /\ Len(n.keys) < Order /\ Inside(h, n.keys, n.children, low, high, mode)
      BY TreeIs
    <2>3. low \in Nat /\ high \in Nat /\ Sorted(n.keys, low, high) /\ Len(n.children) = Len(n.keys) + 1
      BY <2>2 DEF Inside
    <2>4. \A i \in DOMAIN n.children : S(n.children[i], Lo(n.keys, i, low), Hi(n.keys, i, high)) \in SearchTrees[h]
      BY <1>5, <2>2 DEF Inside
    <2>5. \A i : Below(s, i) = S(n.children[i], Lo(n.keys, i, low), Hi(n.keys, i, high))
      BY DEF Below, Lo, Hi
    <2>6. s.node = n /\ s.low = low /\ s.high = high
      OBVIOUS
    <2> HIDE DEF g
    <2>7. s \in Span(g)
      BY <2>2, <2>3 DEF Span
    <2> HIDE DEF s, S
    <2>8. \A i \in DOMAIN s.node.children : Below(s, i) \in SearchTrees[h]
      BY <2>4, <2>5, <2>6
    <2>9. Len(s.node.children) = Len(s.node.keys) + (IF g = 0 THEN 0 ELSE 1)
      BY <2>1, <2>3, <2>6
    <2>10. Len(s.node.keys) < Order /\ Sorted(s.node.keys, s.low, s.high)
      BY <2>2, <2>3, <2>6
    <2>11. s \in T(SearchTrees[h], g)
      BY <2>7, <2>8, <2>9, <2>10, Zenon
    <2> HIDE DEF T
    <2>12. s \in SearchTrees[g]
      BY <1>3, <2>1, <2>11, Zenon
    <2> QED BY <2>12 DEF g, s
  <1> HIDE DEF I
  <1>6. Nat \subseteq I
    BY <1>4, <1>5, NaturalInduction
  <1> QED BY <1>6 DEF I

--------------------------------------------------------------------------------
(* Trees of one kind that are of another.                                   *)

\* Every tree is any tree,
LEMMA TreeAny ==
  \A h \in Nat : \A n, low, high, mode : Tree(h, n, low, high, mode) => Tree(h, n, low, high, "any")
  <1> DEFINE I == {h \in Nat : \A n, low, high, mode : Tree(h, n, low, high, mode) => Tree(h, n, low, high, "any")}
  <1>0. "any" \in Modes /\ "any" # "strict" /\ "any" # "tight"
    BY DEF Modes
  <1>1. 0 \in I
    BY <1>0, TreeIs DEF Ascending
  <1>2. ASSUME NEW h \in Nat, h \in I PROVE h + 1 \in I
    <2> SUFFICES ASSUME NEW n, NEW low, NEW high, NEW mode, Tree(h + 1, n, low, high, mode)
                 PROVE  Tree(h + 1, n, low, high, "any")
      OBVIOUS
    <2>1. n \in Nodes[h + 1] /\ Len(n.keys) < Order /\ Inside(h, n.keys, n.children, low, high, mode)
      BY TreeIs
    <2>2. Inside(h, n.keys, n.children, low, high, "any")
      BY <1>0, <1>2, <2>1 DEF Inside, Apart
    <2> QED BY <2>1, <2>2, TreeIs
  <1> HIDE DEF I
  <1>3. Nat \subseteq I
    BY <1>1, <1>2, NaturalInduction
  <1> QED BY <1>3 DEF I

\* and one from which nothing was removed is strict when it holds no key twice.
LEMMA TightStrict ==
  \A h \in Nat : \A n, low, high : Tree(h, n, low, high, "tight") /\ KeysOnce(Under(n)) => Tree(h, n, low, high, "strict")
  <1> DEFINE I == {h \in Nat : \A n, low, high : Tree(h, n, low, high, "tight") /\ KeysOnce(Under(n)) => Tree(h, n, low, high, "strict")}
  <1>0. "strict" \in Modes /\ "strict" # "tight"
    BY DEF Modes
  <1>1. 0 \in I
    <2> SUFFICES ASSUME NEW n, NEW low, NEW high, Tree(0, n, low, high, "tight"), KeysOnce(Under(n))
                 PROVE  Tree(0, n, low, high, "strict")
      OBVIOUS
    <2>1. /\ n \in Nodes[0] /\ low \in Nat /\ high \in Nat
          /\ Len(n.keys) < Order /\ Len(n.children) = Len(n.keys) /\ Sorted(n.keys, low, high)
      BY TreeIs
    <2>2. Under(n) = Pairs(n.keys, n.children) /\ n.keys \in Seq(Nat)
      BY <2>1, UnderIs, NodeFields
    <2>3. DOMAIN Under(n) = DOMAIN n.keys /\ \A j \in DOMAIN n.keys : Under(n)[j].key = n.keys[j]
      BY <2>2 DEF Pairs
    <2>4. ASSUME NEW i \in DOMAIN n.keys, NEW j \in DOMAIN n.keys, i < j PROVE n.keys[i] < n.keys[j]
      <3>1. i \in Nat /\ j \in Nat /\ n.keys[i] \in Nat /\ n.keys[j] \in Nat
        BY <2>2
      <3>2. n.keys[i] <= n.keys[j]
        BY <2>1, <2>4 DEF Sorted
      <3>3. n.keys[i] # n.keys[j]
        BY <2>3, <2>4, <3>1 DEF KeysOnce
      <3> QED BY <3>1, <3>2, <3>3
    <2>5. Ascending("strict", n.keys)
      BY <2>4 DEF Ascending
    <2> QED BY <1>0, <2>1, <2>5, TreeIs
  <1>2. ASSUME NEW h \in Nat, h \in I PROVE h + 1 \in I
    <2> SUFFICES ASSUME NEW n, NEW low, NEW high, Tree(h + 1, n, low, high, "tight"), KeysOnce(Under(n))
                 PROVE  Tree(h + 1, n, low, high, "strict")
      OBVIOUS
    <2> DEFINE keys == n.keys
               children == n.children
    <2>1. n \in Nodes[h + 1] /\ Len(keys) < Order /\ Inside(h, keys, children, low, high, "tight")
      BY TreeIs
    <2>2. KeysOnce(UnderAll(children))
      BY <2>1, UnderIs
    <2> HIDE DEF keys, children
    <2>3. /\ keys \in Seq(Nat) /\ children \in Seq(Nodes[h]) /\ Len(children) = Len(keys) + 1
          /\ low \in Nat /\ high \in Nat /\ Sorted(keys, low, high)
          /\ \A i \in DOMAIN children : Tree(h, children[i], Lo(keys, i, low), Hi(keys, i, high), "tight")
          /\ \A i \in DOMAIN keys : Apart("tight", keys[i], children[i], children[i + 1])
      BY <2>1 DEF Inside
    <2>4. DOMAIN children = 1 .. Len(keys) + 1 /\ Len(keys) \in Nat /\ DOMAIN keys = 1 .. Len(keys)
      BY <2>3
    <2>5. ASSUME NEW i \in DOMAIN children
          PROVE  /\ KeysOnce(Under(children[i]))
                 /\ \A k \in DOMAIN keys : k + 1 = i /\ keys[k] \in KeysUnder(children[i]) => \A x \in ToSet(Under(children[k])) : x.key # keys[k]
      <3> DEFINE l == Before(children, i)
                 r == After(children, i)
                 a == UnderAll(l)
                 b == Under(children[i])
                 c == UnderAll(r)
      <3>1. a \in Seq(Entry) /\ b \in Seq(Entry) /\ c \in Seq(Entry) /\ UnderAll(children) = Cat(Cat(a, b), c)
            /\ l \in Seq(Nodes[h])
        BY <2>1, RowAround
      <3>0. \A k \in DOMAIN keys : k + 1 = i => k \in DOMAIN l /\ l[k] = children[k]
        BY <2>3, <2>4 DEF Before
      <3>7. \A x : x \in ToSet(UnderAll(l)) <=> \E j \in DOMAIN l : x \in ToSet(Under(l[j]))
        BY <3>1, UnderAllHas
      <3> HIDE DEF l
      <3>8. \A k \in DOMAIN keys : k + 1 = i => ToSet(Under(children[k])) \subseteq ToSet(a)
        BY <3>0, <3>7
      <3> HIDE DEF a, b, c
      <3>2. Cat(a, b) \in Seq(Entry)
        BY <3>1, ConcatSet
      <3>3. KeysOnce(Cat(a, b))
        <4> DEFINE ab == Cat(a, b)
        <4> HIDE DEF ab
        <4>1. ab \in Seq(Entry) /\ KeysOnce(Cat(ab, c))
          BY <2>2, <3>1, <3>2 DEF ab
        <4>2. KeysOnce(ab)
          BY <3>1, <4>1, InOrderConcat
        <4> QED BY <4>2 DEF ab
      <3>4. KeysOnce(b) /\ \A x \in ToSet(a), y \in ToSet(b) : x.key # y.key
        BY <3>1, <3>3, InOrderConcat
      <3>5. KeysUnder(children[i]) = {e.key : e \in ToSet(b)}
        BY DEF KeysUnder, b
      <3> QED BY <3>4, <3>5, <3>8 DEF b
    <2>6. \A i \in DOMAIN children : Tree(h, children[i], Lo(keys, i, low), Hi(keys, i, high), "strict")
      BY <1>2, <2>3, <2>5
    <2>7. ASSUME NEW i \in DOMAIN keys PROVE Apart("strict", keys[i], children[i], children[i + 1])
      <3>1. keys[i] \in KeysUnder(children[i + 1])
        BY <2>3 DEF Apart
      <3>2. i + 1 \in DOMAIN children /\ i \in DOMAIN children /\ keys[i] \in Nat /\ i <= i
        BY <2>3, <2>4
      <3>3. \A x \in ToSet(Under(children[i])) : x.key # keys[i]
        BY <2>5, <3>1, <3>2
      <3>4. \A x \in ToSet(Under(children[i])) : x.key \in Nat /\ x.key <= keys[i]
        BY <2>1, <3>2, RowKeys
      <3>5. \A x \in ToSet(Under(children[i])) : x.key < keys[i]
        BY <3>2, <3>3, <3>4
      <3> QED BY <1>0, <3>5 DEF Apart, KeysUnder
    <2>8. Inside(h, keys, children, low, high, "strict")
      BY <1>0, <2>3, <2>6, <2>7 DEF Inside
    <2> QED BY <2>1, <2>8, TreeIs DEF keys, children
  <1> HIDE DEF I
  <1>3. Nat \subseteq I
    BY <1>1, <1>2, NaturalInduction
  <1> QED BY <1>3 DEF I

\* Where the first and the last entries of a row are from which nothing was removed.
LEMMA RowEnds ==
  ASSUME NEW h \in Nat, NEW keys, NEW children, NEW low, NEW high, Inside(h, keys, children, low, high, "tight")
  PROVE  /\ low \in {x.key : x \in ToSet(UnderAll(children))} => low \in KeysUnder(children[1])
         /\ ToSet(UnderAll(children)) # {} => KeysUnder(children[Len(children)]) # {}
  <1>1. /\ keys \in Seq(Nat) /\ children \in Seq(Nodes[h]) /\ Len(children) = Len(keys) + 1
        /\ low \in Nat
        /\ \A i \in DOMAIN keys : Apart("tight", keys[i], children[i], children[i + 1])
    BY DEF Inside
  <1>2. DOMAIN children = 1 .. Len(keys) + 1 /\ Len(keys) \in Nat /\ DOMAIN keys = 1 .. Len(keys)
    BY <1>1
  <1>3. \A x : x \in ToSet(UnderAll(children)) <=> \E j \in DOMAIN children : x \in ToSet(Under(children[j]))
    BY <1>1, UnderAllHas
  <1>4. ASSUME NEW x \in ToSet(UnderAll(children)), x.key = low PROVE low \in KeysUnder(children[1])
    <2>1. PICK j \in DOMAIN children : x \in ToSet(Under(children[j]))
      BY <1>3
    <2>2. CASE j = 1
      BY <1>4, <2>1, <2>2 DEF KeysUnder
    <2>3. CASE j # 1
      <3>1. 1 \in DOMAIN keys /\ 1 \in DOMAIN children /\ 1 < j /\ 1 <= 1 /\ keys[1] \in Nat
        BY <1>1, <1>2, <2>3
      <3>2. KeysUnder(children[1]) # {}
        BY <1>1, <3>1 DEF Apart
      <3>3. PICK y \in ToSet(Under(children[1])) : TRUE
        BY <3>2 DEF KeysUnder
      <3>4. y.key \in Nat /\ low <= y.key /\ y.key <= keys[1]
        BY <3>1, RowKeys
      <3>5. keys[1] <= x.key
        BY <2>1, <3>1, RowKeys
      <3>6. y.key = low
        BY <1>1, <1>4, <3>1, <3>4, <3>5
      <3> QED BY <3>6 DEF KeysUnder
    <2> QED BY <2>2, <2>3
  <1>5. ASSUME NEW x \in ToSet(UnderAll(children)) PROVE KeysUnder(children[Len(children)]) # {}
    <2>1. PICK j \in DOMAIN children : x \in ToSet(Under(children[j]))
      BY <1>3
    <2>2. CASE j = Len(children)
      BY <2>1, <2>2 DEF KeysUnder
    <2>3. CASE j # Len(children)
      <3>1. Len(keys) \in DOMAIN keys /\ Len(keys) + 1 = Len(children)
        BY <1>1, <1>2, <2>3
      <3> QED BY <1>1, <3>1 DEF Apart
    <2> QED BY <2>2, <2>3
  <1> QED BY <1>4, <1>5

--------------------------------------------------------------------------------
(* Rows that are split, and rows put in the place of a child.               *)

\* The first elements of a list.
FirstOf(s, i) == SubSeq(s, 1, i)

\* A list is its first elements and the others.
LEMMA TwoHalves ==
  ASSUME NEW E, NEW s \in Seq(E), NEW m \in 1 .. Len(s)
  PROVE  /\ s = Cat(SubSeq(s, 1, m), SubSeq(s, m + 1, Len(s)))
         /\ SubSeq(s, 1, m) \in Seq(E) /\ SubSeq(s, m + 1, Len(s)) \in Seq(E)
         /\ Len(SubSeq(s, 1, m)) = m /\ Len(SubSeq(s, m + 1, Len(s))) = Len(s) - m
         /\ \A j \in 1 .. m : SubSeq(s, 1, m)[j] = s[j]
         /\ \A j \in 1 .. Len(s) - m : SubSeq(s, m + 1, Len(s))[j] = s[m + j]
  <1>1. s = Append(SubSeq(s, 1, m - 1), s[m]) \o SubSeq(s, m + 1, Len(s))
    BY Around
  <1>2. SubSeq(s, 1, m) = Append(SubSeq(s, 1, m - 1), s[m])
    BY Prefix
  <1>3. s = Cat(SubSeq(s, 1, m), SubSeq(s, m + 1, Len(s)))
    BY <1>1, <1>2, Zenon DEF Cat
  <1>4. SubSeq(s, 1, m) \in Seq(E) /\ Len(SubSeq(s, 1, m)) = m /\ \A j \in 1 .. m : SubSeq(s, 1, m)[j] = s[j]
    OBVIOUS
  <1>5. /\ SubSeq(s, m + 1, Len(s)) \in Seq(E) /\ Len(SubSeq(s, m + 1, Len(s))) = Len(s) - m
        /\ \A j \in 1 .. Len(s) - m : SubSeq(s, m + 1, Len(s))[j] = s[m + j]
    BY Around
  <1> QED BY <1>3, <1>4, <1>5

\* A list and its halves, for all lists.
Halved(E, s, l, r, m, n) ==
  /\ s = Cat(l, r) /\ l \in Seq(E) /\ r \in Seq(E) /\ Len(l) = m /\ Len(r) = n - m
  /\ \A j \in 1 .. m : l[j] = s[j]
  /\ \A j \in 1 .. n - m : r[j] = s[m + j]

\* So are the first elements and the others.
LEMMA AllHalves ==
  \A E : \A s \in Seq(E), m, n \in Nat : Len(s) = n /\ m \in 1 .. n => Halved(E, s, FirstOf(s, m), After(s, m), m, n)
  <1>1. ASSUME NEW E, NEW s \in Seq(E), NEW m \in Nat, NEW n \in Nat, Len(s) = n, m \in 1 .. n
        PROVE  Halved(E, s, FirstOf(s, m), After(s, m), m, n)
    BY <1>1, TwoHalves DEF Halved, FirstOf, After
  <1> QED BY <1>1

\* What is before and after a place of a list.
Parted(E, s, l, r, i, n) ==
  /\ l \in Seq(E) /\ r \in Seq(E) /\ Len(l) = i - 1 /\ Len(r) = n - i
  /\ \A j \in 1 .. i - 1 : l[j] = s[j]
  /\ \A j \in 1 .. n - i : r[j] = s[i + j]

\* Every list is parted so.
LEMMA AllParted ==
  \A E : \A s \in Seq(E), n \in Nat : \A i \in 1 .. n : Len(s) = n => Parted(E, s, Before(s, i), After(s, i), i, n)
  <1>1. ASSUME NEW E, NEW s \in Seq(E), NEW n \in Nat, NEW i \in 1 .. n, Len(s) = n
        PROVE  Parted(E, s, Before(s, i), After(s, i), i, n)
    BY <1>1, Around DEF Parted, Before, After
  <1> QED BY <1>1

\* The key in the middle of a row separates the halves.
LEMMA RowSplit ==
  ASSUME NEW h \in Nat, NEW keys, NEW children, NEW low, NEW high, NEW mode, Inside(h, keys, children, low, high, mode),
         NEW m \in DOMAIN keys
  PROVE  /\ Inside(h, Before(keys, m), FirstOf(children, m), low, keys[m], mode)
         /\ Inside(h, After(keys, m), After(children, m), keys[m], high, mode)
         /\ UnderAll(children) = Cat(UnderAll(FirstOf(children, m)), UnderAll(After(children, m)))
         /\ mode = "strict" => \A x \in ToSet(UnderAll(FirstOf(children, m))) : x.key < keys[m]
         /\ mode = "tight" => /\ keys[m] \in {x.key : x \in ToSet(UnderAll(After(children, m)))}
                               /\ ToSet(UnderAll(FirstOf(children, m))) # {}
  <1> DEFINE cl == FirstOf(children, m)
             cr == After(children, m)
             kl == Before(keys, m)
             kr == After(keys, m)
             N == Nodes[h]
             n == Len(keys)
  <1>1. /\ keys \in Seq(Nat) /\ children \in Seq(N) /\ Len(children) = n + 1
        /\ low \in Nat /\ high \in Nat /\ mode \in Modes /\ Sorted(keys, low, high)
        /\ \A i \in DOMAIN children : Tree(h, children[i], Lo(keys, i, low), Hi(keys, i, high), mode)
        /\ \A i \in DOMAIN keys : Apart(mode, keys[i], children[i], children[i + 1])
    BY DEF Inside
  <1>2. /\ n \in Nat /\ DOMAIN keys = 1 .. n /\ DOMAIN children = 1 .. n + 1 /\ m \in 1 .. n /\ m \in Nat
        /\ \A i \in 1 .. n : keys[i] \in Nat
    BY <1>1
  <1> HIDE DEF N, n
  <1>3. /\ children = Cat(cl, cr) /\ cl \in Seq(N) /\ cr \in Seq(N) /\ Len(cl) = m /\ Len(cr) = (n + 1) - m
        /\ \A j \in 1 .. m : cl[j] = children[j]
        /\ \A j \in 1 .. (n + 1) - m : cr[j] = children[m + j]
    <2>1. n + 1 \in Nat /\ m \in 1 .. n + 1
      BY <1>2
    <2>2. Halved(N, children, FirstOf(children, m), After(children, m), m, n + 1)
      BY <1>1, <1>2, <2>1, AllHalves, Zenon
    <2> QED BY <2>2, Zenon DEF Halved
  <1>4. /\ kl \in Seq(Nat) /\ kr \in Seq(Nat) /\ Len(kl) = m - 1 /\ Len(kr) = n - m
        /\ \A j \in 1 .. m - 1 : kl[j] = keys[j]
        /\ \A j \in 1 .. n - m : kr[j] = keys[m + j]
    <2>1. keys \in Seq(Nat) /\ Len(keys) = n
      BY <1>1 DEF n
    <2>2. Parted(Nat, keys, Before(keys, m), After(keys, m), m, n)
      BY <1>2, <2>1, AllParted, Zenon
    <2> QED BY <2>2, Zenon DEF Parted
  <1> HIDE DEF cl, cr, kl, kr
  <1>5. DOMAIN cl = 1 .. m /\ DOMAIN cr = 1 .. (n + 1) - m /\ DOMAIN kl = 1 .. m - 1 /\ DOMAIN kr = 1 .. n - m
    BY <1>3, <1>4
  <1>6. Inside(h, kl, cl, low, keys[m], mode)
    <2>1. Sorted(kl, low, keys[m])
      <3>0. \A i \in 1 .. m - 1 : i \in 1 .. n /\ i < m
        BY <1>2
      <3>1. \A i \in DOMAIN kl : i \in DOMAIN keys /\ i < m /\ kl[i] = keys[i]
        BY <1>2, <1>4, <1>5, <3>0, Zenon
      <3> QED BY <1>1, <1>2, <3>1 DEF Sorted
    <2>2. ASSUME NEW i \in DOMAIN cl PROVE Tree(h, cl[i], Lo(kl, i, low), Hi(kl, i, keys[m]), mode)
      <3>1. i \in DOMAIN children /\ cl[i] = children[i] /\ i # n + 1
        BY <1>2, <1>3, <1>5
      <3>2. Lo(kl, i, low) = Lo(keys, i, low)
        <4>1. i # 1 => i - 1 \in 1 .. m - 1
          BY <1>2, <1>5
        <4> QED BY <1>4, <4>1 DEF Lo
      <3>3. Hi(kl, i, keys[m]) = Hi(keys, i, high)
        <4>1. i = m \/ (i \in 1 .. m - 1 /\ i # m)
          BY <1>2, <1>5
        <4>2. Len(kl) + 1 = m /\ Len(keys) = n
          BY <1>2, <1>4 DEF n
        <4> QED BY <1>4, <3>1, <4>1, <4>2 DEF Hi
      <3> QED BY <1>1, <3>1, <3>2, <3>3
    <2>3. ASSUME NEW i \in DOMAIN kl PROVE Apart(mode, kl[i], cl[i], cl[i + 1])
      <3>0. i \in 1 .. n /\ i \in 1 .. m /\ i + 1 \in 1 .. m
        BY <1>2, <1>5
      <3>1. i \in DOMAIN keys /\ kl[i] = keys[i] /\ i \in 1 .. m /\ i + 1 \in 1 .. m
        BY <1>2, <1>4, <1>5, <3>0, Zenon
      <3> QED BY <1>1, <1>3, <3>1
    <2>4. Len(cl) = Len(kl) + 1
      BY <1>2, <1>3, <1>4
    <2> QED BY <1>1, <1>2, <1>3, <1>4, <2>1, <2>2, <2>3, <2>4 DEF Inside, N
  <1>7. Inside(h, kr, cr, keys[m], high, mode)
    <2>1. Sorted(kr, keys[m], high)
      <3>0. \A i \in 1 .. n - m : m + i \in 1 .. n /\ m < m + i /\ i \in Nat
        BY <1>2
      <3>1. \A i \in DOMAIN kr : m + i \in DOMAIN keys /\ m < m + i /\ kr[i] = keys[m + i] /\ i \in Nat
        BY <1>2, <1>4, <1>5, <3>0, Zenon
      <3>2. ASSUME NEW i \in DOMAIN kr PROVE keys[m] <= kr[i] /\ kr[i] <= high
        BY <1>1, <3>1 DEF Sorted
      <3>3. ASSUME NEW i \in DOMAIN kr, NEW j \in DOMAIN kr, i < j PROVE kr[i] <= kr[j]
        <4>1. m + i < m + j
          BY <1>2, <3>1, <3>3
        <4>2. keys[m + i] <= keys[m + j]
          BY <1>1, <3>1, <4>1 DEF Sorted
        <4> QED BY <3>1, <4>2, Zenon
      <3> QED BY <3>2, <3>3, Zenon DEF Sorted
    <2>2. ASSUME NEW i \in DOMAIN cr PROVE Tree(h, cr[i], Lo(kr, i, keys[m]), Hi(kr, i, high), mode)
      <3>1. m + i \in DOMAIN children /\ cr[i] = children[m + i] /\ m + i # 1 /\ i \in Nat /\ (m + i) - 1 = m + (i - 1)
        BY <1>2, <1>3, <1>5
      <3>2. Lo(kr, i, keys[m]) = Lo(keys, m + i, low)
        <4>1. i = 1 \/ (i # 1 /\ i - 1 \in 1 .. n - m)
          BY <1>2, <1>5
        <4>2. CASE i = 1
          <5>1. (m + i) - 1 = m
            BY <1>2, <4>2
          <5> QED BY <3>1, <4>2, <5>1, Zenon DEF Lo
        <4>3. CASE i # 1 /\ i - 1 \in 1 .. n - m
          <5>1. kr[i - 1] = keys[m + (i - 1)]
            BY <1>4, <4>3
          <5> QED BY <3>1, <4>3, <5>1, Zenon DEF Lo
        <4> QED BY <4>1, <4>2, <4>3
      <3>3. Hi(kr, i, high) = Hi(keys, m + i, high)
        <4>1. (i = n - m + 1 /\ m + i = n + 1) \/ (i \in 1 .. n - m /\ i # n - m + 1 /\ m + i # n + 1)
          <5>1. n \in Nat /\ m \in 1 .. n /\ i \in 1 .. (n + 1) - m
            BY <1>2, <1>5
          <5> QED BY <5>1
        <4>2. Len(kr) + 1 = n - m + 1 /\ Len(keys) = n
          BY <1>2, <1>4 DEF n
        <4> QED BY <1>4, <4>1, <4>2 DEF Hi
      <3> QED BY <1>1, <3>1, <3>2, <3>3
    <2>3. ASSUME NEW i \in DOMAIN kr PROVE Apart(mode, kr[i], cr[i], cr[i + 1])
      <3>0. m + i \in 1 .. n /\ i \in 1 .. (n + 1) - m /\ i + 1 \in 1 .. (n + 1) - m /\ m + (i + 1) = m + i + 1
        <4>1. i \in 1 .. n - m
          BY <1>5, Zenon
        <4>2. n \in Nat /\ m \in 1 .. n
          BY <1>2, Zenon
        <4> QED BY <4>1, <4>2
      <3>1. m + i \in DOMAIN keys /\ kr[i] = keys[m + i] /\ i \in 1 .. (n + 1) - m /\ i + 1 \in 1 .. (n + 1) - m /\ m + (i + 1) = m + i + 1
        BY <1>2, <1>4, <1>5, <3>0
      <3>2. cr[i] = children[m + i] /\ cr[i + 1] = children[m + (i + 1)]
        BY <1>3, <3>1
      <3> QED BY <1>1, <3>1, <3>2
    <2>4. Len(cr) = Len(kr) + 1
      BY <1>2, <1>3, <1>4
    <2> QED BY <1>1, <1>2, <1>3, <1>4, <2>1, <2>2, <2>3, <2>4 DEF Inside, N
  <1>8. UnderAll(children) = Cat(UnderAll(cl), UnderAll(cr))
    BY <1>3, UnderAllConcat DEF Cat, N
  <1>9. ASSUME mode = "strict", NEW x \in ToSet(UnderAll(cl)) PROVE x.key < keys[m]
    <2>1. PICK j \in DOMAIN cl : x \in ToSet(Under(cl[j]))
      BY <1>3, UnderAllHas DEF N
    <2>2. j \in DOMAIN children /\ j <= m /\ x \in ToSet(Under(children[j]))
      BY <1>2, <1>3, <1>5, <2>1
    <2> QED BY <1>9, <2>2, RowKeys
  <1>10. ASSUME mode = "tight" PROVE keys[m] \in {x.key : x \in ToSet(UnderAll(cr))} /\ ToSet(UnderAll(cl)) # {}
    <2>1. keys[m] \in KeysUnder(children[m + 1]) /\ KeysUnder(children[m]) # {}
      BY <1>1, <1>10 DEF Apart
    <2>2. PICK x \in ToSet(Under(children[m + 1])) : x.key = keys[m]
      BY <2>1 DEF KeysUnder
    <2>3. PICK y \in ToSet(Under(children[m])) : TRUE
      BY <2>1 DEF KeysUnder
    <2>4. 1 \in DOMAIN cr /\ cr[1] = children[m + 1] /\ m \in DOMAIN cl /\ cl[m] = children[m]
      BY <1>2, <1>3, <1>5
    <2>5. x \in ToSet(UnderAll(cr)) /\ y \in ToSet(UnderAll(cl))
      BY <1>3, <2>2, <2>3, <2>4, UnderAllHas DEF N
    <2> QED BY <2>2, <2>5
  <1> QED BY <1>6, <1>7, <1>8, <1>9, <1>10 DEF cl, cr, kl, kr

\* Keys and nodes put where a child was.
From(s, i) == SubSeq(s, i, Len(s))
PutKeys(keys, i, p) == Cat(Cat(Before(keys, i), p), From(keys, i))
PutNodes(s, i, p) == Cat(Cat(Before(s, i), p), After(s, i))

\* The places of three lists joined.
LEMMA ThreeParts ==
  ASSUME NEW E, NEW a \in Seq(E), NEW b \in Seq(E), NEW c \in Seq(E),
         NEW p \in Nat, NEW q \in Nat, NEW t \in Nat, Len(a) = p, Len(b) = q, Len(c) = t
  PROVE  /\ Cat(Cat(a, b), c) \in Seq(E) /\ Len(Cat(Cat(a, b), c)) = (p + q) + t
         /\ \A j \in 1 .. p : Cat(Cat(a, b), c)[j] = a[j]
         /\ \A j \in 1 .. q : Cat(Cat(a, b), c)[p + j] = b[j]
         /\ \A j \in 1 .. t : Cat(Cat(a, b), c)[(p + q) + j] = c[j]
  <1> DEFINE r == p + q
             ab == Cat(a, b)
  <1>0. r \in Nat /\ (\A j \in 1 .. p : j \in 1 .. r) /\ (\A j \in 1 .. q : p + j \in 1 .. r)
    OBVIOUS
  <1>1. /\ ab \in Seq(E) /\ Len(ab) = r
        /\ \A j \in 1 .. p : ab[j] = a[j]
        /\ \A j \in 1 .. q : ab[p + j] = b[j]
    BY CatIs
  <1> HIDE DEF r, ab
  <1>2. /\ Cat(ab, c) \in Seq(E) /\ Len(Cat(ab, c)) = r + t
        /\ \A j \in 1 .. r : Cat(ab, c)[j] = ab[j]
        /\ \A j \in 1 .. t : Cat(ab, c)[r + j] = c[j]
    BY <1>0, <1>1, CatIs
  <1>3. /\ \A j \in 1 .. p : Cat(ab, c)[j] = a[j]
        /\ \A j \in 1 .. q : Cat(ab, c)[p + j] = b[j]
    BY <1>0, <1>1, <1>2, Zenon
  <1> QED BY <1>2, <1>3 DEF r, ab

\* z has a, b and c one after the other.
InThree(E, z, a, b, c, p, q, t) ==
  /\ z \in Seq(E) /\ Len(z) = (p + q) + t
  /\ \A j \in 1 .. p : z[j] = a[j]
  /\ \A j \in 1 .. q : z[p + j] = b[j]
  /\ \A j \in 1 .. t : z[(p + q) + j] = c[j]

\* So it is for all lists.
LEMMA AllThreeParts ==
  \A E : \A a, b, c \in Seq(E) : \A p, q, t \in Nat :
    Len(a) = p /\ Len(b) = q /\ Len(c) = t => InThree(E, Cat(Cat(a, b), c), a, b, c, p, q, t)
  BY ThreeParts DEF InThree

\* nk and nc are the keys and children of a node with pk and pc in place i.
IsPut(h, nk, nc, keys, children, n, i, pk, pc, d) ==
  /\ nk \in Seq(Nat) /\ Len(nk) = n + d
  /\ \A j \in 1 .. i - 1 : nk[j] = keys[j]
  /\ \A j \in 1 .. d : nk[(i - 1) + j] = pk[j]
  /\ \A j \in 1 .. (n + 1) - i : nk[((i - 1) + d) + j] = keys[(i - 1) + j]
  /\ nc \in Seq(Nodes[h]) /\ Len(nc) = (n + d) + 1
  /\ \A j \in 1 .. i - 1 : nc[j] = children[j]
  /\ \A j \in 1 .. d + 1 : nc[(i - 1) + j] = pc[j]
  /\ \A j \in 1 .. (n + 1) - i : nc[(i + d) + j] = children[i + j]

\* _insert_into_parent: where the keys and children are, and the entries under them.
LEMMA PutIs ==
  ASSUME NEW h \in Nat, NEW keys \in Seq(Nat), NEW children \in Seq(Nodes[h]), NEW n \in Nat,
         Len(keys) = n, Len(children) = n + 1, NEW i \in 1 .. n + 1,
         NEW pk \in Seq(Nat), NEW pc \in Seq(Nodes[h]), NEW d \in Nat, Len(pk) = d, Len(pc) = d + 1
  PROVE  /\ IsPut(h, PutKeys(keys, i, pk), PutNodes(children, i, pc), keys, children, n, i, pk, pc, d)
         /\ UnderAll(PutNodes(children, i, pc)) = Cat(Cat(UnderAll(Before(children, i)), UnderAll(pc)), UnderAll(After(children, i)))
  <1> DEFINE N == Nodes[h]
             kb == Before(keys, i)
             kf == From(keys, i)
             cb == Before(children, i)
             ca == After(children, i)
             p == i - 1
             t == (n + 1) - i
  <1>0. p \in Nat /\ t \in Nat /\ d \in Nat /\ d + 1 \in Nat /\ (p + d) + t = n + d /\ (p + (d + 1)) + t = (n + d) + 1
        /\ p + (d + 1) = i + d
    OBVIOUS
  <1>1. kb \in Seq(Nat) /\ Len(kb) = p /\ \A j \in 1 .. p : kb[j] = keys[j]
    BY DEF Before
  <1>2. kf \in Seq(Nat) /\ Len(kf) = t /\ \A j \in 1 .. t : kf[j] = keys[p + j]
    BY DEF From
  <1>3. /\ cb \in Seq(N) /\ Len(cb) = p /\ \A j \in 1 .. p : cb[j] = children[j]
        /\ ca \in Seq(N) /\ Len(ca) = t /\ \A j \in 1 .. t : ca[j] = children[i + j]
    <2> HIDE DEF N
    <2>1. children \in Seq(N) /\ i \in 1 .. Len(children)
      BY DEF N
    <2>2. /\ cb \in Seq(N) /\ ca \in Seq(N) /\ Len(cb) = i - 1 /\ Len(ca) = Len(children) - i
          /\ \A j \in 1 .. i - 1 : cb[j] = children[j]
          /\ \A j \in 1 .. Len(children) - i : ca[j] = children[i + j]
      <3>1. Len(children) \in Nat
        BY <2>1
      <3>2. Parted(N, children, Before(children, i), After(children, i), i, Len(children))
        BY <2>1, <3>1, AllParted, Zenon
      <3> QED BY <3>2, Zenon DEF Parted
    <2> HIDE DEF cb, ca
    <2> QED BY <2>2
  <1> HIDE DEF kb, kf, cb, ca, N, p, t
  <1>4. /\ Cat(Cat(kb, pk), kf) \in Seq(Nat) /\ Len(Cat(Cat(kb, pk), kf)) = (p + d) + t
        /\ \A j \in 1 .. p : Cat(Cat(kb, pk), kf)[j] = kb[j]
        /\ \A j \in 1 .. d : Cat(Cat(kb, pk), kf)[p + j] = pk[j]
        /\ \A j \in 1 .. t : Cat(Cat(kb, pk), kf)[(p + d) + j] = kf[j]
    <2>1. \A a, b, c \in Seq(Nat) : \A x, y, z \in Nat :
            Len(a) = x /\ Len(b) = y /\ Len(c) = z => InThree(Nat, Cat(Cat(a, b), c), a, b, c, x, y, z)
      BY AllThreeParts, Zenon
    <2>2. InThree(Nat, Cat(Cat(kb, pk), kf), kb, pk, kf, p, d, t)
      BY <1>0, <1>1, <1>2, <2>1, Zenon
    <2> QED BY <2>2, Zenon DEF InThree
  <1> DEFINE e == d + 1
  <1> HIDE DEF e
  <1>5. /\ Cat(Cat(cb, pc), ca) \in Seq(N) /\ Len(Cat(Cat(cb, pc), ca)) = (p + e) + t
        /\ \A j \in 1 .. p : Cat(Cat(cb, pc), ca)[j] = cb[j]
        /\ \A j \in 1 .. e : Cat(Cat(cb, pc), ca)[p + j] = pc[j]
        /\ \A j \in 1 .. t : Cat(Cat(cb, pc), ca)[(p + e) + j] = ca[j]
    <2>1. pc \in Seq(N) /\ e \in Nat /\ Len(pc) = e
      BY <1>0 DEF N, e
    <2>2. \A a, b, c \in Seq(N) : \A x, y, z \in Nat :
            Len(a) = x /\ Len(b) = y /\ Len(c) = z => InThree(N, Cat(Cat(a, b), c), a, b, c, x, y, z)
      BY AllThreeParts, Zenon
    <2>3. InThree(N, Cat(Cat(cb, pc), ca), cb, pc, ca, p, e, t)
      BY <1>0, <1>3, <2>1, <2>2, Zenon
    <2> QED BY <2>3, Zenon DEF InThree
  <1>6. /\ Cat(Cat(kb, pk), kf) \in Seq(Nat) /\ Len(Cat(Cat(kb, pk), kf)) = n + d
        /\ \A j \in 1 .. p : Cat(Cat(kb, pk), kf)[j] = keys[j]
        /\ \A j \in 1 .. d : Cat(Cat(kb, pk), kf)[p + j] = pk[j]
        /\ \A j \in 1 .. t : Cat(Cat(kb, pk), kf)[(p + d) + j] = keys[p + j]
    BY <1>0, <1>1, <1>2, <1>4, ZenonT(40)
  <1>7. /\ Cat(Cat(cb, pc), ca) \in Seq(N) /\ Len(Cat(Cat(cb, pc), ca)) = (n + d) + 1
        /\ \A j \in 1 .. p : Cat(Cat(cb, pc), ca)[j] = children[j]
        /\ \A j \in 1 .. e : Cat(Cat(cb, pc), ca)[p + j] = pc[j]
        /\ \A j \in 1 .. t : Cat(Cat(cb, pc), ca)[(i + d) + j] = children[i + j]
    BY <1>0, <1>3, <1>5, Zenon DEF e
  <1>8. UnderAll(Cat(Cat(cb, pc), ca)) = Cat(Cat(UnderAll(cb), UnderAll(pc)), UnderAll(ca))
    <2>1. cb \in Seq(N) /\ pc \in Seq(N) /\ ca \in Seq(N)
      BY <1>3 DEF N
    <2>2. Cat(cb, pc) \in Seq(N)
      BY <2>1, ConcatSet
    <2>3. UnderAll(Cat(cb, pc)) = Cat(UnderAll(cb), UnderAll(pc))
      BY <2>1, UnderAllConcat DEF Cat, N
    <2>4. UnderAll(Cat(Cat(cb, pc), ca)) = Cat(UnderAll(Cat(cb, pc)), UnderAll(ca))
      <3> DEFINE z == Cat(cb, pc)
      <3> HIDE DEF z
      <3>1. UnderAll(Cat(z, ca)) = Cat(UnderAll(z), UnderAll(ca))
        BY <2>1, <2>2, UnderAllConcat DEF Cat, N, z
      <3> QED BY <3>1 DEF z
    <2> QED BY <2>3, <2>4
  <1> QED BY <1>6, <1>7, <1>8, Zenon DEF kb, kf, cb, ca, N, p, t, e, PutKeys, PutNodes, IsPut

\* So it is for all keys and children.
LEMMA AllPut ==
  \A h \in Nat : \A keys \in Seq(Nat), children \in Seq(Nodes[h]), n \in Nat : \A i \in 1 .. n + 1 :
  \A pk \in Seq(Nat), pc \in Seq(Nodes[h]), d \in Nat :
    Len(keys) = n /\ Len(children) = n + 1 /\ Len(pk) = d /\ Len(pc) = d + 1 =>
      IsPut(h, PutKeys(keys, i, pk), PutNodes(children, i, pc), keys, children, n, i, pk, pc, d)
  BY PutIs

\* What a child becomes takes its place.
LEMMA RowReplace ==
  ASSUME NEW h \in Nat, NEW keys, NEW children, NEW low, NEW high, NEW mode, Inside(h, keys, children, low, high, mode),
         NEW i \in DOMAIN children, NEW pk, NEW pc, Inside(h, pk, pc, Lo(keys, i, low), Hi(keys, i, high), mode),
         mode = "strict" => \A x \in ToSet(UnderAll(pc)) : i \in DOMAIN keys => x.key < keys[i],
         mode = "tight" => /\ KeysUnder(children[i]) \subseteq {x.key : x \in ToSet(UnderAll(pc))}
                           /\ ToSet(UnderAll(pc)) # {}
  PROVE  Inside(h, PutKeys(keys, i, pk), PutNodes(children, i, pc), low, high, mode)
  <1> DEFINE N == Nodes[h]
             n == Len(keys)
             d == Len(pk)
             nk == PutKeys(keys, i, pk)
             nc == PutNodes(children, i, pc)
             p == i - 1
             t == (n + 1) - i
             lo == Lo(keys, i, low)
             hi == Hi(keys, i, high)
  <1>1. /\ keys \in Seq(Nat) /\ children \in Seq(N) /\ Len(children) = n + 1
        /\ low \in Nat /\ high \in Nat /\ mode \in Modes /\ Sorted(keys, low, high)
        /\ \A j \in DOMAIN children : Tree(h, children[j], Lo(keys, j, low), Hi(keys, j, high), mode)
        /\ \A j \in DOMAIN keys : Apart(mode, keys[j], children[j], children[j + 1])
    BY DEF Inside
  <1>2. /\ pk \in Seq(Nat) /\ pc \in Seq(N) /\ Len(pc) = d + 1 /\ Sorted(pk, lo, hi) /\ lo \in Nat /\ hi \in Nat
        /\ \A j \in DOMAIN pc : Tree(h, pc[j], Lo(pk, j, lo), Hi(pk, j, hi), mode)
        /\ \A j \in DOMAIN pk : Apart(mode, pk[j], pc[j], pc[j + 1])
    BY DEF Inside
  <1>3. n \in Nat /\ d \in Nat /\ i \in 1 .. n + 1 /\ p \in Nat /\ t \in Nat /\ p + 1 = i /\ p + t = n
    BY <1>1, <1>2
  <1>4. DOMAIN keys = 1 .. n /\ DOMAIN children = 1 .. n + 1 /\ DOMAIN pk = 1 .. d /\ DOMAIN pc = 1 .. d + 1
    BY <1>1, <1>2
  <1>5. (\A j \in 1 .. n : keys[j] \in Nat) /\ \A j \in 1 .. d : pk[j] \in Nat
    <2>1. \A j \in DOMAIN keys : keys[j] \in Nat
      BY <1>1
    <2>2. \A j \in DOMAIN pk : pk[j] \in Nat
      BY <1>2
    <2> QED BY <1>4, <2>1, <2>2
  <1>6. /\ nk \in Seq(Nat) /\ Len(nk) = n + d
        /\ \A j \in 1 .. p : nk[j] = keys[j]
        /\ \A j \in 1 .. d : nk[p + j] = pk[j]
        /\ \A j \in 1 .. t : nk[(p + d) + j] = keys[p + j]
        /\ nc \in Seq(N) /\ Len(nc) = (n + d) + 1
        /\ \A j \in 1 .. p : nc[j] = children[j]
        /\ \A j \in 1 .. d + 1 : nc[p + j] = pc[j]
        /\ \A j \in 1 .. t : nc[(i + d) + j] = children[i + j]
    <2>1. keys \in Seq(Nat) /\ children \in Seq(Nodes[h]) /\ pk \in Seq(Nat) /\ pc \in Seq(Nodes[h])
          /\ Len(keys) = n /\ Len(pk) = d /\ Len(children) = n + 1 /\ Len(pc) = d + 1
      BY <1>1, <1>2
    <2> HIDE DEF n, d
    <2>2. IsPut(h, nk, nc, keys, children, n, i, pk, pc, d)
      BY <1>3, <2>1, AllPut, Zenon
    <2> HIDE DEF nk, nc
    <2> QED BY <2>2, Zenon DEF IsPut
  <1>7. DOMAIN nk = 1 .. n + d /\ DOMAIN nc = 1 .. (n + d) + 1
    <2> HIDE DEF nk, nc
    <2> QED BY <1>3, <1>6
  <1> HIDE DEF N, n, d, nk, nc, p, t, lo, hi
  <1>8. /\ \A j \in 1 .. n + d : j \in 1 .. p \/ (\E e \in 1 .. d : j = p + e) \/ \E e \in 1 .. t : j = (p + d) + e
        /\ \A j \in 1 .. (n + d) + 1 : j \in 1 .. p \/ (\E e \in 1 .. d + 1 : j = p + e) \/ \E e \in 1 .. t : j = (i + d) + e
    <2>1. ASSUME NEW j \in 1 .. n + d PROVE j \in 1 .. p \/ (\E e \in 1 .. d : j = p + e) \/ \E e \in 1 .. t : j = (p + d) + e
      <3>1. j \in 1 .. p \/ (j - p \in 1 .. d /\ j = p + (j - p)) \/ (j - (p + d) \in 1 .. t /\ j = (p + d) + (j - (p + d)))
        BY <1>3
      <3> QED BY <3>1, Zenon
    <2>2. ASSUME NEW j \in 1 .. (n + d) + 1
          PROVE  j \in 1 .. p \/ (\E e \in 1 .. d + 1 : j = p + e) \/ \E e \in 1 .. t : j = (i + d) + e
      <3>1. j \in 1 .. p \/ (j - p \in 1 .. d + 1 /\ j = p + (j - p)) \/ (j - (i + d) \in 1 .. t /\ j = (i + d) + (j - (i + d)))
        BY <1>3
      <3> QED BY <3>1, Zenon
    <2> QED BY <2>1, <2>2
  \* The keys: those before are below those of the child, those after are above.
  <1>9. /\ \A e \in 1 .. p : e \in 1 .. n /\ keys[e] <= lo
        /\ \A e \in 1 .. t : p + e \in 1 .. n /\ hi <= keys[p + e]
        /\ low <= lo \/ i # 1
        /\ (i = 1 => lo = low) /\ (i = n + 1 => hi = high)
        /\ (i # 1 => lo = keys[p] /\ p \in 1 .. p) /\ (i # n + 1 => hi = keys[i] /\ 1 \in 1 .. t)
    <2>1. (i = 1 => lo = low) /\ (i # 1 => lo = keys[p] /\ p \in 1 .. n)
      BY <1>3 DEF lo, Lo, p
    <2>2. (i = n + 1 => hi = high) /\ (i # n + 1 => hi = keys[i] /\ i \in 1 .. n)
      BY <1>3 DEF hi, Hi, n
    <2>3. ASSUME NEW e \in 1 .. p PROVE e \in 1 .. n /\ keys[e] <= lo
      <3>1. e \in 1 .. n /\ i # 1 /\ (e = p \/ e < p)
        BY <1>3
      <3> QED BY <1>1, <1>4, <1>5, <2>1, <3>1 DEF Sorted
    <2>4. ASSUME NEW e \in 1 .. t PROVE p + e \in 1 .. n /\ hi <= keys[p + e]
      <3>1. p + e \in 1 .. n /\ i # n + 1 /\ (p + e = i \/ i < p + e)
        BY <1>3
      <3> QED BY <1>1, <1>4, <1>5, <2>2, <3>1 DEF Sorted
    <2>5. i # 1 => p \in 1 .. p
      BY <1>3
    <2>6. i # n + 1 => 1 \in 1 .. t
      BY <1>3
    <2> QED BY <1>1, <2>1, <2>2, <2>3, <2>4, <2>5, <2>6
  <1>10. Sorted(nk, low, high)
    <2>1. ASSUME NEW j \in 1 .. n + d PROVE low <= nk[j] /\ nk[j] <= high
      <3>0. low <= lo /\ hi <= high
        <4>1. low <= lo
          BY <1>1, <1>3, <1>4, <1>9 DEF Sorted
        <4>2. hi <= high
          <5>1. i # n + 1 => i \in 1 .. n
            BY <1>3
          <5> QED BY <1>1, <1>4, <1>9, <5>1 DEF Sorted
        <4> QED BY <4>1, <4>2
      <3>1. CASE j \in 1 .. p
        BY <1>1, <1>4, <1>6, <1>9, <3>1 DEF Sorted
      <3>2. ASSUME NEW e \in 1 .. d, j = p + e PROVE low <= nk[j] /\ nk[j] <= high
        <4>1. nk[j] = pk[e] /\ lo <= pk[e] /\ pk[e] <= hi /\ pk[e] \in Nat
          BY <1>2, <1>4, <1>5, <1>6, <3>2 DEF Sorted
        <4>2. low \in Nat /\ high \in Nat /\ lo \in Nat /\ hi \in Nat
          BY <1>1, <1>2, Zenon
        <4> QED BY <3>0, <4>1, <4>2
      <3>3. ASSUME NEW e \in 1 .. t, j = (p + d) + e PROVE low <= nk[j] /\ nk[j] <= high
        <4>1. nk[j] = keys[p + e] /\ p + e \in DOMAIN keys
          BY <1>4, <1>6, <1>9, <3>3, Zenon
        <4>2. low <= keys[p + e] /\ keys[p + e] <= high
          BY <1>1, <4>1, Zenon DEF Sorted
        <4> QED BY <4>1, <4>2, Zenon
      <3> QED BY <1>8, <3>1, <3>2, <3>3
    <2>2. ASSUME NEW j \in 1 .. n + d, NEW k \in 1 .. n + d, j < k PROVE nk[j] <= nk[k]
      <3>1. CASE j \in 1 .. p
        <4>1. nk[j] = keys[j] /\ j \in 1 .. n /\ keys[j] <= lo /\ keys[j] \in Nat
          BY <1>5, <1>6, <1>9, <3>1
        <4>2. CASE k \in 1 .. p
          BY <1>1, <1>4, <1>6, <1>9, <2>2, <4>1, <4>2 DEF Sorted
        <4>3. ASSUME NEW e \in 1 .. d, k = p + e PROVE nk[j] <= nk[k]
          <5>1. nk[k] = pk[e] /\ lo <= pk[e] /\ pk[e] \in Nat
            BY <1>2, <1>4, <1>5, <1>6, <4>3 DEF Sorted
          <5> QED BY <1>2, <4>1, <5>1
        <4>4. ASSUME NEW e \in 1 .. t, k = (p + d) + e PROVE nk[j] <= nk[k]
          <5>0. nk[k] = keys[p + e] /\ p + e \in 1 .. n
            BY <1>6, <1>9, <4>4, Zenon
          <5>1. nk[k] = keys[p + e] /\ p + e \in 1 .. n /\ j < p + e
            BY <1>3, <3>1, <5>0
          <5> QED BY <1>1, <1>4, <4>1, <5>1 DEF Sorted
        <4> QED BY <1>8, <4>2, <4>3, <4>4
      <3>2. ASSUME NEW e \in 1 .. d, j = p + e PROVE nk[j] <= nk[k]
        <4>1. nk[j] = pk[e] /\ pk[e] <= hi /\ pk[e] \in Nat
          BY <1>2, <1>4, <1>5, <1>6, <3>2 DEF Sorted
        <4>2. k \notin 1 .. p
          BY <1>3, <2>2, <3>2
        <4>3. ASSUME NEW f \in 1 .. d, k = p + f PROVE nk[j] <= nk[k]
          <5>0. e < f
            BY <1>3, <2>2, <3>2, <4>3
          <5>1. nk[k] = pk[f] /\ e < f
            BY <1>6, <4>3, <5>0, Zenon
          <5> QED BY <1>2, <1>4, <4>1, <5>1 DEF Sorted
        <4>4. ASSUME NEW f \in 1 .. t, k = (p + d) + f PROVE nk[j] <= nk[k]
          <5>1. nk[k] = keys[p + f] /\ hi <= keys[p + f] /\ keys[p + f] \in Nat
            BY <1>5, <1>6, <1>9, <4>4
          <5> QED BY <1>2, <4>1, <5>1
        <4> QED BY <1>8, <4>2, <4>3, <4>4
      <3>3. ASSUME NEW e \in 1 .. t, j = (p + d) + e PROVE nk[j] <= nk[k]
        <4>1. k \notin 1 .. p /\ ~ \E f \in 1 .. d : k = p + f
          BY <1>3, <2>2, <3>3
        <4>2. PICK f \in 1 .. t : k = (p + d) + f
          BY <1>8, <4>1
        <4>0. p + e < p + f
          BY <1>3, <2>2, <3>3, <4>2
        <4>3. nk[j] = keys[p + e] /\ nk[k] = keys[p + f] /\ p + e \in 1 .. n /\ p + f \in 1 .. n /\ p + e < p + f
          BY <1>6, <1>9, <3>3, <4>0, <4>2, Zenon
        <4> QED BY <1>1, <1>4, <4>3 DEF Sorted
      <3> QED BY <1>8, <3>1, <3>2, <3>3
    <2> QED BY <1>7, <2>1, <2>2 DEF Sorted
  \* The spans of the nodes.
  <1>11. ASSUME NEW j \in DOMAIN nc PROVE Tree(h, nc[j], Lo(nk, j, low), Hi(nk, j, high), mode)
    <2>1. CASE j \in 1 .. p
      <3>1. nc[j] = children[j] /\ j \in DOMAIN children /\ nk[j] = keys[j]
        <4>1. j \in 1 .. n + 1
          BY <1>3, <2>1
        <4> QED BY <1>4, <1>6, <2>1, <4>1, Zenon
      <3>2. Lo(nk, j, low) = Lo(keys, j, low)
        <4>1. j = 1 \/ j - 1 \in 1 .. p
          BY <1>3, <2>1
        <4> QED BY <1>6, <4>1, Zenon DEF Lo
      <3>3. Hi(nk, j, high) = Hi(keys, j, high)
        <4>1. j # (n + d) + 1 /\ j # n + 1
          BY <1>3, <2>1
        <4>2. Len(nk) = n + d /\ Len(keys) = n
          BY <1>6, Zenon DEF n
        <4> QED BY <3>1, <4>1, <4>2, Zenon DEF Hi
      <3> QED BY <1>1, <3>1, <3>2, <3>3
    <2>2. ASSUME NEW e \in 1 .. d + 1, j = p + e PROVE Tree(h, nc[j], Lo(nk, j, low), Hi(nk, j, high), mode)
      <3>1. nc[j] = pc[e] /\ e \in DOMAIN pc
        BY <1>4, <1>6, <2>2, Zenon
      <3>2. Lo(nk, j, low) = Lo(pk, e, lo)
        <4>1. CASE e # 1
          <5>1. e - 1 \in 1 .. d /\ j - 1 = p + (e - 1) /\ j # 1
            BY <1>3, <2>2, <4>1
          <5>2. nk[j - 1] = pk[e - 1]
            BY <1>6, <5>1, Zenon
          <5> QED BY <4>1, <5>1, <5>2, Zenon DEF Lo
        <4>2. CASE e = 1 /\ i = 1
          <5>1. j = 1
            BY <1>3, <2>2, <4>2
          <5> QED BY <1>9, <4>2, <5>1, Zenon DEF Lo
        <4>3. CASE e = 1 /\ i # 1
          <5>1. j # 1 /\ j - 1 = p
            BY <1>3, <2>2, <4>3
          <5>2. nk[j - 1] = lo
            BY <1>6, <1>9, <4>3, <5>1, Zenon
          <5> QED BY <4>3, <5>1, <5>2, Zenon DEF Lo
        <4> QED BY <4>1, <4>2, <4>3
      <3>3. Hi(nk, j, high) = Hi(pk, e, hi)
        <4>0. Len(pk) = d /\ Len(nk) = n + d
          BY <1>6 DEF d
        <4>1. CASE e # d + 1
          <5>1. e \in 1 .. d /\ j # (n + d) + 1
            BY <1>3, <2>2, <4>1
          <5>2. nk[j] = pk[e]
            BY <1>6, <2>2, <5>1, Zenon
          <5> QED BY <4>0, <4>1, <5>1, <5>2, Zenon DEF Hi
        <4>2. CASE e = d + 1 /\ i = n + 1
          <5>1. j = (n + d) + 1
            BY <1>3, <2>2, <4>2
          <5> QED BY <1>9, <4>0, <4>2, <5>1, Zenon DEF Hi
        <4>3. CASE e = d + 1 /\ i # n + 1
          <5>1. j # (n + d) + 1 /\ j = (p + d) + 1 /\ p + 1 = i
            BY <1>3, <2>2, <4>3
          <5>2. nk[j] = hi
            BY <1>6, <1>9, <4>3, <5>1, Zenon
          <5> QED BY <4>0, <4>3, <5>1, <5>2, Zenon DEF Hi
        <4> QED BY <4>1, <4>2, <4>3
      <3> QED BY <1>2, <3>1, <3>2, <3>3
    <2>3. ASSUME NEW e \in 1 .. t, j = (i + d) + e PROVE Tree(h, nc[j], Lo(nk, j, low), Hi(nk, j, high), mode)
      <3>1. nc[j] = children[i + e]
        BY <1>6, <2>3, Zenon
      <3>2. i + e \in DOMAIN children /\ i + e # 1 /\ (i + e) - 1 = p + e /\ j # 1 /\ j - 1 = (p + d) + e
        <4>1. i + e \in 1 .. n + 1 /\ i + e # 1 /\ (i + e) - 1 = p + e
          BY <1>3
        <4>2. j # 1 /\ j - 1 = (p + d) + e
          BY <1>3, <2>3
        <4> QED BY <1>4, <4>1, <4>2
      <3>3. Lo(nk, j, low) = Lo(keys, i + e, low)
        BY <1>6, <2>3, <3>2, Zenon DEF Lo
      <3>4. Hi(nk, j, high) = Hi(keys, i + e, high)
        <4>0. Len(keys) = n /\ Len(nk) = n + d
          BY <1>6 DEF n
        <4>1. CASE e = t
          <5>1. j = (n + d) + 1 /\ i + e = n + 1
            BY <1>3, <2>3, <4>1
          <5> QED BY <4>0, <5>1, Zenon DEF Hi
        <4>2. CASE e # t
          <5>1. j # (n + d) + 1 /\ i + e # n + 1 /\ e + 1 \in 1 .. t /\ j = (p + d) + (e + 1) /\ i + e = p + (e + 1)
            BY <1>3, <2>3, <4>2
          <5>2. nk[j] = keys[i + e]
            BY <1>6, <5>1, Zenon
          <5> QED BY <4>0, <5>1, <5>2, Zenon DEF Hi
        <4> QED BY <4>1, <4>2
      <3> QED BY <1>1, <3>1, <3>2, <3>3, <3>4
    <2> QED BY <1>7, <1>8, <2>1, <2>2, <2>3
  \* What keeps the nodes apart.
  <1>12. ASSUME NEW j \in DOMAIN nk PROVE Apart(mode, nk[j], nc[j], nc[j + 1])
    <2>1. CASE j \in 1 .. p
      <3>1. nk[j] = keys[j] /\ nc[j] = children[j] /\ j \in DOMAIN keys
        BY <1>4, <1>6, <1>9, <2>1, Zenon
      <3>2. Apart(mode, keys[j], children[j], children[j + 1])
        BY <1>1, <3>1
      <3>3. CASE j # p
        <4>1. j + 1 \in 1 .. p
          BY <1>3, <2>1, <3>3
        <4> QED BY <1>6, <3>1, <3>2, <4>1, Zenon
      <3>4. CASE j = p
        <4>1. j + 1 = p + 1 /\ j + 1 = i /\ 1 \in 1 .. d + 1 /\ i # 1
          BY <1>3, <2>1, <3>4
        <4>2. nc[j + 1] = pc[1] /\ lo = keys[j]
          BY <1>6, <1>9, <3>4, <4>1, Zenon
        <4>3. mode = "tight" => lo \in KeysUnder(pc[1])
          <5>1. mode = "tight" => lo \in KeysUnder(children[i])
            BY <3>2, <4>1, <4>2 DEF Apart
          <5>2. mode = "tight" => lo \in {x.key : x \in ToSet(UnderAll(pc))}
            BY <5>1
          <5> QED BY <5>2, RowEnds DEF lo, hi
        <4> QED BY <3>1, <3>2, <4>2, <4>3 DEF Apart
      <3> QED BY <3>3, <3>4
    <2>2. ASSUME NEW e \in 1 .. d, j = p + e PROVE Apart(mode, nk[j], nc[j], nc[j + 1])
      <3>1. e \in 1 .. d + 1 /\ e + 1 \in 1 .. d + 1 /\ j + 1 = p + (e + 1)
        BY <1>3, <2>2
      <3>2. nk[j] = pk[e] /\ nc[j] = pc[e] /\ nc[j + 1] = pc[e + 1] /\ e \in DOMAIN pk
        BY <1>4, <1>6, <2>2, <3>1, Zenon
      <3> QED BY <1>2, <3>2
    <2>3. ASSUME NEW e \in 1 .. t, j = (p + d) + e PROVE Apart(mode, nk[j], nc[j], nc[j + 1])
      <3>1. nk[j] = keys[p + e] /\ p + e \in DOMAIN keys
        BY <1>4, <1>6, <1>9, <2>3, Zenon
      <3>2. Apart(mode, keys[p + e], children[p + e], children[(p + e) + 1])
        BY <1>1, <3>1
      <3>3. j + 1 = (i + d) + e /\ (p + e) + 1 = i + e
        BY <1>3, <2>3
      <3>4. nc[j + 1] = children[(p + e) + 1]
        <4>1. nc[(i + d) + e] = children[i + e]
          BY <1>6, Zenon
        <4> QED BY <3>3, <4>1, Zenon
      <3>5. CASE e # 1
        <4>1. e - 1 \in 1 .. t /\ j = (i + d) + (e - 1) /\ p + e = i + (e - 1)
          BY <1>3, <2>3, <3>5
        <4>2. nc[j] = children[p + e]
          BY <1>6, <4>1, Zenon
        <4> QED BY <3>1, <3>2, <3>4, <4>2
      <3>6. CASE e = 1
        <4>1. j = p + (d + 1) /\ d + 1 \in 1 .. d + 1 /\ p + e = i
          BY <1>3, <2>3, <3>6
        <4>2. nc[j] = pc[d + 1] /\ d + 1 \in DOMAIN pc
          BY <1>4, <1>6, <4>1, Zenon
        <4>3. mode = "strict" => \A k \in KeysUnder(pc[d + 1]) : k < keys[p + e]
          <5>1. \A x \in ToSet(Under(pc[d + 1])) : x \in ToSet(UnderAll(pc))
            BY <1>2, <4>2, UnderAllHas DEF N
          <5> QED BY <3>1, <4>1, <5>1 DEF KeysUnder
        <4>4. mode = "tight" => KeysUnder(pc[d + 1]) # {}
          <5>1. mode = "tight" => ToSet(UnderAll(pc)) # {}
            OBVIOUS
          <5>2. Len(pc) = d + 1
            BY <1>2
          <5> QED BY <5>1, <5>2, RowEnds DEF lo, hi
        <4> QED BY <3>1, <3>2, <3>4, <4>2, <4>3, <4>4 DEF Apart
      <3> QED BY <3>5, <3>6
    <2> QED BY <1>7, <1>8, <2>1, <2>2, <2>3
  <1>13. Len(nc) = Len(nk) + 1
    BY <1>6
  <1>14. Inside(h, nk, nc, low, high, mode)
    BY <1>1, <1>6, <1>10, <1>11, <1>12, <1>13 DEF Inside, N
  <1> QED BY <1>14 DEF nk, nc

--------------------------------------------------------------------------------
(* Leaves.                                                                  *)

\* The keys before a place are smaller, the one there is not.
LEMMA PlaceIs ==
  ASSUME NEW keys \in Seq(Nat), NEW key \in Nat, NEW past \in BOOLEAN
  PROVE  /\ Place(keys, key, past) \in 1 .. Len(keys) + 1
         /\ \A j \in DOMAIN keys : j < Place(keys, key, past) =>
              keys[j] <= key /\ (~past => keys[j] < key)
         /\ Place(keys, key, past) \in DOMAIN keys =>
              /\ key <= keys[Place(keys, key, past)]
              /\ past => key < keys[Place(keys, key, past)]
  <1> DEFINE S == {i \in DOMAIN keys : key < keys[i] \/ (~past /\ key = keys[i])} \cup {Len(keys) + 1}
             i == Place(keys, key, past)
  <1>1. DOMAIN keys = 1 .. Len(keys) /\ Len(keys) \in Nat /\ \A j \in DOMAIN keys : keys[j] \in Nat
    OBVIOUS
  <1>2. S \subseteq Nat /\ S # {} /\ i = Min(S)
    BY <1>1 DEF Place
  <1>3. i \in S /\ \A x \in S : i <= x
    BY <1>2, MinOf
  <1>4. i \in 1 .. Len(keys) + 1
    BY <1>1, <1>3
  <1>5. ASSUME NEW j \in DOMAIN keys, j < i PROVE keys[j] <= key /\ (~past => keys[j] < key)
    <2>1. j \notin S
      BY <1>1, <1>3, <1>4, <1>5
    <2> QED BY <1>1, <2>1
  <1>6. i \in DOMAIN keys => key <= keys[i] /\ (past => key < keys[i])
    BY <1>1, <1>3
  <1> QED BY <1>4, <1>5, <1>6

\* Numbers may be values of entries.
LEMMA NumberHeld ==
  /\ Nat \subseteq Held /\ \A k, v \in Nat : [key |-> k, value |-> v] \in Entry
  <1>1. ASSUME NEW v \in Nat PROVE v \in Held
    <2>1. <<v>> \in Seq(Nat) /\ <<>> \in Seq(Nat) /\ <<v>>[1] = v
      OBVIOUS
    <2>2. Leaf(<<>>, <<v>>) \in Nodes[0]
      BY <2>1, NodeFields
    <2>3. Leaf(<<>>, <<v>>).children[1] = v
      BY <2>1 DEF Leaf
    <2> QED BY <2>2, <2>3 DEF Held
  <1> QED BY <1>1 DEF Entry

\* z has a and b one after the other.
Spliced(E, z, a, b, m, n) ==
  /\ z \in Seq(E) /\ Len(z) = m + n
  /\ \A i \in 1 .. m : z[i] = a[i]
  /\ \A i \in 1 .. n : z[m + i] = b[i]

\* So do lists that are joined.
LEMMA AllCat ==
  \A E : \A a, b \in Seq(E) : \A m, n \in Nat : Len(a) = m /\ Len(b) = n => Spliced(E, Cat(a, b), a, b, m, n)
  BY CatIs DEF Spliced

\* The entries of a leaf whose keys and numbers are two lists in a row.
LEMMA PairsCat ==
  ASSUME NEW a \in Seq(Nat), NEW b \in Seq(Nat), NEW c \in Seq(Nat), NEW d \in Seq(Nat),
         Len(a) = Len(c), Len(b) = Len(d)
  PROVE  /\ Pairs(Cat(a, b), Cat(c, d)) = Cat(Pairs(a, c), Pairs(b, d))
         /\ Pairs(a, c) \in Seq(Entry) /\ Pairs(b, d) \in Seq(Entry)
         /\ Len(Pairs(a, c)) = Len(a) /\ Len(Pairs(b, d)) = Len(b)
  <1> DEFINE m == Len(a)
             n == Len(b)
             ab == Cat(a, b)
             cd == Cat(c, d)
             p == Pairs(a, c)
             q == Pairs(b, d)
             z == Pairs(ab, cd)
  <1>0. \A k, v \in Seq(Nat) : Pairs(k, v) \in Seq(Entry) /\ Len(Pairs(k, v)) = Len(k)
    <2> SUFFICES ASSUME NEW k \in Seq(Nat), NEW v \in Seq(Nat) PROVE Pairs(k, v) \in Seq(Entry) /\ Len(Pairs(k, v)) = Len(k)
      OBVIOUS
    <2>1. Leaf(k, v) \in Nodes[0] /\ Leaf(k, v).keys = k /\ Leaf(k, v).children = v
      BY NodeFields DEF Leaf
    <2> QED BY <2>1, PairsType
  <1>1. /\ m \in Nat /\ n \in Nat /\ ab \in Seq(Nat) /\ cd \in Seq(Nat) /\ Len(ab) = m + n /\ Len(cd) = m + n
        /\ (\A i \in 1 .. m : ab[i] = a[i]) /\ (\A i \in 1 .. n : ab[m + i] = b[i])
        /\ (\A i \in 1 .. m : cd[i] = c[i]) /\ (\A i \in 1 .. n : cd[m + i] = d[i])
    <2>1. m \in Nat /\ n \in Nat /\ Len(c) = m /\ Len(d) = n
      OBVIOUS
    <2> HIDE DEF m, n
    <2>2. \A x, y \in Seq(Nat) : \A k, l \in Nat : Len(x) = k /\ Len(y) = l => Spliced(Nat, Cat(x, y), x, y, k, l)
      BY AllCat, Zenon
    <2>3. Len(a) = m /\ Len(b) = n
      BY DEF m, n
    <2>4. Spliced(Nat, ab, a, b, m, n) /\ Spliced(Nat, cd, c, d, m, n)
      BY <2>1, <2>2, <2>3, Zenon
    <2> QED BY <2>1, <2>4, Zenon DEF Spliced
  <1>2. /\ p \in Seq(Entry) /\ q \in Seq(Entry) /\ z \in Seq(Entry) /\ Len(p) = m /\ Len(q) = n /\ Len(z) = m + n
    <2> HIDE DEF ab, cd
    <2> QED BY <1>0, <1>1
  <1>3. DOMAIN a = 1 .. m /\ DOMAIN b = 1 .. n /\ DOMAIN ab = 1 .. m + n
    BY <1>1
  <1> HIDE DEF ab, cd, m, n
  <1>4. /\ \A i \in 1 .. m : p[i] = [key |-> a[i], value |-> c[i]]
        /\ \A i \in 1 .. n : q[i] = [key |-> b[i], value |-> d[i]]
        /\ \A i \in 1 .. m + n : z[i] = [key |-> ab[i], value |-> cd[i]]
    BY <1>3, Zenon DEF Pairs
  <1> HIDE DEF p, q, z
  <1>5. /\ Cat(p, q) \in Seq(Entry) /\ Len(Cat(p, q)) = m + n
        /\ (\A i \in 1 .. m : Cat(p, q)[i] = p[i]) /\ (\A i \in 1 .. n : Cat(p, q)[m + i] = q[i])
    <2>1. \A x, y \in Seq(Entry) : \A k, l \in Nat : Len(x) = k /\ Len(y) = l => Spliced(Entry, Cat(x, y), x, y, k, l)
      BY AllCat, Zenon
    <2>2. Spliced(Entry, Cat(p, q), p, q, m, n)
      BY <1>1, <1>2, <2>1, Zenon
    <2> QED BY <2>2, Zenon DEF Spliced
  <1>6. ASSUME NEW i \in 1 .. Len(z) PROVE z[i] = Cat(p, q)[i]
    <2>1. i \in 1 .. m \/ (i - m \in 1 .. n /\ m + (i - m) = i)
      <3>1. i \in 1 .. m + n /\ m \in Nat /\ n \in Nat
        BY <1>1, <1>2
      <3> QED BY <3>1
    <2>2. i \in 1 .. m + n
      BY <1>2
    <2>3. CASE i \in 1 .. m
      <3>1. Cat(p, q)[i] = [key |-> a[i], value |-> c[i]]
        BY <1>4, <1>5, <2>3, Zenon
      <3>2. z[i] = [key |-> ab[i], value |-> cd[i]]
        BY <1>4, <2>2, Zenon
      <3> QED BY <1>1, <2>3, <3>1, <3>2, Zenon
    <2>4. ASSUME NEW j \in 1 .. n, m + j = i PROVE z[i] = Cat(p, q)[i]
      <3>0. Cat(p, q)[m + j] = [key |-> b[j], value |-> d[j]]
        BY <1>4, <1>5, Zenon
      <3>1. Cat(p, q)[m + j] = [key |-> ab[m + j], value |-> cd[m + j]]
        BY <1>1, <3>0, Zenon
      <3> QED BY <1>4, <2>2, <2>4, <3>1, Zenon
    <2> QED BY <2>1, <2>3, <2>4, Zenon
  <1>7. z = Cat(p, q)
    BY <1>2, <1>5, <1>6, SameList
  <1> QED BY <1>2, <1>7 DEF p, q, z, ab, cd, m, n

\* A leaf of a tree, by its entries.
LeafOK(n, low, high, mode) ==
  /\ n \in Nodes[0] /\ low \in Nat /\ high \in Nat /\ mode \in Modes /\ Len(n.children) = Len(n.keys)
  /\ InOrder(Under(n)) /\ \A x \in ToSet(Under(n)) : low <= x.key /\ x.key <= high
  /\ mode = "strict" => KeysOnce(Under(n))

\* A leaf is a tree by its entries, if it is not overfull.
LEMMA LeafIs ==
  \A n, low, high, mode : Tree(0, n, low, high, mode) <=> LeafOK(n, low, high, mode) /\ Len(n.keys) < Order
  <1> SUFFICES ASSUME NEW n \in Nodes[0], NEW low \in Nat, NEW high \in Nat, NEW mode \in Modes
               PROVE  /\ Sorted(n.keys, low, high) <=>
                            InOrder(Under(n)) /\ \A x \in ToSet(Under(n)) : low <= x.key /\ x.key <= high
                      /\ InOrder(Under(n)) => (Ascending(mode, n.keys) <=> (mode = "strict" => KeysOnce(Under(n))))
    <2>1. \A n, low, high, mode : Tree(0, n, low, high, mode) <=>
       /\ n \in Nodes[0] /\ low \in Nat /\ high \in Nat /\ mode \in Modes
       /\ Len(n.keys) < Order /\ Len(n.children) = Len(n.keys) /\ Sorted(n.keys, low, high) /\ Ascending(mode, n.keys)
      BY TreeIs
    <2>2. ASSUME NEW n, NEW low, NEW high, NEW mode
          PROVE  Tree(0, n, low, high, mode) <=> LeafOK(n, low, high, mode) /\ Len(n.keys) < Order
      <3>1. Tree(0, n, low, high, mode) <=>
              /\ n \in Nodes[0] /\ low \in Nat /\ high \in Nat /\ mode \in Modes
              /\ Len(n.keys) < Order /\ Len(n.children) = Len(n.keys) /\ Sorted(n.keys, low, high) /\ Ascending(mode, n.keys)
        BY <2>1, Zenon
      <3>2. CASE n \in Nodes[0] /\ low \in Nat /\ high \in Nat /\ mode \in Modes
        BY <3>1, <3>2, Zenon DEF LeafOK
      <3>3. CASE ~(n \in Nodes[0] /\ low \in Nat /\ high \in Nat /\ mode \in Modes)
        BY <3>1, <3>3, Zenon DEF LeafOK
      <3> QED BY <3>2, <3>3, Zenon
    <2> QED BY <2>2, Zenon
  <1> DEFINE u == Under(n)
             k == n.keys
  <1>1. u = Pairs(k, n.children) /\ k \in Seq(Nat)
    BY UnderIs, NodeFields
  <1>2. DOMAIN u = DOMAIN k /\ \A j \in DOMAIN k : u[j].key = k[j]
    BY <1>1 DEF Pairs
  <1>3. \A j \in DOMAIN k : k[j] \in Nat /\ j \in Nat
    BY <1>1
  <1> HIDE DEF u, k
  <1>4. (\A x \in ToSet(u) : low <= x.key /\ x.key <= high) <=> \A j \in DOMAIN k : low <= k[j] /\ k[j] <= high
    BY <1>2 DEF ToSet
  <1>5. InOrder(u) <=> \A i, j \in DOMAIN k : i < j => k[i] <= k[j]
    BY <1>2 DEF InOrder
  <1>6. InOrder(u) => (Ascending("strict", k) <=> KeysOnce(u))
    <2>1. KeysOnce(u) <=> \A i, j \in DOMAIN k : k[i] = k[j] => i = j
      BY <1>2 DEF KeysOnce
    <2>2. Ascending("strict", k) <=> \A i, j \in DOMAIN k : i < j => k[i] < k[j]
      BY DEF Ascending
    <2>3. ASSUME \A i, j \in DOMAIN k : i < j => k[i] < k[j], NEW i \in DOMAIN k, NEW j \in DOMAIN k, k[i] = k[j] PROVE i = j
      <3>1. i < j \/ j < i \/ i = j
        BY <1>3
      <3> QED BY <1>3, <2>3, <3>1
    <2>4. ASSUME InOrder(u), \A i, j \in DOMAIN k : k[i] = k[j] => i = j, NEW i \in DOMAIN k, NEW j \in DOMAIN k, i < j PROVE k[i] < k[j]
      <3>1. k[i] <= k[j] /\ k[i] # k[j]
        BY <1>3, <1>5, <2>4
      <3> QED BY <1>3, <3>1
    <2> QED BY <2>1, <2>2, <2>3, <2>4
  <1>7. mode # "strict" => Ascending(mode, k)
    BY DEF Ascending
  <1>8. Sorted(k, low, high) <=> (\A j \in DOMAIN k : low <= k[j] /\ k[j] <= high) /\ \A i, j \in DOMAIN k : i < j => k[i] <= k[j]
    BY DEF Sorted
  <1> QED BY <1>4, <1>5, <1>6, <1>7, <1>8 DEF u, k

--------------------------------------------------------------------------------
(* What becomes of a node that got longer.                                  *)

\* Two elements are one and another.
LEMMA PairIs ==
  ASSUME NEW E, NEW x \in E, NEW y \in E
  PROVE  <<x, y>> = Cat(<<x>>, <<y>>) /\ <<x>> \in Seq(E) /\ <<y>> \in Seq(E)
  <1> DEFINE a == <<x>>
             b == <<y>>
             c == <<x, y>>
  <1>1. /\ a \in Seq(E) /\ Len(a) = 1 /\ a[1] = x /\ b \in Seq(E) /\ Len(b) = 1 /\ b[1] = y
        /\ c \in Seq(E) /\ Len(c) = 2 /\ c[1] = x /\ c[2] = y
    OBVIOUS
  <1> HIDE DEF a, b, c
  <1>2. Cat(a, b) \in Seq(E) /\ Len(Cat(a, b)) = 2 /\ Cat(a, b)[1] = x /\ Cat(a, b)[2] = y
    <2>1. Spliced(E, Cat(a, b), a, b, 1, 1)
      BY <1>1, AllCat, Zenon
    <2>2. 1 \in 1 .. 1 /\ 1 + 1 = 2
      OBVIOUS
    <2>3. Cat(a, b) \in Seq(E) /\ Len(Cat(a, b)) = 1 + 1
      BY <2>1, Zenon DEF Spliced
    <2>4. Cat(a, b)[1] = x
      BY <1>1, <2>1, <2>2, Zenon DEF Spliced
    <2>5. Cat(a, b)[1 + 1] = y
      BY <1>1, <2>1, <2>2, Zenon DEF Spliced
    <2> QED BY <2>2, <2>3, <2>4, <2>5
  <1>3. c = Cat(a, b)
    BY <1>1, <1>2, SameList
  <1> QED BY <1>1, <1>3 DEF a, b, c

\* One tree, and two trees with a key between them.
LEMMA RowOfTrees ==
  /\ \A h \in Nat : \A n, low, high, mode : Tree(h, n, low, high, mode) =>
       Inside(h, <<>>, <<n>>, low, high, mode) /\ UnderAll(<<n>>) = Under(n)
  /\ \A h \in Nat : \A l, r, k, low, high, mode :
       Tree(h, l, low, k, mode) /\ Tree(h, r, k, high, mode) /\ low <= k /\ k <= high /\ Apart(mode, k, l, r) =>
         Inside(h, <<k>>, <<l, r>>, low, high, mode) /\ UnderAll(<<l, r>>) = Cat(Under(l), Under(r))
  <1>1. ASSUME NEW h \in Nat, NEW n, NEW low, NEW high, NEW mode, Tree(h, n, low, high, mode)
        PROVE  Inside(h, <<>>, <<n>>, low, high, mode) /\ UnderAll(<<n>>) = Under(n)
    <2> DEFINE N == Nodes[h]
               c == <<n>>
               k == <<>>
    <2>1. n \in N /\ low \in Nat /\ high \in Nat /\ mode \in Modes
      BY <1>1, TreeIs
    <2> HIDE DEF N
    <2>2. c \in Seq(N) /\ k \in Seq(Nat) /\ Len(c) = Len(k) + 1 /\ DOMAIN c = {1} /\ c[1] = n /\ DOMAIN k = {} /\ Len(k) = 0
      BY <2>1
    <2>3. UnderAll(c) = Under(n)
      BY <2>1, <2>2, UnderAllConcat DEF N
    <2> HIDE DEF c, k
    <2>4. Sorted(k, low, high)
      BY <2>2 DEF Sorted
    <2>5. Lo(k, 1, low) = low /\ Hi(k, 1, high) = high
      BY <2>2 DEF Lo, Hi
    <2>6. Inside(h, k, c, low, high, mode)
      BY <1>1, <2>1, <2>2, <2>4, <2>5 DEF Inside, N
    <2> QED BY <2>3, <2>6 DEF c, k
  <1>2. ASSUME NEW h \in Nat, NEW l, NEW r, NEW k, NEW low, NEW high, NEW mode,
               Tree(h, l, low, k, mode), Tree(h, r, k, high, mode), low <= k, k <= high, Apart(mode, k, l, r)
        PROVE  Inside(h, <<k>>, <<l, r>>, low, high, mode) /\ UnderAll(<<l, r>>) = Cat(Under(l), Under(r))
    <2> DEFINE N == Nodes[h]
               c == <<l, r>>
               s == <<k>>
    <2>1. l \in N /\ r \in N /\ low \in Nat /\ high \in Nat /\ k \in Nat /\ mode \in Modes
      BY <1>2, TreeIs
    <2> HIDE DEF N
    <2>2. /\ c \in Seq(N) /\ s \in Seq(Nat) /\ Len(c) = Len(s) + 1 /\ DOMAIN c = {1, 2} /\ c[1] = l /\ c[2] = r
          /\ DOMAIN s = {1} /\ Len(s) = 1 /\ s[1] = k
      BY <2>1
    <2>3. UnderAll(c) = Cat(Under(l), Under(r))
      <3>1. c = <<l>> \o <<r>> /\ <<l>> \in Seq(N) /\ <<r>> \in Seq(N)
        BY <2>1, PairIs, Zenon DEF Cat
      <3>2. UnderAll(<<l>> \o <<r>>) = UnderAll(<<l>>) \o UnderAll(<<r>>) /\ UnderAll(<<l>>) = Under(l) /\ UnderAll(<<r>>) = Under(r)
        <4> DEFINE x == <<l>>
                   y == <<r>>
        <4>1. x \in Seq(N) /\ y \in Seq(N)
          BY <3>1
        <4>2. UnderAll(x) = Under(l) /\ UnderAll(y) = Under(r)
          BY <2>1, <4>1, UnderAllConcat DEF N
        <4> HIDE DEF x, y
        <4>3. UnderAll(x \o y) = UnderAll(x) \o UnderAll(y)
          BY <4>1, UnderAllConcat DEF N
        <4> QED BY <4>2, <4>3 DEF x, y
      <3> QED BY <3>1, <3>2, Zenon DEF Cat
    <2> HIDE DEF c, s
    <2>4. Sorted(s, low, high)
      BY <1>2, <2>1, <2>2 DEF Sorted
    <2>5. Lo(s, 1, low) = low /\ Hi(s, 1, high) = k /\ Lo(s, 2, low) = k /\ Hi(s, 2, high) = high
      <3>1. 2 - 1 = 1 /\ 1 + 1 = 2 /\ 1 # 2
        OBVIOUS
      <3> QED BY <2>2, <3>1, Zenon DEF Lo, Hi
    <2>6. \A i \in DOMAIN c : Tree(h, c[i], Lo(s, i, low), Hi(s, i, high), mode)
      BY <1>2, <2>2, <2>5
    <2>7. \A i \in DOMAIN s : Apart(mode, s[i], c[i], c[i + 1])
      BY <1>2, <2>2
    <2>8. Inside(h, s, c, low, high, mode)
      BY <2>1, <2>2, <2>4, <2>6, <2>7 DEF Inside, N
    <2> QED BY <2>3, <2>8 DEF c, s
  <1> QED BY <1>1, <1>2

\* A list and the halves at its middle.
LEMMA Middle ==
  ASSUME NEW len \in Nat, ~ (len <= Order - 1), len <= Order, NEW mid, mid = len \div 2
  PROVE  /\ mid \in 1 .. len - 1 /\ mid + 1 \in 1 .. len /\ mid < Order /\ len - mid < Order /\ len - (mid + 1) < Order
         /\ len - mid >= 1
  BY OrderAssumption

\* A leaf that is overfull becomes two.
LEMMA SplitLeafMeans ==
  ASSUME NEW n, NEW low, NEW high, NEW mode, LeafOK(n, low, high, mode),
         ~ (Len(n.keys) <= Order - 1), Len(n.keys) <= Order
  PROVE  /\ Inside(0, SplitLeaf(n).keys, SplitLeaf(n).children, low, high, mode)
         /\ Len(SplitLeaf(n).keys) = 1 /\ UnderAll(SplitLeaf(n).children) = Under(n)
  <1> DEFINE len == Len(n.keys)
             mid == len \div 2
             k == n.keys[mid + 1]
             kl == FirstOf(n.keys, mid)
             kr == After(n.keys, mid)
             cl == FirstOf(n.children, mid)
             cr == After(n.children, mid)
             l == Leaf(kl, cl)
             r == Leaf(kr, cr)
             a == Under(l)
             b == Under(r)
  <1>1. /\ n \in Nodes[0] /\ low \in Nat /\ high \in Nat /\ mode \in Modes /\ Len(n.children) = len
        /\ InOrder(Under(n)) /\ \A x \in ToSet(Under(n)) : low <= x.key /\ x.key <= high
        /\ mode = "strict" => KeysOnce(Under(n))
    BY DEF LeafOK
  <1>2. n.keys \in Seq(Nat) /\ n.children \in Seq(Nat) /\ len \in Nat
    BY <1>1, NodeFields
  <1>3. mid \in 1 .. len - 1 /\ mid + 1 \in 1 .. len /\ mid < Order /\ len - mid < Order /\ len - mid >= 1
    BY <1>2, Middle
  <1> HIDE DEF mid
  <1>4. SplitLeaf(n) = [keys |-> <<k>>, children |-> <<l, r>>]
    BY <1>1 DEF SplitLeaf, mid, FirstOf, After
  <1>5. /\ n.keys = Cat(kl, kr) /\ n.children = Cat(cl, cr)
        /\ kl \in Seq(Nat) /\ kr \in Seq(Nat) /\ cl \in Seq(Nat) /\ cr \in Seq(Nat)
        /\ Len(kl) = mid /\ Len(cl) = mid /\ Len(kr) = len - mid /\ Len(cr) = len - mid
        /\ kr[1] = k
    <2>1. mid \in 1 .. len /\ mid \in Nat /\ 1 \in 1 .. len - mid
      BY <1>2, <1>3
    <2>2. Halved(Nat, n.keys, kl, kr, mid, len)
      BY <1>2, <2>1, AllHalves, Zenon
    <2>3. Halved(Nat, n.children, cl, cr, mid, len)
      BY <1>1, <1>2, <2>1, AllHalves, Zenon
    <2> HIDE DEF len, kl, kr, cl, cr
    <2> QED BY <2>1, <2>2, <2>3 DEF Halved
  <1> HIDE DEF len, kl, kr, cl, cr
  <1>6. l \in Nodes[0] /\ r \in Nodes[0] /\ l.keys = kl /\ r.keys = kr /\ l.children = cl /\ r.children = cr
    BY <1>5, NodeFields DEF Leaf
  <1> HIDE DEF l, r
  <1>7. a = Pairs(kl, cl) /\ b = Pairs(kr, cr) /\ Under(n) = Pairs(n.keys, n.children)
    BY <1>1, <1>6, UnderIs
  <1>8. Under(n) = Cat(a, b) /\ a \in Seq(Entry) /\ b \in Seq(Entry) /\ Len(a) = mid /\ Len(b) = len - mid
    <2>1. /\ Pairs(Cat(kl, kr), Cat(cl, cr)) = Cat(Pairs(kl, cl), Pairs(kr, cr))
          /\ Pairs(kl, cl) \in Seq(Entry) /\ Pairs(kr, cr) \in Seq(Entry)
          /\ Len(Pairs(kl, cl)) = Len(kl) /\ Len(Pairs(kr, cr)) = Len(kr)
      BY <1>5, PairsCat
    <2> QED BY <1>5, <1>7, <2>1, Zenon
  <1>9. a[1] \in ToSet(a) /\ b[1] \in ToSet(b) /\ b[1].key = k /\ 1 \in DOMAIN b
    <2>1. 1 \in DOMAIN a /\ 1 \in DOMAIN b
      BY <1>3, <1>8
    <2>2. 1 \in DOMAIN kr
      BY <1>3, <1>5
    <2>3. b[1].key = k
      BY <1>5, <1>7, <2>2 DEF Pairs
    <2> QED BY <2>1, <2>3 DEF ToSet
  <1> HIDE DEF a, b, k
  <1>10. /\ InOrder(a) /\ InOrder(b) /\ \A x \in ToSet(a), y \in ToSet(b) : x.key <= y.key
         /\ mode = "strict" => KeysOnce(a) /\ KeysOnce(b) /\ \A x \in ToSet(a), y \in ToSet(b) : x.key # y.key
    BY <1>1, <1>8, InOrderConcat
  <1>11. ToSet(Under(n)) = ToSet(a) \cup ToSet(b)
    BY <1>8, ConcatSet
  <1>12. (\A x \in ToSet(a) : x.key \in Nat) /\ (\A x \in ToSet(b) : x.key \in Nat) /\ k \in Nat /\ low <= k /\ k <= high
    <2>1. \A x \in Entry : x.key \in Nat
      BY DEF Entry
    <2>2. \A x \in ToSet(a) \cup ToSet(b) : x \in Entry
      BY <1>8 DEF ToSet
    <2> QED BY <1>1, <1>9, <1>11, <2>1, <2>2
  <1>13. \A x \in ToSet(b) : k <= x.key
    <2> SUFFICES ASSUME NEW j \in DOMAIN b PROVE k <= b[j].key
      BY DEF ToSet
    <2>1. b[j] \in ToSet(b) /\ (j = 1 \/ 1 < j)
      BY <1>8 DEF ToSet
    <2> QED BY <1>9, <1>10, <1>12, <2>1 DEF InOrder
  <1>14. Tree(0, l, low, k, mode)
    <2>1. LeafOK(l, low, k, mode)
      BY <1>1, <1>5, <1>6, <1>9, <1>10, <1>11, <1>12 DEF LeafOK, a
    <2> QED BY <1>3, <1>5, <1>6, <2>1, LeafIs
  <1>15. Tree(0, r, k, high, mode)
    <2>1. LeafOK(r, k, high, mode)
      BY <1>1, <1>5, <1>6, <1>10, <1>11, <1>12, <1>13 DEF LeafOK, b
    <2> QED BY <1>3, <1>5, <1>6, <2>1, LeafIs
  <1>16. Apart(mode, k, l, r)
    <2>1. KeysUnder(l) = {x.key : x \in ToSet(a)} /\ KeysUnder(r) = {x.key : x \in ToSet(b)}
      BY DEF KeysUnder, a, b
    <2>2. mode = "strict" => \A x \in ToSet(a) : x.key < k
      BY <1>9, <1>10, <1>12
    <2> QED BY <1>9, <2>1, <2>2 DEF Apart
  <1>17. Inside(0, <<k>>, <<l, r>>, low, high, mode) /\ UnderAll(<<l, r>>) = Cat(a, b)
    <2>1. 0 \in Nat
      OBVIOUS
    <2> QED BY <1>12, <1>14, <1>15, <1>16, <2>1, RowOfTrees, Zenon DEF a, b
  <1> QED BY <1>4, <1>8, <1>17 DEF k

\* A node of a row of nodes.
LEMMA InternalIs ==
  ASSUME NEW h \in Nat, NEW keys, NEW children, NEW low, NEW high, NEW mode, Inside(h, keys, children, low, high, mode)
  PROVE  /\ Internal(keys, children) \in Nodes[h + 1] /\ Internal(keys, children).height = h + 1
         /\ Internal(keys, children).keys = keys /\ Internal(keys, children).children = children
         /\ Under(Internal(keys, children)) = UnderAll(children)
         /\ Len(keys) < Order => Tree(h + 1, Internal(keys, children), low, high, mode)
  <1> DEFINE n == Internal(keys, children)
             g == h + 1
  <1>1. keys \in Seq(Nat) /\ children \in Seq(Nodes[h]) /\ Len(children) > 0
    BY DEF Inside
  <1>2. n \in Nodes[g] /\ n = [height |-> g, keys |-> keys, children |-> children]
    BY <1>1, NodeFields, Zenon
  <1>3. n.height = g /\ n.keys = keys /\ n.children = children
    BY <1>2
  <1>4. Under(n) = UnderAll(n.children)
    BY <1>2, UnderIs, Zenon
  <1>5. n \in Nodes[h + 1] /\ Len(n.keys) < Order /\ Inside(h, n.keys, n.children, low, high, mode) => Tree(h + 1, n, low, high, mode)
    BY TreeIs, Zenon
  <1> HIDE DEF n
  <1> QED BY <1>2, <1>3, <1>4, <1>5 DEF n

\* A node that is overfull becomes two, and the key in its middle.
LEMMA SplitInternalMeans ==
  ASSUME NEW h \in Nat, NEW keys, NEW children, NEW low, NEW high, NEW mode, Inside(h, keys, children, low, high, mode),
         ~ (Len(keys) <= Order - 1), Len(keys) <= Order, NEW n, n = Internal(keys, children)
  PROVE  /\ Inside(h + 1, SplitInternal(n).keys, SplitInternal(n).children, low, high, mode)
         /\ Len(SplitInternal(n).keys) = 1 /\ UnderAll(SplitInternal(n).children) = UnderAll(children)
  <1> DEFINE len == Len(keys)
             mid == len \div 2
             m == mid + 1
             k == keys[m]
             kl == Before(keys, m)
             kr == After(keys, m)
             cl == FirstOf(children, m)
             cr == After(children, m)
             l == Internal(kl, cl)
             r == Internal(kr, cr)
  <1>1. keys \in Seq(Nat) /\ children \in Seq(Nodes[h]) /\ len \in Nat /\ Len(children) = len + 1 /\ low \in Nat /\ high \in Nat
        /\ Sorted(keys, low, high) /\ mode \in Modes
    BY DEF Inside
  <1>2. mid \in 1 .. len - 1 /\ m \in 1 .. len /\ mid < Order /\ len - m < Order /\ m \in DOMAIN keys /\ m - 1 = mid /\ mid + 2 = m + 1
    <2>1. /\ mid \in 1 .. len - 1 /\ mid + 1 \in 1 .. len /\ mid < Order
          /\ len - mid < Order /\ len - (mid + 1) < Order /\ len - mid >= 1
      BY <1>1, Middle, Zenon
    <2>2. len \in Nat /\ DOMAIN keys = 1 .. len
      BY <1>1
    <2> HIDE DEF mid, len
    <2> QED BY <2>1, <2>2
  <1>3. n.keys = keys /\ n.children = children
    BY InternalIs
  <1>4. SplitInternal(n) = [keys |-> <<k>>, children |-> <<l, r>>]
    BY <1>2, <1>3 DEF SplitInternal, Before, FirstOf, After
  <1>5. Len(kl) = mid /\ Len(kr) = len - m
    <2>1. kl = FirstOf(keys, mid)
      BY <1>2 DEF Before, FirstOf
    <2>2. mid \in 1 .. len /\ mid \in Nat /\ m \in Nat
      BY <1>1, <1>2
    <2>3. Halved(Nat, keys, FirstOf(keys, mid), After(keys, mid), mid, len)
      BY <1>1, <2>2, AllHalves, Zenon
    <2>4. Halved(Nat, keys, FirstOf(keys, m), kr, m, len)
      BY <1>1, <1>2, <2>2, AllHalves, Zenon
    <2> QED BY <2>1, <2>3, <2>4, Zenon DEF Halved
  <1>6. /\ Inside(h, kl, cl, low, k, mode) /\ Inside(h, kr, cr, k, high, mode)
        /\ UnderAll(children) = Cat(UnderAll(cl), UnderAll(cr))
        /\ mode = "strict" => \A x \in ToSet(UnderAll(cl)) : x.key < k
        /\ mode = "tight" => k \in {x.key : x \in ToSet(UnderAll(cr))} /\ ToSet(UnderAll(cl)) # {}
    BY <1>2, RowSplit
  <1>7. k \in Nat /\ low <= k /\ k <= high
    BY <1>1, <1>2 DEF Sorted
  <1> HIDE DEF len, mid, m, kl, kr, cl, cr, k
  <1>8. Tree(h + 1, l, low, k, mode) /\ Under(l) = UnderAll(cl)
    BY <1>2, <1>5, <1>6, InternalIs
  <1>9. Tree(h + 1, r, k, high, mode) /\ Under(r) = UnderAll(cr)
    BY <1>2, <1>5, <1>6, InternalIs
  <1> HIDE DEF l, r
  <1>10. Apart(mode, k, l, r)
    BY <1>6, <1>8, <1>9 DEF Apart, KeysUnder
  <1>11. Inside(h + 1, <<k>>, <<l, r>>, low, high, mode) /\ UnderAll(<<l, r>>) = Cat(Under(l), Under(r))
    <2>1. h + 1 \in Nat
      OBVIOUS
    <2> DEFINE g == h + 1
    <2>2. Tree(g, l, low, k, mode) /\ Tree(g, r, k, high, mode) /\ g \in Nat
      BY <1>8, <1>9, <2>1, Zenon
    <2> HIDE DEF g
    <2>3. Inside(g, <<k>>, <<l, r>>, low, high, mode) /\ UnderAll(<<l, r>>) = Cat(Under(l), Under(r))
      BY <1>7, <1>10, <2>2, RowOfTrees, ZenonT(40)
    <2> QED BY <2>3, Zenon DEF g
  <1> QED BY <1>4, <1>6, <1>8, <1>9, <1>11

\* What becomes of a tree: one or two that stand in its place and hold the entries u.
Became(h, p, low, high, mode, u) ==
  Inside(h, p.keys, p.children, low, high, mode) /\ Len(p.keys) <= 1 /\ UnderAll(p.children) = u

\* A node that may be overfull by one keeps its entries, whole or split.
LEMMA SplitMeans ==
  /\ \A n, low, high, mode : LeafOK(n, low, high, mode) /\ Len(n.keys) <= Order =>
       Became(0, Split(n), low, high, mode, Under(n))
  /\ \A h \in Nat : \A keys, children, low, high, mode : Inside(h, keys, children, low, high, mode) /\ Len(keys) <= Order =>
       Became(h + 1, Split(Internal(keys, children)), low, high, mode, UnderAll(children))
  <1>1. ASSUME NEW h \in Nat, NEW n, NEW low, NEW high, NEW mode, Tree(h, n, low, high, mode)
        PROVE  Became(h, Whole(n), low, high, mode, Under(n))
    <2>1. Inside(h, <<>>, <<n>>, low, high, mode) /\ UnderAll(<<n>>) = Under(n)
      BY <1>1, RowOfTrees, Zenon
    <2>2. Whole(n).keys = <<>> /\ Whole(n).children = <<n>> /\ Len(<<>>) <= 1
      BY DEF Whole
    <2> QED BY <2>1, <2>2 DEF Became
  <1>2. ASSUME NEW n, NEW low, NEW high, NEW mode, LeafOK(n, low, high, mode), Len(n.keys) <= Order
        PROVE  Became(0, Split(n), low, high, mode, Under(n))
    <2>1. n.height = 0 /\ n.keys \in Seq(Nat)
      BY <1>2, NodeFields DEF LeafOK
    <2>2. CASE Len(n.keys) <= Order - 1
      <3>1. Tree(0, n, low, high, mode)
        <4>1. Len(n.keys) < Order
          BY <2>1, <2>2, OrderAssumption
        <4> QED BY <1>2, <4>1, LeafIs, Zenon
      <3>2. Split(n) = Whole(n)
        BY <2>2 DEF Split
      <3>3. 0 \in Nat
        OBVIOUS
      <3> QED BY <1>1, <3>1, <3>2, <3>3, Zenon
    <2>3. CASE ~ (Len(n.keys) <= Order - 1)
      <3>1. Split(n) = SplitLeaf(n)
        BY <2>1, <2>3 DEF Split
      <3>2. /\ Inside(0, SplitLeaf(n).keys, SplitLeaf(n).children, low, high, mode)
            /\ Len(SplitLeaf(n).keys) = 1 /\ UnderAll(SplitLeaf(n).children) = Under(n)
        BY <1>2, <2>3, SplitLeafMeans
      <3> QED BY <3>1, <3>2 DEF Became
    <2> QED BY <2>2, <2>3
  <1>3. ASSUME NEW h \in Nat, NEW keys, NEW children, NEW low, NEW high, NEW mode, Inside(h, keys, children, low, high, mode), Len(keys) <= Order
        PROVE  Became(h + 1, Split(Internal(keys, children)), low, high, mode, UnderAll(children))
    <2> DEFINE n == Internal(keys, children)
    <2>1. /\ n.height = h + 1 /\ n.keys = keys /\ Under(n) = UnderAll(children)
          /\ Len(keys) < Order => Tree(h + 1, n, low, high, mode)
      BY <1>3, InternalIs
    <2>2. Len(keys) \in Nat
      BY <1>3 DEF Inside
    <2>3. CASE Len(keys) <= Order - 1
      <3>1. Tree(h + 1, n, low, high, mode)
        BY <2>1, <2>2, <2>3, OrderAssumption
      <3>2. Split(n) = Whole(n)
        BY <2>1, <2>3 DEF Split
      <3>3. h + 1 \in Nat
        OBVIOUS
      <3> QED BY <1>1, <2>1, <3>1, <3>2, <3>3, Zenon
    <2>4. CASE ~ (Len(keys) <= Order - 1)
      <3>1. Split(n) = SplitInternal(n)
        <4>1. h + 1 # 0
          OBVIOUS
        <4> QED BY <2>1, <2>4, <4>1, Zenon DEF Split
      <3>2. /\ Inside(h + 1, SplitInternal(n).keys, SplitInternal(n).children, low, high, mode)
            /\ Len(SplitInternal(n).keys) = 1 /\ UnderAll(SplitInternal(n).children) = UnderAll(children)
        BY <1>3, <2>4, SplitInternalMeans
      <3> QED BY <3>1, <3>2 DEF Became
    <2> QED BY <2>3, <2>4
  <1> QED BY <1>2, <1>3

--------------------------------------------------------------------------------
(* Insertion.                                                               *)

GF == INSTANCE FoldTheorems
        WITH Op <- LAMBDA c, x, h :
          [node \in Nodes[h] |->
             IF h = 0
               THEN LET i == Place(node.keys, c.key, FALSE)
                    IN Split(Leaf(InsertAt(node.keys, i, c.key), InsertAt(node.children, i, c.value)))
               ELSE LET i == Place(node.keys, c.key, TRUE)
                    IN Split(Adopted(node, i, x[node.children[i]]))]

\* Induction, for the theorems about the folds of GF.
LEMMA GFInductive == GF!Inductive
  BY NaturalInduction DEF GF!Inductive

\* insert, node by node: a leaf takes the entry, any other node what became of a child.
LEMMA GrownWith ==
  ASSUME NEW c
  PROVE  /\ \A n \in Nodes[0] : Grown(n, c.key, c.value) =
              Split(Leaf(InsertAt(n.keys, Place(n.keys, c.key, FALSE), c.key), InsertAt(n.children, Place(n.keys, c.key, FALSE), c.value)))
         /\ \A h \in Nat : \A n \in Nodes[h + 1] : \A i \in DOMAIN n.children : i = Place(n.keys, c.key, TRUE) =>
              Grown(n, c.key, c.value) = Split(Adopted(n, i, Grown(n.children[i], c.key, c.value)))
  <1> DEFINE grown == CHOOSE f : f = [h \in Nat |-> [node \in Nodes[h] |->
           IF h = 0
             THEN LET i == Place(node.keys, c.key, FALSE)
                  IN Split(Leaf(InsertAt(node.keys, i, c.key), InsertAt(node.children, i, c.value)))
             ELSE LET i == Place(node.keys, c.key, TRUE)
                  IN Split(Adopted(node, i, f[h - 1][node.children[i]]))]]
  <1>1. \E f : f = [h \in Nat |-> [node \in Nodes[h] |->
           IF h = 0
             THEN LET i == Place(node.keys, c.key, FALSE)
                  IN Split(Leaf(InsertAt(node.keys, i, c.key), InsertAt(node.children, i, c.value)))
             ELSE LET i == Place(node.keys, c.key, TRUE)
                  IN Split(Adopted(node, i, f[h - 1][node.children[i]]))]]
    <2> DEFINE T(x, h) == [node \in Nodes[h] |->
           IF h = 0
             THEN LET i == Place(node.keys, c.key, FALSE)
                  IN Split(Leaf(InsertAt(node.keys, i, c.key), InsertAt(node.children, i, c.value)))
             ELSE LET i == Place(node.keys, c.key, TRUE)
                  IN Split(Adopted(node, i, x[node.children[i]]))]
    <2>1. \A x, y : T(x, 0) = T(y, 0)
      OBVIOUS
    <2>2. \E f : f = [h \in Nat |-> T(f[h - 1], h)]
      BY <2>1, GF!RecursionExists, GFInductive
    <2> QED BY <2>2, Zenon
  <1>4. grown = [h \in Nat |-> [node \in Nodes[h] |->
           IF h = 0
             THEN LET i == Place(node.keys, c.key, FALSE)
                  IN Split(Leaf(InsertAt(node.keys, i, c.key), InsertAt(node.children, i, c.value)))
             ELSE LET i == Place(node.keys, c.key, TRUE)
                  IN Split(Adopted(node, i, grown[h - 1][node.children[i]]))]]
    BY <1>1, Zenon
  <1>5. \A n : Grown(n, c.key, c.value) = grown[n.height][n]
    BY DEF Grown
  <1> HIDE DEF grown
  <1>6. ASSUME NEW h \in Nat, NEW n \in Nodes[h]
        PROVE  grown[h][n] =
           IF h = 0
             THEN LET i == Place(n.keys, c.key, FALSE)
                  IN Split(Leaf(InsertAt(n.keys, i, c.key), InsertAt(n.children, i, c.value)))
             ELSE LET i == Place(n.keys, c.key, TRUE)
                  IN Split(Adopted(n, i, grown[h - 1][n.children[i]]))
    <2>1. grown[h] = [node \in Nodes[h] |->
           IF h = 0
             THEN LET i == Place(node.keys, c.key, FALSE)
                  IN Split(Leaf(InsertAt(node.keys, i, c.key), InsertAt(node.children, i, c.value)))
             ELSE LET i == Place(node.keys, c.key, TRUE)
                  IN Split(Adopted(node, i, grown[h - 1][node.children[i]]))]
      BY <1>4, Zenon
    <2> QED BY <2>1, Zenon
  <1>7. ASSUME NEW n \in Nodes[0]
        PROVE  Grown(n, c.key, c.value) =
                 Split(Leaf(InsertAt(n.keys, Place(n.keys, c.key, FALSE), c.key), InsertAt(n.children, Place(n.keys, c.key, FALSE), c.value)))
    <2>1. n.height = 0 /\ 0 \in Nat
      BY NodeFields
    <2> QED BY <1>5, <1>6, <2>1, Zenon
  <1>8. ASSUME NEW h \in Nat, NEW n \in Nodes[h + 1], NEW i \in DOMAIN n.children, i = Place(n.keys, c.key, TRUE)
        PROVE  Grown(n, c.key, c.value) = Split(Adopted(n, i, Grown(n.children[i], c.key, c.value)))
    <2> DEFINE g == h + 1
    <2>1. g \in Nat /\ g # 0 /\ g - 1 = h /\ n.height = g
      BY NodeFields
    <2>2. n.children[i].height = h
      <3>1. n.children \in Seq(Nodes[h])
        BY NodeFields
      <3>2. n.children[i] \in Nodes[h]
        BY <3>1
      <3> QED BY <3>2, NodeFields
    <2>3. n \in Nodes[g]
      OBVIOUS
    <2> HIDE DEF g
    <2>4. grown[g][n] = Split(Adopted(n, i, grown[g - 1][n.children[i]]))
      BY <1>6, <1>8, <2>1, <2>3, Zenon
    <2> QED BY <1>5, <2>1, <2>2, <2>4, Zenon
  <1> QED BY <1>7, <1>8

\* The same of a key and a value.
LEMMA GrownIs ==
  ASSUME NEW key, NEW value
  PROVE  /\ \A n \in Nodes[0] : Grown(n, key, value) =
              Split(Leaf(InsertAt(n.keys, Place(n.keys, key, FALSE), key), InsertAt(n.children, Place(n.keys, key, FALSE), value)))
         /\ \A h \in Nat : \A n \in Nodes[h + 1] : \A i \in DOMAIN n.children : i = Place(n.keys, key, TRUE) =>
              Grown(n, key, value) = Split(Adopted(n, i, Grown(n.children[i], key, value)))
  <1> DEFINE c == [key |-> key, value |-> value]
  <1>1. c.key = key /\ c.value = value
    OBVIOUS
  <1> HIDE DEF c
  <1>2. /\ \A n \in Nodes[0] : Grown(n, c.key, c.value) =
              Split(Leaf(InsertAt(n.keys, Place(n.keys, c.key, FALSE), c.key), InsertAt(n.children, Place(n.keys, c.key, FALSE), c.value)))
        /\ \A h \in Nat : \A n \in Nodes[h + 1] : \A i \in DOMAIN n.children : i = Place(n.keys, c.key, TRUE) =>
              Grown(n, c.key, c.value) = Split(Adopted(n, i, Grown(n.children[i], c.key, c.value)))
    BY GrownWith
  <1> QED BY <1>1, <1>2

\* A node above the leaves.
Inner(n) == \E h \in Nat : n \in Nodes[h + 1]

\* The same, for one of these.
LEMMA GrownInside ==
  ASSUME NEW key, NEW value, NEW n, Inner(n), Place(n.keys, key, TRUE) \in DOMAIN n.children
  PROVE  Grown(n, key, value) = Split(Adopted(n, Place(n.keys, key, TRUE), Grown(n.children[Place(n.keys, key, TRUE)], key, value)))
  <1> DEFINE i == Place(n.keys, key, TRUE)
  <1>1. \A x, y : \A j \in DOMAIN n.children : j = Place(n.keys, x, TRUE) =>
          Grown(n, x, y) = Split(Adopted(n, j, Grown(n.children[j], x, y)))
    <2>1. PICK h \in Nat : n \in Nodes[h + 1]
      BY Zenon DEF Inner
    <2>2. ASSUME NEW x, NEW y, NEW j \in DOMAIN n.children, j = Place(n.keys, x, TRUE)
          PROVE  Grown(n, x, y) = Split(Adopted(n, j, Grown(n.children[j], x, y)))
      BY <2>1, <2>2, GrownIs, ZenonT(30)
    <2> QED BY <2>2, Zenon
  <1>2. i \in DOMAIN n.children /\ i = Place(n.keys, key, TRUE)
    OBVIOUS
  <1> HIDE DEF i
  <1>3. Grown(n, key, value) = Split(Adopted(n, i, Grown(n.children[i], key, value)))
    BY <1>1, <1>2, Zenon
  <1> QED BY <1>3 DEF i

\* A list and what is before and from a place in it.
Cut(E, s, l, r, i, n) ==
  /\ s = Cat(l, r) /\ l \in Seq(E) /\ r \in Seq(E) /\ Len(l) = i - 1 /\ Len(r) = (n + 1) - i
  /\ \A j \in 1 .. i - 1 : l[j] = s[j]
  /\ \A j \in 1 .. (n + 1) - i : r[j] = s[(i - 1) + j]

\* So is every list, at each of its places.
LEMMA AllCut ==
  \A E : \A s \in Seq(E), n \in Nat : \A i \in 1 .. n + 1 : Len(s) = n => Cut(E, s, Before(s, i), From(s, i), i, n)
  <1>1. ASSUME NEW E, NEW s \in Seq(E), NEW n \in Nat, NEW i \in 1 .. n + 1, Len(s) = n
        PROVE  Cut(E, s, Before(s, i), From(s, i), i, n)
    <2> DEFINE l == SubSeq(s, 1, i - 1)
               r == SubSeq(s, i, n)
    <2>1. /\ l \in Seq(E) /\ Len(l) = i - 1 /\ \A j \in 1 .. i - 1 : l[j] = s[j]
      BY <1>1
    <2>2. r \in Seq(E) /\ Len(r) = (n + 1) - i /\ \A j \in 1 .. (n + 1) - i : r[j] = s[(i - 1) + j]
      <3>1. CASE i <= n
        <4>1. Len(r) = (n + 1) - i /\ \A j \in 1 .. (n + 1) - i : r[j] = s[(i - 1) + j] /\ r[j] \in E
          BY <1>1, <3>1
        <4>2. r \in Seq(E)
          BY <1>1, <3>1
        <4> QED BY <4>1, <4>2
      <3>2. CASE i = n + 1
        BY <1>1, <3>2
      <3> QED BY <3>1, <3>2
    <2>3. Before(s, i) = l /\ From(s, i) = r
      BY <1>1 DEF Before, From
    <2> HIDE DEF l, r
    <2>4. s = Cat(l, r)
      <3> DEFINE p == i - 1
                 q == (n + 1) - i
                 z == Cat(l, r)
      <3>1. p \in Nat /\ q \in Nat /\ p + q = n
        BY <1>1
      <3>2. Len(l) = p /\ Len(r) = q
        BY <2>1, <2>2
      <3> HIDE DEF p, q
      <3>3. Spliced(E, z, l, r, p, q)
        BY <2>1, <2>2, <3>1, <3>2, AllCat, Zenon
      <3> HIDE DEF z
      <3>4. z \in Seq(E) /\ Len(z) = n /\ (\A j \in 1 .. p : z[j] = l[j]) /\ \A j \in 1 .. q : z[p + j] = r[j]
        BY <3>1, <3>3, Zenon DEF Spliced
      <3>5. ASSUME NEW j \in 1 .. n PROVE z[j] = s[j]
        <4>1. CASE j <= i - 1
          BY <2>1, <3>4, <4>1 DEF p
        <4>2. CASE ~ (j <= i - 1)
          <5> DEFINE t == j - (i - 1)
          <5>1. t \in 1 .. (n + 1) - i /\ (i - 1) + t = j
            BY <1>1, <4>2
          <5> HIDE DEF t
          <5> QED BY <2>2, <3>4, <5>1 DEF p, q
        <4> QED BY <4>1, <4>2
      <3> QED BY <1>1, <3>4, <3>5, SameList DEF z
    <2> QED BY <2>1, <2>2, <2>3, <2>4 DEF Cut
  <1> QED BY <1>1

\* What stands in the middle may be joined to either side.
LEMMA CatInner ==
  \A x, a, b, y \in Seq(Entry) : Cat(Cat(x, Cat(a, b)), y) = Cat(Cat(x, a), Cat(b, y))
  BY DEF Cat

\* Two lists of entries around an entry.
LEMMA Amid ==
  ASSUME NEW a \in Seq(Entry), NEW b \in Seq(Entry), NEW e \in Entry
  PROVE  /\ Cat(a, b) \in Seq(Entry) /\ Append(a, e) \in Seq(Entry) /\ Cat(Append(a, e), b) \in Seq(Entry)
         /\ ToSet(Cat(a, b)) = ToSet(a) \cup ToSet(b) /\ ToSet(Append(a, e)) = ToSet(a) \cup {e}
         /\ ToSet(Cat(Append(a, e), b)) = ToSet(Cat(a, b)) \cup {e}
         /\ InOrder(Cat(Append(a, e), b)) <=>
              InOrder(Cat(a, b)) /\ (\A x \in ToSet(a) : x.key <= e.key) /\ (\A x \in ToSet(b) : e.key <= x.key)
         /\ KeysOnce(Cat(Append(a, e), b)) <=> KeysOnce(Cat(a, b)) /\ \A x \in ToSet(Cat(a, b)) : x.key # e.key
  <1> DEFINE q == <<e>>
             f == Append(a, e)
  <1>1. f = Cat(a, q) /\ q \in Seq(Entry) /\ ToSet(q) = {e}
    BY CatEnds
  <1>2. InOrder(q) /\ KeysOnce(q)
    BY DEF InOrder, KeysOnce
  <1> HIDE DEF q, f
  <1>3. f \in Seq(Entry) /\ ToSet(f) = ToSet(a) \cup {e}
    BY <1>1, ConcatSet
  <1>4. /\ Cat(a, b) \in Seq(Entry) /\ ToSet(Cat(a, b)) = ToSet(a) \cup ToSet(b)
        /\ Cat(f, b) \in Seq(Entry) /\ ToSet(Cat(f, b)) = ToSet(f) \cup ToSet(b)
    BY <1>3, ConcatSet
  <1>5. /\ InOrder(f) <=> InOrder(a) /\ \A x \in ToSet(a) : x.key <= e.key
        /\ KeysOnce(f) <=> KeysOnce(a) /\ \A x \in ToSet(a) : x.key # e.key
    BY <1>1, <1>2, InOrderConcat
  <1>6. /\ InOrder(Cat(f, b)) <=> InOrder(f) /\ InOrder(b) /\ \A x \in ToSet(f), y \in ToSet(b) : x.key <= y.key
        /\ KeysOnce(Cat(f, b)) <=> KeysOnce(f) /\ KeysOnce(b) /\ \A x \in ToSet(f), y \in ToSet(b) : x.key # y.key
    BY <1>3, InOrderConcat
  <1>7. /\ InOrder(Cat(a, b)) <=> InOrder(a) /\ InOrder(b) /\ \A x \in ToSet(a), y \in ToSet(b) : x.key <= y.key
        /\ KeysOnce(Cat(a, b)) <=> KeysOnce(a) /\ KeysOnce(b) /\ \A x \in ToSet(a), y \in ToSet(b) : x.key # y.key
    BY InOrderConcat
  <1>8. InOrder(Cat(f, b)) <=> InOrder(Cat(a, b)) /\ (\A x \in ToSet(a) : x.key <= e.key) /\ \A x \in ToSet(b) : e.key <= x.key
    BY <1>3, <1>5, <1>6, <1>7, Zenon
  <1>9. KeysOnce(Cat(f, b)) <=> KeysOnce(Cat(a, b)) /\ \A x \in ToSet(Cat(a, b)) : x.key # e.key
    BY <1>3, <1>4, <1>5, <1>6, <1>7, Zenon
  <1>10. ToSet(Cat(f, b)) = ToSet(Cat(a, b)) \cup {e}
    BY <1>3, <1>4
  <1>11. /\ Append(a, e) \in Seq(Entry) /\ ToSet(Append(a, e)) = ToSet(a) \cup {e}
         /\ Cat(Append(a, e), b) \in Seq(Entry) /\ ToSet(Cat(Append(a, e), b)) = ToSet(Cat(a, b)) \cup {e}
    BY <1>3, <1>4, <1>10, Zenon DEF f
  <1>12. InOrder(Cat(Append(a, e), b)) <=> InOrder(Cat(a, b)) /\ (\A x \in ToSet(a) : x.key <= e.key) /\ \A x \in ToSet(b) : e.key <= x.key
    BY <1>8, Zenon DEF f
  <1>13. KeysOnce(Cat(Append(a, e), b)) <=> KeysOnce(Cat(a, b)) /\ \A x \in ToSet(Cat(a, b)) : x.key # e.key
    BY <1>9, Zenon DEF f
  <1> QED BY <1>4, <1>11, <1>12, <1>13

\* The entries of lists joined, for all lists.
LEMMA AllPairs ==
  \A a, b, c, d \in Seq(Nat) : Len(a) = Len(c) /\ Len(b) = Len(d) =>
    Pairs(Cat(a, b), Cat(c, d)) = Cat(Pairs(a, c), Pairs(b, d))
  <1>1. ASSUME NEW a \in Seq(Nat), NEW b \in Seq(Nat), NEW c \in Seq(Nat), NEW d \in Seq(Nat), Len(a) = Len(c), Len(b) = Len(d)
        PROVE  Pairs(Cat(a, b), Cat(c, d)) = Cat(Pairs(a, c), Pairs(b, d))
    BY <1>1, PairsCat
  <1> QED BY <1>1

\* The entries of two lists with a key and a value put in the same place.
Cleft(keys, children, len, i, k1, c1, a, b) ==
  /\ Pairs(keys, children) = Cat(a, b) /\ a \in Seq(Entry) /\ b \in Seq(Entry)
  /\ Pairs(PutKeys(keys, i, k1), PutKeys(children, i, c1)) = Cat(Cat(a, Pairs(k1, c1)), b)
  /\ PutKeys(keys, i, k1) \in Seq(Nat) /\ PutKeys(children, i, c1) \in Seq(Nat)
  /\ Len(PutKeys(keys, i, k1)) = len + 1 /\ Len(PutKeys(children, i, c1)) = len + 1
  /\ DOMAIN a = 1 .. i - 1 /\ (\A j \in 1 .. i - 1 : a[j].key = keys[j])
  /\ DOMAIN b = 1 .. (len + 1) - i /\ (\A j \in 1 .. (len + 1) - i : b[j].key = keys[(i - 1) + j])

\* insert puts a key and a number in one place of a leaf: one entry more.
LEMMA PairsPut ==
  ASSUME NEW keys \in Seq(Nat), NEW children \in Seq(Nat), NEW len \in Nat, Len(keys) = len, Len(children) = len,
         NEW i \in 1 .. len + 1, NEW k1 \in Seq(Nat), NEW c1 \in Seq(Nat), Len(k1) = 1, Len(c1) = 1
  PROVE  \E a, b : Cleft(keys, children, len, i, k1, c1, a, b)
  <1> DEFINE kl == Before(keys, i)
             kr == From(keys, i)
             cl == Before(children, i)
             cr == From(children, i)
             a == Pairs(kl, cl)
             b == Pairs(kr, cr)
             kk == Cat(kl, k1)
             cc == Cat(cl, c1)
             p == i - 1
             q == (len + 1) - i
  <1>1. p \in Nat /\ q \in Nat /\ p + q = len /\ 1 \in Nat /\ p + 1 \in Nat /\ (p + 1) + q = len + 1
    OBVIOUS
  <1>2. Cut(Nat, keys, kl, kr, i, len) /\ Cut(Nat, children, cl, cr, i, len)
    BY AllCut, Zenon
  <1> HIDE DEF kl, kr, cl, cr
  <1>3. /\ keys = Cat(kl, kr) /\ children = Cat(cl, cr)
        /\ kl \in Seq(Nat) /\ kr \in Seq(Nat) /\ cl \in Seq(Nat) /\ cr \in Seq(Nat)
        /\ Len(kl) = p /\ Len(kr) = q /\ Len(cl) = p /\ Len(cr) = q
        /\ (\A j \in 1 .. p : kl[j] = keys[j]) /\ (\A j \in 1 .. q : kr[j] = keys[p + j])
    BY <1>2, Zenon DEF Cut
  <1> HIDE DEF p, q
  <1>4. /\ Pairs(keys, children) = Cat(a, b) /\ a \in Seq(Entry) /\ b \in Seq(Entry) /\ Len(a) = p /\ Len(b) = q
    BY <1>3, PairsCat
  <1>5. DOMAIN kl = 1 .. p /\ DOMAIN kr = 1 .. q /\ DOMAIN a = 1 .. p /\ DOMAIN b = 1 .. q
    BY <1>1, <1>3, <1>4
  <1>6. (\A j \in 1 .. p : a[j].key = keys[j]) /\ (\A j \in 1 .. q : b[j].key = keys[p + j])
    BY <1>3, <1>5 DEF Pairs
  <1>7. kk \in Seq(Nat) /\ cc \in Seq(Nat) /\ Len(kk) = p + 1 /\ Len(cc) = p + 1
    <2>1. Spliced(Nat, kk, kl, k1, p, 1) /\ Spliced(Nat, cc, cl, c1, p, 1)
      BY <1>1, <1>3, AllCat, Zenon
    <2> QED BY <2>1, Zenon DEF Spliced
  <1>8. Pairs(kk, cc) = Cat(a, Pairs(k1, c1))
    <2>1. Len(kl) = Len(cl) /\ Len(k1) = Len(c1)
      BY <1>3
    <2>2. kl \in Seq(Nat) /\ cl \in Seq(Nat)
      BY <1>3
    <2>3. k1 \in Seq(Nat) /\ c1 \in Seq(Nat)
      OBVIOUS
    <2>4. \A c, d \in Seq(Nat) : Len(kl) = Len(c) /\ Len(k1) = Len(d) => Pairs(Cat(kl, k1), Cat(c, d)) = Cat(Pairs(kl, c), Pairs(k1, d))
      BY <2>2, AllPairs, Zenon
    <2> QED BY <2>1, <2>2, <2>4, Zenon
  <1> HIDE DEF a, b
  <1> HIDE DEF kk, cc
  <1>10. Pairs(Cat(kk, kr), Cat(cc, cr)) = Cat(Pairs(kk, cc), b)
    BY <1>3, <1>7, PairsCat DEF b
  <1>11. /\ Cat(kk, kr) \in Seq(Nat) /\ Cat(cc, cr) \in Seq(Nat)
         /\ Len(Cat(kk, kr)) = len + 1 /\ Len(Cat(cc, cr)) = len + 1
    <2>1. Spliced(Nat, Cat(kk, kr), kk, kr, p + 1, q) /\ Spliced(Nat, Cat(cc, cr), cc, cr, p + 1, q)
      BY <1>1, <1>3, <1>7, AllCat, Zenon
    <2> QED BY <1>1, <2>1, Zenon DEF Spliced
  <1>12. PutKeys(keys, i, k1) = Cat(kk, kr) /\ PutKeys(children, i, c1) = Cat(cc, cr)
    BY DEF PutKeys, kk, cc, kl, kr, cl, cr
  <1>13. Cleft(keys, children, len, i, k1, c1, a, b)
    BY <1>4, <1>5, <1>6, <1>8, <1>10, <1>11, <1>12, Zenon DEF Cleft, p, q
  <1> QED BY <1>13, Zenon

\* The entries of a leaf with one more.
LEMMA LeafLonger ==
  ASSUME NEW n, NEW low, NEW high, NEW mode, LeafOK(n, low, high, mode), NEW key \in Nat, NEW value \in Nat,
         low <= key, key <= high, mode = "strict" => key \notin KeysUnder(n),
         NEW len \in Nat, Len(n.keys) = len, NEW i \in 1 .. len + 1,
         \A j \in DOMAIN n.keys : j < i => n.keys[j] < key, i \in DOMAIN n.keys => key <= n.keys[i],
         NEW m, m = Leaf(PutKeys(n.keys, i, <<key>>), PutKeys(n.children, i, <<value>>)),
         NEW e, e = [key |-> key, value |-> value]
  PROVE  /\ LeafOK(m, low, high, mode) /\ Len(m.keys) = len + 1
         /\ \E a, b \in Seq(Entry) : Under(n) = Cat(a, b) /\ Under(m) = Cat(Append(a, e), b)
  <1> DEFINE k1 == <<key>>
             c1 == <<value>>
  <1>1. /\ n \in Nodes[0] /\ low \in Nat /\ high \in Nat /\ mode \in Modes /\ Len(n.children) = len
        /\ InOrder(Under(n)) /\ \A x \in ToSet(Under(n)) : low <= x.key /\ x.key <= high
        /\ mode = "strict" => KeysOnce(Under(n))
    BY DEF LeafOK
  <1>2. n.keys \in Seq(Nat) /\ n.children \in Seq(Nat)
    BY <1>1, NodeFields
  <1>3. k1 \in Seq(Nat) /\ c1 \in Seq(Nat) /\ Len(k1) = 1 /\ Len(c1) = 1 /\ e \in Entry /\ Pairs(k1, c1) = <<e>> /\ e.key = key
    <2>1. e \in Entry
      BY NumberHeld
    <2> QED BY <2>1 DEF Pairs
  <1> HIDE DEF k1, c1
  <1>4. PICK a, b : Cleft(n.keys, n.children, len, i, k1, c1, a, b)
    BY <1>1, <1>2, <1>3, PairsPut
  <1>5. /\ Pairs(n.keys, n.children) = Cat(a, b) /\ a \in Seq(Entry) /\ b \in Seq(Entry)
        /\ DOMAIN a = 1 .. i - 1 /\ (\A j \in 1 .. i - 1 : a[j].key = n.keys[j])
        /\ DOMAIN b = 1 .. (len + 1) - i /\ (\A j \in 1 .. (len + 1) - i : b[j].key = n.keys[(i - 1) + j])
    BY <1>4, Zenon DEF Cleft
  <1>6. Under(n) = Cat(a, b)
    <2>1. Under(n) = Pairs(n.keys, n.children)
      BY <1>1, UnderIs
    <2> QED BY <1>5, <2>1
  <1>7. /\ m \in Nodes[0] /\ Len(m.keys) = len + 1 /\ Len(m.children) = len + 1 /\ Under(m) = Cat(Append(a, e), b)
    <2> DEFINE x == PutKeys(n.keys, i, k1)
               y == PutKeys(n.children, i, c1)
    <2>1. x \in Seq(Nat) /\ y \in Seq(Nat) /\ Len(x) = len + 1 /\ Len(y) = len + 1 /\ Pairs(x, y) = Cat(Append(a, e), b)
      <3>1. x \in Seq(Nat) /\ y \in Seq(Nat) /\ Len(x) = len + 1 /\ Len(y) = len + 1 /\ Pairs(x, y) = Cat(Cat(a, Pairs(k1, c1)), b)
        BY <1>4, Zenon DEF Cleft
      <3>2. Append(a, e) = Cat(a, <<e>>)
        BY <1>3, <1>5, CatEnds
      <3> QED BY <1>3, <3>1, <3>2, Zenon
    <2>2. m = Leaf(x, y)
      BY DEF k1, c1
    <2> HIDE DEF x, y
    <2>3. m \in Nodes[0] /\ m.keys = x /\ m.children = y
      BY <2>1, <2>2, NodeFields DEF Leaf
    <2>4. Under(m) = Pairs(m.keys, m.children)
      BY <2>3, UnderIs
    <2> QED BY <2>1, <2>3, <2>4, Zenon
  <1>8. \A x \in ToSet(a) : x.key <= key
    <2> SUFFICES ASSUME NEW j \in DOMAIN a PROVE a[j].key <= key
      BY DEF ToSet
    <2>1. j \in DOMAIN n.keys /\ j < i /\ j \in 1 .. i - 1
      BY <1>2, <1>5
    <2>2. n.keys[j] < key /\ n.keys[j] \in Nat
      BY <1>2, <2>1
    <2> QED BY <1>5, <2>1, <2>2
  <1>9. InOrder(b)
    BY <1>1, <1>5, <1>6, InOrderConcat
  <1>10. \A x \in ToSet(b) : key <= x.key
    <2> SUFFICES ASSUME NEW j \in DOMAIN b PROVE key <= b[j].key
      BY DEF ToSet
    <2>1. 1 \in DOMAIN b /\ i \in DOMAIN n.keys /\ 1 \in 1 .. (len + 1) - i /\ (i - 1) + 1 = i /\ (j = 1 \/ 1 < j)
      <3>1. j \in 1 .. (len + 1) - i
        BY <1>5, Zenon
      <3>2. 1 \in 1 .. (len + 1) - i /\ i \in 1 .. len /\ (i - 1) + 1 = i /\ (j = 1 \/ 1 < j)
        BY <3>1
      <3>3. DOMAIN n.keys = 1 .. len
        BY <1>2
      <3> QED BY <1>5, <3>2, <3>3, Zenon
    <2>2. key <= b[1].key
      BY <1>5, <2>1
    <2>3. b[1].key \in Nat /\ b[j].key \in Nat
      <3>1. b[1] \in Entry /\ b[j] \in Entry
        BY <1>5, <2>1
      <3> QED BY <3>1 DEF Entry
    <2>4. b[1].key <= b[j].key
      BY <1>9, <2>1, <2>3 DEF InOrder
    <2> QED BY <2>2, <2>3, <2>4
  <1>11. InOrder(Under(m)) /\ (\A x \in ToSet(Under(m)) : low <= x.key /\ x.key <= high) /\ (mode = "strict" => KeysOnce(Under(m)))
    <2>0. ASSUME NEW w \in Entry
          PROVE  /\ InOrder(Cat(Append(a, w), b)) <=>
                      InOrder(Cat(a, b)) /\ (\A x \in ToSet(a) : x.key <= w.key) /\ (\A x \in ToSet(b) : w.key <= x.key)
                 /\ KeysOnce(Cat(Append(a, w), b)) <=> KeysOnce(Cat(a, b)) /\ \A x \in ToSet(Cat(a, b)) : x.key # w.key
      <3>1. a \in Seq(Entry) /\ b \in Seq(Entry)
        BY <1>5
      <3>2. InOrder(Cat(Append(a, w), b)) <=>
              InOrder(Cat(a, b)) /\ (\A x \in ToSet(a) : x.key <= w.key) /\ (\A x \in ToSet(b) : w.key <= x.key)
        BY <3>1, Amid
      <3>3. KeysOnce(Cat(Append(a, w), b)) <=> KeysOnce(Cat(a, b)) /\ \A x \in ToSet(Cat(a, b)) : x.key # w.key
        BY <3>1, Amid
      <3> QED BY <3>2, <3>3, Zenon
    <2>1. InOrder(Under(m))
      BY <1>1, <1>3, <1>6, <1>7, <1>8, <1>10, <2>0, Zenon
    <2>2. ToSet(Under(m)) = ToSet(Under(n)) \cup {e}
      BY <1>3, <1>5, <1>6, <1>7, Amid
    <2>3. mode = "strict" => \A x \in ToSet(Under(n)) : x.key # e.key
      BY <1>3, Zenon DEF KeysUnder
    <2>4. mode = "strict" => KeysOnce(Under(m))
      BY <1>1, <1>3, <1>6, <1>7, <2>0, <2>3, Zenon
    <2> QED BY <1>1, <1>3, <2>1, <2>2, <2>4
  <1>12. LeafOK(m, low, high, mode)
    BY <1>1, <1>7, <1>11, Zenon DEF LeafOK
  <1> QED BY <1>5, <1>6, <1>7, <1>12, Zenon

\* The entries u with e among them, in the place of the tree they are from.
Grew(h, p, low, high, mode, u, e) ==
  \E a, b \in Seq(Entry) : u = Cat(a, b) /\ Became(h, p, low, high, mode, Cat(Append(a, e), b))

\* A leaf takes an entry, and may become two.
LEMMA LeafGrown ==
  ASSUME NEW n, NEW low, NEW high, NEW mode, Tree(0, n, low, high, mode), NEW key \in Nat, NEW value \in Nat,
         low <= key, key <= high, mode = "strict" => key \notin KeysUnder(n)
  PROVE  Grew(0, Grown(n, key, value), low, high, mode, Under(n), [key |-> key, value |-> value])
  <1> DEFINE i == Place(n.keys, key, FALSE)
             m == Leaf(PutKeys(n.keys, i, <<key>>), PutKeys(n.children, i, <<value>>))
             e == [key |-> key, value |-> value]
             len == Len(n.keys)
  <1>1. LeafOK(n, low, high, mode) /\ n \in Nodes[0] /\ len < Order /\ mode \in Modes
    BY LeafIs, TreeIs
  <1>2. n.keys \in Seq(Nat) /\ len \in Nat
    BY <1>1, NodeFields
  <1>3. /\ i \in 1 .. len + 1 /\ \A j \in DOMAIN n.keys : j < i => n.keys[j] < key
        /\ i \in DOMAIN n.keys => key <= n.keys[i]
    <2>1. FALSE \in BOOLEAN
      OBVIOUS
    <2> QED BY <1>2, <2>1, PlaceIs
  <1>4. Grown(n, key, value) = Split(m)
    <2>1. m = Leaf(InsertAt(n.keys, i, key), InsertAt(n.children, i, value))
      BY DEF InsertAt, PutKeys, Cat, Before, From
    <2> HIDE DEF m
    <2> QED BY <1>1, <2>1, GrownIs, Zenon
  <1> HIDE DEF i, len
  <1>5. LeafOK(m, low, high, mode) /\ Len(m.keys) = len + 1 /\ \E a, b \in Seq(Entry) : Under(n) = Cat(a, b) /\ Under(m) = Cat(Append(a, e), b)
    <2>1. Len(n.keys) = len
      BY DEF len
    <2> QED BY <1>1, <1>2, <1>3, <2>1, LeafLonger
  <1> HIDE DEF m, e
  <1>6. Became(0, Split(m), low, high, mode, Under(m))
    <2>1. Len(m.keys) <= Order
      BY <1>1, <1>2, <1>5, OrderAssumption
    <2> QED BY <1>5, <2>1, SplitMeans, Zenon
  <1> QED BY <1>4, <1>5, <1>6, Zenon DEF Grew, e

\* The way down through a row of nodes leads to the child that spans the key.
LEMMA WayDown ==
  ASSUME NEW h \in Nat, NEW keys, NEW children, NEW low, NEW high, NEW mode, Inside(h, keys, children, low, high, mode),
         NEW key \in Nat, low <= key, key <= high, NEW past \in BOOLEAN, NEW i, i = Place(keys, key, past)
  PROVE  /\ i \in DOMAIN children /\ i \in 1 .. Len(keys) + 1
         /\ Lo(keys, i, low) <= key /\ key <= Hi(keys, i, high)
         /\ i \in DOMAIN keys /\ past => key < keys[i]
         /\ i - 1 \in DOMAIN keys /\ ~past => keys[i - 1] < key
  <1>1. keys \in Seq(Nat) /\ children \in Seq(Nodes[h]) /\ Len(children) = Len(keys) + 1
    BY DEF Inside
  <1>2. /\ i \in 1 .. Len(keys) + 1
        /\ \A j \in DOMAIN keys : j < i => keys[j] <= key /\ (~past => keys[j] < key)
        /\ i \in DOMAIN keys => key <= keys[i] /\ (past => key < keys[i])
    BY <1>1, PlaceIs
  <1> HIDE DEF Place
  <1>3. i \in DOMAIN children
    BY <1>1, <1>2
  <1>4. i # 1 => i - 1 \in DOMAIN keys /\ i - 1 < i
    BY <1>1, <1>2
  <1>5. i # Len(keys) + 1 => i \in DOMAIN keys
    BY <1>1, <1>2
  <1>6. Lo(keys, i, low) <= key
    BY <1>2, <1>4 DEF Lo
  <1>7. key <= Hi(keys, i, high)
    BY <1>2, <1>5 DEF Hi
  <1>8. i - 1 \in DOMAIN keys /\ ~past => keys[i - 1] < key
    <2>1. i - 1 < i
      BY <1>2
    <2> QED BY <1>2, <2>1
  <1> QED BY <1>2, <1>3, <1>6, <1>7, <1>8

\* One more entry after lists joined.
LEMMA AllCatAppend ==
  \A x, a \in Seq(Entry) : \A e \in Entry : Append(a, e) \in Seq(Entry) /\ Append(Cat(x, a), e) = Cat(x, Append(a, e))
  BY DEF Cat

\* A row takes what became of one of its nodes.
LEMMA RowGrown ==
  ASSUME NEW h \in Nat, NEW keys, NEW children, NEW low, NEW high, NEW mode, Inside(h, keys, children, low, high, mode),
         Len(keys) < Order, NEW e \in Entry, NEW i \in DOMAIN children, i \in DOMAIN keys => e.key < keys[i],
         NEW p, Grew(h, p, Lo(keys, i, low), Hi(keys, i, high), mode, Under(children[i]), e)
  PROVE  Grew(h + 1, Split(Internal(PutKeys(keys, i, p.keys), PutNodes(children, i, p.children))), low, high, mode, UnderAll(children), e)
  <1> DEFINE pk == p.keys
             pc == p.children
             c == children[i]
             nk == PutKeys(keys, i, pk)
             nc == PutNodes(children, i, pc)
             x == UnderAll(Before(children, i))
             y == UnderAll(After(children, i))
             N == Nodes[h]
             len == Len(keys)
             d == Len(pk)
  <1>1. PICK a \in Seq(Entry), b \in Seq(Entry) :
          Under(c) = Cat(a, b) /\ Became(h, p, Lo(keys, i, low), Hi(keys, i, high), mode, Cat(Append(a, e), b))
    BY DEF Grew
  <1>2. Inside(h, pk, pc, Lo(keys, i, low), Hi(keys, i, high), mode) /\ d <= 1 /\ UnderAll(pc) = Cat(Append(a, e), b)
    BY <1>1, Zenon DEF Became
  <1>3. keys \in Seq(Nat) /\ children \in Seq(N) /\ Len(children) = len + 1 /\ len \in Nat /\ i \in 1 .. len + 1
    BY DEF Inside
  <1>4. pk \in Seq(Nat) /\ pc \in Seq(N) /\ Len(pc) = d + 1 /\ d \in Nat
    BY <1>2 DEF Inside
  <1> HIDE DEF pk, pc, len, d
  <1>5. /\ x \in Seq(Entry) /\ y \in Seq(Entry) /\ UnderAll(children) = Cat(Cat(x, Under(c)), y)
    BY RowAround
  <1>14. x \in Seq(Entry) /\ y \in Seq(Entry) /\ a \in Seq(Entry) /\ b \in Seq(Entry)
    BY <1>1, <1>5
  <1>6. \A z \in ToSet(Under(c)) : (i \in DOMAIN keys /\ mode = "strict") => z.key < keys[i]
    BY RowKeys, <1>3
  <1>7. ToSet(UnderAll(pc)) = ToSet(Under(c)) \cup {e}
    BY <1>1, <1>2, Amid
  <1>8. Inside(h, nk, nc, low, high, mode)
    <2>1. mode = "strict" => \A z \in ToSet(UnderAll(pc)) : i \in DOMAIN keys => z.key < keys[i]
      BY <1>6, <1>7
    <2>2. KeysUnder(c) \subseteq {z.key : z \in ToSet(UnderAll(pc))} /\ ToSet(UnderAll(pc)) # {}
      BY <1>7 DEF KeysUnder
    <2> QED BY <1>2, <2>1, <2>2, RowReplace
  <1>9. Len(nk) <= Order
    <2>1. IsPut(h, nk, nc, keys, children, len, i, pk, pc, d)
      <3>1. Len(keys) = len /\ Len(pk) = d
        BY DEF len, d
      <3> QED BY <1>3, <1>4, <3>1, AllPut, Zenon DEF N
    <2>2. Len(nk) = len + d
      BY <2>1, Zenon DEF IsPut
    <2>3. len < Order
      BY DEF len
    <2> QED BY <1>2, <1>3, <1>4, <2>2, <2>3, OrderAssumption DEF d
  <1>10. UnderAll(nc) = Cat(Append(Cat(x, a), e), Cat(b, y))
    <2>1. UnderAll(nc) = Cat(Cat(x, UnderAll(pc)), y)
      <3>1. Len(keys) = len /\ Len(pk) = d
        BY DEF len, d
      <3> QED BY <1>3, <1>4, <3>1, PutIs
    <2> HIDE DEF x, y
    <2>2. Append(a, e) \in Seq(Entry) /\ Append(Cat(x, a), e) = Cat(x, Append(a, e))
      BY <1>14, AllCatAppend, Zenon
    <2>3. Cat(Cat(x, Cat(Append(a, e), b)), y) = Cat(Cat(x, Append(a, e)), Cat(b, y))
      <3>1. \A u, w \in Seq(Entry) : Cat(Cat(x, Cat(Append(a, e), u)), w) = Cat(Cat(x, Append(a, e)), Cat(u, w))
        BY <1>14, <2>2, CatInner, Zenon
      <3> QED BY <1>14, <3>1, Zenon
    <2> QED BY <1>2, <2>1, <2>2, <2>3, Zenon
  <1>11. UnderAll(children) = Cat(Cat(x, a), Cat(b, y)) /\ Cat(x, a) \in Seq(Entry) /\ Cat(b, y) \in Seq(Entry)
    <2> HIDE DEF x, y
    <2>1. Cat(Cat(x, Cat(a, b)), y) = Cat(Cat(x, a), Cat(b, y))
      <3>1. \A u, w \in Seq(Entry) : Cat(Cat(x, Cat(a, u)), w) = Cat(Cat(x, a), Cat(u, w))
        BY <1>14, CatInner, Zenon
      <3> QED BY <1>14, <3>1, Zenon
    <2>2. Cat(x, a) \in Seq(Entry) /\ Cat(b, y) \in Seq(Entry)
      BY <1>14, ConcatSet
    <2> QED BY <1>1, <1>5, <2>1, <2>2, Zenon
  <1>12. Became(h + 1, Split(Internal(nk, nc)), low, high, mode, UnderAll(nc))
    <2> HIDE DEF nk, nc
    <2> QED BY <1>8, <1>9, SplitMeans, Zenon
  <1>13. Grew(h + 1, Split(Internal(nk, nc)), low, high, mode, UnderAll(children), e)
    <2> HIDE DEF nk, nc, x, y
    <2> QED BY <1>10, <1>11, <1>12, Zenon DEF Grew
  <1> QED BY <1>13 DEF pk, pc

\* insert, before the root: the tree, or the two trees it became, keep their order and
\* their entries, with the new one among them.
LEMMA GrownMeans ==
  ASSUME NEW key \in Nat, NEW value \in Nat
  PROVE  \A h \in Nat : \A n, low, high, mode :
           Tree(h, n, low, high, mode) /\ low <= key /\ key <= high /\ (mode = "strict" => key \notin KeysUnder(n)) =>
             Grew(h, Grown(n, key, value), low, high, mode, Under(n), [key |-> key, value |-> value])
  <1> DEFINE e == [key |-> key, value |-> value]
             P(h) == \A n, low, high, mode :
               Tree(h, n, low, high, mode) /\ low <= key /\ key <= high /\ (mode = "strict" => key \notin KeysUnder(n)) =>
                 Grew(h, Grown(n, key, value), low, high, mode, Under(n), e)
             I == {h \in Nat : P(h)}
  <1>0. e \in Entry /\ e.key = key
    BY NumberHeld
  <1>1. P(0)
    BY LeafGrown
  <1> HIDE DEF e
  <1>2. ASSUME NEW h \in Nat, P(h) PROVE P(h + 1)
    <2> SUFFICES ASSUME NEW n, NEW low, NEW high, NEW mode, Tree(h + 1, n, low, high, mode),
                        low <= key, key <= high, mode = "strict" => key \notin KeysUnder(n)
                 PROVE  Grew(h + 1, Grown(n, key, value), low, high, mode, Under(n), e)
      OBVIOUS
    <2> DEFINE keys == n.keys
               children == n.children
               i == Place(keys, key, TRUE)
               c == children[i]
               p == Grown(c, key, value)
    <2>1. Inside(h, keys, children, low, high, mode) /\ n \in Nodes[h + 1] /\ Len(keys) < Order
      BY TreeIs, Zenon
    <2>2. Under(n) = UnderAll(children)
      BY <2>1, UnderIs
    <2>3. /\ i \in DOMAIN children /\ Lo(keys, i, low) <= key /\ key <= Hi(keys, i, high)
          /\ i \in DOMAIN keys => key < keys[i]
      <3>1. TRUE \in BOOLEAN
        OBVIOUS
      <3> HIDE DEF keys, children
      <3> QED BY <2>1, <3>1, WayDown
    <2>4. Grown(n, key, value) = Split(Internal(PutKeys(keys, i, p.keys), PutNodes(children, i, p.children)))
      <3>1. Grown(n, key, value) = Split(Adopted(n, i, p))
        <4>1. i = Place(n.keys, key, TRUE)
          OBVIOUS
        <4> HIDE DEF i
        <4>2. Inner(n) /\ Place(n.keys, key, TRUE) \in DOMAIN n.children
          BY <2>1, <2>3, <4>1 DEF Inner
        <4>3. Grown(n, key, value) = Split(Adopted(n, i, Grown(n.children[i], key, value)))
          BY <4>1, <4>2, GrownInside
        <4> QED BY <4>3
      <3>2. Adopted(n, i, p) = Internal(PutKeys(keys, i, p.keys), PutNodes(children, i, p.children))
        BY DEF Adopted, PutKeys, PutNodes, Cat, Before, After, From
      <3> QED BY <3>1, <3>2, Zenon
    <2> HIDE DEF i, keys, children
    <2>5. Tree(h, c, Lo(keys, i, low), Hi(keys, i, high), mode)
      BY <2>1, <2>3 DEF Inside
    <2>6. KeysUnder(c) \subseteq KeysUnder(n)
      <3>1. children \in Seq(Nodes[h])
        BY <2>1 DEF Inside
      <3>2. \A x \in ToSet(Under(c)) : x \in ToSet(Under(n))
        BY <2>2, <2>3, <3>1, UnderAllHas
      <3> QED BY <3>2 DEF KeysUnder
    <2> HIDE DEF c
    <2>7. Grew(h, p, Lo(keys, i, low), Hi(keys, i, high), mode, Under(c), e)
      BY <1>2, <2>3, <2>5, <2>6, Zenon
    <2> HIDE DEF p
    <2>8. Grew(h + 1, Split(Internal(PutKeys(keys, i, p.keys), PutNodes(children, i, p.children))), low, high, mode, UnderAll(children), e)
      BY <1>0, <2>1, <2>3, <2>7, RowGrown DEF c
    <2> QED BY <2>2, <2>4, <2>8, Zenon
  <1>3. 0 \in I
    BY <1>1
  <1>4. ASSUME NEW h \in I PROVE h + 1 \in I
    <2>1. h \in Nat /\ P(h) /\ h + 1 \in Nat
      OBVIOUS
    <2> HIDE DEF P
    <2> QED BY <1>2, <2>1, Zenon
  <1>5. \A h \in Nat : h \in I
    <2> HIDE DEF I
    <2> QED BY <1>3, <1>4, NaturalInduction
  <1>6. \A h \in Nat : P(h)
    BY <1>5, Zenon
  <1> QED BY <1>6, Zenon DEF e

\* A tree of some height.
IsTree(t, low, high, mode) == \E h \in Nat : Tree(h, t, low, high, mode)

\* Two lists of entries, the second with e in one place more.
Longer(u, w, e) == \E a, b \in Seq(Entry) : u = Cat(a, b) /\ w = Cat(Append(a, e), b)

\* insert: the root is the tree, or a node over the two it became.
THEOREM InsertMeans ==
  ASSUME NEW key \in Nat, NEW value \in Nat, NEW t, NEW low, NEW high, NEW mode, IsTree(t, low, high, mode),
         low <= key, key <= high, mode = "strict" => key \notin KeysUnder(t)
  PROVE  /\ IsTree(TreeInsert(t, key, value), low, high, mode)
         /\ Longer(Under(t), Under(TreeInsert(t, key, value)), [key |-> key, value |-> value])
  <1> DEFINE p == Grown(t, key, value)
             e == [key |-> key, value |-> value]
             k == p.keys
             c == p.children
  <1>1. PICK h \in Nat : Tree(h, t, low, high, mode)
    BY DEF IsTree
  <1>2. Grew(h, p, low, high, mode, Under(t), e)
    BY <1>1, GrownMeans, Zenon
  <1> HIDE DEF p, e
  <1>3. PICK a \in Seq(Entry), b \in Seq(Entry) : Under(t) = Cat(a, b) /\ Became(h, p, low, high, mode, Cat(Append(a, e), b))
    BY <1>2, Zenon DEF Grew
  <1>4. Inside(h, k, c, low, high, mode) /\ Len(k) <= 1 /\ UnderAll(c) = Cat(Append(a, e), b)
    BY <1>3, Zenon DEF Became
  <1>5. /\ k \in Seq(Nat) /\ c \in Seq(Nodes[h]) /\ Len(c) = Len(k) + 1
        /\ \A i \in DOMAIN c : Tree(h, c[i], Lo(k, i, low), Hi(k, i, high), mode)
    BY <1>4, Zenon DEF Inside
  <1>6. TreeInsert(t, key, value) = IF k = <<>> THEN Head(c) ELSE Internal(k, c)
    BY DEF TreeInsert, Rooted, p
  <1> HIDE DEF k, c
  <1>7. CASE k = <<>>
    <2> DEFINE N == Nodes[h]
               m == c[1]
    <2>1. c \in Seq(N) /\ Len(c) = 1 /\ Len(k) = 0 /\ 1 \in DOMAIN c
      BY <1>5, <1>7
    <2> HIDE DEF N
    <2>3. Lo(k, 1, low) = low /\ Hi(k, 1, high) = high
      BY <2>1 DEF Lo, Hi
    <2>4. Tree(h, m, low, high, mode)
      BY <1>5, <2>1, <2>3
    <2>2. Head(c) = m /\ m \in N /\ c = <<m>>
      <3>0. Head(c) = m
        BY <2>1
      <3>1. Head(c) = m /\ m \in N
        BY <2>4, <3>0, TreeIs DEF N
      <3> DEFINE q == <<m>>
      <3>2. q \in Seq(N) /\ Len(q) = 1 /\ q[1] = c[1]
        BY <3>1
      <3> HIDE DEF q, m
      <3>3. c = q
        BY <2>1, <3>2, SameList
      <3> QED BY <3>1, <3>3 DEF q
    <2>5. UnderAll(c) = Under(m)
      BY <2>2, <2>4, RowOfTrees, Zenon
    <2> HIDE DEF m
    <2>6. TreeInsert(t, key, value) = m
      BY <1>6, <1>7, <2>2, Zenon
    <2>7. IsTree(TreeInsert(t, key, value), low, high, mode)
      BY <2>4, <2>6, Zenon DEF IsTree
    <2> QED BY <1>3, <1>4, <2>5, <2>6, <2>7, Zenon DEF Longer, e
  <1>8. CASE k # <<>>
    <2>1. Len(k) < Order
      BY <1>4, <1>5, OrderAssumption
    <2>2. Tree(h + 1, Internal(k, c), low, high, mode) /\ Under(Internal(k, c)) = UnderAll(c)
      BY <1>4, <2>1, InternalIs
    <2>3. h + 1 \in Nat
      OBVIOUS
    <2>4. TreeInsert(t, key, value) = Internal(k, c)
      BY <1>6, <1>8, Zenon
    <2>5. IsTree(TreeInsert(t, key, value), low, high, mode)
      BY <2>2, <2>3, <2>4, Zenon DEF IsTree
    <2> QED BY <1>3, <1>4, <2>2, <2>4, <2>5, Zenon DEF Longer, e
  <1> QED BY <1>7, <1>8

--------------------------------------------------------------------------------
(* Removal.                                                                 *)

\* The places of an entry in a leaf.
Found(n, key, value) == {i \in DOMAIN n.keys : n.keys[i] = key /\ n.children[i] = value}

DF2 == INSTANCE FoldTheorems
        WITH Op <- LAMBDA c, x, h :
          [node \in Nodes[h] |->
             IF h = 0
               THEN LET found == Found(node, c.key, c.value)
                    IN IF found = {} THEN node
                       ELSE Leaf(RemoveAt(node.keys, Min(found)), RemoveAt(node.children, Min(found)))
               ELSE LET i == Place(node.keys, c.key, TRUE)
                    IN [node EXCEPT !.children[i] = x[@]]]

\* Induction, for the theorems about the folds of DF2.
LEMMA DF2Inductive == DF2!Inductive
  BY NaturalInduction DEF DF2!Inductive

\* delete, node by node: a leaf loses the first entry of the key and the value.
LEMMA DeleteIs ==
  ASSUME NEW e
  PROVE  /\ \A n \in Nodes[0] : TreeDelete(n, e.key, e.value) =
              IF Found(n, e.key, e.value) = {} THEN n
              ELSE Leaf(RemoveAt(n.keys, Min(Found(n, e.key, e.value))), RemoveAt(n.children, Min(Found(n, e.key, e.value))))
         /\ \A h \in Nat : \A n \in Nodes[h + 1] : \A i \in DOMAIN n.children : i = Place(n.keys, e.key, TRUE) =>
              TreeDelete(n, e.key, e.value) = [n EXCEPT !.children = [n.children EXCEPT ![i] = TreeDelete(n.children[i], e.key, e.value)]]
  <1> DEFINE without == CHOOSE f : f = [h \in Nat |-> [node \in Nodes[h] |->
             IF h = 0
               THEN LET found == Found(node, e.key, e.value)
                    IN IF found = {} THEN node
                       ELSE Leaf(RemoveAt(node.keys, Min(found)), RemoveAt(node.children, Min(found)))
               ELSE LET i == Place(node.keys, e.key, TRUE)
                    IN [node EXCEPT !.children[i] = f[h - 1][@]]]]
  <1>1. \E f : f = [h \in Nat |-> [node \in Nodes[h] |->
             IF h = 0
               THEN LET found == Found(node, e.key, e.value)
                    IN IF found = {} THEN node
                       ELSE Leaf(RemoveAt(node.keys, Min(found)), RemoveAt(node.children, Min(found)))
               ELSE LET i == Place(node.keys, e.key, TRUE)
                    IN [node EXCEPT !.children[i] = f[h - 1][@]]]]
    <2> DEFINE T(x, h) == [node \in Nodes[h] |->
             IF h = 0
               THEN LET found == Found(node, e.key, e.value)
                    IN IF found = {} THEN node
                       ELSE Leaf(RemoveAt(node.keys, Min(found)), RemoveAt(node.children, Min(found)))
               ELSE LET i == Place(node.keys, e.key, TRUE)
                    IN [node EXCEPT !.children[i] = x[@]]]
    <2>1. \A x, y : T(x, 0) = T(y, 0)
      OBVIOUS
    <2>2. \E f : f = [h \in Nat |-> T(f[h - 1], h)]
      BY <2>1, DF2!RecursionExists, DF2Inductive
    <2> QED BY <2>2, Zenon
  <1>4. without = [h \in Nat |-> [node \in Nodes[h] |->
             IF h = 0
               THEN LET found == Found(node, e.key, e.value)
                    IN IF found = {} THEN node
                       ELSE Leaf(RemoveAt(node.keys, Min(found)), RemoveAt(node.children, Min(found)))
               ELSE LET i == Place(node.keys, e.key, TRUE)
                    IN [node EXCEPT !.children[i] = without[h - 1][@]]]]
    BY <1>1, Zenon
  <1>5. \A n : TreeDelete(n, e.key, e.value) = without[n.height][n]
    BY DEF TreeDelete, Found
  <1> HIDE DEF without
  <1>6. ASSUME NEW h \in Nat, NEW n \in Nodes[h]
        PROVE  without[h][n] =
             IF h = 0
               THEN LET found == Found(n, e.key, e.value)
                    IN IF found = {} THEN n
                       ELSE Leaf(RemoveAt(n.keys, Min(found)), RemoveAt(n.children, Min(found)))
               ELSE LET i == Place(n.keys, e.key, TRUE)
                    IN [n EXCEPT !.children[i] = without[h - 1][@]]
    <2>1. without[h] = [node \in Nodes[h] |->
             IF h = 0
               THEN LET found == Found(node, e.key, e.value)
                    IN IF found = {} THEN node
                       ELSE Leaf(RemoveAt(node.keys, Min(found)), RemoveAt(node.children, Min(found)))
               ELSE LET i == Place(node.keys, e.key, TRUE)
                    IN [node EXCEPT !.children[i] = without[h - 1][@]]]
      BY <1>4, Zenon
    <2> QED BY <2>1, Zenon
  <1>7. ASSUME NEW n \in Nodes[0]
        PROVE  TreeDelete(n, e.key, e.value) =
              IF Found(n, e.key, e.value) = {} THEN n
              ELSE Leaf(RemoveAt(n.keys, Min(Found(n, e.key, e.value))), RemoveAt(n.children, Min(Found(n, e.key, e.value))))
    <2>1. n.height = 0 /\ 0 \in Nat
      BY NodeFields
    <2> QED BY <1>5, <1>6, <2>1, Zenon
  <1>8. ASSUME NEW h \in Nat, NEW n \in Nodes[h + 1], NEW i \in DOMAIN n.children, i = Place(n.keys, e.key, TRUE)
        PROVE  TreeDelete(n, e.key, e.value) = [n EXCEPT !.children = [n.children EXCEPT ![i] = TreeDelete(n.children[i], e.key, e.value)]]
    <2> DEFINE g == h + 1
    <2>1. g \in Nat /\ g # 0 /\ g - 1 = h /\ n.height = g
      BY NodeFields
    <2>2. n.children[i].height = h
      <3>1. n.children \in Seq(Nodes[h])
        BY NodeFields
      <3>2. n.children[i] \in Nodes[h]
        BY <3>1
      <3> QED BY <3>2, NodeFields
    <2>3. n \in Nodes[g]
      OBVIOUS
    <2> HIDE DEF g
    <2>4. without[g][n] = [n EXCEPT !.children[i] = without[g - 1][@]]
      BY <1>6, <1>8, <2>1, <2>3, ZenonT(40)
    <2>5. without[g - 1][n.children[i]] = TreeDelete(n.children[i], e.key, e.value)
      BY <1>5, <2>1, <2>2, Zenon
    <2>6. TreeDelete(n, e.key, e.value) = without[g][n]
      BY <1>5, <2>1, Zenon
    <2> QED BY <2>4, <2>5, <2>6
  <1> QED BY <1>7, <1>8

\* A list, an element of it, and what is before and after.
Round(E, s, l, r, i, n) ==
  /\ s = Cat(Cat(l, <<s[i]>>), r) /\ l \in Seq(E) /\ r \in Seq(E) /\ s[i] \in E /\ <<s[i]>> \in Seq(E)
  /\ Len(l) = i - 1 /\ Len(r) = n - i

\* So is every list, around each of its places.
LEMMA AllRound ==
  \A E : \A s \in Seq(E), n \in Nat : \A i \in 1 .. n : Len(s) = n => Round(E, s, Before(s, i), After(s, i), i, n)
  <1>1. ASSUME NEW E, NEW s \in Seq(E), NEW n \in Nat, NEW i \in 1 .. n, Len(s) = n
        PROVE  Round(E, s, Before(s, i), After(s, i), i, n)
    <2> DEFINE l == SubSeq(s, 1, i - 1)
               r == SubSeq(s, i + 1, Len(s))
               x == s[i]
    <2>1. /\ s = Append(l, x) \o r /\ l \in Seq(E) /\ r \in Seq(E) /\ x \in E
          /\ Len(l) = i - 1 /\ Len(r) = n - i
      BY <1>1, Around
    <2>2. Before(s, i) = l /\ After(s, i) = r
      BY DEF Before, After
    <2> HIDE DEF l, r, x
    <2>3. Append(l, x) = Cat(l, <<x>>) /\ <<x>> \in Seq(E)
      BY <2>1, CatEnds
    <2>4. s = Cat(Cat(l, <<x>>), r)
      BY <2>1, <2>3, Zenon DEF Cat
    <2> QED BY <2>1, <2>2, <2>3, <2>4, Zenon DEF Round, x
  <1> QED BY <1>1

\* The entries of two lists, and without those in one place.
Without(keys, children, i, a, b, e) ==
  /\ Pairs(keys, children) = Cat(Append(a, e), b) /\ a \in Seq(Entry) /\ b \in Seq(Entry)
  /\ Pairs(Cat(Before(keys, i), After(keys, i)), Cat(Before(children, i), After(children, i))) = Cat(a, b)
  /\ Cat(Before(keys, i), After(keys, i)) \in Seq(Nat) /\ Cat(Before(children, i), After(children, i)) \in Seq(Nat)
  /\ Len(Cat(Before(keys, i), After(keys, i))) = Len(Cat(Before(children, i), After(children, i)))
  /\ Len(Cat(Before(keys, i), After(keys, i))) < Len(keys)

\* delete takes a key and a number out of one place of a leaf: one entry.
LEMMA PairsWithout ==
  ASSUME NEW keys \in Seq(Nat), NEW children \in Seq(Nat), NEW len \in Nat, Len(keys) = len, Len(children) = len, NEW i \in 1 .. len,
         NEW e \in Entry, e.key = keys[i], e.value = children[i]
  PROVE  \E a, b : Without(keys, children, i, a, b, e)
  <1> DEFINE kl == Before(keys, i)
             kr == After(keys, i)
             cl == Before(children, i)
             cr == After(children, i)
             k1 == <<keys[i]>>
             c1 == <<children[i]>>
             a == Pairs(kl, cl)
             b == Pairs(kr, cr)
             kk == Cat(kl, k1)
             cc == Cat(cl, c1)
             p == i - 1
             q == len - i
  <1>1. p \in Nat /\ q \in Nat /\ 1 \in Nat /\ p + 1 \in Nat /\ p + q < len
    OBVIOUS
  <1>2. Round(Nat, keys, kl, kr, i, len) /\ Round(Nat, children, cl, cr, i, len)
    BY AllRound, Zenon
  <1>3. Pairs(k1, c1) = <<e>> /\ Len(k1) = 1 /\ Len(c1) = 1
    <2>1. e = [key |-> keys[i], value |-> children[i]]
      BY DEF Entry
    <2> QED BY <2>1 DEF Pairs
  <1> HIDE DEF kl, kr, cl, cr
  <1>4. /\ keys = Cat(kk, kr) /\ children = Cat(cc, cr) /\ k1 \in Seq(Nat) /\ c1 \in Seq(Nat)
        /\ kl \in Seq(Nat) /\ kr \in Seq(Nat) /\ cl \in Seq(Nat) /\ cr \in Seq(Nat)
        /\ Len(kl) = p /\ Len(kr) = q /\ Len(cl) = p /\ Len(cr) = q
    BY <1>2, Zenon DEF Round
  <1> HIDE DEF p, q, k1, c1
  <1>5. a \in Seq(Entry) /\ b \in Seq(Entry) /\ Len(a) = p /\ Len(b) = q
    BY <1>4, PairsCat
  <1>6. kk \in Seq(Nat) /\ cc \in Seq(Nat) /\ Len(kk) = p + 1 /\ Len(cc) = p + 1
    <2>1. Spliced(Nat, kk, kl, k1, p, 1) /\ Spliced(Nat, cc, cl, c1, p, 1)
      BY <1>1, <1>3, <1>4, AllCat, Zenon
    <2> QED BY <2>1, Zenon DEF Spliced
  <1> DEFINE km == Cat(kl, kr)
             cm == Cat(cl, cr)
  <1>7. km \in Seq(Nat) /\ cm \in Seq(Nat) /\ Len(km) = p + q /\ Len(cm) = p + q
    <2>1. Spliced(Nat, km, kl, kr, p, q) /\ Spliced(Nat, cm, cl, cr, p, q)
      BY <1>1, <1>4, AllCat, Zenon
    <2> QED BY <2>1, Zenon DEF Spliced
  <1>8. Len(kl) = Len(cl) /\ Len(kr) = Len(cr) /\ Len(k1) = Len(c1) /\ Len(kk) = Len(cc)
    BY <1>3, <1>4, <1>6, Zenon
  <1>9. Pairs(kk, cc) = Cat(a, <<e>>)
    <2>1. \A c, d \in Seq(Nat) : Len(kl) = Len(c) /\ Len(k1) = Len(d) => Pairs(Cat(kl, k1), Cat(c, d)) = Cat(Pairs(kl, c), Pairs(k1, d))
      <3>1. kl \in Seq(Nat) /\ k1 \in Seq(Nat)
        BY <1>4, Zenon
      <3> QED BY <3>1, AllPairs, Zenon
    <2>2. Pairs(Cat(kl, k1), Cat(cl, c1)) = Cat(Pairs(kl, cl), Pairs(k1, c1))
      BY <1>4, <1>8, <2>1, Zenon
    <2> QED BY <1>3, <2>2, Zenon
  <1>10. Pairs(km, cm) = Cat(a, b)
    <2>1. \A c, d \in Seq(Nat) : Len(kl) = Len(c) /\ Len(kr) = Len(d) => Pairs(Cat(kl, kr), Cat(c, d)) = Cat(Pairs(kl, c), Pairs(kr, d))
      <3>1. kl \in Seq(Nat) /\ kr \in Seq(Nat)
        BY <1>4, Zenon
      <3> QED BY <3>1, AllPairs, Zenon
    <2> QED BY <1>4, <1>8, <2>1, Zenon
  <1> HIDE DEF a, b, kk, cc, km, cm
  <1>11. Pairs(Cat(kk, kr), Cat(cc, cr)) = Cat(Pairs(kk, cc), b)
    <2>1. \A c, d \in Seq(Nat) : Len(kk) = Len(c) /\ Len(kr) = Len(d) => Pairs(Cat(kk, kr), Cat(c, d)) = Cat(Pairs(kk, c), Pairs(kr, d))
      <3>1. kk \in Seq(Nat) /\ kr \in Seq(Nat)
        BY <1>4, <1>6, Zenon
      <3> QED BY <3>1, AllPairs, Zenon
    <2> QED BY <1>4, <1>6, <1>8, <2>1, Zenon DEF b
  <1>12. Append(a, e) = Cat(a, <<e>>)
    BY <1>5, CatEnds
  <1>13. Without(keys, children, i, a, b, e)
    <2>1. Pairs(keys, children) = Cat(Append(a, e), b)
      BY <1>4, <1>9, <1>11, <1>12, Zenon
    <2>2. km = Cat(Before(keys, i), After(keys, i)) /\ cm = Cat(Before(children, i), After(children, i))
      BY DEF km, cm, kl, kr, cl, cr
    <2>3. Len(km) = Len(cm) /\ Len(km) < Len(keys)
      BY <1>1, <1>7
    <2> QED BY <1>5, <1>7, <1>10, <2>1, <2>2, <2>3, Zenon DEF Without
  <1> QED BY <1>13, Zenon

\* A leaf without one of its entries.
LEMMA LeafShorter ==
  ASSUME NEW n, NEW low, NEW high, NEW mode, LeafOK(n, low, high, mode), NEW e \in Entry,
         NEW j \in DOMAIN n.keys, n.keys[j] = e.key, n.children[j] = e.value,
         NEW m, m = Leaf(Cat(Before(n.keys, j), After(n.keys, j)), Cat(Before(n.children, j), After(n.children, j)))
  PROVE  LeafOK(m, low, high, mode) /\ Len(m.keys) < Len(n.keys) /\ Longer(Under(m), Under(n), e)
  <1> DEFINE x == Cat(Before(n.keys, j), After(n.keys, j))
             y == Cat(Before(n.children, j), After(n.children, j))
  <1>1. /\ n \in Nodes[0] /\ low \in Nat /\ high \in Nat /\ mode \in Modes /\ Len(n.children) = Len(n.keys)
        /\ InOrder(Under(n)) /\ \A z \in ToSet(Under(n)) : low <= z.key /\ z.key <= high
        /\ mode = "strict" => KeysOnce(Under(n))
    BY DEF LeafOK
  <1>2. n.keys \in Seq(Nat) /\ n.children \in Seq(Nat) /\ Len(n.keys) \in Nat /\ j \in 1 .. Len(n.keys)
    BY <1>1, NodeFields
  <1>3. PICK a, b : Without(n.keys, n.children, j, a, b, e)
    BY <1>1, <1>2, PairsWithout
  <1>4. /\ Pairs(n.keys, n.children) = Cat(Append(a, e), b) /\ a \in Seq(Entry) /\ b \in Seq(Entry) /\ Pairs(x, y) = Cat(a, b)
        /\ x \in Seq(Nat) /\ y \in Seq(Nat) /\ Len(x) = Len(y) /\ Len(x) < Len(n.keys)
    BY <1>3, Zenon DEF Without
  <1>5. m = Leaf(x, y)
    OBVIOUS
  <1> HIDE DEF x, y
  <1>6. m \in Nodes[0] /\ m.keys = x /\ m.children = y
    BY <1>4, <1>5, NodeFields DEF Leaf
  <1>7. Under(n) = Cat(Append(a, e), b)
    <2>1. Under(n) = Pairs(n.keys, n.children)
      BY <1>1, UnderIs
    <2> QED BY <1>4, <2>1
  <1>8. Under(m) = Cat(a, b)
    <2>1. Under(m) = Pairs(m.keys, m.children)
      BY <1>6, UnderIs
    <2> QED BY <1>4, <1>6, <2>1
  <1>9. /\ ToSet(Cat(Append(a, e), b)) = ToSet(Cat(a, b)) \cup {e}
        /\ InOrder(Cat(Append(a, e), b)) => InOrder(Cat(a, b))
        /\ KeysOnce(Cat(Append(a, e), b)) => KeysOnce(Cat(a, b))
    BY <1>4, Amid
  <1>10. InOrder(Under(m)) /\ (\A z \in ToSet(Under(m)) : low <= z.key /\ z.key <= high) /\ (mode = "strict" => KeysOnce(Under(m)))
    BY <1>1, <1>7, <1>8, <1>9
  <1>11. LeafOK(m, low, high, mode)
    BY <1>1, <1>4, <1>6, <1>10, Zenon DEF LeafOK
  <1> QED BY <1>4, <1>6, <1>7, <1>8, <1>11, Zenon DEF Longer

\* The entries w, and u that are left of them when e is removed, if it was found.
Lost(u, w, mode, e) == (u = w /\ (mode = "strict" => e \notin ToSet(w))) \/ Longer(u, w, e)

\* A leaf keeps its order without an entry.
LEMMA LeafDeleted ==
  ASSUME NEW n, NEW low, NEW high, NEW mode, Tree(0, n, low, high, mode), NEW e \in Entry
  PROVE  /\ Tree(0, TreeDelete(n, e.key, e.value), low, high, mode)
         /\ Lost(Under(TreeDelete(n, e.key, e.value)), Under(n), mode, e)
  <1> DEFINE F == Found(n, e.key, e.value)
             t == TreeDelete(n, e.key, e.value)
             j == Min(F)
  <1>1. LeafOK(n, low, high, mode) /\ n \in Nodes[0] /\ Len(n.keys) < Order
    BY LeafIs, TreeIs
  <1>2. n.keys \in Seq(Nat) /\ n.children \in Seq(Nat) /\ Len(n.keys) \in Nat /\ F \subseteq DOMAIN n.keys
        /\ \A i \in F : n.keys[i] = e.key /\ n.children[i] = e.value
    BY <1>1, NodeFields DEF Found
  <1>3. t = IF F = {} THEN n ELSE Leaf(RemoveAt(n.keys, j), RemoveAt(n.children, j))
    BY <1>1, DeleteIs, Zenon
  <1>4. F = {} => e \notin ToSet(Under(n))
    <2>1. Under(n) = Pairs(n.keys, n.children)
      BY <1>1, UnderIs
    <2> SUFFICES ASSUME NEW i \in DOMAIN Pairs(n.keys, n.children), e = Pairs(n.keys, n.children)[i] PROVE F # {}
      BY <2>1 DEF ToSet
    <2>2. i \in DOMAIN n.keys /\ e.key = n.keys[i] /\ e.value = n.children[i]
      BY DEF Pairs
    <2> QED BY <2>2 DEF Found
  <1> HIDE DEF F, t
  <1>5. CASE F = {}
    BY <1>3, <1>4, <1>5, Zenon DEF Lost, t
  <1>6. CASE F # {}
    <2>1. j \in F
      <3>1. F \subseteq Nat
        BY <1>2
      <3> HIDE DEF j
      <3> QED BY <1>6, <3>1, MinOf DEF j
    <2>2. j \in DOMAIN n.keys /\ n.keys[j] = e.key /\ n.children[j] = e.value
      BY <1>2, <2>1
    <2>3. t = Leaf(Cat(Before(n.keys, j), After(n.keys, j)), Cat(Before(n.children, j), After(n.children, j)))
      BY <1>3, <1>6 DEF RemoveAt, Cat, Before, After
    <2> HIDE DEF j
    <2>4. LeafOK(t, low, high, mode) /\ Len(t.keys) < Len(n.keys) /\ Longer(Under(t), Under(n), e)
      BY <1>1, <2>2, <2>3, LeafShorter
    <2>5. Len(t.keys) < Order
      <3>1. Len(t.keys) \in Nat
        BY <2>4, NodeFields DEF LeafOK
      <3> QED BY <1>1, <1>2, <2>4, <3>1, OrderAssumption
    <2>6. Tree(0, t, low, high, mode)
      BY <2>4, <2>5, LeafIs, Zenon
    <2> QED BY <2>4, <2>6, Zenon DEF Lost, t
  <1> QED BY <1>5, <1>6

\* A list with another element in one place.
LEMMA PutOne ==
  ASSUME NEW h \in Nat, NEW keys \in Seq(Nat), NEW children \in Seq(Nodes[h]), NEW len \in Nat, Len(keys) = len, Len(children) = len + 1,
         NEW i \in DOMAIN children, NEW c \in Nodes[h]
  PROVE  /\ PutKeys(keys, i, <<>>) = keys /\ PutNodes(children, i, <<c>>) = [children EXCEPT ![i] = c]
         /\ [children EXCEPT ![i] = c] \in Seq(Nodes[h])
  <1> DEFINE N == Nodes[h]
             pk == <<>>
             pc == <<c>>
             nk == PutKeys(keys, i, pk)
             nc == PutNodes(children, i, pc)
             w == [children EXCEPT ![i] = c]
  <1>0. i \in 1 .. len + 1 /\ i \in Nat
    OBVIOUS
  <1>1. /\ pk \in Seq(Nat) /\ Len(pk) = 0 /\ pc \in Seq(N) /\ Len(pc) = 0 + 1 /\ pc[1] = c /\ i \in 1 .. len + 1 /\ 0 \in Nat
    <2>1. c \in N
      OBVIOUS
    <2> HIDE DEF N
    <2>2. pc \in Seq(N) /\ Len(pc) = 0 + 1 /\ pc[1] = c
      BY <2>1
    <2> QED BY <1>0, <2>2
  <1> HIDE DEF pk, pc, N
  <1>2. IsPut(h, nk, nc, keys, children, len, i, pk, pc, 0)
    BY <1>1, AllPut, Zenon DEF N
  <1> HIDE DEF nk, nc
  <1>3. /\ nk \in Seq(Nat) /\ Len(nk) = len + 0
        /\ (\A j \in 1 .. i - 1 : nk[j] = keys[j])
        /\ (\A j \in 1 .. (len + 1) - i : nk[((i - 1) + 0) + j] = keys[(i - 1) + j])
    BY <1>2, Zenon DEF IsPut
  <1>4. /\ nc \in Seq(N) /\ Len(nc) = (len + 0) + 1
        /\ (\A j \in 1 .. i - 1 : nc[j] = children[j])
        /\ (\A j \in 1 .. 0 + 1 : nc[(i - 1) + j] = pc[j])
        /\ (\A j \in 1 .. (len + 1) - i : nc[(i + 0) + j] = children[i + j])
    BY <1>2, Zenon DEF IsPut, N
  <1>5. nk = keys
    <2>1. ASSUME NEW j \in 1 .. len PROVE nk[j] = keys[j]
      <3>1. CASE j <= i - 1
        BY <1>1, <1>3, <3>1
      <3>2. CASE ~ (j <= i - 1)
        <4> DEFINE t == j - (i - 1)
        <4>1. t \in 1 .. (len + 1) - i /\ ((i - 1) + 0) + t = j /\ (i - 1) + t = j
          BY <1>0, <3>2
        <4> HIDE DEF t
        <4> QED BY <1>3, <4>1, Zenon
      <3> QED BY <3>1, <3>2
    <2> QED BY <1>3, <2>1, SameList
  <1>6. w \in Seq(N) /\ Len(w) = len + 1 /\ w[i] = c /\ \A j \in 1 .. len + 1 : j # i => w[j] = children[j]
    <2>1. c \in N /\ children \in Seq(N)
      BY DEF N
    <2> QED BY <1>1, <2>1
  <1> HIDE DEF w
  <1>7. nc = w
    <2>1. ASSUME NEW j \in 1 .. len + 1 PROVE nc[j] = w[j]
      <3>1. CASE j <= i - 1
        <4>1. j \in 1 .. i - 1 /\ j # i
          BY <1>1, <3>1
        <4> QED BY <1>4, <1>6, <4>1, Zenon
      <3>2. CASE j = i
        <4>1. 1 \in 1 .. 0 + 1 /\ (i - 1) + 1 = j
          BY <1>1, <3>2
        <4>2. nc[j] = pc[1]
          BY <1>4, <4>1, Zenon
        <4> QED BY <1>1, <1>6, <3>2, <4>2, Zenon
      <3>3. CASE j > i
        <4> DEFINE t == j - i
        <4>1. t \in 1 .. (len + 1) - i /\ (i + 0) + t = j /\ i + t = j /\ j # i
          BY <1>1, <3>3
        <4> HIDE DEF t
        <4> QED BY <1>4, <1>6, <4>1, Zenon
      <3> QED BY <1>1, <3>1, <3>2, <3>3
    <2>2. /\ nc \in Seq(N) /\ w \in Seq(N) /\ Len(nc) = len + 1 /\ Len(w) = len + 1
          /\ \A j \in 1 .. Len(nc) : nc[j] = w[j]
      <3>1. nc \in Seq(N) /\ w \in Seq(N) /\ Len(nc) = len + 1 /\ Len(w) = len + 1
        BY <1>4, <1>6
      <3> QED BY <2>1, <3>1, Zenon
    <2> QED BY <2>2, SameList
  <1> QED BY <1>5, <1>6, <1>7 DEF nk, nc, w, pk, pc, N

\* What is joined around an entry may be joined further out.
LEMMA LongerAround ==
  ASSUME NEW x \in Seq(Entry), NEW y \in Seq(Entry), NEW u, NEW w, NEW e \in Entry, Longer(u, w, e)
  PROVE  Longer(Cat(Cat(x, u), y), Cat(Cat(x, w), y), e)
  <1>1. PICK a \in Seq(Entry), b \in Seq(Entry) : u = Cat(a, b) /\ w = Cat(Append(a, e), b)
    BY DEF Longer
  <1>2. a \in Seq(Entry) /\ b \in Seq(Entry) /\ u = Cat(a, b) /\ w = Cat(Append(a, e), b)
    BY <1>1
  <1>3. Append(a, e) \in Seq(Entry) /\ Append(Cat(x, a), e) = Cat(x, Append(a, e))
    BY <1>2, AllCatAppend, Zenon
  <1>4. \A c, d \in Seq(Entry) : Cat(Cat(x, Cat(c, d)), y) = Cat(Cat(x, c), Cat(d, y))
    BY CatInner
  <1>5. Cat(Cat(x, w), y) = Cat(Append(Cat(x, a), e), Cat(b, y)) /\ Cat(Cat(x, u), y) = Cat(Cat(x, a), Cat(b, y))
    BY <1>2, <1>3, <1>4, Zenon
  <1>6. Cat(x, a) \in Seq(Entry) /\ Cat(b, y) \in Seq(Entry)
    BY <1>2, ConcatSet
  <1> QED BY <1>5, <1>6, Zenon DEF Longer

\* A row keeps its order when one of its nodes loses an entry.
LEMMA RowShrunk ==
  ASSUME NEW h \in Nat, NEW keys, NEW children, NEW low, NEW high, NEW mode, Inside(h, keys, children, low, high, mode), mode # "tight",
         NEW e \in Entry, NEW i \in DOMAIN children, NEW m, Tree(h, m, Lo(keys, i, low), Hi(keys, i, high), mode),
         Lost(Under(m), Under(children[i]), mode, e),
         mode = "strict" /\ e \in ToSet(UnderAll(children)) => e \in ToSet(Under(children[i]))
  PROVE  /\ Inside(h, keys, [children EXCEPT ![i] = m], low, high, mode)
         /\ Lost(UnderAll([children EXCEPT ![i] = m]), UnderAll(children), mode, e)
  <1> DEFINE c == children[i]
             x == UnderAll(Before(children, i))
             y == UnderAll(After(children, i))
             N == Nodes[h]
             pc == <<m>>
             pk == <<>>
             w == [children EXCEPT ![i] = m]
  <1>1. keys \in Seq(Nat) /\ children \in Seq(N) /\ Len(children) = Len(keys) + 1 /\ Len(keys) \in Nat
    BY DEF Inside
  <1>2. m \in N
    BY TreeIs
  <1>3. PutKeys(keys, i, pk) = keys /\ PutNodes(children, i, pc) = w /\ w \in Seq(N)
    BY <1>1, <1>2, PutOne
  <1>4. Inside(h, pk, pc, Lo(keys, i, low), Hi(keys, i, high), mode) /\ UnderAll(pc) = Under(m)
    BY RowOfTrees, Zenon
  <1>5. ToSet(Under(m)) \subseteq ToSet(Under(c))
    <2>1. CASE Longer(Under(m), Under(c), e)
      <3>1. PICK a \in Seq(Entry), b \in Seq(Entry) : Under(m) = Cat(a, b) /\ Under(c) = Cat(Append(a, e), b)
        BY <2>1 DEF Longer
      <3>2. ToSet(Cat(Append(a, e), b)) = ToSet(Cat(a, b)) \cup {e}
        BY <3>1, Amid
      <3> QED BY <3>1, <3>2
    <2> QED BY <2>1 DEF Lost
  <1>6. Inside(h, keys, w, low, high, mode)
    <2>1. \A z \in ToSet(Under(c)) : (i \in DOMAIN keys /\ mode = "strict") => z.key < keys[i]
      <3>1. i \in DOMAIN keys => i <= i
        BY <1>1
      <3> QED BY <3>1, RowKeys
    <2> HIDE DEF pk, pc, w, c
    <2>2. mode = "strict" => \A z \in ToSet(UnderAll(pc)) : i \in DOMAIN keys => z.key < keys[i]
      BY <1>4, <1>5, <2>1
    <2>3. Inside(h, PutKeys(keys, i, pk), PutNodes(children, i, pc), low, high, mode)
      BY <1>4, <2>2, RowReplace
    <2> QED BY <1>3, <2>3
  <1>7. UnderAll(w) = Cat(Cat(x, Under(m)), y)
    <2>1. UnderAll(PutNodes(children, i, pc)) = Cat(Cat(x, UnderAll(pc)), y)
      <3> DEFINE len == Len(keys)
      <3>1. i \in 1 .. len + 1 /\ len \in Nat /\ Len(keys) = len /\ Len(children) = len + 1
        BY <1>1
      <3> DEFINE d == 0
      <3>2. pk \in Seq(Nat) /\ pc \in Seq(N) /\ Len(pk) = d /\ Len(pc) = d + 1 /\ d \in Nat
        <4> HIDE DEF N
        <4> QED BY <1>2
      <3> HIDE DEF len, pk, pc, d
      <3> QED BY <1>1, <3>1, <3>2, PutIs
    <2> QED BY <1>3, <1>4, <2>1, Zenon
  <1>8. x \in Seq(Entry) /\ y \in Seq(Entry) /\ UnderAll(children) = Cat(Cat(x, Under(c)), y)
    BY RowAround
  <1> HIDE DEF x, y, w
  <1>9. CASE Longer(Under(m), Under(c), e)
    <2>1. Longer(Cat(Cat(x, Under(m)), y), Cat(Cat(x, Under(c)), y), e)
      BY <1>8, <1>9, LongerAround
    <2> QED BY <1>6, <1>7, <1>8, <2>1, Zenon DEF Lost, w
  <1>10. CASE Under(m) = Under(c) /\ (mode = "strict" => e \notin ToSet(Under(c)))
    BY <1>6, <1>7, <1>8, <1>10, Zenon DEF Lost, w
  <1> QED BY <1>9, <1>10 DEF Lost

\* The way down of a removal leads to the only child that can hold the entry, when no
\* key is there twice.
LEMMA OnTheWay ==
  ASSUME NEW h \in Nat, NEW keys, NEW children, NEW low, NEW high, Inside(h, keys, children, low, high, "strict"),
         NEW e, NEW k \in Nat, e.key = k, e \in ToSet(UnderAll(children)), NEW i \in DOMAIN children,
         Lo(keys, i, low) <= k, i \in DOMAIN keys => k < keys[i]
  PROVE  e \in ToSet(Under(children[i]))
  <1> DEFINE x == UnderAll(Before(children, i))
             y == UnderAll(After(children, i))
             u == Under(children[i])
  <1>2. keys \in Seq(Nat) /\ children \in Seq(Nodes[h])
    BY DEF Inside
  <1>3. i - 1 \in DOMAIN keys => keys[i - 1] <= k
    <2>2. i - 1 \in DOMAIN keys => i # 1
      BY <1>2
    <2> QED BY <2>2 DEF Lo
  <1>4. /\ x \in Seq(Entry) /\ y \in Seq(Entry) /\ u \in Seq(Entry) /\ UnderAll(children) = Cat(Cat(x, u), y)
        /\ \A z \in ToSet(x) : i - 1 \in DOMAIN keys /\ z.key < keys[i - 1]
        /\ \A z \in ToSet(y) : i \in DOMAIN keys /\ keys[i] <= z.key
    BY RowAround
  <1> HIDE DEF x, y, u
  <1>5. ToSet(UnderAll(children)) = (ToSet(x) \cup ToSet(u)) \cup ToSet(y)
    <2>1. Cat(x, u) \in Seq(Entry) /\ ToSet(Cat(x, u)) = ToSet(x) \cup ToSet(u)
      BY <1>4, ConcatSet
    <2> QED BY <1>4, <2>1, ConcatSet
  <1>6. e \notin ToSet(x)
    <2> SUFFICES ASSUME e \in ToSet(x) PROVE FALSE
      OBVIOUS
    <2>1. i - 1 \in DOMAIN keys /\ k < keys[i - 1] /\ keys[i - 1] <= k /\ keys[i - 1] \in Nat
      BY <1>2, <1>3, <1>4
    <2> QED BY <2>1
  <1>7. e \notin ToSet(y)
    <2> SUFFICES ASSUME e \in ToSet(y) PROVE FALSE
      OBVIOUS
    <2>1. i \in DOMAIN keys /\ keys[i] <= k /\ k < keys[i] /\ keys[i] \in Nat
      BY <1>2, <1>3, <1>4
    <2> QED BY <2>1
  <1> QED BY <1>5, <1>6, <1>7 DEF u

\* delete: the tree keeps its order, and loses the entry if it is where the removal looks.
THEOREM DeleteMeans ==
  ASSUME NEW e \in Entry
  PROVE  \A h \in Nat : \A n, low, high, mode :
           Tree(h, n, low, high, mode) /\ mode # "tight" /\ low <= e.key /\ e.key <= high =>
             /\ Tree(h, TreeDelete(n, e.key, e.value), low, high, mode)
             /\ Lost(Under(TreeDelete(n, e.key, e.value)), Under(n), mode, e)
  <1> DEFINE P(h) == \A n, low, high, mode :
               Tree(h, n, low, high, mode) /\ mode # "tight" /\ low <= e.key /\ e.key <= high =>
                 /\ Tree(h, TreeDelete(n, e.key, e.value), low, high, mode)
                 /\ Lost(Under(TreeDelete(n, e.key, e.value)), Under(n), mode, e)
             I == {h \in Nat : P(h)}
  <1>1. P(0)
    BY LeafDeleted
  <1>2. ASSUME NEW h \in Nat, P(h) PROVE P(h + 1)
    <2> SUFFICES ASSUME NEW n, NEW low, NEW high, NEW mode, Tree(h + 1, n, low, high, mode), mode # "tight",
                        low <= e.key, e.key <= high
                 PROVE  /\ Tree(h + 1, TreeDelete(n, e.key, e.value), low, high, mode)
                        /\ Lost(Under(TreeDelete(n, e.key, e.value)), Under(n), mode, e)
      OBVIOUS
    <2> DEFINE keys == n.keys
               children == n.children
               i == Place(keys, e.key, TRUE)
               c == children[i]
               m == TreeDelete(c, e.key, e.value)
               w == [children EXCEPT ![i] = m]
               t == TreeDelete(n, e.key, e.value)
    <2>0. e.key \in Nat
      BY DEF Entry
    <2>1. Inside(h, keys, children, low, high, mode) /\ n \in Nodes[h + 1] /\ Len(keys) < Order
      BY TreeIs, Zenon
    <2>2. Under(n) = UnderAll(children) /\ n = [height |-> h + 1, keys |-> keys, children |-> children]
      BY <2>1, UnderIs, NodeFields
    <2>3. /\ i \in DOMAIN children /\ Lo(keys, i, low) <= e.key /\ e.key <= Hi(keys, i, high)
          /\ i \in DOMAIN keys => e.key < keys[i]
      <3>1. TRUE \in BOOLEAN
        OBVIOUS
      <3> HIDE DEF keys, children
      <3>2. ASSUME NEW k \in Nat, low <= k, k <= high
            PROVE  /\ Place(keys, k, TRUE) \in DOMAIN children
                   /\ Lo(keys, Place(keys, k, TRUE), low) <= k /\ k <= Hi(keys, Place(keys, k, TRUE), high)
                   /\ Place(keys, k, TRUE) \in DOMAIN keys => k < keys[Place(keys, k, TRUE)]
        BY <2>1, <3>1, <3>2, WayDown
      <3> QED BY <2>0, <3>2, Zenon
    <2>4. t = [n EXCEPT !.children = w]
      <3>1. i = Place(n.keys, e.key, TRUE)
        OBVIOUS
      <3>2. \A j \in DOMAIN n.children : j = Place(n.keys, e.key, TRUE) =>
              t = [n EXCEPT !.children = [n.children EXCEPT ![j] = TreeDelete(n.children[j], e.key, e.value)]]
        <4>1. \A g \in Nat : \A o \in Nodes[g + 1] : \A j \in DOMAIN o.children : j = Place(o.keys, e.key, TRUE) =>
                TreeDelete(o, e.key, e.value) = [o EXCEPT !.children = [o.children EXCEPT ![j] = TreeDelete(o.children[j], e.key, e.value)]]
          BY DeleteIs
        <4> QED BY <2>1, <4>1, Zenon
      <3> HIDE DEF i, t
      <3> QED BY <2>3, <3>1, <3>2, Zenon
    <2>5. mode = "strict" /\ e \in ToSet(UnderAll(children)) => e \in ToSet(Under(c))
      <3> SUFFICES ASSUME mode = "strict", e \in ToSet(UnderAll(children)) PROVE e \in ToSet(Under(c))
        OBVIOUS
      <3> HIDE DEF i, keys, children
      <3>1. ASSUME NEW k \in Nat, e.key = k, Lo(keys, i, low) <= k, i \in DOMAIN keys => k < keys[i]
            PROVE  e \in ToSet(Under(children[i]))
        BY <2>1, <2>3, <3>1, OnTheWay
      <3> QED BY <2>0, <2>3, <3>1, Zenon
    <2> HIDE DEF i, keys, children, t
    <2>6. Tree(h, c, Lo(keys, i, low), Hi(keys, i, high), mode)
      BY <2>1, <2>3 DEF Inside
    <2> HIDE DEF c
    <2>7. Tree(h, m, Lo(keys, i, low), Hi(keys, i, high), mode) /\ Lost(Under(m), Under(c), mode, e)
      BY <1>2, <2>3, <2>6, Zenon
    <2> HIDE DEF m
    <2>8. Inside(h, keys, w, low, high, mode) /\ Lost(UnderAll(w), UnderAll(children), mode, e)
      BY <2>1, <2>3, <2>5, <2>7, RowShrunk DEF c
    <2> HIDE DEF w
    <2>9. t = Internal(keys, w)
      <3>1. t = [height |-> h + 1, keys |-> keys, children |-> w]
        BY <2>2, <2>4
      <3>2. keys \in Seq(Nat) /\ w \in Seq(Nodes[h]) /\ Len(w) > 0
        BY <2>8 DEF Inside
      <3> QED BY <3>1, <3>2, NodeFields, Zenon
    <2>10. Tree(h + 1, t, low, high, mode) /\ Under(t) = UnderAll(w)
      BY <2>1, <2>8, <2>9, InternalIs
    <2> QED BY <2>2, <2>8, <2>10, Zenon DEF t
  <1>3. 0 \in I
    BY <1>1
  <1>4. ASSUME NEW h \in I PROVE h + 1 \in I
    <2>1. h \in Nat /\ P(h) /\ h + 1 \in Nat
      OBVIOUS
    <2> HIDE DEF P
    <2> QED BY <1>2, <2>1, Zenon
  <1>5. \A h \in Nat : h \in I
    <2> HIDE DEF I
    <2> QED BY <1>3, <1>4, NaturalInduction
  <1> QED BY <1>5, Zenon

--------------------------------------------------------------------------------
(* Searches.                                                                *)

\* The leaves under the children after one.
Rest(n, i) == FlattenSeq([j \in 1 .. Len(n.children) - i |-> Leaves(n.children[i + j])])

FF2 == INSTANCE FoldTheorems
         WITH Op <- LAMBDA c, x, h :
           [node \in Nodes[h] |->
              IF h = 0 THEN <<node>>
              ELSE LET i == Place(node.keys, c.key, c.past) IN x[node.children[i]] \o Rest(node, i)]

\* Induction, for the theorems about the folds of FF2.
LEMMA FF2Inductive == FF2!Inductive
  BY NaturalInduction DEF FF2!Inductive

\* The leaves from the one a way down ends in, node by node.
LEMMA LeavesFromIs ==
  ASSUME NEW c
  PROVE  /\ \A n \in Nodes[0] : LeavesFrom(n, c.key, c.past) = <<n>>
         /\ \A h \in Nat : \A n \in Nodes[h + 1] : \A i \in DOMAIN n.children : i = Place(n.keys, c.key, c.past) =>
              LeavesFrom(n, c.key, c.past) = LeavesFrom(n.children[i], c.key, c.past) \o Rest(n, i)
  <1> DEFINE from == CHOOSE f : f = [h \in Nat |-> [node \in Nodes[h] |->
              IF h = 0 THEN <<node>>
              ELSE LET i == Place(node.keys, c.key, c.past) IN f[h - 1][node.children[i]] \o Rest(node, i)]]
  <1>1. \E f : f = [h \in Nat |-> [node \in Nodes[h] |->
              IF h = 0 THEN <<node>>
              ELSE LET i == Place(node.keys, c.key, c.past) IN f[h - 1][node.children[i]] \o Rest(node, i)]]
    BY FF2!RecursionExists, FF2Inductive
  <1>4. from = [h \in Nat |-> [node \in Nodes[h] |->
              IF h = 0 THEN <<node>>
              ELSE LET i == Place(node.keys, c.key, c.past) IN from[h - 1][node.children[i]] \o Rest(node, i)]]
    BY <1>1, Zenon
  <1>5. \A n : LeavesFrom(n, c.key, c.past) = from[n.height][n]
    BY DEF LeavesFrom, Rest
  <1> HIDE DEF from
  <1>6. ASSUME NEW h \in Nat, NEW n \in Nodes[h]
        PROVE  from[h][n] =
              IF h = 0 THEN <<n>>
              ELSE LET i == Place(n.keys, c.key, c.past) IN from[h - 1][n.children[i]] \o Rest(n, i)
    <2>1. from[h] = [node \in Nodes[h] |->
              IF h = 0 THEN <<node>>
              ELSE LET i == Place(node.keys, c.key, c.past) IN from[h - 1][node.children[i]] \o Rest(node, i)]
      BY <1>4, Zenon
    <2> QED BY <2>1, Zenon
  <1>7. ASSUME NEW n \in Nodes[0] PROVE LeavesFrom(n, c.key, c.past) = <<n>>
    <2>1. n.height = 0 /\ 0 \in Nat
      BY NodeFields
    <2> QED BY <1>5, <1>6, <2>1, Zenon
  <1>8. ASSUME NEW h \in Nat, NEW n \in Nodes[h + 1], NEW i \in DOMAIN n.children, i = Place(n.keys, c.key, c.past)
        PROVE  LeavesFrom(n, c.key, c.past) = LeavesFrom(n.children[i], c.key, c.past) \o Rest(n, i)
    <2> DEFINE g == h + 1
    <2>1. g \in Nat /\ g # 0 /\ g - 1 = h /\ n.height = g
      BY NodeFields
    <2>2. n.children[i].height = h
      <3>1. n.children \in Seq(Nodes[h])
        BY NodeFields
      <3>2. n.children[i] \in Nodes[h]
        BY <3>1
      <3> QED BY <3>2, NodeFields
    <2>3. n \in Nodes[g]
      OBVIOUS
    <2> HIDE DEF g
    <2>4. from[g][n] = from[g - 1][n.children[i]] \o Rest(n, i)
      BY <1>6, <1>8, <2>1, <2>3, Zenon
    <2>5. from[g - 1][n.children[i]] = LeavesFrom(n.children[i], c.key, c.past)
      BY <1>5, <2>1, <2>2, Zenon
    <2>6. LeavesFrom(n, c.key, c.past) = from[g][n]
      BY <1>5, <2>1, Zenon
    <2> QED BY <2>4, <2>5, <2>6, Zenon
  <1> QED BY <1>7, <1>8

\* The entries in the leaves under the children after one.
LEMMA RestIs ==
  ASSUME NEW h \in Nat, NEW n \in Nodes[h + 1], NEW i \in DOMAIN n.children
  PROVE  Rest(n, i) \in Seq(Nodes[0]) /\ Entries(Rest(n, i)) = UnderAll(After(n.children, i))
  <1> DEFINE k == Len(n.children) - i
             s == [j \in 1 .. k |-> Leaves(n.children[i + j])]
             r == After(n.children, i)
             N == Seq(Nodes[0])
  <1>1. n.children \in Seq(Nodes[h])
    BY NodeFields
  <1>2. k \in Nat /\ \A j \in 1 .. k : n.children[i + j] \in Nodes[h]
    BY <1>1
  <1>3. \A j \in 1 .. k : Leaves(n.children[i + j]) \in N
    BY <1>2, LeavesType
  <1>4. Len(r) = k /\ r \in Seq(Nodes[h]) /\ \A j \in 1 .. k : r[j] = n.children[i + j]
    <2> DEFINE t == n.children
               E == Nodes[h]
    <2>1. t \in Seq(E) /\ i \in 1 .. Len(t)
      BY <1>1
    <2> HIDE DEF t, E
    <2>2. /\ SubSeq(t, i + 1, Len(t)) \in Seq(E) /\ Len(SubSeq(t, i + 1, Len(t))) = Len(t) - i
          /\ \A j \in 1 .. Len(t) - i : SubSeq(t, i + 1, Len(t))[j] = t[i + j]
      BY <2>1, Around
    <2> QED BY <2>2 DEF After, t, E
  <1> DEFINE l(j) == Leaves(n.children[i + j])
  <1>5. s \in Seq(N)
    <2>1. \A j \in 1 .. k : l(j) \in N
      BY <1>3
    <2>2. s = [j \in 1 .. k |-> l(j)]
      OBVIOUS
    <2> HIDE DEF l, k, N, s
    <2> QED BY <1>2, <2>1, <2>2
  <1>6. Rest(n, i) = FlattenSeq(s)
    BY DEF Rest
  <1>7. [j \in DOMAIN s |-> Entries(s[j])] = [j \in DOMAIN r |-> Under(r[j])]
    <2>1. DOMAIN s = 1 .. k /\ \A j \in 1 .. k : s[j] = Leaves(n.children[i + j])
      OBVIOUS
    <2>2. DOMAIN r = 1 .. k
      BY <1>4
    <2> HIDE DEF s, r, k
    <2> QED BY <1>4, <2>1, <2>2 DEF Under
  <1> HIDE DEF s, r, k
  <1>8. Entries(FlattenSeq(s)) = FlattenSeq([j \in DOMAIN s |-> Entries(s[j])])
    BY <1>5, EntriesFlatten DEF N
  <1>9. FlattenSeq(s) \in Seq(Nodes[0])
    BY <1>5, FlattenType DEF N
  <1> QED BY <1>6, <1>7, <1>8, <1>9 DEF UnderAll, r

\* Leaves that a search has reached: the entries before them are below the key.
Reached(q, u, key, past, mode) ==
  /\ q \in Seq(Nodes[0]) /\ q # <<>>
  /\ \E a \in Seq(Entry) : u = Cat(a, Entries(q)) /\ (~past \/ mode = "strict" => \A x \in ToSet(a) : x.key < key)

\* From the leaves one child leads to, and those of the children after it.
LEMMA RowReached ==
  ASSUME NEW h \in Nat, NEW n \in Nodes[h + 1], NEW low, NEW high, NEW mode, Inside(h, n.keys, n.children, low, high, mode),
         NEW key \in Nat, NEW past \in BOOLEAN, NEW i \in DOMAIN n.children,
         i - 1 \in DOMAIN n.keys => n.keys[i - 1] <= key /\ (~past => n.keys[i - 1] < key),
         NEW q, Reached(q, Under(n.children[i]), key, past, mode)
  PROVE  Reached(q \o Rest(n, i), Under(n), key, past, mode) /\ Head(q \o Rest(n, i)) = Head(q)
  <1> DEFINE b == Before(n.children, i)
             f == After(n.children, i)
             r == Rest(n, i)
             N == Nodes[0]
  <1>1. /\ UnderAll(b) \in Seq(Entry) /\ UnderAll(f) \in Seq(Entry)
        /\ Under(n) = Cat(Cat(UnderAll(b), Under(n.children[i])), UnderAll(f))
        /\ \A x \in ToSet(UnderAll(b)) : i - 1 \in DOMAIN n.keys /\ x.key <= n.keys[i - 1] /\ (mode = "strict" => x.key < n.keys[i - 1])
    BY RowAround, UnderIs
  <1>2. PICK a \in Seq(Entry) : /\ Under(n.children[i]) = Cat(a, Entries(q))
                                /\ (~past \/ mode = "strict" => \A x \in ToSet(a) : x.key < key)
    BY DEF Reached
  <1>3. q \in Seq(N) /\ q # <<>> /\ r \in Seq(N) /\ Entries(r) = UnderAll(f)
    BY RestIs DEF Reached
  <1>4. Entries(q \o r) = Cat(Entries(q), Entries(r)) /\ Entries(q) \in Seq(Entry)
    BY <1>3, EntriesConcat, EntriesAppend DEF Cat, N
  <1>5. \A x \in ToSet(UnderAll(b)) : ~past \/ mode = "strict" => x.key < key
    <2> SUFFICES ASSUME NEW x \in ToSet(UnderAll(b)), ~past \/ mode = "strict" PROVE x.key < key
      OBVIOUS
    <2>1. x.key \in Nat
      <3> DEFINE v == UnderAll(b)
      <3>1. v \in Seq(Entry) /\ x \in ToSet(v)
        BY <1>1
      <3> HIDE DEF v
      <3>2. x \in Entry
        BY <3>1 DEF ToSet
      <3> QED BY <3>2 DEF Entry
    <2>2. i - 1 \in DOMAIN n.keys /\ x.key <= n.keys[i - 1] /\ (mode = "strict" => x.key < n.keys[i - 1])
      BY <1>1
    <2>3. n.keys[i - 1] \in Nat
      <3>1. n.keys \in Seq(Nat)
        BY NodeFields
      <3> QED BY <2>2, <3>1
    <2> QED BY <2>1, <2>2, <2>3
  <1> DEFINE c == Cat(UnderAll(b), a)
  <1>6. c \in Seq(Entry) /\ ToSet(c) = ToSet(UnderAll(b)) \cup ToSet(a)
    BY <1>1, <1>2, ConcatSet
  <1>7. Under(n) = Cat(c, Entries(q \o r))
    <2>1. \A u, v, w \in Seq(Entry) : Cat(Cat(u, v), w) = Cat(u, Cat(v, w))
      BY CatAssoc
    <2>2. Cat(a, Entries(q)) \in Seq(Entry)
      BY <1>2, <1>4, ConcatSet
    <2>3. Cat(Cat(UnderAll(b), Cat(a, Entries(q))), Entries(r)) = Cat(Cat(Cat(UnderAll(b), a), Entries(q)), Entries(r))
      BY <1>1, <1>2, <1>4, <2>1, Zenon
    <2>4. Cat(Cat(c, Entries(q)), Entries(r)) = Cat(c, Cat(Entries(q), Entries(r)))
      <3>1. c \in Seq(Entry) /\ Entries(q) \in Seq(Entry)
        BY <1>4, <1>6, Zenon
      <3>2. Entries(r) \in Seq(Entry)
        BY <1>1, <1>3
      <3> HIDE DEF c, r
      <3> QED BY <2>1, <3>1, <3>2, Zenon
    <2> HIDE DEF b, f, r
    <2> QED BY <1>1, <1>2, <1>3, <1>4, <2>3, <2>4, Zenon
  <1>8. ~past \/ mode = "strict" => \A x \in ToSet(c) : x.key < key
    BY <1>2, <1>5, <1>6
  <1> HIDE DEF r, N
  <1>9. q \o r \in Seq(N) /\ q \o r # <<>> /\ Head(q \o r) = Head(q)
    BY <1>3
  <1> HIDE DEF c
  <1>10. Reached(q \o r, Under(n), key, past, mode)
    BY <1>6, <1>7, <1>8, <1>9, Zenon DEF Reached, N
  <1> QED BY <1>9, <1>10 DEF r

\* The way down of a search: at most the entries below the key are left out.
LEMMA LeavesFromMeans ==
  ASSUME NEW key \in Nat, NEW past \in BOOLEAN
  PROVE  \A h \in Nat : \A n, low, high, mode : Tree(h, n, low, high, mode) =>
           Reached(LeavesFrom(n, key, past), Under(n), key, past, mode)
  <1> DEFINE c == [key |-> key, past |-> past]
             F(n) == LeavesFrom(n, c.key, c.past)
             I == {h \in Nat : \A n, low, high, mode : Tree(h, n, low, high, mode) => Reached(F(n), Under(n), key, past, mode)}
  <1>0. /\ \A n \in Nodes[0] : F(n) = <<n>>
        /\ \A h \in Nat : \A n \in Nodes[h + 1] : \A i \in DOMAIN n.children : i = Place(n.keys, c.key, c.past) =>
              F(n) = F(n.children[i]) \o Rest(n, i)
    BY LeavesFromIs
  <1>00. c.key = key /\ c.past = past
    OBVIOUS
  <1> HIDE DEF F, c
  <1>1. 0 \in I
    <2> SUFFICES ASSUME NEW n, NEW low, NEW high, NEW mode, Tree(0, n, low, high, mode)
                 PROVE  Reached(F(n), Under(n), key, past, mode)
      OBVIOUS
    <2> DEFINE N == Nodes[0]
               e == Entries(<<n>>)
    <2>1. n \in N
      BY TreeIs
    <2>2. F(n) = <<n>>
      BY <1>0, <2>1
    <2>3. Under(n) = e
      <3>1. Leaves(n) = <<n>>
        BY <2>1, LeavesAre
      <3> QED BY <3>1 DEF Under
    <2>4. e \in Seq(Entry)
      BY <2>1, <2>3, UnderIs
    <2>5. e = Cat(<<>>, e) /\ <<>> \in Seq(Entry) /\ \A x \in ToSet(<<>>) : x.key < key
      <3> HIDE DEF e
      <3> QED BY <2>4 DEF Cat, ToSet
    <2>6. <<n>> \in Seq(N) /\ <<n>> # <<>>
      <3> HIDE DEF N
      <3> QED BY <2>1
    <2>7. Reached(<<n>>, e, key, past, mode)
      BY <2>5, <2>6, Zenon DEF Reached
    <2> QED BY <2>2, <2>3, <2>7, Zenon
  <1>2. ASSUME NEW h \in Nat, h \in I PROVE h + 1 \in I
    <2>0. h + 1 \in Nat
      OBVIOUS
    <2>1. ASSUME NEW n, NEW low, NEW high, NEW mode, Tree(h + 1, n, low, high, mode)
          PROVE  Reached(F(n), Under(n), key, past, mode)
      <3>1. n \in Nodes[h + 1] /\ Inside(h, n.keys, n.children, low, high, mode)
        BY <2>1, TreeIs
      <3>2. n.keys \in Seq(Nat) /\ Len(n.children) = Len(n.keys) + 1 /\ n.children \in Seq(Nodes[h])
            /\ \A i \in DOMAIN n.children : Tree(h, n.children[i], Lo(n.keys, i, low), Hi(n.keys, i, high), mode)
        BY <3>1 DEF Inside
      <3>3. PICK i \in DOMAIN n.children : i = Place(n.keys, c.key, c.past) /\ i \in 1 .. Len(n.keys) + 1
        <4>1. Place(n.keys, key, past) \in 1 .. Len(n.keys) + 1
          BY <3>2, PlaceIs
        <4>2. DOMAIN n.children = 1 .. Len(n.keys) + 1
          BY <3>2
        <4> QED BY <1>00, <4>1, <4>2
      <3>4. i - 1 \in DOMAIN n.keys => n.keys[i - 1] <= key /\ (~past => n.keys[i - 1] < key)
        <4>1. \A j \in DOMAIN n.keys : j < i => n.keys[j] <= key /\ (~past => n.keys[j] < key)
          BY <1>00, <3>2, <3>3, PlaceIs
        <4> QED BY <3>3, <4>1
      <3>5. Reached(F(n.children[i]), Under(n.children[i]), key, past, mode)
        BY <1>2, <3>2, <3>3
      <3>6. F(n) = F(n.children[i]) \o Rest(n, i)
        BY <1>0, <3>1, <3>3, Zenon
      <3>7. Reached(F(n.children[i]) \o Rest(n, i), Under(n), key, past, mode)
        BY <3>1, <3>3, <3>4, <3>5, RowReached
      <3> QED BY <3>6, <3>7, Zenon
    <2> QED BY <2>0, <2>1
  <1> HIDE DEF I
  <1>3. Nat \subseteq I
    BY <1>1, <1>2, NaturalInduction
  <1> QED BY <1>00, <1>3 DEF I, F

\* The keys of a leaf are those of its entries.
LEMMA LeafKeys ==
  ASSUME NEW n \in Nodes[0]
  PROVE  KeysUnder(n) = ToSet(n.keys)
  <1>1. Under(n) = Pairs(n.keys, n.children) /\ n.keys \in Seq(Nat)
    BY UnderIs, NodeFields
  <1> DEFINE s == n.keys
             p == Pairs(s, n.children)
  <1>2. DOMAIN p = DOMAIN s /\ \A j \in DOMAIN s : p[j].key = s[j]
    BY DEF Pairs
  <1> HIDE DEF p, s
  <1>3. {e.key : e \in ToSet(p)} = ToSet(s)
    BY <1>2 DEF ToSet
  <1> QED BY <1>1, <1>3 DEF KeysUnder, p, s

\* The leaf of a key: in a tree without duplicates, or from which nothing was removed,
\* every key that the tree has is in the leaf that _find_leaf ends in.
THEOREM FindLeafMeans ==
  ASSUME NEW key \in Nat
  PROVE  \A h \in Nat : \A n, low, high, mode : Tree(h, n, low, high, mode) /\ mode \in {"strict", "tight"} =>
           (key \in KeysUnder(n) => key \in ToSet(FindLeaf(n, key).keys))
  <1> DEFINE c == [key |-> key, past |-> TRUE]
             F(n) == LeavesFrom(n, c.key, c.past)
             I == {h \in Nat : \A n, low, high, mode : Tree(h, n, low, high, mode) /\ mode \in {"strict", "tight"} =>
                                 (key \in KeysUnder(n) => key \in ToSet(Head(F(n)).keys))}
  <1>0. /\ \A n \in Nodes[0] : F(n) = <<n>>
        /\ \A h \in Nat : \A n \in Nodes[h + 1] : \A i \in DOMAIN n.children : i = Place(n.keys, c.key, c.past) =>
              F(n) = F(n.children[i]) \o Rest(n, i)
    BY LeavesFromIs
  <1>00. c.key = key /\ c.past = TRUE
    OBVIOUS
  <1>000. \A h \in Nat : \A n, low, high, mode : Tree(h, n, low, high, mode) => Reached(F(n), Under(n), key, TRUE, mode)
    BY LeavesFromMeans
  <1> HIDE DEF F, c
  <1>1. 0 \in I
    <2> SUFFICES ASSUME NEW n, NEW low, NEW high, NEW mode, Tree(0, n, low, high, mode), key \in KeysUnder(n)
                 PROVE  key \in ToSet(Head(F(n)).keys)
      OBVIOUS
    <2>1. n \in Nodes[0]
      BY TreeIs
    <2>2. F(n) = <<n>>
      BY <1>0, <2>1
    <2>3. Head(<<n>>) = n
      OBVIOUS
    <2> QED BY <2>1, <2>2, <2>3, LeafKeys
  <1>2. ASSUME NEW h \in Nat, h \in I PROVE h + 1 \in I
    <2>0. h + 1 \in Nat
      OBVIOUS
    <2>1. ASSUME NEW n, NEW low, NEW high, NEW mode, Tree(h + 1, n, low, high, mode), mode \in {"strict", "tight"}, key \in KeysUnder(n)
          PROVE  key \in ToSet(Head(F(n)).keys)
      <3>1. n \in Nodes[h + 1] /\ Inside(h, n.keys, n.children, low, high, mode)
        BY <2>1, TreeIs
      <3>2. /\ n.keys \in Seq(Nat) /\ Len(n.children) = Len(n.keys) + 1 /\ n.children \in Seq(Nodes[h]) /\ Sorted(n.keys, low, high)
            /\ \A i \in DOMAIN n.children : Tree(h, n.children[i], Lo(n.keys, i, low), Hi(n.keys, i, high), mode)
            /\ \A i \in DOMAIN n.keys : Apart(mode, n.keys[i], n.children[i], n.children[i + 1])
        BY <3>1 DEF Inside
      <3>3. PICK i \in DOMAIN n.children : i = Place(n.keys, c.key, c.past) /\ i \in 1 .. Len(n.keys) + 1
        <4>1. Place(n.keys, key, TRUE) \in 1 .. Len(n.keys) + 1
          BY <3>2, PlaceIs
        <4>2. DOMAIN n.children = 1 .. Len(n.keys) + 1
          BY <3>2
        <4> QED BY <1>00, <4>1, <4>2
      <3>4. /\ \A j \in DOMAIN n.keys : j < i => n.keys[j] <= key
            /\ i \in DOMAIN n.keys => key < n.keys[i]
        BY <1>00, <3>2, <3>3, PlaceIs
      <3>5. key \in KeysUnder(n.children[i])
        <4>1. PICK x \in ToSet(Under(n)) : x.key = key
          BY <2>1 DEF KeysUnder
        <4>2. Under(n) = UnderAll(n.children)
          BY <3>1, UnderIs
        <4>3. PICK j \in DOMAIN n.children : x \in ToSet(Under(n.children[j]))
          BY <3>2, <4>1, <4>2, UnderAllHas
        <4>4. /\ \A m \in DOMAIN n.keys : m < j => n.keys[m] <= key
              /\ \A m \in DOMAIN n.keys : j <= m => key <= n.keys[m] /\ (mode = "strict" => key < n.keys[m])
          BY <3>1, <4>1, <4>3, RowKeys
        <4>5. CASE j = i
          BY <4>1, <4>3, <4>5 DEF KeysUnder
        <4>6. CASE j > i
          BY <3>2, <3>3, <3>4, <4>3, <4>4, <4>6
        <4>7. CASE j < i
          <5>8. n.keys \in Seq(Nat) /\ DOMAIN n.keys = 1 .. Len(n.keys) /\ i \in Nat /\ j \in Nat /\ j >= 1
            BY <3>2, <3>3, <4>3
          <5>9. i - 1 \in DOMAIN n.keys /\ j <= i - 1 /\ (i - 1) + 1 = i
            BY <3>3, <4>7, <5>8
          <5>1. i - 1 \in DOMAIN n.keys /\ j <= i - 1 /\ (i - 1) + 1 = i /\ n.keys[i - 1] \in Nat
            BY <5>8, <5>9
          <5>0. i - 1 < i
            BY <3>3
          <5> DEFINE k == n.keys[i - 1]
          <5>2. k <= key /\ key <= k /\ (mode = "strict" => key < k)
            BY <3>4, <4>4, <5>0, <5>1
          <5>3. k \in Nat
            BY <5>1
          <5>4. Apart(mode, k, n.children[i - 1], n.children[i])
            BY <3>2, <5>1
          <5> HIDE DEF k
          <5>5. k = key /\ mode = "tight"
            BY <2>1, <5>2, <5>3
          <5>6. k \in KeysUnder(n.children[i])
            BY <5>4, <5>5, Zenon DEF Apart
          <5> QED BY <5>5, <5>6, Zenon
        <4>8. i \in Nat /\ j \in Nat
          BY <3>2, <3>3, <4>3
        <4>9. j = i \/ j > i \/ j < i
          BY <4>8
        <4> QED BY <4>5, <4>6, <4>7, <4>9, Zenon
      <3>6. Tree(h, n.children[i], Lo(n.keys, i, low), Hi(n.keys, i, high), mode)
        BY <3>2, <3>3
      <3>7. key \in ToSet(Head(F(n.children[i])).keys)
        BY <1>2, <2>1, <3>5, <3>6
      <3>8. Reached(F(n.children[i]), Under(n.children[i]), key, TRUE, mode)
        BY <1>000, <3>6
      <3>9. F(n) = F(n.children[i]) \o Rest(n, i)
        BY <1>0, <3>1, <3>3, Zenon
      <3>10. Head(F(n.children[i]) \o Rest(n, i)) = Head(F(n.children[i]))
        <4>1. Rest(n, i) \in Seq(Nodes[0])
          BY <3>1, <3>3, RestIs
        <4>2. F(n.children[i]) \in Seq(Nodes[0]) /\ F(n.children[i]) # <<>>
          BY <3>8 DEF Reached
        <4> QED BY <4>1, <4>2
      <3> QED BY <3>7, <3>9, <3>10, Zenon
    <2> QED BY <2>0, <2>1
  <1> HIDE DEF I
  <1>3. Nat \subseteq I
    BY <1>1, <1>2, NaturalInduction
  <1> QED BY <1>00, <1>3 DEF I, F, FindLeaf

\* The loop over sorted entries ends behind the last one not above the bound.
LEMMA UpToIs ==
  ASSUME NEW s \in Seq(Entry), InOrder(s), NEW key \in Nat
  PROVE  /\ UpTo(s, key) \in Seq(Entry) /\ ToSet(UpTo(s, key)) = {x \in ToSet(s) : x.key <= key}
         /\ Once(s) => Once(UpTo(s, key))
  <1> DEFINE n == Len(s)
             A == {i \in DOMAIN s : key < s[i].key} \cup {n + 1}
             m == Min(A)
             u == UpTo(s, key)
  <1>1. n \in Nat /\ DOMAIN s = 1 .. n /\ \A i \in 1 .. n : s[i] \in Entry /\ s[i].key \in Nat
    <2>1. n \in Nat /\ DOMAIN s = 1 .. n /\ \A i \in 1 .. n : s[i] \in Entry
      OBVIOUS
    <2> QED BY <2>1 DEF Entry
  <1>2. m \in A /\ \A x \in A : m <= x
    <2>1. A \subseteq Nat /\ A # {}
      BY <1>1
    <2> HIDE DEF A
    <2> QED BY <2>1, MinOf
  <1>3. m \in 1 .. n + 1
    BY <1>1, <1>2
  <1>4. u = SubSeq(s, 1, m - 1)
    BY DEF UpTo
  <1>5. \A i \in 1 .. n : i < m <=> s[i].key <= key
    <2> SUFFICES ASSUME NEW i \in 1 .. n PROVE i < m <=> s[i].key <= key
      OBVIOUS
    <2>1. CASE i < m
      <3>1. i \notin A
        <4>1. \A x \in A : m <= x
          BY <1>2
        <4>2. m \in Nat /\ i \in Nat
          BY <1>1, <1>3
        <4> HIDE DEF A, m
        <4> QED BY <2>1, <4>1, <4>2
      <3>2. ~ (key < s[i].key)
        BY <1>1, <3>1
      <3> QED BY <1>1, <2>1, <3>2
    <2>2. CASE ~ (i < m)
      <3>1. m \in 1 .. n /\ m <= i
        BY <1>1, <1>3, <2>2
      <3>2. key < s[m].key
        BY <1>1, <1>2, <3>1
      <3>3. s[m].key <= s[i].key
        BY <1>1, <3>1 DEF InOrder
      <3>4. s[m].key \in Nat /\ s[i].key \in Nat
        BY <1>1, <3>1
      <3> QED BY <2>2, <3>2, <3>3, <3>4
    <2> QED BY <2>1, <2>2
  <1> HIDE DEF A, m
  <1>6. u \in Seq(Entry) /\ DOMAIN u = 1 .. m - 1 /\ \A i \in 1 .. m - 1 : u[i] = s[i]
    BY <1>1, <1>3, <1>4
  <1> HIDE DEF u, n
  <1>7. \A i \in 1 .. n : i \in 1 .. m - 1 <=> i < m
    BY <1>1, <1>3
  <1>8. \A i \in 1 .. m - 1 : i \in 1 .. n
    BY <1>1, <1>3
  <1>9. ToSet(u) = {x \in ToSet(s) : x.key <= key}
    <2>1. ASSUME NEW x \in ToSet(u) PROVE x \in ToSet(s) /\ x.key <= key
      BY <1>1, <1>5, <1>6, <1>7, <1>8 DEF ToSet
    <2>2. ASSUME NEW x \in ToSet(s), x.key <= key PROVE x \in ToSet(u)
      <3>1. PICK i \in 1 .. n : s[i] = x
        BY <1>1 DEF ToSet
      <3>2. i \in 1 .. m - 1
        BY <1>5, <1>7, <2>2, <3>1
      <3> QED BY <1>6, <3>1, <3>2 DEF ToSet
    <2> QED BY <2>1, <2>2
  <1>10. Once(s) => Once(u)
    BY <1>1, <1>6, <1>8 DEF Once
  <1> QED BY <1>6, <1>9, <1>10 DEF u

VF == INSTANCE FoldTheorems
        WITH Op <- LAMBDA c, found, e : IF e.key \in c THEN Append(found, e.value) ELSE found

\* Induction, for the theorems about the folds of VF.
LEMMA VFInductive == VF!Inductive
  BY NaturalInduction DEF VF!Inductive

\* Entries whose numbers tell them apart.
Telling(S, K) ==
  /\ \A x \in S : x.key \in K => x.value \in Nat
  /\ \A x, y \in S : x.key \in K /\ y.key \in K /\ x.value = y.value => x = y

\* The numbers that the loop collects, each once.
LEMMA ValuesOfAre ==
  ASSUME NEW K, NEW S, Telling(S, K), NEW s \in Seq(Entry), ToSet(s) \subseteq S, Once(s)
  PROVE  /\ ValuesOf(s, K) \in Seq(Nat) /\ Once(ValuesOf(s, K))
         /\ \A i : i \in ToSet(ValuesOf(s, K)) <=> \E x \in ToSet(s) : x.key \in K /\ x.value = i
  <1> DEFINE V(q) == VF!Fold(K, <<>>, q)
             Good(q) == /\ V(q) \in Seq(Nat) /\ Once(V(q))
                        /\ \A i : i \in ToSet(V(q)) <=> \E x \in ToSet(q) : x.key \in K /\ x.value = i
             I == {q \in Seq(Entry) : ToSet(q) \subseteq S /\ Once(q) => Good(q)}
  <1>1. \A q : ValuesOf(q, K) = V(q)
    BY DEF ValuesOf, VF!Fold, FoldLeft, MapThenFoldSet, VF!MapThenFoldSet, Max, VF!Top
  <1>2. V(<<>>) = <<>>
    BY VF!FoldEmpty, VFInductive
  <1>3. \A q \in Seq(Entry), e \in Entry : V(Append(q, e)) = IF e.key \in K THEN Append(V(q), e.value) ELSE V(q)
    BY VF!FoldAppend, VFInductive
  <1> HIDE DEF V
  <1>4. <<>> \in I
    <2> DEFINE o == <<>>
    <2>1. o \in Seq(Entry) /\ o \in Seq(Nat) /\ DOMAIN o = {}
      OBVIOUS
    <2>2. V(o) = o
      BY <1>2
    <2> HIDE DEF o
    <2>3. Once(o) /\ ToSet(o) = {}
      BY <2>1 DEF Once, ToSet
    <2>4. o \in I
      BY <2>1, <2>2, <2>3
    <2> QED BY <2>4 DEF o
  <1>5. ASSUME NEW q \in Seq(Entry), NEW e \in Entry, q \in I PROVE Append(q, e) \in I
    <2> DEFINE w == Append(q, e)
    <2>1. w \in Seq(Entry) /\ ToSet(w) = ToSet(q) \cup {e} /\ (Once(w) <=> Once(q) /\ e \notin ToSet(q))
      BY OnceAppend
    <2>2. V(w) = IF e.key \in K THEN Append(V(q), e.value) ELSE V(q)
      BY <1>3
    <2> HIDE DEF w
    <2> SUFFICES ASSUME ToSet(w) \subseteq S, Once(w) PROVE Good(w)
      BY <2>1 DEF w
    <2>3. Good(q) /\ e \in S /\ e \notin ToSet(q) /\ ToSet(q) \subseteq S
      BY <1>5, <2>1
    <2>4. CASE e.key \notin K
      BY <2>1, <2>2, <2>3, <2>4
    <2>5. CASE e.key \in K
      <3>1. e.value \in Nat
        BY <2>3, <2>5 DEF Telling
      <3>2. e.value \notin ToSet(V(q))
        <4> SUFFICES ASSUME e.value \in ToSet(V(q)) PROVE FALSE
          OBVIOUS
        <4>1. PICK x \in ToSet(q) : x.key \in K /\ x.value = e.value
          BY <2>3
        <4>2. x \in S
          BY <2>3, <4>1
        <4> QED BY <2>3, <2>5, <4>1, <4>2 DEF Telling
      <3> DEFINE v == V(q)
                 a == Append(v, e.value)
      <3>3. v \in Seq(Nat) /\ Once(v)
        BY <2>3
      <3> HIDE DEF v
      <3>4. a \in Seq(Nat) /\ ToSet(a) = ToSet(v) \cup {e.value} /\ (Once(a) <=> Once(v) /\ e.value \notin ToSet(v))
        BY <3>1, <3>3, OnceAppend
      <3> HIDE DEF a
      <3>5. V(w) = a
        BY <2>2, <2>5 DEF a, v
      <3>6. Once(a)
        BY <3>2, <3>3, <3>4 DEF v
      <3>7. \A i : i \in ToSet(v) <=> \E x \in ToSet(q) : x.key \in K /\ x.value = i
        BY <2>3 DEF v
      <3>8. \A i : i \in ToSet(a) <=> \E x \in ToSet(w) : x.key \in K /\ x.value = i
        BY <2>1, <2>5, <3>4, <3>7
      <3> QED BY <3>4, <3>5, <3>6, <3>8
    <2> QED BY <2>4, <2>5
  <1> HIDE DEF I
  <1>6. s \in I
    <2>1. Seq(Entry) \subseteq I
      BY <1>4, <1>5, L!SequenceInduction, LInductive
    <2> QED BY <2>1
  <1>7. Good(s)
    BY <1>6 DEF I
  <1> QED BY <1>1, <1>7

================================================================================
