------------------------------- MODULE BPlusTree -------------------------------
(***************************************************************************)
(* BPlusTreeIndex: the tree of an index file, as operators on its nodes.    *)
(*                                                                          *)
(* A node holds its children; in a leaf the children are row numbers.  Its  *)
(* height, how far the leaves are below it, says what the flag leaf says.   *)
(* What the code does on its way down and up again is a function on the     *)
(* nodes of a height, defined by the one on the nodes below them.  The      *)
(* links between leaves are not stored in the file: load rebuilds them, and *)
(* the engine loads the tree before every call, so the leaf after a leaf is *)
(* the next one in order.  Keys are positive numbers that stand for the     *)
(* strings of the code, in their order.                                     *)
(***************************************************************************)
EXTENDS Naturals, Sequences, SequencesExt, FiniteSetsExt

CONSTANT Order   \* of the nodes; BPlusTreeIndex() makes them of order 5

ASSUME OrderAssumption == Order \in Nat /\ Order >= 3

--------------------------------------------------------------------------------
NoBound == 0   \* None in search_range

\* BPlusTreeNode.
Nodes[h \in Nat] ==
  [height : {h}, keys : Seq(Nat), children : Seq(IF h = 0 THEN Nat ELSE Nodes[h - 1])]

Leaf(keys, children) == [height |-> 0, keys |-> keys, children |-> children]
Internal(keys, children) ==
  [height |-> 1 + children[1].height, keys |-> keys, children |-> children]

EmptyTree == Leaf(<<>>, <<>>)

\* The first place whose key is not smaller than key: where insert puts the key,
\* and the way down of search.  Past the keys that are equal it is the way down
\* of _find_leaf.
Place(keys, key, past) ==
  Min({i \in DOMAIN keys : key < keys[i] \/ (~past /\ key = keys[i])} \cup {Len(keys) + 1})

\* _rebuild_leaf_links: the leaves in their order.
LeavesUnder[h \in Nat] ==
  [node \in Nodes[h] |->
     IF h = 0 THEN <<node>>
     ELSE FlattenSeq([i \in DOMAIN node.children |-> LeavesUnder[h - 1][node.children[i]]])]

Leaves(node) == LeavesUnder[node.height][node]

\* The leaf a way down ends in, and all that follow it in the list.
LeavesFrom(root, key, past) ==
  LET from[h \in Nat] ==
        [node \in Nodes[h] |->
           IF h = 0 THEN <<node>>
           ELSE LET i == Place(node.keys, key, past)
                IN from[h - 1][node.children[i]]
                     \o FlattenSeq([j \in 1 .. Len(node.children) - i |-> Leaves(node.children[i + j])])]
  IN from[root.height][root]

FindLeaf(root, key) == Head(LeavesFrom(root, key, TRUE))

\* The entries of a list of leaves.
Entries(leaves) ==
  FlattenSeq([i \in DOMAIN leaves |->
    [j \in DOMAIN leaves[i].keys |-> [key |-> leaves[i].keys[j], value |-> leaves[i].children[j]]]])

\* The values of the entries whose keys are in a set.
ValuesOf(entries, keys) ==
  FoldLeft(LAMBDA found, e : IF e.key \in keys THEN Append(found, e.value) ELSE found, <<>>, entries)

\* The loops over the leaves end at the first key above the bound.
UpTo(entries, key) ==
  LET above == {i \in DOMAIN entries : key < entries[i].key}
  IN SubSeq(entries, 1, Min(above \cup {Len(entries) + 1}) - 1)

\* search: the key must be in the leaf _find_leaf ends in.
Search(root, key) ==
  IF key \notin ToSet(FindLeaf(root, key).keys) THEN <<>>
  ELSE ValuesOf(UpTo(Entries(LeavesFrom(root, key, FALSE)), key), {key})

\* Variant: the lower bound excluded.
SearchRangeAbove(root, low, high) ==
  LET entries == Entries(LeavesFrom(root, low, TRUE))
  IN ValuesOf(IF high = NoBound THEN entries ELSE UpTo(entries, high), {k \in Nat : low < k})

\* search_range, both bounds included.  With no lower bound the way down is the
\* leftmost one, as it is for a bound below every key.
SearchRange(root, low, high) ==
  LET entries == Entries(LeavesFrom(root, low, TRUE))
  IN ValuesOf(IF high = NoBound THEN entries ELSE UpTo(entries, high), {k \in Nat : low <= k})

--------------------------------------------------------------------------------
\* What becomes of a node: itself, or the two halves and the key between them.
Whole(node) == [keys |-> <<>>, children |-> <<node>>]

\* Variant: the key between the halves of a leaf is the last of the left half.
SplitLeafLow(node) ==
  LET mid == Len(node.keys) \div 2
  IN [keys |-> <<node.keys[mid]>>,
      children |-> << Leaf(SubSeq(node.keys, 1, mid), SubSeq(node.children, 1, mid)),
                      Leaf(SubSeq(node.keys, mid + 1, Len(node.keys)),
                           SubSeq(node.children, mid + 1, Len(node.children))) >>]

SplitLeaf(node) ==
  LET mid == Len(node.keys) \div 2
  IN [keys |-> <<node.keys[mid + 1]>>,
      children |-> << Leaf(SubSeq(node.keys, 1, mid), SubSeq(node.children, 1, mid)),
                      Leaf(SubSeq(node.keys, mid + 1, Len(node.keys)),
                           SubSeq(node.children, mid + 1, Len(node.children))) >>]

\* Variant: the key that goes up also stays in the right half.
SplitInternalKept(node) ==
  LET mid == Len(node.keys) \div 2
  IN [keys |-> <<node.keys[mid + 1]>>,
      children |-> << Internal(SubSeq(node.keys, 1, mid), SubSeq(node.children, 1, mid + 1)),
                      Internal(SubSeq(node.keys, mid + 1, Len(node.keys)),
                               SubSeq(node.children, mid + 2, Len(node.children))) >>]

\* The key in the middle goes up and stays in neither half.
SplitInternal(node) ==
  LET mid == Len(node.keys) \div 2
  IN [keys |-> <<node.keys[mid + 1]>>,
      children |-> << Internal(SubSeq(node.keys, 1, mid), SubSeq(node.children, 1, mid + 1)),
                      Internal(SubSeq(node.keys, mid + 2, Len(node.keys)),
                               SubSeq(node.children, mid + 2, Len(node.children))) >>]

Split(node) ==
  IF Len(node.keys) <= Order - 1 THEN Whole(node)
  ELSE IF node.height = 0 THEN SplitLeaf(node) ELSE SplitInternal(node)

\* _insert_into_parent: the halves take the place of the child they were.
Adopted(node, i, parts) ==
  Internal(SubSeq(node.keys, 1, i - 1) \o parts.keys \o SubSeq(node.keys, i, Len(node.keys)),
           SubSeq(node.children, 1, i - 1) \o parts.children
             \o SubSeq(node.children, i + 1, Len(node.children)))

\* insert puts the entry in a leaf; what is split on the way up goes to the parent.
Grown(root, key, value) ==
  LET grown[h \in Nat] ==
        [node \in Nodes[h] |->
           IF h = 0
             THEN LET i == Place(node.keys, key, FALSE)
                  IN Split(Leaf(InsertAt(node.keys, i, key), InsertAt(node.children, i, value)))
             ELSE LET i == Place(node.keys, key, TRUE)
                  IN Split(Adopted(node, i, grown[h - 1][node.children[i]]))]
  IN grown[root.height][root]

Rooted(parts) ==
  IF parts.keys = <<>> THEN Head(parts.children) ELSE Internal(parts.keys, parts.children)

TreeInsert(root, key, value) == Rooted(Grown(root, key, value))

\* delete looks in one leaf only, and no node is merged or made smaller.
TreeDelete(root, key, value) ==
  LET without[h \in Nat] ==
        [node \in Nodes[h] |->
           IF h = 0
             THEN LET found == {i \in DOMAIN node.keys : node.keys[i] = key /\ node.children[i] = value}
                  IN IF found = {} THEN node
                     ELSE Leaf(RemoveAt(node.keys, Min(found)), RemoveAt(node.children, Min(found)))
             ELSE LET i == Place(node.keys, key, TRUE)
                  IN [node EXCEPT !.children[i] = without[h - 1][@]]]
  IN without[root.height][root]

--------------------------------------------------------------------------------
(* Search trees.                                                            *)

\* The leaves of the tree hold sorted keys, the keys of a node lie between the
\* keys of its children, all leaves have one depth, and no node is overfull.
Span(h) == [node : Nodes[h], low : Nat, high : Nat]

Below(s, i) ==
  LET keys == s.node.keys
  IN [node |-> s.node.children[i],
      low |-> IF i = 1 THEN s.low ELSE keys[i - 1],
      high |-> IF i = Len(keys) + 1 THEN s.high ELSE keys[i]]

Sorted(keys, low, high) ==
  /\ \A i \in DOMAIN keys : low <= keys[i] /\ keys[i] <= high
  /\ \A i, j \in DOMAIN keys : i < j => keys[i] <= keys[j]

SearchTrees[h \in Nat] ==
  {s \in Span(h) :
     /\ Len(s.node.keys) < Order /\ Sorted(s.node.keys, s.low, s.high)
     /\ Len(s.node.children) = Len(s.node.keys) + (IF h = 0 THEN 0 ELSE 1)
     /\ h # 0 => \A i \in DOMAIN s.node.children : Below(s, i) \in SearchTrees[h - 1]}

Ordered(root, low, high) ==
  [node |-> root, low |-> low, high |-> high] \in SearchTrees[root.height]

================================================================================
