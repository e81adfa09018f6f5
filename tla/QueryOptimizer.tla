------------------------------ MODULE QueryOptimizer ------------------------------
(***************************************************************************)
(* QueryOptimizer: the rules that rewrite the tree of a statement before it *)
(* is executed, round after round until a round changes nothing.            *)
(*                                                                          *)
(* Three of the four rules look for nodes the parser never makes (JOIN,     *)
(* WHERE over a SELECT, a projection in a projection): their guards are     *)
(* here, their rewriting is not.  Of SelectionRule only the step that turns *)
(* a product into a join finds anything to do: a WHERE clause is one        *)
(* SELECTION_STMT, whose conditions the other two steps do not see.         *)
(***************************************************************************)
EXTENDS QueryParser, FiniteSetsExt

RECURSIVE FindNodes(_, _), FindAt(_, _), JoinCondition(_), Replaced(_, _, _)

\* find_nodes_by_type: in preorder.
FindNodes(tree, type) ==
  LET below == [i \in DOMAIN tree.childs |-> FindNodes(tree.childs[i], type)]
  IN (IF tree.type = type THEN <<tree>> ELSE <<>>) \o FlattenSeq(below)

Has(tree, type) == FindNodes(tree, type) # <<>>

\* Where the first node of a type is: the child to take at each level.
FindAt(tree, type) ==
  IF tree.type = type THEN <<>>
  ELSE LET i == CHOOSE i \in DOMAIN tree.childs :
                  /\ Has(tree.childs[i], type)
                  /\ \A j \in 1 .. i - 1 : ~Has(tree.childs[j], type)
       IN <<i>> \o FindAt(tree.childs[i], type)

Replaced(tree, path, node) ==
  IF path = <<>> THEN node
  ELSE [tree EXCEPT !.childs[Head(path)] = Replaced(@, Tail(path), node)]

--------------------------------------------------------------------------------
(* SelectionRule                                                            *)

HasSelection(tree) == Has(tree, "WHERE") \/ Has(tree, "SELECTION_STMT")

HasSelectionOverJoinOrProduct(tree) ==
  /\ HasSelection(tree)
  /\ \E type \in {"JOIN", "THETA_JOIN", "CROSS_JOIN"} : Has(tree, type)

HasCascadedSelections(tree) ==
  Len(FindNodes(tree, "WHERE")) + Len(FindNodes(tree, "SELECTION_STMT")) > 1

\* An equality of two columns that are qualified differently.
JoinsTables(node) ==
  /\ node.type = "OPERATOR" /\ node.val = "=" /\ Len(node.childs) >= 2
  /\ \A i \in 1 .. 2 : node.childs[i].type = "COLUMN" /\ node.childs[i].val[1] # ""
  /\ node.childs[1].val[1] # node.childs[2].val[1]

\* _find_join_condition_in_selection: the first such equality below a node, whatever
\* stands above it and whatever tables it names.
JoinCondition(node) ==
  IF JoinsTables(node) THEN <<node>>
  ELSE LET below == [i \in DOMAIN node.childs |-> JoinCondition(node.childs[i])]
           found == SelectSeq(below, LAMBDA c : c # <<>>)
       IN IF found = <<>> THEN <<>> ELSE Head(found)

\* _combine_selection_with_join: the first product becomes a join on the first
\* condition found; the selection stays.
CombineSelectionWithJoin(tree) ==
  IF ~Has(tree, "SELECTION_STMT") \/ ~Has(tree, "CROSS_JOIN") THEN tree
  ELSE LET selection == Head(FindNodes(tree, "SELECTION_STMT"))
           cross == Head(FindNodes(tree, "CROSS_JOIN"))
           condition == JoinCondition(selection)
       IN IF condition = <<>> THEN tree
          ELSE Replaced(tree, FindAt(tree, "CROSS_JOIN"),
                        Node("THETA_JOIN", cross.val, cross.childs \o condition))

SelectionRule(tree) ==
  IF tree.type = "PROJECTION" /\ (HasCascadedSelections(tree) \/ HasSelectionOverJoinOrProduct(tree))
    THEN CombineSelectionWithJoin(tree)
    ELSE tree

--------------------------------------------------------------------------------
(* The other rules                                                          *)

DistributionRuleApplies(tree) ==
  /\ tree.type = "PROJECTION"
  /\ Has(tree, "JOIN") /\ (Has(tree, "WHERE") \/ Has(tree, "COLUMN"))

ProjectionRuleApplies(tree) ==
  /\ tree.type = "PROJECTION"
  /\ Len(FindNodes(tree, "SELECT")) > 1 \/ Len(FindNodes(tree, "PROJECTION")) > 1

JoinRuleApplies(tree) == Len(FindNodes(tree, "JOIN")) >= 2

OtherRuleApplies(tree) ==
  DistributionRuleApplies(tree) \/ ProjectionRuleApplies(tree) \/ JoinRuleApplies(tree)

\* optimize: at most ten rounds.
MaxRounds == 10

RECURSIVE Rounds(_, _)
Rounds(tree, n) ==
  LET next == SelectionRule(tree)
  IN IF n = MaxRounds \/ next = tree THEN next ELSE Rounds(next, n + 1)

Optimized(tree) == Rounds(tree, 1)

================================================================================
