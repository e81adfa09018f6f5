----------------------------- MODULE QueryOperators -----------------------------
(***************************************************************************)
(* The operators of the query processor on rows: projection, selection,     *)
(* joins, ordering, limit.  A database is a function from the names of the  *)
(* tables there are to their columns and rows.                              *)
(*                                                                          *)
(* Rows hold numbers only.  What a condition may compare besides, the       *)
(* missing column (None) and the name of a nested operator (a string), is   *)
(* tagged; Python orders neither against a number.                          *)
(***************************************************************************)
EXTENDS QueryOptimizer, FiniteSets, TLC

\* The rows an operator returns, in order, the columns of each in order, and the
\* name of the table that still qualifies them, "" if none does.
Rows(table, cols, data) == [ok |-> TRUE, table |-> table, cols |-> cols, data |-> data]
NoRows == Rows("", <<>>, <<>>)
Raised == [NoRows EXCEPT !.ok = FALSE]

Num(n) == <<"num", n>>
Str(s) == <<"str", s>>
None == <<"none", 0>>

--------------------------------------------------------------------------------
(* Conditions                                                               *)

\* _evaluate_condition of the storage engine: an operator it does not know is false.
Compared(op, x, y) ==
  LET ordered == x[1] = "num" /\ y[1] = "num"
      Answer(b) == IF b THEN "true" ELSE "false"
  IN CASE op = "=" -> Answer(x = y)
       [] op = "<>" -> Answer(x # y)
       [] op \notin {"=", "<>", "<", "<=", ">", ">="} -> "false"
       [] ~ordered -> "raise"
       [] op = "<" -> Answer(x[2] < y[2])
       [] op = "<=" -> Answer(x[2] <= y[2])
       [] op = ">" -> Answer(x[2] > y[2])
       [] op = ">=" -> Answer(x[2] >= y[2])

\* The value a side of a comparison has in a row; an operator is not computed.
Operand(row, node) ==
  CASE node.type = "COLUMN" -> IF node.val \in DOMAIN row THEN Num(row[node.val]) ELSE None
    [] node.type = "LITERAL" -> Num(node.val)
    [] OTHER -> Str(node.val)

\* The first answer that is not neutral settles a sequence of them.
Settled(answers, neutral) ==
  LET first == SelectInSeq(answers, LAMBDA a : a # neutral)
  IN IF first = 0 THEN neutral ELSE answers[first]

RECURSIVE Evaluate(_, _), UnknownColumn(_, _)

\* _evaluate_condition_node: "true", "false", or "raise" for a TypeError.  AND and OR
\* stop at the first child that settles them.
Evaluate(row, node) ==
  LET answers == [i \in DOMAIN node.childs |-> Evaluate(row, node.childs[i])]
  IN CASE node.type # "OPERATOR" -> "true"
       [] node.val = "AND" -> Settled(answers, "true")
       [] node.val = "OR" -> Settled(answers, "false")
       [] Len(node.childs) < 2 -> "false"
       [] OTHER -> Compared(node.val, Operand(row, node.childs[1]), Operand(row, node.childs[2]))

\* _validate_columns_in_condition finds a column that the rows do not have.
UnknownColumn(node, cols) ==
  CASE node.type # "OPERATOR" -> FALSE
    [] node.val \in {"AND", "OR"} -> \E i \in DOMAIN node.childs : UnknownColumn(node.childs[i], cols)
    [] Len(node.childs) < 2 -> FALSE
    [] OTHER -> \E i \in 1 .. 2 : node.childs[i].type = "COLUMN" /\ node.childs[i].val \notin ToSet(cols)

\* _apply_condition
Selected(source, condition) ==
  LET answers == [i \in DOMAIN source.data |-> Evaluate(source.data[i], condition)]
  IN CASE source.data = <<>> \/ condition.type # "OPERATOR" -> source
       [] UnknownColumn(condition, source.cols) \/ "raise" \in ToSet(answers) -> Raised
       [] OTHER -> Rows("", source.cols, SelectSeq(source.data, LAMBDA r : Evaluate(r, condition) = "true"))

--------------------------------------------------------------------------------
(* Projection, order, limit                                                 *)

\* The first column that answers to a name of the SELECT list.
Found(cols, col) == SelectInSeq(cols, LAMBDA key : key = col \/ (col[1] = "" /\ key[2] = col[2]))

Projected(source, columns) ==
  CASE columns = <<AllColumns>> -> source
    [] source.data # <<>> /\ \E i \in DOMAIN columns : Found(source.cols, columns[i]) = 0 -> Raised
    [] source.data = <<>> -> Rows("", columns, <<>>)
    [] OTHER -> LET Of(row) == [col \in ToSet(columns) |-> row[source.cols[Found(source.cols, col)]]]
                IN Rows("", columns, [i \in DOMAIN source.data |-> Of(source.data[i])])

\* The first item only; a column is named as the rows name it.  The sort is stable
\* in both directions.
OrderedOn(source, item) ==
  LET col == item.childs[1].val
      Before(i, j) == IF item.val = "DESC" THEN source.data[i][col] > source.data[j][col]
                                           ELSE source.data[i][col] < source.data[j][col]
      First(i, j) == Before(i, j) \/ (source.data[i][col] = source.data[j][col] /\ i < j)
      order == SetToSortSeq(DOMAIN source.data, First)
  IN CASE source.data = <<>> -> source
       [] col \notin ToSet(source.cols) -> Raised
       [] OTHER -> Rows("", source.cols, [i \in DOMAIN order |-> source.data[order[i]]])

\* A limit of 0 is none.
LimitedTo(source, n) ==
  IF n <= 0 \/ n >= Len(source.data) THEN source
  ELSE Rows("", source.cols, SubSeq(source.data, 1, n))

--------------------------------------------------------------------------------
(* Relations and joins                                                      *)

\* _process_relation reads all rows of the table.
Relation(db, table) ==
  LET cols == [i \in DOMAIN db[table].columns |-> <<"", db[table].columns[i].name>>]
      Keyed(row) == [key \in ToSet(cols) |-> row[key[2]]]
  IN IF table \notin DOMAIN db THEN Raised
     ELSE Rows(table, cols, [i \in DOMAIN db[table].rows |-> Keyed(db[table].rows[i])])

\* _qualify_columns under a name; the joins do it to a side that has a table name.
QualifiedBy(name, source) ==
  LET Of(row) == [key \in {<<name, col[2]>> : col \in DOMAIN row} |-> row[<<"", key[2]>>]]
  IN Rows("", [i \in DOMAIN source.cols |-> <<name, source.cols[i][2]>>],
          [i \in DOMAIN source.data |-> Of(source.data[i])])
Qualified(source) == IF source.table = "" THEN source ELSE QualifiedBy(source.table, source)

\* Every pair of rows, the left one in the outer loop, merged; of two equal names
\* the right one wins.
Pairs(left, right) ==
  LET n == Len(right.data)
      cols == left.cols \o SelectSeq(right.cols, LAMBDA key : key \notin ToSet(left.cols))
      Merged(i) == right.data[((i - 1) % n) + 1] @@ left.data[((i - 1) \div n) + 1]
  IN Rows("", cols, [i \in 1 .. Len(left.data) * n |-> Merged(i)])

CrossJoin(left, right) == Pairs(Qualified(left), Qualified(right))

\* _process_theta_join: the columns of the condition are not validated.
ThetaJoin(left, right, condition) ==
  LET pairs == CrossJoin(left, right)
      answers == [i \in DOMAIN pairs.data |-> Evaluate(pairs.data[i], condition)]
  IN IF "raise" \in ToSet(answers) THEN Raised
     ELSE [pairs EXCEPT !.data = SelectSeq(@, LAMBDA r : Evaluate(r, condition) = "true")]

\* _natural_join on the names both sides have; without one there are no rows.
NaturalJoin(left, right) ==
  LET common == ToSet(left.cols) \cap ToSet(right.cols)
      pairs == Pairs(left, right)
      n == Len(right.data)
      Agree(i) == \A key \in common :
                    left.data[((i - 1) \div n) + 1][key] = right.data[((i - 1) % n) + 1][key]
      kept == SelectSeq([i \in DOMAIN pairs.data |-> i], Agree)
  IN IF left.data = <<>> \/ right.data = <<>> \/ common = {} THEN NoRows
     ELSE Rows("", pairs.cols, [i \in DOMAIN kept |-> pairs.data[kept[i]]])

\* The node of one operator, on the rows below it: an exception there ends it too.
OnRows(node, source) ==
  CASE ~source.ok -> Raised
    [] node.type = "PROJECTION" -> Projected(source, node.val)
    [] node.type = "ALIAS" -> QualifiedBy(node.val, source)
    [] node.type = "SELECTION_STMT" -> Selected(source, node.childs[2])
    [] node.type = "ORDER_BY" -> OrderedOn(source, node.childs[2])
    [] node.type = "LIMIT" -> LimitedTo(source, node.val)

OnBoth(node, left, right) ==
  CASE ~left.ok \/ ~right.ok -> Raised
    [] node.type = "CROSS_JOIN" -> CrossJoin(left, right)
    [] node.type = "THETA_JOIN" -> ThetaJoin(left, right, node.childs[3])
    [] node.type = "NATURAL_JOIN" -> NaturalJoin(left, right)

RECURSIVE ProcessNode(_, _)

\* _process_node for the nodes of a SELECT.
ProcessNode(db, node) ==
  CASE node.type = "RELATION" -> Relation(db, node.val)
    [] node.type = "PROJECTION" /\ node.childs = <<>> -> NoRows
    [] node.type \in {"PROJECTION", "ALIAS", "SELECTION_STMT", "ORDER_BY", "LIMIT"} ->
         OnRows(node, ProcessNode(db, node.childs[1]))
    [] node.type \in {"CROSS_JOIN", "THETA_JOIN", "NATURAL_JOIN"} ->
         OnBoth(node, ProcessNode(db, node.childs[1]), ProcessNode(db, node.childs[2]))
    [] OTHER -> Raised

================================================================================
