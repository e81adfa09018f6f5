------------------------------- MODULE Statements -------------------------------
(***************************************************************************)
(* What the statements of one client do to the tables: each is parsed,      *)
(* optimised and executed in a transaction of its own, which is committed,  *)
(* and flushed, before the next one (auto-commit).                          *)
(*                                                                          *)
(* After a statement the disk holds what is visible, and the buffered rows  *)
(* repeat it, save those that a deletion has left behind with their         *)
(* is_deleted flag: marks.  A flush that finds no dirty row empties the     *)
(* buffer.                                                                  *)
(*                                                                          *)
(* Values are whole numbers.  The statements enumerated name the columns of *)
(* an INSERT rightly and divide by no column, so that a statement that      *)
(* raises has written nothing; one that is refused with a message may have. *)
(***************************************************************************)
EXTENDS QueryOperators

CONSTANT Plan   \* what the statements that the client may send are executed as: query trees

ASSUME PlanAssumption == \A i \in DOMAIN Plan : DOMAIN Plan[i] = {"type", "val", "childs"}

VARIABLES
  db,      \* the tables: columns and rows, in the order of the data file
  marks    \* <<table, key>> of the buffered rows that are flagged as deleted

vars == <<db, marks>>

--------------------------------------------------------------------------------
(* Rows of the storage engine                                               *)

\* During a statement: the tables, the marks and whether a row became dirty.
Fresh == [db |-> db, marks |-> marks, dirty |-> FALSE]
Outcome(s, ok, count) == [s |-> s, ok |-> ok, count |-> count]
Refused(s) == Outcome(s, FALSE, 0)

ColumnNames(columns) == {c.name : c \in ToSet(columns)}

\* The primary key, the first column if none is declared.
KeyColumns(columns) ==
  LET declared == {c.name : c \in {d \in ToSet(columns) : d.pk}}
  IN IF declared = {} THEN {columns[1].name} ELSE declared
KeyOf(columns, row) == [name \in KeyColumns(columns) |-> row[name]]

\* _extract_conditions flattens AND and OR alike and skips what has one child; a
\* literal or an operator on the left names no column.
RECURSIVE ExtractConditions(_)
ExtractConditions(node) ==
  LET Of(left, right) ==
        [column |-> IF left.type = "COLUMN" THEN left.val[2] ELSE "",
         operation |-> node.val,
         operand |-> IF right.type = "LITERAL" THEN Num(right.val) ELSE Str(right.type)]
  IN CASE node.type # "OPERATOR" -> <<>>
       [] node.val \in {"AND", "OR"} ->
            FlattenSeq([i \in DOMAIN node.childs |-> ExtractConditions(node.childs[i])])
       [] Len(node.childs) < 2 -> <<>>
       [] OTHER -> <<Of(node.childs[1], node.childs[2])>>

\* _matches_conditions: all of them, in order.
MatchesConditions(row, conditions) ==
  LET Answer(c) == IF c.column \notin DOMAIN row THEN "false"
                   ELSE Compared(c.operation, Num(row[c.column]), c.operand)
  IN Settled([i \in DOMAIN conditions |-> Answer(conditions[i])], "true")

Matching(rows, conditions) == SelectSeq(rows, LAMBDA r : MatchesConditions(r, conditions) = "true")
RaisesOn(rows, conditions) == \E r \in ToSet(rows) : MatchesConditions(r, conditions) = "raise"

\* A row written under its key, and flushed: in its place if there is one, else at
\* the end; under a marked key the buffered row stays deleted.
WrittenRow(s, table, row) ==
  LET t == s.db[table]
      key == KeyOf(t.columns, row)
      at == SelectInSeq(t.rows, LAMBDA r : KeyOf(t.columns, r) = key)
      dirty == [s EXCEPT !.dirty = TRUE]
  IN CASE <<table, key>> \in s.marks -> dirty
       [] at # 0 -> [dirty EXCEPT !.db[table].rows[at] = row]
       [] OTHER -> [dirty EXCEPT !.db[table].rows = Append(@, row)]

\* delete_block
WithoutMatching(s, table, conditions) ==
  LET t == s.db[table]
      gone == Matching(t.rows, conditions)
  IN IF gone = <<>> THEN s
     ELSE [db |-> [s.db EXCEPT ![table].rows = SelectSeq(@, LAMBDA r : r \notin ToSet(gone))],
           marks |-> s.marks \cup {<<table, KeyOf(t.columns, r)>> : r \in ToSet(gone)},
           dirty |-> TRUE]

Equals(column, n) == <<[column |-> column, operation |-> "=", operand |-> Num(n)]>>

--------------------------------------------------------------------------------
(* Values                                                                   *)

Float(n) == <<"float", n>>

\* _coerce_type: a float column takes an int, an int column no float.
Coercible(value, type) == value[1] = "num" \/ (value[1] = "float" /\ type = "FLOAT")

\* _flatten_expression: the tree in infix order, its parentheses lost.
RECURSIVE FlattenExpression(_)
FlattenExpression(node) ==
  LET parts == [i \in DOMAIN node.childs |-> FlattenExpression(node.childs[i])] IN
  CASE node.type = "LITERAL" -> <<Num(node.val)>>
    [] node.type = "COLUMN" -> <<<<"col", node.val>>>>
    [] Len(parts) > 1 -> parts[1] \o <<<<"op", node.val>>>> \o parts[2]
    [] OTHER -> parts[1] \o <<<<"op", node.val>>>>

\* One pass over the flat list computes some of the operators, from the left; an
\* empty list is an expression that fails.
RECURSIVE Pass(_, _, _)
Pass(items, i, ops) ==
  LET x == items[i - 1] y == items[i + 1] op == items[i][2]
      result == CASE op = "+" -> x[2] + y[2] [] op = "-" -> x[2] - y[2]
                  [] op = "*" -> x[2] * y[2] [] op = "/" -> x[2] \div y[2]
  IN IF i >= Len(items) THEN items
     ELSE IF items[i][1] # "op" \/ op \notin ops THEN Pass(items, i + 2, ops)
     ELSE IF x[1] # "num" \/ y[1] # "num" \/ (op = "/" /\ y[2] = 0) THEN <<>>
     ELSE Pass(SubSeq(items, 1, i - 2) \o <<Num(result)>> \o SubSeq(items, i + 2, Len(items)), i, ops)

\* Variant: one pass for all operators.
EvaluateExpressionLeft(items, row) ==
  LET Resolved(item) ==
        IF item[1] = "col" /\ item[2][2] \in DOMAIN row THEN Num(row[item[2][2]]) ELSE item
  IN Pass([i \in DOMAIN items |-> Resolved(items[i])], 2, {"+", "-", "*", "/"})

\* _evaluate_expression: a sequence of one number, or of another length if it fails.
EvaluateExpression(items, row) ==
  LET Resolved(item) ==
        IF item[1] = "col" /\ item[2][1] = "" /\ item[2][2] \in DOMAIN row THEN Num(row[item[2][2]]) ELSE item
      Known(item) == item[1] = "num" \/ (item[1] = "op" /\ item[2] \in {"+", "-", "*", "/"})
      resolved == [i \in DOMAIN items |-> Resolved(items[i])]
  IN IF \E i \in DOMAIN resolved : ~Known(resolved[i]) THEN <<>>
     ELSE Pass(Pass(resolved, 2, {"*", "/"}), 2, {"+", "-"})

--------------------------------------------------------------------------------
(* Foreign keys                                                             *)

\* _find_dependent_tables: the other tables' columns that refer to a table.
DependentTables(d, table) ==
  UNION {{[table |-> t, column |-> c.name, ref |-> c.fk[1].column, on_delete |-> c.fk[1].on_delete] :
            c \in {c \in ToSet(d[t].columns) : c.fk # <<>> /\ c.fk[1].table = table}} :
         t \in DOMAIN d \ {table}}

\* glob returns the schema files in no particular order.
Orders(S) == {order \in [1 .. Cardinality(S) -> S] : ToSet(order) = S}

\* _validate_fk_on_insert
ValidFk(d, columns, row) ==
  \A c \in ToSet(columns) : c.fk # <<>> =>
    /\ c.fk[1].table \in DOMAIN d
    /\ \E r \in ToSet(d[c.fk[1].table].rows) :
         c.fk[1].column \in DOMAIN r /\ Num(r[c.fk[1].column]) = row[c.name]

\* Row by row and table by table, the children of a row that is to be deleted refuse
\* it or are deleted; a refusal leaves the deletions before it.
RECURSIVE Cascade(_, _)
Cascade(s, checks) ==
  LET c == Head(checks)
      children == Matching(s.db[c.table].rows, Equals(c.column, c.value))
  IN CASE checks = <<>> -> Outcome(s, TRUE, 0)
       [] children # <<>> /\ c.on_delete = "RESTRICT" -> Refused(s)
       [] OTHER -> Cascade(WithoutMatching(s, c.table, Equals(c.column, c.value)), Tail(checks))

\* Variant: the rows of the dependent tables are left alone.
HandleFkOnDeleteNot(s, table, rows, dependents) == Outcome(s, TRUE, 0)

\* _handle_fk_on_delete looks for the values of the primary key.
HandleFkOnDelete(s, table, rows, dependents) ==
  LET keys == SetToSeq(KeyColumns(s.db[table].columns))
      Check(value, dep) == [table |-> dep.table, column |-> dep.column, on_delete |-> dep.on_delete, value |-> value]
      OfKey(row, k) == [j \in DOMAIN dependents |-> Check(row[keys[k]], dependents[j])]
      OfRow(row) == FlattenSeq([k \in DOMAIN keys |-> OfKey(row, k)])
  IN Cascade(s, FlattenSeq([i \in DOMAIN rows |-> OfRow(rows[i])]))

--------------------------------------------------------------------------------
(* INSERT, UPDATE, DELETE: the outcomes a statement may have                *)

TableOf(tree) == tree.childs[1].val

\* The values of a list, as the statement gives them: a literal is a number, a
\* nested operator of SET is computed later, all else is the string of a node.
GivenValue(node) == IF node.type = "LITERAL" THEN Num(node.val) ELSE Str(node.type)

\* The row an INSERT makes of names and values: 0 where it gives none.
NewRow(columns, names, values) ==
  LET At(name) == SelectInSeq(SubSeq(names, 1, IF Len(values) < Len(names) THEN Len(values) ELSE Len(names)),
                              LAMBDA n : n = name)
  IN [name \in ColumnNames(columns) |-> IF At(name) = 0 THEN Num(0) ELSE values[At(name)]]

\* Variant: the primary key is not looked up.
InsertRowUnchecked(s, table, row) ==
  LET plain == [name \in DOMAIN row |-> row[name][2]] IN
  Outcome([s EXCEPT !.db[table].rows = Append(@, plain), !.dirty = TRUE], TRUE, 1)

\* write_block without conditions: the types, then the primary key.
InsertRow(s, table, row) ==
  LET t == s.db[table]
      plain == [name \in DOMAIN row |-> row[name][2]]
      typed == \A c \in ToSet(t.columns) : Coercible(row[c.name], c.type)
  IN IF ~typed THEN Refused(s)
     ELSE IF \E r \in ToSet(t.rows) : KeyOf(t.columns, r) = KeyOf(t.columns, plain) THEN Refused(s)
     ELSE Outcome(WrittenRow(s, table, plain), TRUE, 1)

\* _insert_rows
InsertRows(s, tree) ==
  LET table == TableOf(tree)
      columns == s.db[table].columns
      given == tree.childs[Len(tree.childs)].childs
      listed == IF Len(tree.childs) = 3 THEN tree.childs[2].childs ELSE <<>>
      names == IF listed = <<>> THEN [i \in DOMAIN columns |-> columns[i].name]
                                ELSE [i \in DOMAIN listed |-> listed[i].val[2]]
      row == NewRow(columns, names, [i \in DOMAIN given |-> GivenValue(given[i])])
  IN IF table \notin DOMAIN s.db \/ ~ValidFk(s.db, columns, row) THEN {Refused(s)}
     ELSE {InsertRow(s, table, row)}

\* The conditions of the WHERE clause, the last child; none without one.
ConditionsOf(tree) ==
  LET last == tree.childs[Len(tree.childs)]
  IN IF last.type = "WHERE" THEN ExtractConditions(last.childs[1]) ELSE <<>>

\* write_block with conditions: the assignments in order, each computed from the old
\* values; one to an unknown column or with an expression that fails is skipped.
UpdatedRow(assignments, row) ==
  LET Assign(new, a) ==
        LET name == a.childs[1].val[2]
            right == a.childs[2]
            result == EvaluateExpression(FlattenExpression(right), row)
        IN CASE name \notin DOMAIN row -> new
             [] right.type # "OPERATOR" -> [new EXCEPT ![name] = GivenValue(right)]
             [] Len(result) = 1 -> [new EXCEPT ![name] = Float(result[1][2])]
             [] OTHER -> new
  IN FoldLeft(Assign, [name \in DOMAIN row |-> Num(row[name])], assignments)

\* _update_rows: without conditions the storage engine takes the statement for an
\* INSERT.  The rows are written one after the other; foreign keys are not checked.
UpdateRows(s, tree) ==
  LET table == TableOf(tree)
      columns == s.db[table].columns
      set == tree.childs[2].childs
      conditions == ConditionsOf(tree)
      chosen == Matching(s.db[table].rows, conditions)
      new == [i \in DOMAIN chosen |-> UpdatedRow(set, chosen[i])]
      typed == \A i \in DOMAIN new : \A c \in ToSet(columns) : Coercible(new[i][c.name], c.type)
      plain == [i \in DOMAIN new |-> [name \in DOMAIN new[i] |-> new[i][name][2]]]
      names == [i \in DOMAIN set |-> set[i].childs[1].val[2]]
      values == [i \in DOMAIN set |-> GivenValue(set[i].childs[2])]
  IN CASE table \notin DOMAIN s.db -> {Refused(s)}
       [] conditions = <<>> -> {InsertRow(s, table, NewRow(columns, names, values))}
       [] RaisesOn(s.db[table].rows, conditions) \/ ~typed -> {Refused(s)}
       [] OTHER -> {Outcome(FoldLeft(LAMBDA t, row : WrittenRow(t, table, row), s, plain), TRUE, Len(plain))}

\* _delete_rows: without conditions every row.
DeleteRows(s, tree) ==
  LET table == TableOf(tree)
      conditions == ConditionsOf(tree)
      chosen == Matching(s.db[table].rows, conditions)
      After(fk) == IF fk.ok THEN Outcome(WithoutMatching(fk.s, table, conditions), TRUE, Len(chosen)) ELSE fk
  IN IF table \notin DOMAIN s.db THEN {Refused(s)}
     ELSE IF RaisesOn(s.db[table].rows, conditions) THEN {Refused(s)}
     ELSE {After(HandleFkOnDelete(s, table, chosen, order)) : order \in Orders(DependentTables(s.db, table))}

--------------------------------------------------------------------------------
(* CREATE TABLE and DROP TABLE                                              *)

ForeignKeyOf(table, column, on_delete) == <<[table |-> table, column |-> column, on_delete |-> on_delete]>>

\* The column a definition declares.
DeclaredColumn(node) ==
  LET constraints == Tail(node.childs)
      refs == SelectSeq(constraints, LAMBDA c : c.type = "FOREIGN_KEY_CONSTRAINT")
      ref == refs[Len(refs)].childs
  IN [name |-> node.val, type |-> node.childs[1].val,
      pk |-> \E i \in DOMAIN constraints : constraints[i].val = "PRIMARY_KEY",
      fk |-> IF refs = <<>> THEN <<>> ELSE ForeignKeyOf(ref[1].val, ref[2].val, ref[3].val)]

\* What the definitions of the table add.  FOREIGN KEY is read as if the parser had
\* put the local column first and the table it refers to in the node: it goes to
\* the column that is called like that table, if there is one.
WithTableConstraints(column, defs) ==
  LET keys == SelectSeq(defs, LAMBDA d : d.type = "PRIMARY_KEY_CONSTRAINT")
      refs == SelectSeq(defs, LAMBDA d : d.type = "FOREIGN_KEY_CONSTRAINT" /\ d.childs[1].val = column.name)
      ref == refs[Len(refs)]
      listed == keys # <<>> /\ \E i \in DOMAIN keys[Len(keys)].childs : keys[Len(keys)].childs[i].val = column.name
  IN [column EXCEPT !.pk = @ \/ listed,
                    !.fk = IF refs = <<>> THEN @ ELSE ForeignKeyOf(ref.val, ref.childs[2].val, "RESTRICT")]

\* A foreign key refers to a column of a table there is.
ReferenceExists(d, column) ==
  column.fk # <<>> => /\ column.fk[1].table \in DOMAIN d
                      /\ column.fk[1].column \in ColumnNames(d[column.fk[1].table].columns)

\* _create_table and write_table
CreateTable(s, tree) ==
  LET table == TableOf(tree)
      defs == tree.childs[2].childs
      declared == SelectSeq(defs, LAMBDA d : d.type = "COLUMN_DEF")
      columns == [i \in DOMAIN declared |-> WithTableConstraints(DeclaredColumn(declared[i]), defs)]
      refused == \/ \E c \in ToSet(columns) : ~ReferenceExists(s.db, c)
                 \/ table \in DOMAIN s.db
  IN IF refused THEN {Refused(s)}
     ELSE {Outcome([s EXCEPT !.db = (table :> [columns |-> columns, rows |-> <<>>]) @@ @], TRUE, 0)}

\* _drop_table and delete_table: a dependent RESTRICT table refuses as long as it has
\* rows; the rows that refer to this table are deleted from the CASCADE ones.
DropTable(s, tree) ==
  LET table == TableOf(tree)
      dependents == DependentTables(s.db, table)
      restricted == \E dep \in dependents : dep.on_delete = "RESTRICT" /\ s.db[dep.table].rows # <<>>
      parents == SetToSeq(ToSet(s.db[table].rows))
      Delete(t, dep) == FoldLeft(LAMBDA u, row : WithoutMatching(u, dep.table, Equals(dep.column, row[dep.ref])), t, parents)
      cascading == {dep \in dependents : dep.on_delete = "CASCADE" /\ dep.ref \in ColumnNames(s.db[table].columns)}
      cascaded == FoldLeft(Delete, s, SetToSeq(cascading))
  IN IF table \notin DOMAIN s.db \/ restricted THEN {Refused(s)}
     ELSE {Outcome([cascaded EXCEPT !.db = [t \in DOMAIN @ \ {table} |-> @[t]]], TRUE, 0)}

--------------------------------------------------------------------------------
\* _process_node for every statement; a SELECT changes no row.
Outcomes(s, tree) ==
  CASE tree.type = "INSERT" -> InsertRows(s, tree)
    [] tree.type = "UPDATE" -> UpdateRows(s, tree)
    [] tree.type = "DELETE" -> DeleteRows(s, tree)
    [] tree.type = "CREATE_TABLE" -> CreateTable(s, tree)
    [] tree.type = "DROP_TABLE" -> DropTable(s, tree)
    [] OTHER -> LET answer == ProcessNode(s.db, tree) IN {Outcome(s, answer.ok, Len(answer.data))}

\* The data directory is empty.
Init == db = [t \in {} |-> <<>>] /\ marks = {}

\* The commit or the rollback that ends the transaction of a statement.
Ended(o) ==
  /\ db' = o.s.db
  /\ marks' = IF o.s.dirty THEN o.s.marks ELSE {}

\* The outcomes of the statements of some types.
Executed(types) ==
  FoldLeft(LAMBDA all, tree : IF tree.type \in types THEN all \cup Outcomes(Fresh, tree) ELSE all, {}, Plan)

Select == \E o \in Executed({"PROJECTION", "ORDER_BY", "LIMIT"}) : Ended(o)
Insert == \E o \in Executed({"INSERT"}) : Ended(o)
Update == \E o \in Executed({"UPDATE"}) : Ended(o)
Delete == \E o \in Executed({"DELETE"}) : Ended(o)
Create == \E o \in Executed({"CREATE_TABLE"}) : Ended(o)
Drop == \E o \in Executed({"DROP_TABLE"}) : Ended(o)

\* What the parser refuses ends in a rollback too.
Reject == \E o \in Executed({"NONE"}) : Ended(o)

Next == Reject \/ Select \/ Insert \/ Update \/ Delete \/ Create \/ Drop

Spec == Init /\ [][Next]_vars

================================================================================
