------------------------------- MODULE QueryParser -------------------------------
(***************************************************************************)
(* From the tokens of a statement to its query tree: SQLParser and the      *)
(* parsers it delegates to.  The tokenizer is left out: a token is a pair   *)
(* of its type and its value, names in lower case and keywords in upper     *)
(* case, as it returns them.                                                *)
(*                                                                          *)
(* A parser is an operator on the tokens and a position; it returns a tree  *)
(* and the position after it, or position Failed where the code raises      *)
(* ValueError.  No token is at Failed, so a failure ends every parse that   *)
(* meets it.                                                                *)
(***************************************************************************)
EXTENDS Integers, Sequences, SequencesExt

Failed == 0

\* A node of the query tree.
Node(type, val, childs) == [type |-> type, val |-> val, childs |-> childs]
Parsed(tree, pos) == [tree |-> tree, pos |-> pos]
Nothing == Node("NONE", "", <<>>)
Fail == Parsed(Nothing, Failed)

\* A column is named by a table or alias, "" when it is not qualified, and a name.
Column(table, name) == Node("COLUMN", <<table, name>>, <<>>)
Literal(n) == Node("LITERAL", n, <<>>)
Operator(op, childs) == Node("OPERATOR", op, childs)
AllColumns == <<"", "*">>

--------------------------------------------------------------------------------
(* BaseParser                                                               *)

Token(ts, i) == IF i \in DOMAIN ts THEN ts[i] ELSE <<"EOF", "">>
Is(ts, i, type, values) == Token(ts, i)[1] = type /\ Token(ts, i)[2] \in values
Keyword(ts, i, word) == Is(ts, i, "KEYWORD", {word})
Sign(ts, i, ops) == Is(ts, i, "OPERATOR", ops)
Mark(ts, i, mark) == Is(ts, i, "PUNCTUATION", {mark})
Star(ts, i) == Sign(ts, i, {"*"})
IsName(ts, i) == Token(ts, i)[1] \in {"IDENTIFIER", "KEYWORD"}
Name(ts, i) == Token(ts, i)[2]

ExpectKeyword(ts, i, word) == IF Keyword(ts, i, word) THEN i + 1 ELSE Failed
ExpectMark(ts, i, mark) == IF Mark(ts, i, mark) THEN i + 1 ELSE Failed
ExpectName(ts, i) == IF IsName(ts, i) THEN i + 1 ELSE Failed

\* A tree put into another; a tree before a closing parenthesis.
Within(r, Put(_)) == Parsed(Put(r.tree), r.pos)
Closed(ts, r) == Parsed(r.tree, ExpectMark(ts, r.pos, ")"))

\* A parsed list.  One element more: a comma asks for the next.
List(items, pos) == [items |-> items, pos |-> pos]
Listed(ts, items, r, More(_, _)) ==
  IF Mark(ts, r.pos, ",") THEN More(r.pos + 1, Append(items, r.tree))
  ELSE List(Append(items, r.tree), r.pos)

--------------------------------------------------------------------------------
(* ExpressionParser: a level of operators for each of its methods            *)

RECURSIVE Level(_, _, _), LevelRest(_, _, _), Listing(_, _, _)

OrLevel == 1
AndLevel == 2
NotLevel == 3
Comparison == 4
Additive == 5
Multiplicative == 6
Primary == 7

\* Variant: AND and OR on one level.
JoiningFlat(ts, i, n) ==
  \/ n = AndLevel /\ Is(ts, i, "KEYWORD", {"AND", "OR"})
  \/ n = Additive /\ Sign(ts, i, {"+", "-"})
  \/ n = Multiplicative /\ Sign(ts, i, {"*", "/", "%"})

\* The operators that the loop of a level takes.
Joining(ts, i, n) ==
  \/ n = OrLevel /\ Keyword(ts, i, "OR")
  \/ n = AndLevel /\ Keyword(ts, i, "AND")
  \/ n = Additive /\ Sign(ts, i, {"+", "-"})
  \/ n = Multiplicative /\ Sign(ts, i, {"*", "/", "%"})

\* A column, qualified or not.
ColumnAt(ts, i) ==
  IF ~Mark(ts, i + 1, ".") THEN Parsed(Column("", Name(ts, i)), i + 1)
  ELSE IF IsName(ts, i + 2) \/ Star(ts, i + 2)
    THEN Parsed(Column(Name(ts, i), Name(ts, i + 2)), i + 3)
  ELSE Fail

ParsePrimary(ts, i) ==
  CASE Sign(ts, i, {"-"}) -> Within(Level(ts, i + 1, Primary), LAMBDA e : Operator("-", <<e>>))
    [] Mark(ts, i, "(") -> Closed(ts, Level(ts, i + 1, OrLevel))
    [] Token(ts, i)[1] = "NUMBER" -> Parsed(Literal(Token(ts, i)[2]), i + 1)
    [] Token(ts, i)[1] = "IDENTIFIER" \/ Star(ts, i) -> ColumnAt(ts, i)
    [] OTHER -> Fail

\* Two operands and the operator between them.
Grouped(ts, left, right) == Parsed(Operator(Name(ts, left.pos), <<left.tree, right.tree>>), right.pos)

\* The loop of a level groups to the left.
LevelRest(ts, left, n) ==
  IF ~Joining(ts, left.pos, n) THEN left
  ELSE LevelRest(ts, Grouped(ts, left, Level(ts, left.pos + 1, n + 1)), n)

\* The list of IN; the bounds of BETWEEN.
Listing(ts, i, items) == Listed(ts, items, Level(ts, i, Additive), LAMBDA j, all : Listing(ts, j, all))
InList(ts, left, list) ==
  Parsed(Operator("IN", <<left.tree>> \o list.items), ExpectMark(ts, list.pos, ")"))
Between(ts, left, lower) ==
  Within(Level(ts, ExpectKeyword(ts, lower.pos, "AND"), Additive),
         LAMBDA upper : Operator("BETWEEN", <<left.tree, lower.tree, upper>>))

ComparisonRest(ts, left) ==
  CASE Sign(ts, left.pos, {"=", "<>", "!=", "<", "<=", ">", ">="}) \/ Keyword(ts, left.pos, "LIKE") ->
         Grouped(ts, left, Level(ts, left.pos + 1, Additive))
    [] Keyword(ts, left.pos, "IN") -> InList(ts, left, Listing(ts, ExpectMark(ts, left.pos + 1, "("), <<>>))
    [] Keyword(ts, left.pos, "BETWEEN") -> Between(ts, left, Level(ts, left.pos + 1, Additive))
    [] OTHER -> left

\* NOT takes one comparison.
Level(ts, i, n) ==
  CASE n = Primary -> ParsePrimary(ts, i)
    [] n = NotLevel /\ Keyword(ts, i, "NOT") -> Within(Level(ts, i + 1, Comparison), LAMBDA e : Operator("NOT", <<e>>))
    [] n = Comparison -> ComparisonRest(ts, Level(ts, i, Additive))
    [] OTHER -> LevelRest(ts, Level(ts, i, n + 1), n)

\* parse_expression
Expression(ts, i) == Level(ts, i, OrLevel)

\* A condition has an operator at its root.
Logical(r) == IF r.tree.type = "OPERATOR" THEN r ELSE Fail
Condition(ts, i) == Logical(Expression(ts, i))

--------------------------------------------------------------------------------
(* SELECT                                                                   *)

RECURSIVE SelectColumns(_, _, _), FromRest(_, _), OrderItems(_, _, _)

\* _extract_expr_name: what the projection looks for in the rows.
ColumnName(e) == CASE e.type = "COLUMN" -> e.val [] e.type = "OPERATOR" -> <<"", e.val>> [] OTHER -> <<"", "literal">>

\* One column of the list; a name after AS replaces it.
Renamed(ts, e) ==
  IF Keyword(ts, e.pos, "AS") THEN Parsed(<<"", Name(ts, e.pos + 1)>>, ExpectName(ts, e.pos + 1))
  ELSE Parsed(ColumnName(e.tree), e.pos)
SelectColumn(ts, i) == IF Star(ts, i) THEN Parsed(AllColumns, i + 1) ELSE Renamed(ts, Expression(ts, i))
SelectColumns(ts, i, columns) ==
  Listed(ts, columns, SelectColumn(ts, i), LAMBDA j, all : SelectColumns(ts, j, all))

\* A table, under its alias if it has one.
TableAt(ts, i) ==
  LET table == Node("RELATION", Name(ts, i), <<>>)
      after == ExpectName(ts, i)
      alias == IF Keyword(ts, after, "AS") THEN after + 1 ELSE after
  IN IF alias # after \/ Token(ts, after)[1] = "IDENTIFIER"
       THEN Parsed(Node("ALIAS", Name(ts, alias), <<table>>), ExpectName(ts, alias))
       ELSE Parsed(table, after)

JoinOn(ts, left, right) ==
  Within(Condition(ts, ExpectKeyword(ts, right.pos, "ON")),
         LAMBDA on : Node("THETA_JOIN", "INNER", <<left.tree, right.tree, on>>))

\* The comma, NATURAL JOIN and [INNER] JOIN ... ON group to the left.
FromRest(ts, left) ==
  LET Table(i) == TableAt(ts, ExpectKeyword(ts, i, "JOIN"))
      Join(type, right) == Within(right, LAMBDA table : Node(type, "", <<left.tree, table>>))
  IN CASE Mark(ts, left.pos, ",") -> FromRest(ts, Join("CROSS_JOIN", TableAt(ts, left.pos + 1)))
       [] Keyword(ts, left.pos, "NATURAL") -> FromRest(ts, Join("NATURAL_JOIN", Table(left.pos + 1)))
       [] Keyword(ts, left.pos, "INNER") -> FromRest(ts, JoinOn(ts, left, Table(left.pos + 1)))
       [] Keyword(ts, left.pos, "JOIN") -> FromRest(ts, JoinOn(ts, left, Table(left.pos)))
       [] OTHER -> left

From(ts, i) == FromRest(ts, TableAt(ts, ExpectKeyword(ts, i, "FROM")))

OrderItem(ts, column) ==
  LET desc == Keyword(ts, column.pos, "DESC")
      after == IF desc \/ Keyword(ts, column.pos, "ASC") THEN column.pos + 1 ELSE column.pos
  IN Parsed(Node("ORDER_ITEM", IF desc THEN "DESC" ELSE "ASC", <<column.tree>>), after)

OrderItems(ts, i, items) ==
  LET named == IsName(ts, i) /\ ~Is(ts, i, "KEYWORD", {"ASC", "DESC"})
  IN Listed(ts, items, OrderItem(ts, IF named THEN ColumnAt(ts, i) ELSE Fail),
            LAMBDA j, all : OrderItems(ts, j, all))

\* The clauses wrap the tree of the FROM clause, in this order.
Filtered(ts, from) ==
  IF ~Keyword(ts, from.pos, "WHERE") THEN from
  ELSE Within(Condition(ts, from.pos + 1), LAMBDA where : Node("SELECTION_STMT", "", <<from.tree, where>>))

OrderedBy(r, items) == Parsed(Node("ORDER_BY", "ORDER_BY", <<r.tree>> \o items.items), items.pos)
Ordered(ts, r) ==
  IF ~Keyword(ts, r.pos, "ORDER") THEN r
  ELSE OrderedBy(r, OrderItems(ts, ExpectKeyword(ts, r.pos + 1, "BY"), <<>>))

Limited(ts, r) ==
  IF ~Keyword(ts, r.pos, "LIMIT") THEN r
  ELSE IF Token(ts, r.pos + 1)[1] # "NUMBER" THEN Fail
  ELSE Parsed(Node("LIMIT", Token(ts, r.pos + 1)[2], <<r.tree>>), r.pos + 2)

SelectFrom(ts, columns) ==
  IF ~Keyword(ts, columns.pos, "FROM") THEN Parsed(Node("PROJECTION", columns.items, <<>>), columns.pos)
  ELSE Limited(ts, Ordered(ts, Within(Filtered(ts, From(ts, columns.pos)),
                                      LAMBDA source : Node("PROJECTION", columns.items, <<source>>))))

ParseSelect(ts, i) == SelectFrom(ts, SelectColumns(ts, i + 1, <<>>))

--------------------------------------------------------------------------------
(* INSERT, UPDATE, DELETE                                                   *)

RECURSIVE Assignments(_, _, _), Names(_, _, _), Expressions(_, _, _)

Expressions(ts, i, items) == Listed(ts, items, Expression(ts, i), LAMBDA j, all : Expressions(ts, j, all))

Names(ts, i, names) ==
  Listed(ts, names, Parsed(Column("", Name(ts, i)), ExpectName(ts, i)), LAMBDA j, all : Names(ts, j, all))

TableNode(ts, i) == Node("TABLE", Name(ts, i), <<>>)

Assignment(ts, i) ==
  LET equals == ExpectName(ts, i)
  IN Within(Expression(ts, IF Sign(ts, equals, {"="}) THEN equals + 1 ELSE Failed),
            LAMBDA value : Node("ASSIGNMENT", "=", <<Column("", Name(ts, i)), value>>))
Assignments(ts, i, items) == Listed(ts, items, Assignment(ts, i), LAMBDA j, all : Assignments(ts, j, all))

\* The children so far and, if it follows, the WHERE clause.
WithWhere(ts, type, childs, at) ==
  IF ~Keyword(ts, at, "WHERE") THEN Parsed(Node(type, type, childs), at)
  ELSE Within(Condition(ts, at + 1),
              LAMBDA where : Node(type, type, Append(childs, Node("WHERE", "", <<where>>))))

UpdateSet(ts, table, set) == WithWhere(ts, "UPDATE", <<table, Node("SET", "", set.items)>>, set.pos)
ParseUpdate(ts, i) ==
  UpdateSet(ts, TableNode(ts, i + 1), Assignments(ts, ExpectKeyword(ts, ExpectName(ts, i + 1), "SET"), <<>>))

ParseDelete(ts, i) ==
  LET table == ExpectKeyword(ts, i + 1, "FROM")
  IN WithWhere(ts, "DELETE", <<TableNode(ts, table)>>, ExpectName(ts, table))

\* VALUES and its list, after what stands before them.
InsertValues(ts, childs, list) ==
  Parsed(Node("INSERT", "INSERT", Append(childs, Node("VALUES", "", list.items))), ExpectMark(ts, list.pos, ")"))
InsertFrom(ts, childs, at) ==
  InsertValues(ts, childs, Expressions(ts, ExpectMark(ts, ExpectKeyword(ts, at, "VALUES"), "("), <<>>))
InsertNames(ts, table, names) ==
  InsertFrom(ts, <<table, Node("COLUMNS", "", names.items)>>, ExpectMark(ts, names.pos, ")"))
ParseInsert(ts, i) ==
  LET table == ExpectKeyword(ts, i + 1, "INTO")
      after == ExpectName(ts, table)
  IN IF Mark(ts, after, "(") THEN InsertNames(ts, TableNode(ts, table), Names(ts, after + 1, <<>>))
     ELSE InsertFrom(ts, <<TableNode(ts, table)>>, after)

--------------------------------------------------------------------------------
(* CREATE TABLE and DROP TABLE                                              *)

RECURSIVE Constraints(_, _, _), Definitions(_, _, _), KeyNames(_, _, _)

\* REFERENCES table(column): the two nodes, and the position after them.
Reference(ts, i) ==
  LET column == ExpectMark(ts, i + 2, "(") IN
  List(<<Node("REFERENCES_TABLE", Name(ts, i + 1), <<>>), Node("REFERENCES_COLUMN", Name(ts, column), <<>>)>>,
       ExpectMark(ts, column + 1, ")"))

\* ON DELETE CASCADE or RESTRICT, which is the default.
OnDelete(ts, i) ==
  LET action == ExpectKeyword(ts, i + 1, "DELETE")
      known == Is(ts, action, "KEYWORD", {"CASCADE", "RESTRICT"})
  IN IF ~Keyword(ts, i, "ON") THEN Parsed(Node("CONSTRAINT", "RESTRICT", <<>>), i)
     ELSE IF known THEN Parsed(Node("CONSTRAINT", Name(ts, action), <<>>), action + 1)
     ELSE Fail

\* The constraints of one column.
Constraints(ts, i, items) ==
  CASE Keyword(ts, i, "PRIMARY") ->
         Constraints(ts, ExpectKeyword(ts, i + 1, "KEY"), Append(items, Node("CONSTRAINT", "PRIMARY_KEY", <<>>)))
    [] Keyword(ts, i, "UNIQUE") ->
         Constraints(ts, i + 1, Append(items, Node("CONSTRAINT", "UNIQUE", <<>>)))
    [] Keyword(ts, i, "NOT") ->
         Constraints(ts, ExpectKeyword(ts, i + 1, "NULL"), Append(items, Node("CONSTRAINT", "NOT_NULL", <<>>)))
    [] Keyword(ts, i, "REFERENCES") ->
         LET ref == Reference(ts, i)
             action == OnDelete(ts, ref.pos)
             fk == Node("FOREIGN_KEY_CONSTRAINT", "", Append(ref.items, action.tree))
         IN Constraints(ts, action.pos, Append(items, fk))
    [] OTHER -> List(items, i)

\* A column: its name, one of the four types with an optional size, its constraints.
ColumnDefinition(ts, i) ==
  LET known == Is(ts, i + 1, "KEYWORD", {"INT", "FLOAT", "CHAR", "VARCHAR"})
      sized == Mark(ts, i + 2, "(")
      after == IF ~known THEN Failed
               ELSE IF sized THEN ExpectMark(ts, i + 4, ")") ELSE i + 2
      list == Constraints(ts, after, <<>>)
  IN Parsed(Node("COLUMN_DEF", Name(ts, i), <<Node("DATA_TYPE", Name(ts, i + 1), <<>>)>> \o list.items), list.pos)

\* FOREIGN KEY (column) REFERENCES table(column): the local column is the node's
\* value; no ON DELETE here.
ForeignKey(ts, i) ==
  LET column == ExpectMark(ts, ExpectKeyword(ts, i + 1, "KEY"), "(")
      references == ExpectMark(ts, column + 1, ")")
      ref == Reference(ts, references)
  IN IF Keyword(ts, references, "REFERENCES")
       THEN Parsed(Node("FOREIGN_KEY_CONSTRAINT", Name(ts, column), ref.items), ref.pos)
       ELSE Fail

KeyNames(ts, i, names) ==
  Listed(ts, names, Parsed(Node("IDENTIFIER", Name(ts, i), <<>>), i + 1), LAMBDA j, all : KeyNames(ts, j, all))
TableKey(ts, names) ==
  Parsed(Node("PRIMARY_KEY_CONSTRAINT", "TABLE_PK", names.items), ExpectMark(ts, names.pos, ")"))

Definition(ts, i) ==
  CASE Keyword(ts, i, "FOREIGN") -> ForeignKey(ts, i)
    [] Keyword(ts, i, "PRIMARY") -> TableKey(ts, KeyNames(ts, ExpectMark(ts, ExpectKeyword(ts, i + 1, "KEY"), "("), <<>>))
    [] Token(ts, i)[1] = "IDENTIFIER" -> ColumnDefinition(ts, i)
    [] OTHER -> Fail

\* What starts like no definition ends the list; CONSTRAINT is not supported.
Definitions(ts, i, items) ==
  LET starts == Is(ts, i, "KEYWORD", {"FOREIGN", "PRIMARY", "CONSTRAINT"}) \/ Token(ts, i)[1] = "IDENTIFIER"
  IN IF ~starts THEN List(items, i)
     ELSE Listed(ts, items, Definition(ts, i), LAMBDA j, all : Definitions(ts, j, all))

TableDefined(ts, table, list) ==
  Parsed(Node("CREATE_TABLE", "CREATE_TABLE", <<table, Node("COLUMN_DEFS", "", list.items)>>),
         ExpectMark(ts, list.pos, ")"))
ParseCreateTable(ts, i) ==
  LET table == ExpectKeyword(ts, i + 1, "TABLE")
  IN TableDefined(ts, TableNode(ts, table), Definitions(ts, ExpectMark(ts, ExpectName(ts, table), "("), <<>>))

\* CASCADE or RESTRICT may follow the name; it is kept in a node nothing reads.
ParseDropTable(ts, i) ==
  LET table == ExpectKeyword(ts, i + 1, "TABLE")
      after == ExpectName(ts, table)
      mode == Is(ts, after, "KEYWORD", {"CASCADE", "RESTRICT"})
  IN IF mode
       THEN Parsed(Node("DROP_TABLE", "DROP_TABLE", <<TableNode(ts, table), Node("DROP_MODE", Name(ts, after), <<>>)>>), after + 1)
       ELSE Parsed(Node("DROP_TABLE", "DROP_TABLE", <<TableNode(ts, table)>>), after)

--------------------------------------------------------------------------------
\* SQLParser.parse: one statement, a semicolon perhaps, and nothing after it.
Statement(ts) ==
  CASE Keyword(ts, 1, "SELECT") -> ParseSelect(ts, 1)
    [] Keyword(ts, 1, "UPDATE") -> ParseUpdate(ts, 1)
    [] Keyword(ts, 1, "DELETE") -> ParseDelete(ts, 1)
    [] Keyword(ts, 1, "INSERT") -> ParseInsert(ts, 1)
    [] Keyword(ts, 1, "CREATE") -> ParseCreateTable(ts, 1)
    [] Keyword(ts, 1, "DROP") -> ParseDropTable(ts, 1)
    [] OTHER -> Fail

Whole(ts, r) ==
  LET end == IF Mark(ts, r.pos, ";") THEN r.pos + 1 ELSE r.pos
  IN IF r.pos # Failed /\ Token(ts, end)[1] = "EOF" THEN r.tree ELSE Nothing

Parse(ts) == Whole(ts, Statement(ts))

================================================================================
