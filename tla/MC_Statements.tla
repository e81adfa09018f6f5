------------------------------ MODULE MC_Statements ------------------------------
(***************************************************************************)
(* The statements of Statements, written down as what they mean: their      *)
(* tokens are what the model parses and executes, and their meaning in SQL, *)
(* defined here on sets of rows without the code, is what it is checked     *)
(* against.                                                                 *)
(***************************************************************************)
EXTENDS Statements

\* Tokens.
K(word) == <<"KEYWORD", word>>
I(name) == <<"IDENTIFIER", name>>
N(n) == <<"NUMBER", n>>
O(op) == <<"OPERATOR", op>>
P(mark) == <<"PUNCTUATION", mark>>

\* The parts joined, with a separator between them.
Joined(parts, separator) ==
  FlattenSeq([i \in DOMAIN parts |-> IF i = 1 THEN parts[i] ELSE separator \o parts[i]])

--------------------------------------------------------------------------------
(* Columns, values and conditions: <<alias, name>> is a column.             *)

Col(alias, name) == <<"col", <<alias, name>>>>
Lit(n) == <<"lit", n>>
Cmp(op, x, y) == <<op, x, y>>
Both(c, d) == <<"AND", c, d>>
Either(c, d) == <<"OR", c, d>>

NameText(c) == IF c[1] = "" THEN <<I(c[2])>> ELSE <<I(c[1]), P("."), I(c[2])>>
SideText(x) == IF x[1] = "col" THEN NameText(x[2]) ELSE <<N(x[2])>>

\* Only an OR below an AND needs parentheses.
RECURSIVE ConditionText(_), Holds(_, _)
ConditionText(c) ==
  LET Part(d) == IF c[1] = "AND" /\ d[1] = "OR" THEN <<P("(")>> \o ConditionText(d) \o <<P(")")>> ELSE ConditionText(d)
  IN IF c[1] \in {"AND", "OR"} THEN Part(c[2]) \o <<K(c[1])>> \o Part(c[3])
     ELSE SideText(c[2]) \o <<O(c[1])>> \o SideText(c[3])

Holds(c, row) ==
  LET ValueOf(x) == IF x[1] = "col" THEN row[x[2]] ELSE x[2]
      x == ValueOf(c[2])
      y == ValueOf(c[3])
  IN CASE c[1] = "AND" -> Holds(c[2], row) /\ Holds(c[3], row)
       [] c[1] = "OR" -> Holds(c[2], row) \/ Holds(c[3], row)
       [] c[1] = "=" -> x = y
       [] c[1] = "<>" -> x # y
       [] c[1] = "<" -> x < y
       [] c[1] = "<=" -> x <= y
       [] c[1] = ">" -> x > y
       [] c[1] = ">=" -> x >= y

\* A clause is a sequence of at most one condition.
WhereText(where) == IF where = <<>> THEN <<>> ELSE <<K("WHERE")>> \o ConditionText(where[1])
Satisfies(where, row) == where = <<>> \/ Holds(where[1], row)

--------------------------------------------------------------------------------
(* Queries                                                                  *)

\* A table of the FROM clause: how it is joined to those before it.
Table(table) == [table |-> table, alias |-> "", join |-> "", on |-> <<>>]
Alias(table, alias) == [Table(table) EXCEPT !.alias = alias]
Comma(item) == [item EXCEPT !.join = ","]
On(item, condition) == [item EXCEPT !.join = "ON", !.on = <<condition>>]
Natural(item) == [item EXCEPT !.join = "NATURAL"]

Query(columns, from, where, order, limit) ==
  [columns |-> columns, from |-> from, where |-> where, order |-> order, limit |-> limit]
Star1 == <<AllColumns>>
Unlimited == 0

FromText(item) ==
  (CASE item.join = "" -> <<>>
     [] item.join = "," -> <<P(",")>>
     [] item.join = "ON" -> <<K("JOIN")>>
     [] item.join = "NATURAL" -> <<K("NATURAL"), K("JOIN")>>)
  \o <<I(item.table)>> \o (IF item.alias = "" THEN <<>> ELSE <<I(item.alias)>>)
  \o (IF item.on = <<>> THEN <<>> ELSE <<K("ON")>> \o ConditionText(item.on[1]))

QueryText(q) ==
  <<K("SELECT")>>
  \o (IF q.columns = Star1 THEN <<O("*")>> ELSE Joined([i \in DOMAIN q.columns |-> NameText(q.columns[i])], <<P(",")>>))
  \o <<K("FROM")>> \o FlattenSeq([i \in DOMAIN q.from |-> FromText(q.from[i])])
  \o WhereText(q.where)
  \o (IF q.order = <<>> THEN <<>> ELSE <<K("ORDER"), K("BY")>> \o NameText(q.order[1]) \o <<K(q.order[2])>>)
  \o (IF q.limit = Unlimited THEN <<>> ELSE <<K("LIMIT"), N(q.limit)>>)
  \o <<P(";")>>

\* The name that qualifies the columns of a table: none if it is alone or joined
\* naturally.
NameOf(q, item) ==
  CASE item.alias # "" -> item.alias
    [] Len(q.from) = 1 \/ \E i \in DOMAIN q.from : q.from[i].join = "NATURAL" -> ""
    [] OTHER -> item.table

\* What the FROM and WHERE clauses mean: a function from the rows chosen in each
\* table to the row they make together, where the conditions hold.
Combined(d, q) ==
  LET choices == {c \in [DOMAIN q.from -> 1 .. 9] : \A i \in DOMAIN c : c[i] <= Len(d[q.from[i].table].rows)}
      Of(c, i) == LET row == d[q.from[i].table].rows[c[i]]
                  IN [k \in {<<NameOf(q, q.from[i]), name>> : name \in DOMAIN row} |-> row[k[2]]]
      Agree(c) == \A i, j \in DOMAIN c : \A k \in DOMAIN Of(c, i) \cap DOMAIN Of(c, j) : Of(c, i)[k] = Of(c, j)[k]
      Made(c) == [k \in UNION {DOMAIN Of(c, i) : i \in DOMAIN c} |->
                    Of(c, CHOOSE i \in DOMAIN c : k \in DOMAIN Of(c, i))[k]]
      Chosen(c) == Agree(c) /\ Satisfies(q.where, Made(c)) /\ \A i \in DOMAIN c : Satisfies(q.from[i].on, Made(c))
  IN [c \in {c \in choices : Chosen(c)} |-> Made(c)]

Restricted(q, row) == IF q.columns = Star1 THEN row ELSE [k \in ToSet(q.columns) |-> row[k]]

\* An answer means a query: as often as the query has a row, the answer has it; with
\* a limit no more often, and no row is left out that goes before one in the answer.
Means(answer, d, q) ==
  LET rows == Combined(d, q)
      Wanted(r) == Cardinality({c \in DOMAIN rows : Restricted(q, rows[c]) = r})
      Given(r) == Cardinality({i \in DOMAIN answer : answer[i] = r})
      all == {Restricted(q, rows[c]) : c \in DOMAIN rows}
      size == Cardinality(DOMAIN rows)
      Before(r, s) == IF q.order[2] = "DESC" THEN r[q.order[1]] > s[q.order[1]] ELSE r[q.order[1]] < s[q.order[1]]
  IN /\ ToSet(answer) \subseteq all
     /\ Len(answer) = IF q.limit = Unlimited \/ q.limit > size THEN size ELSE q.limit
     /\ \A r \in all : Given(r) <= Wanted(r)
     /\ q.order # <<>> =>
          /\ \A i, j \in DOMAIN answer : i < j => ~Before(answer[j], answer[i])
          /\ \A r \in all : Given(r) < Wanted(r) => \A i \in DOMAIN answer : ~Before(r, answer[i])

--------------------------------------------------------------------------------
(* INSERT, UPDATE, DELETE, and what they mean for the rows of a table       *)

InsertInto(table, names, values) == [type |-> "INSERT", table |-> table, names |-> names, values |-> values]
SetIn(table, set, where) == [type |-> "UPDATE", table |-> table, set |-> set, where |-> where]
DeleteFrom(table, where) == [type |-> "DELETE", table |-> table, where |-> where]

NamesText(names) == Joined([i \in DOMAIN names |-> <<I(names[i])>>], <<P(",")>>)

\* An assignment: a column, the tokens of its value, and the value it means.
Assigning(name, text, Value(_)) == [name |-> name, text |-> text, value |-> [n \in 0 .. 2 |-> Value(n)]]

PutText(s) ==
  <<K("INSERT"), K("INTO"), I(s.table)>>
  \o (IF s.names = <<>> THEN <<>> ELSE <<P("(")>> \o NamesText(s.names) \o <<P(")")>>)
  \o <<K("VALUES"), P("(")>> \o Joined([i \in DOMAIN s.values |-> <<N(s.values[i])>>], <<P(",")>>) \o <<P(")"), P(";")>>
SetText(s) ==
  <<K("UPDATE"), I(s.table), K("SET"), I(s.set.name), O("=")>> \o s.set.text \o WhereText(s.where) \o <<P(";")>>
RemoveText(s) == <<K("DELETE"), K("FROM"), I(s.table)>> \o WhereText(s.where) \o <<P(";")>>

Unqualified(row) == [k \in {<<"", name>> : name \in DOMAIN row} |-> row[k[2]]]
Hit(s, row) == Satisfies(s.where, Unqualified(row))

\* The columns of the two tables, and how c refers to p.
ColumnsIn(table) == IF table = "p" THEN {"id", "a"} ELSE {"id", "pid"}
RowsIn(d, table) == IF table \in DOMAIN d THEN ToSet(d[table].rows) ELSE {}
ChildrenOf(d, parents) == {c \in RowsIn(d, "c") : \E p \in parents : c.pid = p.id}
OnDeleteOf(d) == (CHOOSE c \in ToSet(d["c"].columns) : c.name = "pid").fk[1].on_delete

\* The rows a statement leaves in both tables; the same if it must be refused.
MeantInsert(d, s) ==
  LET columns == d[s.table].columns
      names == IF s.names = <<>> THEN [i \in DOMAIN columns |-> columns[i].name] ELSE s.names
      Value(name) == IF \E i \in DOMAIN names : names[i] = name
                       THEN s.values[CHOOSE i \in DOMAIN names : names[i] = name] ELSE 0
      row == [name \in ColumnsIn(s.table) |-> Value(name)]
      refused == \/ \E r \in RowsIn(d, s.table) : r.id = row.id
                 \/ s.table = "c" /\ \A r \in RowsIn(d, "p") : r.id # row.pid
  IN [t \in {"p", "c"} |-> RowsIn(d, t) \cup (IF t = s.table /\ ~refused THEN {row} ELSE {})]

MeantUpdate(d, s) ==
  LET New(r) == IF Hit(s, r) THEN [r EXCEPT ![s.set.name] = s.set.value[@]] ELSE r
  IN [t \in {"p", "c"} |-> IF t = s.table THEN {New(r) : r \in RowsIn(d, t)} ELSE RowsIn(d, t)]

MeantDelete(d, s) ==
  LET gone == {r \in RowsIn(d, s.table) : Hit(s, r)}
      children == IF s.table = "p" THEN ChildrenOf(d, gone) ELSE {}
      refused == children # {} /\ OnDeleteOf(d) = "RESTRICT"
  IN IF refused THEN [t \in {"p", "c"} |-> RowsIn(d, t)]
     ELSE [t \in {"p", "c"} |-> RowsIn(d, t) \ (gone \cup children)]

Meant(d, s) ==
  CASE s.type = "INSERT" -> MeantInsert(d, s)
    [] s.type = "UPDATE" -> MeantUpdate(d, s)
    [] s.type = "DELETE" -> MeantDelete(d, s)

--------------------------------------------------------------------------------
(* The statements of the run                                                *)

pid == <<"p", "id">>
cid == <<"c", "id">>
id == <<"", "id">>
a == <<"", "a">>
Is2(c, op, n) == Cmp(op, Col(c[1], c[2]), Lit(n))
Same(c, d) == Cmp("=", Col(c[1], c[2]), Col(d[1], d[2]))

Queries ==
  << Query(Star1, <<Table("p")>>, <<>>, <<>>, Unlimited),
     Query(<<id>>, <<Table("p")>>, <<Either(Is2(a, "=", 1), Both(Is2(a, "=", 2), Is2(id, "=", 2)))>>, <<>>, Unlimited),
     Query(<<a>>, <<Table("p")>>, <<Both(Either(Is2(a, "=", 1), Is2(id, "=", 2)), Is2(id, "<>", 1))>>, <<>>, Unlimited),
     Query(<<a>>, <<Table("p")>>, <<Cmp("<", Lit(1), Col("", "id"))>>, <<>>, Unlimited),
     Query(<<a, id>>, <<Table("p")>>, <<Cmp("<=", Col("", "a"), Col("", "id"))>>, <<a, "DESC">>, 1),
     Query(<<a>>, <<Table("p")>>, <<>>, <<a, "ASC">>, Unlimited),
     Query(<<pid, cid>>, <<Table("p"), Comma(Table("c"))>>, <<Same(pid, <<"c", "pid">>)>>, <<>>, Unlimited),
     Query(Star1, <<Alias("p", "x"), Comma(Alias("c", "y"))>>,
           <<Both(Is2(<<"y", "id">>, ">", 1), Same(<<"x", "id">>, <<"y", "pid">>))>>, <<>>, Unlimited),
     Query(<<<<"p", "a">>, cid>>, <<Table("p"), On(Table("c"), Same(pid, <<"c", "pid">>))>>,
           <<Is2(<<"p", "a">>, ">=", 1)>>, <<cid, "DESC">>, 1),
     Query(Star1, <<Table("p"), Natural(Table("c"))>>, <<Is2(<<"", "pid">>, "<>", 1)>>, <<>>, Unlimited),
     Query(<<<<"x", "id">>, <<"y", "a">>>>, <<Alias("p", "x"), Comma(Alias("p", "y"))>>,
           <<Cmp("<", Col("x", "id"), Col("y", "a"))>>, <<>>, Unlimited),
     Query(<<<<"x", "a">>, <<"y", "id">>>>, <<Alias("p", "x"), Comma(Alias("c", "y")), Comma(Alias("p", "z"))>>,
           <<Both(Same(<<"x", "id">>, <<"y", "pid">>), Same(<<"y", "id">>, <<"z", "id">>))>>, <<>>, Unlimited) >>

\* Changes whose meaning the code keeps.
Changes ==
  << InsertInto("p", <<>>, <<1, 1>>), InsertInto("p", <<"a", "id">>, <<2, 2>>), InsertInto("p", <<"id">>, <<2>>),
     InsertInto("c", <<>>, <<1, 1>>), InsertInto("c", <<>>, <<2, 1>>), InsertInto("c", <<"id", "pid">>, <<2, 2>>),
     InsertInto("p", <<"a", "id">>, <<0, 3>>),
     SetIn("p", Assigning("a", <<N(2)>>, LAMBDA n : 2), <<Is2(id, "=", 1)>>),
     SetIn("p", Assigning("a", <<N(2), O("-"), N(1), O("*"), I("a")>>, LAMBDA n : 2 - n),
         <<Both(Is2(a, ">=", 1), Is2(id, "<>", 1))>>),
     DeleteFrom("p", <<Is2(id, "=", 1)>>), DeleteFrom("p", <<>>),
     DeleteFrom("p", <<Both(Is2(a, "=", 0), Is2(id, ">", 1))>>),
     DeleteFrom("c", <<Is2(<<"", "pid">>, "<", 2)>>) >>

\* An UPDATE of the key, CREATE, DROP, and a statement that does not parse.
Others ==
  << <<K("UPDATE"), I("p"), K("SET"), I("id"), O("="), N(2), K("WHERE"), I("id"), O("="), N(1)>>,
     <<K("CREATE"), K("TABLE"), I("p"), P("("), I("id"), K("INT"), K("PRIMARY"), K("KEY"), P(","), I("a"), K("FLOAT"), P(")"), P(";")>>,
     <<K("CREATE"), K("TABLE"), I("c"), P("("), I("id"), K("INT"), P(","),
       I("pid"), K("INT"), K("REFERENCES"), I("p"), P("("), I("id"), P(")"), K("ON"), K("DELETE"), K("CASCADE"), P(","),
       K("PRIMARY"), K("KEY"), P("("), I("id"), P(")"), P(")")>>,
     <<K("CREATE"), K("TABLE"), I("c"), P("("), I("pid"), K("INT"), K("REFERENCES"), I("p"), P("("), I("id"), P(")"), P(","),
       I("id"), K("INT"), P(","), K("PRIMARY"), K("KEY"), P("("), I("id"), P(")"), P(")")>>,
     <<K("DROP"), K("TABLE"), I("p")>>,
     <<K("DROP"), K("TABLE"), I("c"), K("CASCADE")>>,
     <<K("SELECT"), K("FROM"), I("p")>> >>

ChangeText(s) ==
  CASE s.type = "INSERT" -> PutText(s) [] s.type = "UPDATE" -> SetText(s) [] s.type = "DELETE" -> RemoveText(s)

Texts ==
  [i \in DOMAIN Queries |-> QueryText(Queries[i])]
  \o [i \in DOMAIN Changes |-> ChangeText(Changes[i])]
  \o Others

MCPlan == [i \in DOMAIN Texts |-> Optimized(Parse(Texts[i]))]

QueryPlan(i) == Plan[i]
ChangePlan(i) == Plan[Len(Queries) + i]

--------------------------------------------------------------------------------
(* Properties                                                               *)

\* Every row has the columns of its table, and no two rows of a table have the same
\* primary key, whatever was deleted, inserted again or moved to another key
\* (the duplicate checks of write_block and the merge of buffer and disk).
TypeOK ==
  /\ DOMAIN db \subseteq {"p", "c"}
  /\ \A t \in DOMAIN db :
       /\ \A i \in DOMAIN db[t].rows : DOMAIN db[t].rows[i] = ColumnsIn(t)
       /\ \A i, j \in DOMAIN db[t].rows : i # j => db[t].rows[i].id # db[t].rows[j].id
  /\ \A m \in marks : m[1] \in {"p", "c"} /\ m[2].id \in 0 .. 3

\* What a query answers, and what it means; without one of its tables it fails.
Answers(answer, d, q) ==
  IF \A j \in DOMAIN q.from : q.from[j].table \in DOMAIN d THEN answer.ok /\ Means(answer.data, d, q) ELSE ~answer.ok

\* Parsed, rewritten by the optimiser and executed, a query answers what its text
\* means in SQL, rows, number and order; without one of its tables it fails.
SelectAnswers == \A i \in DOMAIN Queries : Answers(ProcessNode(db, QueryPlan(i)), db, Queries[i])

\* INSERT, UPDATE and DELETE leave the rows that their text means, with the keys and
\* the foreign keys checked, whatever order the dependent tables are found in.
\* Only an INSERT under a key whose deleted row is still buffered is lost.
WritesAsMeant ==
  \A i \in DOMAIN Changes : Changes[i].table \in DOMAIN db =>
    \A o \in Outcomes(Fresh, ChangePlan(i)) :
      \/ \A t \in {"p", "c"} : RowsIn(o.s.db, t) = Meant(db, Changes[i])[t]
      \/ /\ Changes[i].type = "INSERT" /\ o.s.db = db /\ o.count = 1
         /\ \E m \in marks : m[1] = Changes[i].table

\* A row never refers to a row or a table that is gone: deletions, key updates,
\* dropped and recreated tables included.
ReferentialIntegrity ==
  \A c \in RowsIn(db, "c") : \E p \in RowsIn(db, "p") : p.id = c.pid

================================================================================
