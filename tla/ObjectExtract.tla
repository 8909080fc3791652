--------------------------- MODULE ObjectExtract ----------------------------
(***************************************************************************)
(* The objects of a parsed statement                                        *)
(* (runtime/gateway/src/object_extract.rs): the tables it touches, what it  *)
(* does to each, the columns it names and whether it reads all of them.     *)
(* The parsers are libraries; a statement is the tree they give.            *)
(*   expression  [e |-> "col", name] | [e |-> "op", args] | [e |-> "sub", q]*)
(*   query       [with, body], body [k |-> "select", items, from, cond]     *)
(*               or [k |-> "union", left, right]; an item is <<>> for a     *)
(*               star and <<expression>> otherwise                          *)
(*   table       [t |-> "name", name] | [t |-> "derived", q]                *)
(*               | [t |-> "join", left, right, on]                          *)
(***************************************************************************)
EXTENDS Integers, Sequences, FiniteSets, SequencesExt, Topic

Object(name, op) == [table |-> name, op |-> op, columns |-> {}, wild |-> FALSE]

(* Objects of one table and one action are one.                             *)
push_object(set, obj) ==
  LET same == {i \in DOMAIN set : set[i].table = obj.table /\ set[i].op = obj.op}
  IN  IF same = {} THEN Append(set, obj)
      ELSE LET i == CHOOSE j \in same : \A k \in same : j <= k
           IN  [set EXCEPT ![i].wild = @ \/ obj.wild, ![i].columns = @ \cup obj.columns]

Columns0(args, f(_)) == UNION {f(args[i]) : i \in DOMAIN args}

RECURSIVE collect_expr_columns(_)
collect_expr_columns(x) ==
  CASE x.e = "col" -> {x.name}
    [] x.e = "op"  -> Columns0(x.args, collect_expr_columns)
    [] x.e = "sub" -> {}

RECURSIVE walk_query(_, _, _), walk_set_expr(_, _, _), collect_table_factor(_, _, _),
          walk_expr_subqueries(_, _)

(* What f makes of a set that is complete by now; and of the set to which   *)
(* one part after the other has added.                                      *)
Then(set, f(_)) == CHOOSE r \in {f(s) : s \in {set}} : TRUE
Through(parts, set, f(_, _)) ==
  LET to[i \in 0..Len(parts)] == IF i = 0 THEN set ELSE Then(to[i - 1], LAMBDA s : f(s, parts[i])) IN to[Len(parts)]

walk_expr_subqueries(x, set) ==
  CASE x.e = "col" -> set
    [] x.e = "op"  -> Through(x.args, set, LAMBDA s, a : walk_expr_subqueries(a, s))
    [] x.e = "sub" -> walk_query(x.q, "select", set)

collect_table_factor(t, action, set) ==
  CASE t.t = "name"    -> push_object(set, Object(t.name, action))
    [] t.t = "derived" -> walk_query(t.q, "select", set)
    [] t.t = "join"    ->
         LET l == collect_table_factor(t.left, action, set)
             r == collect_table_factor(t.right, action, l)
         IN  Through(t.on, r, LAMBDA s, a : walk_expr_subqueries(a, s))

Items(q) == SelectSeq(q.items, LAMBDA i : i # <<>>)
HasStar(q) == <<>> \in ToSet(q.items)
Named(q) == UNION {collect_expr_columns(Items(q)[i][1]) : i \in 1..Len(Items(q))}

(* The objects a select has added are given its star and its columns.       *)

Given(set, before, action, q) ==
  [i \in DOMAIN set |-> IF i > before /\ set[i].op = action
                        THEN [set[i] EXCEPT !.wild = @ \/ HasStar(q), !.columns = @ \cup Named(q)]
                        ELSE set[i]]

walk_set_expr(b, action, set) ==
  IF b.k = "union" THEN walk_set_expr(b.right, action, walk_set_expr(b.left, action, set))
  ELSE LET Cond(marked) == Through(b.cond, marked, LAMBDA s, x : walk_expr_subqueries(x, s))
           Tables(listed) == Through(b.from, listed, LAMBDA s, t : collect_table_factor(t, action, s))
           Read(listed) == Then(Given(Tables(listed), Len(listed), action, b), Cond)
       IN  Then(Through(Items(b), set, LAMBDA s, i : walk_expr_subqueries(i[1], s)), Read)

walk_query(q, action, set) ==
  walk_set_expr(q.body, action, Through(q.with, set, LAMBDA s, c : walk_query(c, "select", s)))

(* Statements: a query, an insert with its query, an update with its        *)
(* assignments, a delete with its condition, a definition with its query.   *)
walk_sqlparser_statement(st) ==
  CASE st.s = "query"  -> walk_query(st.q[1], "select", <<>>)
    [] st.s = "insert" ->
         Through(st.q, <<[Object(st.table, "insert") EXCEPT !.columns = st.columns]>>,
                 LAMBDA s, q : walk_query(q, "select", s))
    [] st.s = "update" ->
         LET t == <<[Object(st.table, "update") EXCEPT !.columns = st.columns]>>
         IN  Through(st.exprs, t, LAMBDA s, x : walk_expr_subqueries(x, s))
    [] st.s = "delete" ->
         \* every relation below the statement is taken as deleted from
         LET below == Through(st.exprs, <<>>, LAMBDA s, x : walk_expr_subqueries(x, s))
         IN  Through(<<Object(st.table, "delete")>> \o below, <<>>,
                     LAMBDA s, o : push_object(s, [o EXCEPT !.op = "delete", !.wild = FALSE,
                                                            !.columns = {}]))
    [] st.s = "ddl"    ->
         Through(st.q, <<Object(st.table, "ddl")>>, LAMBDA s, q : walk_query(q, "select", s))

-----------------------------------------------------------------------------
(* The MySQL parser's tree: no entry is shared, a select sets the star of   *)
(* every object it has added, and the queries of a WITH are not walked.     *)
RECURSIVE walk_mysql_select(_, _, _), walk_mysql_table_ref(_, _, _),
          walk_mysql_expr_subqueries(_, _)

walk_mysql_expr_subqueries(x, set) ==
  CASE x.e = "col" -> set
    [] x.e = "op"  -> Through(x.args, set, LAMBDA s, a : walk_mysql_expr_subqueries(a, s))
    [] x.e = "sub" -> walk_mysql_select(x.q.body, "select", set)

walk_mysql_table_ref(t, action, set) ==
  CASE t.t = "name"    -> Append(set, Object(t.name, action))
    [] t.t = "derived" -> walk_mysql_select(t.q.body, "select", set)
    [] t.t = "join"    -> walk_mysql_table_ref(t.right, action, walk_mysql_table_ref(t.left, action, set))

MySqlGiven(set, before, action, q) ==
  [i \in DOMAIN set |-> IF i > before /\ set[i].op = action
                        THEN [set[i] EXCEPT !.wild = HasStar(q), !.columns = @ \cup Named(q)]
                        ELSE set[i]]

walk_mysql_select(b, action, set) ==
  IF b.k = "union" THEN walk_mysql_select(b.right, action, walk_mysql_select(b.left, action, set))
  ELSE LET Cond(marked) == Through(b.cond, marked, LAMBDA s, x : walk_mysql_expr_subqueries(x, s))
           Tables(listed) == Through(b.from, listed, LAMBDA s, t : walk_mysql_table_ref(t, action, s))
           Read(listed) == Then(MySqlGiven(Tables(listed), Len(listed), action, b), Cond)
       IN  Then(Through(Items(b), set, LAMBDA s, i : walk_mysql_expr_subqueries(i[1], s)), Read)

walk_mysql_stmt(st) ==
  CASE st.s = "query"  -> walk_mysql_select(st.q[1].body, "select", <<>>)
    [] st.s = "insert" ->
         Append(Through(st.q, <<>>, LAMBDA s, q : walk_mysql_select(q.body, "select", s)),
                [Object(st.table, "insert") EXCEPT !.columns = st.columns])
    [] st.s = "update" ->
         LET t == <<Object(st.table, "update")>>
             s == Through(st.exprs, t, LAMBDA o, x : walk_mysql_expr_subqueries(x, o))
         IN  [s EXCEPT ![1].columns = st.columns]
    [] st.s = "delete" ->
         Through(st.exprs, <<Object(st.table, "delete")>>,
                 LAMBDA s, x : walk_mysql_expr_subqueries(x, s))
    [] st.s = "ddl"    -> <<>>

(* The MySQL parser comes first for MySQL, the general one second; a text   *)
(* neither reads goes by the tables its words name, and only a text of data *)
(* that names none is a failure.                                            *)
extract_object_set(protocol, parse) ==
  CASE protocol = "mysql" /\ parse.mysql # <<>> ->
         [objects |-> walk_mysql_stmt(parse.mysql[1]), failed |-> FALSE, heuristic |-> FALSE]
    [] (protocol # "mysql" \/ parse.mysql = <<>>) /\ parse.general # <<>> ->
         [objects |-> walk_sqlparser_statement(parse.general[1]), failed |-> FALSE,
          heuristic |-> FALSE]
    [] OTHER ->
         LET found == IF parse.data THEN parse.words ELSE {}
         IN  [objects |-> SetToSeq({Object(t, "other") : t \in found}), failed |-> found = {},
              heuristic |-> parse.data]

-----------------------------------------------------------------------------
(***************************************************************************)
(* ObjectExtract against what a statement's tree holds.                     *)
(***************************************************************************)

Col(c) == [e |-> "col", name |-> c]
Op(args) == [e |-> "op", args |-> args]
Sub(q) == [e |-> "sub", q |-> q]
Name(t) == [t |-> "name", name |-> t]
Select(items, from, cond) == [k |-> "select", items |-> items, from |-> from, cond |-> cond]
Unwith(b) == [with |-> <<>>, body |-> b]

(* Trees of growing depth; every level uses names of its own, so that a     *)
(* table is read by one select only.                                        *)
Leaf1(t) == { Unwith(Select(<<i>>, <<Name(t)>>, <<>>)) : i \in {<<>>, <<Col(t)>>} }
Exprs(t) == {Col("p")} \cup {Op(<<Col("p"), Sub(q)>>) : q \in Leaf1(t)}

Froms == {<<Name("t")>>, <<Name("t"), Name("u")>>,
          <<[t |-> "join", left |-> Name("t"), right |-> Name("u"), on |-> <<>>]>>}
         \cup {<<[t |-> "derived", q |-> q]>> : q \in Leaf1("d")}
         \cup {<<[t |-> "join", left |-> Name("t"), right |-> Name("u"), on |-> <<x>>]>> :
                 x \in Exprs("o")}

Bodies == [k : {"select"}, items : {<<<<>>>>} \cup {<<<<x>>, <<Col("c")>>>> : x \in Exprs("i")},
           from : Froms, cond : {<<>>} \cup {<<x>> : x \in Exprs("w")}]

Queries1 == [with : {<<>>} \cup {<<q>> : q \in Leaf1("h")}, body : Bodies]
            \cup {Unwith([k |-> "union", left |-> b, right |-> Select(<<<<>>>>, <<Name("z")>>, <<>>)]) :
                    b \in Bodies}

Statement(s, t, q, cols, exprs) ==
  [s |-> s, table |-> t, q |-> q, columns |-> cols, exprs |-> exprs]

Stmts == { Statement("query", "", <<q>>, {}, <<>>) : q \in Queries1 }
         \cup { Statement(s, "n", q, {"c"}, <<>>) :
                  s \in {"insert", "ddl"}, q \in {<<>>} \cup {<<x>> : x \in Leaf1("t")} }
         \cup { Statement(s, "n", <<>>, {"c"}, <<x>>) : s \in {"update", "delete"}, x \in Exprs("w") }

RECURSIVE TablesOfExpr(_), TablesOfBody(_), TablesOfTable(_)
ReadBy(q) == UNION {TablesOfBody(q.with[i].body) : i \in DOMAIN q.with} \cup TablesOfBody(q.body)
TablesOfExpr(x) == CASE x.e = "col" -> {}
                     [] x.e = "op"  -> UNION {TablesOfExpr(x.args[i]) : i \in DOMAIN x.args}
                     [] x.e = "sub" -> ReadBy(x.q)
TablesOfTable(t) ==
  CASE t.t = "name" -> {t.name}
    [] t.t = "derived" -> ReadBy(t.q)
    [] t.t = "join" -> TablesOfTable(t.left) \cup TablesOfTable(t.right)
                         \cup UNION {TablesOfExpr(t.on[i]) : i \in DOMAIN t.on}
TablesOfBody(b) ==
  IF b.k = "union" THEN TablesOfBody(b.left) \cup TablesOfBody(b.right)
  ELSE UNION {TablesOfExpr(Items(b)[i][1]) : i \in 1..Len(Items(b))}
         \cup UNION {TablesOfTable(b.from[i]) : i \in DOMAIN b.from}
         \cup UNION {TablesOfExpr(b.cond[i]) : i \in DOMAIN b.cond}

TablesOf(st) == {t \in {st.table} : t # ""} \cup UNION {ReadBy(st.q[i]) : i \in DOMAIN st.q}
                  \cup UNION {TablesOfExpr(st.exprs[i]) : i \in DOMAIN st.exprs}

Found(objects) == {objects[i].table : i \in DOMAIN objects}

(* The general parser's walk hands the policy exactly the tables of the     *)
(* statement, wherever a nested query stands: in the list, under a join, in *)
(* a condition, in a WITH, below an insert, an update, a delete.            *)
ObjectsComplete ==
  Looking("objects") => Found(walk_sqlparser_statement(input[1])) = TablesOf(input[1])

(* The tables of a query that stand below a WITH or below a join's ON.      *)
BelowOn(t) == IF t.t = "join" THEN UNION {TablesOfExpr(t.on[i]) : i \in DOMAIN t.on} ELSE {}
RECURSIVE BelowJoins(_)
BelowJoins(b) == IF b.k = "union" THEN BelowJoins(b.left) \cup BelowJoins(b.right)
                 ELSE UNION {BelowOn(b.from[i]) : i \in DOMAIN b.from}
BelowWith(q) == UNION {TablesOfBody(q.with[i].body) : i \in DOMAIN q.with}

Overlooked(st) ==
  IF st.s = "ddl" THEN TablesOf(st)
  ELSE UNION {BelowWith(st.q[i]) \cup BelowJoins(st.q[i].body) : i \in DOMAIN st.q}

(* The MySQL walk hands over the tables of the statement but, of a query,   *)
(* exactly those of its WITH and those of the nested queries in a join's    *)
(* ON, and of a definition all of them: there it does not go                *)
(* (walk_mysql_select, walk_mysql_table_ref, walk_mysql_stmt).              *)
MySqlObjectsComplete ==
  Looking("objects") =>
    Found(walk_mysql_stmt(input[1])) = TablesOf(input[1]) \ Overlooked(input[1])

(* Every table of a select with a star is marked as read in full, so that a *)
(* column rule sees the star whichever table it is about; the tables of the *)
(* trees here are read by one select each.                                  *)
StarMarked ==
  Looking("objects") /\ input[1].s = "query" /\ input[1].q[1].body.k = "select" =>
    LET b == input[1].q[1].body
        o == walk_sqlparser_statement(input[1])
        direct == {t \in {"t", "u"} : t \in UNION {TablesOfTable(b.from[i]) : i \in DOMAIN b.from}}
    IN  \A i \in DOMAIN o : o[i].table \in direct => (o[i].wild <=> HasStar(b))

ObjectInputs == [objects |-> Stmts]

=============================================================================
