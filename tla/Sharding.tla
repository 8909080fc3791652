------------------------------ MODULE Sharding ------------------------------
(***************************************************************************)
(* The rewriting of statements on sharded tables                            *)
(* (proxy/strategy/src/sharding_rewrite/).  A statement is the sequence of  *)
(* its tokens, the nodes the visitor meets in their order in the text:      *)
(*   n     "kw", "item", "table", "eq", "cmp", "order", "group" or "row"    *)
(*   q     the query it belongs to (0 in an INSERT, 2 in a subquery)        *)
(*   len   how many characters it has                                       *)
(*   name  of a column or table;  schema  <<>> or <<a schema>>              *)
(*   agg   of an item: "none", "avg", "min", "max", "count" or "sum"        *)
(*   kind, val   of a compared literal: "num", "signed" or "dec"            *)
(*   values      of a row: its literals, [kind, val] with kind also "text"  *)
(* A text is a sequence of characters <<what, i>>, so that a character      *)
(* that survives the rewriting can be told from any other.                  *)
(* A rule is [typ, table, nodes, dbcol, tbcol, algo, count]; a rewriter     *)
(* [rules, endpoints, has_rw, members, default_db], endpoints being a       *)
(* sequence of [name, db] and members the nodes of the node group.          *)
(***************************************************************************)
EXTENDS Integers, Sequences, SequencesExt, FiniteSets, FiniteSetsExt, Topic

Refused == [ok |-> FALSE, why |-> "error"]
Panics  == [ok |-> FALSE, why |-> "panic"]

(* What a text is made of.                                                  *)
Chars(what, len) == [i \in 1..len |-> <<what, i>>]
Start(stmt, i) == FoldLeft(LAMBDA a, t : a + t.len, 0, SubSeq(stmt, 1, i - 1))
End(stmt, i) == Start(stmt, i) + stmt[i].len
RawSql(stmt) == FlattenSeq([i \in DOMAIN stmt |-> Chars(i, stmt[i].len)])

(* The metadata the visitor collects: the tokens of a kind, by query, each  *)
(* with its place.  Of the conditions only equalities of a column with a    *)
(* number are kept, whatever connects them.                                 *)
NodesOfKind(stmt, ns, q) == SelectSeq([i \in DOMAIN stmt |-> i], LAMBDA i : stmt[i].n \in ns /\ stmt[i].q = q)
FieldBlock(stmt, q) == End(stmt, Last(NodesOfKind(stmt, {"item"}, q)))

(* CalcShardingIdx: the remainder keeps the sign of a signed number, and is *)
(* then an index no node or table has.  Hash stands for crc32.              *)
Hash(v) == (v * v * 7 + v + 3) % 13
calc_signed(v, algo, count) ==
  IF algo = "mod" THEN (IF v >= 0 THEN v % count ELSE -((-v) % count)) ELSE Hash(v) % count

(* parse_where: <<>> stands for a text that is not a whole number.          *)
parse_where(kind, v, algo, count) == IF kind = "dec" THEN <<>> ELSE <<calc_signed(v, algo, count)>>

get_sharding_count(rule) ==
  [database |-> IF rule.typ = "table" THEN <<>> ELSE <<Len(rule.nodes)>>,
   table    |-> IF rule.typ = "database" THEN <<>> ELSE <<rule.count>>]

Endpoint(rw, node) == SelectSeq(rw.endpoints, LAMBDA e : e.name = node)

get_endpoint(rw, rule, idx) ==
  Endpoint(rw, rule.nodes[IF rule.typ = "table" THEN 1 ELSE idx + 1])

gen_data_source(rw, rule, idx) ==
  IF rw.has_rw THEN <<"group", rule.nodes[1]>> ELSE <<"endpoint", get_endpoint(rw, rule, idx)[1].name>>

(* find_table_rule: the endpoints are walked by one iterator for all tables *)
(* and nodes, so a search continues where the one before has stopped.       *)
RECURSIVE NodeServesDb(_, _, _)
NodeServesDb(rw, nodes, at) ==
  IF nodes = <<>> THEN [found |-> FALSE, at |-> at]
  ELSE LET hits == {i \in at..Len(rw.endpoints) :
                      rw.endpoints[i].name = nodes[1] /\ <<rw.endpoints[i].db>> = rw.default_db}
       IN IF hits # {} THEN [found |-> TRUE, at |-> Min(hits) + 1]
          ELSE NodeServesDb(rw, Tail(nodes), Len(rw.endpoints) + 1)

RuleOf(rw, name) == SelectSeq(rw.rules, LAMBDA r : r.table = name)

find_table_rule(rw, stmt) ==
  LET Look(at, rule) ==
        IF rw.default_db = <<>> \/ rule = <<>> THEN [found |-> FALSE, at |-> at]
        ELSE IF rw.has_rw THEN [found |-> ToSet(rule[1].nodes) \cap rw.members # {}, at |-> at]
        ELSE NodeServesDb(rw, rule[1].nodes, at)
      Kept(acc, i, rule, look) ==
        [at |-> look.at,
         found |-> IF rule # <<>> /\ (stmt[i].schema # <<>> \/ look.found)
                   THEN Append(acc.found, [q |-> stmt[i].q, rule |-> rule[1], at |-> i]) ELSE acc.found]
      Ruled(acc, i, rule) == Kept(acc, i, rule, Look(acc.at, rule))
      Seen(acc, i) == Ruled(acc, i, RuleOf(rw, stmt[i].name))
      tables == FlattenSeq([q \in 1..3 |-> NodesOfKind(stmt, {"table"}, q - 1)])
  IN FoldLeft(Seen, [at |-> 1, found |-> <<>>], tables).found

(* get_where_match_right, find_try_where: the first equality on the column  *)
(* of the rule of the query's first table.                                  *)

get_where_match_right(stmt, q, column) ==
  SelectSeq(NodesOfKind(stmt, {"eq"}, q), LAMBDA i : stmt[i].name = column)

WhereIdx(stmt, q, column, algo, count) ==
  LET Parsed(idx) == [ok |-> idx # <<>>, idx |-> idx]
      First(right) == IF right = <<>> THEN [ok |-> TRUE, idx |-> <<>>]
                      ELSE Parsed(parse_where(stmt[right[1]].kind, stmt[right[1]].val, algo, count))
  IN First(get_where_match_right(stmt, q, column))

find_try_where(stmt, try_tables) ==
  LET Db(q, rule) == IF rule.typ = "table" THEN [ok |-> TRUE, idx |-> <<>>]
                     ELSE WhereIdx(stmt, q, rule.dbcol, rule.algo, get_sharding_count(rule).database[1])
      Tb(q, rule) == IF rule.typ = "database" THEN [ok |-> TRUE, idx |-> <<>>]
                     ELSE WhereIdx(stmt, q, rule.tbcol, rule.algo, get_sharding_count(rule).table[1])
      Both(db, tb) == IF ~db.ok \/ ~tb.ok THEN Refused ELSE [ok |-> TRUE, db |-> db.idx, tb |-> tb.idx]
      One(q, mine) == IF mine = <<>> THEN Panics ELSE Both(Db(q, mine[1].rule), Tb(q, mine[1].rule))
      Each(asked) == [k \in DOMAIN asked |-> One(asked[k], SelectSeq(try_tables, LAMBDA t : t.q = asked[k]))]
  IN Each(SelectSeq(<<1, 2>>, LAMBDA q : NodesOfKind(stmt, {"eq"}, q) # <<>>))

(* change_table: what a table is called in a shard, and for how long.  The  *)
(* name is the schema's own with the number of the table, or the node's     *)
(* database with the table's name, which may be shorter than what it        *)
(* replaces.                                                                *)
change_table(rw, t, schema, actual_db, idx) ==
  LET db == IF schema # <<>> THEN schema[1] ELSE rw.default_db[1]
  IN IF actual_db = <<>> THEN [db |-> db, table |-> t.name, idx |-> <<idx>>, len |-> 11]
     ELSE [db |-> actual_db[1], table |-> t.name, idx |-> <<>>, len |-> 4]

(* The shards of one table a part of the strategy names: the node, the      *)
(* schema and the number of the table, in the order they are visited.       *)
(* Part is [db, tb], each <<>> for all.  The range from the largest index   *)
(* (-1) to the next is empty, as sums wrap.                                 *)
NodeNumbers(rule, part) ==
  IF part.db = <<>> THEN [i \in DOMAIN rule.nodes |-> i - 1] ELSE part.db
TableNumbers(rule, part) ==
  IF part.tb = <<>> THEN [i \in 1..rule.count |-> i - 1] ELSE SelectSeq(part.tb, LAMBDA i : i # -1)

(* A shard of table t: its data source, its index (that of a chosen         *)
(* database is 0, its place among the nodes visited) and the table there.   *)
Shard(rw, rule, t, node_idx, db, tb) ==
  LET actual == Endpoint(rw, rule.nodes[db + 1])[1].db
  IN CASE rule.typ = "table" -> [ds |-> gen_data_source(rw, rule, 0), idx |-> [db |-> <<>>, tb |-> <<tb>>],
                                 target |-> change_table(rw, t, t.schema, <<>>, tb)]
       [] rule.typ = "database" -> [ds |-> gen_data_source(rw, rule, db), idx |-> [db |-> <<node_idx>>, tb |-> <<>>],
                                    target |-> change_table(rw, t, t.schema, <<actual>>, 0)]
       [] OTHER -> [ds |-> gen_data_source(rw, rule, db), idx |-> [db |-> <<db>>, tb |-> <<tb>>],
                    target |-> change_table(rw, t, <<actual>>, <<>>, tb)]

Shards(rw, rule, t, part) ==
  LET Product(dbs, tbs) == FlattenSeq([d \in DOMAIN dbs |-> [k \in DOMAIN tbs |-> Shard(rw, rule, t, d - 1, dbs[d], tbs[k])]])
  IN Product(IF rule.typ = "table" THEN <<0>> ELSE NodeNumbers(rule, part),
             IF rule.typ = "database" THEN <<0>> ELSE TableNumbers(rule, part))

(* change_order_group, change_avg: an ordering or grouping column that is   *)
(* not selected is added behind the select list, avg(x) becomes count(x)    *)
(* and sum(x).  The added names end in the number of the table: there is    *)
(* none when only the database is chosen.                                   *)
Derived(stmt, q) ==
  SelectSeq(NodesOfKind(stmt, {"order"}, q) \o NodesOfKind(stmt, {"group"}, q),
            LAMBDA i : \A k \in ToSet(NodesOfKind(stmt, {"item"}, q)) : stmt[k].name # stmt[i].name)
Averages(stmt, q) == SelectSeq(NodesOfKind(stmt, {"item"}, q), LAMBDA i : stmt[i].agg = "avg")

Plan(typ, from, to, what, len) == [typ |-> typ, from |-> from, to |-> to, text |-> Chars(what, len)]
FieldPlans(stmt, q, shard) ==
  LET Split(avgs) == [k \in DOMAIN avgs |->
                        Plan("avg", Start(stmt, avgs[k]), End(stmt, avgs[k]), <<"avg", stmt[avgs[k]].name, shard.idx.tb>>, 20)]
      Added(names, at) == IF names = <<>> THEN <<>> ELSE <<Plan("add", at, at, <<"add", names, shard.idx.tb>>, 7)>>
  IN Split(Averages(stmt, q)) \o Added([k \in DOMAIN Derived(stmt, q) |-> stmt[Derived(stmt, q)[k]].name], FieldBlock(stmt, q))
TablePlan(stmt, i, shard) == Plan("table", Start(stmt, i), End(stmt, i), <<"table", shard.target>>, shard.target.len)

(* change_sql and the loops of change_plan_apply: the characters of the     *)
(* span are removed and the new text put there, moved by what the changes   *)
(* of the same query have added so far.  A shorter text makes the unsigned  *)
(* offset wrap, and the place it is added to wraps back (the release        *)
(* build); Wrap stands for the width of an offset, far above any text.      *)
Wrap == 4096
Moved(place, offset) == (place + offset) % Wrap
change_sql(text, from, to, new, offset) ==
  SubSeq(text, 1, Moved(from, offset)) \o new \o SubSeq(text, Moved(to, offset) + 1, Len(text))

Sorted(plans) == SortSeq(plans, LAMBDA a, b : a.from < b.from)
ByType(plans, typ) == Sorted(SelectSeq(plans, LAMBDA p : p.typ = typ))

(* Mutant of ApplyQuery: the tables' places are not moved by the fields'    *)
(* changes.                                                                 *)
ApplyQuery_reset(text, plans) ==
  LET Step(acc, p) == [text |-> change_sql(acc.text, p.from, p.to, p.text, acc.offset),
                       offset |-> Moved(Len(p.text) - (p.to - p.from), acc.offset)]
      fields == FoldLeft(Step, [text |-> text, offset |-> 0], ByType(plans, "avg") \o ByType(plans, "add"))
  IN FoldLeft(Step, [text |-> fields.text, offset |-> 0], ByType(plans, "table")).text

ApplyQuery(text, plans) ==
  LET Step(acc, p) == [text |-> change_sql(acc.text, p.from, p.to, p.text, acc.offset),
                       offset |-> Moved(Len(p.text) - (p.to - p.from), acc.offset)]
  IN FoldLeft(Step, [text |-> text, offset |-> 0],
              ByType(plans, "avg") \o ByType(plans, "add") \o ByType(plans, "table")).text

(* The plans of all tables, grouped by shard in the order the shards are    *)
(* first met; the queries of a shard are changed from the last to the       *)
(* first.                                                                   *)
Key(shard) == [ds |-> shard.ds, idx |-> shard.idx]
change_plan_apply(stmt, planned) ==
  LET Met(seen, key) == IF Contains(seen, key) THEN seen ELSE Append(seen, key)
      Of(key, q) == FlattenSeq([k \in DOMAIN planned |->
                       IF Key(planned[k].shard) = key /\ planned[k].q = q THEN planned[k].plans ELSE <<>>])
      Text(key) == ApplyQuery(ApplyQuery(RawSql(stmt), Of(key, 2)), Of(key, 1))
      Names(key) == {planned[k].shard.target : k \in {k \in DOMAIN planned : Key(planned[k].shard) = key}}
      Each(keys) == [k \in DOMAIN keys |->
                       [ds |-> keys[k].ds, idx |-> keys[k].idx, sql |-> Text(keys[k]), tables |-> Names(keys[k])]]
  IN Each(FoldLeft(LAMBDA seen, p : Met(seen, Key(p.shard)), <<>>, planned))

(* The three iproducts.  The select list is planned once for every table of *)
(* the query, joined ones included.  A node index no rule has, and a        *)
(* derived name without the number of a table, end the task.                *)
iproduct(rw, stmt, try_tables, part) ==
  LET On(t, shards) == [k \in DOMAIN shards |->
                          [q |-> t.q, shard |-> shards[k],
                           plans |-> <<TablePlan(stmt, t.at, shards[k])>> \o FieldPlans(stmt, t.q, shards[k])]]
      Planned(t) == On(t, Shards(rw, t.rule, stmt[t.at], part))
      nodeless == \E t \in ToSet(try_tables) : \E d \in ToSet(part.db) : d + 1 \notin DOMAIN t.rule.nodes
      nameless == \E t \in ToSet(try_tables) : /\ t.rule.typ = "database"
                                               /\ Averages(stmt, t.q) # <<>> \/ Derived(stmt, t.q) # <<>>
  IN IF nodeless \/ nameless THEN Panics
     ELSE [ok |-> TRUE, results |-> change_plan_apply(stmt, FlattenSeq([k \in DOMAIN try_tables |-> Planned(try_tables[k])]))]

(* database_strategy, table_strategy, database_table_strategy: which part   *)
(* of the shards a statement that inserts nothing goes to.  The queries'    *)
(* indexes are taken to be one when the first times their number is their   *)
(* sum; with both keys only the first query counts, and a condition that    *)
(* names neither key is an unwrap of nothing.                               *)
AllShards == [db |-> <<>>, tb |-> <<>>]

SinglePart(idxs) ==
  IF FoldLeft(LAMBDA a, i : a + i[1], 0, idxs) = idxs[1][1] * Len(idxs) THEN idxs[1] ELSE <<>>

strategy_part(typ, tried) ==
  LET Named == SelectSeq([k \in DOMAIN tried |-> IF typ = "database" THEN tried[k].db ELSE tried[k].tb], LAMBDA i : i # <<>>)
      One(idxs) == IF idxs = <<>> THEN <<>> ELSE SinglePart(idxs)
      Only(one) == IF typ = "database" THEN [db |-> one, tb |-> <<>>] ELSE [db |-> <<>>, tb |-> one]
  IN CASE tried = <<>> -> <<AllShards>>
       [] typ = "both" -> IF tried[1].db = <<>> /\ tried[1].tb = <<>> THEN <<>> ELSE <<[db |-> tried[1].db, tb |-> tried[1].tb]>>
       [] OTHER -> <<Only(One(Named))>>

strategy(rw, stmt, try_tables) ==
  LET To(part) == IF part = <<>> THEN Panics ELSE iproduct(rw, stmt, try_tables, part[1])
      Tried(tried, bad) == IF bad # <<>> THEN bad[1] ELSE To(strategy_part(try_tables[1].rule.typ, tried))
      Checked(tried) == Tried(tried, SelectSeq(tried, LAMBDA t : ~t.ok))
  IN Checked(find_try_where(stmt, try_tables))

(* find_inserts, change_insert, calc_*: the place of the column among the   *)
(* fields is the place of its value among the row's values, of which only   *)
(* numbers and texts are kept; the value must be a whole number, unsigned.  *)
InsertValues(stmt, i) == SelectSeq(stmt[i].values, LAMBDA v : v.kind \in {"num", "signed", "text"})

InsertIdx(stmt, row, column, algo, count) ==
  LET Value(values, at) ==
        IF at > Len(values) THEN Panics
        ELSE IF values[at].kind # "num" THEN Refused
        ELSE [ok |-> TRUE, idx |-> calc_signed(values[at].val, algo, count)]
      Among(places) == IF places = {} THEN Refused ELSE Value(InsertValues(stmt, row), Min(places))
      Named(fields) == {k \in DOMAIN fields : stmt[fields[k]].name = column}
  IN Among(Named(NodesOfKind(stmt, {"item"}, 0)))

change_insert(stmt, rule, row) ==
  LET none == [ok |-> TRUE, idx |-> 0]
      Both(db, tb) == IF ~db.ok THEN db ELSE IF ~tb.ok THEN tb ELSE [ok |-> TRUE, db |-> db.idx, tb |-> tb.idx]
      count == get_sharding_count(rule)
  IN Both(IF rule.typ = "table" THEN none ELSE InsertIdx(stmt, row, rule.dbcol, rule.algo, count.database[1]),
          IF rule.typ = "database" THEN none ELSE InsertIdx(stmt, row, rule.tbcol, rule.algo, count.table[1]))

(* change_insert_sql: rows of the same shard share a statement, the text up *)
(* to the first row with the table changed, then the rows and commas; what  *)
(* follows the rows is lost.                                                *)
Comma == <<<<"comma", 1>>, <<"comma", 2>>>>

RowTexts(stmt, rows) ==
  FlattenSeq([j \in DOMAIN rows |-> (IF j = 1 THEN <<>> ELSE Comma) \o Chars(rows[j], stmt[rows[j]].len)])

change_insert_sql(rw, stmt, t) ==
  LET Text(rows, shard) ==
        change_sql(SubSeq(RawSql(stmt), 1, Start(stmt, rows[1])), Start(stmt, t.at), End(stmt, t.at),
                   Chars(<<"table", shard.target>>, shard.target.len), 0)
      Result(rows, shard, mine) ==
        [ds |-> shard.ds, idx |-> shard.idx, tables |-> {shard.target},
         sql |-> Text(rows, shard) \o RowTexts(stmt, [j \in DOMAIN mine |-> rows[mine[j]]])]
      Mine(shards, k) == SelectSeq([j \in DOMAIN shards |-> j], LAMBDA j : shards[j].idx = shards[k].idx)
      Firsts(shards) == SelectSeq([j \in DOMAIN shards |-> j], LAMBDA k : \A j \in 1..k-1 : shards[j].idx # shards[k].idx)
      Each(rows, shards, keys) == [k \in DOMAIN keys |-> Result(rows, shards[keys[k]], Mine(shards, keys[k]))]
      Grouped(rows, shards) == [ok |-> TRUE, results |-> Each(rows, shards, Firsts(shards))]
      Split(rows, idxs, bad) ==
        IF bad # <<>> THEN bad[1]
        ELSE Grouped(rows, [k \in DOMAIN idxs |-> Shard(rw, t.rule, stmt[t.at], idxs[k].db, idxs[k].db, idxs[k].tb)])
      Checked(rows, idxs) == Split(rows, idxs, SelectSeq(idxs, LAMBDA i : ~i.ok))
      Insert(rows) == Checked(rows, [k \in DOMAIN rows |-> change_insert(stmt, t.rule, rows[k])])
  IN IF NodesOfKind(stmt, {"item"}, 0) = <<>> THEN Refused ELSE Insert(NodesOfKind(stmt, {"row"}, 0))

(* rewrite; an empty answer leaves the statement to query_rewrite.          *)
rewrite(rw, stmt) ==
  LET Tables(try_tables) ==
        IF try_tables = <<>> THEN [ok |-> TRUE, results |-> <<>>]
        ELSE IF NodesOfKind(stmt, {"row"}, 0) # <<>> THEN change_insert_sql(rw, stmt, try_tables[1])
        ELSE strategy(rw, stmt, try_tables)
  IN Tables(find_table_rule(rw, stmt))

(* query_rewrite: what is not rewritten goes to every endpoint as it is.    *)
query_rewrite(rw, stmt, can_rewrite) ==
  LET Sent(out) ==
        IF ~out.ok \/ out.results # <<>> THEN out
        ELSE [ok |-> TRUE, results |-> [k \in DOMAIN rw.endpoints |->
                [ds |-> <<"endpoint", rw.endpoints[k].name>>, idx |-> [db |-> <<>>, tb |-> <<>>], tables |-> {}, sql |-> RawSql(stmt)]]]
  IN Sent(IF can_rewrite THEN rewrite(rw, stmt) ELSE [ok |-> TRUE, results |-> <<>>])

-----------------------------------------------------------------------------
(***************************************************************************)
(* The answer of a statement that went to several shards                    *)
(* (runtime/gateway/src/server/executor.rs, server/util.rs) and the stream  *)
(* that merges the shards' packets (protocol/mysql/src/client/codec.rs).    *)
(* A shard's answer is [what |-> "ok" | "err" | "rows", cols, rows], a row  *)
(* the sequence of its values, <<>> for NULL.  What was asked is            *)
(* [agg, avg, key]: the aggregates of the select list, [name, func] each,   *)
(* the first replaced average, <<>> or <<[count, sum, ori]>>, and the       *)
(* column of the table's sharding, <<>> or <<name>>.                        *)
(***************************************************************************)

MergeFails(why) == [ok |-> FALSE, why |-> why]

(* MergeStream::poll_next in the Row state, a round over all shards at a    *)
(* time: a chunk ends with the round in which the polls that found nothing  *)
(* are as many as the shards, or else with the one in which the polls are   *)
(* as many as rounds (100 in the code) full rounds have.  The first count   *)
(* starts anew with every chunk, the second only with one it has ended.  An *)
(* empty chunk ends the stream.                                             *)
MergeInit == [at |-> 0, polls |-> 0, none |-> 0, buf |-> <<>>]

Round(streams, m) ==
  LET live == SelectSeq([i \in DOMAIN streams |-> i], LAMBDA i : m.at < Len(streams[i]))
  IN [at |-> m.at + 1, polls |-> m.polls + Len(streams), none |-> m.none + Len(streams) - Len(live),
      buf |-> m.buf \o [k \in DOMAIN live |-> streams[live[k]][m.at + 1]]]

EndOfChunk(m, base, rounds) ==
  IF m.none = base THEN <<[m EXCEPT !.none = 0]>>
  ELSE IF m.polls = base * rounds THEN <<[m EXCEPT !.none = 0, !.polls = 0]>>
  ELSE <<>>

(* The chunks of the stream, within fuel rounds.                            *)
RECURSIVE Merged(_, _, _, _)
Merged(streams, m, rounds, fuel) ==
  LET next == Round(streams, m)
      end == EndOfChunk(next, Len(streams), rounds)
      rest == Merged(streams, [end[1] EXCEPT !.buf = <<>>], rounds, fuel - 1)
  IN IF fuel = 0 THEN [ended |-> FALSE, chunks |-> <<>>]
     ELSE IF end = <<>> THEN Merged(streams, next, rounds, fuel - 1)
     ELSE IF end[1].buf = <<>> THEN [ended |-> TRUE, chunks |-> <<>>]
     ELSE [ended |-> rest.ended, chunks |-> <<end[1].buf>> \o rest.chunks]

MergeStream(streams, rounds, fuel) == Merged(streams, MergeInit, rounds, fuel)

(* The place of a column; decode_with_name fails without one.               *)
Places(cols, name) == SelectSeq([i \in DOMAIN cols |-> i], LAMBDA i : cols[i] = name)
Values(chunk, c) == [r \in DOMAIN chunk |-> chunk[r][c]]
Total(values) == FoldLeft(LAMBDA a, v : IF v = <<>> THEN a ELSE a + v[1], 0, values)
Best(func, values) ==
  LET all == {v[1] : v \in ToSet(values)} IN IF func = "max" THEN Max(all) ELSE Min(all)

(* handle_agg: each aggregate over the chunk is written into every row of   *)
(* it; where a row has NULL there is no place to write to.                  *)
Aggregate(func, values) ==
  CASE func \in {"min", "max"} -> <<Best(func, values)>>
    [] OTHER -> <<Total(values)>>

HandleOne(agg, cols, chunk) ==
  LET At(c) == IF \E r \in DOMAIN chunk : chunk[r][c] = <<>> THEN MergeFails("panic")
               ELSE [ok |-> TRUE, rows |-> [r \in DOMAIN chunk |-> [chunk[r] EXCEPT ![c] = Aggregate(agg.func, Values(chunk, c))]]]
      Among(places) == IF places = <<>> THEN MergeFails("error") ELSE At(places[1])
  IN IF agg.func \notin {"min", "max", "count", "sum"} THEN [ok |-> TRUE, rows |-> chunk] ELSE Among(Places(cols, agg.name))

handle_agg(aggs, cols, chunk) ==
  FoldLeft(LAMBDA acc, agg : IF acc.ok THEN HandleOne(agg, cols, acc.rows) ELSE acc, [ok |-> TRUE, rows |-> chunk], aggs)

(* handle_avg: count and sum, next to each other, become their quotient.    *)
handle_avg(avg, cols, chunk) ==
  LET At(c, s) ==
        IF \E r \in DOMAIN chunk : chunk[r][c] = <<>> \/ chunk[r][s] = <<>> THEN MergeFails("panic")
        ELSE [ok |-> TRUE, rows |-> [r \in DOMAIN chunk |->
                SubSeq(chunk[r], 1, c - 1) \o <<<<"avg", Total(Values(chunk, s)), Total(Values(chunk, c))>>>>
                  \o SubSeq(chunk[r], c + 2, Len(chunk[r]))]]
      Among(count, sum) == IF count = <<>> \/ sum = <<>> THEN MergeFails("error") ELSE At(count[1], sum[1])
  IN Among(Places(cols, avg.count), Places(cols, avg.sum))

(* filter_avg_column, get_columns: the first of the two columns becomes the *)
(* average's, the other is left out.                                        *)
get_columns(asked, cols) ==
  IF asked.avg = <<>> THEN cols
  ELSE LET Is(name) == name \in {asked.avg[1].count, asked.avg[1].sum}
           Add(acc, name) == IF ~Is(name) THEN [acc EXCEPT !.cols = Append(@, name)]
                             ELSE IF acc.added THEN acc
                             ELSE [added |-> TRUE, cols |-> Append(acc.cols, asked.avg[1].ori)]
       IN FoldLeft(Add, [added |-> FALSE, cols |-> <<>>], cols).cols

(* get_rows.  When all is aggregate one row is the answer, otherwise every  *)
(* chunk is put in the order of the sharding column, if it is selected.     *)
RECURSIVE get_rows(_, _, _, _, _)
get_rows(asked, ori, new, cols, chunks) ==
  LET one == (asked.avg # <<>> /\ Len(ori) = 2) \/ Len(asked.agg) = Len(new)
      then == IF asked.avg = <<>> THEN cols ELSE new
      Before(rows, rest) == IF rest.ok THEN [ok |-> TRUE, rows |-> rows \o rest.rows] ELSE rest
      More(rows) == Before(rows, get_rows(asked, ori, new, then, Tail(chunks)))
      Ordered(rows, key) ==
        IF key = <<>> THEN More(rows)
        ELSE IF \E r \in DOMAIN rows : rows[r][key[1]] = <<>> THEN MergeFails("panic")
        ELSE More(SortSeq(rows, LAMBDA a, b : a[key[1]][1] < b[key[1]][1]))
      Averaged(avg) ==
        IF ~avg.ok THEN avg
        ELSE IF one THEN [ok |-> TRUE, rows |-> <<avg.rows[1]>>]
        ELSE Ordered(avg.rows, IF asked.key = <<>> \/ Places(ori, asked.key[1]) = <<>> THEN <<>> ELSE Places(then, asked.key[1]))
      Aggregated(agg) ==
        IF ~agg.ok \/ asked.avg = <<>> THEN Averaged(agg) ELSE Averaged(handle_avg(asked.avg[1], cols, agg.rows))
  IN IF chunks = <<>> THEN [ok |-> TRUE, rows |-> <<>>] ELSE Aggregated(handle_agg(asked.agg, cols, chunks[1]))

(* handle_shard_resultset: the first shard's packet decides what kind of    *)
(* answer it is, the columns are the first's, and of the columns counted    *)
(* one is taken away for an average.                                        *)
handle_shard_resultset(asked, answers, rounds, fuel) ==
  LET first == answers[1]
      Without(what) == [what |-> what, count |-> 0, cols |-> <<>>, rows |-> <<>>]
      merged == MergeStream([i \in DOMAIN answers |-> answers[i].rows], rounds, fuel)
      Got(new, got) ==
        IF ~got.ok THEN Without(got.why)
        ELSE [what |-> "rows", count |-> Len(first.cols) - (IF asked.avg = <<>> THEN 0 ELSE 1), cols |-> new, rows |-> got.rows]
      Rows(new) == Got(new, get_rows(asked, first.cols, new, first.cols, merged.chunks))
  IN IF first.what # "rows" THEN Without(first.what) ELSE Rows(get_columns(asked, first.cols))

-----------------------------------------------------------------------------
(***************************************************************************)
(* Statements on sharded tables: where rows are put and looked for, the     *)
(* text of what is sent to the shards, and the answer made of theirs.       *)
(***************************************************************************)

ShardRule(typ, table, algo, count) ==
  [typ |-> typ, table |-> table, nodes |-> IF typ = "table" THEN <<"n1">> ELSE <<"n1", "n2">>,
   dbcol |-> IF typ = "both" THEN "k" ELSE "id", tbcol |-> "id", algo |-> algo, count |-> count]
Rewriter(typ, algo, count, db) ==
  [rules |-> <<ShardRule(typ, "t", algo, count), ShardRule(typ, "u", algo, count)>>, has_rw |-> FALSE, members |-> {},
   endpoints |-> <<[name |-> "n1", db |-> "d1"], [name |-> "n2", db |-> "d2"]>>, default_db |-> db]
ShardTypes == {"table", "database", "both"}
Rewriters == {Rewriter(typ, c[1], c[2], db) : typ \in ShardTypes, c \in {<<"mod", 2>>, <<"crc", 3>>}, db \in {<<>>, <<"d1">>}}

(* Tokens.                                                                  *)
Kw(len) == [n |-> "kw", q |-> 9, len |-> len, name |-> ""]
It(q, name, agg) == [n |-> "item", q |-> q, len |-> 3, name |-> name, agg |-> agg]
Tb(q, schema, name) == [n |-> "table", q |-> q, len |-> IF schema = <<>> THEN 2 ELSE 6, name |-> name, schema |-> schema]
Eq(q, name, kind, val) == [n |-> "eq", q |-> q, len |-> 4, name |-> name, kind |-> kind, val |-> val]
Cmp(q, name, val) == [n |-> "cmp", q |-> q, len |-> 4, name |-> name, kind |-> "num", val |-> val]
By(n, q, name) == [n |-> n, q |-> q, len |-> 2, name |-> name]
RowToken(row, names) == [n |-> "row", q |-> 0, len |-> 5, name |-> "", values |-> [k \in DOMAIN names |-> [kind |-> "num", val |-> row[names[k]]]]]

SelectStmt(q, schema, items, tables, rest) ==
  <<Kw(7)>> \o items \o <<Kw(6)>> \o [k \in DOMAIN tables |-> Tb(q, schema, tables[k])] \o <<Kw(6)>> \o rest
InsertStmt(schema, names, rows) ==
  <<Kw(8), Tb(0, schema, "t")>> \o [k \in DOMAIN names |-> It(0, names[k], "none")] \o <<Kw(7)>>
    \o [k \in DOMAIN rows |-> RowToken(rows[k], names)]

ShardRows == [id : 0..3, k : 0..1, x : {1}]
Orders == {<<"id", "k", "x">>, <<"x", "k", "id">>}
InsertCases == {r \in Rewriters : r.default_db = <<>>} \X Orders \X {<<a, b, c>> : a, b, c \in {r \in ShardRows : r.id < 3 /\ r.id * r.k = 0}}

KeyConditions(q) ==
  {Eq(q, "id", "num", 0), Eq(q, "id", "num", 3), Eq(q, "id", "signed", 1), Eq(q, "id", "signed", -1), Eq(q, "id", "dec", 1),
   Eq(q, "k", "num", 1), Eq(q, "x", "num", 1), Cmp(q, "id", 2), Cmp(q, "k", 1)}
Single == {SelectStmt(1, s, <<It(1, "x", "none")>>, <<"t">>, rest) :
             s \in {<<>>, <<"s">>}, rest \in {<<>>} \cup {<<a>> : a \in KeyConditions(1)} \cup {<<a, b>> : a, b \in KeyConditions(1)}}
Keyed(q) == {Eq(q, "id", "num", v) : v \in 0..3}
Nested2 == {SelectStmt(1, <<"s">>, <<It(1, "x", "none")>>, <<"t">>, <<a, Kw(4)>> \o SelectStmt(2, <<"s">>, <<It(2, "x", "none")>>, <<inner>>, <<b>>)) :
              a \in Keyed(1), b \in Keyed(2), inner \in {"t", "u"}}
QueryCases == (Rewriters \X Single) \cup ({r \in Rewriters : r.rules[1].typ # "both"} \X Nested2)

(* SelectStmt lists, tables and orderings for the text.                         *)
Lists(q) == {<<It(q, "a", "none")>>, <<It(q, "a", "avg")>>, <<It(q, "a", "avg"), It(q, "b", "none")>>,
             <<It(q, "b", "sum"), It(q, "a", "avg"), It(q, "c", "avg")>>}
Endings(q) == {<<>>, <<Eq(q, "id", "num", 1)>>, <<By("order", q, "z")>>, <<By("group", q, "b"), By("order", q, "z")>>}
EditStmts(s) ==
  {SelectStmt(1, s, list, <<"t">>, tail) : list \in Lists(1), tail \in Endings(1)}
    \cup {SelectStmt(1, s, list, <<"t", "u">>, tail) : list \in Lists(1), tail \in Endings(1)}
    \cup {SelectStmt(1, s, list, <<"t">>, <<Kw(4)>> \o SelectStmt(2, s, inner, <<"u">>, tail)) :
            list \in Lists(1), inner \in Lists(2), tail \in Endings(2)}
EditCases == {r \in Rewriters : r.default_db = <<>>} \X EditStmts(<<"s">>)

(* Data, aggregates and conditions for the answers.                         *)
DataRows == {r \in [id : 0..2, k : {0}, x : {1, 3}] : r.id = 0 \/ r.x = 2 * r.id - 1}
Funcs == {"count", "sum", "min", "max", "avg"}
FuncLists == {<<f>> : f \in Funcs} \cup {<<"count", "sum">>, <<"max", "min">>, <<"sum", "max">>} \cup {<<f, "avg">> : f \in Funcs \ {"avg"}}
AnswerConds == {<<>>, <<Eq(1, "id", "num", 1)>>, <<Eq(1, "x", "num", 3)>>, <<Eq(1, "id", "num", 1), Eq(1, "x", "num", 1)>>}
AnswerCases == {Rewriter(typ, "mod", 2, <<>>) : typ \in ShardTypes} \X (SUBSET DataRows) \X FuncLists \X AnswerConds

(* How many rows each shard has, and the chunk's rounds.                    *)
MergeRounds == 4
MergeCases == UNION {[1..n -> 0..6] : n \in 1..3}

ShardingInputs == [shardinsert |-> InsertCases, shardquery |-> QueryCases, shardedit |-> EditCases,
                   shardanswer |-> AnswerCases, shardmerge |-> MergeCases]

(* Where a row inserted through the proxy is kept.                          *)
Place(result) == <<result.ds, result.tables>>
Homes ==
  [rw \in {r \in Rewriters : r.default_db = <<>>} |-> [table \in {"t", "u"} |-> [row \in ShardRows \cup DataRows |->
     LET stmt == [InsertStmt(<<"s">>, <<"id", "k", "x">>, <<row>>) EXCEPT ![2].name = table]
     IN Place(rewrite(rw, stmt).results[1])]]]
Home(homes, rw, table, row) == homes[[rw EXCEPT !.default_db = <<>>]][table][row]
Holds(row, c) == IF c.n = "eq" THEN row[c.name] = c.val ELSE row[c.name] < c.val
Wanted(stmt, q, row) == \A i \in ToSet(NodesOfKind(stmt, {"eq", "cmp"}, q)) : Holds(row, stmt[i])

(* Every row of an INSERT is in exactly one of the statements it becomes,   *)
(* the one for the shard its own values name, behind the text that precedes *)
(* the rows with that shard's table in it, and in the rows' order, whatever *)
(* the order of the columns (change_insert_sql).                            *)
InsertsWhole ==
  Looking("shardinsert") =>
    LET rw == input[1][1]
        rows == input[1][3]
        stmt == InsertStmt(<<"s">>, input[1][2], rows)
        first == 6
        Target(r) == CHOOSE t \in r.tables : TRUE
        Mine(homes, r) == SelectSeq(<<1, 2, 3>>, LAMBDA k : Home(homes, rw, "t", rows[k]) = Place(r))
        Behind(mine) == FlattenSeq([j \in DOMAIN mine |-> (IF j = 1 THEN <<>> ELSE Comma) \o Chars(first + mine[j], 5)])
    IN \A out \in {rewrite(rw, stmt)}, homes \in {Homes} :
       /\ out.ok
       /\ \A r \in ToSet(out.results) : \A mine \in {Mine(homes, r)} :
            /\ mine # <<>>
            /\ r.sql = Chars(1, 8) \o Chars(<<"table", Target(r)>>, Target(r).len)
                         \o Chars(3, 3) \o Chars(4, 3) \o Chars(5, 3) \o Chars(6, 7) \o Behind(mine)
       /\ \A k \in 1..3 :
            Cardinality({i \in DOMAIN out.results : Place(out.results[i]) = Home(homes, rw, "t", rows[k])}) = 1

(* A query whose conditions are all to hold, and that is rewritten at all,  *)
(* is sent to the shard of every row it asks for, and to no shard twice; so *)
(* is one within another when both name their keys (find_try_where, the     *)
(* strategies and their products, against change_insert).                   *)
RowsCovered ==
  Looking("shardquery") =>
    LET rw == input[1][1]
        stmt == input[1][2]
        qs == {stmt[i].q : i \in {i \in DOMAIN stmt : stmt[i].n = "table"}}
        At(q) == stmt[NodesOfKind(stmt, {"table"}, q)[1]]
        here == IF At(1).schema = <<>> THEN "d1" ELSE "s"
        Db(t) == IF t.db = "s" THEN [t EXCEPT !.db = here] ELSE t
    IN \A out \in {rewrite(rw, stmt)}, homes \in {Homes} : out.ok /\ out.results # <<>> =>
         /\ \A q \in qs : \A row \in ShardRows :
              Wanted(stmt, q, row) =>
                LET home == Home(homes, rw, At(q).name, row)
                IN \E r \in ToSet(out.results) : r.ds = home[1] /\ {Db(t) : t \in home[2]} \subseteq r.tables
         /\ \A i, j \in DOMAIN out.results : Place(out.results[i]) = Place(out.results[j]) => i = j

(* In the text for a shard every sharded table has the shard's name, every  *)
(* average its two parts, the added columns follow the select list, and all *)
(* other characters are there as they were, with a subquery behind them and *)
(* with names that grow or shrink (change_plan_apply's offsets).  A join    *)
(* edits the select list once for each of its tables: the columns are added *)
(* again, and in front of an average's parts stands once more what a second *)
(* edit leaves of the first.  The task ends exactly when the database alone *)
(* is chosen and a name of a part or of an added column is needed.          *)
Edited(stmt, i, r) ==
  LET q == stmt[i].q
      again == IF q = 9 THEN <<>> ELSE Tail(NodesOfKind(stmt, {"table"}, q))
      Repeated(text) == FlattenSeq([k \in DOMAIN again |-> text])
      parts == Chars(<<"avg", stmt[i].name, r.idx.tb>>, 20)
      names == {t \in r.tables : t.table = stmt[i].name}
      name == CHOOSE t \in names : TRUE
      added == Derived(stmt, q)
      own == CASE stmt[i].n = "table" /\ names # {} -> Chars(<<"table", name>>, name.len)
               [] stmt[i].n = "item" /\ stmt[i].agg = "avg" -> Repeated(SubSeq(parts, 1, 20 - stmt[i].len)) \o parts
               [] OTHER -> Chars(i, stmt[i].len)
      columns == Chars(<<"add", [k \in DOMAIN added |-> stmt[added[k]].name], r.idx.tb>>, 7)
      more == IF stmt[i].n = "item" /\ i = Last(NodesOfKind(stmt, {"item"}, q)) /\ added # <<>>
              THEN Repeated(columns) \o columns ELSE <<>>
  IN own \o more
EditsLand ==
  Looking("shardedit") =>
    LET stmt == input[1][2]
        named == \E q \in 1..2 : NodesOfKind(stmt, {"item"}, q) # <<>> /\ Averages(stmt, q) \o Derived(stmt, q) # <<>>
    IN \A out \in {rewrite(input[1][1], stmt)} :
       /\ out.ok <=> ~(input[1][1].rules[1].typ = "database" /\ named)
       /\ out.ok => out.results # <<>> /\ \A r \in ToSet(out.results) : r.sql = FlattenSeq([i \in DOMAIN stmt |-> Edited(stmt, i, r)])

(* What a shard answers to its part of the query.                           *)
Xs(rows) == FoldSet(LAMBDA r, a : a + r.x, 0, rows)
Answered(f, rows) ==
  CASE f = "count" -> <<<<Cardinality(rows)>>>>
    [] f = "avg" -> <<<<Cardinality(rows)>>, IF rows = {} THEN <<>> ELSE <<Xs(rows)>>>>
    [] rows = {} -> <<<<>>>>
    [] f = "sum" -> <<<<Xs(rows)>>>>
    [] f = "min" -> <<<<Min({r.x : r \in rows})>>>>
    [] OTHER -> <<<<Max({r.x : r \in rows})>>>>
AnswerColumns(f) == IF f = "avg" THEN <<"X_COUNT", "X_SUM">> ELSE <<f>>
ShardAnswer(fs, rows) ==
  [what |-> "rows", cols |-> FlattenSeq([k \in DOMAIN fs |-> AnswerColumns(fs[k])]),
   rows |-> <<FlattenSeq([k \in DOMAIN fs |-> Answered(fs[k], rows)])>>]

(* The aggregates of a sharded table, asked through the proxy, are those of *)
(* all its rows that are asked for, in as many columns as were selected;    *)
(* and they are given whenever no shard that is asked has nothing to say.   *)
(* The task ends exactly when conditions leave out both of two keys, and    *)
(* for an average when the database alone is chosen (rewrite, MergeStream,  *)
(* handle_agg, handle_avg, get_columns, get_rows).                          *)
AnswersWhole ==
  Looking("shardanswer") =>
    LET rw == input[1][1]
        fs == input[1][3]
        avg == \E k \in DOMAIN fs : fs[k] = "avg"
        items == [k \in DOMAIN fs |-> It(1, "x", fs[k])]
        stmt == SelectStmt(1, <<"s">>, items, <<"t">>, input[1][4])
        conds == {stmt[i].name : i \in ToSet(NodesOfKind(stmt, {"eq"}, 1))}
        asked == {row \in input[1][2] : Wanted(stmt, 1, row)}
        Here(homes, r) == {row \in asked : Home(homes, rw, "t", row) = Place(r)}
        Answers(homes, results) == [i \in DOMAIN results |-> ShardAnswer(fs, Here(homes, results[i]))]
        query == [agg |-> [k \in DOMAIN fs |-> [name |-> fs[k], func |-> fs[k]]],
                  avg |-> IF avg THEN <<[count |-> "X_COUNT", sum |-> "X_SUM", ori |-> "avg"]>> ELSE <<>>, key |-> <<"id">>]
        Whole(f) == IF f = "avg" THEN <<"avg", Xs(asked), Cardinality(asked)>> ELSE Answered(f, asked)[1]
    IN \A out \in {rewrite(rw, stmt)}, homes \in {Homes} :
         /\ out.ok <=> CASE rw.rules[1].typ = "database" -> ~avg
                         [] rw.rules[1].typ = "both" -> conds = {} \/ conds \cap {"id", "k"} # {}
                         [] OTHER -> TRUE
         /\ out.ok =>
              \A got \in {handle_shard_resultset(query, Answers(homes, out.results), MergeRounds, 20)} :
                /\ (\A r \in ToSet(out.results) : Here(homes, r) # {}) => got.what = "rows"
                /\ got.what = "rows" => /\ got.rows = <<[k \in DOMAIN fs |-> Whole(fs[k])]>>
                                        /\ got.count = Len(fs) /\ Len(got.cols) = Len(fs)

(* When the stream of several shards ends, every row of every shard was in  *)
(* a chunk, once, and those of a shard in its order; it ends when no shard  *)
(* has nearly as many rows as a chunk has rounds, and one row of each shard *)
(* is one chunk, over which the aggregates are taken (MergeStream).         *)
MergeWhole ==
  Looking("shardmerge") =>
    LET counts == input[1]
        streams == [i \in DOMAIN counts |-> [j \in 1..counts[i] |-> <<i, j>>]]
        merged == MergeStream(streams, MergeRounds, 40)
        all == FlattenSeq(merged.chunks)
    IN /\ merged.ended => \A i \in DOMAIN streams : SelectSeq(all, LAMBDA r : r[1] = i) = streams[i]
       /\ (\A i \in DOMAIN counts : counts[i] < MergeRounds - 1) => merged.ended
       /\ (\A i \in DOMAIN counts : counts[i] = 1) => Len(merged.chunks) = 1

=============================================================================
