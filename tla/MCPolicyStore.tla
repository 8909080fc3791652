--------------------------- MODULE MCPolicyStore ---------------------------
EXTENDS PolicyStore

MCTables == {"t", "u"}
OnAny(c) == {<<t, c>> : t \in MCTables}

Rule(effect, subjects, actions, tables, columns, filter) ==
    [effect |-> effect, subjects |-> subjects, actions |-> actions, tables |-> tables,
     columns |-> columns, row_filter |-> filter]

Open == [fail_closed |-> FALSE, star_policy |-> "deny", rules |-> <<>>, column_tags |-> {},
         high_risk_rules |-> <<>>, time_rules |-> <<>>, max_rows |-> <<>>, watermark |-> FALSE]

Tag == [bare |-> "c", columns |-> OnAny("c"), subjects |-> {}, tables |-> {"t"}]

\* reads of t are masked and filtered; writes of u need a ticket at this hour
Masked == [Open EXCEPT !.column_tags = {Tag}, !.max_rows = <<2>>, !.fail_closed = TRUE,
             !.rules = <<Rule("allow", {"alice"}, {"read"}, {"t"}, {}, "mine"),
                         Rule("deny", {"alice"}, {"dml"}, {"t"}, {}, None)>>,
             !.time_rules = <<[subjects |-> {}, actions |-> {}, tables |-> {"u"}, now |-> TRUE,
                               effect |-> "require_ticket", ticket_type |-> "change"]>>]

\* t is closed to alice, apart from the columns of u, which lose c
Closed == [Open EXCEPT !.column_tags = {[Tag EXCEPT !.tables = {}]}, !.watermark = TRUE,
             !.rules = <<Rule("deny", {}, {"select"}, {"t"}, {}, None),
                         Rule("allow", {}, {}, {}, {}, "mine"),
                         Rule("deny", {"alice"}, {"read"}, {"u"}, OnAny("c"), None)>>,
             !.high_risk_rules = <<[subjects |-> {}, kind |-> "table_write", actions |-> {},
                                    tables |-> {"u"}, ticket_type |-> "change"]>>,
             !.time_rules = <<[subjects |-> {"alice"}, actions |-> {"tcl", "ddl"}, tables |-> {},
                               now |-> TRUE, effect |-> "deny", ticket_type |-> "change"]>>]

MCPolicies == {"open", "masked", "closed"}
MCContent == [n \in MCPolicies |-> CASE n = "open" -> Open [] n = "masked" -> Masked
                                     [] n = "closed" -> Closed]

Stmt(command, action, objects) ==
    [command |-> command, action |-> action, subject |-> "alice", objects |-> objects,
     parsed |-> TRUE, scanned |-> {}, list |-> UNION {o.columns : o \in objects},
     first |-> IF objects = {} THEN None ELSE (CHOOSE o \in objects : TRUE).table,
     filterable |-> TRUE, nowhere |-> FALSE, exports |-> FALSE, ticket |-> None]

Obj(t, columns, star) == [table |-> t, columns |-> columns, star |-> star]

Read == Stmt("query", "select", {Obj("t", {"c", "d"}, FALSE)})
MCStatements == [b \in {"local", "cedar", "remote", "remote_open"} |->
    CASE b = "local" ->
      {Read,
       [Stmt("query", "select", {Obj("u", {"c", "d"}, FALSE)}) EXCEPT !.filterable = FALSE],
       Stmt("query", "select", {Obj("u", {}, TRUE)}),
       [Stmt("query", "update", {Obj("u", {"d"}, FALSE)}) EXCEPT !.ticket = "change"],
       Stmt("query", "ddl", {Obj("u", {}, FALSE)}),
       [Stmt("query", None, {}) EXCEPT !.parsed = FALSE, !.scanned = {"t"}, !.first = "t"],
       Stmt("execute", "other", {}),
       Stmt("tcl", "tcl", {}),
       Stmt("use", "other", {Obj("t", {}, FALSE)}),
       Stmt("control", "other", {})}
    [] b = "cedar" -> {Read}
    [] OTHER -> {[Read EXCEPT !.parsed = FALSE, !.objects = {}, !.scanned = {"t"}]}]

MCPermits == {{}, {<<"alice", a, t>> : a \in {"select", "update"}, t \in MCTables \cup {"__none__"}}}

MCThreads == {<<"here", 1>>, <<"here", 2>>, <<"peer", 1>>}

Scene(installed, events, requests) ==
    [installed |-> installed, events |-> events, requests |-> requests]
MCScenes == [b \in {"local", "cedar", "remote", "remote_open"} |->
    CASE b = "local" -> {Scene(TRUE, 2, 0), Scene(FALSE, 1, 0), Scene(TRUE, 1, 1)}
      [] b = "cedar" -> {Scene(TRUE, 2, 0), Scene(TRUE, 1, 1)}
      [] OTHER -> {Scene(TRUE, 1, 1)}]
=============================================================================
