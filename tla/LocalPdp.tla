------------------------------ MODULE LocalPdp ------------------------------
(***************************************************************************)
(* The policy decision of gateway/core/src/pdp.rs, one operator per gate.  *)
(* Every gate takes the policy snapshot p it is decided by: the code loads *)
(* the snapshot anew in every gate, and PolicyStore interleaves the gates  *)
(* with reloads.                                                           *)
(*                                                                         *)
(* Names of subjects, tables and columns are values; a glob pattern is the *)
(* set of names it matches, and the empty set is an empty pattern list,    *)
(* which matches everything.  A statement is a record:                     *)
(*   command   "query" (with SQL text), "execute" (a statement id only),   *)
(*             "tcl", "use" or "control" (ping, quit, close, client wire)    *)
(*   action    the class of its leading keyword, None if it has none       *)
(*   subject   who runs it                                                 *)
(*   objects   the set of [table, columns, star] extraction found          *)
(*   parsed    whether the parser understood all of it                     *)
(*   scanned   the tables extract_table_names finds in its text            *)
(*   first     the first of its tables                                     *)
(*   list      the bare columns of its SELECT list                         *)
(*   filterable   inject_row_filter can rewrite it                         *)
(*   nowhere   a write without WHERE; exports: writes to a file            *)
(*   ticket    the type of the ticket its comment names, None without one  *)
(* The columns of a rule or a tag are <<table, column>> pairs.             *)
(***************************************************************************)
EXTENDS Naturals, Sequences

None == "none"
Any == {}

\* glob_match over a pattern list that may be empty
Matches(patterns, name) == patterns = Any \/ name \in patterns

\* action_matches and action_matches_actions: names of actions and of groups
action_matches(actions, action) ==
    \/ actions = Any
    \/ action \in actions
    \/ "*" \in actions
    \/ "write" \in actions /\ action \in {"insert", "update", "delete", "ddl"}
    \/ "dml" \in actions /\ action \in {"insert", "update", "delete"}
    \/ "read" \in actions /\ action = "select"

\* the tables a request names: ObjectSet::tables, or the scan of the text when
\* nothing could be parsed
Tables(s) ==
    IF s.parsed \/ s.objects # {} THEN {o.table : o \in s.objects} ELSE s.scanned

\* collect_bare_columns
Columns(s) == UNION {o.columns : o \in s.objects}

\* the tables of a gate that looks at the objects themselves
AnyTable(patterns, s) == patterns = Any \/ \E o \in s.objects : o.table \in patterns

-----------------------------------------------------------------------------
\* evaluate and rule_matches: the first allow or deny rule without columns
\* that matches; a rule with tables never matches a statement without any.
rule_matches(r, s) ==
    /\ Matches(r.subjects, s.subject)
    /\ action_matches(r.actions, s.action)
    /\ r.tables # Any => Tables(s) \cap r.tables # {}

\* TRUE: denied
evaluate(p, s) ==
    LET hits == SelectSeq(p.rules, LAMBDA r :
                   r.columns = Any /\ r.effect \in {"allow", "deny"} /\ rule_matches(r, s))
    IN  hits # <<>> /\ Head(hits).effect = "deny"

\* evaluate_cedar and authorize_tables_with_attrs: engine is the snapshot's
\* handle, FALSE when its load failed; cedar is what the store behind it holds,
\* a set of permitted <<subject, action, table>>, Unloaded before any load.  A
\* statement without tables is asked for the table "__none__".
evaluate_cedar(engine, cedar, s) ==
    \/ ~engine
    \/ ~cedar.loaded
    \/ \E t \in (IF Tables(s) = {} THEN {"__none__"} ELSE Tables(s)) :
          <<s.subject, s.action, t>> \notin cedar.permits

\* evaluate_remote: an answer is "allow", "deny" or "error" (a timeout, a
\* refusal, text that does not parse); the client returns the last two alike.
evaluate_remote(fail_closed, answer) == answer # "allow" /\ fail_closed

\* evaluate_time_rules: the first rule in force now that applies; without
\* actions a rule is about writes.  The result is <<>>, <<"deny">> or the type
\* of the ticket it asks for.
evaluate_time_rules(p, s) ==
    LET writes == {"insert", "update", "delete", "ddl"}
        hits == SelectSeq(p.time_rules, LAMBDA r :
                   /\ Matches(r.subjects, s.subject)
                   /\ action_matches(IF r.actions = Any THEN writes ELSE r.actions, s.action)
                   /\ AnyTable(r.tables, s)
                   /\ r.now)
    IN  IF hits = <<>> THEN <<>>
        ELSE <<IF Head(hits).effect = "require_ticket" THEN Head(hits).ticket_type
                                                       ELSE "deny">>

\* match_high_risk: <<>> or the ticket type of the first rule that is hit
match_high_risk(p, s) ==
    LET hits == SelectSeq(p.high_risk_rules, LAMBDA r :
                   /\ Matches(r.subjects, s.subject)
                   /\ CASE r.kind = "ddl" -> s.action = "ddl"
                        [] r.kind = "write_no_where" -> s.nowhere
                        [] r.kind = "export" -> s.exports
                        [] r.kind = "action" ->
                             r.actions # Any /\ action_matches(r.actions, s.action)
                        [] r.kind = "table_write" ->
                             /\ s.action \in {"insert", "update", "delete", "ddl"}
                             /\ AnyTable(r.tables, s)
                        [] OTHER -> FALSE)
    IN  IF hits = <<>> THEN <<>> ELSE <<Head(hits).ticket_type>>

\* try_consume_ticket and try_consume_time_ticket
Pays(s, type) == s.ticket = type

-----------------------------------------------------------------------------
has_column_rules(p) == \E i \in DOMAIN p.rules : p.rules[i].columns # Any

\* the column rules that apply to an object of the statement
ColumnRules(p, s, o) ==
    {i \in DOMAIN p.rules :
        LET r == p.rules[i]
        IN  /\ r.columns # Any /\ r.effect = "deny"
            /\ Matches(r.subjects, s.subject)
            /\ action_matches(r.actions, s.action)
            /\ Matches(r.tables, o.table)}

DeniedColumns(p, s) ==
    UNION {{c \in o.columns : \E i \in ColumnRules(p, s, o) :
                <<o.table, c>> \in p.rules[i].columns} : o \in s.objects}

\* a wildcard over a table that a column rule protects
StarDenied(p, s) ==
    p.star_policy = "deny" /\ \E o \in s.objects : o.star /\ ColumnRules(p, s, o) # {}

\* evaluate_column_acl: "unchanged", "deny" or "rewrite".  The SELECT list of a
\* statement without a wildcard loses the denied columns; when that changes
\* nothing, or leaves nothing, the statement is denied.
evaluate_column_acl(p, s) ==
    CASE StarDenied(p, s) -> "deny"
      [] ~StarDenied(p, s) /\ DeniedColumns(p, s) = {} -> "unchanged"
      [] /\ ~StarDenied(p, s) /\ s.action = "select"
         /\ \A o \in s.objects : ~o.star
         /\ s.list \cap DeniedColumns(p, s) # {}
         /\ ~(s.list \subseteq DeniedColumns(p, s)) -> "rewrite"
      [] OTHER -> "deny"

\* collect_row_filter: the filters of every matching rule, to be ANDed
collect_row_filter(p, s) ==
    {p.rules[i].row_filter : i \in {j \in DOMAIN p.rules :
        LET r == p.rules[j]
        IN  /\ r.row_filter # None
            /\ ~(r.columns # Any /\ r.effect = "deny")
            /\ Matches(r.subjects, s.subject)
            /\ action_matches(r.actions, s.action)
            /\ AnyTable(r.tables, s)}}

\* collect_mask_specs: the columns to mask.  A wildcard, and a statement whose
\* columns are unknown, ask for every tagged column.
collect_mask_specs(p, s) ==
    LET bare  == {t.bare : t \in p.column_tags}
        asked == UNION {{<<o.table, c>> : c \in o.columns \cup (IF o.star THEN bare ELSE {})}
                            : o \in s.objects}
        pairs == IF asked # {} THEN asked ELSE {<<s.first, c>> : c \in bare}
    IN  {q[2] : q \in {q \in pairs : \E t \in p.column_tags :
            /\ Matches(t.subjects, s.subject)
            /\ q[1] # None => Matches(t.tables, q[1])
            /\ q \in t.columns}}

=============================================================================
