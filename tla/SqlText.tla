------------------------------ MODULE SqlText -------------------------------
(***************************************************************************)
(* The gateway's textual handling of SQL: the scanners and rewriters that   *)
(* work on the text of a statement without parsing it.  A text is a         *)
(* sequence of tokens: words, the punctuation the scanners look at, quote   *)
(* characters, comment marks and the blank " ".  A word stands for a        *)
(* maximal run of alphanumeric characters, which is what every keyword      *)
(* search of the code delimits its match by, together with underscores;     *)
(* "dq", "bq", "bs" and "nl" are the double quote, the back quote, the      *)
(* backslash and the line end.                                              *)
(***************************************************************************)
EXTENDS Integers, Sequences, FiniteSets, SequencesExt, Topic

Blank == " "

LTrim(s) ==
  LET After(n) == IF n = 0 THEN <<>> ELSE SubSeq(s, n, Len(s)) IN After(SelectInSeq(s, LAMBDA c : c # Blank))

Trim(s) == Reverse(LTrim(Reverse(LTrim(s))))

From(s, i) == SubSeq(s, i, Len(s))

StartsWith(s, p) == Len(s) >= Len(p) /\ SubSeq(s, 1, Len(p)) = p

(* The first index at or after i where P holds, 0 when there is none.       *)
FirstFrom(s, i, P(_)) ==
  LET First(I) == IF I = {} THEN 0 ELSE CHOOSE j \in I : \A k \in I : j <= k IN First({j \in i..Len(s) : P(j)})

(* The members of a set of numbers, in order.                               *)
InOrder(S) == [k \in 1..Cardinality(S) |-> CHOOSE i \in S : Cardinality({j \in S : j <= i}) = k]

-----------------------------------------------------------------------------
(* One pass over a text, shared by the scanners: the quote that is open     *)
(* before each token, "" when none is, and the depth of open parentheses.   *)
Quotes3 == {"'", "dq", "bq"}
Quotes2 == {"'", "dq"}

ScanStep(quotes, st, c) ==
  IF st.quote # "" THEN [st EXCEPT !.quote = IF c = st.quote THEN "" ELSE @]
  ELSE IF c \in quotes THEN [st EXCEPT !.quote = c]
  ELSE IF c = "(" THEN [st EXCEPT !.depth = @ + 1]
  ELSE IF c = ")" THEN [st EXCEPT !.depth = @ - 1]
  ELSE st

(* Only quotes and parentheses move it.                                     *)
Scan(quotes, s, d) ==
  LET Over(marks) ==
        LET st[k \in 0..Len(marks)] ==
              IF k = 0 THEN [quote |-> "", depth |-> d] ELSE ScanStep(quotes, st[k-1], s[marks[k]])
        IN  [i \in 1..(Len(s) + 1) |-> st[Cardinality({k \in DOMAIN marks : marks[k] < i})]]
  IN  Over(InOrder({i \in DOMAIN s : s[i] \in quotes \cup {"(", ")"}}))

TopLevel(quotes, s) ==
  LET Outside(st) == {i \in DOMAIN s : st[i].quote = "" /\ st[i].depth = 0} IN Outside(Scan(quotes, s, 0))

find_top_level_keyword(quotes, s, key) ==
  LET Among(top) == FirstFrom(s, 1, LAMBDA i : i \in top /\ s[i] = key) IN Among(TopLevel(quotes, s))

(* The matching parenthesis of a text that starts inside one.               *)
find_matching_paren(s) ==
  LET Closing(st) == FirstFrom(s, 1, LAMBDA i : st[i].quote = "" /\ st[i].depth = 1 /\ s[i] = ")")
  IN  Closing(Scan(Quotes3, s, 1))

(* The items of a list: cut at top-level commas, trimmed, empty ones lost.  *)
split_select_list(quotes, s) ==
  LET Parts(cuts) == [k \in 1..Len(cuts) - 1 |-> Trim(SubSeq(s, cuts[k] + 1, cuts[k + 1] - 1))]
      Cuts(commas) == InOrder({0, Len(s) + 1} \cup commas)
  IN  SelectSeq(Parts(Cuts({i \in TopLevel(quotes, s) : s[i] = ","})), LAMBDA p : p # <<>>)

(* The blank-separated words of a text.                                     *)
SplitBlank(s) ==
  LET last(a) == CHOOSE b \in a..Len(s) : /\ (b = Len(s) \/ s[b+1] = Blank)
                                          /\ \A c \in a..b : s[c] # Blank
      Words(starts) == [k \in 1..Len(starts) |-> SubSeq(s, starts[k], last(starts[k]))]
  IN  Words(InOrder({i \in DOMAIN s : s[i] # Blank /\ (i = 1 \/ s[i-1] = Blank)}))

Unquoted(s) ==
  LET quote(c) == c \in Quotes3
      a == FirstFrom(s, 1, LAMBDA i : ~quote(s[i]))
      b == LET r == Reverse(s) IN FirstFrom(r, 1, LAMBDA i : ~quote(r[i]))
  IN  IF a = 0 THEN <<>> ELSE SubSeq(s, a, Len(s) + 1 - b)

(* What follows the last token of a set, the whole text without one.        *)
AfterLast(s, seps) ==
  LET I == {i \in DOMAIN s : s[i] \in seps}
  IN  IF I = {} THEN s ELSE From(s, 1 + CHOOSE i \in I : \A j \in I : j <= i)

Joined(parts) == FlattenSeq([k \in 1..Len(parts) |->
                               IF k = 1 THEN parts[k] ELSE <<",", Blank>> \o parts[k]])

-----------------------------------------------------------------------------
(* Column stripping of the local decision point.                            *)

(* The bare column an item of a select list reads.                          *)
select_item_bare_name(item) ==
  LET Expr(as, words) == IF as # 0 THEN Trim(SubSeq(item, 1, as - 1))
                         ELSE IF Len(words) >= 2 /\ ~Contains(words[1], "(") THEN words[1]
                         ELSE Trim(item)
  IN  Unquoted(AfterLast(Expr(find_top_level_keyword(Quotes3, item, "AS"), SplitBlank(item)), {"."}))

SelectBody(s, modifiers) ==
  LET Body(body) == IF body # <<>> /\ Head(body) \in modifiers THEN LTrim(Tail(body)) ELSE body
  IN  Body(LTrim(Tail(LTrim(s))))

Distinct(s) == IF StartsWith(LTrim(Tail(LTrim(s))), <<"DISTINCT">>)
               THEN <<"DISTINCT", Blank>> ELSE <<>>

IsStar(s) == s = <<"*">> \/ (Len(s) >= 2 /\ From(s, Len(s) - 1) = <<".", "*">>)

Kept(parts, denied) == SelectSeq(parts, LAMBDA p : select_item_bare_name(p) \notin denied)

(* The text without the denied items, <<>> when it is no list to rewrite,   *)
(* and the bare keyword in front of the rest when no item stays.            *)
rewrite_one_select_list(s, denied) ==
  LET With(kept, rest) ==
        <<"SELECT", Blank>> \o (IF kept = <<>> THEN <<>> ELSE Distinct(s) \o Joined(kept) \o <<Blank>>) \o rest
      Items(parts, rest) == IF parts = <<>> THEN <<>> ELSE <<With(Kept(parts, denied), rest)>>
      List(list, rest) == IF IsStar(list) THEN <<>> ELSE Items(split_select_list(Quotes3, list), rest)
      Cut(body, from) == IF from = 0 THEN <<>> ELSE List(Trim(SubSeq(body, 1, from - 1)), From(body, from))
      Body(body) == Cut(body, find_top_level_keyword(Quotes3, body, "FROM"))
  IN  IF ~StartsWith(LTrim(s), <<"SELECT">>) THEN <<>> ELSE Body(SelectBody(s, {"DISTINCT"}))

RECURSIVE rewrite_nested_select_lists(_, _, _)
rewrite_nested_select_lists(s, quote, denied) ==
  IF s = <<>> THEN <<>>
  ELSE LET c == Head(s)
           t == Tail(s)
           Or(one, inner) == IF one = <<>> THEN inner ELSE one[1]
           Inner(inner) == rewrite_nested_select_lists(LTrim(Or(rewrite_one_select_list(inner, denied), inner)), "", denied)
           Closed(close) ==
             IF close # 0
             THEN <<"(">> \o Inner(SubSeq(t, 1, close - 1)) \o <<")">>
                    \o rewrite_nested_select_lists(From(t, close + 1), "", denied)
             ELSE <<c>> \o rewrite_nested_select_lists(
                             t, ScanStep(Quotes3, [quote |-> quote, depth |-> 0], c).quote, denied)
       IN  Closed(IF quote = "" /\ c = "(" /\ StartsWith(LTrim(t), <<"SELECT">>) THEN find_matching_paren(t) ELSE 0)

rewrite_select_strip_columns(s, denied) ==
  LET Nested(one) == IF one = <<>> THEN <<>> ELSE <<rewrite_nested_select_lists(one[1], "", denied)>>
  IN  Nested(rewrite_one_select_list(s, denied))

-----------------------------------------------------------------------------
(* The tables a text names, by the words that come before them.             *)
NotATable == {"SELECT", "WHERE", "SET", "VALUES", "ON", "AS", "LEFT", "RIGHT", "INNER",
              "OUTER", "CROSS", "ONLY"}
Marks == Quotes3 \cup {"(", ")", ",", ";", "=", "*", Blank}

next_sql_ident(s) ==
  LET UpTo(u, stop) == IF stop = 0 THEN u ELSE SubSeq(u, 1, stop - 1)
      Until(u, ends) == UpTo(u, FirstFrom(u, 1, LAMBDA i : u[i] \in ends))
      Name(name) == IF name = <<>> \/ (Len(name) = 1 /\ name[1] \in NotATable) THEN <<>> ELSE <<name>>
      Start(t) == IF t = <<>> THEN <<>> ELSE IF Head(t) \in Marks \ Quotes3 THEN <<>>
                  ELSE Name(IF Head(t) \in Quotes3 THEN Until(Tail(t), {Head(t)}) ELSE Until(t, Marks))
  IN  Start(LTrim(s))

TablePrefixes == {<<"UPDATE", Blank>>, <<"INSERT", Blank, "INTO", Blank>>,
                  <<"DELETE", Blank, "FROM", Blank>>, <<"TRUNCATE", Blank, "TABLE", Blank>>,
                  <<"TRUNCATE", Blank>>}

\* Mutant of extract_table_names: the words of a join are not looked for.
extract_table_names_nojoin(s) ==
  LET after == {i \in 3..Len(s) : /\ s[i-2] = Blank /\ s[i] = Blank
                                  /\ s[i-1] \in {"FROM", "INTO", "UPDATE", "TABLE"}}
  IN  UNION {ToSet(next_sql_ident(From(s, i))) : i \in after}

extract_table_names(s) ==
  LET after == {i \in 3..Len(s) : /\ s[i-2] = Blank /\ s[i] = Blank
                                  /\ s[i-1] \in {"FROM", "JOIN", "INTO", "UPDATE", "TABLE"}}
      heads == {p \in TablePrefixes : StartsWith(LTrim(s), p)}
  IN  UNION ( {ToSet(next_sql_ident(From(s, i))) : i \in after}
       \cup {ToSet(next_sql_ident(From(LTrim(s), Len(p) + 1))) : p \in heads} )

-----------------------------------------------------------------------------
(* The row filter of a policy, put into the text of a query.                *)
TailKeys == {"GROUP", "HAVING", "ORDER", "LIMIT", "FOR", "WINDOW", "FETCH", "OFFSET"}

find_boundary(s, keys) ==
  LET top == TopLevel(Quotes3, s)
      i   == FirstFrom(s, 1, LAMBDA j : j \in top /\ s[j] \in keys)
  IN  IF i = 0 THEN Len(s) + 1 ELSE i

WithTail(tail) == IF LTrim(tail) = <<>> THEN <<>> ELSE <<Blank>> \o LTrim(tail)

Guarded(body, pred) ==
  <<"(">> \o Trim(body) \o <<")", Blank, "AND", Blank, "(">> \o pred \o <<")">>

inject_row_filter(s, pred) ==
  LET t     == LTrim(s)
      where == find_top_level_keyword(Quotes3, t, "WHERE")
      union == \E i \in 2..(Len(t)-1) : t[i] = "UNION" /\ t[i-1] = Blank /\ t[i+1] = Blank
      rest  == LTrim(From(t, where + 1))
      end   == find_boundary(rest, TailKeys)
      at    == find_boundary(t, TailKeys \cup {"WHERE"})
  IN  IF Trim(pred) = <<>> THEN <<s>>
      ELSE IF \/ ~(StartsWith(t, <<"SELECT">>) \/ StartsWith(t, <<"WITH">>))
              \/ union
              \/ find_top_level_keyword(Quotes3, t, "FROM") = 0
      THEN <<>>
      ELSE IF where # 0
      THEN <<SubSeq(t, 1, where) \o <<Blank>> \o Guarded(SubSeq(rest, 1, end - 1), Trim(pred))
               \o WithTail(From(rest, end))>>
      ELSE <<Trim(SubSeq(t, 1, at - 1)) \o <<Blank, "WHERE", Blank, "(">> \o Trim(pred) \o <<")">>
               \o WithTail(From(t, at))>>

-----------------------------------------------------------------------------
(* The columns a PostgreSQL Describe answers for a select list; the         *)
(* frontend's scanners know no back quote.                                  *)
find_top_level_keyword_frontend(s, key) == find_top_level_keyword(Quotes2, s, key)
split_select_list_frontend(s) == split_select_list(Quotes2, s)

unquote_ident(s) ==
  LET t == Trim(s)
  IN  IF Len(t) >= 2 /\ t[1] = "dq" /\ t[Len(t)] = "dq" THEN SubSeq(t, 2, Len(t) - 1) ELSE t

IsWord(s) == Len(s) = 1 /\ s[1] \notin Marks \cup {"."}

trailing_bare_alias(item) ==
  LET top   == TopLevel(Quotes2, item)
      gaps  == {i \in top : item[i] = Blank}
      start == CHOOSE i \in gaps : \A j \in gaps : j <= i
      alias == unquote_ident(From(item, start + 1))
  IN  IF gaps = {} THEN <<>>
      ELSE IF IsWord(alias) /\ alias[1] \notin {"ASC", "DESC", "NULLS", "1"} THEN alias
      ELSE <<>>

Unnamed == <<"column">>

select_item_output_name(item) ==
  LET as    == find_top_level_keyword_frontend(item, "AS")
      alias == unquote_ident(From(item, as + 1))
      bare  == unquote_ident(AfterLast(Trim(item), {".", "("}))
  IN  IF as # 0 /\ alias # <<>> /\ ~Contains(alias, Blank) THEN alias
      ELSE IF trailing_bare_alias(Trim(item)) # <<>> THEN trailing_bare_alias(Trim(item))
      ELSE IF IsWord(bare) THEN bare ELSE Unnamed

(* The word that ends the list when there is no FROM, by preference.        *)
ListEnds == <<"WHERE", "GROUP", "ORDER", "LIMIT", "OFFSET", "UNION", "EXCEPT", "INTERSECT",
              "FETCH", "FOR">>

infer_select_result_columns(s) ==
  LET body == SelectBody(s, {"DISTINCT", "ALL"})
      at(k) == find_top_level_keyword_frontend(body, k)
      ends == SelectSeq(<<"FROM">> \o ListEnds, LAMBDA k : at(k) # 0)
      list == Trim(IF ends = <<>> THEN body ELSE SubSeq(body, 1, at(ends[1]) - 1))
      parts == split_select_list_frontend(list)
  IN  IF \/ ~StartsWith(LTrim(s), <<"SELECT">>)
         \/ parts = <<>>
         \/ \E p \in ToSet(parts) : IsStar(p)
      THEN <<>>
      ELSE <<[k \in 1..Len(parts) |-> select_item_output_name(parts[k])]>>

-----------------------------------------------------------------------------
(* Placeholders: a number is its digits, so that $1 begins $10.             *)
Digits == {"0", "1", "2"}
Numeral == <<<<"1">>, <<"2">>, <<"1", "0">>>>
Value(d) == CASE d = <<>> -> 0 [] d = <<"1">> -> 1 [] d = <<"2">> -> 2 [] d = <<"1", "0">> -> 3
              [] OTHER -> 4

PlaceholderAt(s, i) ==
  LET end == FirstFrom(s, i + 1, LAMBDA j : s[j] \notin Digits)
      stop == IF end = 0 THEN Len(s) ELSE end - 1
  IN  Value(SubSeq(s, i + 1, stop))

count_pg_placeholders(s) ==
  LET N == {0} \cup {PlaceholderAt(s, i) : i \in {j \in DOMAIN s : s[j] = "$"}}
  IN  CHOOSE n \in N : \A m \in N : m <= n

RECURSIVE ReplaceEach(_, _, _)
ReplaceEach(s, pat, by) ==
  IF s = <<>> THEN <<>>
  ELSE IF StartsWith(s, pat) THEN by \o ReplaceEach(From(s, Len(pat) + 1), pat, by)
  ELSE <<Head(s)>> \o ReplaceEach(Tail(s), pat, by)

(* A value as the literal a text carries: a quote inside is doubled.        *)
gateway_value_sql_literal(v) ==
  IF v.kind # "string" THEN v.text
  ELSE <<"'">> \o FlattenSeq([i \in 1..Len(v.text) |->
                    IF v.text[i] = "'" THEN <<"'", "'">> ELSE <<v.text[i]>>]) \o <<"'">>

BindOrder(need) == [k \in 1..need |-> need + 1 - k]

bind_pg_placeholders(s, params) ==
  LET need  == count_pg_placeholders(s)
      order == BindOrder(need)
      out[k \in 0..need] ==
        IF k = 0 THEN s
        ELSE ReplaceEach(out[k-1], <<"$">> \o Numeral[order[k]],
                         gateway_value_sql_literal(params[order[k]]))
  IN  IF need # Len(params) THEN <<>> ELSE <<out[need]>>

(* The marks of a MySQL text that stand for parameters: those outside of    *)
(* single quotes.                                                           *)
RECURSIVE MySqlMarks(_, _, _)
MySqlMarks(s, i, in_str) ==
  IF i > Len(s) THEN {}
  ELSE IF s[i] = "'"
  THEN IF in_str /\ i < Len(s) /\ s[i + 1] = "'" THEN MySqlMarks(s, i + 2, TRUE)
       ELSE MySqlMarks(s, i + 1, ~in_str)
  ELSE (IF ~in_str /\ s[i] = "?" THEN {i} ELSE {}) \cup MySqlMarks(s, i + 1, in_str)

count_mysql_placeholders(s) == Cardinality(MySqlMarks(s, 1, FALSE))

-----------------------------------------------------------------------------
(* What a simple query says to the frontend itself.                         *)
Bare(s) ==
  LET Until(t) == SubSeq(t, 1, CHOOSE k \in 0..Len(t) : /\ \A i \in (k+1)..Len(t) : t[i] = ";"
                                                        /\ k # 0 => t[k] # ";")
  IN  Trim(Until(Trim(s)))

parse_set_value(s) ==
  LET Assigned(v) == IF StartsWith(v, <<"TO", Blank>>) \/ StartsWith(v, <<"=">>) THEN Trim(Tail(v)) ELSE v
      Quoted(w, close) == IF close = 0 THEN <<>> ELSE <<SubSeq(w, 2, close - 1)>>
      Read(w) == IF w = <<>> THEN <<>>
                 ELSE IF w[1] \in Quotes2 THEN Quoted(w, FirstFrom(w, 2, LAMBDA i : w[i] = w[1]))
                 ELSE <<SplitBlank(w)[1]>>
  IN  Read(Assigned(Trim(s)))

client_encoding_from_set_query(s) ==
  LET Rest(rest) == IF rest = <<>> \/ Head(rest) = Blank THEN parse_set_value(rest) ELSE <<>>
      Set(t) == IF \E word \in {"CLIENT_ENCODING", "NAMES"} : StartsWith(t, <<"SET", Blank, word>>)
                THEN Rest(From(t, 4)) ELSE <<>>
  IN  Set(Bare(s))

(* The command of a simple query, the transaction state and the encoding it *)
(* leaves the session with.                                                 *)
decode_query_command(s, session) ==
  LET Named(enc) == IF enc = <<>> THEN session ELSE [session EXCEPT !.charset = enc[1]]
      Command(word, named) ==
        CASE word \in {<<"BEGIN">>, <<"START", Blank, "TRANSACTION">>} ->
               [command |-> "begin", session |-> [named EXCEPT !.txn = "active"]]
          [] word \in {<<"COMMIT">>, <<"ROLLBACK">>} ->
               [command |-> word[1], session |-> [named EXCEPT !.txn = "idle"]]
          [] OTHER -> [command |-> "query", session |-> named]
  IN  Command(Bare(s), Named(client_encoding_from_set_query(s)))

-----------------------------------------------------------------------------
(***************************************************************************)
(* The texts the gateway itself reads a meaning from: the capabilities it   *)
(* refuses, the SQL cursor statements it serves from the process, and the   *)
(* ticket a statement carries in a leading comment.                         *)
(***************************************************************************)

(* The index after a quoted text that starts at i; a doubled quote stays    *)
(* inside, a backslash escapes where the dialect says so.                   *)
RECURSIVE skip_quoted(_, _, _, _)

skip_quoted(s, i, quote, backslash) ==
  IF i > Len(s) THEN i
  ELSE IF backslash /\ s[i] = "bs" THEN skip_quoted(s, i + 2, quote, backslash)
  ELSE IF s[i] # quote THEN skip_quoted(s, i + 1, quote, backslash)
  ELSE IF i < Len(s) /\ s[i+1] = quote THEN skip_quoted(s, i + 2, quote, backslash)
  ELSE i + 1

Past(s, i, mark) ==
  LET end == FirstFrom(s, i, LAMBDA j : s[j] = mark) IN IF end = 0 THEN Len(s) + 1 ELSE end + 1

is_line_comment(s, i, dialect) ==
  /\ s[i] = "--"
  /\ dialect = "postgresql" \/ i = Len(s) \/ s[i+1] \in {Blank, "nl"}

(* The words of a text, with literals and quoted names as marks.            *)
RECURSIVE TokensFrom(_, _, _)
TokensFrom(s, i, dialect) ==
  IF i > Len(s) THEN <<>>
  ELSE CASE s[i] \in {Blank, "nl"} -> TokensFrom(s, i + 1, dialect)
         [] is_line_comment(s, i, dialect) \/ (s[i] = "#" /\ dialect = "mysql") ->
              TokensFrom(s, Past(s, i + 1, "nl"), dialect)
         [] s[i] = "/*" -> TokensFrom(s, Past(s, i + 1, "*/"), dialect)
         [] s[i] = "'" ->
              LET backslash == dialect = "mysql" \/ (i > 1 /\ s[i-1] = "E")
              IN  <<"<LITERAL>">> \o TokensFrom(s, skip_quoted(s, i + 1, "'", backslash), dialect)
         [] s[i] = "dq" -> TokensFrom(s, skip_quoted(s, i + 1, "dq", FALSE), dialect)
         [] s[i] = "bq" ->
              <<"<BACKTICK_IDENT>">> \o TokensFrom(s, skip_quoted(s, i + 1, "bq", FALSE), dialect)
         [] s[i] = "$$" /\ dialect = "postgresql" ->
              <<"<LITERAL>">> \o TokensFrom(s, Past(s, i + 1, "$$"), dialect)
         [] s[i] \in {"::", ";"} -> <<s[i]>> \o TokensFrom(s, i + 1, dialect)
         [] s[i] \in {"(", ")", ",", "=", "*", ".", "--", "#", "*/", "$$", "bs"} ->
              TokensFrom(s, i + 1, dialect)
         [] OTHER -> <<s[i]>> \o TokensFrom(s, i + 1, dialect)

sql_tokens(s, dialect) == TokensFrom(s, 1, dialect)

Pairs(t, A, B) == \E i \in 1..(Len(t) - 1) : t[i] \in A /\ t[i+1] \in B

is_cross_dialect(t, dialect) ==
  IF dialect = "mysql" THEN Contains(t, "::")
  ELSE Contains(t, "<BACKTICK_IDENT>") \/ StartsWith(t, <<"SHOW", "TABLES">>)

is_privileged_catalog_or_session(t, dialect) ==
  IF dialect = "mysql"
  THEN \/ \E w \in {"GLOBAL", "PERSIST", "PERSIST_ONLY"} : StartsWith(t, <<"SET", w>>)
       \/ Pairs(t, {"MYSQL"}, {"USER"})
  ELSE \/ StartsWith(t, <<"ALTER", "SYSTEM">>)
       \/ StartsWith(t, <<"SET", "SESSION", "AUTHORIZATION">>)
       \/ StartsWith(t, <<"SET", "ROLE">>)
       \/ Contains(t, "PG_AUTHID") \/ Contains(t, "PG_SHADOW")

(* The capability one statement asks for, "" when it asks for none.         *)
Capability(t, dialect) ==
  LET pg == dialect = "postgresql"
  IN  IF pg /\ t[1] = "COPY" /\ Contains(t, "PROGRAM") THEN "postgres.copy_program"
      ELSE IF pg /\ t[1] = "COPY" /\ Pairs(t, {"FROM", "TO"}, {"<LITERAL>"})
      THEN "postgres.copy_file"
      ELSE IF pg /\ t[1] = "DO" THEN "postgres.do"
      ELSE IF t[1] = "CALL" THEN "stored_procedure.call"
      ELSE IF ~pg /\ StartsWith(t, <<"LOAD", "DATA">>) THEN "mysql.load_data"
      ELSE IF ~pg /\ Pairs(t, {"INTO"}, {"OUTFILE", "DUMPFILE"}) THEN "mysql.outfile"
      ELSE IF pg /\ t[1] \in {"VACUUM", "ANALYZE"} THEN "postgres.maintenance"
      ELSE IF is_cross_dialect(t, dialect) THEN "sql.cross_dialect"
      ELSE IF is_privileged_catalog_or_session(t, dialect)
      THEN "sql.privileged_catalog_session" ELSE ""

Statements(t) ==
  LET cuts  == {0} \cup {i \in DOMAIN t : t[i] = ";"}
      end(a) == LET I == {b \in cuts \cup {Len(t) + 1} : b > a}
                IN  CHOOSE b \in I : \A c \in I : b <= c
      order == InOrder(cuts)
  IN  SelectSeq([k \in 1..Len(order) |-> SubSeq(t, order[k] + 1, end(order[k]) - 1)],
                LAMBDA q : q # <<>>)

(* The first statement of a text that asks for something refused decides.   *)
classify_dangerous_sql(s, dialect) ==
  LET all == [k \in 1..Len(Statements(sql_tokens(s, dialect))) |->
                Capability(Statements(sql_tokens(s, dialect))[k], dialect)]
      hit == SelectSeq(all, LAMBDA c : c # "")
  IN  IF hit = <<>> THEN "" ELSE hit[1]

-----------------------------------------------------------------------------
(* SQL cursors served from the process.                                     *)
All == 1000

UnQ(w) == Unquoted(w)

ParseDeclare(t) ==
  LET cursor == FirstFrom(t, 3, LAMBDA i : t[i] = "CURSOR")
      for    == IF cursor = 0 THEN 0 ELSE FirstFrom(t, cursor + 1, LAMBDA i : t[i] = "FOR")
      names  == SelectSeq(SplitBlank(SubSeq(t, 3, cursor - 1)),
                  LAMBDA w : w \notin {<<"BINARY">>, <<"INSENSITIVE">>, <<"NO">>, <<"SCROLL">>,
                                       <<"ASENSITIVE">>})
      select == Trim(From(t, for + 1))
      mid    == SplitBlank(SubSeq(t, cursor, for - 1))
  IN  IF cursor = 0 \/ for = 0 THEN <<>>
      ELSE IF names = <<>> \/ select = <<>> THEN <<>>
      ELSE <<[kind |-> "declare", name |-> UnQ(names[1]), select |-> select,
              with_hold |-> \E i \in 2..(Len(mid) - 1) :
                              mid[i] = <<"WITH">> /\ mid[i+1] = <<"HOLD">>]>>

FetchCount(w) == IF w = <<"ALL">> THEN All ELSE IF w = <<"2">> THEN 2 ELSE 1

ParseFetch(t) ==
  LET words == SplitBlank(From(t, 3))
      far   == words[1] \in {<<"ABSOLUTE">>, <<"RELATIVE">>, <<"BACKWARD">>, <<"PRIOR">>,
                             <<"FIRST">>, <<"LAST">>}
      next  == words[1] = <<"NEXT">>
      one   == Len(words) >= 2 /\ words[2] \in {<<"FROM">>, <<"IN">>}
      rest  == IF words[1] \in {<<"FORWARD">>, <<"NEXT">>} THEN Tail(words) ELSE words
      many  == rest[1] \in {<<"ALL">>, <<"0">>, <<"1">>, <<"2">>}
      a     == IF many THEN Tail(rest) ELSE rest
      b     == IF a # <<>> /\ a[1] \in {<<"FROM">>, <<"IN">>} THEN Tail(a) ELSE a
  IN  IF words = <<>> THEN <<>>
      ELSE IF far \/ (next /\ ~one) THEN <<[kind |-> "unsupported"]>>
      ELSE IF rest = <<>> THEN <<>>
      ELSE IF b = <<>> THEN <<>>
      ELSE <<[kind |-> "fetch", name |-> UnQ(b[1]), count |-> FetchCount(rest[1])]>>

(* The cursor statement a text is, <<>> for any other SQL.                  *)
parse_named_cursor_sql(s) ==
  LET t == Bare(s)
  IN  IF Len(t) < 3 \/ t[2] # Blank THEN <<>>
      ELSE CASE t[1] = "DECLARE" -> ParseDeclare(t)
             [] t[1] = "MOVE"    -> <<[kind |-> "unsupported"]>>
             [] t[1] = "FETCH"   -> ParseFetch(t)
             [] t[1] = "CLOSE"   -> <<[kind |-> "close", name |-> UnQ(Trim(From(t, 3)))]>>
             [] OTHER -> <<>>

-----------------------------------------------------------------------------
(* Tickets in a leading comment.                                            *)
CommentEnd(t) == IF StartsWith(t, <<"/*">>) THEN FirstFrom(t, 2, LAMBDA i : t[i] = "*/") ELSE 0

TicketKeys == {"dn_ticket", "data_nexus_ticket"}

extract_ticket_id(s) ==
  LET Unhinted(raw) == IF StartsWith(raw, <<"+">>) THEN Trim(Tail(raw)) ELSE raw
      First(words) == IF words = <<>> THEN <<>> ELSE <<words[1]>>
      Id(tail) == First(SplitBlank(IF tail # <<>> /\ Head(tail) \in {":", "="} THEN Tail(tail) ELSE tail))
      Anywhere(body, pos) == IF pos = 0 THEN <<>> ELSE Id(LTrim(From(body, pos + 1)))
      Direct(body) == IF Len(body) >= 3 /\ body[1] \in TicketKeys /\ body[2] = ":" THEN First(SplitBlank(From(body, 3)))
                      ELSE <<>>
      Found(direct, body) == IF direct # <<>> THEN direct
                             ELSE Anywhere(body, FirstFrom(body, 1, LAMBDA i : body[i] = "dn_ticket"))
      Body(body) == Found(Direct(body), body)
      Comment(t, end) == IF end = 0 THEN <<>> ELSE Body(Unhinted(Trim(SubSeq(t, 2, end - 1))))
      Start(t) == Comment(t, CommentEnd(t))
  IN  Start(LTrim(s))

strip_ticket_comment(s) ==
  LET Comment(t, end) == IF end # 0 /\ \E i \in 2..end : t[i] \in TicketKeys THEN LTrim(From(t, end + 1)) ELSE s
      Start(t) == Comment(t, CommentEnd(t))
  IN  Start(LTrim(s))

(* Runs of blanks are one, a trailing semicolon is dropped.                 *)
sql_fingerprint(s) ==
  LET Picked(t, keep) == [k \in DOMAIN keep |-> t[keep[k]]]
      Squeezed(t) == Picked(t, InOrder({i \in DOMAIN t : t[i] # Blank \/ (i > 1 /\ t[i-1] # Blank)}))
  IN  Bare(Squeezed(strip_ticket_comment(s)))

contains_top_level_keyword(s, key) ==
  \E i \in DOMAIN s : s[i] = key /\ Scan({}, s, 0)[i].depth = 0

is_write_without_where(s) ==
  LET t == strip_ticket_comment(s)
  IN  /\ LTrim(t) # <<>> /\ LTrim(t)[1] \in {"UPDATE", "DELETE"}
      /\ ~contains_top_level_keyword(t, "WHERE")

-----------------------------------------------------------------------------
(***************************************************************************)
(* The text handling of SqlText and SqlGuards against reference            *)
(* definitions: statements are given by what they say (their items, tables, *)
(* conditions), written out as text, and what the code makes of the text is *)
(* compared with the same operation on what the statement says.             *)
(***************************************************************************)

CONSTANTS MaxItems,   \* items of a select list
          MaxPieces   \* pieces of a text with placeholders

NoBlanks(s) == SelectSeq(s, LAMBDA c : c # Blank)
Sp(s) == FlattenSeq([i \in 1..Len(s) |-> IF i = 1 THEN <<s[i]>> ELSE <<Blank, s[i]>>])

-----------------------------------------------------------------------------
(* Queries.  An item is a column, under whatever name, or computes          *)
(* something; it has the name it gives.                                     *)
Columns == {"a", "b"}

Subquery(denied) ==
  LET list == SelectSeq(<<<<"a">>, <<"b">>>>, LAMBDA c : c \notin denied)
  IN  <<"(", "SELECT", Blank>> \o Joined(list)
        \o (IF list = <<>> THEN <<>> ELSE <<Blank>>) \o <<"FROM", Blank, "u", ")">>

ItemText(k, denied) ==
  CASE k = "col"    -> <<"a">>
    [] k = "dotted" -> <<"t", ".", "b">>
    [] k = "as"     -> <<"a", Blank, "AS", Blank, "b">>
    [] k = "alias"  -> <<"b", Blank, "y">>
    [] k = "call"   -> <<"f", "(", "a", ",", Blank, "b", ")">>
    [] k = "quoted" -> <<"dq", "a", "dq">>
    [] k = "sub"    -> Subquery(denied)
    [] k = "text"   -> <<"'", "FROM", ",", "(", "'", Blank, "AS", Blank, "z">>

IsColumn(k) == CASE k \in {"col", "as", "quoted"} -> <<"a">>
                 [] k \in {"dotted", "alias"} -> <<"b">>
                 [] OTHER -> <<>>

Gives(k) == CASE k \in {"col", "quoted"} -> <<"a">>
              [] k \in {"dotted", "as"} -> <<"b">>
              [] k = "alias" -> <<"y">>
              [] k = "text"  -> <<"z">>
              [] OTHER -> Unnamed

ItemKinds == {"col", "dotted", "as", "alias", "call", "quoted", "sub", "text"}

FromText(k, denied) ==
  CASE k = "one"  -> <<"t">>
    [] k = "join" -> Sp(<<"t", "JOIN", "u", "ON", "c">>)
    [] k = "sub"  -> Subquery(denied) \o <<Blank, "d">>

Tables(k) == IF k = "one" THEN {<<"t">>} ELSE IF k = "join" THEN {<<"t">>, <<"u">>} ELSE {<<"u">>}

Conditions == {<<>>, <<"c">>, Sp(<<"c", "OR", "d">>), Sp(<<"(", "c", "OR", "d", ")", "AND", "e">>),
               Sp(<<"c", "AND", "'", "OR", "ORDER", "'">>),
               Sp(<<"c", "OR", "d", "AND", "(", "SELECT", "WHERE", "GROUP", ")">>)}
Tails == {<<>>, Sp(<<"ORDER", "BY", "a">>), Sp(<<"LIMIT", "2">>)}

Head1(q) == IF q.distinct THEN Sp(<<"SELECT", "DISTINCT">>) ELSE <<"SELECT">>

Query(q, kept, denied) ==
  (IF kept = <<>> THEN <<"SELECT">> ELSE Head1(q)) \o <<Blank>>
    \o Joined([k \in 1..Len(kept) |-> ItemText(kept[k], denied)])
    \o <<Blank, "FROM", Blank>> \o FromText(q.from, denied)
    \o (IF q.where = <<>> THEN <<>> ELSE <<Blank, "WHERE", Blank>> \o q.where)
    \o (IF q.tail = <<>> THEN <<>> ELSE <<Blank>> \o q.tail)

Text(q) == Query(q, q.items, {})

Queries == [distinct : BOOLEAN, items : UNION {[1..n -> ItemKinds] : n \in 1..MaxItems},
            from : {"one", "join", "sub"}, where : {<<>>, <<"c">>}, tail : {<<>>}]

Filterable == [distinct : {FALSE}, items : {<<"sub", "col">>}, from : {"one", "sub"},
               where : Conditions, tail : Tails]

(* A denied column is stripped from every list, of nested queries too,      *)
(* under any alias, table name or quotes, and nothing else is touched:      *)
(* rewrite_select_strip_columns on the text of a query gives the text of    *)
(* the query without the items that are a denied column.  An item that      *)
(* computes something from one, like f(a, b), stays: its bare name is not   *)
(* the column's.                                                            *)
StripExact ==
  Looking("strip") =>
    LET q    == input[1].query
        kept == SelectSeq(q.items, LAMBDA k : IsColumn(k) \notin input[1].denied)
        out  == rewrite_select_strip_columns(Text(q), input[1].denied)
    IN  out # <<>> /\ NoBlanks(out[1]) = NoBlanks(Query(q, kept, input[1].denied))

(* Every table a query reads, in a join or a nested query too, is among the *)
(* names extract_table_names hands to the policy.                           *)
TablesFound ==
  Looking("strip") =>
    Tables(input[1].query.from) \subseteq extract_table_names(Text(input[1].query))

(* What Describe announces for a query has one column per item, named as    *)
(* the item names it, whatever quotes, calls and literals the list holds.   *)
DescribeNames ==
  Looking("strip") =>
    infer_select_result_columns(Text(input[1].query)) =
      <<[k \in 1..Len(input[1].query.items) |-> Gives(input[1].query.items[k])]>>

-----------------------------------------------------------------------------
(* The rows a condition admits: OR binds less than AND.  An atom is a word, *)
(* a literal or a nested query, which counts as true.                       *)
RECURSIVE Admits(_, _)
Admits(s, true) ==
  LET top == TopLevel(Quotes3, s)
      or  == FirstFrom(s, 1, LAMBDA i : i \in top /\ s[i] = "OR")
      and == FirstFrom(s, 1, LAMBDA i : i \in top /\ s[i] = "AND")
  IN  IF or # 0 THEN Admits(SubSeq(s, 1, or - 1), true) \/ Admits(From(s, or + 1), true)
      ELSE IF and # 0 THEN Admits(SubSeq(s, 1, and - 1), true) /\ Admits(From(s, and + 1), true)
      ELSE IF s[1] = "(" /\ s[2] # "SELECT" THEN Admits(SubSeq(s, 2, Len(s) - 1), true)
      ELSE s[1] \in {"'", "("} \/ s[1] \in true

(* Injecting a row filter leaves the query as it was but for its condition, *)
(* and the rows it then admits are those it admitted before that meet the   *)
(* filter: a filter never lets a row in and never loosens the condition.    *)
FilterExact ==
  Looking("filter") =>
    LET q    == input[1].query
        pred == input[1].pred
        out  == NoBlanks(inject_row_filter(Text(q), pred)[1])
        pre  == NoBlanks(Text([q EXCEPT !.where = <<>>, !.tail = <<>>])) \o <<"WHERE">>
        tail == NoBlanks(q.tail)
        cond == SubSeq(out, Len(pre) + 1, Len(out) - Len(tail))
    IN  /\ StartsWith(out, pre)
        /\ From(out, Len(out) - Len(tail) + 1) = tail
        /\ \A true \in SUBSET {"c", "d", "e", "p", "r"} :
             Admits(cond, true) <=> /\ q.where = <<>> \/ Admits(NoBlanks(q.where), true)
                                    /\ Admits(NoBlanks(pred), true)

-----------------------------------------------------------------------------
(* Texts with placeholders, in a string literal too, and values that hold   *)
(* what looks like one.                                                     *)
Piece(p) == CASE p = "lit"  -> <<"'", "x", "'">>
              [] p = "lit$" -> <<"'", "$", "1", "'">>
              [] p = "$1"   -> <<"$", "1">>
              [] p = "$2"   -> <<"$", "2">>
              [] p = "$10"  -> <<"$", "1", "0">>
Number(p) == CASE p \in {"$1", "lit$"} -> 1 [] p = "$2" -> 2 [] p = "$10" -> 3 [] OTHER -> 0

Params == {[kind |-> "number", text |-> <<"7">>],
           [kind |-> "string", text |-> <<"it", "'", "s">>],
           [kind |-> "string", text |-> <<"$", "1">>], [kind |-> "string", text |-> <<"$", "2">>]}

(* The literal of the value with number n: a smaller number inside of it is *)
(* a placeholder again, since the larger ones are replaced first.           *)
RECURSIVE Literal(_, _)
Literal(n, vals) ==
  LET t == vals[n].text
      m == IF t[1] # "$" THEN 0 ELSE IF t[2] = "1" THEN 1 ELSE 2
  IN  CASE vals[n].kind = "number" -> t
        [] vals[n].kind = "string" /\ m = 0 -> <<"'", "it", "'", "'", "s", "'">>
        [] vals[n].kind = "string" /\ m # 0 -> <<"'">> \o (IF m < n THEN Literal(m, vals) ELSE t) \o <<"'">>

BoundPiece(p, vals) ==
  CASE Number(p) = 0 -> Piece(p)
    [] p = "lit$" -> <<"'">> \o Literal(1, vals) \o <<"'">>
    [] Number(p) # 0 /\ p # "lit$" -> Literal(Number(p), vals)

(* Bind puts each value in the place of its number, whichever numbers the   *)
(* text uses, and refuses a wrong count.  A number counts wherever it       *)
(* stands: in a literal of the text, and in a value that takes the place of *)
(* a larger number.  Nothing else is touched (bind_pg_placeholders).        *)
BindExact ==
  Looking("bind") =>
    LET ps   == input[1].pieces
        vals == input[1].params
        used == {Number(ps[i]) : i \in DOMAIN ps} \cup {0}
        need == CHOOSE n \in used : \A m \in used : m <= n
        out  == bind_pg_placeholders(FlattenSeq([i \in 1..Len(ps) |-> Piece(ps[i]) \o <<Blank>>]), vals)
    IN  out = IF need # Len(vals) THEN <<>>
              ELSE <<FlattenSeq([i \in 1..Len(ps) |-> BoundPiece(ps[i], vals) \o <<Blank>>])>>

MySqlPiece(p) == CASE p = "word" -> <<"a">>
                   [] p = "mark" -> <<"?">>
                   [] p = "quoted" -> <<"'", "?", "'">>
                   [] p = "doubled" -> <<"'", "x", "'", "'", "?", "'">>
                   [] p = "empty" -> <<"'", "'">>

(* The parameters a prepared MySQL statement is announced with are its      *)
(* marks, not those inside of strings (count_mysql_placeholders).           *)
MarksCounted ==
  Looking("marks") =>
    count_mysql_placeholders(FlattenSeq([i \in 1..Len(input[1]) |-> MySqlPiece(input[1][i]) \o <<Blank>>]))
      = Cardinality({i \in DOMAIN input[1] : input[1][i] = "mark"})

-----------------------------------------------------------------------------
(* Refused capabilities: a statement and a text put into it.                *)
Bases == {Sp(<<"SELECT", "a", "FROM", "t">>), Sp(<<"COPY", "t", "TO", "PROGRAM">>),
          Sp(<<"DO", "a">>), Sp(<<"SELECT", "a", ";", "CALL", "p">>), Sp(<<"LOAD", "DATA", "a">>),
          Sp(<<"SELECT", "a", "INTO", "OUTFILE", "b">>), Sp(<<"VACUUM", "t">>),
          Sp(<<"SELECT", "a", "::", "b">>), Sp(<<"SET", "GLOBAL", "a">>), Sp(<<"SET", "ROLE", "a">>),
          Sp(<<"SELECT", "MYSQL", ".", "USER">>), Sp(<<"COPY", "t", "FROM">>),
          Sp(<<"ALTER", "SYSTEM", "a">>), Sp(<<"SELECT", "PG_SHADOW">>)}

Plain == <<"'", "x", "'">>
Decorations(dialect) ==
  LET loud == <<Blank, ";", Blank, "CALL", Blank, "bq", "::">>
  IN  { [text |-> <<"/*">> \o loud \o <<"*/">>, as |-> <<Blank>>],
        [text |-> <<"--">> \o loud \o <<"nl">>, as |-> <<Blank>>],
        [text |-> <<"dq">> \o loud \o <<"dq">>, as |-> <<Blank>>],
        [text |-> <<"'", "'", "'">> \o loud \o <<"'">>, as |-> Plain],
        [text |-> <<"E", "'", "x", "bs", "'">> \o loud \o <<"'">>, as |-> <<"E">> \o Plain] }
      \cup (IF dialect = "mysql"
            THEN {[text |-> <<"#">> \o loud \o <<"nl">>, as |-> <<Blank>>],
                  [text |-> <<"'", "x", "bs", "'">> \o loud \o <<"'">>, as |-> Plain]}
            ELSE {[text |-> <<"$$", "'">> \o loud \o <<"$$">>, as |-> Plain]})

Insert(s, i, t) == SubSeq(s, 1, i) \o <<Blank>> \o t \o <<Blank>> \o From(s, i + 1)

(* A statement is refused for what it says: the text of a comment, of a     *)
(* literal or of a quoted name put anywhere into it changes nothing.        *)
ClassifyAsSaid ==
  Looking("classify") =>
    LET x == input[1] IN
    classify_dangerous_sql(Insert(x.base, x.at, x.deco.text), x.dialect) =
      classify_dangerous_sql(Insert(x.base, x.at, x.deco.as), x.dialect)

-----------------------------------------------------------------------------
(* Cursor statements.                                                       *)
Names == {<<"c">>, <<"dq", "c", "dq">>}
SelectText == Sp(<<"SELECT", "a", "FROM", "t", "FOR", "UPDATE">>)

CursorTexts ==
  { [text |-> <<"DECLARE", Blank>> \o n \o w \o <<Blank, "CURSOR">> \o h \o <<Blank, "FOR", Blank>>
                \o SelectText \o e,
     as   |-> <<[kind |-> "declare", name |-> <<"c">>, select |-> SelectText,
                 with_hold |-> h = <<Blank, "WITH", Blank, "HOLD">>]>>] :
      n \in Names, w \in {<<>>, Sp(<<Blank, "NO", "SCROLL">>), <<Blank, "BINARY">>},
      h \in {<<>>, <<Blank, "WITH", Blank, "HOLD">>, <<Blank, "WITHOUT", Blank, "HOLD">>},
      e \in {<<>>, <<";">>} }
  \cup
  { [text |-> <<"FETCH", Blank>> \o d \o k.text \o f \o n,
     as   |-> <<[kind |-> "fetch", name |-> <<"c">>, count |-> k.rows]>>] :
      d \in {<<>>, <<"FORWARD", Blank>>}, n \in Names,
      k \in {[text |-> <<>>, rows |-> 1], [text |-> <<"0", Blank>>, rows |-> 1],
             [text |-> <<"2", Blank>>, rows |-> 2], [text |-> <<"ALL", Blank>>, rows |-> All]},
      f \in {<<>>, <<"FROM", Blank>>, <<"IN", Blank>>} }
  \cup
  { [text |-> <<"FETCH", Blank>> \o d, as |-> <<[kind |-> "unsupported"]>>] :
      d \in {Sp(<<"PRIOR", "FROM", "c">>), Sp(<<"NEXT", "c">>), Sp(<<"LAST", "IN", "c">>)} }
  \cup
  { [text |-> Sp(<<"MOVE", "c">>), as |-> <<[kind |-> "unsupported"]>>],
    [text |-> Sp(<<"CLOSE", "c", ";">>), as |-> <<[kind |-> "close", name |-> <<"c">>]>>],
    [text |-> Sp(<<"FETCH", "NEXT", "FROM", "c">>),
     as |-> <<[kind |-> "fetch", name |-> <<"c">>, count |-> 1]>>],
    [text |-> SelectText, as |-> <<>>] }

(* A cursor statement is understood in every form the gateway serves: its   *)
(* name without quotes, at least one row a FETCH, the whole query after the *)
(* first FOR, and WITH HOLD only where it is written.                       *)
CursorRead == Looking("cursor") => parse_named_cursor_sql(input[1].text) = input[1].as

-----------------------------------------------------------------------------
(* Tickets: how a comment may be written, and statements to carry it.       *)
TicketForms(id) == { <<"/*", "dn_ticket", ":", id, "*/">>,
                     <<"/*", Blank, "data_nexus_ticket", ":", Blank, id, Blank, "*/", Blank>>,
                     <<"/*", "+", Blank, "dn_ticket", "=", id, Blank, "*/">>,
                     <<Blank, "/*", "dn_ticket", Blank, "=", Blank, id, "*/", Blank, Blank>> }

Writes == { [text |-> Sp(<<"UPDATE", "t", "SET", "a">>), bare |-> TRUE],
            [text |-> Sp(<<"UPDATE", "t", "SET", "a", "WHERE", "c">>), bare |-> FALSE],
            [text |-> Sp(<<"DELETE", "FROM", "t", "(", "SELECT", "WHERE", ")">>), bare |-> TRUE],
            [text |-> Sp(<<"DELETE", "FROM", "t", "WHERE", "(", "c", ")">>), bare |-> FALSE],
            [text |-> Sp(<<"SELECT", "a", "FROM", "t">>), bare |-> FALSE] }

(* A statement resubmitted with the ticket it was given names that ticket,  *)
(* has the fingerprint it was filed under, and is as risky as it was.       *)
TicketCarried ==
  Looking("ticket") =>
    LET x == input[1]
        carried == x.comment \o x.write.text \o x.end
    IN  /\ extract_ticket_id(carried) = <<<<"7">>>>
        /\ sql_fingerprint(carried) = sql_fingerprint(x.write.text)
        /\ is_write_without_where(carried) <=> x.write.bare

-----------------------------------------------------------------------------
Session0 == [charset |-> <<>>, txn |-> "failed"]

Decodes ==
  { [text |-> t \o e, command |-> "begin", session |-> [Session0 EXCEPT !.txn = "active"]] :
      t \in {<<"BEGIN">>, Sp(<<"START", "TRANSACTION">>)}, e \in {<<>>, <<";">>, <<Blank, ";", ";">>} }
  \cup
  { [text |-> <<Blank>> \o <<w>> \o e, command |-> w, session |-> [Session0 EXCEPT !.txn = "idle"]] :
      w \in {"COMMIT", "ROLLBACK"}, e \in {<<>>, <<";">>} }
  \cup
  { [text |-> t \o v \o e, command |-> "query", session |-> [Session0 EXCEPT !.charset = <<"UTF8">>]] :
      t \in {Sp(<<"SET", "CLIENT_ENCODING", "TO", Blank>>), Sp(<<"SET", "CLIENT_ENCODING", "=", Blank>>),
             Sp(<<"SET", "NAMES", Blank>>)},
      v \in {<<"'", "UTF8", "'">>, <<"UTF8">>}, e \in {<<>>, <<";">>} }
  \cup
  { [text |-> t, command |-> "query", session |-> Session0] :
      t \in {Sp(<<"COMMIT", "PREPARED", "a">>), Sp(<<"BEGIN", "WORK">>), Sp(<<"SET", "NAMES">>)} }

(* The session follows what the client says in a simple query, with any     *)
(* blanks and semicolons around it, and nothing else moves it.              *)
Decoded ==
  Looking("decode") =>
    decode_query_command(input[1].text, Session0) =
      [command |-> input[1].command, session |-> input[1].session]

-----------------------------------------------------------------------------
Gaps(s) == {0} \cup {i \in DOMAIN s : s[i] = Blank}

SqlTextInputs ==
  [ strip  |-> [query : Queries, denied : {{<<"a">>}, {<<"a">>, <<"b">>}}],
    filter |-> [query : Filterable, pred : {<<"p">>, Sp(<<"p", "OR", "r">>)}],
    bind   |-> [pieces : UNION {[1..n -> {"lit", "lit$", "$1", "$2", "$10"}] : n \in 1..MaxPieces},
                params : UNION {[1..n -> Params] : n \in 0..2} \cup [1..3 -> {v \in Params : v.kind = "string"}]],
    marks  |-> UNION {[1..n -> {"word", "mark", "quoted", "doubled", "empty"}] : n \in 1..MaxPieces},
    classify |-> UNION {[dialect : {d}, base : {b}, deco : Decorations(d), at : Gaps(b)] :
                          d \in {"mysql", "postgresql"}, b \in Bases},
    cursor |-> CursorTexts,
    ticket |-> [comment : TicketForms("7"), write : Writes, end : {<<>>, <<";">>, <<Blank, ";">>}],
    decode |-> Decodes ]

=============================================================================
