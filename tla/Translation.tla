---------------------------- MODULE Translation -----------------------------
(***************************************************************************)
(* The hop between two protocols: which statements may cross, how the text  *)
(* and the parameters of one are rewritten for the other side, and which    *)
(* type the columns of the answer get.  A text is a sequence of tokens as   *)
(* in SqlText; "--", "/*", "*/" and "::" are one token each.                *)
(***************************************************************************)
EXTENDS SqlText, Topic

Failed == <<>>

-----------------------------------------------------------------------------
(* Where what starts at i ends, one past its last token; 0 when it does not.*)
IsDigit(c) == c \in Digits
IsIdent(c) == c \notin {Blank, "'", "dq", "bq", "bs", "nl", "$", "?", "--", "#", "/*", "*/",
                        "(", ")", ",", ";", ".", "=", "::", "*"}

RECURSIVE quoted_end(_, _, _)

quoted_end(s, i, quote) ==
  IF i > Len(s) THEN 0
  ELSE IF s[i] = "bs" /\ i < Len(s) THEN quoted_end(s, i + 2, quote)
  ELSE IF s[i] # quote THEN quoted_end(s, i + 1, quote)
  ELSE IF i < Len(s) /\ s[i+1] = quote THEN quoted_end(s, i + 2, quote)
  ELSE i + 1

line_comment_end(s, i) ==
  LET nl == FirstFrom(s, i, LAMBDA j : s[j] = "nl") IN IF nl = 0 THEN Len(s) + 1 ELSE nl + 1

RECURSIVE block_comment_end(_, _, _)
block_comment_end(s, i, depth) ==
  IF depth = 0 THEN i
  ELSE IF i > Len(s) THEN 0
  ELSE block_comment_end(s, i + 1, depth + (CASE s[i] = "/*" -> 1 [] s[i] = "*/" -> -1
                                              [] OTHER -> 0))

(* The length of the dollar-quote delimiter at i, 0 when there is none.     *)
dollar_quote_delimiter(s, i) ==
  CASE i < Len(s) /\ s[i+1] = "$" -> 2
    [] i + 1 < Len(s) /\ IsIdent(s[i+1]) /\ ~IsDigit(s[i+1]) /\ s[i+2] = "$" -> 3
    [] OTHER -> 0

dollar_quote_end(s, i) ==
  LET Closed(close, n) == IF close = 0 THEN 0 ELSE close + n
      Opened(n) == Closed(FirstFrom(s, i + n, LAMBDA j : StartsWith(From(s, j), SubSeq(s, i, i + n - 1))), n)
  IN  Opened(dollar_quote_delimiter(s, i))

(* What is copied as it stands from i on: <<end>>, <<>> when nothing is.    *)
CopiedRun(s, i) ==
  CASE s[i] \in Quotes3    -> <<quoted_end(s, i + 1, s[i])>>
    [] s[i] \in {"--","#"} -> <<line_comment_end(s, i + 1)>>
    [] s[i] = "/*"         -> <<block_comment_end(s, i + 1, 1)>>
    [] s[i] = "$" /\ dollar_quote_delimiter(s, i) # 0 -> <<dollar_quote_end(s, i)>>
    [] OTHER -> <<>>

(* The number at i, and the place after it.                                 *)
NumberAt(s, i) ==
  LET digit(c) == CASE c = "0" -> 0 [] c = "1" -> 1 [] c = "2" -> 2
      Until(stop) == [index |-> FoldLeft(LAMBDA v, c : 10 * v + digit(c), 0, SubSeq(s, i, stop - 1)), next |-> stop]
      Ending(end) == Until(IF end = 0 THEN Len(s) + 1 ELSE end)
  IN  Ending(FirstFrom(s, i, LAMBDA j : ~IsDigit(s[j])))

Written(n) == CASE n < 3 -> <<ToString(n)>> [] OTHER -> <<"1", "0">>

(* The text with its placeholders rewritten, and what each one refers to.   *)
RECURSIVE rewrite_placeholder_tokens(_, _, _, _)
rewrite_placeholder_tokens(s, i, kind, done) ==
  IF i > Len(s) THEN <<done>>
  ELSE LET Go(j, text, refs) ==
             rewrite_placeholder_tokens(s, j, kind, [text |-> done.text \o text,
                                                     refs |-> done.refs \o refs])
           Numbered(num) ==
             IF num.next = i + 1 THEN Go(i + 1, <<s[i]>>, <<>>)
             ELSE IF \/ i > 1 /\ IsIdent(s[i-1])
                     \/ num.index = 0
                     \/ num.next <= Len(s) /\ IsIdent(s[num.next])
             THEN Failed ELSE Go(num.next, <<"?">>, <<num.index>>)
           Token(run) ==
             CASE run # <<>> -> IF run[1] = 0 THEN Failed ELSE Go(run[1], SubSeq(s, i, run[1] - 1), <<>>)
               [] run = <<>> /\ kind = "question" /\ s[i] = "?" ->
                    Go(i + 1, <<"$">> \o Written(Len(done.refs) + 1), <<Len(done.refs) + 1>>)
               [] run = <<>> /\ kind = "numbered" /\ s[i] = "$" -> Numbered(NumberAt(s, i + 1))
               [] OTHER -> Go(i + 1, <<s[i]>>, <<>>)
       IN  Token(CopiedRun(s, i))

Placeholders(s, kind) == rewrite_placeholder_tokens(s, 1, kind, [text |-> <<>>, refs |-> <<>>])

Highest(refs) == CHOOSE n \in {0} \cup ToSet(refs) : \A m \in ToSet(refs) : m <= n

rewrite_pg_placeholders(s) ==
  LET Whole(r) == IF r = Failed THEN Failed
                  ELSE IF \E k \in 1..Highest(r[1].refs) : k \notin ToSet(r[1].refs) THEN Failed
                  ELSE r
  IN  Whole(Placeholders(s, "numbered"))

-----------------------------------------------------------------------------
(* Quoted identifiers.  Quotes are pairs, a doubled one stands for itself;  *)
(* these passes know neither a backslash nor a comment.                     *)
RECURSIVE convert_quotes(_, _, _, _)
convert_quotes(s, from, to, copied) ==
  IF s = <<>> THEN <<>>
  ELSE LET c    == Head(s)
           end  == LET RECURSIVE close(_)
                       close(j) == IF j > Len(s) THEN Len(s) + 1
                                   ELSE IF s[j] # c THEN close(j + 1)
                                   ELSE IF j < Len(s) /\ s[j+1] = c THEN close(j + 2)
                                   ELSE j + 1
                   IN  close(2)
           whole == SubSeq(s, 1, end - 1)
           name  == LET RECURSIVE body(_)
                        body(t) == IF t = <<>> \/ t = <<from>> THEN <<>>
                                   ELSE IF t[1] = from THEN <<from>> \o body(From(t, 3))
                                   ELSE (IF t[1] = to THEN <<to, to>> ELSE <<t[1]>>)
                                          \o body(Tail(t))
                    IN  body(Tail(whole))
           rest  == convert_quotes(From(s, end), from, to, copied)
       IN  CASE c \in copied -> whole \o rest
             [] c = from     -> <<to>> \o name \o <<to>> \o rest
             [] OTHER        -> <<c>> \o convert_quotes(Tail(s), from, to, copied)

(* These passes push each byte as a character: one outside ASCII, of two    *)
(* bytes (wide0), becomes two characters, each again of two bytes (wide1).  *)
BytesAsChars(s) ==
  FlattenSeq([i \in 1..Len(s) |-> CASE s[i] = "wide0" -> <<"wide1", "wide1">>
                                    [] s[i] = "wide1" -> <<"wide2", "wide2">>
                                    [] OTHER -> <<s[i]>>])

convert_double_quotes_to_backticks(s) == convert_quotes(BytesAsChars(s), "dq", "bq", {"'"})
convert_backticks_to_double_quotes(s) == convert_quotes(BytesAsChars(s), "bq", "dq", {"'", "dq"})

replace_ifnull_with_coalesce(s) ==
  LET Calls(i) == LTrim(From(s, i + 1)) # <<>> /\ Head(LTrim(From(s, i + 1))) = "("
  IN  BytesAsChars([i \in 1..Len(s) |-> IF s[i] = "IFNULL" /\ Calls(i) THEN "COALESCE" ELSE s[i]])

rewrite_mysql_limit_offset(s) ==
  LET Swapped(at, offset, tail, c) ==
        IF c = 1 THEN s
        ELSE SubSeq(s, 1, at) \o <<Blank>> \o SubSeq(tail, 1, c - 1) \o <<Blank, "OFFSET", Blank>>
               \o offset \o From(tail, c)
      Count(at, offset, tail) == Swapped(at, offset, tail, NumberAt(tail, 1).next)
      Comma(at, offset, comma) == IF comma = <<>> THEN s ELSE IF Head(comma) # "," THEN s
                                  ELSE Count(at, offset, LTrim(Tail(comma)))
      Offset(at, rest, o) == IF o = 1 THEN s ELSE Comma(at, SubSeq(rest, 1, o - 1), LTrim(From(rest, o)))
      Rest(at, rest) == IF Contains(rest, "OFFSET") THEN s ELSE Offset(at, rest, NumberAt(rest, 1).next)
      Limit(at) == IF at = 0 THEN s ELSE Rest(at, LTrim(From(s, at + 1)))
  IN  Limit(FirstFrom(s, 1, LAMBDA i : s[i] = "LIMIT"))

(* The text and the parameters for the other side.                          *)
ToPostgres(s) ==
  rewrite_mysql_limit_offset(replace_ifnull_with_coalesce(convert_backticks_to_double_quotes(s)))

Rewritten(s, frontend) == IF frontend = "mysql" THEN Placeholders(s, "question") ELSE rewrite_pg_placeholders(s)

rewrite_sql_for_backend(s, frontend) ==
  LET Whole(r) == IF r = Failed THEN Failed
                 ELSE IF frontend = "mysql" THEN <<ToPostgres(r[1].text)>>
                 ELSE <<convert_double_quotes_to_backticks(r[1].text)>>
  IN  Whole(Rewritten(s, frontend))

(* Mutant of rewrite_sql_and_parameters_for_backend: the values stay in     *)
(* the order the frontend gave them.                                        *)
rewrite_sql_and_parameters_for_backend_inorder(s, params, frontend) ==
  LET Both(r) == IF r = Failed THEN Failed
                 ELSE IF Highest(r[1].refs) # Len(params) THEN Failed
                 ELSE <<[text |-> rewrite_sql_for_backend(s, frontend)[1], params |-> params]>>
  IN  Both(Rewritten(s, frontend))

rewrite_sql_and_parameters_for_backend(s, params, frontend) ==
  LET Both(r) == IF r = Failed THEN Failed
                 ELSE IF Highest(r[1].refs) # Len(params) THEN Failed
                 ELSE <<[text   |-> rewrite_sql_for_backend(s, frontend)[1],
                         params |-> IF frontend = "mysql" THEN params
                                    ELSE [k \in 1..Len(r[1].refs) |-> params[r[1].refs[k]]]]>>
  IN  Both(Rewritten(s, frontend))

-----------------------------------------------------------------------------
(* Which statements may cross.                                              *)
StatementKinds == {"select", "insert", "update", "delete"}

from_keyword(word) ==
  CASE word \in {"SELECT","WITH","VALUES","TABLE","SHOW","EXPLAIN","DESCRIBE","DESC"} -> "select"
    [] word = "INSERT" -> "insert" [] word = "UPDATE" -> "update" [] word = "DELETE" -> "delete"
    [] OTHER -> "none"

Needles == {<<w, Blank>> : w \in {"CREATE", "ALTER", "DROP", "TRUNCATE", "RENAME", "CALL",
                                  "EXECUTE", "COPY", "HANDLER", "RETURNING", "ILIKE", "REGEXP",
                                  "RLIKE"}}
       \cup {<<"LOAD", Blank, "DATA">>, <<"LOAD", Blank, "XML">>, <<"LOCK", Blank, "TABLES">>,
             <<"UNLOCK", Blank, "TABLES">>, <<"REPLACE", Blank, "INTO">>, <<"::">>,
             <<"ON", Blank, "DUPLICATE", Blank, "KEY">>}

reject_unsupported_constructs(s) ==
  \E n \in Needles : \E i \in 1..Len(s) : StartsWith(From(s, i), n)

validate_translation_policy(policy, dialect) ==
  policy.enabled /\ policy.frontend # policy.backend /\ policy.frontend = dialect

check_translation_sql(policy, s, word, dialect) ==
  /\ validate_translation_policy(policy, dialect)
  /\ ~reject_unsupported_constructs(s)
  /\ word # "" /\ from_keyword(word) \in (IF policy.allowed = {} THEN StatementKinds
                                                                 ELSE policy.allowed)

(* A command on its way to the other side; word is what the dialect finds   *)
(* in front of its text.                                                    *)
prepare_cross_protocol_command(policy, cmd, word, dialect) ==
  CASE cmd.kind \in {"prepare", "describe", "query", "query_params"} ->
         LET Sql(text) == IF text = Failed THEN Failed ELSE <<[cmd EXCEPT !.sql = text[1]]>>
             Both(r) == IF r = Failed THEN Failed ELSE <<[cmd EXCEPT !.sql = r[1].text, !.params = r[1].params]>>
         IN  IF ~check_translation_sql(policy, cmd.sql, word, dialect) THEN Failed
             ELSE IF cmd.kind = "query_params"
             THEN Both(rewrite_sql_and_parameters_for_backend(cmd.sql, cmd.params, policy.frontend))
             ELSE Sql(rewrite_sql_for_backend(cmd.sql, policy.frontend))
    [] cmd.kind \in {"execute", "close"} ->
         IF validate_translation_policy(policy, dialect) THEN <<cmd>> ELSE Failed
    [] OTHER -> <<cmd>>

-----------------------------------------------------------------------------
(* The type of a column on the other side.                                  *)
CanonicalTypes == {"Bool", "Int8", "Int16", "Int32", "Int64", "UInt64", "Float32", "Float64",
                   "Decimal", "String", "Bytes", "Date", "Time", "Timestamp", "Timestamptz",
                   "Json", "Unknown"}

to_protocol_type(t, protocol) ==
  LET my == protocol = "mysql"
      pick(a, b) == IF my THEN a ELSE b
  IN  CASE t = "Bool" -> pick("tiny", "bool")          [] t = "Int8" -> pick("tiny", "int2")
        [] t = "Int16" -> pick("short", "int2")        [] t = "Int32" -> pick("long", "int4")
        [] t = "Int64" -> pick("longlong", "int8")     [] t = "UInt64" -> pick("longlong", "numeric")
        [] t = "Float32" -> pick("float", "float4")    [] t = "Float64" -> pick("double", "float8")
        [] t = "Decimal" -> pick("new_decimal", "numeric")
        [] t \in {"String", "Json", "Unknown"} -> pick("var_string", "text")
        [] t = "Bytes" -> pick("blob", "bytea")        [] t = "Date" -> "date"
        [] t = "Time" -> "time"                        [] t = "Timestamp" -> pick("datetime", "timestamp")
        [] t = "Timestamptz" -> pick("timestamp", "timestamptz")

BackendNames ==
  [Bool |-> {"bool", "boolean", "bit"}, Int8 |-> {"tiny", "tinyint", "int1"},
   Int16 |-> {"short", "int2", "smallint", "year"},
   Int32 |-> {"long", "int", "int4", "integer", "mediumint"},
   Int64 |-> {"longlong", "int8", "bigint", "serial", "bigserial"},
   UInt64 |-> {"uint64", "ulonglong"}, Float32 |-> {"float", "float4", "real"},
   Float64 |-> {"double", "float8", "double precision"},
   Decimal |-> {"decimal", "numeric", "new_decimal", "newdecimal"},
   Date |-> {"date"}, Time |-> {"time"}, Timestamp |-> {"datetime", "timestamp"},
   Timestamptz |-> {"timestamptz", "timestamp with time zone"},
   Bytes |-> {"blob", "bytea", "bytes", "binary", "varbinary", "longblob", "mediumblob", "tinyblob"},
   Json |-> {"json", "jsonb"},
   String |-> {"text", "varchar", "char", "bpchar", "var_string", "string", "enum", "set",
               "uuid", "name", "citext"}]

parse_backend_type(name) ==
  IF \E t \in DOMAIN BackendNames : name \in BackendNames[t]
  THEN CHOOSE t \in DOMAIN BackendNames : name \in BackendNames[t] ELSE "Unknown"

map_column_type(name, backend, frontend) ==
  IF backend = frontend THEN name ELSE to_protocol_type(parse_backend_type(name), frontend)

-----------------------------------------------------------------------------
(***************************************************************************)
(* Which statements may be sent to a read-only replica.  The parsers of     *)
(* both dialects are external: a statement that parses is its tree, one     *)
(* that does not is classified by its text.  A query is                     *)
(*   [kind |-> "query", ctes |-> bodies, locks |-> BOOLEAN, body |-> body], *)
(* a body is one of select, values, table, or insert and update, a query in *)
(* parentheses, or a set operation of two bodies.                           *)
(***************************************************************************)

(* Row locks, by the words as one text has them.                            *)
LockWords == {<<"FOR", Blank, "UPDATE">>, <<"FOR", Blank, "SHARE">>,
              <<"FOR", Blank, "NO", Blank, "KEY", Blank, "UPDATE">>,
              <<"FOR", Blank, "KEY", Blank, "SHARE">>}

TextHas(s, p) == \E i \in 1..Len(s) : StartsWith(From(s, i), p)

has_row_lock_clause(s) == \E w \in LockWords : TextHas(s, <<Blank>> \o w)

-----------------------------------------------------------------------------
(* The shared heuristic: the first word and the lock words.                 *)
FirstWord(s) ==
  LET words == SplitBlank(s)
  IN  IF words = <<>> THEN "" ELSE SelectSeq(words[1], LAMBDA c : c # ";")[1]

HeuristicReads ==
  [mysql |-> {"SELECT", "SHOW", "EXPLAIN", "DESCRIBE", "DESC", "WITH", "VALUES"},
   postgresql |-> {"SELECT", "SHOW", "EXPLAIN", "WITH", "VALUES", "TABLE"}]

heuristic_is_read_only(dialect, s) ==
  FirstWord(s) \in HeuristicReads[dialect] /\ ~has_row_lock_clause(s)

-----------------------------------------------------------------------------
(* PostgreSQL by the text without its comments.                             *)
RECURSIVE strip_sql_comments(_, _)
strip_sql_comments(s, quote) ==
  IF s = <<>> THEN <<>>
  ELSE LET c     == Head(s)
           nl    == FirstFrom(s, 1, LAMBDA j : s[j] = "nl")
           close == FirstFrom(s, 2, LAMBDA j : s[j] = "*/")
       IN  CASE quote # "" /\ c # quote -> <<c>> \o strip_sql_comments(Tail(s), quote)
             [] quote # "" /\ c = quote ->
                  IF Len(s) > 1 /\ s[2] = quote
                  THEN <<c, c>> \o strip_sql_comments(From(s, 3), quote)
                  ELSE <<c>> \o strip_sql_comments(Tail(s), "")
             [] quote = "" /\ c = "--" ->
                  IF nl = 0 THEN <<>> ELSE strip_sql_comments(From(s, nl), "")
             [] quote = "" /\ c = "/*" ->
                  <<Blank>> \o (IF close = 0 THEN <<>>
                                ELSE strip_sql_comments(From(s, close + 1), ""))
             [] OTHER -> <<c>> \o strip_sql_comments(Tail(s), IF c \in Quotes2 THEN c ELSE "")

first_sql_token(s) ==
  LET i == FirstFrom(s, 1, LAMBDA j : s[j] \notin {Blank, "nl", "("})
  IN  IF i = 0 THEN "" ELSE IF IsIdent(s[i]) THEN s[i] ELSE ""

contains_dml_after_with(s) ==
  \E i \in 1..(Len(s) - 2) :
    /\ s[i] \in {Blank, "nl"}
    /\ s[i+1] \in {"INSERT", "UPDATE", "DELETE"}
    /\ s[i+2] = Blank

TextReads  == {"SELECT", "TABLE", "VALUES", "SHOW", "EXPLAIN"}
TextWrites == {"INSERT", "UPDATE", "DELETE", "BEGIN", "START", "COMMIT", "END", "ROLLBACK",
               "ABORT", "SET", "COPY", "CREATE", "ALTER", "DROP", "TRUNCATE", "VACUUM",
               "ANALYZE", "REINDEX", "CLUSTER", "CALL", "DO", "LISTEN", "NOTIFY", "UNLISTEN",
               "LOCK", "GRANT", "REVOKE", "COMMENT", "SECURITY", "PREPARE", "EXECUTE",
               "DEALLOCATE", "DECLARE", "FETCH", "MOVE", "CLOSE", "DISCARD"}

structured_is_read_only(s) ==
  LET t == strip_sql_comments(s, "")
      w == first_sql_token(t)
  IN  CASE w \in TextReads  -> ~has_row_lock_clause(t)
        [] w = "WITH"       -> ~has_row_lock_clause(t) /\ ~contains_dml_after_with(t)
        [] w \in TextWrites -> FALSE
        [] OTHER -> heuristic_is_read_only("postgresql", s)

-----------------------------------------------------------------------------
(* The trees.                                                               *)
AstReads == {"select", "values", "show", "explain"}

RECURSIVE query_kind(_)
RECURSIVE set_expr_kind(_)

set_expr_kind(e) ==
  CASE e.op = "query" -> query_kind(e.query)
    [] e.op = "setop" -> IF {set_expr_kind(e.left), set_expr_kind(e.right)} \subseteq AstReads
                         THEN "select" ELSE "other"
    [] e.op = "table" -> "select"
    [] OTHER -> e.op

query_kind(q) == IF q.locks THEN "other" ELSE set_expr_kind(q.body)

statement_kind(t) == IF t.kind = "query" THEN query_kind(t) ELSE t.kind

(* MySQL: a select is formatted again and searched for its lock words.      *)
stmt_kind(t) == IF t.kind # "query" THEN t.kind ELSE IF t.locks THEN "other" ELSE "select"

(* x is the statement: its dialect, its tree, its text and whether the      *)
(* parser of the dialect takes it.                                          *)
is_read_only(x) ==
  CASE x.dialect = "mysql" /\ x.parses  -> stmt_kind(x.tree) \in {"select", "show"}
    [] x.dialect = "mysql" /\ ~x.parses -> heuristic_is_read_only("mysql", x.text)
    [] x.dialect = "postgresql" /\ x.parses  -> statement_kind(x.tree) \in AstReads
    [] x.dialect = "postgresql" /\ ~x.parses -> structured_is_read_only(x.text)

-----------------------------------------------------------------------------
(***************************************************************************)
(* The hop between the protocols against a reference: a statement is a      *)
(* sequence of pieces, each known to be a placeholder, a literal, a         *)
(* comment, an identifier or a call, written out as text in one dialect and *)
(* compared, after the rewrite, with the same pieces in the other dialect.  *)
(***************************************************************************)

CONSTANT MaxHopPieces   \* pieces of a statement that crosses

(* The pieces of each dialect, as the frontend writes them.                 *)
PgPieces ==
  [p1     |-> <<"$", "1">>,
   p2     |-> <<"$", "2">>,
   word   |-> <<"a">>,
   wide   |-> <<"'", "wide0", "'">>,
   lit    |-> <<"'", "$", "1", "'", "'", "'">>,
   escape |-> <<"E", "'", "bs", "'", "$", "1", "'">>,
   ident  |-> <<"dq", "a", "bq", "dq", "dq", "dq">>,
   dollar |-> <<"$", "t", "$", "$", "1", "$", "$", "t", "$">>,
   line   |-> <<"--", "$", "1", "nl">>,
   block  |-> <<"/*", "/*", "$", "1", "*/", "$", "2", "*/">>]

MyPieces ==
  [q      |-> <<"?">>,
   word   |-> <<"a">>,
   wide   |-> <<"bq", "wide0", "bq">>,
   lit    |-> <<"'", "?", "'", "'", "'">>,
   escape |-> <<"'", "bs", "'", "?", "'">>,
   litfn  |-> <<"'", "IFNULL", "(", "?", "'">>,
   ident  |-> <<"bq", "a", "dq", "bq", "bq", "?", "bq">>,
   line   |-> <<"#", "?", "nl">>,
   block  |-> <<"/*", "?", "*/">>,
   ifnull |-> <<"IFNULL", Blank, "(", "?", ",", "IFNULL", ")">>,
   limit  |-> <<"LIMIT", Blank, "1", ",", Blank, "2", "0">>]

Pieces(frontend) == IF frontend = "mysql" THEN MyPieces ELSE PgPieces

HopText(frontend, ps) ==
  FlattenSeq([k \in 1..Len(ps) |-> <<Blank>> \o Pieces(frontend)[ps[k]]])

(* What each piece refers to, in order.                                     *)
Refs(frontend, ps) ==
  IF frontend = "mysql"
  THEN [k \in 1..Len(SelectSeq(ps, LAMBDA p : p \in {"q", "ifnull"})) |-> k]
  ELSE LET used == SelectSeq(ps, LAMBDA p : p \in {"p1", "p2"})
       IN  [k \in 1..Len(used) |-> IF used[k] = "p1" THEN 1 ELSE 2]

(* A piece after its placeholder is rewritten, the n-th of the text, and    *)
(* the same piece in the other dialect.                                     *)
Renumbered(p, n) ==
  CASE p \in {"p1", "p2"} -> <<"?">>
    [] p = "q" -> <<"$">> \o Written(n)
    [] p = "ifnull" -> <<"IFNULL", Blank, "(", "$">> \o Written(n) \o <<",", "IFNULL", ")">>

Other(frontend, p, n) ==
  CASE p = "ident" /\ frontend = "mysql" -> <<"dq", "a", "dq", "dq", "bq", "?", "dq">>
    [] p = "ident" -> <<"bq", "a", "bq", "bq", "dq", "bq">>
    [] p = "ifnull" -> <<"COALESCE", Blank, "(", "$">> \o Written(n) \o <<",", "IFNULL", ")">>
    [] p = "limit" -> <<"LIMIT", Blank, "2", "0", Blank, "OFFSET", Blank, "1">>
    [] p = "wide" /\ frontend = "mysql" -> <<"dq", "wide2", "wide2", "wide2", "wide2", "dq">>
    [] p = "wide" -> <<"'", "wide1", "wide1", "'">>
    [] p \in {"p1", "p2", "q"} -> Renumbered(p, n)
    [] OTHER -> Pieces(frontend)[p]

Holding(ps, k) == Len(SelectSeq(SubSeq(ps, 1, k), LAMBDA p : p \in {"q", "ifnull"}))

ReferenceText(frontend, ps) ==
  FlattenSeq([k \in 1..Len(ps) |-> <<Blank>> \o Other(frontend, ps[k], Holding(ps, k))])

(* The pieces the identifier and call passes do not see for what they are.  *)
Misread == {"escape", "litfn"}

HopTexts ==
  {[frontend |-> "mysql", pieces |-> ps, given |-> n] :
      ps \in {q \in SeqOf(DOMAIN MyPieces, MaxHopPieces) :
                \A k \in 1..Len(q) : q[k] = "limit" => k = Len(q)},
      n \in 0..MaxHopPieces}
  \cup {[frontend |-> "postgresql", pieces |-> ps, given |-> n] :
      ps \in SeqOf(DOMAIN PgPieces, MaxHopPieces), n \in 0..2}

Gap(refs) == \E k \in 1..Highest(refs) : k \notin ToSet(refs)
ValuesGiven(n) == [k \in 1..n |-> <<"value", k>>]

(* The placeholder pass finds every placeholder of a statement and nothing  *)
(* else: literals, with a backslash or a doubled quote in them, quoted      *)
(* identifiers, comments and dollar quotes keep every token, and the        *)
(* references come in the order of the text                                 *)
(* (rewrite_placeholder_tokens).                                            *)
PlaceholdersFound ==
  Looking("hop") =>
    LET x    == input[1]
        refs == Refs(x.frontend, x.pieces)
        kind == IF x.frontend = "mysql" THEN "question" ELSE "numbered"
        said == FlattenSeq([k \in 1..Len(x.pieces) |->
                  LET p == x.pieces[k] IN
                  <<Blank>> \o IF p \in {"p1", "p2", "q", "ifnull"}
                               THEN Renumbered(p, Holding(x.pieces, k))
                               ELSE Pieces(x.frontend)[p]])
    IN  Placeholders(HopText(x.frontend, x.pieces), kind) = <<[text |-> said, refs |-> refs]>>

(* A statement with parameters reaches the other side saying the same: its  *)
(* identifiers, calls and paging in the other dialect, and at the n-th      *)
(* placeholder the value the frontend meant there; it is refused exactly    *)
(* when a number is skipped or the values are not as many as the text needs *)
(* (rewrite_sql_and_parameters_for_backend).  A character outside ASCII is  *)
(* all that does not keep its meaning: it arrives as the characters of its  *)
(* bytes, from MySQL taken apart twice.  Literals with an escaped quote or  *)
(* with a call spelt out in them are left to PlaceholdersFound.             *)
HopExact ==
  Looking("hop") =>
    LET x    == input[1]
        refs == Refs(x.frontend, x.pieces)
        out  == rewrite_sql_and_parameters_for_backend(HopText(x.frontend, x.pieces),
                                                       ValuesGiven(x.given), x.frontend)
    IN  ToSet(x.pieces) \cap Misread = {} =>
          out = IF Gap(refs) \/ Highest(refs) # x.given THEN Failed
                ELSE <<[text   |-> ReferenceText(x.frontend, x.pieces),
                        params |-> [k \in 1..Len(refs) |-> ValuesGiven(x.given)[refs[k]]]]>>

-----------------------------------------------------------------------------
Policies == [enabled : BOOLEAN, frontend : {"mysql", "postgresql"},
             backend : {"mysql", "postgresql"},
             allowed : {{}, {"select"}, {"select", "insert", "update"}}]

Leading == {"SELECT", "WITH", "INSERT", "DELETE", "OTHER", ""}

Commands ==
  [kind : {"prepare", "describe", "query", "query_params"}, params : {<<>>},
   sql : {<<Blank, "t">>, <<"DROP", Blank, "t">>, <<"t", "RETURNING", Blank, "a">>,
          <<"t", "ON", Blank, "DUPLICATE", Blank, "KEY">>, <<"a", "::", "t">>, <<"'">>}]
  \cup [kind : {"execute", "close", "use", "begin", "quit"}, params : {<<>>}, sql : {<<>>}]

(* A command with a statement reaches a backend of the other protocol only  *)
(* under an enabled policy of that very direction, with a statement of a    *)
(* kind the policy allows, all four when it names none, and without a       *)
(* construct of one dialect only; a prepared statement is not run or closed *)
(* across a hop whose policy has been disabled (prepare_cross_protocol_     *)
(* command).                                                                *)
CrossesAllowed ==
  Looking("crossing") =>
    LET x    == input[1]
        out  == prepare_cross_protocol_command(x.policy, x.cmd, x.word, x.dialect)
        kind == from_keyword(x.word)
    IN  out # Failed /\ x.cmd.kind \notin {"use", "begin", "quit"} =>
          /\ x.policy.enabled
          /\ {x.policy.frontend, x.policy.backend} = {"mysql", "postgresql"}
          /\ x.dialect = x.policy.frontend
          /\ x.cmd.kind \notin {"execute", "close"} =>
               /\ kind # "none"
               /\ x.policy.allowed # {} => kind \in x.policy.allowed
               /\ \A w \in ToSet(x.cmd.sql) : w \notin {"DROP", "RETURNING", "DUPLICATE", "::"}

-----------------------------------------------------------------------------
(* The types each protocol names, and the values each one stands for.       *)
NamedTypes ==
  [mysql |-> [tiny |-> "Int8", short |-> "Int16", year |-> "Int16", long |-> "Int32",
              longlong |-> "Int64", float |-> "Float32", double |-> "Float64",
              new_decimal |-> "Decimal", var_string |-> "String", blob |-> "Bytes",
              date |-> "Date", time |-> "Time", datetime |-> "Timestamp",
              timestamp |-> "Timestamp", json |-> "Json", geometry |-> "Unknown"],
   postgresql |-> [bool |-> "Bool", int2 |-> "Int16", int4 |-> "Int32", int8 |-> "Int64",
              float4 |-> "Float32", float8 |-> "Float64", numeric |-> "Decimal",
              text |-> "String", varchar |-> "String", bytea |-> "Bytes", date |-> "Date",
              time |-> "Time", timestamp |-> "Timestamp", timestamptz |-> "Timestamp",
              jsonb |-> "Json", uuid |-> "Unknown"]]

(* The types of each family, from the narrowest to the one that holds all.  *)
Family == [integer |-> <<"Bool", "Int8", "Int16", "Int32", "Int64", "UInt64", "Decimal">>,
           real    |-> <<"Float32", "Float64">>,
           text    |-> <<"Unknown", "Json", "String">>]

Fits(t, u) ==
  t = u \/ \E f \in DOMAIN Family : \E i, j \in 1..Len(Family[f]) :
             i <= j /\ Family[f][i] = t /\ Family[f][j] = u

(* A column keeps room for its values across the hop: the type the frontend *)
(* is told stands for every value of the type the backend reported, the     *)
(* zone of a timestamp aside (map_column_type).                             *)
TypesFit ==
  Looking("types") =>
    LET x    == input[1]
        told == map_column_type(x.name, x.backend, x.frontend)
    IN  /\ told \in DOMAIN NamedTypes[x.frontend]
        /\ Fits(NamedTypes[x.backend][x.name], NamedTypes[x.frontend][told])

TranslationInputs ==
  [hop |-> HopTexts,
   crossing |-> [policy : Policies, cmd : Commands, word : Leading,
                 dialect : {"mysql", "postgresql"}],
   types |-> UNION {[name : DOMAIN NamedTypes[b], backend : {b}, frontend : DOMAIN NamedTypes \ {b}] :
                      b \in DOMAIN NamedTypes}]

-----------------------------------------------------------------------------
(***************************************************************************)
(* Read-only routing against what a statement does.                         *)
(***************************************************************************)

Leaf0 == {[op |-> o] : o \in {"select", "values", "table"}}
Query0(bodies) == [kind : {"query"}, ctes : {<<>>}, locks : BOOLEAN, body : bodies]
Body1 == Leaf0 \cup [op : {"query"}, query : Query0(Leaf0)]
Body2 == Body1 \cup [op : {"setop"}, left : Body1, right : Body1]
               \cup {[op |-> "update"]}

Trees == [kind : {"query"}, ctes : {<<>>, <<"select">>, <<"insert">>}, locks : BOOLEAN, body : Body2]
           \cup {[kind |-> k] : k \in {"insert", "update", "delete", "begin", "set", "show",
                                       "explain", "create", "copy", "other"}}

(* What a statement does, whatever the gateway makes of it; a modifying     *)
(* common table expression apart.                                           *)
RECURSIVE BodyWrites(_)
BodyWrites(e) ==
  CASE e.op = "query" -> e.query.locks \/ BodyWrites(e.query.body)
    [] e.op = "setop" -> BodyWrites(e.left) \/ BodyWrites(e.right)
    [] OTHER -> e.op = "update"

StatementWrites(t) == IF t.kind = "query" THEN t.locks \/ BodyWrites(t.body)
             ELSE t.kind \notin {"show", "explain"}

ModifyingCte(t) == t.kind = "query" /\ "insert" \in ToSet(t.ctes)

(* The text of a tree; lead is what stands in front of it.                  *)
RECURSIVE BodyText(_)
BodyText(e) ==
  CASE e.op = "query" -> <<"(">> \o BodyText(e.query.body)
                           \o (IF e.query.locks THEN <<Blank, "FOR", Blank, "SHARE">> ELSE <<>>)
                           \o <<")">>
    [] e.op = "setop" -> BodyText(e.left) \o <<Blank, "UNION", Blank>> \o BodyText(e.right)
    [] e.op = "select" -> <<"SELECT", Blank, "'", "--", "'">>
    [] e.op = "values" -> <<"VALUES", Blank, "(", "1", ")">>
    [] e.op = "table"  -> <<"TABLE", Blank, "t">>
    [] e.op = "update" -> <<"UPDATE", Blank, "t">>

Leads == {<<>>, <<"/*", Blank, "SELECT", "*/">>, <<Blank, "--", "'", "nl">>}

CteText(t) ==
  IF t.ctes = <<>> THEN <<>>
  ELSE <<"WITH", Blank, "c", Blank, "AS", Blank, "(", Blank>>
         \o (IF t.ctes[1] = "insert" THEN <<"INSERT", Blank, "INTO">> ELSE <<"SELECT">>)
         \o <<Blank, "t", ")", Blank>>

TreeText(t, lead) ==
  lead \o IF t.kind = "query"
          THEN CteText(t) \o BodyText(t.body)
                 \o (IF t.locks THEN <<Blank, "FOR", Blank, "UPDATE">> ELSE <<>>)
          ELSE <<CASE t.kind = "insert" -> "INSERT" [] t.kind = "update" -> "UPDATE"
                   [] t.kind = "delete" -> "DELETE" [] t.kind = "begin" -> "BEGIN"
                   [] t.kind = "set" -> "SET"       [] t.kind = "show" -> "SHOW"
                   [] t.kind = "explain" -> "EXPLAIN" [] t.kind = "create" -> "CREATE"
                   [] t.kind = "copy" -> "COPY"     [] OTHER -> "REFRESH", Blank, "t">>

(* The statements a dialect has: a MySQL query is one select.               *)
Statements0 ==
  {[dialect |-> "postgresql", tree |-> t, lead |-> l, parses |-> p] :
      t \in Trees, l \in Leads, p \in BOOLEAN}
  \cup {[dialect |-> "mysql", tree |-> t, lead |-> l, parses |-> p] :
      t \in {u \in Trees : u.kind = "query" => u.ctes = <<>> /\ u.body.op = "select"} \
              {[kind |-> "explain"], [kind |-> "copy"]},
      l \in {<<>>, <<"/*", Blank, "SELECT", "*/">>}, p \in BOOLEAN}

Asked(x) == is_read_only([dialect |-> x.dialect, tree |-> x.tree, parses |-> x.parses,
                          text |-> TreeText(x.tree, x.lead)])

(* A statement sent to a replica neither writes nor locks rows, however     *)
(* deep in a set operation or in parentheses the lock stands, and behind    *)
(* whatever comment or literal; a statement that is not parsed may only err *)
(* to the other side.  A modifying common table expression is seen only in  *)
(* the text (is_read_only of the dialect parsers).                          *)
ReplicaReadsOnly ==
  Looking("replica") =>
    LET x == input[1]
    IN  /\ Asked(x) => ~StatementWrites(x.tree)
        /\ ~x.parses /\ Asked(x) => ~ModifyingCte(x.tree)

(* A parsed statement that only reads is not kept from the replicas: values,*)
(* tables, nested queries and set operations are reads (query_kind).        *)
ReadsSpread ==
  Looking("replica") => LET x == input[1] IN x.parses /\ ~StatementWrites(x.tree) => Asked(x)

DialectInputs == [replica |-> Statements0]

=============================================================================
