----------------------------- MODULE MySqlWire ------------------------------
(***************************************************************************)
(* The binary values of the MySQL protocol as the gateway reads and writes  *)
(* them: the parameters of COM_STMT_EXECUTE from the client                 *)
(* (frontend/mysql.rs) and to the backend (backend/mysql.rs), and the rows  *)
(* of a result the other way.                                               *)
(*                                                                          *)
(* A packet is a sequence of bytes.  A value is a kind and a sequence of    *)
(* numbers: the eight bytes of an integer or of a float, the bytes of a     *)
(* text, and for a text that reads as a date, a date and time, or a time    *)
(* its fields, the wording of such a text being left out.  A float is       *)
(* widened to eight bytes and narrowed back without loss.                   *)
(***************************************************************************)
EXTENDS Integers, Sequences, SequencesExt, Topic

Val(k, v) == [k |-> k, v |-> v]
NullValue == Val("Null", <<>>)

Onward(s, i) == SubSeq(s, i, Len(s))
Take(s, n) == SubSeq(s, 1, n)
Ceil8(n) == (n + 7) \div 8
Bit(byte, i) == (byte \div 2^i) % 2 = 1

Le(n, w) == [i \in 1..w |-> IF i > 4 THEN 0 ELSE (n \div 256^(i - 1)) % 256]

(* A number of the wire; those of more than three bytes are all too large.  *)
Huge == 2^30
FromLe(s) ==
  IF \E i \in DOMAIN s : i > 3 /\ s[i] # 0 THEN Huge
  ELSE FoldFunction(LAMBDA a, b : a + b, 0,
                    [i \in {j \in DOMAIN s : j <= 3} |-> s[i] * 256^(i - 1)])

(* An integer of w bytes as one of eight, with and without its sign.        *)
SignExtend(s) == s \o [i \in 1..8 - Len(s) |-> IF s[Len(s)] > 127 THEN 255 ELSE 0]
ZeroExtend(s) == s \o [i \in 1..8 - Len(s) |-> 0]
WidenFloat(s) == [i \in 1..8 - Len(s) |-> 0] \o s
NarrowFloat(s) == Onward(s, 5)

Nothing == [ok |-> FALSE, value |-> NullValue, used |-> 0]
Got(value, used) == [ok |-> TRUE, value |-> value, used |-> used]

(***************************************************************************)
(* Lengths.                                                                 *)
(***************************************************************************)

put_lenc_int(n) ==
  CASE n <= 250 -> <<n>>
    [] n > 250 /\ n <= 65535 -> <<252>> \o Le(n, 2)
    [] n > 65535 /\ n <= 16777215 -> <<253>> \o Le(n, 3)
    [] OTHER -> <<254>> \o Le(n, 8)

encode_lenc_bytes(s) == put_lenc_int(Len(s)) \o s

(* The length a packet starts with: whether there is one, its value, the    *)
(* bytes it takes, and whether it stands for NULL.                          *)
decode_lenc_int(s) ==
  LET NoLength == [ok |-> FALSE, null |-> FALSE, len |-> 0, used |-> 0]
      Wide(w) == IF Len(s) < 1 + w THEN NoLength
                 ELSE [ok |-> TRUE, null |-> FALSE, len |-> FromLe(SubSeq(s, 2, 1 + w)), used |-> 1 + w]
  IN IF s = <<>> THEN NoLength
     ELSE IF s[1] = 251 THEN [ok |-> TRUE, null |-> TRUE, len |-> 0, used |-> 1]
     ELSE IF s[1] \in 252..254 THEN Wide(CASE s[1] = 252 -> 2 [] s[1] = 253 -> 3 [] OTHER -> 8)
     ELSE [ok |-> TRUE, null |-> FALSE, len |-> s[1], used |-> 1]

(* Bytes that are text as they are, and text made of bytes that are not.    *)
Utf8(s) == \A i \in DOMAIN s : s[i] < 128
Lossy(s) ==
  IF Utf8(s) THEN s
  ELSE FlattenSeq([i \in DOMAIN s |-> IF s[i] < 128 THEN <<s[i]>> ELSE <<239, 191, 189>>])

(* The bytes a packet starts with, as a blob, as text if they are text, or  *)
(* as text anyway; the mark of NULL reads as no bytes.                      *)
read_lenc_bytes(s, as) ==
  LET Read(b) == IF as = "blob" \/ (as = "strict" /\ ~Utf8(b)) THEN Val("Bytes", b)
                 ELSE Val(IF as = "decimal" THEN "Decimal" ELSE "Text", Lossy(b))
      Behind(l) == IF ~l.ok \/ Len(s) < l.used + l.len THEN Nothing
                   ELSE Got(Read(SubSeq(s, l.used + 1, l.used + l.len)), l.used + l.len)
  IN Behind(decode_lenc_int(s))

(***************************************************************************)
(* Types.                                                                   *)
(***************************************************************************)

WireType ==
  [b \in {0, 1, 2, 3, 4, 5, 6, 7, 8, 9, 10, 11, 12, 13, 14, 15, 16} \cup 246..255 |->
     CASE b = 0 -> "DECIMAL" [] b = 1 -> "TINY" [] b = 2 -> "SHORT" [] b = 3 -> "LONG"
       [] b = 4 -> "FLOAT" [] b = 5 -> "DOUBLE" [] b = 6 -> "NULL" [] b = 7 -> "TIMESTAMP"
       [] b = 8 -> "LONGLONG" [] b = 9 -> "INT24" [] b = 10 -> "DATE" [] b = 11 -> "TIME"
       [] b = 12 -> "DATETIME" [] b = 13 -> "YEAR" [] b = 14 -> "NEWDATE" [] b = 15 -> "VARCHAR"
       [] b = 16 -> "BIT" [] b = 246 -> "NEWDECIMAL" [] b = 247 -> "ENUM" [] b = 248 -> "SET"
       [] b = 249 -> "TINY_BLOB" [] b = 250 -> "MEDIUM_BLOB" [] b = 251 -> "LONG_BLOB"
       [] b = 252 -> "BLOB" [] b = 253 -> "VAR_STRING" [] b = 254 -> "STRING"
       [] b = 255 -> "GEOMETRY"]

WireByte(type) == CHOOSE b \in DOMAIN WireType : WireType[b] = type

Width(type) ==
  CASE type = "TINY" -> 1 [] type \in {"SHORT", "YEAR"} -> 2
    [] type \in {"LONG", "INT24", "FLOAT"} -> 4 [] type \in {"LONGLONG", "DOUBLE"} -> 8
    [] OTHER -> 0

WholeNumbers == {"TINY", "SHORT", "YEAR", "LONG", "INT24", "LONGLONG"}
Floats == {"FLOAT", "DOUBLE"}
Dates == {"DATE", "NEWDATE"}
DateTimes == {"DATETIME", "TIMESTAMP"}
Blobs == {"BLOB", "TINY_BLOB", "MEDIUM_BLOB", "LONG_BLOB"}
Strings == {"STRING", "VAR_STRING", "VARCHAR"}

(***************************************************************************)
(* Dates and times.  A date and time is <<y, m, d, h, mi, s, us>>, a time   *)
(* <<neg, days, h, m, s, us>>.                                              *)
(***************************************************************************)

decode_date(p) ==
  IF p = <<>> THEN <<0, 0, 0>>
  ELSE IF Len(p) < 4 THEN <<>> ELSE <<FromLe(Take(p, 2)), p[3], p[4]>>

decode_datetime(p) ==
  CASE p = <<>> -> <<0, 0, 0, 0, 0, 0, 0>>
    [] Len(p) = 4 \/ Len(p) = 7 \/ Len(p) >= 11 ->
         decode_date(p) \o (IF Len(p) = 4 THEN <<0, 0, 0>> ELSE SubSeq(p, 5, 7))
                        \o <<IF Len(p) < 11 THEN 0 ELSE FromLe(SubSeq(p, 8, 11))>>
    [] OTHER -> <<>>

decode_time(p) ==
  CASE p = <<>> -> <<0, 0, 0, 0, 0, 0>>
    [] Len(p) = 8 \/ Len(p) >= 12 ->
         <<IF p[1] # 0 THEN 1 ELSE 0, FromLe(SubSeq(p, 2, 5))>> \o SubSeq(p, 6, 8)
           \o <<IF Len(p) < 12 THEN 0 ELSE FromLe(SubSeq(p, 9, 12))>>
    [] OTHER -> <<>>

(* A temporal value of the wire: its length, then its fields.               *)
decode_temporal(s, type) ==
  IF s = <<>> \/ Len(s) < 1 + s[1] THEN Nothing
  ELSE LET p == SubSeq(s, 2, 1 + s[1])
           Read(k, t) == IF t = <<>> THEN Nothing ELSE Got(Val(k, t), 1 + s[1])
       IN CASE type \in Dates -> Read("Date", decode_date(p)) [] type = "TIME" -> Read("Time", decode_time(p))
            [] OTHER -> Read("DateTime", decode_datetime(p))

encode_date(t) == <<4>> \o Le(t[1], 2) \o <<t[2], t[3]>>

encode_datetime(t) ==
  IF t[7] = 0 THEN <<7>> \o Le(t[1], 2) \o SubSeq(t, 2, 6)
  ELSE <<11>> \o Le(t[1], 2) \o SubSeq(t, 2, 6) \o Le(t[7], 4)

encode_time(t) ==
  IF t[6] = 0 THEN <<8, t[1]>> \o Le(t[2], 4) \o SubSeq(t, 3, 5)
  ELSE <<12, t[1]>> \o Le(t[2], 4) \o SubSeq(t, 3, 5) \o Le(t[6], 4)

(***************************************************************************)
(* Parameters from the client.                                              *)
(***************************************************************************)

decode_binary_param_value(s, type) ==
  CASE type \in WholeNumbers \cup Floats ->
         IF Len(s) < Width(type) THEN Nothing
         ELSE Got(IF type \in Floats THEN Val("Float", WidenFloat(Take(s, Width(type))))
                  ELSE Val("Int", SignExtend(Take(s, Width(type)))), Width(type))
    [] type = "NULL" -> Got(NullValue, 0)
    [] type \in Dates \cup DateTimes \cup {"TIME"} -> decode_temporal(s, type)
    [] OTHER -> read_lenc_bytes(s, IF type \in Blobs THEN "blob" ELSE IF type \in Strings THEN "strict" ELSE "lossy")

(* Parameter by parameter: the values so far and the bytes left, or nothing.*)
RECURSIVE ReadParams(_, _, _, _)
ReadParams(nulls, types, i, s) ==
  IF i > Len(types) THEN (IF s = <<>> THEN <<<<>>>> ELSE <<>>)
  ELSE LET Before(value, rest) == IF rest = <<>> THEN <<>> ELSE <<<<value>> \o rest[1]>>
           Read(one) == IF one.ok THEN Before(one.value, ReadParams(nulls, types, i + 1, Onward(s, one.used + 1))) ELSE <<>>
       IN Read(IF Bit(nulls[(i - 1) \div 8 + 1], (i - 1) % 8) THEN Got(NullValue, 0)
               ELSE IF types[i] \notin DOMAIN WireType THEN Nothing
               ELSE decode_binary_param_value(s, WireType[types[i]]))

(* The parameters the rest of the packet holds if there are n of them.      *)
try_decode_params_with_count(s, n) ==
  IF n = 0 THEN (IF s = <<>> \/ s = <<0>> THEN <<<<>>>> ELSE <<>>)
  ELSE LET null_len == Ceil8(n)
       IN IF Len(s) < null_len + 1 + 2 * n \/ s[null_len + 1] # 1 THEN <<>>
          ELSE ReadParams(Take(s, null_len), [i \in 1..n |-> s[null_len + 2 * i]], 1,
                          Onward(s, null_len + 2 + 2 * n))

(* The packet does not say how many: the first count that fits is taken.    *)
decode_stmt_execute_params(s) ==
  LET First(tried) == IF tried = <<>> THEN <<>> ELSE tried[1]
  IN IF s = <<>> THEN <<<<>>>>
     ELSE First(SelectSeq([n \in 1..65 |-> try_decode_params_with_count(s, n - 1)], LAMBDA p : p # <<>>))

(***************************************************************************)
(* Parameters to the backend.                                               *)
(***************************************************************************)

(* What a text looks like: a date of the calendar, a time of day with its   *)
(* date, a time within the limit; any other text is bound as text.          *)
classify_mysql_temporal_string(value) ==
  LET t == value.v
  IN CASE value.k = "Date" -> IF t[2] \in 1..12 /\ t[3] \in 1..31 THEN "DATE" ELSE "VAR_STRING"
       [] value.k = "DateTime" -> IF t[2] \in 1..12 /\ t[3] \in 1..31 /\ t[4] <= 23 /\ t[5] <= 59 /\ t[6] <= 59
                                  THEN "DATETIME" ELSE "VAR_STRING"
       [] value.k = "Time" -> IF t[3] <= 838 /\ t[4] <= 59 /\ t[5] <= 59 THEN "TIME" ELSE "VAR_STRING"
       [] OTHER -> "VAR_STRING"

gateway_value_mysql_param_type(value) ==
  CASE value.k = "Null" -> "NULL" [] value.k = "Bool" -> "TINY"
    [] value.k \in {"Int", "UInt"} -> "LONGLONG" [] value.k = "Float" -> "DOUBLE"
    [] value.k = "Decimal" -> "NEWDECIMAL" [] value.k = "Bytes" -> "BLOB"
    [] OTHER -> classify_mysql_temporal_string(value)

(* Hours over a day become days.                                            *)
parse_mysql_param_time(t) == <<t[1], t[2] + t[3] \div 24, t[3] % 24, t[4], t[5], t[6]>>

(* A text on the wire.  The wording of a temporal text is some text that    *)
(* tells its fields.                                                        *)
Spelt(value) ==
  IF value.k \in {"Date", "DateTime", "Time"}
  THEN FlattenSeq([i \in DOMAIN value.v |->
         <<value.v[i] % 100, (value.v[i] \div 100) % 100, value.v[i] \div 10000>>])
  ELSE value.v

encode_binary_param_value(value) ==
  LET type == gateway_value_mysql_param_type(value)
  IN CASE type = "DATE" -> encode_date(value.v)
       [] type = "DATETIME" -> encode_datetime(value.v)
       [] type = "TIME" -> encode_time(parse_mysql_param_time(value.v))
       [] type \in {"TINY", "LONGLONG", "DOUBLE"} -> value.v
       [] OTHER -> encode_lenc_bytes(Spelt(value))

(* The bits of the values that are NULL, the first one being bit "from".    *)
null_bitmap(values, from, bytes) ==
  [b \in 1..bytes |->
     FoldFunction(LAMBDA x, y : x + y, 0,
       [i \in {j \in DOMAIN values : values[j].k = "Null"} |->
          IF (i - 1 + from) \div 8 + 1 = b THEN 2^((i - 1 + from) % 8) ELSE 0])]

(* The packet after the statement, the flags and the count of iterations.   *)
encode_stmt_execute_payload(params) ==
  IF params = <<>> THEN <<>>
  ELSE null_bitmap(params, 0, Ceil8(Len(params))) \o <<1>>
       \o FlattenSeq([i \in DOMAIN params |->
            <<WireByte(gateway_value_mysql_param_type(params[i])), IF params[i].k = "UInt" THEN 128 ELSE 0>>])
       \o FlattenSeq([i \in DOMAIN params |->
            IF params[i].k = "Null" THEN <<>> ELSE encode_binary_param_value(params[i])])

(***************************************************************************)
(* Rows from the backend.                                                   *)
(***************************************************************************)

decode_binary_result_value(s, column) ==
  CASE column.type \in WholeNumbers ->
         LET w == Width(column.type)
         IN IF Len(s) < w THEN Nothing
            ELSE Got(IF column.unsigned THEN Val("UInt", ZeroExtend(Take(s, w)))
                     ELSE Val("Int", SignExtend(Take(s, w))), w)
    [] column.type \in Floats ->
         IF Len(s) < Width(column.type) THEN Nothing
         ELSE Got(Val("Float", WidenFloat(Take(s, Width(column.type)))), Width(column.type))
    [] column.type \in Dates \cup DateTimes \cup {"TIME"} -> decode_temporal(s, column.type)
    [] OTHER -> read_lenc_bytes(s, CASE column.type \in Blobs -> "blob"
                                     [] column.type \in {"DECIMAL", "NEWDECIMAL"} -> "decimal" [] OTHER -> "lossy")

RECURSIVE ReadRow(_, _, _, _, _)
(* Value by value, with the reader of the columns.  What is left over is    *)
(* not looked at.                                                           *)
ReadRow(nulls, columns, Read(_, _), i, s) ==
  IF i > Len(columns) THEN <<<<>>>>
  ELSE LET Before(value, rest) == IF rest = <<>> THEN <<>> ELSE <<<<value>> \o rest[1]>>
           Cells(one) == IF one.ok THEN Before(one.value, ReadRow(nulls, columns, Read, i + 1, Onward(s, one.used + 1))) ELSE <<>>
       IN Cells(IF Bit(nulls[(i + 1) \div 8 + 1], (i + 1) % 8) THEN Got(NullValue, 0) ELSE Read(s, columns[i]))

RowOf(row, columns, Read(_, _)) ==
  LET null_len == (Len(columns) + 9) \div 8
  IN IF row = <<>> \/ Len(row) < 1 + null_len \/ row[1] # 0 THEN <<>>
     ELSE ReadRow(SubSeq(row, 2, 1 + null_len), columns, Read, 1, Onward(row, 2 + null_len))

binary_row_to_gateway_values(row, columns) == RowOf(row, columns, decode_binary_result_value)

(* The wording of a number that was read and is printed again.              *)
AllDigits(b) == b # <<>> /\ \A i \in DOMAIN b : b[i] \in 48..57
Printed(b) == LET n == {i \in DOMAIN b : i = Len(b) \/ b[i] # 48}
             IN Onward(b, CHOOSE i \in n : \A j \in n : i <= j)

(* Text rows: every value with its length, NULL a mark of its own.          *)
mysql_text_value_to_gateway_value(column, b) ==
  CASE column.type \in Blobs -> Val("Bytes", b)
    [] column.type \in WholeNumbers -> IF AllDigits(b) THEN Val("Number", Printed(b)) ELSE Val("Text", Lossy(b))
    [] column.type \in {"DECIMAL", "NEWDECIMAL"} -> Val("Decimal", Lossy(b))
    [] OTHER -> Val("Text", Lossy(b))

RECURSIVE text_row_to_gateway_values(_, _)
text_row_to_gateway_values(s, columns) ==
  IF columns = <<>> THEN (IF s = <<>> THEN <<<<>>>> ELSE <<>>)
  ELSE LET Before(value, rest) == IF rest = <<>> THEN <<>> ELSE <<<<value>> \o rest[1]>>
           Value(l) == IF l.null THEN NullValue
                       ELSE mysql_text_value_to_gateway_value(columns[1], SubSeq(s, l.used + 1, l.used + l.len))
           Cells(l) == IF ~l.ok \/ l.used + l.len > Len(s) THEN <<>>
                       ELSE Before(Value(l), text_row_to_gateway_values(Onward(s, l.used + l.len + 1), Tail(columns)))
       IN Cells(decode_lenc_int(s))

(***************************************************************************)
(* Rows to the client.  A column goes by the name of its type.              *)
(***************************************************************************)

TypeName(type) ==
  CASE type = "TINY" -> "tiny" [] type = "SHORT" -> "short" [] type = "LONG" -> "long"
    [] type = "LONGLONG" -> "longlong" [] type = "INT24" -> "int24" [] type = "YEAR" -> "year"
    [] type = "FLOAT" -> "float" [] type = "DOUBLE" -> "double" [] type = "DECIMAL" -> "decimal"
    [] type = "NEWDECIMAL" -> "new_decimal" [] type = "DATE" -> "date" [] type = "TIME" -> "time"
    [] type = "DATETIME" -> "datetime" [] type = "TIMESTAMP" -> "timestamp"
    [] type = "NEWDATE" -> "newdate" [] type \in {"BLOB", "TINY_BLOB"} -> "tiny_blob"
    [] type = "MEDIUM_BLOB" -> "medium_blob" [] type = "LONG_BLOB" -> "long_blob"
    [] type = "VARCHAR" -> "varchar" [] type = "STRING" -> "string" [] type = "VAR_STRING" -> "var"
    [] type = "BIT" -> "bit" [] type = "ENUM" -> "enum" [] type = "SET" -> "set"
    [] type = "NULL" -> "null" [] type = "GEOMETRY" -> "geometry"

mysql_column_type(name) ==
  CASE name \in {"tiny", "int1", "bool", "boolean"} -> "TINY"
    [] name \in {"short", "int2", "smallint"} -> "SHORT"
    [] name \in {"long", "int", "int4", "integer"} -> "LONG"
    [] name \in {"longlong", "int8", "bigint"} -> "LONGLONG"
    [] name \in {"float", "float4"} -> "FLOAT" [] name \in {"double", "float8"} -> "DOUBLE"
    [] name \in {"decimal", "numeric", "new_decimal"} -> "NEWDECIMAL"
    [] name = "date" -> "DATE" [] name = "time" -> "TIME" [] name = "datetime" -> "DATETIME"
    [] name \in {"timestamp", "timestamptz"} -> "TIMESTAMP"
    [] name \in {"blob", "bytea", "bytes", "binary", "varbinary"} -> "BLOB"
    [] OTHER -> "VAR_STRING"

(* The bytes of an integer, by the name of its column.                      *)
IntegerWidth(name) ==
  CASE name \in {"tiny", "int1", "bool", "boolean"} -> 1
    [] name \in {"short", "int2", "smallint", "year"} -> 2
    [] name \in {"longlong", "int8", "bigint"} -> 8
    [] OTHER -> 4

UnsignedWidth(name) ==
  IF name \in {"bool", "boolean", "year"} THEN 4 ELSE IntegerWidth(name)

(* The bytes of a value, or nothing where its text is not one of the type.  *)
encode_binary_value(value, name) ==
  CASE value.k = "Bool" -> <<Take(value.v, 1)>>
    [] value.k = "Int" -> <<Take(value.v, IntegerWidth(name))>>
    [] value.k = "UInt" -> <<Take(value.v, UnsignedWidth(name))>>
    [] value.k = "Float" -> <<IF name \in {"double", "float8"} THEN value.v ELSE NarrowFloat(value.v)>>
    [] value.k = "Bytes" -> <<encode_lenc_bytes(value.v)>>
    [] value.k \notin {"Bool", "Int", "UInt", "Float", "Bytes"} /\ name = "date" ->
         IF value.k = "Date" THEN <<encode_date(value.v)>> ELSE <<>>
    [] value.k \notin {"Bool", "Int", "UInt", "Float", "Bytes"} /\ name \in {"datetime", "timestamp", "timestamptz"} ->
         IF value.k = "DateTime" THEN <<encode_datetime(value.v)>> ELSE <<>>
    [] value.k \notin {"Bool", "Int", "UInt", "Float", "Bytes"} /\ name = "time" ->
         IF value.k = "Time" /\ value.v[3] <= 255 THEN <<encode_time(value.v)>> ELSE <<>>
    [] OTHER -> <<encode_lenc_bytes(Spelt(value))>>

(* A row, or nothing where one of its values cannot be written.             *)
encode_binary_row(values, names) ==
  LET Row(parts) == IF \E i \in DOMAIN parts : parts[i] = <<>> THEN <<>>
                    ELSE <<<<0>> \o null_bitmap(values, 2, (Len(names) + 9) \div 8)
                           \o FlattenSeq([i \in DOMAIN parts |-> parts[i][1]])>>
  IN IF Len(values) # Len(names) THEN <<>>
     ELSE Row([i \in DOMAIN values |->
                 IF values[i].k = "Null" THEN <<<<>>>> ELSE encode_binary_value(values[i], names[i])])

encode_text_row(values) ==
  FlattenSeq([i \in DOMAIN values |->
    IF values[i].k = "Null" THEN <<251>> ELSE encode_lenc_bytes(Spelt(values[i]))])

-----------------------------------------------------------------------------
(***************************************************************************)
(* What passes through the gateway in binary arrives as it was sent.        *)
(***************************************************************************)

(***************************************************************************)
(* The client's parameters: a type, and its bytes or NULL.                  *)
(***************************************************************************)
SentParam(type, bytes) == [type |-> type, null |-> FALSE, bytes |-> bytes]
SentNull(type) == [type |-> type, null |-> TRUE, bytes |-> <<>>]
Letters(n) == [i \in 1..n |-> 96 + i]

NumbersSent ==
  {SentParam("TINY", <<255>>), SentParam("SHORT", <<1, 0>>), SentParam("LONG", <<2, 0, 1, 128>>),
   SentParam("LONGLONG", <<1, 0, 0, 0, 1, 0, 0, 6>>), SentParam("DOUBLE", <<0, 1, 0, 0, 6, 0, 240, 63>>),
   SentParam("FLOAT", <<0, 0, 128, 63>>), SentNull("LONG"), SentNull("LONGLONG")}

OthersSent ==
  {SentParam("VAR_STRING", encode_lenc_bytes(Letters(n))) : n \in 0..6}
  \cup {SentParam("VAR_STRING", <<1, 200>>), SentParam("BLOB", <<2, 0, 255>>),
        SentParam("DATE", <<4, 232, 7, 1, 5>>), SentParam("DATETIME", <<7, 232, 7, 1, 5, 10, 0, 0>>),
        SentNull("NULL"), SentNull("VAR_STRING")}

UpTo(S, n) == UNION {[1..k -> S] : k \in 0..n}

(* The packet the client sends for its parameters.                          *)
ClientPacket(ps) ==
  IF ps = <<>> THEN <<>>
  ELSE <<FoldFunction(LAMBDA a, b : a + b, 0,
           [i \in {j \in DOMAIN ps : ps[j].null} |-> 2^(i - 1)])>> \o <<1>>
       \o FlattenSeq([i \in DOMAIN ps |-> <<WireByte(ps[i].type), 0>>])
       \o FlattenSeq([i \in DOMAIN ps |-> ps[i].bytes])

(* What they mean.                                                          *)
Meant(p) == IF p.null THEN NullValue ELSE decode_binary_param_value(p.bytes, p.type).value

(***************************************************************************)
(* The values the gateway binds.                                            *)
(***************************************************************************)
Bindable ==
  {NullValue, Val("Bool", <<1>>), Val("Int", <<255, 255, 255, 255, 255, 255, 255, 255>>),
   Val("UInt", <<0, 0, 0, 0, 0, 0, 0, 128>>), Val("Float", <<0, 1, 0, 0, 0, 0, 240, 63>>),
   Val("Decimal", <<49, 46, 48>>), Val("Bytes", <<0, 255>>), Val("Text", <<>>), Val("Text", Letters(3)),
   Val("Date", <<2024, 1, 5>>), Val("Date", <<0, 0, 0>>),
   Val("DateTime", <<2024, 1, 5, 10, 0, 0, 0>>), Val("DateTime", <<2024, 12, 31, 23, 59, 59, 999999>>),
   Val("DateTime", <<2024, 0, 5, 10, 0, 0, 0>>),
   Val("Time", <<0, 0, 838, 59, 59, 0>>), Val("Time", <<1, 1, 23, 0, 0, 1>>), Val("Time", <<0, 0, 839, 0, 0, 0>>)}

(* One value among nine, so that the bits of NULL take two bytes.           *)
AmongNine == {[i \in 1..9 |-> IF i = at THEN v ELSE w] :
                at \in {1, 8, 9}, v \in Bindable, w \in {NullValue, Val("Bool", <<1>>)}}

(* What the server makes of a value: a kind of its own for every type.      *)
ServerReads(value) ==
  CASE value.k = "Bool" -> Val("Int", SignExtend(value.v))
    [] value.k = "UInt" -> Val("Int", value.v)
    [] value.k = "Decimal" -> Val("Text", value.v)
    [] value.k \in {"Date", "DateTime", "Time"} ->
         IF classify_mysql_temporal_string(value) = "VAR_STRING" THEN Val("Text", Spelt(value)) ELSE value
    [] OTHER -> value

(* A time is its sign and its length.                                       *)
AsLength(value) ==
  IF value.k = "Time"
  THEN Val("Time", <<value.v[1], value.v[2] * 24 + value.v[3], value.v[4], value.v[5], value.v[6]>>)
  ELSE value

(***************************************************************************)
(* Rows: columns of a type with a value of it.                              *)
(***************************************************************************)
Cell(type, unsigned, bytes) == [type |-> type, unsigned |-> unsigned, null |-> FALSE, bytes |-> bytes]
CellNull(type) == [type |-> type, unsigned |-> FALSE, null |-> TRUE, bytes |-> <<>>]

BinaryCells ==
  {Cell("TINY", FALSE, <<200>>), Cell("SHORT", FALSE, <<0, 128>>), Cell("LONG", FALSE, <<1, 2, 3, 255>>),
   Cell("LONGLONG", FALSE, <<1, 2, 3, 4, 5, 6, 7, 128>>), Cell("LONGLONG", TRUE, <<1, 0, 0, 0, 0, 0, 0, 1>>),
   Cell("FLOAT", FALSE, <<0, 0, 128, 63>>), Cell("DOUBLE", FALSE, <<1, 0, 0, 0, 0, 0, 240, 63>>),
   Cell("NEWDECIMAL", FALSE, <<3, 49, 46, 48>>), Cell("DECIMAL", FALSE, <<1, 49>>),
   Cell("DATE", FALSE, <<4, 232, 7, 1, 5>>), Cell("DATE", FALSE, <<0>>),
   Cell("DATETIME", FALSE, <<0>>), Cell("DATETIME", FALSE, <<4, 232, 7, 1, 5>>),
   Cell("TIMESTAMP", FALSE, <<7, 232, 7, 1, 5, 10, 0, 1>>),
   Cell("DATETIME", FALSE, <<11, 232, 7, 1, 5, 10, 0, 1, 63, 66, 15, 0>>),
   Cell("TIME", FALSE, <<0>>), Cell("TIME", FALSE, <<8, 1, 34, 0, 0, 0, 22, 59, 59>>),
   Cell("TIME", FALSE, <<12, 0, 0, 0, 0, 0, 1, 2, 3, 1, 0, 0, 0>>),
   Cell("VAR_STRING", FALSE, <<0>>), Cell("VARCHAR", FALSE, <<2, 97, 98>>),
   Cell("STRING", FALSE, encode_lenc_bytes([i \in 1..251 |-> 97])), Cell("BLOB", FALSE, <<2, 0, 255>>),
   CellNull("LONG"), CellNull("VAR_STRING")}

(* Two columns of any kind, and the last of seven, whose bit is in a byte   *)
(* of its own.                                                              *)
Rows == {<<c>> : c \in BinaryCells} \cup {<<c, d>> : c \in BinaryCells, d \in BinaryCells}
        \cup {[i \in 1..7 |-> IF i = 7 THEN c ELSE d] : c \in BinaryCells, d \in {CellNull("LONG"), Cell("TINY", FALSE, <<7>>)}}

NullBits(row) ==
  [b \in 1..(Len(row) + 9) \div 8 |->
     FoldFunction(LAMBDA x, y : x + y, 0,
       [i \in {j \in DOMAIN row : row[j].null /\ (j + 1) \div 8 + 1 = b} |-> 2^((i + 1) % 8)])]

ServerRow(row) == <<0>> \o NullBits(row) \o FlattenSeq([i \in DOMAIN row |-> row[i].bytes])

TextCells ==
  {NullValue, Val("Text", <<>>), Val("Text", Letters(2)), Val("Text", [i \in 1..250 |-> 97]),
   Val("Text", [i \in 1..251 |-> 98]), Val("Number", <<48>>), Val("Number", <<49, 48>>),
   Val("Decimal", <<49, 46, 48>>), Val("Bytes", <<0, 255>>)}

TextColumn(value) ==
  [type |-> CASE value.k = "Number" -> "LONG" [] value.k = "Decimal" -> "NEWDECIMAL"
              [] value.k = "Bytes" -> "BLOB" [] OTHER -> "VAR_STRING"]

MySqlWireInputs ==
  [numbers |-> UpTo(NumbersSent, 3), execute |-> UpTo(NumbersSent \cup OthersSent, 2),
   bound |-> UpTo(Bindable, 2) \cup AmongNine, binary |-> Rows, text |-> UpTo(TextCells, 3),
   lengths |-> {0, 1, 250, 251, 252, 65535, 65536, 16777215, 16777216}]

(* Numbers given to a prepared statement are read as they were given,       *)
(* although the packet does not say how many there are and the first count  *)
(* that fits is taken (decode_stmt_execute_params).                         *)
NumbersDecoded ==
  Looking("numbers") =>
    decode_stmt_execute_params(ClientPacket(input[1]))
      = <<[i \in DOMAIN input[1] |-> Meant(input[1][i])]>>

(* The parameters given to a prepared statement are read as they were given *)
(* (decode_stmt_execute_params).                                            *)
ParamsDecoded ==
  Looking("execute") =>
    decode_stmt_execute_params(ClientPacket(input[1]))
      = <<[i \in DOMAIN input[1] |-> Meant(input[1][i])]>>

(* What the gateway binds is what the backend reads, with the types the     *)
(* packet announces: NULL in any place, times of more than a day as the     *)
(* same length, and texts that only look like a date as text                *)
(* (encode_stmt_execute_payload, classify_mysql_temporal_string).           *)
ParamsBound ==
  Looking("bound") =>
    \E read \in ToSet(try_decode_params_with_count(encode_stmt_execute_payload(input[1]), Len(input[1]))) :
      \A i \in DOMAIN input[1] : AsLength(read[i]) = AsLength(ServerReads(input[1][i]))

(* A value of a binary row reaches the client with the type announced for   *)
(* its column as the value the backend sent, whatever stands beside it, for *)
(* every type but those of INT24, YEAR, BIT and the small unsigned ones     *)
(* (binary_row_to_gateway_values, encode_binary_row, mysql_column_type).    *)
RowsArrive ==
  Looking("binary") =>
    LET row == input[1]
        names == [i \in DOMAIN row |-> TypeName(row[i].type)]
        Arrived(client, i) == IF row[i].null THEN client[i] = NullValue
                              ELSE client[i].v = decode_binary_param_value(row[i].bytes, row[i].type).value.v
    IN \E values \in ToSet(binary_row_to_gateway_values(ServerRow(row), row)) :
         \E sent \in ToSet(encode_binary_row(values, names)) :
           \E client \in ToSet(RowOf(sent, [i \in DOMAIN row |-> mysql_column_type(names[i])], decode_binary_param_value)) :
             \A i \in DOMAIN row : Arrived(client, i)

(* A row in text is read and written again value by value: NULL is not the  *)
(* empty text, and a text of any length keeps its end                       *)
(* (text_row_to_gateway_values, encode_text_row).                           *)
TextRowsKept ==
  Looking("text") =>
    text_row_to_gateway_values(encode_text_row(input[1]), [i \in DOMAIN input[1] |-> TextColumn(input[1][i])])
      = <<input[1]>>

(* A length is read as it was written, at every change of its form          *)
(* (put_lenc_int, decode_lenc_int).                                         *)
LengthsKept ==
  Looking("lengths") =>
    decode_lenc_int(put_lenc_int(input[1]))
      = [ok |-> TRUE, null |-> FALSE, len |-> IF input[1] < 2^24 THEN input[1] ELSE Huge,
         used |-> Len(put_lenc_int(input[1]))]

=============================================================================
